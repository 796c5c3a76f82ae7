----------------------- MODULE MultitorqueCodecProofs -----------------------
(***************************************************************************)
(* What encode() and decode() of the Multitorque messages guarantee, for   *)
(* every message, every buffer and every size.                             *)
(***************************************************************************)
EXTENDS MultitorqueCodec, TLAPS

Types == {"uint8", "uint32", "int32", "float"}

(* The values a message object can hold: 8-bit fields hold 8 bits. *)
Holdable(id, values) ==
    \A i \in DOMAIN Fields[id] :
        values[i] \in Nat /\ (Fields[id][i] = "uint8" => values[i] < 256)

-----------------------------------------------------------------------------
(* Division with remainder. *)
LEMMA Remainder ==
    ASSUME NEW a \in Nat, NEW m \in Nat, NEW r \in Nat, r < m
    PROVE  /\ (a * m + r) % m = r
           /\ (a * m + r) \div m = a
           /\ r % m = r
  OBVIOUS

Formats == {f \in Seq(Types) : Len(f) <= 12}

LEMMA RepeatFormat ==
    ASSUME NEW n \in Nat, NEW type \in Types
    PROVE  Repeat(n, type) \in Seq(Types) /\ Len(Repeat(n, type)) = n
  BY DEF Repeat

LEMMA EmptyFormat == <<>> \in Formats
  BY DEF Formats

LEMMA SingleFormat ==
    ASSUME NEW type \in Types
    PROVE  <<type>> \in Formats
  BY DEF Formats

LEMMA RepeatedFormat ==
    ASSUME NEW n \in Nat, NEW type \in Types, n <= 12
    PROVE  Repeat(n, type) \in Formats
  BY RepeatFormat DEF Formats

LEMMA JoinedFormat ==
    ASSUME NEW s \in Seq(Types), NEW t \in Seq(Types), NEW m \in Nat, NEW n \in Nat,
           Len(s) = m, Len(t) = n, m + n <= 12
    PROVE  s \o t \in Formats
  BY DEF Formats

LEMMA RowFormat == <<"uint32">> \o Repeat(6, "float") \in Formats
<1>1. <<"uint32">> \in Seq(Types) /\ Len(<<"uint32">>) = 1
  BY DEF Types
<1>2. Repeat(6, "float") \in Seq(Types) /\ Len(Repeat(6, "float")) = 6
  BY RepeatFormat DEF Types
<1>3. 1 \in Nat /\ 6 \in Nat /\ 1 + 6 <= 12
  OBVIOUS
<1> QED
  BY <1>1, <1>2, <1>3, JoinedFormat, Zenon

LEMMA ElementType ==
    ASSUME NEW S, NEW s \in Seq(S), NEW i \in 1..Len(s)
    PROVE  s[i] \in S
  OBVIOUS

(* Every message is a sequence of at most twelve fields. *)
LEMMA FieldsType == Fields \in Seq(Formats) /\ Len(Fields) = 40
<1>1. /\ GetBoardInfo \in Formats /\ CalibrateOffsets \in Formats /\ GetFault \in Formats
      /\ GetSampleStreamPolicy \in Formats /\ GetCalibrationTemp \in Formats
      /\ GetCalibrationOffsets \in Formats /\ SaveParamsOnFlash \in Formats
      /\ GetIpAddress \in Formats /\ GetMacAddress \in Formats /\ GetNetmask \in Formats
      /\ GetGateway \in Formats /\ LoadInventoryDataFromFlash \in Formats
  BY EmptyFormat DEF GetBoardInfo, CalibrateOffsets, GetFault, GetSampleStreamPolicy,
    GetCalibrationTemp, GetCalibrationOffsets, SaveParamsOnFlash, GetIpAddress, GetMacAddress,
    GetNetmask, GetGateway, LoadInventoryDataFromFlash
<1>2. <<"uint32">> \in Formats /\ <<"int32">> \in Formats
  BY SingleFormat DEF Types
<1>3. /\ ReplyBoardInfo \in Formats /\ ReplyCalibrateOffsets \in Formats /\ ReplyFault \in Formats
      /\ ClearFault \in Formats /\ ReplyClearFault \in Formats
      /\ ReplySetSampleStreamPolicy \in Formats /\ ReplyGetSampleStreamPolicy \in Formats
      /\ ReplySetTempFactors \in Formats /\ ReplyGetCalibrationTemp \in Formats
  BY <1>2 DEF ReplyBoardInfo, ReplyCalibrateOffsets, ReplyFault, ClearFault, ReplyClearFault,
    ReplySetSampleStreamPolicy, ReplyGetSampleStreamPolicy, ReplySetTempFactors,
    ReplyGetCalibrationTemp, BoardReturnCode, SampleStreamPolicy
<1>4. /\ ReplySetCalibrationMatrixRow \in Formats /\ GetCalibrationMatrixRow \in Formats
      /\ SetIpAddress \in Formats /\ ReplyGetIpAddress \in Formats
      /\ ReplySetMacAddress \in Formats /\ SetNetmask \in Formats
      /\ ReplyGetNetmask \in Formats /\ SetGateway \in Formats /\ ReplyGetGateway \in Formats
  BY <1>2 DEF ReplySetCalibrationMatrixRow, GetCalibrationMatrixRow, SetIpAddress,
    ReplyGetIpAddress, ReplySetMacAddress, SetNetmask, ReplyGetNetmask, SetGateway,
    ReplyGetGateway, BoardReturnCode, MacAddressReturnCode
<1>5. Repeat(6, "uint32") \in Formats /\ Repeat(5, "uint32") \in Formats
      /\ Repeat(8, "uint8") \in Formats /\ Repeat(12, "float") \in Formats
  BY RepeatedFormat DEF Types
<1>6. /\ SetTempFactors \in Formats /\ ReplyGetCalibrationOffsets \in Formats
      /\ BCastSensorData \in Formats /\ SetMacAddress \in Formats /\ ReplyGetMacAddress \in Formats
      /\ SaveInventoryDataOnFlash \in Formats /\ ReplyLoadInventoryDataFromFlash \in Formats
  BY <1>5 DEF SetTempFactors, ReplyGetCalibrationOffsets, BCastSensorData, SetMacAddress,
    ReplyGetMacAddress, SaveInventoryDataOnFlash, ReplyLoadInventoryDataFromFlash
<1>7. /\ SetCalibrationMatrixRow \in Formats /\ ReplyGetCalibrationMatrixRow \in Formats
      /\ SetSampleStreamPolicy \in Formats
  <2>1. SetSampleStreamPolicy \in Formats
    BY DEF SetSampleStreamPolicy, SampleStreamPolicy, Formats, Types
  <2> QED
    BY <2>1, RowFormat DEF SetCalibrationMatrixRow, ReplyGetCalibrationMatrixRow
<1> QED
  BY <1>1, <1>3, <1>4, <1>6, <1>7, SMTT(60) DEF Fields

LEMMA FieldsDomain ==
    ASSUME NEW id \in Ids
    PROVE  /\ DOMAIN Fields[id] = 1..Len(Fields[id])
           /\ Len(Fields[id]) \in Nat /\ Len(Fields[id]) <= 12
           /\ EncodedSize(id) \in Nat /\ EncodedSize(id) >= 4 /\ EncodedSize(id) <= 52
<1>1. Fields[id] \in Formats
  <2>1. id \in 1..Len(Fields)
    BY FieldsType DEF Ids
  <2> QED
    BY <2>1, FieldsType, ElementType
<1>2. Fields[id] \in Seq(Types) /\ Len(Fields[id]) \in Nat /\ Len(Fields[id]) <= 12
  BY <1>1 DEF Formats
<1> QED
  BY <1>2 DEF EncodedSize

(* unpackHeaderInfo() restores what packHeaderInfo() packed. *)
THEOREM HeaderRestored ==
    ASSUME NEW id \in Nat, NEW size \in Nat, NEW encoding \in Nat,
           id < 4096, size < 65536, encoding < 16
    PROVE  unpackHeaderInfo(packHeaderInfo(id, size, encoding)) =
             [id |-> id, size |-> size, encoding |-> encoding]
<1> DEFINE word == id * 1048576 + encoding * 65536 + size
<1>1. id % 4096 = id /\ encoding % 16 = encoding /\ size % 65536 = size
  OBVIOUS
<1>2. word \div 1048576 = id /\ word \div 65536 = id * 16 + encoding /\ word % 65536 = size
  OBVIOUS
<1>3. (id * 16 + encoding) % 16 = encoding
  OBVIOUS
<1>4. packHeaderInfo(id, size, encoding) = word
  BY <1>1 DEF packHeaderInfo
<1> HIDE DEF word
<1> QED
  BY <1>1, <1>2, <1>3, <1>4 DEF unpackHeaderInfo

(* What is read back from a word after a value was stored in it. *)
LEMMA LoadStored ==
    ASSUME NEW type, NEW value \in Nat, NEW word \in Nat, type = "uint8" => value < 256
    PROVE  LoadValue(type, StoreValue(type, value, word)) = value
<1>1. value % 256 \in 0..255 /\ word = (word \div 256) * 256 + (word % 256) /\ word \div 256 \in Nat
  OBVIOUS
<1>2. ((word - (word % 256)) + (value % 256)) % 256 = value % 256
  <2>1. (word - (word % 256)) + (value % 256) = (word \div 256) * 256 + (value % 256)
    BY <1>1
  <2> QED
    BY <1>1, <2>1, Remainder
<1>3. value < 256 => value % 256 = value
  BY Remainder
<1> QED
  BY <1>2, <1>3 DEF LoadValue, StoreValue

-----------------------------------------------------------------------------
(* The sizes at which the fields have room. *)
LEMMA RoomInside ==
    ASSUME NEW n \in Nat, NEW i \in Nat, n < SizeModulus, 4 * i <= n
    PROVE  HasRoom(i, n) <=> 4 * (i + 1) <= n
<1>1. n - 4 * i \in 0..(SizeModulus - 1)
  BY SizeModulusAssumption
<1>2. (n - 4 * i) % SizeModulus = n - 4 * i
  BY <1>1, SizeModulusAssumption, Remainder
<1> QED
  BY <1>2 DEF HasRoom, ToSize

LEMMA ReachedInside ==
    ASSUME NEW n \in Nat, NEW i \in Nat, n < SizeModulus, n >= 4, i >= 1
    PROVE  Reached(i, n) <=> 4 * (i + 1) <= n
<1>1. ASSUME 4 * (i + 1) <= n PROVE Reached(i, n)
  BY <1>1, RoomInside DEF Reached
<1>2. ASSUME 4 * (i + 1) > n PROVE ~Reached(i, n)
  <2> DEFINE last == n \div 4
  <2>1. last \in 1..i /\ 4 * last <= n /\ 4 * (last + 1) > n
    BY <1>2
  <2>2. ~HasRoom(last, n)
    BY <2>1, RoomInside
  <2> QED
    BY <2>1, <2>2 DEF Reached
<1> QED
  BY <1>1, <1>2

LEMMA AllReached ==
    ASSUME NEW id \in Ids, NEW n \in Nat, n < SizeModulus, n >= 4
    PROVE  Reached(Len(Fields[id]), n) <=> EncodedSize(id) <= n
<1>1. CASE Len(Fields[id]) = 0
  BY <1>1 DEF Reached, EncodedSize
<1>2. CASE Len(Fields[id]) # 0
  BY <1>2, FieldsDomain, ReachedInside DEF EncodedSize
<1> QED
  BY <1>1, <1>2

-----------------------------------------------------------------------------
(* Whatever the message and the values, encode() changes no word beyond the *)
(* size it is given, as long as that size has room for a header.            *)
THEOREM EncodeStaysInside ==
    ASSUME NEW id \in Ids, NEW values, NEW k \in Nat, NEW content \in [1..k -> Nat],
           NEW n \in Nat, 4 <= n, n < SizeModulus,
           NEW w \in 1..k, 4 * w > n
    PROVE  Encode(id, values, content, n)[w] = content[w]
<1>1. w # 1
  OBVIOUS
<1>2. ~(w - 1 \in DOMAIN Fields[id] /\ Reached(w - 1, n))
  <2>1. SUFFICES ASSUME w - 1 \in 1..Len(Fields[id]), Reached(w - 1, n) PROVE FALSE
    BY FieldsDomain
  <2>2. w - 1 \in Nat /\ w - 1 >= 1 /\ 4 * ((w - 1) + 1) = 4 * w
    BY <2>1, FieldsDomain
  <2> QED
    BY <2>1, <2>2, ReachedInside
<1> QED
  BY <1>1, <1>2 DEF Encode

(* What encode() returns and leaves behind when there is room. *)
LEMMA EncodedCode ==
    ASSUME NEW id \in Ids, NEW n \in Nat, EncodedSize(id) <= n, n < SizeModulus
    PROVE  Reached(Len(Fields[id]), n) /\ EncodeCode(id, n) = EncodedSize(id)
<1>1. n >= 4
  BY FieldsDomain
<1> QED
  BY <1>1, AllReached DEF EncodeCode

LEMMA EncodedHeader ==
    ASSUME NEW id \in Ids, NEW values, NEW k \in Nat, NEW content, DOMAIN content = 1..k,
           NEW n \in Nat, EncodedSize(id) <= n, n < SizeModulus, EncodedSize(id) <= 4 * k
    PROVE  Encode(id, values, content, n)[1] =
             packHeaderInfo(id, EncodedSize(id), ENCODING_TYPE)
<1>1. k >= 1 /\ EncodedSize(id) >= 0
  BY FieldsDomain
<1>2. EncodeCode(id, n) >= 0
  BY <1>1, EncodedCode
<1> QED
  BY <1>1, <1>2 DEF Encode

LEMMA EncodedFields ==
    ASSUME NEW id \in Ids, NEW values, NEW k \in Nat, NEW content, DOMAIN content = 1..k,
           NEW n \in Nat, EncodedSize(id) <= n, n < SizeModulus, EncodedSize(id) <= 4 * k
    PROVE  \A i \in DOMAIN Fields[id] :
             Encode(id, values, content, n)[i + 1] =
               StoreValue(Fields[id][i], values[i], content[i + 1])
<1> SUFFICES ASSUME NEW i \in DOMAIN Fields[id]
             PROVE  Encode(id, values, content, n)[i + 1] =
                      StoreValue(Fields[id][i], values[i], content[i + 1])
  OBVIOUS
<1>1. i \in Nat /\ i >= 1 /\ i <= Len(Fields[id]) /\ Len(Fields[id]) \in Nat
  BY FieldsDomain
<1>2. i + 1 \in 1..k /\ i + 1 # 1 /\ (i + 1) - 1 = i
  BY <1>1 DEF EncodedSize
<1>3. Reached(i, n)
  BY <1>1, EncodedCode DEF Reached
<1> QED
  BY <1>2, <1>3 DEF Encode

(* decode() of the bytes encode() produced restores the header and every   *)
(* field, in any buffer whatever it held before, for every message.        *)
THEOREM DecodeRestores ==
    ASSUME NEW id \in Ids, NEW values, Holdable(id, values),
           NEW k \in Nat, NEW content \in [1..k -> Nat],
           NEW n \in Nat, EncodedSize(id) <= n, n < SizeModulus, EncodedSize(id) <= 4 * k
    PROVE  /\ DecodeCode(id, EncodeCode(id, n)) = EncodedSize(id)
           /\ Decode(id, NewMessage(id), Encode(id, values, content, n), EncodeCode(id, n)) =
                [header |-> [id |-> id, size |-> EncodedSize(id), encoding |-> ENCODING_TYPE],
                 values |-> [i \in DOMAIN Fields[id] |-> values[i]]]
<1> DEFINE packet == Encode(id, values, content, n)
           size == EncodedSize(id)
<1>1. /\ EncodeCode(id, n) = size
      /\ packet[1] = packHeaderInfo(id, size, ENCODING_TYPE)
      /\ \A i \in DOMAIN Fields[id] :
           packet[i + 1] = StoreValue(Fields[id][i], values[i], content[i + 1])
  <2>1. DOMAIN content = 1..k
    OBVIOUS
  <2>2. EncodeCode(id, n) = size
    BY EncodedCode
  <2>3. packet[1] = packHeaderInfo(id, size, ENCODING_TYPE)
    BY <2>1, EncodedHeader
  <2>4. \A i \in DOMAIN Fields[id] :
          packet[i + 1] = StoreValue(Fields[id][i], values[i], content[i + 1])
    BY <2>1, EncodedFields
  <2> QED
    BY <2>2, <2>3, <2>4
<1>2. size \in Nat /\ size >= 4 /\ size <= 52 /\ size < SizeModulus
  BY FieldsDomain, ContentWordsAssumption, SizeModulusAssumption
<1>3. Reached(Len(Fields[id]), size)
  BY <1>2, AllReached
<1>4. HasRoom(0, size)
  BY <1>2, RoomInside
<1>5. unpackHeaderInfo(packet[1]) = [id |-> id, size |-> size, encoding |-> ENCODING_TYPE]
  <2>1. id \in Nat /\ id < 4096
    BY DEF Ids
  <2>2. ENCODING_TYPE \in Nat /\ ENCODING_TYPE < 16
    BY DEF ENCODING_TYPE
  <2>3. size < 65536
    BY <1>2
  <2>4. packet[1] = packHeaderInfo(id, size, ENCODING_TYPE)
    BY <1>1
  <2>5. size \in Nat
    BY <1>2
  <2> HIDE DEF size, packet
  <2>6. unpackHeaderInfo(packHeaderInfo(id, size, ENCODING_TYPE)) =
          [id |-> id, size |-> size, encoding |-> ENCODING_TYPE]
    BY <2>1, <2>2, <2>3, <2>5, HeaderRestored
  <2> QED
    BY <2>4, <2>6
<1>6. ASSUME NEW i \in DOMAIN Fields[id]
      PROVE  Reached(i, size) /\ LoadValue(Fields[id][i], packet[i + 1]) = values[i]
  <2>1. i \in Nat /\ i >= 1 /\ i <= Len(Fields[id]) /\ Len(Fields[id]) \in Nat
    <3>1. DOMAIN Fields[id] = 1..Len(Fields[id]) /\ Len(Fields[id]) \in Nat
      BY FieldsDomain
    <3> QED
      BY <3>1
  <2>2. Reached(i, size)
    BY <1>3, <2>1 DEF Reached
  <2>3. content[i + 1] \in Nat
    BY <2>1 DEF EncodedSize
  <2>4. values[i] \in Nat /\ (Fields[id][i] = "uint8" => values[i] < 256)
    BY DEF Holdable
  <2> QED
    BY <1>1, <2>2, <2>3, <2>4, LoadStored
<1> HIDE DEF size, packet
<1>7. DecodeCode(id, size) = size
  BY <1>3, <1>4 DEF DecodeCode, size
<1>8. Decode(id, NewMessage(id), packet, size) =
        [header |-> [id |-> id, size |-> size, encoding |-> ENCODING_TYPE],
         values |-> [i \in DOMAIN Fields[id] |-> values[i]]]
  BY <1>4, <1>5, <1>6 DEF Decode
<1> QED
  BY <1>1, <1>7, <1>8 DEF size, packet

(* decode() refuses every message shorter than the one it expects. *)
THEOREM ShortMessageIsRefused ==
    ASSUME NEW id \in Ids, NEW n \in Nat, n < EncodedSize(id)
    PROVE  DecodeCode(id, n) = -1
<1>1. n < SizeModulus /\ EncodedSize(id) \in Nat
  BY FieldsDomain, ContentWordsAssumption, SizeModulusAssumption
<1>2. CASE n < 4
  BY <1>1, <1>2, RoomInside DEF DecodeCode
<1>3. CASE n >= 4
  BY <1>1, <1>3, AllReached DEF DecodeCode
<1> QED
  BY <1>2, <1>3

-----------------------------------------------------------------------------
(* Messages in the buffers of the Ethernet service. *)

(* What a buffer holds after the first k words of a packet arrived in it. *)
Arrived(packet, old, k) ==
    [w \in DOMAIN old |-> IF w <= k THEN packet[w] ELSE old[w]]

(* encode() is told sizeof(CharBuff), eight bytes more than the content    *)
(* has: every message is encoded all the same, within the content, and     *)
(* without changing any word behind it.                                    *)
THEOREM MessagesFit ==
    ASSUME NEW id \in Ids, NEW values, NEW content \in [1..ContentWords -> Nat]
    PROVE  /\ EncodeCode(id, SizeofCharBuff) = EncodedSize(id)
           /\ EncodedSize(id) <= 4 * ContentWords
           /\ \A w \in 1..ContentWords :
                4 * w > EncodedSize(id)
                  => Encode(id, values, content, SizeofCharBuff)[w] = content[w]
<1>1. /\ SizeofCharBuff \in Nat /\ SizeofCharBuff < SizeModulus
      /\ EncodedSize(id) <= SizeofCharBuff /\ EncodedSize(id) <= 4 * ContentWords
  BY FieldsDomain, ContentWordsAssumption, SizeModulusAssumption DEF SizeofCharBuff
<1>2. ASSUME NEW w \in 1..ContentWords, 4 * w > EncodedSize(id)
      PROVE  Encode(id, values, content, SizeofCharBuff)[w] = content[w]
  <2>1. w # 1 /\ ~(w - 1 \in DOMAIN Fields[id])
    BY <1>2, FieldsDomain DEF EncodedSize
  <2> QED
    BY <2>1 DEF Encode
<1> QED
  BY <1>1, <1>2, EncodedCode

(* decode() looks at no word behind the message it expects, whatever size  *)
(* it is told: even for the -1 of a failed recv(), which became huge.      *)
THEOREM DecodeStaysInside ==
    ASSUME NEW id \in Ids, NEW object, NEW n, NEW one, NEW other,
           \A w \in 1..ContentWords : 4 * w <= EncodedSize(id) => one[w] = other[w]
    PROVE  Decode(id, object, one, n) = Decode(id, object, other, n)
<1>1. 1 \in 1..ContentWords /\ 4 * 1 <= EncodedSize(id)
  BY FieldsDomain, ContentWordsAssumption
<1>2. one[1] = other[1]
  BY <1>1
<1>3. ASSUME NEW i \in DOMAIN Fields[id] PROVE one[i + 1] = other[i + 1]
  <2>1. i \in Nat /\ i >= 1 /\ i <= Len(Fields[id]) /\ Len(Fields[id]) <= 12 /\ Len(Fields[id]) \in Nat
    BY FieldsDomain
  <2>2. i + 1 \in 1..ContentWords /\ 4 * (i + 1) <= EncodedSize(id)
    BY <2>1, ContentWordsAssumption DEF EncodedSize
  <2> QED
    BY <2>2
<1> QED
  BY <1>2, <1>3 DEF Decode

(* A message encoded in one buffer, sent, and received whole in another    *)
(* buffer of the service is decoded there to the message that was sent,    *)
(* whatever both buffers held before.                                      *)
THEOREM SentIsReceived ==
    ASSUME NEW id \in Ids, NEW values, Holdable(id, values),
           NEW sender \in [1..ContentWords -> Nat], NEW receiver \in [1..ContentWords -> Nat]
    PROVE  LET packet == Encode(id, values, sender, SizeofCharBuff)
               sent == EncodeCode(id, SizeofCharBuff)
           IN  /\ DecodeCode(id, sent) = sent
               /\ Decode(id, NewMessage(id), Arrived(packet, receiver, sent \div 4), sent) =
                    [header |-> [id |-> id, size |-> sent, encoding |-> ENCODING_TYPE],
                     values |-> [i \in DOMAIN Fields[id] |-> values[i]]]
<1> DEFINE packet == Encode(id, values, sender, SizeofCharBuff)
           sent == EncodeCode(id, SizeofCharBuff)
           received == Arrived(packet, receiver, sent \div 4)
<1>1. /\ SizeofCharBuff \in Nat /\ SizeofCharBuff < SizeModulus /\ ContentWords \in Nat
      /\ EncodedSize(id) <= SizeofCharBuff /\ EncodedSize(id) <= 4 * ContentWords
  BY FieldsDomain, ContentWordsAssumption, SizeModulusAssumption DEF SizeofCharBuff
<1>2. sent = EncodedSize(id)
  BY <1>1, EncodedCode
<1>3. /\ DecodeCode(id, sent) = EncodedSize(id)
      /\ Decode(id, NewMessage(id), packet, sent) =
           [header |-> [id |-> id, size |-> EncodedSize(id), encoding |-> ENCODING_TYPE],
            values |-> [i \in DOMAIN Fields[id] |-> values[i]]]
  BY <1>1, DecodeRestores
<1>4. ASSUME NEW w \in 1..ContentWords, 4 * w <= EncodedSize(id)
      PROVE  received[w] = packet[w]
  <2>1. w <= EncodedSize(id) \div 4
    BY <1>4, FieldsDomain
  <2> QED
    BY <1>2, <2>1 DEF Arrived
<1> HIDE DEF packet, received
<1>5. Decode(id, NewMessage(id), received, sent) = Decode(id, NewMessage(id), packet, sent)
  BY <1>4, DecodeStaysInside
<1> QED
  BY <1>2, <1>3, <1>5 DEF packet, received

(* decode() does not look at the identifier: whatever message arrived is   *)
(* decoded if it is long enough.  The header it leaves in the object does  *)
(* tell: it is the identifier of the message that was encoded, so the      *)
(* callers that compare it with their reply's are never misled.            *)
THEOREM HeaderTellsTheMessage ==
    ASSUME NEW expected \in Ids, NEW id \in Ids, NEW values,
           NEW content \in [1..ContentWords -> Nat]
    PROVE  LET packet == Encode(id, values, content, SizeofCharBuff)
               sent == EncodeCode(id, SizeofCharBuff)
           IN  /\ DecodeCode(expected, sent) # -1 <=> EncodedSize(expected) <= EncodedSize(id)
               /\ Decode(expected, NewMessage(expected), packet, sent).header =
                    [id |-> id, size |-> sent, encoding |-> ENCODING_TYPE]
<1> DEFINE packet == Encode(id, values, content, SizeofCharBuff)
           sent == EncodeCode(id, SizeofCharBuff)
<1>1. /\ SizeofCharBuff \in Nat /\ SizeofCharBuff < SizeModulus /\ ContentWords \in Nat
      /\ EncodedSize(id) <= SizeofCharBuff /\ EncodedSize(id) <= 4 * ContentWords
  BY FieldsDomain, ContentWordsAssumption, SizeModulusAssumption DEF SizeofCharBuff
<1>2. /\ sent = EncodedSize(id) /\ sent \in Nat /\ sent >= 4 /\ sent <= 52 /\ sent < SizeModulus
      /\ EncodedSize(expected) \in Nat /\ EncodedSize(expected) >= 4
  BY <1>1, EncodedCode, FieldsDomain, ContentWordsAssumption, SizeModulusAssumption
<1>3. packet[1] = packHeaderInfo(id, EncodedSize(id), ENCODING_TYPE)
  <2>1. DOMAIN content = 1..ContentWords
    OBVIOUS
  <2> QED
    BY <1>1, <2>1, EncodedHeader
<1> HIDE DEF packet, sent
<1>4. unpackHeaderInfo(packet[1]) = [id |-> id, size |-> sent, encoding |-> ENCODING_TYPE]
  <2>1. id \in Nat /\ id < 4096 /\ sent < 65536 /\ ENCODING_TYPE \in Nat /\ ENCODING_TYPE < 16
    BY <1>2 DEF Ids, ENCODING_TYPE
  <2>2. sent \in Nat /\ id \in Nat
    BY <1>2, <2>1
  <2>3. unpackHeaderInfo(packHeaderInfo(id, sent, ENCODING_TYPE)) =
          [id |-> id, size |-> sent, encoding |-> ENCODING_TYPE]
    BY <2>1, <2>2, HeaderRestored
  <2>4. packet[1] = packHeaderInfo(id, sent, ENCODING_TYPE)
    BY <1>2, <1>3
  <2> QED
    BY <2>3, <2>4
<1>5. HasRoom(0, sent)
  BY <1>2, RoomInside
<1>6. DecodeCode(expected, sent) # -1 <=> EncodedSize(expected) <= sent
  BY <1>2, <1>5, AllReached DEF DecodeCode
<1>7. Decode(expected, NewMessage(expected), packet, sent).header = unpackHeaderInfo(packet[1])
  BY <1>5 DEF Decode
<1> QED
  BY <1>2, <1>4, <1>6, <1>7 DEF packet, sent

(* The handler of datagrams decodes with sizeof(CharBuff) whatever         *)
(* recvfrom() returned.  Of a datagram of which only k words arrived it    *)
(* reports nothing: the fields behind them are those the buffer held       *)
(* before, those in front are new.                                         *)
THEOREM ShortDatagramIsCompleted ==
    ASSUME NEW id \in Ids, NEW object, NEW packet, NEW old, DOMAIN old = 1..ContentWords,
           NEW k \in Nat
    PROVE  LET content == Arrived(packet, old, k)
           IN  /\ DecodeCode(id, SizeofCharBuff) = EncodedSize(id)
               /\ \A i \in DOMAIN Fields[id] :
                    Decode(id, object, content, SizeofCharBuff).values[i] =
                      LoadValue(Fields[id][i], IF i < k THEN packet[i + 1] ELSE old[i + 1])
<1> DEFINE content == Arrived(packet, old, k)
<1>1. /\ SizeofCharBuff \in Nat /\ SizeofCharBuff < SizeModulus /\ SizeofCharBuff >= 4
      /\ EncodedSize(id) <= SizeofCharBuff
  BY FieldsDomain, ContentWordsAssumption, SizeModulusAssumption DEF SizeofCharBuff
<1>2. Reached(Len(Fields[id]), SizeofCharBuff) /\ HasRoom(0, SizeofCharBuff)
  BY <1>1, EncodedCode, RoomInside
<1>3. ASSUME NEW i \in DOMAIN Fields[id]
      PROVE  Decode(id, object, content, SizeofCharBuff).values[i] =
               LoadValue(Fields[id][i], IF i < k THEN packet[i + 1] ELSE old[i + 1])
  <2>1. i \in Nat /\ i >= 1 /\ i <= Len(Fields[id]) /\ Len(Fields[id]) <= 12 /\ Len(Fields[id]) \in Nat
    BY FieldsDomain
  <2>2. Reached(i, SizeofCharBuff)
    BY <1>2, <2>1 DEF Reached
  <2>3. content[i + 1] = IF i < k THEN packet[i + 1] ELSE old[i + 1]
    <3>1. i + 1 \in DOMAIN old /\ (i + 1 <= k <=> i < k)
      BY <2>1, ContentWordsAssumption
    <3> QED
      BY <3>1 DEF Arrived
  <2> HIDE DEF content
  <2> QED
    BY <1>2, <2>2, <2>3 DEF Decode
<1>4. DecodeCode(id, SizeofCharBuff) = EncodedSize(id)
  BY <1>2 DEF DecodeCode
<1> QED
  BY <1>3, <1>4
=============================================================================
