------------------------- MODULE AmeCommandsProofs -------------------------
(***************************************************************************)
(* The commands of an AME sensor for every set of methods, every board and *)
(* any number of calls: the buffers keep their types, a reply that passes  *)
(* the checks is one reply of the board, and while calls and replies are   *)
(* in step a method obtains the reply to its own request.                  *)
(***************************************************************************)
EXTENDS AmeCommands, MultitorqueCodecProofs

-----------------------------------------------------------------------------
(* Types of the operators. *)
LEMMA MethodType ==
    ASSUME NEW m \in FtSensorNew
    PROVE  /\ m.request \in Ids /\ m.request # 0
           /\ m.reply # 0 => m.reply \in Ids /\ m.reply = m.request + 1
  BY DEF FtSensorNew, Ids, Method, calibrateOffsets, getCalibrationOffsets, setSampleStreamPol,
    getBoardInfo, setMtxRow, getMtxRow, saveParamsOnFlash, setIpAddress, getIpAddress,
    setMacAddress, getMacAddress, setNetmask, getNetmask, setGateway, getGateway, readInventory,
    writeInventory

LEMMA IdsAreNumbers ==
    ASSUME NEW id \in Ids
    PROVE  id \in Nat /\ id # 0
  BY DEF Ids

LEMMA AnswerableType ==
    ASSUME NEW id \in Answered
    PROVE  id \in Ids /\ id + 1 \in Ids
  BY AnsweredAssumption DEF Answerable, Ids

LEMMA ToSizeType ==
    ASSUME NEW n \in Int
    PROVE  ToSize(n) \in 0..(SizeModulus - 1)
  BY SizeModulusAssumption, ContentWordsAssumption DEF ToSize

LEMMA HeaderType ==
    ASSUME NEW id \in Nat, NEW size \in Nat, NEW encoding \in Nat
    PROVE  packHeaderInfo(id, size, encoding) \in Nat
<1>1. id % 4096 \in Nat /\ encoding % 16 \in Nat /\ size % 65536 \in Nat
  OBVIOUS
<1> QED
  BY <1>1 DEF packHeaderInfo

LEMMA StoreValueType ==
    ASSUME NEW type, NEW value \in Nat, NEW word \in Nat
    PROVE  StoreValue(type, value, word) \in Nat
<1>1. value % 256 \in Nat /\ word % 256 \in Nat /\ word % 256 <= word
  OBVIOUS
<1>2. (word - (word % 256)) + (value % 256) \in Nat
  BY <1>1
<1> QED
  BY <1>2 DEF StoreValue

LEMMA Interval ==
    ASSUME NEW i, NEW n \in Nat, NEW k \in Nat, i \in 1..n, n <= k
    PROVE  i \in 1..k
  OBVIOUS

LEMMA FieldPlace ==
    ASSUME NEW id \in Ids, NEW i \in DOMAIN Fields[id]
    PROVE  i \in 1..12
<1>1. i \in 1..Len(Fields[id]) /\ Len(Fields[id]) \in Nat /\ Len(Fields[id]) <= 12
  BY FieldsDomain
<1>2. 12 \in Nat
  OBVIOUS
<1> QED
  BY <1>1, <1>2, Interval, Zenon

LEMMA EncodeType ==
    ASSUME NEW id \in Ids, NEW values \in [1..12 -> Nat],
           NEW k \in Nat, NEW content \in [1..k -> Nat], NEW n \in Int
    PROVE  Encode(id, values, content, n) \in [1..k -> Nat]
<1>1. packHeaderInfo(id, EncodedSize(id), ENCODING_TYPE) \in Nat
  <2>1. id \in Nat /\ EncodedSize(id) \in Nat /\ ENCODING_TYPE \in Nat
    <3>1. id \in Nat
      BY DEF Ids
    <3> QED
      BY <3>1, FieldsDomain DEF ENCODING_TYPE
  <2> QED
    BY <2>1, HeaderType, Zenon
<1>2. ASSUME NEW w \in 1..k, w - 1 \in DOMAIN Fields[id]
      PROVE  StoreValue(Fields[id][w - 1], values[w - 1], content[w]) \in Nat
  <2>1. w - 1 \in 1..12
    BY <1>2, FieldPlace
  <2>2. values[w - 1] \in Nat /\ content[w] \in Nat
    BY <2>1
  <2> QED
    BY <2>2, StoreValueType, Zenon
<1> QED
  BY <1>1, <1>2 DEF Encode

-----------------------------------------------------------------------------
(* Type correctness. *)
Requests == [call : Calls, id : {m.request : m \in Methods}]

LEMMA BuffersType ==
    ASSUME NEW content \in [1..ContentWords -> Words], NEW n \in Int
    PROVE  [content |-> content, size |-> ToSize(n)] \in Buffers
  BY ToSizeType DEF Buffers

LEMMA ArgumentsType ==
    ASSUME NEW call \in Nat
    PROVE  Arguments(call) \in [1..12 -> Nat]
  BY DEF Arguments

LEMMA RequestEncoded ==
    ASSUME NEW m \in Methods, NEW call \in Nat, NEW content \in [1..ContentWords -> Words]
    PROVE  /\ Encode(m.request, Arguments(call), content, SizeofCharBuff)
                \in [1..ContentWords -> Words]
           /\ EncodeCode(m.request, SizeofCharBuff) \in Int
<1>1. m.request \in Ids
  BY MethodType, MethodsAssumption
<1>2. SizeofCharBuff \in Int /\ ContentWords \in Nat
  BY ContentWordsAssumption DEF SizeofCharBuff
<1>3. EncodedSize(m.request) \in Nat
  BY <1>1, FieldsDomain
<1>4. EncodeCode(m.request, SizeofCharBuff) \in Int
  BY <1>3 DEF EncodeCode
<1> QED
  BY <1>1, <1>2, <1>4, ArgumentsType, EncodeType DEF Words

LEMMA FinishType ==
    ASSUME NEW content \in [1..ContentWords -> Words], NEW length \in Int,
           Finish(content, length)
    PROVE  pc' = "idle" /\ cb' \in Buffers /\ answer'.call = Len(issued)
  BY BuffersType DEF Finish

LEMMA EncodedReplyType ==
    ASSUME NEW call \in Calls, NEW id \in Ids
    PROVE  EncodedReply(call, id) \in [1..(Len(Fields[id]) + 1) -> Nat]
<1>1. BoardData[call] \in [1..12 -> Nat]
  BY BoardDataAssumption DEF Words
<1>2. Len(Fields[id]) + 1 \in Nat /\ EncodedSize(id) \in Int
  BY FieldsDomain
<1>3. [w \in 1..(Len(Fields[id]) + 1) |-> 0] \in [1..(Len(Fields[id]) + 1) -> Nat]
  OBVIOUS
<1> QED
  BY <1>1, <1>2, <1>3, EncodeType DEF EncodedReply

LEMMA SentFields ==
    ASSUME NEW word, NEW first \in BOOLEAN
    PROVE  /\ [word |-> word, first |-> first].word = word
           /\ [word |-> word, first |-> first].first = first
  OBVIOUS

LEMMA PacketSequence ==
    ASSUME NEW call \in Calls, NEW id \in Ids
    PROVE  /\ Packet(call, id) \in Seq(Sent) /\ Len(Packet(call, id)) = Len(Fields[id]) + 1
           /\ \A w \in 1..(Len(Fields[id]) + 1) :
                /\ Packet(call, id)[w].word = EncodedReply(call, id)[w]
                /\ Packet(call, id)[w].first <=> w = 1
<1> DEFINE k == Len(Fields[id]) + 1
           encoded == EncodedReply(call, id)
<1>1. k \in Nat /\ encoded \in [1..k -> Nat]
  BY FieldsDomain, EncodedReplyType
<1>2. Packet(call, id) = [w \in 1..k |-> [word |-> encoded[w], first |-> w = 1]]
  BY DEF Packet
<1> HIDE DEF k, encoded
<1>3. \A w \in 1..k : [word |-> encoded[w], first |-> w = 1] \in Sent
  BY <1>1 DEF Sent, Words
<1>4. Packet(call, id) \in Seq(Sent) /\ Len(Packet(call, id)) = k
  BY <1>1, <1>2, <1>3
<1>5. ASSUME NEW w \in 1..k
      PROVE  Packet(call, id)[w].word = encoded[w] /\ (Packet(call, id)[w].first <=> w = 1)
  <2>1. Packet(call, id)[w] = [word |-> encoded[w], first |-> w = 1]
    BY <1>2
  <2>2. (w = 1) \in BOOLEAN
    OBVIOUS
  <2>3. Packet(call, id)[w].word = encoded[w] /\ Packet(call, id)[w].first = (w = 1)
    BY <2>1, <2>2, SentFields
  <2> QED
    BY <2>3
<1> QED
  BY <1>4, <1>5 DEF k, encoded

LEMMA InitType == Init => TypeOK
<1>1. 0 \in 0..(SizeModulus - 1)
  BY SizeModulusAssumption, ContentWordsAssumption
<1>2. [w \in 1..ContentWords |-> 0] \in [1..ContentWords -> Words]
  BY DEF Words
<1> SUFFICES ASSUME Init PROVE TypeOK
  OBVIOUS
<1>3. cb \in Buffers
  BY <1>1, <1>2 DEF Init, Buffers
<1>4. issued \in Seq(Methods) /\ Len(issued) = 0
  BY DEF Init
<1>5. requests \in Seq(Requests)
  BY DEF Init
<1>6. replies \in Seq(Sent) /\ skip \in 0..3
  BY DEF Init
<1>7. answer.call \in 0..Len(issued)
  BY <1>4 DEF Init, NoAnswer
<1>8. link = "up" /\ pc = "idle" /\ split = FALSE
  BY DEF Init
<1>9. Len(issued) <= MaxCalls
  BY <1>4, MaxCallsAssumption
<1> QED
  BY <1>3, <1>4, <1>5, <1>6, <1>7, <1>8, <1>9 DEF TypeOK, Requests

LEMMA CallType == ASSUME TypeOK, NEW m \in Methods, Call(m) PROVE TypeOK'
<1>1. issued \in Seq(Methods) /\ Len(issued) \in Nat /\ Len(issued) < MaxCalls
  BY DEF TypeOK, Call
<1>2. issued' = Append(issued, m)
  BY DEF Call
<1>3. /\ issued' \in Seq(Methods) /\ Len(issued') = Len(issued) + 1
      /\ issued'[Len(issued')] = m
  BY <1>1, <1>2
<1>4. Len(issued') <= MaxCalls /\ issued' # <<>>
  BY <1>1, <1>3, MaxCallsAssumption
<1>5. cb' \in Buffers
  <2>1. cb.content \in [1..ContentWords -> Words] /\ Len(issued) + 1 \in Nat
    BY <1>1 DEF TypeOK, Buffers
  <2> QED
    BY <2>1, RequestEncoded, BuffersType DEF Call
<1>6. requests' \in Seq(Requests)
  <2>1. [call |-> Len(issued) + 1, id |-> m.request] \in Requests
    BY <1>1, MaxCallsAssumption DEF Requests, Calls
  <2>2. requests \in Seq(Requests)
    BY DEF TypeOK, Requests
  <2>3. requests' = requests \/ requests' = Append(requests, [call |-> Len(issued) + 1, id |-> m.request])
    BY DEF Call
  <2> QED
    BY <2>1, <2>2, <2>3
<1>7. pc' \in {"idle", "receiving"} /\ (pc' = "receiving" => m.reply # 0)
  BY DEF Call
<1>8. answer'.call \in 0..Len(issued')
  BY <1>1, <1>3 DEF Call, TypeOK
<1> QED
  BY <1>3, <1>4, <1>5, <1>6, <1>7, <1>8 DEF TypeOK, Call, Requests, Current

LEMMA AnswerType == ASSUME TypeOK, Answer PROVE TypeOK'
<1>1. requests \in Seq(Requests) /\ requests # <<>>
  BY DEF TypeOK, Answer, Requests
<1>2. Head(requests) \in Requests /\ requests' \in Seq(Requests)
  BY <1>1 DEF Answer
<1>3. replies' \in Seq(Sent)
  <2>1. CASE Head(requests).id \in Answered
    <3>1. Head(requests).call \in Calls /\ Head(requests).id + 1 \in Ids
      BY <1>2, <2>1, AnswerableType DEF Requests
    <3>2. Packet(Head(requests).call, Head(requests).id + 1) \in Seq(Sent)
      BY <3>1, PacketSequence
    <3>3. replies' = replies \o Packet(Head(requests).call, Head(requests).id + 1)
      BY <2>1 DEF Answer
    <3> QED
      BY <3>2, <3>3 DEF TypeOK
  <2>2. CASE Head(requests).id \notin Answered
    BY <2>2 DEF Answer, TypeOK
  <2> QED
    BY <2>1, <2>2
<1>4. UNCHANGED <<link, issued, pc, cb, skip, split, answer>>
  BY DEF Answer
<1> QED
  BY <1>2, <1>3, <1>4 DEF TypeOK, Requests, Current

LEMMA ByteType ==
    ASSUME NEW word \in Nat, NEW b \in 1..4
    PROVE  ByteOf(word, b) \in Nat
<1>1. <<1, 256, 65536, 16777216>>[b] \in Nat \ {0}
  OBVIOUS
<1>2. \A d \in Nat \ {0} : word \div d \in Nat /\ (word \div d) % 256 \in Nat
  OBVIOUS
<1> QED
  BY <1>1, <1>2 DEF ByteOf

LEMMA WordType ==
    ASSUME NEW byte \in [1..4 -> Nat]
    PROVE  WordOf(byte) \in Nat
<1>1. byte[1] \in Nat /\ byte[2] \in Nat /\ byte[3] \in Nat /\ byte[4] \in Nat
  OBVIOUS
<1> QED
  BY <1>1 DEF WordOf

(* The place of a byte that recv() takes, among those of the replies. *)
LEMMA BytePlace ==
    ASSUME NEW length \in Nat, NEW n \in Nat, NEW at \in Nat, at < n,
           skip \in 0..3, skip + n <= 4 * length
    PROVE  ((skip + at) \div 4) + 1 \in 1..length /\ ((skip + at) % 4) + 1 \in 1..4
<1> DEFINE place == skip + at
<1>1. place \in Nat /\ place < 4 * length
  OBVIOUS
<1> HIDE DEF place
<1>2. place \div 4 \in Nat /\ place \div 4 < length /\ place % 4 \in 0..3
  BY <1>1
<1> QED
  BY <1>2 DEF place

LEMMA ReceivedType ==
    ASSUME TypeOK, NEW n \in Nat, skip + n <= 4 * Len(replies)
    PROVE  ReceivedContent(n) \in [1..ContentWords -> Words]
<1>1. /\ Len(replies) \in Nat /\ skip \in 0..3
      /\ \A i \in 1..Len(replies) : replies[i].word \in Nat
  <2>1. replies \in Seq(Sent) /\ skip \in 0..3
    BY DEF TypeOK
  <2>2. \A i \in 1..Len(replies) : replies[i] \in Sent
    BY <2>1
  <2> QED
    BY <2>1, <2>2 DEF Sent, Words
<1>2. \A w \in 1..ContentWords : cb.content[w] \in Nat
  BY DEF TypeOK, Buffers, Words
<1> SUFFICES ASSUME NEW w \in 1..ContentWords
             PROVE  WordOf([b \in 1..4 |->
                      LET at == 4 * (w - 1) + (b - 1) IN
                      IF at < n
                      THEN ByteOf(replies[((skip + at) \div 4) + 1].word, ((skip + at) % 4) + 1)
                      ELSE ByteOf(cb.content[w], b)]) \in Nat
  BY DEF ReceivedContent, Words
<1>3. ASSUME NEW b \in 1..4
      PROVE  LET at == 4 * (w - 1) + (b - 1) IN
             IF at < n
             THEN ByteOf(replies[((skip + at) \div 4) + 1].word, ((skip + at) % 4) + 1) \in Nat
             ELSE ByteOf(cb.content[w], b) \in Nat
  <2> DEFINE at == 4 * (w - 1) + (b - 1)
  <2>1. at \in Nat
    BY ContentWordsAssumption
  <2> HIDE DEF at
  <2>2. ASSUME at < n
        PROVE  ByteOf(replies[((skip + at) \div 4) + 1].word, ((skip + at) % 4) + 1) \in Nat
    BY <1>1, <2>1, <2>2, BytePlace, ByteType
  <2>3. ByteOf(cb.content[w], b) \in Nat
    BY <1>2, ByteType
  <2> QED
    BY <2>2, <2>3 DEF at
<1> QED
  BY <1>3, WordType

LEMMA ReceiveType == ASSUME TypeOK, NEW n \in 1..(4 * ContentWords), Receive(n) PROVE TypeOK'
<1>1. /\ n \in Nat /\ skip + n <= 4 * Len(replies) /\ skip \in 0..3
      /\ replies \in Seq(Sent) /\ Len(replies) \in Nat
  BY ContentWordsAssumption DEF TypeOK, Receive
<1>2. replies' \in Seq(Sent) /\ skip' \in 0..3
  <2>1. /\ replies' = SubSeq(replies, (skip + n) \div 4 + 1, Len(replies))
        /\ skip' = (skip + n) % 4
    BY DEF Receive
  <2>2. (skip + n) % 4 \in 0..3 /\ (skip + n) \div 4 + 1 \in 1..(Len(replies) + 1)
    BY <1>1
  <2> QED
    BY <1>1, <2>1, <2>2
<1>3. ReceivedContent(n) \in [1..ContentWords -> Words]
  BY <1>1, ReceivedType
<1>4. pc' = "idle" /\ cb' \in Buffers /\ answer'.call = Len(issued)
  BY <1>1, <1>3, FinishType DEF Receive
<1>5. split' \in BOOLEAN
  <2>1. split' = (split \/ ~AtReply')
    BY DEF Receive
  <2> QED
    BY <2>1 DEF TypeOK
<1>6. UNCHANGED <<link, issued, requests>> /\ Len(issued) \in Nat
  BY DEF Receive, TypeOK
<1> QED
  BY <1>2, <1>4, <1>5, <1>6 DEF TypeOK

LEMMA ReceiveFailsType ==
    ASSUME TypeOK, NEW length \in {0, -1}, ReceiveFails(length)
    PROVE  TypeOK'
<1>1. cb.content \in [1..ContentWords -> Words] /\ length \in Int
  BY DEF TypeOK, Buffers
<1>2. pc' = "idle" /\ cb' \in Buffers /\ answer'.call = Len(issued)
  BY <1>1, FinishType DEF ReceiveFails
<1>3. UNCHANGED <<link, issued, requests, replies, skip, split>> /\ Len(issued) \in Nat
  BY DEF ReceiveFails, TypeOK
<1> QED
  BY <1>2, <1>3 DEF TypeOK

LEMMA NextType == TypeOK /\ [Next]_vars => TypeOK'
<1> SUFFICES ASSUME TypeOK, [Next]_vars PROVE TypeOK'
  OBVIOUS
<1>1. ASSUME NEW m \in Methods, Call(m) PROVE TypeOK'
  BY <1>1, CallType
<1>2. CASE Received
  BY <1>2, ReceiveType DEF Received
<1>3. CASE Failed
  BY <1>3, ReceiveFailsType DEF Failed
<1>4. CASE Answer
  BY <1>4, AnswerType
<1>5. CASE Disconnect
  <2>1. UNCHANGED <<issued, pc, cb, split, answer>> /\ link' = "down" /\ requests' = <<>>
        /\ replies' \in {replies, <<>>} /\ skip' \in {skip, 0}
    BY <1>5 DEF Disconnect
  <2>2. requests' \in Seq(Requests)
    BY <2>1
  <2>3. replies \in Seq(Sent) /\ <<>> \in Seq(Sent)
    BY DEF TypeOK
  <2>4. replies' \in Seq(Sent)
    BY <2>1, <2>3, Zenon
  <2> QED
    BY <2>1, <2>2, <2>4 DEF TypeOK, Current, Requests
<1>6. CASE UNCHANGED vars
  BY <1>6 DEF TypeOK, vars, Current
<1>7. CASE Finished
  BY <1>6, <1>7 DEF Finished
<1> QED
  BY <1>1, <1>2, <1>3, <1>4, <1>5, <1>6, <1>7 DEF Next

(* The sensor's buffer, the requests and the replies on their way keep their *)
(* types, and a method only waits for a reply it has a decoder for.          *)
THEOREM TypeCorrect == Spec => []TypeOK
  BY InitType, NextType, PTL DEF Spec

-----------------------------------------------------------------------------
(* The inductive invariant. *)
IdOf(word) == unpackHeaderInfo(word).id

RequestsAreCalls ==
    \A k \in 1..Len(requests) :
        /\ requests[k].call \in 1..Len(issued)
        /\ requests[k].id = issued[requests[k].call].request

(* The word at place p heads the whole reply to call c. *)
HeadsReply(p, c) ==
    LET id == issued[c].request + 1 IN
    /\ id \in Ids /\ p + Len(Fields[id]) <= Len(replies)
    /\ \A i \in 0..Len(Fields[id]) : replies[p + i].word = EncodedReply(c, id)[i + 1]

(* Behind every header on its way are the words of one reply. *)
WholeReplies ==
    \A p \in 1..Len(replies) : replies[p].first => \E c \in 1..Len(issued) : HeadsReply(p, c)

(* recv() finds the method's own request in the buffer. *)
RequestInBuffer == pc = "receiving" => IdOf(cb.content[1]) = Current.request

(* In step, the only request the board will answer is the awaited one, and *)
(* the only reply on its way is the reply to it.                           *)
OneReplyPending ==
    InStep =>
        /\ skip = 0
        /\ \A k \in 1..Len(requests) : requests[k].id \in Answered =>
             /\ k = Len(requests) /\ requests[k].call = Len(issued)
             /\ pc = "receiving" /\ replies = <<>>
        /\ replies # <<>> => pc = "receiving" /\ replies = Packet(Len(issued), Current.reply)

(* The whole reply of its own, without the verdict on it. *)
OwnValues ==
    InStep /\ answer.length > 0 =>
        /\ answer.code = 4 * (Len(answer.values) + 1)
        /\ answer.values = SentTo(answer.call, issued[answer.call].reply)

NoAnswerYet == answer.call = 0 => answer = NoAnswer

(* A lost connection takes the requests on their way along. *)
RequestsLost == link = "down" => requests = <<>>

Inductive ==
    /\ TypeOK
    /\ NoAnswerYet
    /\ RequestsLost
    /\ RequestsAreCalls
    /\ WholeReplies
    /\ RequestInBuffer
    /\ OneReplyPending
    /\ OwnValues
    /\ CheckedReplyIsOneReply

-----------------------------------------------------------------------------
(* Words and packets. *)
LEMMA StoredValue ==
    ASSUME NEW type, NEW value \in Nat
    PROVE  LoadValue(type, StoreValue(type, value, 0)) = LoadValue(type, value)
<1>1. (0 - (0 % 256)) + (value % 256) = value % 256 /\ (value % 256) % 256 = value % 256
  OBVIOUS
<1> QED
  BY <1>1 DEF LoadValue, StoreValue

LEMMA BoardWord ==
    ASSUME NEW call \in Calls, NEW i \in 1..12
    PROVE  BoardData[call][i] \in Nat
  BY BoardDataAssumption DEF Words

LEMMA HeaderId ==
    ASSUME NEW id \in Ids, NEW size \in Nat, size < 65536
    PROVE  IdOf(packHeaderInfo(id, size, ENCODING_TYPE)) = id
<1>1. id \in Nat /\ id < 4096 /\ ENCODING_TYPE \in Nat /\ ENCODING_TYPE < 16
  BY DEF Ids, ENCODING_TYPE
<1>2. unpackHeaderInfo(packHeaderInfo(id, size, ENCODING_TYPE)) =
        [id |-> id, size |-> size, encoding |-> ENCODING_TYPE]
  BY <1>1, HeaderRestored
<1> QED
  BY <1>2 DEF IdOf

LEMMA EncodedWords ==
    ASSUME NEW call \in Calls, NEW id \in Ids
    PROVE  /\ IdOf(EncodedReply(call, id)[1]) = id
           /\ \A i \in 1..Len(Fields[id]) :
                EncodedReply(call, id)[i + 1] = StoreValue(Fields[id][i], BoardData[call][i], 0)
<1> DEFINE k == Len(Fields[id]) + 1
           zeros == [w \in 1..k |-> 0]
           values == BoardData[call]
           n == EncodedSize(id)
<1>1. /\ k \in Nat /\ n \in Nat /\ EncodedSize(id) <= n /\ EncodedSize(id) <= 4 * k
      /\ n < SizeModulus /\ EncodedSize(id) < 65536
  BY FieldsDomain, SizeModulusAssumption, ContentWordsAssumption DEF EncodedSize
<1>2. DOMAIN zeros = 1..k /\ \A w \in 1..k : zeros[w] = 0
  OBVIOUS
<1>3. EncodedReply(call, id) = Encode(id, values, zeros, n)
  BY DEF EncodedReply
<1>4. \A i \in 1..Len(Fields[id]) : i \in DOMAIN Fields[id] /\ i + 1 \in 1..k
  BY FieldsDomain
<1> HIDE DEF k, zeros, n, values
<1>5. /\ Encode(id, values, zeros, n)[1] = packHeaderInfo(id, EncodedSize(id), ENCODING_TYPE)
      /\ \A i \in DOMAIN Fields[id] :
           Encode(id, values, zeros, n)[i + 1] = StoreValue(Fields[id][i], values[i], zeros[i + 1])
  BY <1>1, <1>2, EncodedHeader, EncodedFields
<1>6. IdOf(EncodedReply(call, id)[1]) = id
  BY <1>1, <1>3, <1>5, HeaderId, FieldsDomain
<1> QED
  BY <1>2, <1>3, <1>4, <1>5, <1>6 DEF values

(* The four bytes of a word make it up again. *)
LEMMA WordRestored ==
    ASSUME NEW word \in Nat
    PROVE  WordOf([b \in 1..4 |-> ByteOf(word, b)]) = word
<1> DEFINE a == word \div 256
           c == word \div 65536
           d == word \div 16777216
<1>1. word = 256 * a + (word % 256) /\ a = 256 * c + (a % 256) /\ c = 256 * d + (c % 256)
  <2>1. a \in Nat /\ c \in Nat /\ d \in Nat
    OBVIOUS
  <2>2. word = 256 * a + (word % 256)
    OBVIOUS
  <2>3. a = 256 * c + (a % 256)
    <3>1. c = a \div 256
      OBVIOUS
    <3> HIDE DEF a, c
    <3> QED
      BY <2>1, <3>1
  <2>4. c = 256 * d + (c % 256)
    <3>1. d = c \div 256
      OBVIOUS
    <3> HIDE DEF c, d
    <3> QED
      BY <2>1, <3>1
  <2> QED
    BY <2>2, <2>3, <2>4
<1>2. /\ ByteOf(word, 1) = word % 256 /\ ByteOf(word, 2) = a % 256
      /\ ByteOf(word, 3) = c % 256 /\ ByteOf(word, 4) = d
  <2>1. word \div 1 = word
    OBVIOUS
  <2> QED
    BY <2>1 DEF ByteOf
<1>3. a \in Nat /\ c \in Nat /\ d \in Nat /\ word % 256 \in Nat /\ a % 256 \in Nat /\ c % 256 \in Nat
  OBVIOUS
<1> DEFINE bytes == [b \in 1..4 |-> ByteOf(word, b)]
<1>4. /\ bytes[1] = word % 256 /\ bytes[2] = a % 256
      /\ bytes[3] = c % 256 /\ bytes[4] = d
  BY <1>2
<1> HIDE DEF a, c, d, bytes
<1>5. WordOf(bytes) = (word % 256) + 256 * (a % 256) + 65536 * (c % 256) + 16777216 * d
  BY <1>4 DEF WordOf
<1>6. WordOf(bytes) = word
  BY <1>1, <1>3, <1>5
<1> QED
  BY <1>6 DEF bytes

(* A word of a reply that recv() took as a whole is the board's. *)
LEMMA ReceivedWord ==
    ASSUME TypeOK, NEW n \in Nat, skip = 0, n <= 4 * Len(replies),
           NEW w \in 1..ContentWords, 4 * w <= n
    PROVE  ReceivedContent(n)[w] = replies[w].word
<1>1. w \in Nat /\ w >= 1 /\ Len(replies) \in Nat
  BY ContentWordsAssumption DEF TypeOK
<1>2. replies[w].word \in Nat
  <2>1. w \in 1..Len(replies) /\ replies \in Seq(Sent)
    BY <1>1 DEF TypeOK
  <2>2. replies[w] \in Sent
    BY <2>1
  <2> QED
    BY <2>2 DEF Sent, Words
<1>3. ASSUME NEW b \in 1..4
      PROVE  LET at == 4 * (w - 1) + (b - 1) IN
             at < n /\ ((skip + at) \div 4) + 1 = w /\ ((skip + at) % 4) + 1 = b
  <2> DEFINE at == 4 * (w - 1) + (b - 1)
  <2>1. at < n
    BY <1>1
  <2>2. at \div 4 = w - 1 /\ at % 4 = b - 1 /\ at \in Nat
    BY <1>1
  <2> HIDE DEF at
  <2>3. skip + at = at
    BY <2>2
  <2> QED
    BY <1>1, <2>1, <2>2, <2>3 DEF at
<1>4. ReceivedContent(n)[w] = WordOf([b \in 1..4 |-> ByteOf(replies[w].word, b)])
  <2>1. ReceivedContent(n)[w] = WordOf([b \in 1..4 |->
          LET at == 4 * (w - 1) + (b - 1) IN
          IF at < n THEN ByteOf(replies[((skip + at) \div 4) + 1].word, ((skip + at) % 4) + 1)
          ELSE ByteOf(cb.content[w], b)])
    BY DEF ReceivedContent
  <2> QED
    BY <1>3, <2>1
<1> QED
  BY <1>2, <1>4, WordRestored

-----------------------------------------------------------------------------
(* A method is called. *)
LEMMA IssuedGrows ==
    ASSUME TypeOK, NEW m \in Methods, Call(m)
    PROVE  /\ Len(issued) \in Nat /\ Len(issued') = Len(issued) + 1
           /\ Current' = m /\ issued'[Len(issued) + 1] = m
           /\ \A c \in 1..Len(issued) : issued'[c] = issued[c]
<1>1. issued \in Seq(Methods) /\ issued' = Append(issued, m)
  BY DEF TypeOK, Call
<1> QED
  BY <1>1 DEF Current

LEMMA CallRequests ==
    ASSUME TypeOK, RequestsAreCalls, NEW m \in Methods, Call(m)
    PROVE  /\ RequestsAreCalls'
           /\ \A k \in 1..Len(requests') :
                \/ k \in 1..Len(requests) /\ requests'[k] = requests[k]
                \/ /\ k = Len(requests') /\ requests'[k].call = Len(issued')
                   /\ requests'[k].id = m.request
<1> DEFINE r == [call |-> Len(issued) + 1, id |-> m.request]
<1>1. requests \in Seq(Requests) /\ Len(requests) \in Nat
  BY DEF TypeOK, Requests
<1>2. requests' = requests \/ requests' = Append(requests, r)
  BY DEF Call
<1>3. r.call = Len(issued) + 1 /\ r.id = m.request
  OBVIOUS
<1> HIDE DEF r
<1>4. \A k \in 1..Len(requests') :
        \/ k \in 1..Len(requests) /\ requests'[k] = requests[k]
        \/ k = Len(requests') /\ requests'[k] = r
  BY <1>1, <1>2
<1>5. RequestsAreCalls'
  <2> SUFFICES ASSUME NEW k \in 1..Len(requests')
               PROVE  /\ requests'[k].call \in 1..Len(issued')
                      /\ requests'[k].id = issued'[requests'[k].call].request
    BY DEF RequestsAreCalls
  <2>1. CASE k \in 1..Len(requests) /\ requests'[k] = requests[k]
    <3>1. requests[k].call \in 1..Len(issued) /\ requests[k].id = issued[requests[k].call].request
      BY <2>1 DEF RequestsAreCalls
    <3> QED
      BY <2>1, <3>1, IssuedGrows
  <2>2. CASE requests'[k] = r
    BY <2>2, <1>3, IssuedGrows
  <2> QED
    BY <1>4, <2>1, <2>2
<1> QED
  BY <1>3, <1>4, <1>5, IssuedGrows

LEMMA CallReplies ==
    ASSUME TypeOK, WholeReplies, NEW m \in Methods, Call(m)
    PROVE  WholeReplies'
<1>1. replies' = replies
  BY DEF Call
<1> SUFFICES ASSUME NEW p \in 1..Len(replies'), replies'[p].first
             PROVE  \E c \in 1..Len(issued') : HeadsReply(p, c)'
  BY DEF WholeReplies
<1>2. PICK c \in 1..Len(issued) : HeadsReply(p, c)
  BY <1>1 DEF WholeReplies
<1>3. c \in 1..Len(issued') /\ issued'[c] = issued[c]
  BY IssuedGrows
<1>4. HeadsReply(p, c)'
  BY <1>1, <1>2, <1>3 DEF HeadsReply, EncodedReply
<1> QED
  BY <1>3, <1>4

LEMMA RequestRoom ==
    ASSUME NEW m \in Methods
    PROVE  /\ m.request \in Ids /\ SizeofCharBuff \in Nat
           /\ EncodedSize(m.request) <= SizeofCharBuff /\ SizeofCharBuff < SizeModulus
           /\ EncodedSize(m.request) <= 4 * ContentWords
           /\ EncodedSize(m.request) \in Nat /\ EncodedSize(m.request) < 65536
<1>1. m.request \in Ids
  BY MethodType, MethodsAssumption
<1>2. EncodedSize(m.request) \in Nat /\ EncodedSize(m.request) <= 52
  BY <1>1, FieldsDomain
<1> QED
  BY <1>1, <1>2, ContentWordsAssumption, SizeModulusAssumption DEF SizeofCharBuff

LEMMA CallBuffer ==
    ASSUME TypeOK, NEW m \in Methods, Call(m)
    PROVE  RequestInBuffer'
<1> DEFINE values == Arguments(Len(issued) + 1)
<1>1. DOMAIN cb.content = 1..ContentWords /\ ContentWords \in Nat
  BY ContentWordsAssumption DEF TypeOK, Buffers
<1>2. cb'.content = Encode(m.request, values, cb.content, SizeofCharBuff)
  BY DEF Call
<1> HIDE DEF values
<1>3. cb'.content[1] = packHeaderInfo(m.request, EncodedSize(m.request), ENCODING_TYPE)
  BY <1>1, <1>2, RequestRoom, EncodedHeader
<1>4. IdOf(cb'.content[1]) = m.request
  BY <1>3, RequestRoom, HeaderId
<1> QED
  BY <1>4, IssuedGrows DEF RequestInBuffer, IdOf

LEMMA CallInStep ==
    ASSUME TypeOK, NEW m \in Methods, Call(m), InStep'
    PROVE  InStep /\ (m.request \in Answered => m.reply # 0)
<1>1. split' = split /\ DOMAIN issued = 1..Len(issued) /\ DOMAIN issued' = 1..Len(issued')
  BY DEF Call, TypeOK
<1>2. /\ ~split'
      /\ \A c \in DOMAIN issued' : issued'[c].reply = 0 => issued'[c].request \notin Answered
  BY DEF InStep
<1>3. /\ Len(issued) \in Nat /\ Len(issued') = Len(issued) + 1
      /\ issued'[Len(issued) + 1] = m
      /\ \A c \in 1..Len(issued) : issued'[c] = issued[c]
  BY IssuedGrows
<1>4. ASSUME NEW c \in DOMAIN issued, issued[c].reply = 0
      PROVE  issued[c].request \notin Answered
  <2>1. c \in 1..Len(issued) /\ c \in DOMAIN issued'
    BY <1>1, <1>3
  <2> QED
    BY <1>2, <1>3, <1>4, <2>1
<1>5. InStep
  BY <1>1, <1>2, <1>4 DEF InStep
<1>6. Len(issued) + 1 \in DOMAIN issued'
  BY <1>1, <1>3
<1> QED
  BY <1>2, <1>3, <1>5, <1>6

LEMMA CallPending ==
    ASSUME TypeOK, RequestsAreCalls, OneReplyPending, NEW m \in Methods, Call(m)
    PROVE  OneReplyPending'
<1> SUFFICES ASSUME InStep'
             PROVE  /\ skip' = 0
                    /\ \A k \in 1..Len(requests') : requests'[k].id \in Answered =>
                         /\ k = Len(requests') /\ requests'[k].call = Len(issued')
                         /\ pc' = "receiving" /\ replies' = <<>>
                    /\ replies' # <<>> =>
                         pc' = "receiving" /\ replies' = Packet(Len(issued'), Current'.reply)
  BY DEF OneReplyPending, Packet, EncodedReply
<1>1. pc = "idle" /\ replies' = replies /\ skip' = skip /\ (pc' = IF m.reply = 0 THEN "idle" ELSE "receiving")
  BY DEF Call
<1>2. skip = 0 /\ replies = <<>> /\ \A k \in 1..Len(requests) : requests[k].id \notin Answered
  BY <1>1, CallInStep DEF OneReplyPending
<1>3. ASSUME NEW k \in 1..Len(requests'), requests'[k].id \in Answered
      PROVE  /\ k = Len(requests') /\ requests'[k].call = Len(issued')
             /\ pc' = "receiving" /\ replies' = <<>>
  <2>1. /\ k = Len(requests') /\ requests'[k].call = Len(issued')
        /\ requests'[k].id = m.request
    BY <1>2, <1>3, CallRequests
  <2> QED
    BY <1>1, <1>2, <1>3, <2>1, CallInStep
<1> QED
  BY <1>1, <1>2, <1>3

LEMMA CallAnswers ==
    ASSUME TypeOK, NoAnswerYet, OwnValues, CheckedReplyIsOneReply, NEW m \in Methods, Call(m)
    PROVE  NoAnswerYet' /\ OwnValues' /\ CheckedReplyIsOneReply'
<1>1. answer' = answer /\ answer.call \in 0..Len(issued)
  BY DEF Call, TypeOK
<1>2. CASE answer.call = 0
  <2>1. answer = NoAnswer /\ answer' = NoAnswer
    BY <1>1, <1>2 DEF NoAnswerYet
  <2>2. answer'.call = 0 /\ answer'.length = 0
    BY <2>1 DEF NoAnswer
  <2> QED
    BY <2>1, <2>2 DEF NoAnswerYet, OwnValues, CheckedReplyIsOneReply, NoAnswer
<1>3. CASE answer.call # 0
  <2>1. answer.call \in 1..Len(issued) /\ issued'[answer.call] = issued[answer.call]
    BY <1>1, <1>3, IssuedGrows
  <2>2. \A c \in 1..answer.call : issued'[c] = issued[c]
    BY <1>1, <1>3, IssuedGrows
  <2>3. OwnValues'
    BY <1>1, <2>1, CallInStep DEF OwnValues, SentTo
  <2>4. CheckedReplyIsOneReply'
    BY <1>1, <2>1, <2>2 DEF CheckedReplyIsOneReply, SentTo
  <2> QED
    BY <1>1, <1>3, <2>3, <2>4 DEF NoAnswerYet
<1> QED
  BY <1>2, <1>3

-----------------------------------------------------------------------------
(* The board answers a request. *)
LEMMA FirstRequest ==
    ASSUME TypeOK, RequestsAreCalls, Answer
    PROVE  /\ Len(requests) \in Nat /\ Len(requests) >= 1 /\ Head(requests) = requests[1]
           /\ Len(requests') = Len(requests) - 1
           /\ \A k \in 1..Len(requests') : requests'[k] = requests[k + 1]
           /\ requests[1].call \in 1..Len(issued) /\ requests[1].call \in Calls
           /\ requests[1].id = issued[requests[1].call].request
<1>1. requests \in Seq(Requests) /\ requests # <<>> /\ requests' = Tail(requests)
  BY DEF TypeOK, Requests, Answer
<1>2. /\ Len(requests) \in Nat /\ Len(requests) >= 1 /\ Head(requests) = requests[1]
      /\ Len(requests') = Len(requests) - 1
      /\ \A k \in 1..Len(requests') : requests'[k] = requests[k + 1]
      /\ requests[1] \in Requests
  BY <1>1
<1>3. 1 \in 1..Len(requests)
  BY <1>2
<1> QED
  BY <1>2, <1>3 DEF RequestsAreCalls, Requests

LEMMA AnswerRequests ==
    ASSUME TypeOK, RequestsAreCalls, Answer
    PROVE  RequestsAreCalls'
<1>1. issued' = issued
  BY DEF Answer
<1> SUFFICES ASSUME NEW k \in 1..Len(requests')
             PROVE  /\ requests'[k].call \in 1..Len(issued)
                    /\ requests'[k].id = issued[requests'[k].call].request
  BY <1>1 DEF RequestsAreCalls
<1>2. k + 1 \in 1..Len(requests) /\ requests'[k] = requests[k + 1]
  BY FirstRequest
<1> QED
  BY <1>2 DEF RequestsAreCalls

LEMMA JoinedWords ==
    ASSUME NEW s \in Seq(Sent), NEW t \in Seq(Sent)
    PROVE  /\ Len(s \o t) = Len(s) + Len(t)
           /\ \A p \in 1..Len(s) : (s \o t)[p] = s[p]
           /\ \A i \in 1..Len(t) : (s \o t)[Len(s) + i] = t[i]
  OBVIOUS

LEMMA SameReplies ==
    ASSUME WholeReplies, issued' = issued, replies' = replies
    PROVE  WholeReplies'
<1>1. ASSUME NEW p, NEW c, HeadsReply(p, c) PROVE HeadsReply(p, c)'
  BY <1>1 DEF HeadsReply, EncodedReply
<1>2. ASSUME NEW p \in 1..Len(replies), replies[p].first
      PROVE  \E c \in 1..Len(issued) : HeadsReply(p, c)'
  BY <1>1, <1>2 DEF WholeReplies
<1> QED
  BY <1>2 DEF WholeReplies

LEMMA AnswerReplies ==
    ASSUME TypeOK, RequestsAreCalls, WholeReplies, Answer
    PROVE  WholeReplies'
<1>1. issued' = issued
  BY DEF Answer
<1>2. CASE requests[1].id \notin Answered
  <2>1. replies' = replies
    BY <1>2, FirstRequest DEF Answer
  <2> QED
    BY <1>1, <2>1, SameReplies
<1>3. CASE requests[1].id \in Answered
  <2>1. PICK call \in 1..Len(issued), id \in Ids :
          /\ call = requests[1].call /\ id = requests[1].id + 1 /\ call \in Calls
          /\ id = issued[call].request + 1
    BY <1>3, FirstRequest, AnswerableType
  <2> DEFINE packet == Packet(call, id)
  <2>2. replies' = replies \o packet
    BY <1>3, <2>1, FirstRequest DEF Answer
  <2>3. packet \in Seq(Sent) /\ Len(packet) = Len(Fields[id]) + 1 /\ Len(Fields[id]) \in Nat
    BY <2>1, PacketSequence, FieldsDomain
  <2>4. \A w \in 1..Len(packet) :
          packet[w].word = EncodedReply(call, id)[w] /\ (packet[w].first => w = 1)
    <3>1. /\ Len(Packet(call, id)) = Len(Fields[id]) + 1
          /\ \A w \in 1..(Len(Fields[id]) + 1) :
               /\ Packet(call, id)[w].word = EncodedReply(call, id)[w]
               /\ Packet(call, id)[w].first <=> w = 1
      BY <2>1, PacketSequence
    <3> QED
      BY <3>1
  <2>5. replies \in Seq(Sent) /\ Len(replies) \in Nat
    BY DEF TypeOK
  <2> HIDE DEF packet
  <2>6. /\ Len(replies') = Len(replies) + Len(packet)
        /\ \A p \in 1..Len(replies) : replies'[p] = replies[p]
        /\ \A i \in 1..Len(packet) : replies'[Len(replies) + i] = packet[i]
    BY <2>2, <2>3, <2>5, JoinedWords
  <2> SUFFICES ASSUME NEW p \in 1..Len(replies'), replies'[p].first
               PROVE  \E c \in 1..Len(issued) : HeadsReply(p, c)'
    BY <1>1 DEF WholeReplies
  <2>7. CASE p \in 1..Len(replies)
    <3>1. PICK c \in 1..Len(issued) : HeadsReply(p, c)
      BY <2>6, <2>7 DEF WholeReplies
    <3> DEFINE old == issued[c].request + 1
    <3>2. /\ old \in Ids /\ p + Len(Fields[old]) <= Len(replies)
          /\ \A i \in 0..Len(Fields[old]) : replies[p + i].word = EncodedReply(c, old)[i + 1]
      BY <3>1 DEF HeadsReply
    <3>3. issued'[c].request + 1 = old
      BY <1>1
    <3> HIDE DEF old
    <3>4. Len(Fields[old]) \in Nat
      BY <3>2, FieldsDomain
    <3>5. p + Len(Fields[old]) <= Len(replies')
      <4>1. Len(replies) <= Len(replies') /\ Len(replies') \in Nat
        BY <2>3, <2>5, <2>6
      <4>2. p \in Nat /\ p + Len(Fields[old]) <= Len(replies)
        BY <3>2
      <4> QED
        BY <2>5, <3>4, <4>1, <4>2
    <3>6. ASSUME NEW i \in 0..Len(Fields[old])
          PROVE  replies'[p + i].word = EncodedReply(c, old)[i + 1]
      <4>1. p + i \in 1..Len(replies)
        BY <2>5, <2>7, <3>2, <3>4
      <4> QED
        BY <2>6, <3>2, <4>1
    <3>7. HeadsReply(p, c)'
      BY <3>2, <3>3, <3>5, <3>6 DEF HeadsReply, EncodedReply
    <3> QED
      BY <3>7
  <2>8. CASE p = Len(replies) + 1
    <3>1. p + Len(Fields[id]) <= Len(replies')
      <4> DEFINE n == Len(Fields[id])
      <4>1. n \in Nat /\ Len(packet) = n + 1
        BY <2>3
      <4> HIDE DEF n
      <4>2. p + n <= Len(replies')
        BY <2>5, <2>6, <2>8, <4>1
      <4> QED
        BY <4>2 DEF n
    <3>2. ASSUME NEW i \in 0..Len(Fields[id])
          PROVE  replies'[p + i].word = EncodedReply(call, id)[i + 1]
      <4>1. i + 1 \in 1..Len(packet) /\ p + i = Len(replies) + (i + 1)
        BY <2>3, <2>5, <2>8
      <4> QED
        BY <2>4, <2>6, <4>1
    <3>3. issued'[call].request + 1 = id
      BY <1>1, <2>1
    <3>4. HeadsReply(p, call)'
      BY <3>1, <3>2, <3>3 DEF HeadsReply, EncodedReply
    <3> QED
      BY <2>1, <3>4
  <2>9. CASE p > Len(replies) + 1
    <3>1. PICK w \in 1..Len(packet) : p = Len(replies) + w /\ w # 1
      <4>1. p - Len(replies) \in 1..Len(packet) /\ p = Len(replies) + (p - Len(replies))
            /\ p - Len(replies) # 1
        BY <2>3, <2>5, <2>6, <2>9
      <4> QED
        BY <4>1
    <3>2. ~packet[w].first
      BY <2>4, <3>1
    <3>3. replies'[p] = packet[w]
      BY <2>6, <3>1
    <3> QED
      BY <3>2, <3>3
  <2>10. p \in Nat /\ p >= 1
    BY <2>3, <2>5, <2>6
  <2>11. p \in 1..Len(replies) \/ p = Len(replies) + 1 \/ p > Len(replies) + 1
    BY <2>5, <2>10
  <2> QED
    BY <2>7, <2>8, <2>9, <2>11
<1> QED
  BY <1>2, <1>3

LEMMA AnswerPending ==
    ASSUME TypeOK, RequestsAreCalls, OneReplyPending, Answer
    PROVE  OneReplyPending'
<1>1. UNCHANGED <<issued, pc, skip, split>>
  BY DEF Answer
<1>2. InStep' => InStep
  BY <1>1 DEF InStep
<1> SUFFICES ASSUME InStep
             PROVE  /\ skip = 0
                    /\ \A k \in 1..Len(requests') : requests'[k].id \in Answered =>
                         /\ k = Len(requests') /\ requests'[k].call = Len(issued)
                         /\ pc = "receiving" /\ replies' = <<>>
                    /\ replies' # <<>> =>
                         pc = "receiving" /\ replies' = Packet(Len(issued), Current.reply)
  BY <1>1, <1>2 DEF OneReplyPending, Packet, EncodedReply, Current
<1>3. /\ skip = 0
      /\ \A k \in 1..Len(requests) : requests[k].id \in Answered =>
            /\ k = Len(requests) /\ requests[k].call = Len(issued)
            /\ pc = "receiving" /\ replies = <<>>
      /\ replies # <<>> => pc = "receiving" /\ replies = Packet(Len(issued), Current.reply)
  BY DEF OneReplyPending
<1>4. CASE requests[1].id \notin Answered
  <2>1. replies' = replies
    BY <1>4, FirstRequest DEF Answer
  <2>2. ASSUME NEW k \in 1..Len(requests'), requests'[k].id \in Answered
        PROVE  /\ k = Len(requests') /\ requests'[k].call = Len(issued)
               /\ pc = "receiving" /\ replies' = <<>>
    <3>1. k + 1 \in 1..Len(requests) /\ requests'[k] = requests[k + 1]
      BY FirstRequest
    <3>2. k + 1 = Len(requests) /\ requests[k + 1].call = Len(issued)
          /\ pc = "receiving" /\ replies = <<>>
      BY <1>3, <2>2, <3>1
    <3> QED
      BY <2>1, <3>1, <3>2, FirstRequest
  <2> QED
    BY <1>3, <2>1, <2>2
<1>5. CASE requests[1].id \in Answered
  <2>1. Len(requests) = 1 /\ requests[1].call = Len(issued) /\ pc = "receiving" /\ replies = <<>>
    <3>1. 1 \in 1..Len(requests)
      BY FirstRequest
    <3> QED
      BY <1>3, <1>5, <3>1
  <2>2. Len(requests') = 0
    BY <2>1, FirstRequest
  <2>3. Current \in FtSensorNew /\ Current.reply # 0
    <3>1. issued \in Seq(Methods) /\ issued # <<>> /\ Current.reply # 0
      BY <2>1 DEF TypeOK
    <3>2. Current \in Methods
      BY <3>1 DEF Current
    <3> QED
      BY <3>1, <3>2, MethodsAssumption
  <2>4. requests[1].id + 1 = Current.reply /\ Current.reply \in Ids
    BY <2>1, <2>3, MethodType, FirstRequest DEF Current
  <2>5. Packet(Len(issued), Current.reply) \in Seq(Sent) /\ Len(issued) \in Calls
    BY <2>1, <2>4, FirstRequest, PacketSequence
  <2>6. replies' = replies \o Packet(Len(issued), Current.reply)
    BY <1>5, <2>1, <2>4, FirstRequest DEF Answer
  <2>7. replies' = Packet(Len(issued), Current.reply)
    BY <2>1, <2>5, <2>6
  <2> QED
    BY <1>3, <2>1, <2>2, <2>7
<1> QED
  BY <1>4, <1>5

LEMMA AnswerAnswers ==
    ASSUME NoAnswerYet, RequestInBuffer, OwnValues, CheckedReplyIsOneReply, Answer
    PROVE  NoAnswerYet' /\ RequestInBuffer' /\ OwnValues' /\ CheckedReplyIsOneReply'
<1>1. UNCHANGED <<issued, pc, cb, split, answer>>
  BY DEF Answer
<1>2. InStep' = InStep
  BY <1>1 DEF InStep
<1> QED
  BY <1>1, <1>2 DEF NoAnswerYet, NoAnswer, RequestInBuffer, IdOf, Current, OwnValues,
    CheckedReplyIsOneReply, SentTo

-----------------------------------------------------------------------------
(* recv() returns words. *)
LEMMA AwaitedReply ==
    ASSUME TypeOK, pc = "receiving"
    PROVE  /\ Len(issued) \in 1..MaxCalls /\ Len(issued) \in Calls
           /\ Current.reply \in Ids /\ Current.reply = Current.request + 1
           /\ Current.request \in Ids
<1>1. issued \in Seq(Methods) /\ Len(issued) <= MaxCalls /\ issued # <<>> /\ Current.reply # 0
  BY DEF TypeOK
<1>2. Current \in FtSensorNew
  BY <1>1, MethodsAssumption DEF Current
<1> QED
  BY <1>1, <1>2, MethodType, MaxCallsAssumption DEF Calls

LEMMA Suffix ==
    ASSUME NEW s \in Seq(Sent), NEW n \in Nat, n <= Len(s)
    PROVE  /\ Len(SubSeq(s, n + 1, Len(s))) = Len(s) - n
           /\ \A p \in 1..(Len(s) - n) : SubSeq(s, n + 1, Len(s))[p] = s[p + n]
  OBVIOUS

(* The words that are received as a whole once recv() has taken n bytes. *)
Dropped(n) == (skip + n) \div 4

LEMMA ReceiveSteps ==
    ASSUME TypeOK, NEW n \in 1..(4 * ContentWords), Receive(n)
    PROVE  /\ pc = "receiving" /\ pc' = "idle" /\ issued' = issued /\ requests' = requests
           /\ n \in Nat /\ n >= 1 /\ n <= 4 * ContentWords /\ ContentWords \in Nat
           /\ Len(replies) \in Nat /\ Len(replies) >= 1 /\ replies # <<>>
           /\ skip \in 0..3 /\ skip + n <= 4 * Len(replies)
           /\ skip' = (skip + n) % 4 /\ Dropped(n) \in Nat /\ Dropped(n) <= Len(replies)
           /\ Len(replies') = Len(replies) - Dropped(n)
           /\ \A p \in 1..Len(replies') : replies'[p] = replies[p + Dropped(n)]
           /\ split' = (split \/ ~AtReply')
<1> DEFINE d == Dropped(n)
<1>1. replies \in Seq(Sent) /\ replies' = SubSeq(replies, d + 1, Len(replies))
  BY DEF TypeOK, Receive, Dropped
<1>2. /\ n \in Nat /\ n >= 1 /\ n <= 4 * ContentWords /\ ContentWords \in Nat
      /\ skip \in 0..3 /\ skip + n <= 4 * Len(replies)
  BY ContentWordsAssumption DEF Receive, TypeOK
<1>3. Len(replies) \in Nat /\ Len(replies) >= 1 /\ replies # <<>>
  BY <1>1, <1>2
<1>4. d \in Nat /\ d <= Len(replies)
  BY <1>2, <1>3 DEF Dropped
<1> HIDE DEF d
<1>5. /\ Len(replies') = Len(replies) - d
      /\ \A p \in 1..Len(replies') : replies'[p] = replies[p + d]
  BY <1>1, <1>4, Suffix
<1>6. /\ pc = "receiving" /\ pc' = "idle" /\ issued' = issued /\ requests' = requests
      /\ skip' = (skip + n) % 4 /\ split' = (split \/ ~AtReply')
  BY DEF Receive, Finish
<1> QED
  BY <1>2, <1>3, <1>4, <1>5, <1>6 DEF d

LEMMA ReceiveReplies ==
    ASSUME TypeOK, WholeReplies, NEW n \in 1..(4 * ContentWords), Receive(n)
    PROVE  WholeReplies'
<1> DEFINE d == Dropped(n)
<1>1. /\ issued' = issued /\ d \in Nat /\ Len(replies) \in Nat /\ d <= Len(replies)
      /\ Len(replies') = Len(replies) - d
      /\ \A p \in 1..Len(replies') : replies'[p] = replies[p + d]
  BY ReceiveSteps
<1> HIDE DEF d
<1> SUFFICES ASSUME NEW p \in 1..Len(replies'), replies'[p].first
             PROVE  \E c \in 1..Len(issued) : HeadsReply(p, c)'
  BY <1>1 DEF WholeReplies
<1>2. p + d \in 1..Len(replies) /\ replies'[p] = replies[p + d] /\ p \in Nat
  BY <1>1
<1>3. PICK c \in 1..Len(issued) : HeadsReply(p + d, c)
  BY <1>2 DEF WholeReplies
<1> DEFINE id == issued[c].request + 1
<1>4. /\ id \in Ids /\ (p + d) + Len(Fields[id]) <= Len(replies)
      /\ \A i \in 0..Len(Fields[id]) : replies[(p + d) + i].word = EncodedReply(c, id)[i + 1]
  BY <1>3 DEF HeadsReply
<1>5. issued'[c].request + 1 = id
  BY <1>1
<1> HIDE DEF id
<1>6. Len(Fields[id]) \in Nat
  BY <1>4, FieldsDomain
<1>7. p + Len(Fields[id]) <= Len(replies')
  <2>1. ASSUME NEW a \in Nat, NEW b \in Nat, NEW c1 \in Nat, NEW e \in Nat, (a + b) + c1 <= e
        PROVE  a + c1 <= e - b
    BY <2>1
  <2> QED
    BY <1>1, <1>2, <1>4, <1>6, <2>1, Zenon
<1>8. ASSUME NEW i \in 0..Len(Fields[id]) PROVE replies'[p + i].word = EncodedReply(c, id)[i + 1]
  <2>1. p + i \in 1..Len(replies') /\ (p + i) + d = (p + d) + i
    <3>1. Len(replies') \in Int /\ i \in Nat /\ i <= Len(Fields[id])
      BY <1>1, <1>6
    <3>2. p + i >= 1 /\ p + i <= Len(replies')
      BY <1>2, <1>6, <1>7, <3>1
    <3>3. ASSUME NEW a \in Nat, NEW b \in Nat, NEW j \in Nat PROVE (a + j) + b = (a + b) + j
      OBVIOUS
    <3>4. (p + i) + d = (p + d) + i
      BY <1>1, <1>2, <3>1, <3>3, Zenon
    <3>5. p + i \in Int
      BY <1>2, <3>1
    <3> QED
      BY <3>1, <3>2, <3>4, <3>5
  <2>2. replies'[p + i] = replies[(p + d) + i]
    BY <1>1, <2>1
  <2> QED
    BY <1>4, <2>2
<1>9. HeadsReply(p, c)'
  BY <1>4, <1>5, <1>7, <1>8 DEF HeadsReply, EncodedReply
<1> QED
  BY <1>9

(* In step, recv() takes the awaited reply as a whole. *)
LEMMA ReceiveWhole ==
    ASSUME TypeOK, OneReplyPending, NEW n \in 1..(4 * ContentWords), Receive(n), InStep'
    PROVE  /\ replies = Packet(Len(issued), Current.reply) /\ skip = 0 /\ skip' = 0
           /\ n = EncodedSize(Current.reply) /\ n = 4 * Len(replies) /\ replies' = <<>>
           /\ \A k \in 1..Len(requests) : requests[k].id \notin Answered
<1>1. InStep /\ AtReply'
  BY ReceiveSteps DEF InStep
<1>2. replies # <<>> /\ skip' = 0
  BY <1>1, ReceiveSteps DEF AtReply
<1>3. /\ skip = 0 /\ replies = Packet(Len(issued), Current.reply)
      /\ \A k \in 1..Len(requests) : requests[k].id \notin Answered
  BY <1>1, <1>2 DEF OneReplyPending
<1>4. Len(issued) \in Calls /\ Current.reply \in Ids
  BY ReceiveSteps, AwaitedReply
<1>5. Len(replies) = Len(Fields[Current.reply]) + 1
  BY <1>3, <1>4, PacketSequence
<1> DEFINE d == Dropped(n)
<1>6. n = 4 * d /\ d >= 1
  <2>1. n \in Nat /\ n >= 1 /\ n % 4 = 0 /\ d = n \div 4
    BY <1>2, <1>3, ReceiveSteps DEF Dropped
  <2> HIDE DEF d
  <2> QED
    BY <2>1
<1>7. d \in Nat /\ d <= Len(replies) /\ Len(replies) \in Nat /\ Len(replies') = Len(replies) - d
  BY ReceiveSteps
<1>8. d = Len(replies)
  <2> SUFFICES ASSUME d < Len(replies) PROVE FALSE
    BY <1>7
  <2>1. 1 \in 1..Len(replies')
    BY <1>7
  <2>2. replies'[1] = replies[1 + d] /\ 1 + d \in 1..Len(replies) /\ 1 + d # 1
    BY <1>6, <1>7, <2>1, ReceiveSteps
  <2>3. ~replies[1 + d].first
    <3>1. 1 + d \in 1..(Len(Fields[Current.reply]) + 1)
      BY <1>5, <2>2
    <3>2. replies[1 + d].first <=> 1 + d = 1
      <4>1. \A w \in 1..(Len(Fields[Current.reply]) + 1) :
              Packet(Len(issued), Current.reply)[w].first <=> w = 1
        BY <1>4, PacketSequence
      <4> QED
        BY <1>3, <3>1, <4>1
    <3> QED
      BY <2>2, <3>2
  <2>4. replies' # <<>> /\ Head(replies') = replies'[1]
    <3>1. replies' \in Seq(Sent)
      BY ReceiveType DEF TypeOK
    <3> QED
      BY <2>1, <3>1
  <2> QED
    BY <1>1, <2>2, <2>3, <2>4 DEF AtReply
<1>9. replies' = <<>>
  <2>1. replies' \in Seq(Sent)
    BY ReceiveType DEF TypeOK
  <2> QED
    BY <1>7, <1>8, <2>1
<1>10. n = 4 * Len(replies)
  BY <1>6, <1>8
<1> QED
  BY <1>2, <1>3, <1>5, <1>9, <1>10 DEF EncodedSize

(* The board's values, as decode() leaves them in the message. *)
LEMMA DecodedValues ==
    ASSUME NEW id \in Ids, NEW c \in Calls, NEW content, NEW n \in Nat,
           HasRoom(0, n), Reached(Len(Fields[id]), n),
           \A i \in 1..Len(Fields[id]) : content[i + 1] = EncodedReply(c, id)[i + 1]
    PROVE  Decode(id, NewMessage(id), content, n).values = SentTo(c, id)
<1>1. ASSUME NEW i \in DOMAIN Fields[id]
      PROVE  /\ Reached(i, n)
             /\ LoadValue(Fields[id][i], content[i + 1]) =
                  LoadValue(Fields[id][i], BoardData[c][i])
  <2>1. i \in 1..Len(Fields[id]) /\ i \in 1..12 /\ Len(Fields[id]) \in Nat
    BY FieldsDomain, FieldPlace
  <2>2. Reached(i, n)
    BY <2>1 DEF Reached
  <2>3. content[i + 1] = StoreValue(Fields[id][i], BoardData[c][i], 0)
    BY <2>1, EncodedWords
  <2>4. BoardData[c][i] \in Nat
    BY <2>1, BoardWord
  <2> QED
    BY <2>2, <2>3, <2>4, StoredValue
<1> QED
  BY <1>1 DEF Decode, SentTo

(* What a method obtains when recv() has returned n bytes. *)
LEMMA ReceivedAnswer ==
    ASSUME TypeOK, NEW n \in 1..(4 * ContentWords), Receive(n)
    PROVE  /\ answer'.call = Len(issued) /\ answer'.length = n
           /\ n \in Nat /\ n < SizeModulus /\ (HasRoom(0, n) <=> n >= 4)
           /\ answer'.atReply = AtReply
           /\ answer'.code = DecodeCode(Current.reply, n)
           /\ answer'.values =
                Decode(Current.reply, NewMessage(Current.reply), ReceivedContent(n), n).values
           /\ HasRoom(0, n) =>
                answer'.accepted = (IdOf(ReceivedContent(n)[1]) = Current.expected)
<1>1. n \in Nat /\ n < SizeModulus
  BY ReceiveSteps, ContentWordsAssumption, SizeModulusAssumption
<1>2. ToSize(n) = n /\ (HasRoom(0, n) <=> n >= 4)
  <2>1. \A v \in Nat : v < SizeModulus => v % SizeModulus = v
    BY SizeModulusAssumption
  <2>2. HasRoom(0, n) <=> n >= 4
    BY <1>1, RoomInside
  <2>3. ToSize(n) = n
    BY <1>1, <2>1 DEF ToSize
  <2> QED
    BY <2>2, <2>3
<1>3. Finish(ReceivedContent(n), n)
  BY DEF Receive
<1> DEFINE id == Current.reply
           object == Decode(id, NewMessage(id), ReceivedContent(n), n)
<1>4. answer' = [call |-> Len(issued), atReply |-> AtReply, length |-> n,
                 code |-> DecodeCode(id, n), accepted |-> object.header.id = Current.expected,
                 values |-> object.values]
  BY <1>2, <1>3 DEF Finish
<1>5. HasRoom(0, n) => object.header.id = IdOf(ReceivedContent(n)[1])
  BY DEF Decode, IdOf
<1> HIDE DEF object
<1>6. /\ answer'.call = Len(issued) /\ answer'.length = n /\ answer'.atReply = AtReply
      /\ answer'.code = DecodeCode(id, n) /\ answer'.values = object.values
      /\ answer'.accepted = (object.header.id = Current.expected)
  BY <1>4
<1>7. HasRoom(0, n) => answer'.accepted = (IdOf(ReceivedContent(n)[1]) = Current.expected)
  BY <1>5, <1>6
<1> QED
  BY <1>1, <1>2, <1>6, <1>7 DEF object

LEMMA ReceiveOwn ==
    ASSUME TypeOK, OneReplyPending, NEW n \in 1..(4 * ContentWords), Receive(n)
    PROVE  OwnValues'
<1> SUFFICES ASSUME InStep'
             PROVE  /\ answer'.code = 4 * (Len(answer'.values) + 1)
                    /\ answer'.values = SentTo(answer'.call, issued'[answer'.call].reply)
  BY DEF OwnValues, SentTo
<1> DEFINE id == Current.reply
<1>1. id \in Ids /\ Len(issued) \in Calls
  BY ReceiveSteps, AwaitedReply
<1>2. Len(Fields[id]) \in Nat /\ n = EncodedSize(id) /\ n >= 4 /\ n \in Nat
  BY <1>1, ReceiveWhole, FieldsDomain
<1>3. Reached(Len(Fields[id]), n) /\ HasRoom(0, n)
  BY <1>1, <1>2, ReceivedAnswer, EncodedCode
<1>4. DecodeCode(id, n) = EncodedSize(id)
  BY <1>3 DEF DecodeCode
<1>5. ASSUME NEW i \in 1..Len(Fields[id])
      PROVE  ReceivedContent(n)[i + 1] = EncodedReply(Len(issued), id)[i + 1]
  <2>1. i + 1 \in 1..(Len(Fields[id]) + 1) /\ 4 * (i + 1) <= n
    BY <1>2 DEF EncodedSize
  <2>2. i + 1 \in 1..ContentWords
    BY <2>1, ReceiveSteps
  <2>3. ReceivedContent(n)[i + 1] = replies[i + 1].word
    <3>1. skip = 0 /\ n <= 4 * Len(replies) /\ n \in Nat
      BY ReceiveWhole, ReceiveSteps
    <3> QED
      BY <2>1, <2>2, <3>1, ReceivedWord
  <2>4. replies[i + 1].word = EncodedReply(Len(issued), id)[i + 1]
    BY <1>1, <2>1, ReceiveWhole, PacketSequence
  <2> QED
    BY <2>3, <2>4
<1>6. answer'.values = SentTo(Len(issued), id)
  BY <1>1, <1>2, <1>3, <1>5, ReceivedAnswer, DecodedValues
<1>7. Len(SentTo(Len(issued), id)) = Len(Fields[id])
  BY <1>1, <1>2, FieldsDomain DEF SentTo
<1>8. issued'[answer'.call].reply = id
  BY ReceiveSteps, ReceivedAnswer DEF Current
<1> QED
  BY <1>2, <1>4, <1>6, <1>7, <1>8, ReceivedAnswer DEF EncodedSize

LEMMA ReceiveChecked ==
    ASSUME TypeOK, WholeReplies, NEW n \in 1..(4 * ContentWords), Receive(n)
    PROVE  CheckedReplyIsOneReply'
<1> DEFINE id == Current.reply
<1>1. issued' = issued /\ answer'.call = Len(issued) /\ answer'.atReply = AtReply
  BY ReceiveSteps, ReceivedAnswer
<1> SUFFICES ASSUME AtReply, answer'.code >= 0, answer'.accepted, Current.expected = id
             PROVE  \E c \in 1..Len(issued) :
                      issued[c].request = Current.request /\ answer'.values = SentTo(c, id)
  BY <1>1 DEF CheckedReplyIsOneReply, SentTo, Current
<1>2. /\ id \in Ids /\ id = Current.request + 1 /\ Current.request \in Ids
      /\ Len(issued) \in 1..MaxCalls
  BY ReceiveSteps, AwaitedReply
<1>3. HasRoom(0, n) /\ Reached(Len(Fields[id]), n)
  <2>1. answer'.code = DecodeCode(id, n)
    BY ReceivedAnswer
  <2> QED
    BY <2>1 DEF DecodeCode
<1>4. /\ n >= 4 /\ n \in Nat /\ EncodedSize(id) <= n /\ Len(Fields[id]) \in Nat
      /\ n <= 4 * ContentWords /\ ContentWords \in Nat
  <2>1. n >= 4 /\ n < SizeModulus /\ n \in Nat
    BY <1>3, ReceivedAnswer
  <2> QED
    BY <1>2, <1>3, <2>1, AllReached, FieldsDomain, ReceiveSteps
<1>5. skip = 0 /\ 1 \in 1..Len(replies) /\ replies[1].first
  <2>1. replies # <<>> /\ Len(replies) \in Nat /\ Len(replies) >= 1
    BY ReceiveSteps
  <2>2. Head(replies) = replies[1]
    BY <2>1 DEF TypeOK
  <2> QED
    BY <2>1, <2>2 DEF AtReply
<1>6. PICK c \in 1..Len(issued) : HeadsReply(1, c)
  BY <1>5 DEF WholeReplies
<1> DEFINE other == issued[c].request + 1
<1>7. /\ other \in Ids
      /\ \A i \in 0..Len(Fields[other]) : replies[1 + i].word = EncodedReply(c, other)[i + 1]
  BY <1>6 DEF HeadsReply
<1>8. c \in Calls
  BY <1>2, MaxCallsAssumption DEF Calls
<1> HIDE DEF other
<1>9. ASSUME NEW w \in 1..(Len(Fields[id]) + 1)
      PROVE  ReceivedContent(n)[w] = replies[w].word
  <2>1. w \in 1..ContentWords /\ 4 * w <= n
    BY <1>4 DEF EncodedSize
  <2>2. n <= 4 * Len(replies)
    BY <1>5, ReceiveSteps
  <2> QED
    BY <1>4, <1>5, <2>1, <2>2, ReceivedWord
<1>10. other = id
  <2>1. IdOf(ReceivedContent(n)[1]) = id
    BY <1>3, ReceivedAnswer
  <2>2. 1 \in 1..(Len(Fields[id]) + 1) /\ 0 \in 0..Len(Fields[other])
    BY <1>4, <1>7, FieldsDomain
  <2>3. replies[1 + 0].word = EncodedReply(c, other)[0 + 1]
    BY <1>7, <2>2
  <2>4. 1 + 0 = 1 /\ 0 + 1 = 1
    OBVIOUS
  <2>5. ReceivedContent(n)[1] = EncodedReply(c, other)[1]
    BY <1>9, <2>2, <2>3, <2>4
  <2> QED
    BY <1>7, <1>8, <2>1, <2>5, EncodedWords
<1>11. ASSUME NEW i \in 1..Len(Fields[id])
       PROVE  ReceivedContent(n)[i + 1] = EncodedReply(c, id)[i + 1]
  <2>1. i + 1 \in 1..(Len(Fields[id]) + 1) /\ i \in 0..Len(Fields[id]) /\ i + 1 = 1 + i
    BY <1>4
  <2>2. replies[1 + i].word = EncodedReply(c, id)[i + 1]
    BY <1>7, <1>10, <2>1
  <2> QED
    BY <1>9, <2>1, <2>2
<1>12. answer'.values = SentTo(c, id)
  <2>1. answer'.values = Decode(id, NewMessage(id), ReceivedContent(n), n).values
    BY ReceivedAnswer
  <2>2. Decode(id, NewMessage(id), ReceivedContent(n), n).values = SentTo(c, id)
    <3> DEFINE content == ReceivedContent(n)
    <3>1. /\ id \in Ids /\ c \in Calls /\ n \in Nat /\ HasRoom(0, n)
          /\ Reached(Len(Fields[id]), n)
      BY <1>2, <1>3, <1>4, <1>8
    <3>2. \A i \in 1..Len(Fields[id]) : content[i + 1] = EncodedReply(c, id)[i + 1]
      BY <1>11
    <3> HIDE DEF id, content
    <3>3. Decode(id, NewMessage(id), content, n).values = SentTo(c, id)
      BY <3>1, <3>2, DecodedValues
    <3> QED
      BY <3>3 DEF content
  <2> QED
    BY <2>1, <2>2
<1>13. issued[c].request = Current.request
  <2>1. issued \in Seq(Methods) /\ issued[c] \in Methods
    BY DEF TypeOK
  <2>2. issued[c].request \in Ids
    BY <2>1, MethodType, MethodsAssumption
  <2>3. issued[c].request \in Int /\ Current.request \in Int
    BY <1>2, <2>2, IdsAreNumbers
  <2>4. issued[c].request + 1 = Current.request + 1
    BY <1>2, <1>10 DEF other
  <2> QED
    BY <2>3, <2>4
<1> QED
  BY <1>12, <1>13

LEMMA ReceiveInv ==
    ASSUME Inductive, NEW n \in 1..(4 * ContentWords), Receive(n)
    PROVE  Inductive'
<1>1. TypeOK'
  BY ReceiveType DEF Inductive
<1>2. NoAnswerYet'
  BY ReceiveSteps, ReceivedAnswer, AwaitedReply DEF Inductive, NoAnswerYet
<1>3. RequestsAreCalls' /\ RequestInBuffer'
  BY ReceiveSteps DEF Inductive, RequestsAreCalls, RequestInBuffer
<1>4. WholeReplies'
  BY ReceiveReplies DEF Inductive
<1>5. OneReplyPending'
  BY ReceiveWhole, ReceiveSteps DEF Inductive, OneReplyPending
<1>6. OwnValues' /\ CheckedReplyIsOneReply'
  BY ReceiveOwn, ReceiveChecked DEF Inductive
<1>7. RequestsLost'
  BY DEF Inductive, RequestsLost, Receive
<1> QED
  BY <1>1, <1>2, <1>3, <1>4, <1>5, <1>6, <1>7 DEF Inductive

-----------------------------------------------------------------------------
(* recv() fails: what is decoded is the method's own request. *)
LEMMA FailedAnswer ==
    ASSUME TypeOK, NEW length \in {0, -1}, ReceiveFails(length)
    PROVE  /\ answer'.call = Len(issued) /\ answer'.length = length
           /\ answer'.code = DecodeCode(Current.reply, ToSize(length))
           /\ HasRoom(0, ToSize(length)) =>
                answer'.accepted = (IdOf(cb.content[1]) = Current.expected)
<1> DEFINE id == Current.reply
           object == Decode(id, NewMessage(id), cb.content, ToSize(length))
<1>1. answer' = [call |-> Len(issued), atReply |-> AtReply, length |-> length,
                 code |-> DecodeCode(id, ToSize(length)),
                 accepted |-> object.header.id = Current.expected, values |-> object.values]
  BY DEF ReceiveFails, Finish
<1>2. HasRoom(0, ToSize(length)) => object.header.id = IdOf(cb.content[1])
  BY DEF Decode, IdOf
<1> HIDE DEF object
<1> QED
  BY <1>1, <1>2

LEMMA ReceiveFailsInv ==
    ASSUME Inductive, NEW length \in {0, -1}, ReceiveFails(length)
    PROVE  Inductive'
<1>1. TypeOK /\ TypeOK'
  BY ReceiveFailsType DEF Inductive
<1>2. /\ pc = "receiving" /\ pc' = "idle" /\ replies = <<>>
      /\ UNCHANGED <<issued, requests, replies, skip, split>>
  BY DEF ReceiveFails, Finish
<1>3. NoAnswerYet'
  BY <1>1, <1>2, FailedAnswer, AwaitedReply DEF NoAnswerYet
<1>4. RequestsAreCalls' /\ RequestInBuffer' /\ WholeReplies'
  BY <1>2, SameReplies DEF Inductive, RequestsAreCalls, RequestInBuffer
<1>5. OwnValues'
  <2>1. ~(answer'.length > 0)
    BY <1>1, FailedAnswer
  <2> QED
    BY <2>1 DEF OwnValues
<1>6. CheckedReplyIsOneReply'
  <2>1. issued'[answer'.call] = Current
    BY <1>1, <1>2, FailedAnswer DEF Current
  <2> SUFFICES ASSUME answer'.code >= 0, answer'.accepted, Current.expected = Current.reply
               PROVE  FALSE
    BY <2>1 DEF CheckedReplyIsOneReply
  <2>2. HasRoom(0, ToSize(length))
    <3>1. answer'.code = DecodeCode(Current.reply, ToSize(length))
      BY <1>1, FailedAnswer
    <3> QED
      BY <3>1 DEF DecodeCode
  <2>3. IdOf(cb.content[1]) = Current.reply
    BY <1>1, <2>2, FailedAnswer
  <2>4. IdOf(cb.content[1]) = Current.request
    BY <1>2 DEF Inductive, RequestInBuffer
  <2>5. Current.reply = Current.request + 1 /\ Current.request \in Nat
    BY <1>1, <1>2, AwaitedReply, IdsAreNumbers
  <2> QED
    <3>1. Current.reply = Current.request
      BY <2>3, <2>4
    <3> QED
      BY <2>5, <3>1
<1>7. RequestsLost' /\ requests = <<>>
  BY <1>2 DEF Inductive, RequestsLost, ReceiveFails
<1>8. OneReplyPending'
  <2>1. InStep' = InStep /\ Len(requests') = 0 /\ replies' = <<>>
    BY <1>2, <1>7 DEF InStep
  <2> QED
    BY <1>2, <2>1 DEF Inductive, OneReplyPending
<1> QED
  BY <1>1, <1>3, <1>4, <1>5, <1>6, <1>7, <1>8 DEF Inductive

-----------------------------------------------------------------------------
(* The invariant and what it implies. *)
LEMMA InitInductive == Init => Inductive
<1> SUFFICES ASSUME Init PROVE Inductive
  OBVIOUS
<1>1. TypeOK
  BY InitType
<1>2. /\ link = "up" /\ pc = "idle" /\ requests = <<>> /\ replies = <<>> /\ skip = 0
      /\ answer = NoAnswer
  BY DEF Init
<1>3. answer.call = 0 /\ answer.length = 0
  BY <1>2 DEF NoAnswer
<1>4. Len(requests) = 0 /\ Len(replies) = 0
  BY <1>2
<1> QED
  BY <1>1, <1>2, <1>3, <1>4 DEF Inductive, NoAnswerYet, RequestsLost, RequestsAreCalls,
    WholeReplies, RequestInBuffer, OneReplyPending, OwnValues, CheckedReplyIsOneReply

LEMMA CallInv ==
    ASSUME Inductive, NEW m \in Methods, Call(m)
    PROVE  Inductive'
<1>1. RequestsLost'
  BY DEF Inductive, RequestsLost, Call
<1> QED
  BY <1>1, CallType, CallRequests, CallReplies, CallBuffer, CallPending, CallAnswers DEF Inductive

LEMMA AnswerInv == ASSUME Inductive, Answer PROVE Inductive'
<1>1. RequestsLost'
  BY DEF RequestsLost, Answer
<1> QED
  BY <1>1, AnswerType, AnswerRequests, AnswerReplies, AnswerPending, AnswerAnswers DEF Inductive

LEMMA DisconnectInv == ASSUME Inductive, Disconnect PROVE Inductive'
<1>1. /\ UNCHANGED <<issued, pc, cb, split, answer>> /\ requests' = <<>>
      /\ Len(requests') = 0
  BY DEF Disconnect
<1>2. /\ replies' = replies \/ (replies' = <<>> /\ Len(replies') = 0)
      /\ skip' = skip \/ skip' = 0
  BY DEF Disconnect
<1>3. TypeOK'
  BY NextType DEF Next, Inductive
<1>4. NoAnswerYet' /\ RequestInBuffer' /\ OwnValues' /\ CheckedReplyIsOneReply'
  <2>1. InStep' = InStep
    BY <1>1 DEF InStep
  <2>2. NoAnswerYet' /\ RequestInBuffer'
    BY <1>1 DEF Inductive, NoAnswerYet, NoAnswer, RequestInBuffer, IdOf, Current
  <2>3. OwnValues'
    BY <1>1, <2>1 DEF Inductive, OwnValues, SentTo
  <2>4. CheckedReplyIsOneReply'
    BY <1>1 DEF Inductive, CheckedReplyIsOneReply, SentTo
  <2> QED
    BY <2>2, <2>3, <2>4
<1>5. WholeReplies'
  <2>1. CASE replies' = replies
    <3>1. WholeReplies /\ issued' = issued
      BY <1>1 DEF Inductive
    <3> QED
      BY <2>1, <3>1, SameReplies
  <2>2. CASE Len(replies') = 0
    BY <2>2 DEF WholeReplies
  <2> QED
    BY <1>2, <2>1, <2>2
<1>6. RequestsLost' /\ RequestsAreCalls'
  BY <1>1 DEF RequestsLost, RequestsAreCalls
<1>7. OneReplyPending'
  <2>1. InStep' => InStep
    BY <1>1 DEF InStep
  <2>2. Packet(Len(issued), Current.reply)' = Packet(Len(issued), Current.reply)
    BY <1>1 DEF Packet, EncodedReply, Current
  <2> SUFFICES ASSUME InStep
               PROVE  /\ skip' = 0
                      /\ replies' # <<>> =>
                           pc = "receiving" /\ replies' = Packet(Len(issued), Current.reply)
    <3>1. \A k \in 1..Len(requests') : FALSE
      BY <1>1
    <3>2. pc' = pc /\ Packet(Len(issued'), Current'.reply) = Packet(Len(issued), Current.reply)
      BY <1>1 DEF Packet, EncodedReply, Current
    <3> QED
      BY <2>1, <3>1, <3>2 DEF OneReplyPending, Packet, EncodedReply
  <2>3. /\ skip = 0
        /\ replies # <<>> => pc = "receiving" /\ replies = Packet(Len(issued), Current.reply)
    BY DEF Inductive, OneReplyPending
  <2>4. replies' = replies \/ replies' = <<>>
    BY DEF Disconnect
  <2> QED
    BY <1>2, <2>3, <2>4
<1> QED
  BY <1>3, <1>4, <1>5, <1>6, <1>7 DEF Inductive

LEMMA UnchangedInv == ASSUME Inductive, UNCHANGED vars PROVE Inductive'
<1>1. UNCHANGED <<link, issued, pc, cb, requests, replies, skip, split, answer>>
  BY DEF vars
<1>2. TypeOK' /\ WholeReplies'
  BY <1>1, NextType, SameReplies DEF Inductive
<1>3. OneReplyPending' /\ InStep' = InStep
  BY <1>1 DEF Inductive, OneReplyPending, InStep, Packet, EncodedReply, Current
<1>4. OwnValues' /\ CheckedReplyIsOneReply'
  BY <1>1, <1>3 DEF Inductive, OwnValues, CheckedReplyIsOneReply, SentTo
<1> QED
  BY <1>1, <1>2, <1>3, <1>4 DEF Inductive, NoAnswerYet, NoAnswer, RequestsLost, RequestsAreCalls,
    IdOf, RequestInBuffer, Current

LEMMA NextInductive == Inductive /\ [Next]_vars => Inductive'
<1> SUFFICES ASSUME Inductive, [Next]_vars PROVE Inductive'
  OBVIOUS
<1>1. ASSUME NEW m \in Methods, Call(m) PROVE Inductive'
  BY <1>1, CallInv
<1>2. CASE Received
  BY <1>2, ReceiveInv DEF Received
<1>3. CASE Failed
  BY <1>3, ReceiveFailsInv DEF Failed
<1>4. CASE Answer
  BY <1>4, AnswerInv
<1>5. CASE Disconnect
  BY <1>5, DisconnectInv
<1>6. CASE UNCHANGED vars
  BY <1>6, UnchangedInv
<1>7. CASE Finished
  BY <1>6, <1>7 DEF Finished
<1> QED
  BY <1>1, <1>2, <1>3, <1>4, <1>5, <1>6, <1>7 DEF Next

LEMMA InductiveInvariant == Spec => []Inductive
  BY InitInductive, NextInductive, PTL DEF Spec

(* What a recv() that begins where a reply begins leaves in the buffer is one *)
(* reply of the board if decode() completes it and its identifier is the      *)
(* awaited one, wherever that recv() ended, whatever the earlier ones cut or  *)
(* joined, whatever the buffer held and whatever values the board sends.      *)
THEOREM CheckedReplyCorrect == Spec => []CheckedReplyIsOneReply
<1>1. Inductive => CheckedReplyIsOneReply
  BY DEF Inductive
<1> QED
  BY <1>1, InductiveInvariant, PTL

-----------------------------------------------------------------------------
(* The safety that the liveness of a query rests on. *)

(* A method that receives over a connection finds something to receive, or *)
(* the last request on its way to the board is its own, and one the board  *)
(* answers.                                                                *)
ReplyIsComing ==
    pc = "receiving" /\ link = "up" /\ replies = <<>> =>
        /\ requests # <<>>
        /\ requests[Len(requests)].call = Len(issued)
        /\ requests[Len(requests)].id \in Answered

LEMMA CallAwaits ==
    ASSUME TypeOK, NEW m \in Methods, Call(m)
    PROVE  ReplyIsComing'
<1> SUFFICES ASSUME pc' = "receiving", link = "up"
             PROVE  /\ requests' # <<>>
                    /\ requests'[Len(requests')].call = Len(issued')
                    /\ requests'[Len(requests')].id \in Answered
  BY DEF ReplyIsComing, Call
<1> DEFINE r == [call |-> Len(issued) + 1, id |-> m.request]
<1>1. requests' = Append(requests, r) /\ requests \in Seq(Requests)
  BY DEF Call, TypeOK, Requests
<1>2. m.request \in Answered
  <2>1. m.reply # 0
    BY DEF Call
  <2> QED
    BY <2>1, AnsweredAssumption
<1>3. r.call = Len(issued') /\ r.id \in Answered
  BY <1>2, IssuedGrows
<1> HIDE DEF r
<1>4. requests' # <<>> /\ requests'[Len(requests')] = r
  BY <1>1
<1> QED
  BY <1>3, <1>4

LEMMA AnswerArrives ==
    ASSUME TypeOK, RequestsAreCalls, ReplyIsComing, Answer
    PROVE  ReplyIsComing'
<1> SUFFICES ASSUME pc = "receiving", link = "up", replies' = <<>>
             PROVE  /\ requests' # <<>>
                    /\ requests'[Len(requests')].call = Len(issued)
                    /\ requests'[Len(requests')].id \in Answered
  BY DEF ReplyIsComing, Answer
<1>1. replies \in Seq(Sent) /\ requests \in Seq(Requests) /\ requests' \in Seq(Requests)
  BY DEF TypeOK, Requests, Answer
<1>2. requests[1].id \notin Answered
  <2> SUFFICES ASSUME requests[1].id \in Answered PROVE FALSE
    OBVIOUS
  <2>1. PICK call \in Calls, id \in Ids : call = requests[1].call /\ id = requests[1].id + 1
    BY FirstRequest, AnswerableType
  <2>2. replies' = replies \o Packet(call, id)
    BY <2>1, FirstRequest DEF Answer
  <2>3. Packet(call, id) \in Seq(Sent) /\ Len(Packet(call, id)) >= 1
    BY PacketSequence, FieldsDomain
  <2>4. Len(replies') = Len(replies) + Len(Packet(call, id))
    BY <1>1, <2>2, <2>3, JoinedWords
  <2>5. Len(replies) \in Nat /\ Len(Packet(call, id)) \in Nat /\ Len(replies') = 0
    BY <1>1, <2>3
  <2> QED
    BY <2>3, <2>4, <2>5
<1>3. replies = <<>>
  BY <1>2, FirstRequest DEF Answer
<1>4. /\ requests[Len(requests)].call = Len(issued)
      /\ requests[Len(requests)].id \in Answered
  BY <1>3 DEF ReplyIsComing
<1>5. Len(requests) # 1
  BY <1>2, <1>4
<1>6. /\ Len(requests') \in 1..Len(requests') /\ Len(requests') + 1 = Len(requests)
      /\ requests'[Len(requests')] = requests[Len(requests)]
  <2>1. Len(requests') = Len(requests) - 1 /\ Len(requests) \in Nat /\ Len(requests) >= 1
    BY FirstRequest
  <2>2. Len(requests') \in 1..Len(requests') /\ Len(requests') + 1 = Len(requests)
    BY <1>5, <2>1
  <2> QED
    BY <2>2, FirstRequest
<1> QED
  BY <1>1, <1>4, <1>6

(* A method that awaits a reply never waits for one that cannot come: as   *)
(* long as the connection lasts there are words to receive, or the board   *)
(* still has the request of this very call and answers it.                 *)
THEOREM QueryIsAnswered == Spec => []ReplyIsComing
<1>1. Init => ReplyIsComing
  BY DEF Init, ReplyIsComing
<1>2. Inductive /\ ReplyIsComing /\ [Next]_vars => ReplyIsComing'
  <2> SUFFICES ASSUME Inductive, ReplyIsComing, [Next]_vars PROVE ReplyIsComing'
    OBVIOUS
  <2>1. ASSUME NEW m \in Methods, Call(m) PROVE ReplyIsComing'
    BY <2>1, CallAwaits DEF Inductive
  <2>2. CASE Answer
    BY <2>2, AnswerArrives DEF Inductive
  <2>3. CASE Received \/ Failed
    BY <2>3 DEF Received, Receive, Failed, ReceiveFails, Finish, ReplyIsComing
  <2>4. CASE Disconnect
    BY <2>4 DEF Disconnect, ReplyIsComing
  <2>5. CASE Finished \/ UNCHANGED vars
    BY <2>5 DEF Finished, vars, ReplyIsComing
  <2> QED
    BY <2>1, <2>2, <2>3, <2>4, <2>5 DEF Next
<1> QED
  BY InductiveInvariant, <1>1, <1>2, PTL DEF Spec

-----------------------------------------------------------------------------
(* The verdict of checkMessageConsistency(). *)

(* In step, a reply is accepted exactly if the method expects the           *)
(* identifier of the message it decodes.                                    *)
VerdictIsRight ==
    InStep /\ answer.length > 0 =>
        LET m == issued[answer.call] IN
        m.reply # 0 /\ (answer.accepted <=> m.expected = m.reply)

LEMMA AnsweredCall ==
    ASSUME TypeOK, NoAnswerYet, answer.length > 0
    PROVE  answer.call \in 1..Len(issued) /\ issued[answer.call] \in FtSensorNew
<1>1. answer.call # 0
  <2> SUFFICES ASSUME answer = NoAnswer PROVE FALSE
    BY DEF NoAnswerYet
  <2>1. answer.length = 0
    BY DEF NoAnswer
  <2> QED
    BY <2>1
<1>2. answer.call \in 0..Len(issued) /\ Len(issued) \in Nat /\ issued \in Seq(Methods)
  BY DEF TypeOK
<1>3. answer.call \in 1..Len(issued)
  BY <1>1, <1>2
<1> QED
  BY <1>2, <1>3, MethodsAssumption

LEMMA VerdictStep ==
    ASSUME Inductive, VerdictIsRight, [Next]_vars
    PROVE  VerdictIsRight'
<1>0. TypeOK /\ NoAnswerYet /\ OneReplyPending
  BY DEF Inductive
<1>1. ASSUME NEW m \in Methods, Call(m) PROVE VerdictIsRight'
  <2> SUFFICES ASSUME InStep', answer.length > 0
               PROVE  LET c == issued'[answer.call] IN
                      c.reply # 0 /\ (answer.accepted <=> c.expected = c.reply)
    BY <1>1 DEF Call, VerdictIsRight
  <2>1. answer.call \in 1..Len(issued)
    BY <1>0, AnsweredCall
  <2>2. issued'[answer.call] = issued[answer.call] /\ InStep
    BY <1>0, <1>1, <2>1, IssuedGrows, CallInStep
  <2> QED
    BY <2>2 DEF VerdictIsRight
<1>2. ASSUME NEW n \in 1..(4 * ContentWords), Receive(n) PROVE VerdictIsRight'
  <2> SUFFICES ASSUME InStep'
               PROVE  LET m == issued'[answer'.call] IN
                      m.reply # 0 /\ (answer'.accepted <=> m.expected = m.reply)
    BY DEF VerdictIsRight
  <2>1. issued'[answer'.call] = Current
    BY <1>0, <1>2, ReceiveSteps, ReceivedAnswer DEF Current
  <2>2. HasRoom(0, n) /\ IdOf(ReceivedContent(n)[1]) = Current.reply /\ Current.reply # 0
    <3>1. /\ replies = Packet(Len(issued), Current.reply) /\ skip = 0
          /\ n = EncodedSize(Current.reply) /\ n = 4 * Len(replies)
      BY <1>0, <1>2, ReceiveWhole
    <3>2. Len(issued) \in Calls /\ Current.reply \in Ids /\ n \in Nat
      BY <1>0, <1>2, ReceiveSteps, AwaitedReply
    <3>3. n >= 4 /\ Len(Fields[Current.reply]) \in Nat
      BY <3>1, <3>2, FieldsDomain
    <3>4. 1 \in 1..ContentWords /\ 1 \in 1..(Len(Fields[Current.reply]) + 1)
      BY <3>3, ContentWordsAssumption
    <3>5. ReceivedContent(n)[1] = replies[1].word
      <4>1. n <= 4 * Len(replies) /\ 4 * 1 <= n
        BY <3>1, <3>2, <3>3
      <4> QED
        BY <1>0, <3>1, <3>2, <3>4, <4>1, ReceivedWord
    <3>6. replies[1].word = EncodedReply(Len(issued), Current.reply)[1]
      BY <3>1, <3>2, <3>4, PacketSequence
    <3> QED
      BY <1>0, <1>2, <3>2, <3>3, <3>5, <3>6, EncodedWords, IdsAreNumbers, ReceivedAnswer
  <2>3. answer'.accepted = (IdOf(ReceivedContent(n)[1]) = Current.expected)
    BY <1>0, <1>2, <2>2, ReceivedAnswer
  <2> QED
    BY <2>1, <2>2, <2>3
<1>3. ASSUME NEW length \in {0, -1}, ReceiveFails(length) PROVE VerdictIsRight'
  <2>1. answer'.length = length
    BY <1>0, <1>3, FailedAnswer
  <2>2. ~(answer'.length > 0)
    BY <2>1
  <2> QED
    BY <2>2 DEF VerdictIsRight
<1>4. ASSUME UNCHANGED <<issued, split, answer>> PROVE VerdictIsRight'
  BY <1>4 DEF VerdictIsRight, InStep
<1> QED
  BY <1>1, <1>2, <1>3, <1>4 DEF Next, Received, Failed, Answer, Disconnect, Finished, vars

LEMMA AlwaysRight == Spec => []VerdictIsRight
<1>1. Init => VerdictIsRight
  <2> SUFFICES ASSUME Init PROVE ~(answer.length > 0)
    BY DEF VerdictIsRight
  <2>1. answer.length = 0
    BY DEF Init, NoAnswer
  <2> QED
    BY <2>1
<1>2. Inductive /\ VerdictIsRight /\ [Next]_vars => VerdictIsRight'
  BY VerdictStep
<1> QED
  BY InductiveInvariant, <1>1, <1>2, PTL DEF Spec

(* A method that awaits a reply obtains the whole reply to its own request *)
(* as long as every answered request was awaited and no recv() cut a reply, *)
(* and takes it for consistent exactly if it compares with its identifier.  *)
THEOREM OwnReplyCorrect == Spec => []OwnReply
<1>1. Inductive /\ VerdictIsRight => OwnReply
  BY DEF Inductive, OwnValues, VerdictIsRight, OwnReply
<1> QED
  BY <1>1, InductiveInvariant, AlwaysRight, PTL

(* Of the seventeen methods one compares with another identifier than that  *)
(* of the message it decodes: while calls and replies are in step           *)
(* getCalibrationOffsets() reports every reply it gets as an inconsistent   *)
(* one, and every other method takes its replies.                           *)
THEOREM OneMethodMisjudges ==
    Spec => [](InStep /\ answer.length > 0 =>
                  (answer.accepted <=> issued[answer.call] # getCalibrationOffsets))
<1>1. ASSUME NEW m \in FtSensorNew, m.reply # 0
      PROVE  m.expected = m.reply <=> m # getCalibrationOffsets
  BY <1>1 DEF FtSensorNew, Method, calibrateOffsets, getCalibrationOffsets, setSampleStreamPol,
    getBoardInfo, setMtxRow, getMtxRow, saveParamsOnFlash, setIpAddress, getIpAddress,
    setMacAddress, getMacAddress, setNetmask, getNetmask, setGateway, getGateway,
    readInventory, writeInventory
<1>2. Inductive /\ VerdictIsRight =>
        (InStep /\ answer.length > 0 =>
            (answer.accepted <=> issued[answer.call] # getCalibrationOffsets))
  BY <1>1, AnsweredCall DEF Inductive, VerdictIsRight
<1> QED
  BY InductiveInvariant, AlwaysRight, <1>2, PTL
=============================================================================
