-------------------------- MODULE MultitorqueCodec --------------------------
(***************************************************************************)
(* Encoding and decoding of Multitorque messages (AME/baseTypeEncoding.cpp *)
(* and the generated functions of AME/MultitorqueEncoder.cpp) in the       *)
(* buffers of the Ethernet service.  Every field of every message takes    *)
(* four bytes, so the content of a buffer is modelled as a sequence of     *)
(* 32-bit words; sizes are in bytes, as in the code.                       *)
(***************************************************************************)
EXTENDS MultitorqueMessages

CONSTANTS ContentWords,  \* words of CharBuff::content: PACKET_MAX_SIZE / 4
          SizeModulus    \* size_t wraps there

ASSUME ContentWordsAssumption == ContentWords \in Nat /\ ContentWords >= 13
ASSUME SizeModulusAssumption ==
    SizeModulus \in Nat /\ SizeModulus > 8 * (ContentWords + 3)

ENCODING_TYPE == 1

(* sizeof(CharBuff), which is what encode() is given as the room it has: *)
(* the content and the size that follows it.                             *)
SizeofCharBuff == 4 * ContentWords + 8

(* A CharBuff::size, or an int32_t taken for one: -1 becomes huge. *)
ToSize(n) == n % SizeModulus

(* The header: identifier above bit 20, encoding above bit 16, size below. *)
packHeaderInfo(id, size, encoding) ==
    (id % 4096) * 1048576 + (encoding % 16) * 65536 + (size % 65536)

unpackHeaderInfo(word) ==
    [id |-> (word \div 1048576) % 4096, size |-> word % 65536,
     encoding |-> (word \div 65536) % 16]

(* An 8-bit value occupies the first byte of its word; the three others *)
(* keep what the buffer held.                                           *)
StoreValue(type, value, word) ==
    IF type = "uint8" THEN (word - (word % 256)) + (value % 256) ELSE value

LoadValue(type, word) == IF type = "uint8" THEN word % 256 ELSE word

(* What getSize() of an encoded message is: header and fields. *)
EncodedSize(id) == 4 * (Len(Fields[id]) + 1)

(* Mutant: no check. *)
RoomTaken(i, maxSize) == TRUE

(* CHECK_BUFFER_SIZE for the i-th field, which starts at byte 4 * i. *)
HasRoom(i, maxSize) == ToSize(maxSize - 4 * i) >= 4

(* The i-th field is reached: it and those before it had room. *)
Reached(i, maxSize) == \A j \in 1..i : HasRoom(j, maxSize)

(* encode(): fields in order up to the first that has no room, then the *)
(* header in front of them if all had.                                  *)
EncodeCode(id, maxSize) ==
    IF Reached(Len(Fields[id]), maxSize) THEN EncodedSize(id) ELSE -1

Encode(id, values, content, maxSize) ==
    [w \in DOMAIN content |->
        IF w = 1 /\ EncodeCode(id, maxSize) >= 0
        THEN packHeaderInfo(id, EncodedSize(id), ENCODING_TYPE)
        ELSE IF w - 1 \in DOMAIN Fields[id] /\ Reached(w - 1, maxSize)
        THEN StoreValue(Fields[id][w - 1], values[w - 1], content[w])
        ELSE content[w]]

(* A message object as its constructor leaves it: its own identifier in *)
(* the header and zeros.                                                *)
NewMessage(id) ==
    [header |-> [id |-> id, size |-> 0, encoding |-> 0],
     values |-> [i \in DOMAIN Fields[id] |-> 0]]

(* decode(): the header, which may be that of any message, then the     *)
(* fields in order, each stored in the object, up to the first that has *)
(* no room.                                                             *)
DecodeCode(id, maxSize) ==
    IF HasRoom(0, maxSize) /\ Reached(Len(Fields[id]), maxSize) THEN EncodedSize(id) ELSE -1

Decode(id, object, content, maxSize) ==
    IF ~HasRoom(0, maxSize) THEN object
    ELSE [header |-> unpackHeaderInfo(content[1]),
          values |-> [i \in DOMAIN Fields[id] |->
                        IF Reached(i, maxSize) THEN LoadValue(Fields[id][i], content[i + 1])
                        ELSE object.values[i]]]
=============================================================================
