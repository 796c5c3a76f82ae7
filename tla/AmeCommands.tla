---------------------------- MODULE AmeCommands ----------------------------
(***************************************************************************)
(* The commands of an AME force/torque sensor (AME/ftSensorNew.cpp) over   *)
(* the TCP connection of its board (AME/ethService.cpp, ethService.h).  A  *)
(* method of FtSensorNew encodes a request into the one buffer the sensor  *)
(* owns, sends it and, if it awaits a reply, receives into the same buffer *)
(* and decodes whatever recv() returned.  Methods run one at a time.       *)
(*                                                                         *)
(* TCP keeps the order of the bytes but not the boundaries of the replies: *)
(* recv() may return several replies at once or end anywhere inside of     *)
(* one, even inside of a word.                                             *)
(***************************************************************************)
EXTENDS MultitorqueCodec

CONSTANTS Methods,     \* the methods that are called
          Answered,    \* identifiers of the requests the board answers
          BoardData,   \* per call: the values of the fields of its reply
          MaxCalls     \* bound: calls of methods

(* A method of FtSensorNew: the request it sends, the reply it decodes (0:    *)
(* it awaits none) and the identifier it passes to checkMessageConsistency(). *)
Method(request, reply, expected) ==
    [request |-> request, reply |-> reply, expected |-> expected]

calibrateOffsets == Method(3, 0, 0)
getCalibrationOffsets == Method(21, 22, 4)
setSampleStreamPol == Method(9, 0, 0)
getBoardInfo == Method(1, 2, 2)
setMtxRow == Method(17, 0, 0)
getMtxRow == Method(19, 20, 20)
saveParamsOnFlash == Method(24, 0, 0)
setIpAddress == Method(25, 0, 0)
getIpAddress == Method(26, 27, 27)
setMacAddress == Method(28, 29, 29)
getMacAddress == Method(30, 31, 31)
setNetmask == Method(32, 0, 0)
getNetmask == Method(33, 34, 34)
setGateway == Method(35, 0, 0)
getGateway == Method(36, 37, 37)
readInventory == Method(39, 40, 40)
writeInventory == Method(38, 0, 0)

FtSensorNew ==
    {calibrateOffsets, getCalibrationOffsets, setSampleStreamPol, getBoardInfo, setMtxRow,
     getMtxRow, saveParamsOnFlash, setIpAddress, getIpAddress, setMacAddress, getMacAddress,
     setNetmask, getNetmask, setGateway, getGateway, readInventory, writeInventory}

(* The requests the protocol has a reply for; its identifier comes next. *)
Answerable == {1, 3, 5, 7, 9, 11, 13, 15, 17, 19, 21, 26, 28, 30, 33, 36, 39}

Calls == 1..MaxCalls

ASSUME MaxCallsAssumption == MaxCalls \in Nat
ASSUME MethodsAssumption == Methods \subseteq FtSensorNew
(* A board answers the requests whose replies the methods await. *)
ASSUME AnsweredAssumption ==
    /\ Answered \subseteq Answerable
    /\ \A m \in Methods : m.reply # 0 => m.request \in Answered
(* A word is any number: nothing rests on its having 32 bits.  A value may  *)
(* look like a header, and a part of one too.                               *)
Words == Nat
ASSUME BoardDataAssumption == BoardData \in [Calls -> [1..12 -> Words]]

VARIABLES
    link,      \* the TCP connection: "up" or "down"
    issued,    \* the methods called so far, in order
    pc,        \* the method that runs: "idle" if none, "receiving" in recv()
    cb,        \* the sensor's CharBuff
    requests,  \* requests the board has not handled yet
    replies,   \* words sent by the board and not received as a whole yet
    skip,      \* bytes of the first of them that have been received
    split,     \* some recv() ended inside of a reply
    answer     \* what the last method that awaited a reply obtained

vars == <<link, issued, pc, cb, requests, replies, skip, split, answer>>

Buffers == [content : [1..ContentWords -> Words], size : 0..(SizeModulus - 1)]

(* A word on its way; the first one of a reply is its header. *)
Sent == [word : Words, first : BOOLEAN]

(* call 0: none yet; atReply: recv() began where a reply begins; length:    *)
(* what it returned.                                                        *)
NoAnswer == [call |-> 0, atReply |-> FALSE, length |-> 0, code |-> 0, accepted |-> FALSE,
             values |-> <<>>]

(* FtSensorNew's constructor, on a connected board. *)
Init ==
    /\ link = "up"
    /\ issued = <<>>
    /\ pc = "idle"
    /\ cb = [content |-> [w \in 1..ContentWords |-> 0], size |-> 0]
    /\ requests = <<>>
    /\ replies = <<>> /\ skip = 0
    /\ split = FALSE
    /\ answer = NoAnswer

Current == issued[Len(issued)]

(* Mutant: a method waits for a reply it has no use for. *)
AwaitAlways(m) ==
    /\ pc = "idle" /\ Len(issued) < MaxCalls
    /\ issued' = Append(issued, m)
    /\ requests' = Append(requests, [call |-> Len(issued) + 1, id |-> m.request])
    /\ pc' = "receiving"
    /\ UNCHANGED <<link, cb, replies, skip, split, answer>>

-----------------------------------------------------------------------------
(* The parameters of a call, told from any value a board replies with. *)
Arguments(call) == [i \in 1..12 |-> 256 + 16 * call + i]

(* A method encodes its request into the buffer and sends it.  When send() *)
(* fails the method goes on to receive all the same.                       *)
Call(m) ==
    /\ pc = "idle"
    /\ Len(issued) < MaxCalls
    /\ issued' = Append(issued, m)
    /\ cb' = [content |-> Encode(m.request, Arguments(Len(issued) + 1), cb.content,
                                 SizeofCharBuff),
              size |-> ToSize(EncodeCode(m.request, SizeofCharBuff))]
    /\ requests' = IF link = "up"
                   THEN Append(requests, [call |-> Len(issued) + 1, id |-> m.request])
                   ELSE requests
    /\ pc' = IF m.reply = 0 THEN "idle" ELSE "receiving"
    /\ UNCHANGED <<link, replies, skip, split, answer>>

(* A boundary between two replies: nothing is left or a header comes next. *)
AtReply == skip = 0 /\ (replies = <<>> \/ Head(replies).first)

(* Mutant: recv() leaves the size of the request in the buffer. *)
FinishWithOldSize(content, length) ==
    LET id == Current.reply
        object == Decode(id, NewMessage(id), content, cb.size)
    IN  /\ pc' = "idle"
        /\ cb' = [content |-> content, size |-> cb.size]
        /\ answer' = [call |-> Len(issued), atReply |-> AtReply, length |-> length,
                      code |-> DecodeCode(id, cb.size),
                      accepted |-> object.header.id = Current.expected,
                      values |-> object.values]

(* recv() returned length bytes into the buffer: the method decodes them, *)
(* compares the identifier, reports a difference and returns the values.  *)
Finish(content, length) ==
    LET id == Current.reply
        object == Decode(id, NewMessage(id), content, ToSize(length))
    IN  /\ pc' = "idle"
        /\ cb' = [content |-> content, size |-> ToSize(length)]
        /\ answer' = [call |-> Len(issued), atReply |-> AtReply, length |-> length,
                      code |-> DecodeCode(id, ToSize(length)),
                      accepted |-> object.header.id = Current.expected,
                      values |-> object.values]

(* The bytes of a word, the lowest first. *)
ByteOf(word, b) ==
    LET rest == word \div <<1, 256, 65536, 16777216>>[b]
    IN  IF b < 4 THEN rest % 256 ELSE rest

WordOf(byte) == byte[1] + 256 * byte[2] + 65536 * byte[3] + 16777216 * byte[4]

(* The buffer with the next n bytes of the replies at its beginning. *)
ReceivedContent(n) ==
    [w \in 1..ContentWords |-> WordOf([b \in 1..4 |->
        LET at == 4 * (w - 1) + (b - 1) IN
        IF at < n THEN ByteOf(replies[((skip + at) \div 4) + 1].word, ((skip + at) % 4) + 1)
        ELSE ByteOf(cb.content[w], b)])]

(* recv() takes some of the bytes that have arrived. *)
Receive(n) ==
    /\ pc = "receiving"
    /\ n \in 1..(4 * ContentWords) /\ skip + n <= 4 * Len(replies)
    /\ replies' = SubSeq(replies, (skip + n) \div 4 + 1, Len(replies))
    /\ skip' = (skip + n) % 4
    /\ split' = (split \/ ~AtReply')
    /\ Finish(ReceivedContent(n), n)
    /\ UNCHANGED <<link, issued, requests>>

(* Mutant: a failed recv() is repeated. *)
ReceiveAgain(length) == pc = "receiving" /\ link = "down" /\ replies = <<>> /\ UNCHANGED vars

(* On a lost connection recv() returns 0 or -1 and leaves the content. *)
ReceiveFails(length) ==
    /\ pc = "receiving"
    /\ link = "down"
    /\ replies = <<>>
    /\ Finish(cb.content, length)
    /\ UNCHANGED <<link, issued, requests, replies, skip, split>>

-----------------------------------------------------------------------------
(* The board's encoding of its reply to a call. *)
EncodedReply(call, id) ==
    Encode(id, BoardData[call], [w \in 1..(Len(Fields[id]) + 1) |-> 0], EncodedSize(id))

Packet(call, id) ==
    [w \in 1..(Len(Fields[id]) + 1) |-> [word |-> EncodedReply(call, id)[w], first |-> w = 1]]

(* The board handles one request and answers it if it answers its kind. *)
Answer ==
    /\ link = "up"
    /\ requests # <<>>
    /\ requests' = Tail(requests)
    /\ replies' = IF Head(requests).id \in Answered
                  THEN replies \o Packet(Head(requests).call, Head(requests).id + 1)
                  ELSE replies
    /\ UNCHANGED <<link, issued, pc, cb, skip, split, answer>>

(* The connection is lost; what the board had sent may still arrive. *)
Disconnect ==
    /\ link = "up"
    /\ link' = "down"
    /\ requests' = <<>>
    /\ \/ UNCHANGED <<replies, skip>>
       \/ replies' = <<>> /\ skip' = 0
    /\ UNCHANGED <<issued, pc, cb, split, answer>>

(* The bound on calls is reached and nothing is left to do. *)
Finished ==
    /\ pc = "idle" /\ Len(issued) = MaxCalls /\ link = "down"
    /\ UNCHANGED vars

Received == \E n \in 1..(4 * ContentWords) : Receive(n)

Failed == \E length \in {0, -1} : ReceiveFails(length)

Next == (\E m \in Methods : Call(m)) \/ Received \/ Failed \/ Answer \/ Disconnect \/ Finished

Spec == Init /\ [][Next]_vars

(* The board works and recv() returns once it can. *)
FairSpec == Spec /\ WF_vars(Answer) /\ WF_vars(Received) /\ WF_vars(Failed)

-----------------------------------------------------------------------------
(* Every variable has its type. *)
TypeOK ==
    /\ link \in {"up", "down"}
    /\ issued \in Seq(Methods) /\ Len(issued) <= MaxCalls
    /\ pc \in {"idle", "receiving"}
    /\ pc = "receiving" => issued # <<>> /\ Current.reply # 0
    /\ cb \in Buffers
    /\ requests \in Seq([call : Calls, id : {m.request : m \in Methods}])
    /\ replies \in Seq(Sent) /\ skip \in 0..3
    /\ split \in BOOLEAN
    /\ answer.call \in 0..Len(issued)

(* What the board sent to a call, as a decoded message has it. *)
SentTo(call, id) ==
    [i \in DOMAIN Fields[id] |-> LoadValue(Fields[id][i], BoardData[call][i])]

(* Nothing before the current call can leave a reply behind: every earlier *)
(* request the board answers was awaited, and no recv() split a reply.     *)
InStep ==
    /\ ~split
    /\ \A c \in DOMAIN issued : issued[c].reply = 0 => issued[c].request \notin Answered

(* While calls and replies are in step and the connection lasts, a method *)
(* that awaits a reply obtains the whole reply to its own request,        *)
(* although nothing in a reply says which call it answers, and takes it   *)
(* for consistent exactly if it compares with that reply's identifier.    *)
OwnReply ==
    LET m == issued[answer.call] IN
    InStep /\ answer.length > 0 =>
        /\ answer.code = 4 * (Len(answer.values) + 1)
        /\ answer.values = SentTo(answer.call, m.reply)
        /\ answer.accepted <=> m.expected = m.reply

(* A recv() that begins where a reply begins, wherever it ends and whatever *)
(* the buffer held: a message that decode() completes and that carries the  *)
(* identifier of the awaited one holds the values of one reply the board    *)
(* sent, if not of the right one.  (A recv() that begins inside of a reply  *)
(* may take what is left of it for a header: no check in the code says that *)
(* it does not.)                                                            *)
CheckedReplyIsOneReply ==
    LET m == issued[answer.call] IN
    /\ answer.call # 0 /\ answer.atReply
    /\ answer.code >= 0 /\ answer.accepted /\ m.expected = m.reply
    => \E c \in 1..answer.call :
            issued[c].request = m.request /\ answer.values = SentTo(c, m.reply)

(* A method that awaits a reply returns: a recv() that takes several replies *)
(* never takes the one to a call that was not made yet.                      *)
QueryReturns == pc = "receiving" ~> pc = "idle"

(* Violated: a method that reports no error (recv() did not return -1 and the *)
(* identifier is the expected one) while calls and replies are in step        *)
(* returns values the board sent.  A connection the board closes is reported  *)
(* by neither, and the zeros of the message's constructor are returned.       *)
UnreportedAnswerIsSent ==
    LET m == issued[answer.call] IN
    InStep /\ answer.call # 0 /\ answer.length >= 0 /\ answer.accepted =>
        \E c \in 1..answer.call : answer.values = SentTo(c, m.reply)
=============================================================================
