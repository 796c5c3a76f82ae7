-------------------------- MODULE AmeServiceProofs --------------------------
(***************************************************************************)
(* Proofs of the safety properties of AmeService for any number of readers, *)
(* datagrams and calls of open().  The inductive invariant has three parts: *)
(* what open() has built (Opening), what the receiving thread relies on     *)
(* (Receiving) and what the numbers of the datagrams tell (Delivering).     *)
(***************************************************************************)
EXTENDS AmeService, FiniteSetTheorems, TLAPS

Boards == 1..MAX_NUM_BOARDS

-----------------------------------------------------------------------------
(* What open() has built. *)

ThreadHasPort == worker # "none" => portTaken /\ opens >= 1

(* Only the first open() gets past bind(). *)
OpeningFirst ==
    owner \in {"connect", "build", "start"} =>
        worker = "none" /\ portTaken /\ (process = "running" => sockId = "bound")

OpenedAgain == owner # "idle" => opens >= 1 /\ (worker # "none" => opens > 1)

Listening == process = "running" /\ owner = "idle" /\ worker # "none" => sockId = "bound"

ClosedLate ==
    sockId = "closed" =>
        process # "running" /\ (process = "exited" \/ worker = "none" \/ opens > 1)

OneHandler ==
    IF owner = "start" THEN \A b \in Boards : handler[b] = IF b = boards THEN opens ELSE 0
    ELSE IF worker = "none" THEN \A b \in Boards : handler[b] = 0
    ELSE \E b \in Boards : handler[b] # 0 /\ \A c \in Boards : handler[c] # 0 => c = b

SensorAlive ==
    /\ ft # 0 => ft \in sensors /\ worker # "none"
    /\ worker # "none" /\ ft # 0 /\ opens <= 1 =>
           \A b \in Boards : handler[b] # 0 => handler[b] \in sensors

Opening ==
    /\ ThreadHasPort /\ OpeningFirst /\ OpenedAgain /\ Listening /\ ClosedLate
    /\ OneHandler /\ SensorAlive

-----------------------------------------------------------------------------
(* What the receiving thread relies on. *)

DatagramIsThere == worker = "receive" => queue # <<>>

BoardIsThere ==
    /\ worker = "handle" => board >= 1
    /\ worker \in {"decoded", "store"} => board \in 1..boards /\ handler[board] # 0

Receiving == DatagramIsThere /\ BoardIsThere

-----------------------------------------------------------------------------
(* What the numbers of the datagrams tell. *)

(* The queue holds the last arrivals, in order; each copy is older. *)
InOrder ==
    /\ Len(queue) <= Len(arrived)
    /\ \A i \in 1..Len(queue) : queue[i] = (Len(arrived) - Len(queue)) + i
    /\ cbUdpRec + Len(queue) <= Len(arrived)
    /\ decoded <= cbUdpRec /\ sample.last <= decoded

Fresh ==
    \A r \in Readers :
        /\ reader[r].at \in {"lock", "copy"} => reader[r].since <= sample.last
        /\ reader[r].at \in {"assign", "return"} => reader[r].since <= reader[r].got.last
        /\ reader[r].at = "idle" => reader[r].since <= reader[r].out.last

(* sensor_mutex is held by who copies. *)
Locking ==
    /\ worker = "store" <=> mutex = "worker"
    /\ \A r \in Readers : reader[r].at = "copy" <=> mutex = r

FromBoard(n) == n = 0 \/ (n \in 1..Len(arrived) /\ arrived[n] = "board")

Genuine ==
    process = "running" =>
        /\ FromBoard(decoded) /\ FromBoard(sample.last)
        /\ worker \in {"handle", "decoded", "store"} => FromBoard(cbUdpRec)
        /\ \A r \in Readers : FromBoard(reader[r].got.last) /\ FromBoard(reader[r].out.last)

(* A reader that is alone finds its own values in the shared readings. *)
OneReader(r) ==
    /\ reader[r].at = "copy" => reader[r].got.first = sample.first
    /\ reader[r].at \in {"assign", "return"} => reader[r].got.first = reader[r].got.last
    /\ reader[r].alone /\ reader[r].at # "idle" => \A p \in Readers \ {r} : reader[p].at = "idle"
    /\ reader[r].alone /\ reader[r].at = "return" => reading.first = reader[r].got.first
    /\ reader[r].alone /\ reader[r].at = "idle" => reader[r].out.first = reader[r].out.last

OneSample ==
    /\ IF worker = "store" THEN sample.first = decoded ELSE sample.first = sample.last
    /\ \A r \in Readers : OneReader(r)

Delivering == InOrder /\ Fresh /\ Locking /\ Genuine /\ OneSample

Inductive == TypeOK /\ Opening /\ Receiving /\ Delivering /\ DefinedWhileOpen

-----------------------------------------------------------------------------
(* The initial state. *)
LEMMA InitInductive == Init => Inductive
<1> SUFFICES ASSUME Init PROVE Inductive
  OBVIOUS
<1>1. TypeOK
  <2>1. 0 \in Numbers /\ NoWrench \in Wrenches /\ sample \in Wrenches /\ reading \in Wrenches
    BY BoundsAssumption DEF Init, Numbers, Wrenches, NoWrench
  <2>2. NotReading \in [at : {"idle", "lock", "copy", "assign", "return"}, alone : BOOLEAN,
                        since : Numbers, got : Wrenches, out : Wrenches]
    BY <2>1 DEF NotReading
  <2>3. reader \in [Readers -> [at : {"idle", "lock", "copy", "assign", "return"},
                                alone : BOOLEAN, since : Numbers, got : Wrenches,
                                out : Wrenches]]
    BY <2>2 DEF Init
  <2>4. handler \in [1..MAX_NUM_BOARDS -> 0..MaxOpens]
    BY BoundsAssumption DEF Init, MAX_NUM_BOARDS
  <2>5. arrived \in Seq({"board", "other"}) /\ Len(arrived) <= MaxDatagrams
        /\ queue \in Seq(1..MaxDatagrams)
    BY BoundsAssumption DEF Init
  <2>6. cbUdpRec \in Numbers /\ decoded \in Numbers /\ sensors \subseteq 1..MaxOpens
    BY <2>1 DEF Init
  <2>7. /\ opens \in 0..MaxOpens /\ boards \in 0..MAX_NUM_BOARDS /\ ft \in 0..MaxOpens
        /\ board \in 0..(MAX_NUM_BOARDS + 1)
    BY BoundsAssumption DEF Init, MAX_NUM_BOARDS
  <2>8. portTaken \in BOOLEAN /\ continuing \in BOOLEAN
    BY DEF Init
  <2>9. /\ process \in {"running", "exiting", "exited", "undefined"}
        /\ owner \in {"idle", "socket", "bind", "connect", "build", "start"}
        /\ (owner # "idle" => boards >= 1)
        /\ sockId \in {"none", "unbound", "bound", "closed"}
        /\ worker \in {"none", "check", "select", "receive", "handle", "decoded", "store",
                       "done"}
        /\ mutex \in {"free", "worker"} \cup Readers
    BY DEF Init
  <2> QED
    BY <2>1, <2>3, <2>4, <2>5, <2>6, <2>7, <2>8, <2>9, Zenon DEF TypeOK
<1>2. Opening
  BY DEF Init, Opening, ThreadHasPort, OpeningFirst, OpenedAgain, Listening, ClosedLate,
         OneHandler, SensorAlive, Boards, MAX_NUM_BOARDS
<1>3. Receiving
  BY DEF Init, Receiving, DatagramIsThere, BoardIsThere
<1>4. InOrder
  BY DEF Init, InOrder, NoWrench
<1>5. Fresh /\ Genuine /\ OneSample
  BY DEF Init, Fresh, Genuine, OneSample, OneReader, FromBoard, NoWrench, NotReading
<1>6. Locking
  BY ReadersAssumption DEF Init, Locking, NotReading
<1>7. DefinedWhileOpen
  BY DEF Init, DefinedWhileOpen
<1> QED
  BY <1>1, <1>2, <1>3, <1>4, <1>5, <1>6, <1>7 DEF Inductive, Delivering

-----------------------------------------------------------------------------
(* The types are preserved. *)

(* The cases of a step. *)
LEMMA Steps ==
    ASSUME [Next]_vars
    PROVE  \/ \E found \in BOOLEAN : Open(found)
           \/ Socket \/ Bind \/ ConnectAll \/ BuildSensor \/ StartRecvThread
           \/ Close \/ EndProgram \/ StopRecvThread \/ Join
           \/ \E sender \in {"board", "other"} : Arrive(sender)
           \/ WorkerCheck \/ Select \/ Timeout \/ RecvFrom \/ NextBoard
           \/ Analyze \/ StoreFirst \/ StoreLast
           \/ \E r \in Readers : ReadBegin(r)
           \/ \E r \in Readers : CopyFirst(r) \/ CopyLast(r)
           \/ \E r \in Readers : AssignFirst(r) \/ Return(r)
           \/ UNCHANGED vars
  BY DEF Next, OwnerStep, WorkerStep, ReaderStep, Ended

Reads == [at : {"idle", "lock", "copy", "assign", "return"}, alone : BOOLEAN,
          since : Numbers, got : Wrenches, out : Wrenches]

(* What is undefined changes nothing else. *)
LEMMA TypeUndefined ==
    ASSUME TypeOK, Undefined PROVE TypeOK'
  BY DEF TypeOK, Undefined, manager, network, receiver, sensor, data, clients

LEMMA HeadTail ==
    ASSUME NEW S, NEW s \in Seq(S), s # <<>>
    PROVE  Head(s) \in S /\ Tail(s) \in Seq(S)
  OBVIOUS

LEMMA TypeStep ==
    ASSUME TypeOK, Opening, Receiving, [Next]_vars
    PROVE  TypeOK'
<1> USE BoundsAssumption DEF MAX_NUM_BOARDS
<1>1. ASSUME NEW found \in BOOLEAN, Open(found) PROVE TypeOK'
  <2>1. opens' \in 0..MaxOpens
    BY <1>1 DEF TypeOK, Open
  <2>2. /\ owner' \in {"idle", "socket"} /\ boards' \in 0..MAX_NUM_BOARDS
        /\ owner' # "idle" => boards' >= 1
    <3>1. boards \in 0..MAX_NUM_BOARDS /\ owner = "idle"
      BY <1>1 DEF TypeOK, Open
    <3>2. \/ UNCHANGED <<owner, boards>>
          \/ /\ owner' = "socket"
             /\ boards' = IF boards >= MAX_NUM_BOARDS THEN boards ELSE boards + 1
      BY <1>1 DEF Open
    <3> QED
      BY <3>1, <3>2
  <2>3. UNCHANGED <<process, handler, sockId, portTaken, continuing, network, receiver, sensor,
                    data, clients>>
    BY <1>1 DEF Open
  <2> QED
    BY <2>1, <2>2, <2>3 DEF TypeOK, network, receiver, sensor, data, clients
<1>2. ASSUME NEW sender \in {"board", "other"}, Arrive(sender) PROVE TypeOK'
  <2>1. /\ arrived' \in Seq({"board", "other"}) /\ Len(arrived') <= MaxDatagrams
        /\ queue' \in Seq(1..MaxDatagrams)
    <3>1. arrived \in Seq({"board", "other"}) /\ queue \in Seq(1..MaxDatagrams)
      BY DEF TypeOK
    <3>2. /\ arrived' = Append(arrived, sender) /\ queue' = Append(queue, Len(arrived) + 1)
          /\ Len(arrived) < MaxDatagrams
      BY <1>2 DEF Arrive
    <3>3. Len(arrived) + 1 \in 1..MaxDatagrams /\ Len(arrived') = Len(arrived) + 1
      BY <3>1, <3>2
    <3> QED
      BY <3>1, <3>2, <3>3
  <2>2. UNCHANGED <<process, owner, opens, manager, receiver, sensor, data, clients>>
    BY <1>2 DEF Arrive
  <2>3. /\ UNCHANGED <<process, owner, opens, boards, handler, sockId, portTaken, continuing>>
        /\ UNCHANGED <<worker, board, cbUdpRec, decoded, sensors, ft, sample, mutex, reading,
                       reader>>
    BY <2>2 DEF manager, receiver, sensor, data, clients
  <2> QED
    BY <2>1, <2>3 DEF TypeOK
<1>3. CASE Socket
  BY <1>3 DEF TypeOK, Socket, Undefined, manager, network, receiver, sensor, data, clients
<1>4. CASE Bind
  BY <1>4 DEF TypeOK, Bind, Undefined, manager, network, receiver, sensor, data, clients
<1>5. CASE ConnectAll
  <2>1. process' \in {process, "exiting"} /\ (owner' = "build" \/ owner' = owner)
    BY <1>5 DEF ConnectAll
  <2>2. owner = "connect" /\ UNCHANGED <<opens, manager, network, receiver, sensor, data, clients>>
    BY <1>5 DEF ConnectAll
  <2> QED
    BY <2>1, <2>2 DEF TypeOK, manager, network, receiver, sensor, data, clients
<1>6. CASE BuildSensor
  <2>1. opens \in 1..MaxOpens
    BY <1>6 DEF TypeOK, BuildSensor, Opening, OpenedAgain
  <2>2. /\ sensors' = sensors \cup {opens} /\ handler' = [handler EXCEPT ![boards] = opens]
        /\ owner' = "start" /\ owner = "build"
    BY <1>6 DEF BuildSensor
  <2>3. UNCHANGED <<process, opens, boards, sockId, portTaken, continuing, network, receiver, ft,
                    data, clients>>
    BY <1>6 DEF BuildSensor
  <2>4. sensors' \subseteq 1..MaxOpens /\ handler' \in [1..MAX_NUM_BOARDS -> 0..MaxOpens]
    BY <2>1, <2>2 DEF TypeOK
  <2>5. owner' # "idle" => boards' >= 1
    BY <2>2, <2>3 DEF TypeOK
  <2> QED
    BY <2>2, <2>3, <2>4, <2>5 DEF TypeOK, network, receiver, data, clients
<1>7. CASE StartRecvThread
  <2>1. opens \in 1..MaxOpens
    BY <1>7 DEF TypeOK, StartRecvThread, Opening, OpenedAgain
  <2>2. CASE worker # "none"
    BY <1>7, <2>2, TypeUndefined DEF StartRecvThread
  <2>3. CASE worker = "none"
    BY <1>7, <2>1, <2>3 DEF TypeOK, StartRecvThread, manager, network, data, clients
  <2> QED
    BY <2>2, <2>3
<1>8. CASE Close
  <2>1. CASE ft = 0
    BY <1>8, <2>1, TypeUndefined DEF Close
  <2>2. CASE ft # 0
    <3>1. /\ ft' = 0 /\ sensors' = {}
          /\ UNCHANGED <<process, owner, opens, manager, network, receiver, data, clients>>
      BY <1>8, <2>2 DEF Close
    <3> QED
      BY <3>1 DEF TypeOK, manager, network, receiver, data, clients
  <2> QED
    BY <2>1, <2>2
<1>9. CASE EndProgram
  BY <1>9 DEF TypeOK, EndProgram, Undefined, manager, network, receiver, sensor, data, clients
<1>10. CASE StopRecvThread
  <2>1. continuing' \in BOOLEAN
    BY <1>10 DEF StopRecvThread
  <2>2. UNCHANGED <<process, owner, opens, boards, handler, sockId, portTaken, network, receiver,
                    sensor, data, clients>>
    BY <1>10 DEF StopRecvThread
  <2> QED
    BY <2>1, <2>2 DEF TypeOK, network, receiver, sensor, data, clients
<1>11. CASE Join
  BY <1>11 DEF TypeOK, Join, Undefined, manager, network, receiver, sensor, data, clients
<1>12. CASE WorkerCheck
  BY <1>12 DEF TypeOK, WorkerCheck, Undefined, manager, network, receiver, sensor, data, clients
<1>13. CASE Select
  BY <1>13 DEF TypeOK, Select, Undefined, manager, network, receiver, sensor, data, clients
<1>14. CASE Timeout
  BY <1>14 DEF TypeOK, Timeout, Undefined, manager, network, receiver, sensor, data, clients
<1>15. CASE RecvFrom
  <2>1. queue # <<>>
    BY <1>15 DEF RecvFrom, Receiving, DatagramIsThere
  <2>2. Head(queue) \in 1..MaxDatagrams /\ Tail(queue) \in Seq(1..MaxDatagrams)
    <3>1. queue \in Seq(1..MaxDatagrams)
      BY DEF TypeOK
    <3> QED
      BY <2>1, <3>1, HeadTail, Zenon
  <2>3. cbUdpRec' \in Numbers /\ queue' \in Seq(1..MaxDatagrams)
    <3>1. CASE sockId = "bound" /\ cbUdpRec' = Head(queue) /\ queue' = Tail(queue)
      BY <2>2, <3>1 DEF Numbers
    <3>2. CASE UNCHANGED <<cbUdpRec, queue>>
      BY <3>2 DEF TypeOK
    <3> QED
      BY <1>15, <3>1, <3>2 DEF RecvFrom
  <2>4. worker' \in {"handle", "check", "blocked"} /\ board' = 1
    BY <1>15 DEF RecvFrom
  <2>5. UNCHANGED <<process, owner, opens, manager, arrived, decoded, sensor, data, clients>>
    BY <1>15 DEF RecvFrom
  <2> QED
    BY <2>3, <2>4, <2>5 DEF TypeOK, manager, sensor, data, clients
<1>16. CASE NextBoard
  <2>1. board' \in 0..(MAX_NUM_BOARDS + 1)
    <3>1. board \in 0..(MAX_NUM_BOARDS + 1) /\ boards \in 0..MAX_NUM_BOARDS
      BY DEF TypeOK
    <3>2. board' = board \/ (board <= boards /\ board' = board + 1)
      BY <1>16, <3>1 DEF NextBoard
    <3> QED
      BY <3>1, <3>2
  <2>2. worker' \in {"handle", "check"}
    BY <1>16 DEF NextBoard
  <2>3. UNCHANGED <<process, owner, opens, manager, network, cbUdpRec, decoded, sensors, ft, data,
                    clients>>
    BY <1>16 DEF NextBoard, sensor
  <2> QED
    BY <2>1, <2>2, <2>3 DEF TypeOK, manager, network, data, clients
<1>17. CASE Analyze
  <2>1. CASE handler[board] \notin sensors
    BY <1>17, <2>1, TypeUndefined DEF Analyze
  <2>2. CASE handler[board] \in sensors
    <3>1. /\ decoded' = cbUdpRec /\ worker' = "decoded"
          /\ UNCHANGED <<process, owner, opens, manager, network, board, cbUdpRec, sensor, data,
                         clients>>
      BY <1>17, <2>2 DEF Analyze
    <3> QED
      BY <3>1 DEF TypeOK, manager, network, sensor, data, clients
  <2> QED
    BY <2>1, <2>2
<1>18. CASE StoreFirst
  <2>1. CASE handler[board] \notin sensors
    BY <1>18, <2>1, TypeUndefined DEF StoreFirst
  <2>2. CASE handler[board] \in sensors
    <3>1. /\ mutex' = "worker" /\ sample' = [sample EXCEPT !.first = decoded] /\ worker' = "store"
          /\ UNCHANGED <<process, owner, opens, manager, network, board, cbUdpRec, decoded, sensor,
                         clients>>
      BY <1>18, <2>2 DEF StoreFirst
    <3>2. sample' \in Wrenches
      BY <3>1 DEF TypeOK, Wrenches
    <3> QED
      BY <3>1, <3>2 DEF TypeOK, manager, network, sensor, clients
  <2> QED
    BY <2>1, <2>2
<1>19. CASE StoreLast
  <2>1. CASE handler[board] \notin sensors
    BY <1>19, <2>1, TypeUndefined DEF StoreLast
  <2>2. CASE handler[board] \in sensors
    <3>1. board \in 1..MAX_NUM_BOARDS
      <4>1. board \in 1..boards
        BY <1>19 DEF StoreLast, Receiving, BoardIsThere
      <4>2. boards \in 0..MAX_NUM_BOARDS
        BY DEF TypeOK
      <4> QED
        BY <4>1, <4>2 DEF MAX_NUM_BOARDS
    <3>2. sample' \in Wrenches
      BY <1>19, <2>2 DEF TypeOK, StoreLast, Wrenches
    <3> QED
      <4>1. mutex' = "free" /\ worker' = "handle" /\ board' = board + 1
        BY <1>19, <2>2 DEF StoreLast
      <4>2. UNCHANGED <<process, owner, opens, manager, network, cbUdpRec, decoded, sensor, clients>>
        BY <1>19, <2>2 DEF StoreLast
      <4>3. board' \in 0..(MAX_NUM_BOARDS + 1)
        BY <3>1, <4>1
      <4> QED
        BY <3>2, <4>1, <4>2, <4>3 DEF TypeOK, manager, network, sensor, clients
  <2> QED
    BY <2>1, <2>2
<1>20. ASSUME NEW r \in Readers, ReadBegin(r) PROVE TypeOK'
  <2>1. ASSUME NEW q \in Readers PROVE reader'[q] \in Reads
    <3>1. reader[q] \in Reads /\ sample.last \in Numbers /\ 0 \in Numbers
      BY DEF TypeOK, Reads, Wrenches, Numbers
    <3>2. NotReading \in Reads
      BY <3>1 DEF NotReading, Reads, Wrenches, NoWrench
    <3>3. ASSUME NEW b \in BOOLEAN
          PROVE  [NotReading EXCEPT !.at = "lock", !.since = sample.last, !.alone = b] \in Reads
      BY <3>1, <3>2 DEF Reads
    <3>4. (\A p \in Readers \ {r} : reader[p].at = "idle") \in BOOLEAN
      OBVIOUS
    <3>5. [reader[q] EXCEPT !.alone = FALSE] \in Reads
      BY <3>1 DEF Reads
    <3>6. CASE q = r
      BY <1>20, <3>3, <3>4, <3>6, Zenon DEF ReadBegin
    <3>7. CASE q # r
      BY <1>20, <3>1, <3>5, <3>7, Zenon DEF ReadBegin
    <3> QED
      BY <3>6, <3>7
  <2>2. \E f : reader' = [q \in Readers |-> f[q]]
    <3>1. reader' = [q \in Readers |-> reader'[q]]
      BY <1>20, Zenon DEF ReadBegin
    <3> QED
      BY <3>1
  <2>3. reader' \in [Readers -> Reads]
    BY <2>1, <2>2, Zenon
  <2> QED
    BY <1>20, <2>3 DEF TypeOK, ReadBegin, Reads, manager, network, receiver, sensor, data
<1>21. ASSUME NEW r \in Readers, CopyFirst(r) PROVE TypeOK'
  <2>1. CASE ft \notin sensors
    BY <1>21, <2>1, TypeUndefined DEF CopyFirst
  <2>2. CASE ft \in sensors
    <3>1. reader[r] \in Reads /\ reader \in [Readers -> Reads] /\ sample \in Wrenches
      BY DEF TypeOK, Reads
    <3>2. reading' = reading
      BY <1>21, <2>2 DEF CopyFirst, clients
    <3>3. [reader[r] EXCEPT !.at = "copy", !.got.first = sample.first] \in Reads
      BY <3>1, <3>2 DEF Reads, Wrenches
    <3>4. reader' = [reader EXCEPT ![r] = [reader[r] EXCEPT !.at = "copy", !.got.first = sample.first]]
      BY <1>21, <2>2 DEF CopyFirst
    <3>5. reader' \in [Readers -> Reads]
      BY <3>1, <3>3, <3>4
    <3> QED
      BY <1>21, <2>2, <3>2, <3>5 DEF TypeOK, CopyFirst, Reads, manager, network, receiver, sensor, data
  <2> QED
    BY <2>1, <2>2
<1>22. ASSUME NEW r \in Readers, CopyLast(r) PROVE TypeOK'
  <2>1. CASE ft \notin sensors
    BY <1>22, <2>1, TypeUndefined DEF CopyLast
  <2>2. CASE ft \in sensors
    <3>1. reader[r] \in Reads /\ reader \in [Readers -> Reads] /\ sample \in Wrenches
      BY DEF TypeOK, Reads
    <3>2. reading' = reading
      BY <1>22, <2>2 DEF CopyLast, clients
    <3>3. [reader[r] EXCEPT !.at = "assign", !.got.last = sample.last] \in Reads
      BY <3>1, <3>2 DEF Reads, Wrenches
    <3>4. reader' = [reader EXCEPT ![r] = [reader[r] EXCEPT !.at = "assign", !.got.last = sample.last]]
      BY <1>22, <2>2 DEF CopyLast
    <3>5. reader' \in [Readers -> Reads]
      BY <3>1, <3>3, <3>4
    <3> QED
      BY <1>22, <2>2, <3>2, <3>5 DEF TypeOK, CopyLast, Reads, manager, network, receiver, sensor, data
  <2> QED
    BY <2>1, <2>2
<1>23. ASSUME NEW r \in Readers, AssignFirst(r) PROVE TypeOK'
  <2>1. reader' \in [Readers -> Reads]
    <3>1. reader[r] \in Reads /\ reader \in [Readers -> Reads]
      BY DEF TypeOK, Reads
    <3>2. [reader[r] EXCEPT !.at = "return"] \in Reads
      BY <3>1 DEF Reads
    <3>3. reader' = [reader EXCEPT ![r] = [reader[r] EXCEPT !.at = "return"]]
      BY <1>23 DEF AssignFirst
    <3> QED
      BY <3>1, <3>2, <3>3
  <2>2. reading' \in Wrenches
    BY <1>23 DEF TypeOK, AssignFirst, Undefined, Wrenches, clients
  <2> QED
    BY <1>23, <2>1, <2>2 DEF TypeOK, AssignFirst, Undefined, Reads, manager, network, receiver, sensor,
       data
<1>24. ASSUME NEW r \in Readers, Return(r) PROVE TypeOK'
  <2>1. reader[r] \in Reads /\ reader \in [Readers -> Reads] /\ sample \in Wrenches
    BY DEF TypeOK, Reads
  <2>2. reading' \in Wrenches
    BY <1>24, <2>1 DEF TypeOK, Return, Reads, Wrenches
  <2>3. [reader[r] EXCEPT !.at = "idle", !.out = reading'] \in Reads
    BY <2>1, <2>2 DEF Reads, Wrenches
  <2>4. reader' = [reader EXCEPT ![r] = [reader[r] EXCEPT !.at = "idle", !.out = reading']]
    BY <1>24 DEF Return
  <2>5. reader' \in [Readers -> Reads]
    BY <2>1, <2>3, <2>4
  <2> QED
    BY <1>24, <2>2, <2>5 DEF TypeOK, Return, Reads, manager, network, receiver, sensor, data
<1>25. CASE UNCHANGED vars
  BY <1>25 DEF TypeOK, vars, manager, network, receiver, sensor, data, clients
<1> QED
  BY Steps, <1>1, <1>2, <1>3, <1>4, <1>5, <1>6, <1>7, <1>8, <1>9, <1>10, <1>11, <1>12, <1>13, <1>14, <1>15, <1>16, <1>17, <1>18, <1>19, <1>20, <1>21, <1>22, <1>23, <1>24, <1>25

-----------------------------------------------------------------------------
(* What open() has built is preserved. *)

(* The steps of the other threads leave it alone. *)
QuietStep ==
    /\ UNCHANGED <<owner, opens, boards, handler, sockId, portTaken, sensors, ft>>
    /\ worker' # "none" <=> worker # "none"
    /\ process' = process \/ (process # "exited" /\ process' = "undefined")

LEMMA QuietSteps ==
    ASSUME TypeOK, [Next]_vars
    PROVE  \/ \E found \in BOOLEAN : Open(found)
           \/ Socket \/ Bind \/ ConnectAll \/ BuildSensor \/ StartRecvThread
           \/ Close \/ EndProgram \/ Join
           \/ QuietStep
<1> USE DEF QuietStep, manager, network, receiver, sensor, data, clients, Alive, Undefined
<1>1. ASSUME StopRecvThread PROVE QuietStep
  BY <1>1 DEF StopRecvThread
<1>2. ASSUME WorkerCheck PROVE QuietStep
  BY <1>2 DEF WorkerCheck
<1>3. ASSUME Select PROVE QuietStep
  BY <1>3 DEF Select
<1>4. ASSUME Timeout PROVE QuietStep
  BY <1>4 DEF Timeout
<1>5. ASSUME RecvFrom PROVE QuietStep
  BY <1>5 DEF RecvFrom
<1>6. ASSUME NextBoard PROVE QuietStep
  BY <1>6 DEF NextBoard
<1>7. ASSUME Analyze PROVE QuietStep
  BY <1>7 DEF Analyze
<1>8. ASSUME StoreFirst PROVE QuietStep
  BY <1>8 DEF StoreFirst
<1>9. ASSUME StoreLast PROVE QuietStep
  BY <1>9 DEF StoreLast
<1>10. ASSUME NEW sender \in {"board", "other"}, Arrive(sender) PROVE QuietStep
  BY <1>10 DEF Arrive
<1>11. ASSUME NEW r \in Readers, ReadBegin(r) PROVE QuietStep
  BY <1>11 DEF ReadBegin
<1>12. ASSUME NEW r \in Readers, CopyFirst(r) PROVE QuietStep
  BY <1>12 DEF CopyFirst
<1>13. ASSUME NEW r \in Readers, CopyLast(r) PROVE QuietStep
  BY <1>13 DEF CopyLast
<1>14. ASSUME NEW r \in Readers, AssignFirst(r) PROVE QuietStep
  BY <1>14 DEF AssignFirst
<1>15. ASSUME NEW r \in Readers, Return(r) PROVE QuietStep
  BY <1>15 DEF Return
<1>16. ASSUME UNCHANGED vars PROVE QuietStep
  BY <1>16 DEF vars
<1> HIDE DEF QuietStep
<1> QED
  BY Steps, <1>1, <1>2, <1>3, <1>4, <1>5, <1>6, <1>7, <1>8, <1>9, <1>10, <1>11, <1>12, <1>13, <1>14, <1>15, <1>16

LEMMA ThreadHasPortStep ==
    ASSUME TypeOK, Opening, [Next]_vars
    PROVE  ThreadHasPort'
<1> USE DEF Opening, ThreadHasPort, OpeningFirst, OpenedAgain, manager, network, receiver, sensor, data, clients, Undefined
<1>1. ASSUME NEW found \in BOOLEAN, Open(found) PROVE ThreadHasPort'
  BY <1>1 DEF Open, TypeOK
<1>2. ASSUME Socket PROVE ThreadHasPort'
  BY <1>2 DEF Socket, TypeOK
<1>3. ASSUME Bind PROVE ThreadHasPort'
  BY <1>3 DEF Bind, TypeOK
<1>4. ASSUME ConnectAll PROVE ThreadHasPort'
  BY <1>4 DEF ConnectAll, TypeOK
<1>5. ASSUME BuildSensor PROVE ThreadHasPort'
  BY <1>5 DEF BuildSensor, TypeOK
<1>6. ASSUME StartRecvThread PROVE ThreadHasPort'
  BY <1>6 DEF StartRecvThread, TypeOK
<1>7. ASSUME Close PROVE ThreadHasPort'
  BY <1>7 DEF Close, TypeOK
<1>8. ASSUME EndProgram PROVE ThreadHasPort'
  BY <1>8 DEF EndProgram, TypeOK
<1>9. ASSUME Join PROVE ThreadHasPort'
  BY <1>9 DEF Join, TypeOK
<1>10. ASSUME QuietStep PROVE ThreadHasPort'
  BY <1>10 DEF QuietStep
<1> HIDE DEF Opening, ThreadHasPort, OpeningFirst, OpenedAgain
<1> QED
  BY QuietSteps, <1>1, <1>2, <1>3, <1>4, <1>5, <1>6, <1>7, <1>8, <1>9, <1>10

LEMMA OpeningFirstStep ==
    ASSUME TypeOK, Opening, [Next]_vars
    PROVE  OpeningFirst'
<1> USE DEF Opening, OpeningFirst, ThreadHasPort, manager, network, receiver, sensor, data, clients, Undefined
<1>1. ASSUME NEW found \in BOOLEAN, Open(found) PROVE OpeningFirst'
  BY <1>1 DEF Open, TypeOK
<1>2. ASSUME Socket PROVE OpeningFirst'
  BY <1>2 DEF Socket, TypeOK
<1>3. ASSUME Bind PROVE OpeningFirst'
  BY <1>3 DEF Bind, TypeOK
<1>4. ASSUME ConnectAll PROVE OpeningFirst'
  BY <1>4 DEF ConnectAll, TypeOK
<1>5. ASSUME BuildSensor PROVE OpeningFirst'
  BY <1>5 DEF BuildSensor, TypeOK
<1>6. ASSUME StartRecvThread PROVE OpeningFirst'
  BY <1>6 DEF StartRecvThread, TypeOK
<1>7. ASSUME Close PROVE OpeningFirst'
  BY <1>7 DEF Close, TypeOK
<1>8. ASSUME EndProgram PROVE OpeningFirst'
  BY <1>8 DEF EndProgram, TypeOK
<1>9. ASSUME Join PROVE OpeningFirst'
  BY <1>9 DEF Join, TypeOK
<1>10. ASSUME QuietStep PROVE OpeningFirst'
  BY <1>10 DEF QuietStep
<1> HIDE DEF Opening, OpeningFirst, ThreadHasPort
<1> QED
  BY QuietSteps, <1>1, <1>2, <1>3, <1>4, <1>5, <1>6, <1>7, <1>8, <1>9, <1>10

LEMMA OpenedAgainStep ==
    ASSUME TypeOK, Opening, [Next]_vars
    PROVE  OpenedAgain'
<1> USE DEF Opening, OpenedAgain, ThreadHasPort, manager, network, receiver, sensor, data, clients, Undefined
<1>1. ASSUME NEW found \in BOOLEAN, Open(found) PROVE OpenedAgain'
  BY <1>1 DEF Open, TypeOK
<1>2. ASSUME Socket PROVE OpenedAgain'
  BY <1>2 DEF Socket, TypeOK
<1>3. ASSUME Bind PROVE OpenedAgain'
  BY <1>3 DEF Bind, TypeOK
<1>4. ASSUME ConnectAll PROVE OpenedAgain'
  BY <1>4 DEF ConnectAll, TypeOK
<1>5. ASSUME BuildSensor PROVE OpenedAgain'
  BY <1>5 DEF BuildSensor, TypeOK
<1>6. ASSUME StartRecvThread PROVE OpenedAgain'
  BY <1>6 DEF StartRecvThread, TypeOK
<1>7. ASSUME Close PROVE OpenedAgain'
  BY <1>7 DEF Close, TypeOK
<1>8. ASSUME EndProgram PROVE OpenedAgain'
  BY <1>8 DEF EndProgram, TypeOK
<1>9. ASSUME Join PROVE OpenedAgain'
  BY <1>9 DEF Join, TypeOK
<1>10. ASSUME QuietStep PROVE OpenedAgain'
  BY <1>10 DEF QuietStep
<1> HIDE DEF Opening, OpenedAgain, ThreadHasPort
<1> QED
  BY QuietSteps, <1>1, <1>2, <1>3, <1>4, <1>5, <1>6, <1>7, <1>8, <1>9, <1>10

LEMMA ListeningStep ==
    ASSUME TypeOK, Opening, [Next]_vars
    PROVE  Listening'
<1> USE DEF Opening, Listening, OpeningFirst, manager, network, receiver, sensor, data, clients, Undefined
<1>1. ASSUME NEW found \in BOOLEAN, Open(found) PROVE Listening'
  BY <1>1 DEF Open, TypeOK
<1>2. ASSUME Socket PROVE Listening'
  BY <1>2 DEF Socket, TypeOK
<1>3. ASSUME Bind PROVE Listening'
  BY <1>3 DEF Bind, TypeOK
<1>4. ASSUME ConnectAll PROVE Listening'
  BY <1>4 DEF ConnectAll, TypeOK
<1>5. ASSUME BuildSensor PROVE Listening'
  BY <1>5 DEF BuildSensor, TypeOK
<1>6. ASSUME StartRecvThread PROVE Listening'
  BY <1>6 DEF StartRecvThread, TypeOK
<1>7. ASSUME Close PROVE Listening'
  BY <1>7 DEF Close, TypeOK
<1>8. ASSUME EndProgram PROVE Listening'
  BY <1>8 DEF EndProgram, TypeOK
<1>9. ASSUME Join PROVE Listening'
  BY <1>9 DEF Join, TypeOK
<1>10. ASSUME QuietStep PROVE Listening'
  BY <1>10 DEF QuietStep
<1> HIDE DEF Opening, Listening, OpeningFirst
<1> QED
  BY QuietSteps, <1>1, <1>2, <1>3, <1>4, <1>5, <1>6, <1>7, <1>8, <1>9, <1>10

LEMMA ClosedLateStep ==
    ASSUME TypeOK, Opening, [Next]_vars
    PROVE  ClosedLate'
<1> USE DEF Opening, ClosedLate, OpeningFirst, ThreadHasPort, OpenedAgain, manager, network, receiver, sensor, data, clients, Undefined
<1>1. ASSUME NEW found \in BOOLEAN, Open(found) PROVE ClosedLate'
  BY <1>1 DEF Open, TypeOK
<1>2. ASSUME Socket PROVE ClosedLate'
  BY <1>2 DEF Socket, TypeOK
<1>3. ASSUME Bind PROVE ClosedLate'
  BY <1>3 DEF Bind, TypeOK
<1>4. ASSUME ConnectAll PROVE ClosedLate'
  BY <1>4 DEF ConnectAll, TypeOK
<1>5. ASSUME BuildSensor PROVE ClosedLate'
  BY <1>5 DEF BuildSensor, TypeOK
<1>6. ASSUME StartRecvThread PROVE ClosedLate'
  BY <1>6 DEF StartRecvThread, TypeOK
<1>7. ASSUME Close PROVE ClosedLate'
  BY <1>7 DEF Close, TypeOK
<1>8. ASSUME EndProgram PROVE ClosedLate'
  BY <1>8 DEF EndProgram, TypeOK
<1>9. ASSUME Join PROVE ClosedLate'
  BY <1>9 DEF Join, TypeOK
<1>10. ASSUME QuietStep PROVE ClosedLate'
  BY <1>10 DEF QuietStep
<1> HIDE DEF Opening, ClosedLate, OpeningFirst, ThreadHasPort, OpenedAgain
<1> QED
  BY QuietSteps, <1>1, <1>2, <1>3, <1>4, <1>5, <1>6, <1>7, <1>8, <1>9, <1>10

LEMMA OneHandlerStep ==
    ASSUME TypeOK, Opening, [Next]_vars
    PROVE  OneHandler'
<1> USE DEF Opening, OneHandler, OpeningFirst, OpenedAgain, manager, network, receiver, sensor, data, clients, Undefined
<1>1. ASSUME NEW found \in BOOLEAN, Open(found) PROVE OneHandler'
  BY <1>1 DEF Open, TypeOK
<1>2. ASSUME Socket PROVE OneHandler'
  BY <1>2 DEF Socket, TypeOK
<1>3. ASSUME Bind PROVE OneHandler'
  BY <1>3 DEF Bind, TypeOK
<1>4. ASSUME ConnectAll PROVE OneHandler'
  BY <1>4 DEF ConnectAll, TypeOK
<1>5. ASSUME BuildSensor PROVE OneHandler'
  BY <1>5 DEF BuildSensor, TypeOK
<1>6. ASSUME StartRecvThread PROVE OneHandler'
  <2>1. owner = "start" /\ worker = "none" /\ boards \in Boards /\ opens >= 1
    BY <1>6 DEF StartRecvThread, TypeOK, Boards
  <2>2. owner' = "idle" /\ worker' = "check" /\ handler' = handler
    BY <1>6, <2>1 DEF StartRecvThread
  <2>3. \A b \in Boards : handler[b] = IF b = boards THEN opens ELSE 0
    BY <2>1
  <2>4. handler[boards] # 0 /\ \A c \in Boards : handler[c] # 0 => c = boards
    BY <2>1, <2>3
  <2>5. \E b \in Boards : handler[b] # 0 /\ \A c \in Boards : handler[c] # 0 => c = b
    BY <2>1, <2>4
  <2> QED
    BY <2>2, <2>5
<1>7. ASSUME Close PROVE OneHandler'
  BY <1>7 DEF Close, TypeOK
<1>8. ASSUME EndProgram PROVE OneHandler'
  BY <1>8 DEF EndProgram, TypeOK
<1>9. ASSUME Join PROVE OneHandler'
  BY <1>9 DEF Join, TypeOK
<1>10. ASSUME QuietStep PROVE OneHandler'
  BY <1>10 DEF QuietStep
<1> HIDE DEF Opening, OneHandler, OpeningFirst, OpenedAgain
<1> QED
  BY QuietSteps, <1>1, <1>2, <1>3, <1>4, <1>5, <1>6, <1>7, <1>8, <1>9, <1>10

LEMMA SensorAliveStep ==
    ASSUME TypeOK, Opening, [Next]_vars
    PROVE  SensorAlive'
<1> USE DEF Opening, SensorAlive, OpeningFirst, OneHandler, OpenedAgain, ThreadHasPort, manager, network, receiver, sensor, data, clients, Undefined
<1>1. ASSUME NEW found \in BOOLEAN, Open(found) PROVE SensorAlive'
  BY <1>1 DEF Open, TypeOK
<1>2. ASSUME Socket PROVE SensorAlive'
  BY <1>2 DEF Socket, TypeOK
<1>3. ASSUME Bind PROVE SensorAlive'
  BY <1>3 DEF Bind, TypeOK
<1>4. ASSUME ConnectAll PROVE SensorAlive'
  BY <1>4 DEF ConnectAll, TypeOK
<1>5. ASSUME BuildSensor PROVE SensorAlive'
  BY <1>5 DEF BuildSensor, TypeOK
<1>6. ASSUME StartRecvThread PROVE SensorAlive'
  BY <1>6 DEF StartRecvThread, TypeOK
<1>7. ASSUME Close PROVE SensorAlive'
  BY <1>7 DEF Close, TypeOK
<1>8. ASSUME EndProgram PROVE SensorAlive'
  BY <1>8 DEF EndProgram, TypeOK
<1>9. ASSUME Join PROVE SensorAlive'
  BY <1>9 DEF Join, TypeOK
<1>10. ASSUME QuietStep PROVE SensorAlive'
  BY <1>10 DEF QuietStep
<1> HIDE DEF Opening, SensorAlive, OpeningFirst, OneHandler, OpenedAgain, ThreadHasPort
<1> QED
  BY QuietSteps, <1>1, <1>2, <1>3, <1>4, <1>5, <1>6, <1>7, <1>8, <1>9, <1>10

LEMMA OpeningStep ==
    ASSUME TypeOK, Opening, [Next]_vars
    PROVE  Opening'
  BY ThreadHasPortStep, OpeningFirstStep, OpenedAgainStep, ListeningStep, ClosedLateStep,
     OneHandlerStep, SensorAliveStep DEF Opening

LEMMA OpeningReceiver ==
    ASSUME TypeOK, Opening
    PROVE  OneReceiver
<1> SUFFICES ASSUME process = "running", owner = "idle", worker # "none"
             PROVE  /\ sockId = "bound"
                    /\ Cardinality({b \in 1..MAX_NUM_BOARDS : handler[b] # 0}) = 1
  BY DEF OneReceiver
<1>1. PICK b \in Boards : handler[b] # 0 /\ \A c \in Boards : handler[c] # 0 => c = b
  BY DEF Opening, OneHandler
<1>2. {c \in 1..MAX_NUM_BOARDS : handler[c] # 0} = {b}
  BY <1>1 DEF Boards
<1>3. Cardinality({b}) = 1
  BY FS_Singleton
<1> QED
  BY <1>2, <1>3 DEF Opening, Listening

-----------------------------------------------------------------------------
(* What the receiving thread relies on is preserved. *)

LEMMA DatagramIsThereStep ==
    ASSUME TypeOK, Receiving, [Next]_vars
    PROVE  DatagramIsThere'
<1> USE DEF Receiving, DatagramIsThere, manager, network, receiver, sensor, data, clients, Undefined
<1>1. ASSUME NEW found \in BOOLEAN, Open(found) PROVE DatagramIsThere'
  BY <1>1 DEF Open, TypeOK
<1>2. ASSUME NEW sender \in {"board", "other"}, Arrive(sender) PROVE DatagramIsThere'
  BY <1>2 DEF Arrive, TypeOK
<1>3. ASSUME Socket PROVE DatagramIsThere'
  BY <1>3 DEF Socket, TypeOK
<1>4. ASSUME Bind PROVE DatagramIsThere'
  BY <1>4 DEF Bind, TypeOK
<1>5. ASSUME ConnectAll PROVE DatagramIsThere'
  BY <1>5 DEF ConnectAll, TypeOK
<1>6. ASSUME BuildSensor PROVE DatagramIsThere'
  BY <1>6 DEF BuildSensor, TypeOK
<1>7. ASSUME StartRecvThread PROVE DatagramIsThere'
  BY <1>7 DEF StartRecvThread, TypeOK
<1>8. ASSUME Close PROVE DatagramIsThere'
  BY <1>8 DEF Close, TypeOK
<1>9. ASSUME EndProgram PROVE DatagramIsThere'
  BY <1>9 DEF EndProgram, TypeOK
<1>10. ASSUME StopRecvThread PROVE DatagramIsThere'
  BY <1>10 DEF StopRecvThread, TypeOK
<1>11. ASSUME Join PROVE DatagramIsThere'
  BY <1>11 DEF Join, TypeOK
<1>12. ASSUME WorkerCheck PROVE DatagramIsThere'
  BY <1>12 DEF WorkerCheck, TypeOK
<1>13. ASSUME Select PROVE DatagramIsThere'
  BY <1>13 DEF Select, TypeOK
<1>14. ASSUME Timeout PROVE DatagramIsThere'
  BY <1>14 DEF Timeout, TypeOK
<1>15. ASSUME RecvFrom PROVE DatagramIsThere'
  BY <1>15 DEF RecvFrom, TypeOK
<1>16. ASSUME NextBoard PROVE DatagramIsThere'
  BY <1>16 DEF NextBoard, TypeOK
<1>17. ASSUME Analyze PROVE DatagramIsThere'
  BY <1>17 DEF Analyze, TypeOK
<1>18. ASSUME StoreFirst PROVE DatagramIsThere'
  BY <1>18 DEF StoreFirst, TypeOK
<1>19. ASSUME StoreLast PROVE DatagramIsThere'
  BY <1>19 DEF StoreLast, TypeOK
<1>20. ASSUME NEW r \in Readers, ReadBegin(r) PROVE DatagramIsThere'
  BY <1>20 DEF ReadBegin, TypeOK
<1>21. ASSUME NEW r \in Readers, CopyFirst(r) PROVE DatagramIsThere'
  BY <1>21 DEF CopyFirst, TypeOK
<1>22. ASSUME NEW r \in Readers, CopyLast(r) PROVE DatagramIsThere'
  BY <1>22 DEF CopyLast, TypeOK
<1>23. ASSUME NEW r \in Readers, AssignFirst(r) PROVE DatagramIsThere'
  BY <1>23 DEF AssignFirst, TypeOK
<1>24. ASSUME NEW r \in Readers, Return(r) PROVE DatagramIsThere'
  BY <1>24 DEF Return, TypeOK
<1>25. ASSUME UNCHANGED vars PROVE DatagramIsThere'
  BY <1>25 DEF vars, TypeOK
<1> HIDE DEF Receiving, DatagramIsThere
<1> QED
  BY Steps, <1>1, <1>2, <1>3, <1>4, <1>5, <1>6, <1>7, <1>8, <1>9, <1>10, <1>11, <1>12, <1>13, <1>14, <1>15, <1>16, <1>17, <1>18, <1>19, <1>20, <1>21, <1>22, <1>23, <1>24, <1>25

LEMMA BoardIsThereStep ==
    ASSUME TypeOK, Opening, Receiving, [Next]_vars
    PROVE  BoardIsThere'
<1> USE DEF Opening, OpeningFirst, Receiving, BoardIsThere, Handled, manager, network, receiver,
            sensor, data, clients, Undefined
<1>1. ASSUME NEW found \in BOOLEAN, Open(found) PROVE BoardIsThere'
  BY <1>1 DEF Open, TypeOK
<1>2. ASSUME NEW sender \in {"board", "other"}, Arrive(sender) PROVE BoardIsThere'
  BY <1>2 DEF Arrive, TypeOK
<1>3. ASSUME Socket PROVE BoardIsThere'
  BY <1>3 DEF Socket, TypeOK
<1>4. ASSUME Bind PROVE BoardIsThere'
  BY <1>4 DEF Bind, TypeOK
<1>5. ASSUME ConnectAll PROVE BoardIsThere'
  BY <1>5 DEF ConnectAll, TypeOK
<1>6. ASSUME BuildSensor PROVE BoardIsThere'
  BY <1>6 DEF BuildSensor, TypeOK
<1>7. ASSUME StartRecvThread PROVE BoardIsThere'
  BY <1>7 DEF StartRecvThread, TypeOK
<1>8. ASSUME Close PROVE BoardIsThere'
  BY <1>8 DEF Close, TypeOK
<1>9. ASSUME EndProgram PROVE BoardIsThere'
  BY <1>9 DEF EndProgram, TypeOK
<1>10. ASSUME StopRecvThread PROVE BoardIsThere'
  BY <1>10 DEF StopRecvThread, TypeOK
<1>11. ASSUME Join PROVE BoardIsThere'
  BY <1>11 DEF Join, TypeOK
<1>12. ASSUME WorkerCheck PROVE BoardIsThere'
  BY <1>12 DEF WorkerCheck, TypeOK
<1>13. ASSUME Select PROVE BoardIsThere'
  BY <1>13 DEF Select, TypeOK
<1>14. ASSUME Timeout PROVE BoardIsThere'
  BY <1>14 DEF Timeout, TypeOK
<1>15. ASSUME RecvFrom PROVE BoardIsThere'
  BY <1>15 DEF RecvFrom, TypeOK
<1>16. ASSUME NextBoard PROVE BoardIsThere'
  BY <1>16 DEF NextBoard, TypeOK
<1>17. ASSUME Analyze PROVE BoardIsThere'
  BY <1>17 DEF Analyze, TypeOK
<1>18. ASSUME StoreFirst PROVE BoardIsThere'
  BY <1>18 DEF StoreFirst, TypeOK
<1>19. ASSUME StoreLast PROVE BoardIsThere'
  <2>1. board \in 1..boards /\ boards \in Nat /\ worker = "store"
    BY <1>19 DEF StoreLast, TypeOK, MAX_NUM_BOARDS
  <2>2. CASE handler[board] \notin sensors
    BY <1>19, <2>1, <2>2 DEF StoreLast
  <2>3. CASE handler[board] \in sensors
    <3>1. worker' = "handle" /\ board' = board + 1
      BY <1>19, <2>3 DEF StoreLast
    <3> QED
      BY <2>1, <3>1
  <2> QED
    BY <2>2, <2>3
<1>20. ASSUME NEW r \in Readers, ReadBegin(r) PROVE BoardIsThere'
  BY <1>20 DEF ReadBegin, TypeOK
<1>21. ASSUME NEW r \in Readers, CopyFirst(r) PROVE BoardIsThere'
  BY <1>21 DEF CopyFirst, TypeOK
<1>22. ASSUME NEW r \in Readers, CopyLast(r) PROVE BoardIsThere'
  BY <1>22 DEF CopyLast, TypeOK
<1>23. ASSUME NEW r \in Readers, AssignFirst(r) PROVE BoardIsThere'
  BY <1>23 DEF AssignFirst, TypeOK
<1>24. ASSUME NEW r \in Readers, Return(r) PROVE BoardIsThere'
  BY <1>24 DEF Return, TypeOK
<1>25. ASSUME UNCHANGED vars PROVE BoardIsThere'
  BY <1>25 DEF vars, TypeOK
<1> HIDE DEF Opening, OpeningFirst, Receiving, BoardIsThere
<1> QED
  BY Steps, <1>1, <1>2, <1>3, <1>4, <1>5, <1>6, <1>7, <1>8, <1>9, <1>10, <1>11, <1>12, <1>13, <1>14, <1>15, <1>16, <1>17, <1>18, <1>19, <1>20, <1>21, <1>22, <1>23, <1>24, <1>25

(* The handler of a sensor that is gone: the device was closed or opened again. *)
LEMMA HandlerGone ==
    ASSUME TypeOK, Opening, worker # "none", board \in 1..boards, handler[board] # 0,
           handler[board] \notin sensors
    PROVE  ft = 0 \/ opens > 1
<1>1. board \in Boards
  BY DEF TypeOK, Boards, MAX_NUM_BOARDS
<1>2. SensorAlive /\ opens \in Nat
  BY DEF Opening, TypeOK
<1> QED
  BY <1>1, <1>2 DEF SensorAlive

LEMMA DefinedStep ==
    ASSUME TypeOK, Opening, Receiving, DefinedWhileOpen, [Next]_vars
    PROVE  DefinedWhileOpen'
<1> USE DEF Opening, OpeningFirst, SensorAlive, ClosedLate, ThreadHasPort, Boards, Receiving,
            BoardIsThere, Handled, DefinedWhileOpen, Alive, manager, network, receiver, sensor, data,
            clients, Undefined
<1>1. ASSUME NEW found \in BOOLEAN, Open(found) PROVE DefinedWhileOpen'
  BY <1>1 DEF Open, TypeOK
<1>2. ASSUME NEW sender \in {"board", "other"}, Arrive(sender) PROVE DefinedWhileOpen'
  BY <1>2 DEF Arrive, TypeOK
<1>3. ASSUME Socket PROVE DefinedWhileOpen'
  BY <1>3 DEF Socket, TypeOK
<1>4. ASSUME Bind PROVE DefinedWhileOpen'
  BY <1>4 DEF Bind, TypeOK
<1>5. ASSUME ConnectAll PROVE DefinedWhileOpen'
  BY <1>5 DEF ConnectAll, TypeOK
<1>6. ASSUME BuildSensor PROVE DefinedWhileOpen'
  BY <1>6 DEF BuildSensor, TypeOK
<1>7. ASSUME StartRecvThread PROVE DefinedWhileOpen'
  BY <1>7 DEF StartRecvThread, TypeOK
<1>8. ASSUME Close PROVE DefinedWhileOpen'
  BY <1>8 DEF Close, TypeOK
<1>9. ASSUME EndProgram PROVE DefinedWhileOpen'
  BY <1>9 DEF EndProgram, TypeOK
<1>10. ASSUME StopRecvThread PROVE DefinedWhileOpen'
  BY <1>10 DEF StopRecvThread, TypeOK
<1>11. ASSUME Join PROVE DefinedWhileOpen'
  BY <1>11 DEF Join, TypeOK
<1>12. ASSUME WorkerCheck PROVE DefinedWhileOpen'
  BY <1>12 DEF WorkerCheck, TypeOK
<1>13. ASSUME Select PROVE DefinedWhileOpen'
  BY <1>13 DEF Select, TypeOK
<1>14. ASSUME Timeout PROVE DefinedWhileOpen'
  BY <1>14 DEF Timeout, TypeOK
<1>15. ASSUME RecvFrom PROVE DefinedWhileOpen'
  BY <1>15 DEF RecvFrom, TypeOK
<1>16. ASSUME NextBoard PROVE DefinedWhileOpen'
  BY <1>16 DEF NextBoard, TypeOK
<1>17. ASSUME Analyze PROVE DefinedWhileOpen'
  <2>1. worker # "none" /\ board \in 1..boards /\ handler[board] # 0 /\ process # "undefined"
    BY <1>17 DEF Analyze
  <2>2. CASE handler[board] \in sensors
    BY <1>17, <2>1, <2>2 DEF Analyze
  <2>3. CASE handler[board] \notin sensors
    <3>1. ft = 0 \/ opens > 1
      BY <2>1, <2>3, HandlerGone
    <3>2. ft' = ft /\ opens' = opens
      BY <1>17, <2>3 DEF Analyze
    <3> QED
      BY <3>1, <3>2
  <2> QED
    BY <2>2, <2>3
<1>18. ASSUME StoreFirst PROVE DefinedWhileOpen'
  <2>1. worker # "none" /\ board \in 1..boards /\ handler[board] # 0 /\ process # "undefined"
    BY <1>18 DEF StoreFirst
  <2>2. CASE handler[board] \in sensors
    BY <1>18, <2>1, <2>2 DEF StoreFirst
  <2>3. CASE handler[board] \notin sensors
    <3>1. ft = 0 \/ opens > 1
      BY <2>1, <2>3, HandlerGone
    <3>2. ft' = ft /\ opens' = opens
      BY <1>18, <2>3 DEF StoreFirst
    <3> QED
      BY <3>1, <3>2
  <2> QED
    BY <2>2, <2>3
<1>19. ASSUME StoreLast PROVE DefinedWhileOpen'
  <2>1. worker # "none" /\ board \in 1..boards /\ handler[board] # 0 /\ process # "undefined"
    BY <1>19 DEF StoreLast
  <2>2. CASE handler[board] \in sensors
    BY <1>19, <2>1, <2>2 DEF StoreLast
  <2>3. CASE handler[board] \notin sensors
    <3>1. ft = 0 \/ opens > 1
      BY <2>1, <2>3, HandlerGone
    <3>2. ft' = ft /\ opens' = opens
      BY <1>19, <2>3 DEF StoreLast
    <3> QED
      BY <3>1, <3>2
  <2> QED
    BY <2>2, <2>3
<1>20. ASSUME NEW r \in Readers, ReadBegin(r) PROVE DefinedWhileOpen'
  BY <1>20 DEF ReadBegin, TypeOK
<1>21. ASSUME NEW r \in Readers, CopyFirst(r) PROVE DefinedWhileOpen'
  BY <1>21 DEF CopyFirst, TypeOK
<1>22. ASSUME NEW r \in Readers, CopyLast(r) PROVE DefinedWhileOpen'
  BY <1>22 DEF CopyLast, TypeOK
<1>23. ASSUME NEW r \in Readers, AssignFirst(r) PROVE DefinedWhileOpen'
  BY <1>23 DEF AssignFirst, TypeOK
<1>24. ASSUME NEW r \in Readers, Return(r) PROVE DefinedWhileOpen'
  BY <1>24 DEF Return, TypeOK
<1>25. ASSUME UNCHANGED vars PROVE DefinedWhileOpen'
  BY <1>25 DEF vars, TypeOK
<1> HIDE DEF Opening, OpeningFirst, SensorAlive, Receiving, BoardIsThere, DefinedWhileOpen
<1> QED
  BY Steps, <1>1, <1>2, <1>3, <1>4, <1>5, <1>6, <1>7, <1>8, <1>9, <1>10, <1>11, <1>12, <1>13, <1>14, <1>15, <1>16, <1>17, <1>18, <1>19, <1>20, <1>21, <1>22, <1>23, <1>24, <1>25

-----------------------------------------------------------------------------
(* The records of the readers, before and after each of their steps. *)

LEMMA ReaderTypes ==
    ASSUME TypeOK, NEW r \in Readers
    PROVE  /\ reader[r] \in Reads /\ reader[r].since \in Nat
           /\ reader[r].got \in Wrenches /\ reader[r].out \in Wrenches
           /\ reader[r].got.last \in Nat /\ reader[r].out.last \in Nat
           /\ reader[r].alone \in BOOLEAN
<1>1. reader[r] \in Reads
  BY DEF TypeOK, Reads
<1> QED
  BY <1>1, BoundsAssumption DEF Reads, Wrenches, Numbers

LEMMA DataTypes ==
    ASSUME TypeOK
    PROVE  /\ sample.first \in Nat /\ sample.last \in Nat /\ decoded \in Nat
           /\ cbUdpRec \in Nat /\ queue \in Seq(Nat)
           /\ arrived \in Seq({"board", "other"})
           /\ sample \in [first : Numbers, last : Numbers]
           /\ reading \in [first : Numbers, last : Numbers]
  BY BoundsAssumption DEF TypeOK, Wrenches, Numbers

LEMMA ReadBeginReader ==
    ASSUME TypeOK, NEW r \in Readers, ReadBegin(r)
    PROVE  /\ reader'[r].at = "lock" /\ reader'[r].since = sample.last
           /\ reader'[r].got.last = 0 /\ reader'[r].out.last = 0
           /\ reader'[r].alone => \A p \in Readers \ {r} : reader[p].at = "idle"
           /\ \A q \in Readers \ {r} :
                  /\ reader'[q].at = reader[q].at /\ reader'[q].since = reader[q].since
                  /\ reader'[q].got = reader[q].got /\ reader'[q].out = reader[q].out
                  /\ reader'[q].alone => reader[q].at = "idle" /\ reader[q].alone
<1>1. reader'[r] = [NotReading EXCEPT !.at = "lock", !.since = sample.last,
                      !.alone = \A p \in Readers \ {r} : reader[p].at = "idle"]
  BY Zenon DEF ReadBegin
<1>2. ASSUME NEW q \in Readers \ {r}
      PROVE  /\ reader'[q].at = reader[q].at /\ reader'[q].since = reader[q].since
             /\ reader'[q].got = reader[q].got /\ reader'[q].out = reader[q].out
             /\ reader'[q].alone => reader[q].at = "idle" /\ reader[q].alone
  <2>1. reader'[q] = IF reader[q].at = "idle" THEN reader[q]
                     ELSE [reader[q] EXCEPT !.alone = FALSE]
    BY Zenon DEF ReadBegin
  <2>2. reader[q] \in Reads
    BY ReaderTypes
  <2> QED
    BY <2>1, <2>2 DEF Reads
<1>3. reader'[r].at = "lock" /\ reader'[r].since = sample.last
      /\ reader'[r].got.last = 0 /\ reader'[r].out.last = 0
  BY <1>1 DEF NotReading, NoWrench
<1>4. reader'[r].alone = \A p \in Readers \ {r} : reader[p].at = "idle"
  BY <1>1 DEF NotReading
<1> QED
  BY <1>2, <1>3, <1>4

LEMMA CopyFirstReader ==
    ASSUME TypeOK, NEW r \in Readers, CopyFirst(r), ft \in sensors
    PROVE  /\ reader[r].at = "lock" /\ reader'[r].at = "copy" /\ reader'[r].since = reader[r].since
           /\ reader'[r].got.first = sample.first /\ reader'[r].got.last = reader[r].got.last
           /\ reader'[r].out = reader[r].out /\ reader'[r].alone = reader[r].alone
           /\ \A q \in Readers \ {r} : reader'[q] = reader[q]
<1>1. reader \in [Readers -> Reads] /\ reader[r] \in Reads
  BY DEF TypeOK, Reads
<1>2. reading \in [first : Numbers, last : Numbers]
  BY DataTypes
<1> QED
  BY <1>1, <1>2 DEF CopyFirst, Reads, Wrenches

LEMMA CopyLastReader ==
    ASSUME TypeOK, NEW r \in Readers, CopyLast(r), ft \in sensors
    PROVE  /\ reader[r].at = "copy" /\ reader'[r].at = "assign" /\ reader'[r].since = reader[r].since
           /\ reader'[r].got.last = sample.last /\ reader'[r].got.first = reader[r].got.first
           /\ reader'[r].out = reader[r].out /\ reader'[r].alone = reader[r].alone
           /\ \A q \in Readers \ {r} : reader'[q] = reader[q]
<1>1. reader \in [Readers -> Reads] /\ reader[r] \in Reads
  BY DEF TypeOK, Reads
<1>2. reading \in [first : Numbers, last : Numbers]
  BY DataTypes
<1> QED
  BY <1>1, <1>2 DEF CopyLast, Reads, Wrenches

LEMMA AssignFirstReader ==
    ASSUME TypeOK, NEW r \in Readers, AssignFirst(r)
    PROVE  /\ reader[r].at = "assign" /\ reader'[r].at = "return" /\ reader'[r].since = reader[r].since
           /\ reader'[r].got = reader[r].got
           /\ reader'[r].out = reader[r].out /\ reader'[r].alone = reader[r].alone
           /\ \A q \in Readers \ {r} : reader'[q] = reader[q]
<1>1. reader \in [Readers -> Reads] /\ reader[r] \in Reads
  BY DEF TypeOK, Reads
<1>2. reading \in [first : Numbers, last : Numbers]
  BY DataTypes
<1> QED
  BY <1>1, <1>2 DEF AssignFirst, Reads, Wrenches

LEMMA ReturnReader ==
    ASSUME TypeOK, NEW r \in Readers, Return(r)
    PROVE  /\ reader[r].at = "return" /\ reader'[r].at = "idle" /\ reader'[r].since = reader[r].since
           /\ reader'[r].got = reader[r].got
           /\ reader'[r].out.first = reading.first /\ reader'[r].out.last = reader[r].got.last
           /\ reader'[r].alone = reader[r].alone
           /\ \A q \in Readers \ {r} : reader'[q] = reader[q]
<1>1. reader \in [Readers -> Reads] /\ reader[r] \in Reads
  BY DEF TypeOK, Reads
<1>2. reading \in [first : Numbers, last : Numbers]
  BY DataTypes
<1> QED
  BY <1>1, <1>2 DEF Return, Reads, Wrenches

-----------------------------------------------------------------------------
(* What the numbers tell is preserved. *)

LEMMA InOrderStep ==
    ASSUME TypeOK, Receiving, InOrder, [Next]_vars
    PROVE  InOrder'
<1>0. /\ sample.last \in Nat /\ decoded \in Nat /\ cbUdpRec \in Nat
      /\ queue \in Seq(Nat) /\ arrived \in Seq({"board", "other"})
      /\ sample \in [first : Numbers, last : Numbers]
  BY DataTypes
<1>1. ASSUME NEW sender \in {"board", "other"}, Arrive(sender) PROVE InOrder'
  <2>1. /\ Len(queue') = Len(queue) + 1 /\ Len(arrived') = Len(arrived) + 1
        /\ \A i \in 1..Len(queue) : queue'[i] = queue[i]
        /\ queue'[Len(queue) + 1] = Len(arrived) + 1
    BY <1>0, <1>1 DEF Arrive
  <2>2. UNCHANGED <<cbUdpRec, decoded, sample>>
    BY <1>1 DEF Arrive, receiver, data
  <2>3. Len(queue) \in Nat /\ Len(arrived) \in Nat
    BY <1>0
  <2>4. ASSUME NEW i \in 1..Len(queue') PROVE queue'[i] = (Len(arrived') - Len(queue')) + i
    <3>1. CASE i \in 1..Len(queue)
      <4>1. queue'[i] = (Len(arrived) - Len(queue)) + i
        BY <2>1, <3>1 DEF InOrder
      <4> QED
        BY <2>1, <2>3, <3>1, <4>1
    <3>2. CASE i = Len(queue) + 1
      BY <2>1, <2>3, <3>2
    <3> QED
      BY <2>1, <2>3, <3>1, <3>2
  <2> QED
    BY <1>0, <2>1, <2>2, <2>3, <2>4 DEF InOrder
<1>2. CASE RecvFrom
  <2>1. UNCHANGED <<arrived, decoded, sample>>
    BY <1>2 DEF RecvFrom, data
  <2>2. CASE UNCHANGED <<cbUdpRec, queue>>
    BY <2>1, <2>2 DEF InOrder
  <2>3. CASE cbUdpRec' = Head(queue) /\ queue' = Tail(queue)
    <3>1. queue # <<>> /\ Len(queue) \in Nat /\ Len(queue) >= 1 /\ Len(arrived) \in Nat
      BY <1>0, <1>2 DEF RecvFrom, Receiving, DatagramIsThere
    <3>2. Len(queue') = Len(queue) - 1 /\ \A i \in 1..(Len(queue) - 1) : queue'[i] = queue[i + 1]
      BY <1>0, <2>3, <3>1
    <3>3. cbUdpRec' = queue[1]
      BY <1>0, <2>3, <3>1
    <3>4. queue[1] = (Len(arrived) - Len(queue)) + 1
      BY <3>1 DEF InOrder
    <3>5. \A i \in 1..Len(queue') : queue'[i] = (Len(arrived) - Len(queue')) + i
      BY <3>1, <3>2 DEF InOrder
    <3> QED
      BY <1>0, <2>1, <3>1, <3>2, <3>3, <3>4, <3>5 DEF InOrder
  <2> QED
    BY <1>2, <2>2, <2>3 DEF RecvFrom
<1>3. CASE Analyze
  <2>1. UNCHANGED <<arrived, queue, cbUdpRec, sample>> /\ decoded' \in {cbUdpRec, decoded}
    BY <1>3 DEF Analyze, Undefined, network, receiver, data
  <2> QED
    BY <1>0, <2>1 DEF InOrder
<1>4. CASE StoreFirst
  <2>1. UNCHANGED <<arrived, queue, cbUdpRec, decoded>> /\ sample'.last = sample.last
    BY <1>0, <1>4 DEF StoreFirst, Undefined, network, receiver, data
  <2> QED
    BY <2>1 DEF InOrder
<1>5. CASE StoreLast
  <2>1. UNCHANGED <<arrived, queue, cbUdpRec, decoded>> /\ sample'.last \in {decoded, sample.last}
    BY <1>0, <1>5 DEF StoreLast, Undefined, network, receiver, data
  <2> QED
    BY <1>0, <2>1 DEF InOrder
<1>6. CASE UNCHANGED <<arrived, queue, cbUdpRec, decoded, sample>>
  BY <1>6 DEF InOrder
<1>7. \/ \E sender \in {"board", "other"} : Arrive(sender)
      \/ RecvFrom \/ Analyze \/ StoreFirst \/ StoreLast
      \/ UNCHANGED <<arrived, queue, cbUdpRec, decoded, sample>>
  BY Steps DEF Open, Socket, Bind, ConnectAll, BuildSensor, StartRecvThread, Close, EndProgram,
     StopRecvThread, Join, WorkerCheck, Select, Timeout, NextBoard, ReadBegin, CopyFirst,
     CopyLast, AssignFirst, Return, Undefined, network, receiver, data, vars
<1> QED
  BY <1>1, <1>2, <1>3, <1>4, <1>5, <1>6, <1>7

(* The values of the sensor never get older. *)
LEMMA SampleAdvances ==
    ASSUME TypeOK, InOrder, [Next]_vars
    PROVE  sample.last <= sample'.last
<1>0. sample.last \in Nat /\ decoded \in Nat /\ sample \in [first : Numbers, last : Numbers]
  BY DataTypes
<1>1. CASE StoreFirst
  BY <1>0, <1>1 DEF StoreFirst, Undefined, data
<1>2. CASE StoreLast
  BY <1>0, <1>2 DEF StoreLast, Undefined, data, InOrder
<1>3. CASE sample' = sample
  BY <1>0, <1>3
<1>4. StoreFirst \/ StoreLast \/ sample' = sample
  BY Steps DEF Open, Socket, Bind, ConnectAll, BuildSensor, StartRecvThread, Close, EndProgram,
     StopRecvThread, Join, Arrive, WorkerCheck, Select, Timeout, RecvFrom, NextBoard, Analyze,
     ReadBegin, CopyFirst, CopyLast, AssignFirst, Return, Undefined, data, vars
<1> QED
  BY <1>1, <1>2, <1>3, <1>4

(* Which steps touch the records of the readers. *)
LEMMA ReaderSteps ==
    ASSUME [Next]_vars
    PROVE  \/ \E r \in Readers : ReadBegin(r)
           \/ \E r \in Readers : CopyFirst(r) /\ ft \in sensors
           \/ \E r \in Readers : CopyLast(r) /\ ft \in sensors
           \/ \E r \in Readers : AssignFirst(r)
           \/ \E r \in Readers : Return(r)
           \/ UNCHANGED clients
  BY Steps DEF Open, Socket, Bind, ConnectAll, BuildSensor, StartRecvThread, Close, EndProgram,
     StopRecvThread, Join, Arrive, WorkerCheck, Select, Timeout, RecvFrom, NextBoard, Analyze,
     StoreFirst, StoreLast, CopyFirst, CopyLast, Undefined, vars

LEMMA FreshStep ==
    ASSUME TypeOK, TypeOK', InOrder, Fresh, [Next]_vars
    PROVE  Fresh'
<1> DEFINE IsFresh(at, since, got, out, now) ==
             /\ at \in {"lock", "copy"} => since <= now
             /\ at \in {"assign", "return"} => since <= got
             /\ at = "idle" => since <= out
<1> SUFFICES ASSUME NEW q \in Readers
             PROVE  IsFresh(reader'[q].at, reader'[q].since, reader'[q].got.last,
                            reader'[q].out.last, sample'.last)
  BY DEF Fresh
<1>0. /\ sample.last \in Nat /\ sample'.last \in Nat /\ sample.last <= sample'.last
      /\ reader[q].since \in Nat /\ reader[q].got.last \in Nat /\ reader[q].out.last \in Nat
  <2>1. sample'.last \in Nat
    BY BoundsAssumption DEF TypeOK, Wrenches, Numbers
  <2> QED
    BY <2>1, DataTypes, SampleAdvances, ReaderTypes
<1>1. IsFresh(reader[q].at, reader[q].since, reader[q].got.last, reader[q].out.last, sample.last)
  BY DEF Fresh
<1>2. ASSUME NEW r \in Readers, ReadBegin(r)
      PROVE  IsFresh(reader'[q].at, reader'[q].since, reader'[q].got.last, reader'[q].out.last,
                     sample'.last)
  BY <1>0, <1>1, <1>2, ReadBeginReader
<1>3. ASSUME NEW r \in Readers, CopyFirst(r), ft \in sensors
      PROVE  IsFresh(reader'[q].at, reader'[q].since, reader'[q].got.last, reader'[q].out.last,
                     sample'.last)
  BY <1>0, <1>1, <1>3, CopyFirstReader
<1>4. ASSUME NEW r \in Readers, CopyLast(r), ft \in sensors
      PROVE  IsFresh(reader'[q].at, reader'[q].since, reader'[q].got.last, reader'[q].out.last,
                     sample'.last)
  BY <1>0, <1>1, <1>4, CopyLastReader
<1>5. ASSUME NEW r \in Readers, AssignFirst(r)
      PROVE  IsFresh(reader'[q].at, reader'[q].since, reader'[q].got.last, reader'[q].out.last,
                     sample'.last)
  BY <1>0, <1>1, <1>5, AssignFirstReader
<1>6. ASSUME NEW r \in Readers, Return(r)
      PROVE  IsFresh(reader'[q].at, reader'[q].since, reader'[q].got.last, reader'[q].out.last,
                     sample'.last)
  BY <1>0, <1>1, <1>6, ReturnReader
<1>7. ASSUME UNCHANGED clients
      PROVE  IsFresh(reader'[q].at, reader'[q].since, reader'[q].got.last, reader'[q].out.last,
                     sample'.last)
  BY <1>0, <1>1, <1>7 DEF clients
<1> QED
  BY <1>2, <1>3, <1>4, <1>5, <1>6, <1>7, ReaderSteps

(* Which steps touch sensor_mutex and the place of the receiving thread. *)
LEMMA ThreadSteps ==
    ASSUME [Next]_vars
    PROVE  \/ StartRecvThread /\ worker = "none"
           \/ WorkerCheck \/ Select \/ RecvFrom \/ NextBoard
           \/ Timeout /\ worker' = "check"
           \/ Analyze /\ handler[board] \in sensors
           \/ StoreFirst /\ handler[board] \in sensors
           \/ StoreLast /\ handler[board] \in sensors
           \/ UNCHANGED <<worker, cbUdpRec, decoded, sample>>
<1>1. ASSUME NEW found \in BOOLEAN, Open(found)
      PROVE  UNCHANGED <<worker, cbUdpRec, decoded, sample>>
  BY <1>1 DEF Open, receiver, data
<1>2. CASE Socket \/ Bind \/ ConnectAll \/ BuildSensor \/ Close \/ EndProgram
           \/ StopRecvThread \/ Join
  BY <1>2 DEF Socket, Bind, ConnectAll, BuildSensor, Close, EndProgram, StopRecvThread, Join,
     Undefined, receiver, data
<1>3. ASSUME NEW sender \in {"board", "other"}, Arrive(sender)
      PROVE  UNCHANGED <<worker, cbUdpRec, decoded, sample>>
  BY <1>3 DEF Arrive, receiver, data
<1>4. ASSUME NEW r \in Readers,
             ReadBegin(r) \/ CopyFirst(r) \/ CopyLast(r) \/ AssignFirst(r) \/ Return(r)
      PROVE  UNCHANGED <<worker, cbUdpRec, decoded, sample>>
  BY <1>4 DEF ReadBegin, CopyFirst, CopyLast, AssignFirst, Return, Undefined, receiver, data
<1>5. CASE UNCHANGED vars
  BY <1>5 DEF vars, receiver, data
<1>6. CASE StartRecvThread \/ Analyze \/ StoreFirst \/ StoreLast
  BY <1>6 DEF StartRecvThread, Analyze, StoreFirst, StoreLast, Undefined, receiver, data
<1>7. CASE Timeout
  BY <1>7 DEF Timeout, Undefined, receiver, data
<1> QED
  BY Steps, <1>1, <1>2, <1>3, <1>4, <1>5, <1>6, <1>7

LEMMA LockingStep ==
    ASSUME TypeOK, Locking, [Next]_vars
    PROVE  Locking'
<1>0. "free" # "worker" /\ "free" \notin Readers /\ "worker" \notin Readers
  BY ReadersAssumption
<1>1. /\ worker = "store" <=> mutex = "worker"
      /\ \A q \in Readers : reader[q].at = "copy" <=> mutex = q
  BY DEF Locking
<1>2. ASSUME NEW r \in Readers, ReadBegin(r) PROVE Locking'
  <2>1. UNCHANGED <<worker, mutex>> /\ reader[r].at = "idle"
    BY <1>2 DEF ReadBegin, receiver, data
  <2> QED
    BY <1>1, <1>2, <2>1, ReadBeginReader DEF Locking
<1>3. ASSUME NEW r \in Readers, CopyFirst(r), ft \in sensors PROVE Locking'
  <2>1. worker' = worker /\ mutex = "free" /\ mutex' = r
    BY <1>3 DEF CopyFirst, receiver, data
  <2> QED
    BY <1>0, <1>1, <1>3, <2>1, CopyFirstReader DEF Locking
<1>4. ASSUME NEW r \in Readers, CopyLast(r), ft \in sensors PROVE Locking'
  <2>1. worker' = worker /\ mutex' = "free"
    BY <1>4 DEF CopyLast, receiver, data
  <2> QED
    BY <1>0, <1>1, <1>4, <2>1, CopyLastReader DEF Locking
<1>5. ASSUME NEW r \in Readers, AssignFirst(r) PROVE Locking'
  <2>1. UNCHANGED <<worker, mutex>>
    BY <1>5 DEF AssignFirst, receiver, data
  <2> QED
    BY <1>0, <1>1, <1>5, <2>1, AssignFirstReader DEF Locking
<1>6. ASSUME NEW r \in Readers, Return(r) PROVE Locking'
  <2>1. UNCHANGED <<worker, mutex>>
    BY <1>6 DEF Return, receiver, data
  <2> QED
    BY <1>0, <1>1, <1>6, <2>1, ReturnReader DEF Locking
<1>7. CASE UNCHANGED clients
  <2>1. CASE StoreFirst /\ handler[board] \in sensors
    <3>1. mutex = "free" /\ mutex' = "worker" /\ worker' = "store" /\ reader' = reader
      BY <1>7, <2>1 DEF StoreFirst, clients
    <3> QED
      BY <1>0, <1>1, <3>1 DEF Locking
  <2>2. CASE StoreLast /\ handler[board] \in sensors
    <3>1. mutex = "worker" /\ mutex' = "free" /\ worker' = "handle" /\ reader' = reader
      BY <1>7, <1>1, <2>2 DEF StoreLast, clients
    <3> QED
      BY <1>0, <1>1, <3>1 DEF Locking
  <2>3. CASE UNCHANGED <<worker, mutex>>
    BY <1>1, <1>7, <2>3 DEF Locking, clients
  <2>4. CASE worker # "store" /\ worker' # "store" /\ mutex' = mutex
    BY <1>1, <1>7, <2>4 DEF Locking, clients
  <2>5. \/ StoreFirst /\ handler[board] \in sensors
        \/ StoreLast /\ handler[board] \in sensors
        \/ UNCHANGED <<worker, mutex>>
        \/ worker # "store" /\ worker' # "store" /\ mutex' = mutex
        \/ \E r \in Readers : CopyFirst(r) /\ ft \in sensors
        \/ \E r \in Readers : CopyLast(r) /\ ft \in sensors
    BY Steps DEF Open, Socket, Bind, ConnectAll, BuildSensor, StartRecvThread, Close, EndProgram,
       StopRecvThread, Join, Arrive, WorkerCheck, Select, Timeout, RecvFrom, NextBoard, Analyze,
       StoreFirst, StoreLast, ReadBegin, CopyFirst, CopyLast, AssignFirst, Return, Undefined,
       receiver, data, vars
  <2> QED
    BY <1>3, <1>4, <2>1, <2>2, <2>3, <2>4, <2>5
<1> QED
  BY <1>2, <1>3, <1>4, <1>5, <1>6, <1>7, ReaderSteps

LEMMA GenuineStep ==
    ASSUME TypeOK, Opening, Receiving, InOrder, Genuine, [Next]_vars
    PROVE  Genuine'
<1> SUFFICES ASSUME process' = "running"
             PROVE  /\ FromBoard(decoded)' /\ FromBoard(sample.last)'
                    /\ worker' \in {"handle", "decoded", "store"} => FromBoard(cbUdpRec)'
                    /\ \A q \in Readers : FromBoard(reader[q].got.last)'
                                          /\ FromBoard(reader[q].out.last)'
  BY DEF Genuine
<1>1. process = "running"
  BY Steps DEF Open, Socket, Bind, ConnectAll, BuildSensor, StartRecvThread, Close, EndProgram,
     StopRecvThread, Join, Arrive, WorkerCheck, Select, Timeout, RecvFrom, NextBoard, Analyze,
     StoreFirst, StoreLast, ReadBegin, CopyFirst, CopyLast, AssignFirst, Return, Undefined,
     Alive, vars
<1>2. /\ FromBoard(decoded) /\ FromBoard(sample.last)
      /\ worker \in {"handle", "decoded", "store"} => FromBoard(cbUdpRec)
      /\ \A q \in Readers : FromBoard(reader[q].got.last) /\ FromBoard(reader[q].out.last)
  BY <1>1 DEF Genuine
(* What came from the board stays so. *)
<1> DEFINE Was(n) == n = 0 \/ (n \in 1..Len(arrived') /\ arrived'[n] = "board")
<1>3. ASSUME NEW n, FromBoard(n) PROVE Was(n)
  <2>1. arrived \in Seq({"board", "other"})
    BY DataTypes
  <2>2. arrived' = arrived \/ \E sender \in {"board", "other"} : arrived' = Append(arrived, sender)
    BY Steps DEF Open, Socket, Bind, ConnectAll, BuildSensor, StartRecvThread, Close, EndProgram,
       StopRecvThread, Join, Arrive, WorkerCheck, Select, Timeout, RecvFrom, NextBoard, Analyze,
       StoreFirst, StoreLast, ReadBegin, CopyFirst, CopyLast, AssignFirst, Return, Undefined,
       network, vars
  <2> QED
    BY <1>3, <2>1, <2>2 DEF FromBoard
<1>4. Was(decoded')
  <2>1. decoded' = decoded \/ (worker = "handle" /\ decoded' = cbUdpRec)
    BY ThreadSteps DEF StartRecvThread, WorkerCheck, Select, RecvFrom, NextBoard, Timeout, Analyze,
       StoreFirst, StoreLast, Undefined, receiver
  <2> QED
    BY <1>2, <1>3, <2>1
<1>5. Was(sample'.last)
  <2>0. sample \in [first : Numbers, last : Numbers]
    BY DataTypes
  <2>1. sample'.last = sample.last \/ sample'.last = decoded
    BY <2>0, ThreadSteps DEF StartRecvThread, WorkerCheck, Select, RecvFrom, NextBoard, Timeout,
       Analyze, StoreFirst, StoreLast, Undefined, data
  <2> QED
    BY <1>2, <1>3, <2>1
<1>6. worker' \in {"handle", "decoded", "store"} => Was(cbUdpRec')
  <2>1. CASE RecvFrom
    <3>1. sockId # "closed"
      BY <1>1 DEF Opening, ClosedLate
    <3>2. /\ arrived' = arrived /\ worker' \in {"handle", "check", "blocked"}
          /\ worker' = "handle" => cbUdpRec' = Head(queue) /\ arrived[Head(queue)] = "board"
      BY <2>1, <3>1 DEF RecvFrom
    <3>3. queue # <<>> /\ queue \in Seq(Nat) /\ arrived \in Seq({"board", "other"})
      BY <2>1, DataTypes DEF RecvFrom, Receiving, DatagramIsThere
    <3>4. Head(queue) \in 1..Len(arrived)
      BY <3>3 DEF InOrder
    <3> QED
      BY <3>2, <3>4
  <2>2. CASE /\ cbUdpRec' = cbUdpRec
             /\ worker' \in {"handle", "decoded", "store"} =>
                    worker \in {"handle", "decoded", "store"}
    BY <1>2, <1>3, <2>2
  <2>3. CASE StartRecvThread /\ worker = "none"
    BY <2>3 DEF StartRecvThread
  <2> QED
    BY <2>1, <2>2, <2>3, ThreadSteps DEF WorkerCheck, Select, NextBoard, Timeout, Analyze,
       StoreFirst, StoreLast
<1>7. ASSUME NEW q \in Readers PROVE Was(reader'[q].got.last) /\ Was(reader'[q].out.last)
  <2>0. FromBoard(reader[q].got.last) /\ FromBoard(reader[q].out.last) /\ FromBoard(sample.last)
    BY <1>2
  <2>1. Was(reader[q].got.last) /\ Was(reader[q].out.last) /\ Was(sample.last) /\ Was(0)
    BY <1>3, <2>0
  <2> HIDE DEF Was
  <2>2. ASSUME NEW r \in Readers, ReadBegin(r)
        PROVE  Was(reader'[q].got.last) /\ Was(reader'[q].out.last)
    BY <2>1, <2>2, ReadBeginReader
  <2>3. ASSUME NEW r \in Readers, CopyFirst(r), ft \in sensors
        PROVE  Was(reader'[q].got.last) /\ Was(reader'[q].out.last)
    BY <2>1, <2>3, CopyFirstReader
  <2>4. ASSUME NEW r \in Readers, CopyLast(r), ft \in sensors
        PROVE  Was(reader'[q].got.last) /\ Was(reader'[q].out.last)
    BY <2>1, <2>4, CopyLastReader
  <2>5. ASSUME NEW r \in Readers, AssignFirst(r)
        PROVE  Was(reader'[q].got.last) /\ Was(reader'[q].out.last)
    BY <2>1, <2>5, AssignFirstReader
  <2>6. ASSUME NEW r \in Readers, Return(r)
        PROVE  Was(reader'[q].got.last) /\ Was(reader'[q].out.last)
    BY <2>1, <2>6, ReturnReader
  <2>7. CASE UNCHANGED clients
    BY <2>1, <2>7 DEF clients
  <2> QED
    BY <2>2, <2>3, <2>4, <2>5, <2>6, <2>7, ReaderSteps
<1> QED
  BY <1>4, <1>5, <1>6, <1>7 DEF FromBoard

LEMMA OneSampleStep ==
    ASSUME TypeOK, Locking, OneSample, [Next]_vars
    PROVE  OneSample'
<1>0. sample \in [first : Numbers, last : Numbers] /\ reading \in [first : Numbers, last : Numbers]
  BY DataTypes
<1>1. IF worker' = "store" THEN sample'.first = decoded' ELSE sample'.first = sample'.last
  <2>1. IF worker = "store" THEN sample.first = decoded ELSE sample.first = sample.last
    BY DEF OneSample
  <2>2. CASE StoreFirst /\ handler[board] \in sensors
    BY <1>0, <2>2 DEF StoreFirst
  <2>3. CASE StoreLast /\ handler[board] \in sensors
    BY <1>0, <2>1, <2>3 DEF StoreLast
  <2>4. CASE UNCHANGED <<worker, decoded, sample>>
    BY <2>1, <2>4
  <2>5. CASE worker # "store" /\ worker' # "store" /\ sample' = sample
    BY <2>1, <2>5
  <2> QED
    BY <2>2, <2>3, <2>4, <2>5, ThreadSteps DEF StartRecvThread, WorkerCheck, Select, RecvFrom,
       NextBoard, Timeout, Analyze, Undefined, receiver, data
<1> SUFFICES ASSUME NEW q \in Readers PROVE OneReader(q)'
  BY <1>1 DEF OneSample
<1>2. OneReader(q) /\ \A r \in Readers : OneReader(r)
  BY DEF OneSample
<1>3. "worker" \notin Readers /\ "free" \notin Readers
  BY ReadersAssumption
<1>4. ASSUME NEW r \in Readers, ReadBegin(r) PROVE OneReader(q)'
  <2>1. UNCHANGED <<sample, reading>> /\ reader[r].at = "idle"
    BY <1>4 DEF ReadBegin, data
  <2> QED
    BY <1>2, <1>4, <2>1, ReadBeginReader DEF OneReader
<1>5. ASSUME NEW r \in Readers, CopyFirst(r), ft \in sensors PROVE OneReader(q)'
  <2>1. UNCHANGED <<sample, reading>>
    BY <1>5 DEF CopyFirst
  <2> QED
    BY <1>2, <1>5, <2>1, CopyFirstReader DEF OneReader
<1>6. ASSUME NEW r \in Readers, CopyLast(r), ft \in sensors PROVE OneReader(q)'
  <2>1. UNCHANGED <<sample, reading>>
    BY <1>6 DEF CopyLast
  <2>2. sample.first = sample.last
    BY <1>3, <1>6 DEF CopyLast, Locking, OneSample
  <2> QED
    BY <1>2, <1>6, <2>1, <2>2, CopyLastReader DEF OneReader
<1>7. ASSUME NEW r \in Readers, AssignFirst(r) PROVE OneReader(q)'
  <2>1. sample' = sample /\ reading'.first = reader[r].got.first
    BY <1>0, <1>7 DEF AssignFirst, data
  <2> QED
    BY <1>2, <1>7, <2>1, AssignFirstReader DEF OneReader
<1>8. ASSUME NEW r \in Readers, Return(r) PROVE OneReader(q)'
  <2>1. sample' = sample /\ reading'.first = reading.first
    BY <1>0, <1>8 DEF Return, data
  <2> QED
    BY <1>2, <1>8, <2>1, ReturnReader DEF OneReader
<1>9. CASE UNCHANGED clients
  <2>1. reader' = reader /\ reading' = reading
    BY <1>9 DEF clients
  <2>2. reader[q].at = "copy" => sample' = sample
    <3>1. SUFFICES ASSUME reader[q].at = "copy" PROVE sample' = sample
      OBVIOUS
    <3>2. mutex = q /\ worker # "store" /\ mutex # "free"
      BY <1>3, <3>1 DEF Locking
    <3> QED
      BY <3>2, ThreadSteps DEF StartRecvThread, WorkerCheck, Select, RecvFrom, NextBoard, Timeout,
         Analyze, StoreFirst, StoreLast, Undefined, data
  <2> QED
    BY <1>2, <2>1, <2>2 DEF OneReader
<1> QED
  BY <1>4, <1>5, <1>6, <1>7, <1>8, <1>9, ReaderSteps

LEMMA DeliveringStep ==
    ASSUME TypeOK, TypeOK', Opening, Receiving, Delivering, [Next]_vars
    PROVE  Delivering'
  BY InOrderStep, FreshStep, LockingStep, GenuineStep, OneSampleStep DEF Delivering

LEMMA NextInductive ==
    ASSUME Inductive, [Next]_vars
    PROVE  Inductive'
<1>1. TypeOK /\ Opening /\ Receiving /\ Delivering /\ DefinedWhileOpen
  BY DEF Inductive
<1>2. TypeOK'
  BY <1>1, TypeStep
<1>3. Opening'
  BY <1>1, OpeningStep
<1>4. Receiving'
  BY <1>1, DatagramIsThereStep, BoardIsThereStep DEF Receiving
<1>5. Delivering'
  BY <1>1, <1>2, DeliveringStep
<1>6. DefinedWhileOpen'
  BY <1>1, DefinedStep
<1> QED
  BY <1>2, <1>3, <1>4, <1>5, <1>6 DEF Inductive

(* The inductive invariant holds in every reachable state. *)
THEOREM InductiveInvariant == Spec => []Inductive
  BY InitInductive, NextInductive, PTL DEF Spec

-----------------------------------------------------------------------------
LEMMA ImpliesSole ==
    ASSUME Inductive
    PROVE  SoleReadingIsOneSample /\ SoleReadingIsFresh
<1>1. SoleReadingIsOneSample
  <2> SUFFICES ASSUME process = "running", NEW r \in Readers, reader[r].at = "idle",
                      reader[r].alone
               PROVE  /\ reader[r].out.first = reader[r].out.last
                      /\ reader[r].out.last # 0 => arrived[reader[r].out.last] = "board"
    BY DEF SoleReadingIsOneSample
  <2>1. OneReader(r) /\ FromBoard(reader[r].out.last)
    BY DEF Inductive, Delivering, OneSample, Genuine
  <2> QED
    BY <2>1 DEF OneReader, FromBoard
<1>2. SoleReadingIsFresh
  BY DEF SoleReadingIsFresh, Inductive, Delivering, Fresh
<1> QED
  BY <1>1, <1>2

(* Type correctness: every variable of the device keeps its type. *)
THEOREM TypeCorrect == Spec => []TypeOK
<1>1. Inductive => TypeOK
  BY DEF Inductive
<1> QED
  BY <1>1, InductiveInvariant, PTL

(* Only the first open() of a process gets a receiving thread: while it runs *)
(* the socket is bound and one handler is installed.                         *)
THEOREM OneReceiverCorrect == Spec => []OneReceiver
<1>1. Inductive => OneReceiver
  BY OpeningReceiver DEF Inductive
<1> QED
  BY <1>1, InductiveInvariant, PTL

(* A device that is opened once does nothing undefined until it is closed. *)
THEOREM DefinedWhileOpenCorrect == Spec => []DefinedWhileOpen
<1>1. Inductive => DefinedWhileOpen
  BY DEF Inductive
<1> QED
  BY <1>1, InductiveInvariant, PTL

(* A read() that no other overlaps returns the values of one datagram of the *)
(* board.                                                                    *)
THEOREM OneSampleCorrect == Spec => []SoleReadingIsOneSample
<1>1. Inductive => SoleReadingIsOneSample
  BY ImpliesSole
<1> QED
  BY <1>1, InductiveInvariant, PTL

(* ... and none that are older than those complete when it began. *)
THEOREM FreshCorrect == Spec => []SoleReadingIsFresh
<1>1. Inductive => SoleReadingIsFresh
  BY ImpliesSole
<1> QED
  BY <1>1, InductiveInvariant, PTL

-----------------------------------------------------------------------------
(* The safety that the liveness of the receiving thread and of the exit    *)
(* rests on.                                                               *)

(* A thread that receives has a board to itself until open() adds another, *)
(* and only that open() can leave it without a bound socket.               *)
Unblocked ==
    /\ sockId = "unbound" => owner = "bind"
    /\ worker # "none" => boards >= 1 /\ (owner # "idle" => boards >= 2)
    /\ worker = "blocked" => boards >= 2
    /\ worker = "done" => ~continuing
    /\ process = "running" => continuing

LEMMA OwnerUnblocked ==
    ASSUME TypeOK, Unblocked,
           \/ \E found \in BOOLEAN : Open(found)
           \/ Socket \/ Bind \/ ConnectAll \/ BuildSensor \/ StartRecvThread
           \/ Close \/ EndProgram \/ StopRecvThread \/ Join
    PROVE  Unblocked'
<1> USE DEF Unblocked, TypeOK, manager, receiver, sensor, Undefined
<1>1. ASSUME NEW found \in BOOLEAN, Open(found) PROVE Unblocked'
  BY <1>1 DEF Open, MAX_NUM_BOARDS
<1>2. CASE Socket \/ Bind \/ ConnectAll \/ BuildSensor
  BY <1>2 DEF Socket, Bind, ConnectAll, BuildSensor
<1>3. CASE StartRecvThread
  BY <1>3 DEF StartRecvThread
<1>4. CASE Close \/ EndProgram \/ StopRecvThread \/ Join
  BY <1>4 DEF Close, EndProgram, StopRecvThread, Join
<1> QED
  BY <1>1, <1>2, <1>3, <1>4

LEMMA UnblockedStep ==
    ASSUME TypeOK, Unblocked, [Next]_vars
    PROVE  Unblocked'
<1> USE DEF Unblocked, manager, network, receiver, sensor, data, clients, Undefined
<1>1. CASE WorkerCheck \/ Select \/ Timeout \/ NextBoard
  BY <1>1 DEF WorkerCheck, Select, Timeout, NextBoard
<1>2. CASE RecvFrom
  BY <1>2 DEF RecvFrom
<1>3. CASE Analyze \/ StoreFirst \/ StoreLast
  BY <1>3 DEF Analyze, StoreFirst, StoreLast
<1>4. ASSUME NEW sender \in {"board", "other"}, Arrive(sender) PROVE Unblocked'
  BY <1>4 DEF Arrive
<1>5. ASSUME NEW r \in Readers, ReadBegin(r) \/ CopyFirst(r) \/ CopyLast(r) PROVE Unblocked'
  BY <1>5 DEF ReadBegin, CopyFirst, CopyLast
<1>6. ASSUME NEW r \in Readers, AssignFirst(r) \/ Return(r) PROVE Unblocked'
  BY <1>6 DEF AssignFirst, Return
<1>7. CASE UNCHANGED vars
  BY <1>7 DEF vars
<1> HIDE DEF Unblocked
<1> QED
  BY Steps, OwnerUnblocked, <1>1, <1>2, <1>3, <1>4, <1>5, <1>6, <1>7

LEMMA UnblockedInvariant == Spec => []Unblocked
<1>1. Init => Unblocked
  BY DEF Init, Unblocked
<1> QED
  BY TypeCorrect, <1>1, UnblockedStep, PTL DEF Spec

(* A process with one board never hangs in the join of its receiving       *)
(* thread: recvfrom() is never called on a socket that is not bound.       *)
THEOREM NeverBlocked == Spec => [](boards <= 1 => worker # "blocked")
<1>1. TypeOK /\ Unblocked => (boards <= 1 => worker # "blocked")
  BY DEF TypeOK, Unblocked, MAX_NUM_BOARDS
<1> QED
  BY TypeCorrect, UnblockedInvariant, <1>1, PTL

(* An open device with one board has a thread that receives, and one that  *)
(* was not told to stop.                                                   *)
THEOREM ReceiverIsThere ==
    Spec => [](process = "running" /\ ft # 0 /\ boards <= 1 =>
                 /\ continuing
                 /\ worker \in {"check", "select", "receive", "handle", "decoded", "store"})
<1>1. Inductive /\ Unblocked =>
        (process = "running" /\ ft # 0 /\ boards <= 1 =>
           /\ continuing
           /\ worker \in {"check", "select", "receive", "handle", "decoded", "store"})
  BY DEF Inductive, TypeOK, Opening, SensorAlive, Unblocked, MAX_NUM_BOARDS
<1> QED
  BY InductiveInvariant, UnblockedInvariant, <1>1, PTL

(* The steps of the receiving thread until it ends, after stopRecvThread() *)
(* was called: one call of recvUdp() at most, three steps for each board.  *)
StopLeft ==
    CASE worker = "check"   -> 1
      [] worker = "handle"  -> 2 + 3 * (MAX_NUM_BOARDS + 1 - board)
      [] worker = "decoded" -> 1 + 3 * (MAX_NUM_BOARDS + 1 - board)
      [] worker = "store"   -> 3 * (MAX_NUM_BOARDS + 1 - board)
      [] worker = "receive" -> 15
      [] worker = "select"  -> 16
      [] OTHER              -> 0

Stopping == ~continuing /\ worker \notin {"none", "blocked", "done"}

LEMMA StopLeftRange ==
    ASSUME TypeOK, BoardIsThere, Stopping
    PROVE  StopLeft \in 1..16
<1>1. board \in 0..5 /\ boards \in 0..4
  BY DEF TypeOK, MAX_NUM_BOARDS
<1>2. worker \in {"check", "select", "receive", "handle", "decoded", "store"}
  BY DEF TypeOK, Stopping
<1>3. CASE worker = "handle"
  BY <1>1, <1>3 DEF BoardIsThere, StopLeft, MAX_NUM_BOARDS
<1>4. CASE worker \in {"decoded", "store"}
  BY <1>1, <1>4 DEF BoardIsThere, StopLeft, MAX_NUM_BOARDS
<1>5. CASE worker \in {"check", "select", "receive"}
  BY <1>5 DEF StopLeft
<1> QED
  BY <1>2, <1>3, <1>4, <1>5

(* What the receiving thread does comes nearer to its end. *)
LEMMA WorkerEnds ==
    ASSUME TypeOK, BoardIsThere, Stopping, WorkerStep \/ StoreFirst, process' # "undefined"
    PROVE  StopLeft' < StopLeft
<1>1. board \in 0..5 /\ boards \in 0..4 /\ MAX_NUM_BOARDS = 4
  BY DEF TypeOK, MAX_NUM_BOARDS
<1> USE DEF Undefined
<1>2. CASE WorkerCheck
  <2>1. worker = "check" /\ worker' = "done"
    BY <1>2 DEF WorkerCheck, Stopping
  <2> QED
    BY <2>1 DEF StopLeft
<1>3. CASE Select \/ Timeout
  <2>1. worker = "select" /\ worker' \in {"receive", "check"}
    BY <1>3 DEF Select, Timeout
  <2> QED
    BY <2>1 DEF StopLeft
<1>4. CASE RecvFrom
  <2>1. worker = "receive" /\ worker' \in {"handle", "check", "blocked"} /\ board' = 1
    BY <1>4 DEF RecvFrom
  <2> QED
    BY <1>1, <2>1 DEF StopLeft
<1>5. CASE NextBoard
  <2>1. /\ worker = "handle" /\ board >= 1
        /\ \/ worker' = "check"
           \/ worker' = "handle" /\ board' = board + 1
    BY <1>5 DEF NextBoard, BoardIsThere
  <2> QED
    BY <1>1, <2>1 DEF StopLeft
<1>6. CASE Analyze
  <2>1. worker = "handle" /\ worker' = "decoded" /\ board' = board
    BY <1>6 DEF Analyze
  <2> QED
    BY <1>1, <2>1 DEF StopLeft
<1>7. CASE StoreFirst
  <2>1. worker = "decoded" /\ worker' = "store" /\ board' = board
    BY <1>7 DEF StoreFirst
  <2> QED
    BY <1>1, <2>1 DEF StopLeft
<1>8. CASE StoreLast
  <2>1. worker = "store" /\ worker' = "handle" /\ board' = board + 1
    BY <1>8 DEF StoreLast
  <2> QED
    BY <1>1, <2>1 DEF StopLeft
<1> QED
  BY <1>2, <1>3, <1>4, <1>5, <1>6, <1>7, <1>8 DEF WorkerStep

(* The others leave the receiving thread where it is. *)
LEMMA OthersKeepWorker ==
    ASSUME TypeOK, Stopping, [Next]_vars, ~(WorkerStep \/ StoreFirst)
    PROVE  UNCHANGED <<worker, board>>
<1> USE DEF receiver, sensor, Undefined, Stopping
<1>1. ASSUME NEW found \in BOOLEAN, Open(found) PROVE UNCHANGED <<worker, board>>
  BY <1>1 DEF Open
<1>2. CASE Socket \/ Bind \/ ConnectAll \/ BuildSensor \/ StartRecvThread
  BY <1>2 DEF Socket, Bind, ConnectAll, BuildSensor, StartRecvThread
<1>3. CASE Close \/ EndProgram \/ StopRecvThread \/ Join
  BY <1>3 DEF Close, EndProgram, StopRecvThread, Join
<1>4. ASSUME NEW sender \in {"board", "other"}, Arrive(sender) PROVE UNCHANGED <<worker, board>>
  BY <1>4 DEF Arrive
<1>5. ASSUME NEW r \in Readers, ReadBegin(r) \/ CopyFirst(r) \/ CopyLast(r)
      PROVE  UNCHANGED <<worker, board>>
  BY <1>5 DEF ReadBegin, CopyFirst, CopyLast
<1>6. ASSUME NEW r \in Readers, AssignFirst(r) \/ Return(r) PROVE UNCHANGED <<worker, board>>
  BY <1>6 DEF AssignFirst, Return
<1>7. CASE UNCHANGED vars
  BY <1>7 DEF vars
<1> QED
  BY Steps, <1>1, <1>2, <1>3, <1>4, <1>5, <1>6, <1>7 DEF WorkerStep

(* Once it was told to stop, the receiving thread takes at most sixteen    *)
(* steps, whatever arrives meanwhile and whoever reads; it ends, unless    *)
(* it does something undefined or is blocked for good, which NeverBlocked  *)
(* excludes for a process with one board.                                  *)
THEOREM StopIsBounded ==
    Spec => [][Stopping =>
                 /\ StopLeft \in 1..16
                 /\ StopLeft' <= StopLeft \/ process' = "undefined"
                 /\ (WorkerStep \/ StoreFirst) /\ process' # "undefined"
                      => StopLeft' < StopLeft]_vars
<1>1. Inductive /\ [Next]_vars =>
        [Stopping =>
           /\ StopLeft \in 1..16
           /\ StopLeft' <= StopLeft \/ process' = "undefined"
           /\ (WorkerStep \/ StoreFirst) /\ process' # "undefined" => StopLeft' < StopLeft]_vars
  <2> SUFFICES ASSUME Inductive, [Next]_vars, Stopping
               PROVE  /\ StopLeft \in 1..16
                      /\ StopLeft' <= StopLeft \/ process' = "undefined"
                      /\ (WorkerStep \/ StoreFirst) /\ process' # "undefined"
                           => StopLeft' < StopLeft
    OBVIOUS
  <2>1. TypeOK /\ BoardIsThere /\ StopLeft \in 1..16
    BY StopLeftRange DEF Inductive, Receiving
  <2>2. CASE (WorkerStep \/ StoreFirst) /\ process' # "undefined"
    <3>1. StopLeft' < StopLeft
      BY <2>1, <2>2, WorkerEnds
    <3>2. StopLeft' \in Int
      <4>1. TypeOK'
        BY <2>1, TypeStep DEF Inductive
      <4>2. board' \in 0..5
        BY <4>1 DEF TypeOK, MAX_NUM_BOARDS
      <4> QED
        BY <4>2 DEF StopLeft, MAX_NUM_BOARDS
    <3> QED
      BY <2>1, <3>1, <3>2
  <2>3. CASE ~(WorkerStep \/ StoreFirst)
    <3>1. StopLeft' = StopLeft
      BY <2>1, <2>3, OthersKeepWorker DEF StopLeft
    <3> QED
      BY <2>1, <2>3, <3>1
  <2> QED
    BY <2>1, <2>2, <2>3
<1> QED
  BY InductiveInvariant, <1>1, PTL DEF Spec
=============================================================================
