----------------------------- MODULE AmeService -----------------------------
(***************************************************************************)
(* An AME force/torque device in one process (AME/amedriver.cpp): the      *)
(* static EthInterfaceManager with its board table, its UDP socket and its *)
(* receiving thread (AME/ethService.cpp), the FtSensorNew whose handler    *)
(* that thread calls (AME/ftSensorNew.cpp), and the device's read().       *)
(*                                                                         *)
(* A datagram is its number in the order of arrival; the six values of a   *)
(* wrench are represented by the first and the last that is copied.  Once  *)
(* something undefined has been done, `process' is "undefined" for good.   *)
(***************************************************************************)
EXTENDS Integers, Sequences, FiniteSets

CONSTANTS Readers,       \* threads that call read()
          MaxDatagrams,  \* bound: datagrams that arrive
          QueueLength,   \* bound: datagrams the socket holds
          MaxOpens       \* bound: calls of open()

ASSUME BoundsAssumption ==
    MaxDatagrams \in Nat /\ QueueLength \in Nat /\ MaxOpens \in Nat
ASSUME ReadersAssumption == {"free", "worker"} \cap Readers = {}

MAX_NUM_BOARDS == 4

VARIABLES
    process,     \* "running", "exiting" in exit(), "exited", "undefined"
    owner,       \* the thread that opens and closes: where it is in open()
    opens,       \* calls of open() so far
    boards,      \* numConfiguredBoards
    handler,     \* per board: the sensor whose handler is installed, 0: none
    sockId,      \* the socket sockId denotes: "none", "unbound", "bound", "closed"
    portTaken,   \* a socket of this process is bound to the port
    queue,       \* datagrams the bound socket holds
    arrived,     \* senders of the datagrams that arrived so far
    continuing,  \* continuing
    worker,      \* where the receiving thread is, "none" before it is started
    board,       \* the board whose handlers recvUdp() calls
    cbUdpRec,    \* the datagram in the receive buffer
    decoded,     \* the datagram in the static message of analyzePacketSensor()
    sensors,     \* FtSensorNew objects that are alive
    ft,          \* the device's sensor, 0: null
    sample,      \* Fx ... Tz of the sensor
    mutex,       \* who holds sensor_mutex
    reading,     \* m_sensorReadings
    reader       \* per thread: where it is in read() and what it got

manager == <<boards, handler, sockId, portTaken, continuing>>
network == <<queue, arrived>>
receiver == <<worker, board, cbUdpRec, decoded>>
sensor == <<sensors, ft>>
data == <<sample, mutex>>
clients == <<reading, reader>>
vars == <<process, owner, opens, manager, network, receiver, sensor, data, clients>>

Numbers == 0..MaxDatagrams
Wrenches == [first : Numbers, last : Numbers]
NoWrench == [first |-> 0, last |-> 0]

(* alone: no other read() overlapped this one; since: the sample that was   *)
(* complete when it began; got: what getFTData() copied; out: what read()   *)
(* returned.                                                                *)
NotReading == [at |-> "idle", alone |-> FALSE, since |-> 0, got |-> NoWrench, out |-> NoWrench]

Init ==
    /\ process = "running" /\ owner = "idle" /\ opens = 0
    /\ boards = 0 /\ handler = [b \in 1..MAX_NUM_BOARDS |-> 0]
    /\ sockId = "none" /\ portTaken = FALSE /\ continuing = TRUE
    /\ queue = <<>> /\ arrived = <<>>
    /\ worker = "none" /\ board = 0 /\ cbUdpRec = 0 /\ decoded = 0
    /\ sensors = {} /\ ft = 0
    /\ sample = NoWrench /\ mutex = "free"
    /\ reading = NoWrench /\ reader = [r \in Readers |-> NotReading]

Alive == process \in {"running", "exiting"}

(* Something undefined happens: nothing is known from here on. *)
Undefined ==
    /\ process' = "undefined"
    /\ UNCHANGED <<owner, opens, manager, network, receiver, sensor, data, clients>>

-----------------------------------------------------------------------------
(* open() and connectSensor(). *)

(* Mutant: the result of addBoard() is not looked at. *)
OpenUnchecked(found) ==
    /\ process = "running" /\ owner = "idle" /\ opens < MaxOpens
    /\ opens' = opens + 1 /\ owner' = "socket"
    /\ boards' = IF found THEN boards + 1 ELSE boards
    /\ UNCHANGED <<process, handler, sockId, portTaken, continuing, network, receiver, sensor,
                   data, clients>>

(* searchAddressOnList() finds no address of this computer, or addBoard(). *)
Open(found) ==
    /\ process = "running" /\ owner = "idle" /\ opens < MaxOpens
    /\ opens' = opens + 1
    /\ IF found THEN /\ owner' = "socket"
                     /\ boards' = IF boards >= MAX_NUM_BOARDS THEN boards ELSE boards + 1
                ELSE UNCHANGED <<owner, boards>>
    /\ UNCHANGED <<process, handler, sockId, portTaken, continuing, network, receiver, sensor,
                   data, clients>>

(* bind(), first half: sockId denotes a new socket from here on. *)
Socket ==
    /\ process = "running" /\ owner = "socket"
    /\ sockId' = "unbound"
    /\ owner' = "bind"
    /\ UNCHANGED <<process, opens, boards, handler, portTaken, continuing, network, receiver,
                   sensor, data, clients>>

(* Mutant: a bind() that fails makes open() return. *)
BindReturns ==
    /\ process = "running" /\ owner = "bind"
    /\ IF portTaken THEN sockId' = "closed" /\ owner' = "idle"
                    ELSE sockId' = "bound" /\ owner' = "connect"
    /\ portTaken' = TRUE
    /\ UNCHANGED <<process, opens, boards, handler, continuing, network, receiver, sensor, data,
                   clients>>

(* bind(), second half.  The port may be taken by this process, which never *)
(* closes the socket of an earlier open(), or by another one: exit(-1).  A  *)
(* setsockopt() that fails leaves the socket open.                          *)
Bind ==
    /\ process = "running" /\ owner = "bind"
    /\ \/ /\ ~portTaken
          /\ sockId' = "bound" /\ portTaken' = TRUE /\ owner' = "connect"
          /\ UNCHANGED process
       \/ /\ sockId' \in {sockId, "closed"} /\ process' = "exiting"
          /\ UNCHANGED <<portTaken, owner>>
    /\ UNCHANGED <<opens, boards, handler, continuing, network, receiver, sensor, data, clients>>

(* The TCP connections of all boards; exit(-1) if one fails. *)
ConnectAll ==
    /\ process = "running" /\ owner = "connect"
    /\ \/ owner' = "build" /\ UNCHANGED process
       \/ process' = "exiting" /\ UNCHANGED owner
    /\ UNCHANGED <<opens, manager, network, receiver, sensor, data, clients>>

(* FtSensorNew's constructor installs its handler on the new board. *)
BuildSensor ==
    /\ process = "running" /\ owner = "build"
    /\ sensors' = sensors \cup {opens}
    /\ handler' = [handler EXCEPT ![boards] = opens]
    /\ owner' = "start"
    /\ UNCHANGED <<process, opens, boards, sockId, portTaken, continuing, network, receiver, ft,
                   data, clients>>

(* Mutant: the sensor is returned by value, its handler keeps the address *)
(* of the original.                                                       *)
ReturnCopy ==
    /\ process = "running" /\ owner = "start" /\ worker = "none"
    /\ worker' = "check" /\ ft' = opens /\ sensors' = {} /\ owner' = "idle"
    /\ UNCHANGED <<process, opens, manager, network, board, cbUdpRec, decoded, data, clients>>

(* startRecvThread(): assigning to a thread that still runs terminates the  *)
(* process.  The assignment to ft destroys the sensor of an earlier open(). *)
StartRecvThread ==
    /\ process = "running" /\ owner = "start"
    /\ IF worker # "none" THEN Undefined
       ELSE /\ worker' = "check" /\ ft' = opens /\ sensors' = {opens} /\ owner' = "idle"
            /\ UNCHANGED <<process, opens, manager, network, board, cbUdpRec, decoded, data,
                           clients>>

-----------------------------------------------------------------------------
(* close() stops the stream and destroys the sensor: the handler, the socket *)
(* and the receiving thread stay.  On a device that is not open ft is null.  *)
Close ==
    /\ process = "running" /\ owner = "idle" /\ opens > 0
    /\ IF ft = 0 THEN Undefined
       ELSE /\ ft' = 0 /\ sensors' = {}
            /\ UNCHANGED <<process, owner, opens, manager, network, receiver, data, clients>>

(* The program ends: the device is destroyed, then the static manager. *)
EndProgram ==
    /\ process = "running" /\ owner = "idle"
    /\ process' = "exiting" /\ ft' = 0 /\ sensors' = {}
    /\ UNCHANGED <<owner, opens, manager, network, receiver, data, clients>>

(* The manager's destructor: stopRecvThread(), first its request ... *)
StopRecvThread ==
    /\ process = "exiting" /\ continuing
    /\ continuing' = FALSE
    /\ UNCHANGED <<process, owner, opens, boards, handler, sockId, portTaken, network, receiver,
                   sensor, data, clients>>

(* ... then the join; the socket is closed. *)
Join ==
    /\ process = "exiting" /\ ~continuing /\ worker \in {"none", "done"}
    /\ process' = "exited" /\ sockId' = "closed"
    /\ UNCHANGED <<owner, opens, boards, handler, portTaken, continuing, network, receiver,
                   sensor, data, clients>>

-----------------------------------------------------------------------------
(* A datagram arrives; what the socket cannot hold is lost. *)
Arrive(sender) ==
    /\ Alive /\ portTaken /\ Len(arrived) < MaxDatagrams
    /\ Len(queue) < QueueLength
    /\ arrived' = Append(arrived, sender)
    /\ queue' = Append(queue, Len(arrived) + 1)
    /\ UNCHANGED <<process, owner, opens, manager, receiver, sensor, data, clients>>

(* worker(): the receiving thread, between two calls of recvUdp(). *)
WorkerCheck ==
    /\ Alive /\ worker = "check"
    /\ worker' = IF continuing THEN "select" ELSE "done"
    /\ UNCHANGED <<process, owner, opens, manager, network, board, cbUdpRec, decoded, sensor,
                   data, clients>>

(* select() reports a datagram. *)
Select ==
    /\ Alive /\ worker = "select" /\ sockId = "bound" /\ queue # <<>>
    /\ worker' = "receive"
    /\ UNCHANGED <<process, owner, opens, manager, network, board, cbUdpRec, decoded, sensor,
                   data, clients>>

(* Mutant: the loop is not left when select() times out. *)
TimeoutAgain ==
    /\ Alive /\ worker = "select" /\ (sockId # "bound" \/ queue = <<>>)
    /\ UNCHANGED vars

(* Mutant: a select() that times out ends the receiving thread. *)
TimeoutEnds ==
    /\ Alive /\ worker = "select" /\ (sockId # "bound" \/ queue = <<>>)
    /\ worker' = "done"
    /\ UNCHANGED <<process, owner, opens, manager, network, board, cbUdpRec, decoded, sensor,
                   data, clients>>

(* select() times out.  No handler is ever installed for that.  FD_SET of a *)
(* socket that could not be made is undefined.                              *)
Timeout ==
    /\ Alive /\ worker = "select" /\ (sockId # "bound" \/ queue = <<>>)
    /\ \/ /\ worker' = "check"
          /\ UNCHANGED <<process, owner, opens, manager, network, board, cbUdpRec, decoded,
                         sensor, data, clients>>
       \/ sockId = "closed" /\ Undefined

(* recvfrom() on whatever sockId denotes by now.  On an unbound socket it   *)
(* never returns, also when the socket is closed; a closed one gives        *)
(* nothing and the sender's address compared next was never written.        *)
RecvFrom ==
    /\ Alive /\ worker = "receive"
    /\ \/ /\ sockId = "bound"
          /\ cbUdpRec' = Head(queue) /\ queue' = Tail(queue)
          /\ worker' = IF arrived[Head(queue)] = "board" THEN "handle" ELSE "check"
       \/ /\ sockId = "unbound"
          /\ worker' = "blocked"
          /\ UNCHANGED <<cbUdpRec, queue>>
       \/ /\ sockId = "closed"
          /\ worker' \in {"handle", "check"}
          /\ UNCHANGED <<cbUdpRec, queue>>
    /\ board' = 1
    /\ UNCHANGED <<process, owner, opens, manager, arrived, decoded, sensor, data, clients>>

(* The boards whose address is the sender's, one after the other; all boards *)
(* of the device have the one address.                                       *)
NextBoard ==
    /\ Alive /\ worker = "handle"
    /\ IF board > boards THEN worker' = "check" /\ UNCHANGED board
       ELSE handler[board] = 0 /\ board' = board + 1 /\ UNCHANGED worker
    /\ UNCHANGED <<process, owner, opens, manager, network, cbUdpRec, decoded, sensor, data,
                   clients>>

(* The handler may belong to a sensor that was destroyed. *)
Handled == board \in 1..boards /\ handler[board] # 0

(* analyzePacketSensor(): decode into the static message. *)
Analyze ==
    /\ Alive /\ worker = "handle" /\ Handled
    /\ IF handler[board] \notin sensors THEN Undefined
       ELSE /\ decoded' = cbUdpRec /\ worker' = "decoded"
            /\ UNCHANGED <<process, owner, opens, manager, network, board, cbUdpRec, sensor,
                           data, clients>>

(* The values are copied under sensor_mutex. *)
StoreFirst ==
    /\ Alive /\ worker = "decoded"
    /\ IF handler[board] \notin sensors THEN Undefined
       ELSE /\ mutex = "free" /\ mutex' = "worker"
            /\ sample' = [sample EXCEPT !.first = decoded]
            /\ worker' = "store"
            /\ UNCHANGED <<process, owner, opens, manager, network, board, cbUdpRec, decoded,
                           sensor, clients>>

StoreLast ==
    /\ Alive /\ worker = "store"
    /\ IF handler[board] \notin sensors THEN Undefined
       ELSE /\ mutex' = "free"
            /\ sample' = [sample EXCEPT !.last = decoded]
            /\ worker' = "handle" /\ board' = board + 1
            /\ UNCHANGED <<process, owner, opens, manager, network, cbUdpRec, decoded, sensor,
                           clients>>

-----------------------------------------------------------------------------
(* read() of an open device: no lock but the sensor's. *)
ReadBegin(r) ==
    /\ process = "running" /\ owner = "idle" /\ ft # 0 /\ reader[r].at = "idle"
    /\ reader' = [q \in Readers |->
                    IF q = r THEN [NotReading EXCEPT !.at = "lock", !.since = sample.last,
                                     !.alone = \A p \in Readers \ {r} : reader[p].at = "idle"]
                    ELSE IF reader[q].at = "idle" THEN reader[q]
                    ELSE [reader[q] EXCEPT !.alone = FALSE]]
    /\ UNCHANGED <<process, owner, opens, manager, network, receiver, sensor, data, reading>>

(* Mutant: getFTData() does not lock. *)
CopyUnlocked(r) ==
    /\ Alive /\ reader[r].at = "lock" /\ ft # 0
    /\ reader' = [reader EXCEPT ![r].at = "copy", ![r].got.first = sample.first]
    /\ UNCHANGED <<process, owner, opens, manager, network, receiver, sensor, data, reading>>

(* getFTData(), on a sensor that close() may have destroyed. *)
CopyFirst(r) ==
    /\ Alive /\ reader[r].at = "lock"
    /\ IF ft \notin sensors THEN Undefined
       ELSE /\ mutex = "free" /\ mutex' = r
            /\ reader' = [reader EXCEPT ![r].at = "copy", ![r].got.first = sample.first]
            /\ UNCHANGED <<process, owner, opens, manager, network, receiver, sensor, sample,
                           reading>>

CopyLast(r) ==
    /\ Alive /\ reader[r].at = "copy"
    /\ IF ft \notin sensors THEN Undefined
       ELSE /\ mutex' = "free"
            /\ reader' = [reader EXCEPT ![r].at = "assign", ![r].got.last = sample.last]
            /\ UNCHANGED <<process, owner, opens, manager, network, receiver, sensor, sample,
                           reading>>

(* The readings, shared by all threads, are assigned without a lock ... *)
AssignFirst(r) ==
    /\ Alive /\ reader[r].at = "assign"
    /\ reading' = [reading EXCEPT !.first = reader[r].got.first]
    /\ reader' = [reader EXCEPT ![r].at = "return"]
    /\ UNCHANGED <<process, owner, opens, manager, network, receiver, sensor, data>>

(* Mutant: the readings are returned before they are complete. *)
ReturnEarly(r) ==
    /\ Alive /\ reader[r].at = "return"
    /\ reading' = reader[r].got
    /\ reader' = [reader EXCEPT ![r].at = "idle", ![r].out = [first |-> reading.last,
                                                              last |-> reading.last]]
    /\ UNCHANGED <<process, owner, opens, manager, network, receiver, sensor, data>>

(* ... and returned. *)
Return(r) ==
    /\ Alive /\ reader[r].at = "return"
    /\ reading' = [reading EXCEPT !.last = reader[r].got.last]
    /\ reader' = [reader EXCEPT ![r].at = "idle", ![r].out = reading']
    /\ UNCHANGED <<process, owner, opens, manager, network, receiver, sensor, data>>

-----------------------------------------------------------------------------
(* Nothing moves in a process that has ended or is undefined, nor in one *)
(* that joins a receiving thread which is blocked for good.              *)
Ended ==
    /\ \/ process \in {"exited", "undefined"}
       \/ process = "exiting" /\ ~continuing /\ worker = "blocked"
    /\ UNCHANGED vars

OwnerStep == Socket \/ Bind \/ ConnectAll \/ BuildSensor \/ StartRecvThread

WorkerStep == WorkerCheck \/ Select \/ Timeout \/ RecvFrom \/ NextBoard \/ Analyze \/ StoreLast

ReaderStep(r) == CopyFirst(r) \/ CopyLast(r) \/ AssignFirst(r) \/ Return(r)

Next ==
    \/ \E found \in BOOLEAN : Open(found)
    \/ OwnerStep \/ Close \/ EndProgram \/ StopRecvThread \/ Join
    \/ \E sender \in {"board", "other"} : Arrive(sender)
    \/ WorkerStep \/ StoreFirst
    \/ \E r \in Readers : ReadBegin(r) \/ ReaderStep(r)
    \/ Ended

Spec == Init /\ [][Next]_vars

(* Threads that can run do; one that keeps finding sensor_mutex free gets it. *)
FairSpec ==
    /\ Spec
    /\ WF_vars(OwnerStep) /\ WF_vars(StopRecvThread) /\ WF_vars(Join)
    /\ WF_vars(WorkerStep) /\ SF_vars(StoreFirst)
    /\ \A r \in Readers : WF_vars(CopyLast(r))

-----------------------------------------------------------------------------
(* Every variable has its type. *)
TypeOK ==
    /\ process \in {"running", "exiting", "exited", "undefined"}
    /\ owner \in {"idle", "socket", "bind", "connect", "build", "start"}
    /\ opens \in 0..MaxOpens /\ boards \in 0..MAX_NUM_BOARDS
    /\ owner # "idle" => boards >= 1
    /\ handler \in [1..MAX_NUM_BOARDS -> 0..MaxOpens]
    /\ sockId \in {"none", "unbound", "bound", "closed"}
    /\ portTaken \in BOOLEAN /\ continuing \in BOOLEAN
    /\ arrived \in Seq({"board", "other"}) /\ Len(arrived) <= MaxDatagrams
    /\ queue \in Seq(1..MaxDatagrams)
    /\ worker \in {"none", "check", "select", "receive", "handle", "decoded", "store",
                  "blocked", "done"}
    /\ board \in 0..(MAX_NUM_BOARDS + 1)
    /\ cbUdpRec \in Numbers /\ decoded \in Numbers
    /\ sensors \subseteq 1..MaxOpens /\ ft \in 0..MaxOpens
    /\ sample \in Wrenches /\ mutex \in {"free", "worker"} \cup Readers
    /\ reading \in Wrenches
    /\ reader \in [Readers -> [at : {"idle", "lock", "copy", "assign", "return"},
                               alone : BOOLEAN, since : Numbers, got : Wrenches, out : Wrenches]]

(* A read() that no other overlaps returns the six values of one datagram *)
(* of the board, or the zeros of a sensor that received none.             *)
SoleReadingIsOneSample ==
    process = "running" =>
        \A r \in Readers : reader[r].at = "idle" /\ reader[r].alone =>
            /\ reader[r].out.first = reader[r].out.last
            /\ reader[r].out.last # 0 => arrived[reader[r].out.last] = "board"

(* ... and never values older than those complete when it began. *)
SoleReadingIsFresh ==
    \A r \in Readers : reader[r].at = "idle" /\ reader[r].alone =>
        reader[r].out.last >= reader[r].since

(* Outside of open(), a receiving thread listens on the bound socket and one *)
(* handler is installed: the second open() of a process that could leave two *)
(* sensors, or a thread without its socket, never returns.                   *)
OneReceiver ==
    process = "running" /\ owner = "idle" /\ worker # "none" =>
        /\ sockId = "bound"
        /\ Cardinality({b \in 1..MAX_NUM_BOARDS : handler[b] # 0}) = 1

(* Nothing undefined happens before the device is closed, unless it is opened *)
(* a second time: until then no handler and no read() meets a dead sensor.    *)
DefinedWhileOpen == process = "undefined" => ft = 0 \/ opens > 1

(* The destructor's join returns, as long as open() was not called again: *)
(* after a socket replaced the one the thread waits on, it need not.      *)
ExitReturns ==
    process = "exiting" /\ boards <= 1 ~> process \in {"exited", "undefined"}

(* A datagram of the board is published while the device stays open. *)
SamplePublished ==
    \A n \in 1..MaxDatagrams :
        (\E k \in DOMAIN queue : queue[k] = n) /\ arrived[n] = "board" /\ ft # 0 ~>
            sample.last >= n \/ ft = 0 \/ process # "running" \/ sockId # "bound"
=============================================================================
