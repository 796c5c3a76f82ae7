------------------------- MODULE FtShoeUdpWrapper -------------------------
(***************************************************************************)
(* The ftShoeUdpWrapper device (ftShoeUdpWrapper/ftShoeUdpWrapper.cpp): a  *)
(* periodic thread reads the wrenches and the time stamps of two attached  *)
(* shoes and sends them in one UDP packet.  The owner of the device calls  *)
(* attachAll(), detachAll() and close() while the thread runs; the shoes   *)
(* are also read by other clients.                                         *)
(*                                                                         *)
(* A shoe stamps its output whenever it is read, so a reading is modelled  *)
(* by the time it was taken at; the mean of two times by their sum.  Times *)
(* count from long before the program, and a packet holds floats, which    *)
(* are too coarse for them: the clock does not start at 0 and Float says   *)
(* what static_cast<float> makes of a time.  A pointer is modelled by the  *)
(* number of the attachAll() that set it, 0 for nullptr; the same two      *)
(* shoes are attached every time.                                          *)
(***************************************************************************)
EXTENDS Integers

CONSTANTS StartTime,        \* the time at which the shoes were constructed
          Float,            \* the float a time, doubled like the means, is rounded to
          MaxTime,          \* bound: the clock stops there
          MaxAttachments,   \* bound: calls of attachAll() that attach something
          MaxCloses         \* bound: calls of close()

(* The mean times and their differences. *)
Doubles == -(2 * MaxTime)..(2 * MaxTime)

ASSUME MaxTimeAssumption == MaxTime \in Nat
ASSUME StartTimeAssumption == StartTime \in 1..MaxTime
(* Rounding to the nearest float keeps the order, and 0 is a float. *)
ASSUME FloatAssumption ==
    /\ Float \in [Doubles -> Int]
    /\ Float[0] = 0
    /\ \A a, b \in Doubles : a <= b => Float[a] <= Float[b]
ASSUME MaxAttachmentsAssumption == MaxAttachments \in Nat
ASSUME MaxClosesAssumption == MaxCloses \in Nat

Shoes == {1, 2}
Times == 0..MaxTime
Means == 0..(2 * MaxTime)
Pointers == 0..MaxAttachments

VARIABLES
    crash,      \* why the process ended, or "no"
    now,        \* the clock
    stamp,      \* per shoe: its getLastInputStamp()
    socket,     \* m_socket: "null" until open(), then "open" or "closed"
    closes,     \* calls of close()
    attachments,\* calls of attachAll() that attached something
    sensor,     \* per shoe: m_i_shoeSensor
    timed,      \* per shoe: m_i_shoeTimestamps
    attaching,  \* attachAll() has attached the shoes, start() comes next
    detached,   \* detachAll() was called
    running,    \* the thread was started
    mutex,      \* run() holds m_mutex
    pc,         \* where run() is
    taken,      \* per shoe: m_i_timestamp
    data,       \* per shoe: when the reading in m_i_sensorData was taken
    used,       \* the pointers the current or last run() dereferenced
    initial,    \* m_initialTimestamp
    outcome,    \* how the last run() ended
    packet      \* the last packet sent

deviceVars == <<attachments, sensor, timed, attaching, detached, running>>
runVars == <<mutex, pc, taken, data, used, initial, outcome, packet>>
vars == <<crash, now, stamp, socket, closes, deviceVars, runVars>>

Reading == {"firstStamp", "secondStamp", "firstData", "secondData"}

Packets == [abs : Int, rel : Int, taken : [Shoes -> Times], data : [Shoes -> Times],
            used : SUBSET Pointers]

TypeOK ==
    /\ crash \in {"no", "nullPointer", "closedSocket"}
    /\ now \in Times
    /\ stamp \in [Shoes -> Times]
    /\ socket \in {"null", "open", "closed"}
    /\ closes \in 0..MaxCloses
    /\ attachments \in Pointers
    /\ sensor \in [Shoes -> Pointers]
    /\ timed \in [Shoes -> Pointers]
    /\ attaching \in BOOLEAN
    /\ detached \in BOOLEAN
    /\ running \in BOOLEAN
    /\ mutex \in BOOLEAN
    /\ pc \in {"idle", "check", "send"} \cup Reading
    /\ taken \in [Shoes -> Times]
    /\ data \in [Shoes -> Times]
    /\ used \in SUBSET Pointers
    /\ initial \in Means
    /\ outcome \in {"none", "sent", "gaveUp"}
    /\ packet \in Packets

(* The device as its constructor leaves it, and two shoes, whose           *)
(* constructor takes their first stamp.                                    *)
Init ==
    /\ crash = "no"
    /\ now = StartTime
    /\ stamp = [s \in Shoes |-> StartTime]
    /\ socket = "null" /\ closes = 0
    /\ attachments = 0
    /\ sensor = [s \in Shoes |-> 0]
    /\ timed = [s \in Shoes |-> 0]
    /\ attaching = FALSE /\ detached = FALSE /\ running = FALSE
    /\ mutex = FALSE
    /\ pc = "idle"
    /\ taken = [s \in Shoes |-> 0]
    /\ data = [s \in Shoes |-> 0]
    /\ used = {}
    /\ initial = 0
    /\ outcome = "none"
    /\ packet = [abs |-> 0, rel |-> 0, taken |-> taken, data |-> data, used |-> {}]

-----------------------------------------------------------------------------
(* The surroundings *)

Tick ==
    /\ now < MaxTime
    /\ now' = now + 1
    /\ UNCHANGED <<crash, stamp, socket, closes, deviceVars, runVars>>

(* Another client reads shoe s: the shoe's read() updates its stamp. *)
ClientReads(s) ==
    /\ stamp' = [stamp EXCEPT ![s] = now]
    /\ UNCHANGED <<crash, now, socket, closes, deviceVars, runVars>>

-----------------------------------------------------------------------------
(* The owner *)

NoMutex == TRUE
MutexFree == ~mutex

(* open() succeeds; the owner drops a device that it cannot open. *)
Open ==
    /\ socket = "null"
    /\ socket' = "open"
    /\ UNCHANGED <<crash, now, stamp, closes, deviceVars, runVars>>

(* close() closes the socket.  It takes no mutex and leaves the thread be. *)
Close ==
    /\ socket # "null"
    /\ closes < MaxCloses
    /\ socket' = "closed"
    /\ closes' = closes + 1
    /\ UNCHANGED <<crash, now, stamp, deviceVars, runVars>>

(* What a device offers to attachAll(): no sensor interface, a sensor      *)
(* without time stamps, or both, as a shoe does.                           *)
Offers == {"nothing", "untimed", "shoe"}

Refused(s, offer) == sensor[s] # 0 \/ offer # "shoe"

SensorAfter(s, offer, n) == IF sensor[s] = 0 /\ offer # "nothing" THEN n ELSE sensor[s]

TimedAfter(s, offer, n) ==
    IF sensor[s] # 0 \/ offer = "nothing" THEN timed[s] ELSE IF offer = "shoe" THEN n ELSE 0

FirstOnly(first, second) == Refused(1, first)
AnyRefused(first, second) == Refused(1, first) \/ Refused(2, second)

(* attachAll() up to the end of its critical section: what was attached    *)
(* before the first refusal stays attached.                                *)
AttachShoes(first, second) ==
    /\ socket # "null" /\ ~attaching
    /\ MutexFree
    /\ attachments < MaxAttachments
    /\ LET n == attachments + 1
       IN /\ sensor' = [s \in Shoes |->
                           IF s = 1 THEN SensorAfter(1, first, n)
                           ELSE IF Refused(1, first) THEN sensor[2]
                           ELSE SensorAfter(2, second, n)]
          /\ timed' = [s \in Shoes |->
                          IF s = 1 THEN TimedAfter(1, first, n)
                          ELSE IF Refused(1, first) THEN timed[2]
                          ELSE TimedAfter(2, second, n)]
          /\ attachments' = IF sensor' = sensor THEN attachments ELSE n
    /\ attaching' = ~AnyRefused(first, second)
    /\ UNCHANGED <<crash, now, stamp, socket, closes, detached, running, runVars>>

(* start() joins a thread that still runs, between two calls of run(), and *)
(* starts a new one.  attachAll() returns true: both statuses are AS_OK.   *)
StartPublisher ==
    /\ attaching
    /\ running => pc = "idle"
    /\ running' \in BOOLEAN
    /\ attaching' = FALSE
    /\ UNCHANGED <<crash, now, stamp, socket, closes, attachments, sensor, timed,
                   detached, runVars>>

(* detachAll() leaves the thread running and m_2_shoeTimestamps set. *)
DetachAll ==
    /\ ~attaching
    /\ MutexFree
    /\ sensor' = [s \in Shoes |-> 0]
    /\ timed' = [timed EXCEPT ![1] = 0]
    /\ detached' = TRUE
    /\ UNCHANGED <<crash, now, stamp, socket, closes, attachments, attaching, running,
                   runVars>>

-----------------------------------------------------------------------------
(* run() *)

RunBegin ==
    /\ running
    /\ pc = "idle"
    /\ pc' = "firstStamp"
    /\ mutex' = TRUE
    /\ used' = {}
    /\ UNCHANGED <<crash, now, stamp, socket, closes, deviceVars, taken, data, initial,
                   outcome, packet>>

(* run() dereferences a null pointer: the process crashes. *)
Dereferences ==
    \/ pc = "firstStamp" /\ timed[1] = 0
    \/ pc = "secondStamp" /\ timed[2] = 0
    \/ pc = "firstData" /\ sensor[1] = 0
    \/ pc = "secondData" /\ sensor[2] = 0

NullPointer ==
    /\ Dereferences
    /\ crash' = "nullPointer"
    /\ UNCHANGED <<now, stamp, socket, closes, deviceVars, runVars>>

TakeStamp(s) == taken' = [taken EXCEPT ![s] = stamp[s]] /\ used' = used \cup {timed[s]}

FirstStamp ==
    /\ pc = "firstStamp" /\ timed[1] # 0
    /\ TakeStamp(1)
    /\ pc' = "secondStamp"
    /\ UNCHANGED <<crash, now, stamp, socket, closes, deviceVars, mutex, data, initial,
                   outcome, packet>>

SecondStamp ==
    /\ pc = "secondStamp" /\ timed[2] # 0
    /\ TakeStamp(2)
    /\ pc' = "firstData"
    /\ UNCHANGED <<crash, now, stamp, socket, closes, deviceVars, mutex, data, initial,
                   outcome, packet>>

(* A shoe's read() stamps what it returns.  A bad status is only logged. *)
ReadShoe(s) ==
    /\ data' = [data EXCEPT ![s] = now]
    /\ stamp' = [stamp EXCEPT ![s] = now]
    /\ used' = used \cup {sensor[s]}

FirstData ==
    /\ pc = "firstData" /\ sensor[1] # 0
    /\ ReadShoe(1)
    /\ pc' = "secondData"
    /\ UNCHANGED <<crash, now, socket, closes, deviceVars, mutex, taken, initial, outcome, packet>>

AccumulateInitial(mean) == initial' = initial + mean
ClockInitial(mean) == initial' = IF initial = 0 THEN 2 * now ELSE initial
PreviousInitial(mean) == initial' = packet.abs
KeepInitial(mean) == initial' = IF initial = 0 THEN mean ELSE initial

(* The second reading ends the critical section; then run() sets the       *)
(* initial time unless it has one.                                         *)
SecondData ==
    /\ pc = "secondData" /\ sensor[2] # 0
    /\ ReadShoe(2)
    /\ mutex' = FALSE
    /\ KeepInitial(taken[1] + taken[2])
    /\ pc' = "check"
    /\ UNCHANGED <<crash, now, socket, closes, deviceVars, taken, outcome, packet>>

SocketIsOpen ==
    /\ pc = "check"
    /\ socket = "open"
    /\ pc' = "send"
    /\ UNCHANGED <<crash, now, stamp, socket, closes, deviceVars, mutex, taken, data, used, initial,
                   outcome, packet>>

GiveUpForGood ==
    /\ pc = "check"
    /\ socket = "closed"
    /\ pc' = "idle"
    /\ outcome' = "gaveUp"
    /\ UNCHANGED <<crash, now, stamp, socket, closes, deviceVars, mutex, taken, data, used, initial,
                   packet>>

(* A closed socket is opened again.  If that works, run() logs that it     *)
(* failed and returns without sending ...                                  *)
Reopen ==
    /\ pc = "check"
    /\ socket = "closed"
    /\ socket' = "open"
    /\ pc' = "idle"
    /\ outcome' = "gaveUp"
    /\ UNCHANGED <<crash, now, stamp, closes, deviceVars, mutex, taken, data, used, initial, packet>>

(* ... and if it does not work, run() goes on to send. *)
ReopenFails ==
    /\ pc = "check"
    /\ socket = "closed"
    /\ pc' = "send"
    /\ UNCHANGED <<crash, now, stamp, socket, closes, deviceVars, mutex, taken, data, used, initial,
                   outcome, packet>>

(* Both times are narrowed to floats. *)
Send ==
    /\ pc = "send"
    /\ socket = "open"
    /\ packet' = [abs |-> Float[taken[1] + taken[2]], rel |-> Float[(taken[1] + taken[2]) - initial],
                  taken |-> taken, data |-> data, used |-> used]
    /\ outcome' = "sent"
    /\ pc' = "idle"
    /\ UNCHANGED <<crash, now, stamp, socket, closes, deviceVars, mutex, taken, data, used, initial>>

(* send_to() without an error code throws and run() does not catch. *)
SendThrows ==
    /\ pc = "send"
    /\ socket = "closed"
    /\ crash' = "closedSocket"
    /\ UNCHANGED <<now, stamp, socket, closes, deviceVars, runVars>>

RunStep ==
    \/ RunBegin
    \/ NullPointer \/ FirstStamp \/ SecondStamp \/ FirstData \/ SecondData
    \/ SocketIsOpen \/ Reopen \/ ReopenFails \/ Send \/ SendThrows

-----------------------------------------------------------------------------
Alive == crash = "no"

Crashed == ~Alive /\ UNCHANGED vars

Next ==
    \/ Alive /\ \/ Tick \/ \E s \in Shoes : ClientReads(s)
                \/ Open \/ Close
                \/ \E first, second \in Offers : AttachShoes(first, second)
                \/ StartPublisher \/ DetachAll
                \/ RunStep
    \/ Crashed

Spec == Init /\ [][Next]_vars

(* The periodic thread is scheduled.  (It takes the mutex only from        *)
(* callers that hold it for a bounded time.)                               *)
FairSpec == Spec /\ WF_vars(Alive /\ RunStep)

-----------------------------------------------------------------------------
(* Properties *)

(* "Mutex to avoid race conditions": the stamps and the readings of one    *)
(* packet come from one attachAll(), however the owner detaches, fails to  *)
(* attach and attaches while the thread runs, and although detachAll()     *)
(* forgets to clear m_2_shoeTimestamps (ftShoeUdpWrapper.h:42,             *)
(* ftShoeUdpWrapper.cpp:132-152, 166-174, 195-212).                        *)
OneAttachmentPerPacket == \A a, b \in packet.used : a = b

(* The process outlives everything but detachAll() and close() while the   *)
(* thread runs: no failed or partial attachAll() makes run() meet a null   *)
(* pointer, and no socket is lost (ftShoeUdpWrapper.cpp:133-157, 198-251). *)
OnlyOwnerEndsPublication ==
    /\ crash = "nullPointer" => detached
    /\ crash = "closedSocket" => closes > 0

(* The stamps of a packet are never newer than its readings.  The time it  *)
(* carries is rounded to a float and may be ahead of them, but never of    *)
(* what the readings' own time is rounded to; and the relative time is     *)
(* neither negative nor above the absolute one, rounded as both are        *)
(* (ftShoeUdpWrapper.cpp:198-230).                                         *)
PacketNotNewerThanReadings ==
    /\ \A s \in Shoes : packet.taken[s] <= packet.data[s]
    /\ packet.abs <= Float[packet.data[1] + packet.data[2]]
    /\ packet.abs >= packet.rel /\ packet.rel >= 0

(* Both times of the packets only grow, over re-attached shoes, a closed   *)
(* socket, other readers of the shoes and the rounding to floats: the      *)
(* receiver can order packets by either (ftShoeUdpWrapper.cpp:214-224).    *)
PacketTimesNeverGoBack ==
    [][ packet'.abs >= packet.abs /\ packet'.rel >= packet.rel ]_vars

(* "The socket was closed externally. Trying to reopen it": the run that   *)
(* finds it closed sends nothing, but while the thread runs a later one    *)
(* sends again (ftShoeUdpWrapper.cpp:236-251).                             *)
PublicationResumes ==
    outcome = "gaveUp" ~> (outcome = "sent" \/ ~Alive \/ ~running)

(* "Failed to open udp socket": run() reports it and gives up only if the  *)
(* socket could not be reopened (ftShoeUdpWrapper.cpp:241-244).            *)
GivesUpOnlyIfReopeningFails ==
    [][ (pc = "check" /\ outcome' = "gaveUp" /\ pc' = "idle") => socket' # "open" ]_vars
=============================================================================
