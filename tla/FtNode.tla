------------------------------- MODULE FtNode -------------------------------
(***************************************************************************)
(* The ftnode device (ftNode/ftnodeDriver.cpp): a periodic thread receives *)
(* lines from a serial port, collects the force and the torque of each     *)
(* sensor in buffers of its own, and publishes a sensor's wrench under     *)
(* the mutex once both were updated.  Clients read all measurements under  *)
(* the same mutex.  The thread that owns the device attaches the serial    *)
(* device (which starts the periodic thread) and detaches it (which stops  *)
(* and joins it).                                                          *)
(*                                                                         *)
(* A component of a wrench is represented by the number of the line that   *)
(* carried it; 0 stands for the zeros of a buffer that was just resized.   *)
(***************************************************************************)
EXTENDS Integers

CONSTANTS NumSensors,   \* numberOfFTSensors of the configuration
          Readers,      \* threads that call read()
          Lines,        \* the well-formed lines the firmware may send
          MaxLines,     \* bound: well-formed lines in a behaviour
          Run,          \* the periodic thread, as an owner of the mutex
          Free          \* the owner of a mutex nobody holds

Sensors == 1..NumSensors

SubMsg == [source : Int, kind : Int]

ASSUME NumSensorsAssumption == NumSensors \in Nat \ {0}
ASSUME MaxLinesAssumption == MaxLines \in Nat
ASSUME LinesAssumption == Lines \subseteq [1..4 -> SubMsg]
ASSUME ThreadsAssumption == Run \notin Readers /\ Free \notin Readers /\ Run # Free

VARIABLES
    alive,        \* FALSE once an uncaught exception terminated the process
    owner,        \* the owning thread: "idle", or "stopping" inside detach()
    dev,          \* iSerialDevice # nullptr
    pc,           \* the periodic thread: see Phases
    closing,      \* stop() asked the periodic thread to end
    lineNo,       \* well-formed lines received so far
    forceBuf, torqueBuf,     \* serialPortWrenchDataVector[i].forceBuffer, .torqueBuffer
    forceFlag, torqueFlag,   \* serialPortWrenchDataVector[i].forceUpdateFlag, ...
    idx,          \* the sensor the publication loop of run() is at
    mutex,        \* who holds pImpl->mutex
    meas,         \* analogSensorData.measurements, by sensor
    rpos,         \* per reader: 0 outside read(), else the next sensor to copy
    copied,       \* per reader: its output vector while read() fills it
    result        \* per reader: the vector its last completed read() returned

ownerVars == <<owner, dev, closing>>
bufVars == <<forceBuf, torqueBuf, forceFlag, torqueFlag>>
readVars == <<rpos, copied, result>>
vars == <<alive, ownerVars, pc, lineNo, bufVars, idx, mutex, meas, readVars>>

Wrench == [force : 0..MaxLines, torque : 0..MaxLines]
Zero == [force |-> 0, torque |-> 0]
Zeros == [i \in Sensors |-> Zero]

(* "off": not running; "sleep": between two run(); "receive": in           *)
(* receiveLine; "publish": at the head of the publication loop; "writing": *)
(* in its critical section, the force copied and the torque not yet.       *)
Phases == {"off", "sleep", "receive", "publish", "writing"}

TypeOK ==
    /\ alive \in BOOLEAN
    /\ owner \in {"idle", "stopping"}
    /\ dev \in BOOLEAN
    /\ pc \in Phases
    /\ closing \in BOOLEAN
    /\ lineNo \in 0..MaxLines
    /\ forceBuf \in [Sensors -> 0..MaxLines]
    /\ torqueBuf \in [Sensors -> 0..MaxLines]
    /\ forceFlag \in [Sensors -> BOOLEAN]
    /\ torqueFlag \in [Sensors -> BOOLEAN]
    /\ idx \in Sensors
    /\ mutex \in Readers \cup {Run, Free}
    /\ meas \in [Sensors -> Wrench]
    /\ rpos \in [Readers -> 0..NumSensors + 1]
    /\ copied \in [Readers -> [Sensors -> Wrench]]
    /\ result \in [Readers -> [Sensors -> Wrench]]

(* The device as open() leaves it. *)
Init ==
    /\ alive = TRUE
    /\ owner = "idle"
    /\ dev = FALSE
    /\ pc = "off"
    /\ closing = FALSE
    /\ lineNo = 0
    /\ forceBuf = [i \in Sensors |-> 0]
    /\ torqueBuf = [i \in Sensors |-> 0]
    /\ forceFlag = [i \in Sensors |-> FALSE]
    /\ torqueFlag = [i \in Sensors |-> FALSE]
    /\ idx = 1
    /\ mutex = Free
    /\ meas = Zeros
    /\ rpos = [r \in Readers |-> 0]
    /\ copied = [r \in Readers |-> Zeros]
    /\ result = [r \in Readers |-> Zeros]

-----------------------------------------------------------------------------
(* What the threads wait for. *)

(* std::lock_guard: a thread enters when nobody holds the mutex. *)
NoMutex == TRUE
MutexFree == mutex = Free

(* stop() joins the periodic thread. *)
NoJoin == TRUE
Joined == pc = "off"

(* The periodic thread looks for a stop request between two run(). *)
StopRequested == closing

-----------------------------------------------------------------------------
(* The owning thread: attach(), attachAll(), detach(), detachAll(), close(). *)
(* An attach() that returns before `view' changes nothing.                   *)

(* The serial device is viewed, and start() succeeds or not; when it does  *)
(* not, iSerialDevice stays set.                                           *)
Attach ==
    /\ owner = "idle"
    /\ ~dev
    /\ dev' = TRUE
    /\ \/ pc' = "sleep" /\ closing' = FALSE
       \/ UNCHANGED <<pc, closing>>
    /\ UNCHANGED <<alive, owner, lineNo, bufVars, idx, mutex, meas, readVars>>

DetachWithoutStop ==
    /\ owner = "idle"
    /\ owner' = "stopping"
    /\ UNCHANGED <<alive, dev, pc, closing, lineNo, bufVars, idx, mutex, meas, readVars>>

(* while (isRunning()) stop(): the thread is asked to end. *)
DetachBegin ==
    /\ owner = "idle"
    /\ owner' = "stopping"
    /\ closing' = (pc # "off")
    /\ UNCHANGED <<alive, dev, pc, lineNo, bufVars, idx, mutex, meas, readVars>>

(* The thread is joined: the serial device is forgotten. *)
DetachEnd ==
    /\ owner = "stopping"
    /\ Joined
    /\ owner' = "idle"
    /\ dev' = FALSE
    /\ UNCHANGED <<alive, closing, pc, lineNo, bufVars, idx, mutex, meas, readVars>>

-----------------------------------------------------------------------------
(* The periodic thread. *)

Complete(i) == forceFlag[i] /\ torqueFlag[i]

Wake ==
    /\ pc = "sleep"
    /\ ~StopRequested
    /\ pc' = "receive"
    /\ UNCHANGED <<alive, ownerVars, lineNo, bufVars, idx, mutex, meas, readVars>>

Exit ==
    /\ pc = "sleep"
    /\ StopRequested
    /\ pc' = "off"
    /\ UNCHANGED <<alive, ownerVars, lineNo, bufVars, idx, mutex, meas, readVars>>

(* receiveLine() returned nothing, or a line that does not split into 32   *)
(* fields: the buffers stay as they are.                                   *)
ReceiveNothing ==
    /\ pc = "receive"
    /\ pc' = "publish"
    /\ idx' = 1
    /\ UNCHANGED <<alive, ownerVars, lineNo, bufVars, mutex, meas, readVars>>

(* The sensors a line holds a sub-message of kind k for: 1 is a force, 2 a *)
(* torque.  Sources above NumSensors are skipped.                          *)
Named(line, k) == {i \in Sensors : \E m \in 1..4 : line[m].source = i /\ line[m].kind = k}

(* at(wrenchSourceNumber-1) throws on a force or torque of a source below 1: *)
(* such a number comes from a field atof() could not read.                   *)
OutOfRange(line) == \E m \in 1..4 : line[m].source < 1 /\ line[m].kind \in {1, 2}

(* A line of 32 fields: each force and torque it holds replaces the one    *)
(* its sensor's buffer kept, and sets its flag.                            *)
Receive(line) ==
    /\ pc = "receive"
    /\ lineNo < MaxLines
    /\ ~OutOfRange(line)
    /\ lineNo' = lineNo + 1
    /\ forceBuf' = [i \in Sensors |-> IF i \in Named(line, 1) THEN lineNo + 1 ELSE forceBuf[i]]
    /\ torqueBuf' = [i \in Sensors |-> IF i \in Named(line, 2) THEN lineNo + 1 ELSE torqueBuf[i]]
    /\ forceFlag' = [i \in Sensors |-> forceFlag[i] \/ i \in Named(line, 1)]
    /\ torqueFlag' = [i \in Sensors |-> torqueFlag[i] \/ i \in Named(line, 2)]
    /\ pc' = "publish"
    /\ idx' = 1
    /\ UNCHANGED <<alive, ownerVars, mutex, meas, readVars>>

(* The exception leaves run() uncaught: the process terminates. *)
ReceiveOutOfRange(line) ==
    /\ pc = "receive"
    /\ OutOfRange(line)
    /\ alive' = FALSE
    /\ UNCHANGED <<ownerVars, pc, lineNo, bufVars, idx, mutex, meas, readVars>>

StopAfterFirst == pc' = "sleep" /\ UNCHANGED idx

AdvancePastLast == pc' = "publish" /\ idx' = idx + 1

(* The loop of run() goes to the next sensor, and after the last one the   *)
(* thread sleeps until the next period.                                    *)
Advance ==
    IF idx = NumSensors
      THEN pc' = "sleep" /\ UNCHANGED idx
      ELSE pc' = "publish" /\ idx' = idx + 1

SkipSensor ==
    /\ pc = "publish"
    /\ MutexFree
    /\ ~Complete(idx)
    /\ Advance
    /\ UNCHANGED <<alive, ownerVars, lineNo, bufVars, mutex, meas, readVars>>

(* The mutex is taken, both flags are set: the force is copied ... *)
BeginPublish ==
    /\ pc = "publish"
    /\ MutexFree
    /\ Complete(idx)
    /\ mutex' = Run
    /\ meas' = [meas EXCEPT ![idx].force = forceBuf[idx]]
    /\ pc' = "writing"
    /\ UNCHANGED <<alive, ownerVars, lineNo, bufVars, idx, readVars>>

(* The update flag of the sensor just published is reset. *)
FlagKept(flag) == flag
FlagReset(flag) == [flag EXCEPT ![idx] = FALSE]

(* ... then the torque; the buffers and flags are reset and the mutex released. *)
EndPublish ==
    /\ pc = "writing"
    /\ meas' = [meas EXCEPT ![idx].torque = torqueBuf[idx]]
    /\ forceBuf' = [forceBuf EXCEPT ![idx] = 0]
    /\ torqueBuf' = [torqueBuf EXCEPT ![idx] = 0]
    /\ forceFlag' = FlagReset(forceFlag)
    /\ torqueFlag' = FlagReset(torqueFlag)
    /\ mutex' = Free
    /\ Advance
    /\ UNCHANGED <<alive, ownerVars, lineNo, readVars>>

-----------------------------------------------------------------------------
(* A reader: read() copies the measurements under the mutex. *)

ReadBegin(r) ==
    /\ rpos[r] = 0
    /\ MutexFree
    /\ mutex' = r
    /\ rpos' = [rpos EXCEPT ![r] = 1]
    /\ UNCHANGED <<alive, ownerVars, pc, lineNo, bufVars, idx, meas, copied, result>>

ReadCopy(r) ==
    /\ rpos[r] \in Sensors
    /\ copied' = [copied EXCEPT ![r][rpos[r]] = meas[rpos[r]]]
    /\ rpos' = [rpos EXCEPT ![r] = rpos[r] + 1]
    /\ UNCHANGED <<alive, ownerVars, pc, lineNo, bufVars, idx, mutex, meas, result>>

ReadReturn(r) ==
    /\ rpos[r] = NumSensors + 1
    /\ mutex' = Free
    /\ rpos' = [rpos EXCEPT ![r] = 0]
    /\ result' = [result EXCEPT ![r] = copied[r]]
    /\ UNCHANGED <<alive, ownerVars, pc, lineNo, bufVars, idx, meas, copied>>

-----------------------------------------------------------------------------
OwnerStep == Attach \/ DetachBegin \/ DetachEnd

Acquire ==
    \/ ReceiveNothing
    \/ \E line \in Lines : Receive(line) \/ ReceiveOutOfRange(line)

RunStep == Wake \/ Exit \/ Acquire \/ SkipSensor \/ BeginPublish \/ EndPublish

ReadStep(r) == ReadBegin(r) \/ ReadCopy(r) \/ ReadReturn(r)

Terminated == ~alive /\ UNCHANGED vars

Next ==
    \/ alive /\ (OwnerStep \/ RunStep \/ \E r \in Readers : ReadStep(r))
    \/ Terminated

(* receiveLine() returns at its timeout at the latest, a thread that can   *)
(* run does, and a thread that waits for the mutex gets it if the mutex is *)
(* free again and again: clients poll, and hold it for one copy.           *)
Fairness ==
    /\ WF_vars(alive /\ DetachEnd)
    /\ WF_vars(alive /\ (Wake \/ Exit \/ Acquire \/ EndPublish))
    /\ SF_vars(alive /\ (SkipSensor \/ BeginPublish))
    /\ \A r \in Readers : WF_vars(alive /\ (ReadCopy(r) \/ ReadReturn(r)))

Spec == Init /\ [][Next]_vars

FairSpec == Spec /\ Fairness

-----------------------------------------------------------------------------
(* The wrench board this device implements: publication takes effect when   *)
(* its critical section starts to write.                                   *)
Writing(i) == pc = "writing" /\ idx = i

boardPending ==
    [i \in Sensors |-> IF Writing(i) THEN Zero
                                     ELSE [force |-> forceBuf[i], torque |-> torqueBuf[i]]]

boardWrench ==
    [i \in Sensors |-> IF Writing(i) THEN [force |-> forceBuf[i], torque |-> torqueBuf[i]]
                                     ELSE meas[i]]

Board == INSTANCE WrenchBoard WITH
            clock <- lineNo, pending <- boardPending, board <- boardWrench

-----------------------------------------------------------------------------
(* Properties *)

(* run() dereferences iSerialDevice without a check: it must be set for as *)
(* long as the periodic thread lives, whatever the owner does meanwhile    *)
(* (ftnodeDriver.cpp:175, 333-337).                                        *)
SerialDeviceOutlivesThread == pc # "off" => dev

(* The device implements the wrench board: a wrench is published as a      *)
(* whole and read() returns a snapshot, although both are done in several  *)
(* steps of concurrent threads (ftnodeDriver.cpp:266-293, 371-383).        *)
ImplementsBoard == Board!Spec

(* A published wrench holds no component that was published before: what   *)
(* is left in a buffer never comes back (ftnodeDriver.cpp:283-289).        *)
FreshPublication ==
    [][\A i \in Sensors : boardWrench'[i] # boardWrench[i]
          => Board!FreshWrench(boardWrench[i], boardWrench'[i])]_vars

(* Successive reads of one client never show an older wrench of a sensor   *)
(* after a newer one (ftnodeDriver.cpp:371-383).                           *)
ReadsNeverGoBack ==
    [][\A r \in Readers, i \in Sensors : result'[r][i] # result[r][i]
          => Board!FreshWrench(result[r][i], result'[r][i])]_vars

(* The sensors whose force and torque the firmware always sends together. *)
PairedSensors == {i \in Sensors : \A line \in Lines : i \in Named(line, 1) <=> i \in Named(line, 2)}

(* For such a sensor a read() only ever returns a force and a torque of    *)
(* one line, across malformed lines, detach() and a new attach(): "Expose  *)
(* the data to IAnalogSensor when the complete message for a wrench source *)
(* is updated" (ftnodeDriver.cpp:270).                                     *)
PairedWrenchesFromOneLine ==
    \A r \in Readers, i \in PairedSensors : result[r][i].force = result[r][i].torque

(* detach() returns: the thread it waits for leaves run() and ends, even   *)
(* with clients that keep taking the mutex (ftnodeDriver.cpp:333-335).     *)
DetachReturns == (owner = "stopping") ~> (owner = "idle" \/ ~alive)

(* Whenever both components of a sensor arrived they are published, even   *)
(* with clients that keep taking the mutex and a detach() under way        *)
(* (ftnodeDriver.cpp:266-293).                                             *)
CompleteWrenchPublished == \A i \in Sensors : Complete(i) ~> ~Complete(i)
=============================================================================
