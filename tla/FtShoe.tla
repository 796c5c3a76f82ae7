------------------------------- MODULE FtShoe -------------------------------
(***************************************************************************)
(* The ftShoe device (ftShoe/ftshoeDriver.cpp): it combines the wrenches   *)
(* of a front and a rear sensor, read either from two sensor devices or    *)
(* from one ftnode device, into the wrench of the shoe.  The thread that   *)
(* owns the device attaches and detaches the sensors; client threads call  *)
(* read(); calibrating threads call calibrateSensor(), which itself reads  *)
(* many times and lets go of p_mutex in between.                           *)
(*                                                                         *)
(* Of a reading the model keeps which call of read() put it in the shared  *)
(* buffer; of an output vector, whether static_offsets were subtracted;    *)
(* of an average of outputs, whether all of them were raw.                 *)
(***************************************************************************)
EXTENDS Integers

CONSTANTS Clients,       \* threads that call read() and getState()
          Calibrators,   \* threads that call calibrateSensor()
          Answers,       \* statuses a sensor device may answer to read()
          Channels,      \* channel counts an attached ftnode device may have
          RangeUpper,    \* the larger upper value of the two configured ranges
          MaxSamples,    \* bound: samples of one calibration
          NoThread       \* the owner of a free mutex, and of unread buffers

Statuses == {"OK", "OVF", "TIMEOUT", "ERROR"}

Threads == Clients \cup Calibrators

ASSUME AnswersAssumption == Answers \subseteq Statuses
ASSUME ChannelsAssumption == Channels \subseteq Nat /\ RangeUpper \in Nat
ASSUME MaxSamplesAssumption == MaxSamples \in Nat
ASSUME NoThreadAssumption == NoThread \notin Threads
ASSUME DisjointAssumption == Clients \cap Calibrators = {}

VARIABLES
    alive,         \* FALSE once a null sensor pointer was dereferenced
    useFTNode,     \* useFTNodeDriver of the configuration
    orderly,       \* the owner and the clients keep the order of attach, use, detach
    link,          \* how the last attachAll() or detachAll() ended, see Links
    mutex,         \* who holds p_mutex
    fPtr, sPtr, nPtr,            \* f_sensor_p, s_sensor_p, ftNode_sensor_p # 0
    fStatus, sStatus, pStatus,   \* f_status, s_status, p_status
    fBuf, sBuf,    \* whose read() filled f_sensorReadings, s_sensorReadings
    calibrated,
    offsets,       \* static_offsets: "zero", or a mean of outputs, see Means
    rpc,           \* per thread: where it is in read()
    got,           \* per thread: what the sensors answered to its current read()
    last,          \* per thread: what its last read() returned
    cpc,           \* per calibrating thread: where it is in calibrateSensor()
    samples,       \* per calibrating thread: calls of read() so far in its loop
    tmpOffsets     \* per calibrating thread: the mean of outputs so far

sensorVars == <<fPtr, sPtr, nPtr, fStatus, sStatus, pStatus>>
offsetVars == <<calibrated, offsets>>
readVars == <<fBuf, sBuf, rpc, got, last>>
calVars == <<cpc, samples, tmpOffsets>>
config == <<useFTNode, orderly>>
vars == <<alive, config, link, mutex, sensorVars, offsetVars, readVars, calVars>>

(* A mean of outputs none of which had offsets subtracted, or some had. *)
Means == {"raw", "compensated"}

(* "new": neither was called; "attached", "failed": attachAll() returned   *)
(* true, false; "detached": detachAll() returned.                          *)
Links == {"new", "attached", "failed", "detached"}

Linked(success) == link' = IF success THEN "attached" ELSE "failed"

Output == [f : Threads \cup {NoThread}, s : Threads \cup {NoThread},
           status : Statuses, kind : Means]

TypeOK ==
    /\ alive \in BOOLEAN
    /\ useFTNode \in BOOLEAN
    /\ orderly \in BOOLEAN
    /\ link \in Links
    /\ mutex \in Threads \cup {NoThread}
    /\ <<fPtr, sPtr, nPtr>> \in BOOLEAN \X BOOLEAN \X BOOLEAN
    /\ <<fStatus, sStatus, pStatus>> \in Statuses \X Statuses \X Statuses
    /\ <<fBuf, sBuf>> \in (Threads \cup {NoThread}) \X (Threads \cup {NoThread})
    /\ calibrated \in BOOLEAN
    /\ offsets \in Means \cup {"zero"}
    /\ rpc \in [Threads -> {"out", "first", "second", "combine", "returned"}]
    /\ got \in [Threads -> [f : Statuses, s : Statuses]]
    /\ last \in [Threads -> Output]
    /\ cpc \in [Calibrators -> {"out", "reset", "sampling"}]
    /\ samples \in [Calibrators -> 0..MaxSamples]
    /\ tmpOffsets \in [Calibrators -> Means]

(* The device as its constructor and open() leave it. *)
Init ==
    /\ alive = TRUE
    /\ useFTNode \in BOOLEAN
    /\ orderly \in BOOLEAN
    /\ link = "new"
    /\ mutex = NoThread
    /\ fPtr = FALSE /\ sPtr = FALSE /\ nPtr = FALSE
    /\ fStatus = "OK" /\ sStatus = "OK" /\ pStatus = "OK"
    /\ fBuf = NoThread /\ sBuf = NoThread
    /\ calibrated = FALSE
    /\ offsets = "zero"
    /\ rpc = [t \in Threads |-> "out"]
    /\ got = [t \in Threads |-> [f |-> "ERROR", s |-> "ERROR"]]
    /\ last = [t \in Threads |->
                 [f |-> NoThread, s |-> NoThread, status |-> "ERROR", kind |-> "raw"]]
    /\ cpc = [c \in Calibrators |-> "out"]
    /\ samples = [c \in Calibrators |-> 0]
    /\ tmpOffsets = [c \in Calibrators |-> "raw"]

-----------------------------------------------------------------------------
NoMutex == TRUE
MutexFree == mutex = NoThread

(* Nobody is inside read() or calibrateSensor(). *)
Quiet == /\ \A t \in Threads : rpc[t] = "out"
         /\ \A c \in Calibrators : cpc[c] = "out"

(* The owner of an orderly system detaches only what nobody uses. *)
MayDetach == orderly => Quiet

(* The clients of an orderly system use the shoe only while it is attached. *)
MayUse == orderly => link = "attached"

ChannelStatus(channels) == IF channels > 0 THEN "OK" ELSE "ERROR"

-----------------------------------------------------------------------------
(* The owning thread *)

(* attachAll() with two devices: -1 stands for one that offers no sensor   *)
(* interface, a natural number for the channels of the sensor it offers.   *)
AttachFirstFails(first) ==
    /\ first = -1 \/ fPtr
    /\ Linked(FALSE)
    /\ UNCHANGED sensorVars

AttachSecondFails(first, second) ==
    /\ first # -1 /\ ~fPtr
    /\ second = -1 \/ sPtr
    /\ fPtr' = TRUE
    /\ fStatus' = ChannelStatus(first)
    /\ Linked(FALSE)
    /\ UNCHANGED <<sPtr, nPtr, sStatus, pStatus>>

AttachBoth(first, second) ==
    /\ first # -1 /\ ~fPtr
    /\ second # -1 /\ ~sPtr
    /\ fPtr' = TRUE
    /\ fStatus' = ChannelStatus(first)
    /\ sPtr' = TRUE
    /\ sStatus' = ChannelStatus(second)
    /\ Linked(~(fStatus' # "OK" /\ sStatus' # "OK"))
    /\ UNCHANGED <<nPtr, pStatus>>

AttachIgnoringSecond(first, second) ==
    \/ AttachFirstFails(first)
    \/ /\ first # -1 /\ ~fPtr
       /\ fPtr' = TRUE
       /\ fStatus' = ChannelStatus(first)
       /\ sPtr' = (second # -1)
       /\ sStatus' = ChannelStatus(second)
       /\ Linked(TRUE)
       /\ UNCHANGED <<nPtr, pStatus>>

AttachTwo(first, second) ==
    \/ AttachFirstFails(first)
    \/ AttachSecondFails(first, second)
    \/ AttachBoth(first, second)

(* attachAll() with one ftnode device: its pointer is kept even if the     *)
(* configured ranges exceed its channels.                                  *)
AttachNode(channels) ==
    /\ IF channels = -1 \/ nPtr
         THEN Linked(FALSE) /\ UNCHANGED nPtr
         ELSE nPtr' = TRUE /\ Linked(channels >= RangeUpper)
    /\ UNCHANGED <<fPtr, sPtr, fStatus, sStatus, pStatus>>

AttachAll ==
    /\ MutexFree
    /\ \/ ~useFTNode /\ \E first, second \in {-1, 0, 6} : AttachTwo(first, second)
       \/ useFTNode /\ \E channels \in {-1} \cup Channels : AttachNode(channels)
    /\ UNCHANGED <<alive, config, mutex, offsetVars, readVars, calVars>>

ForgetOnly == fPtr' = FALSE /\ sPtr' = FALSE /\ UNCHANGED <<nPtr, fStatus, sStatus, pStatus>>

(* What detachAll() forgets.  It leaves ftNode_sensor_p as it is. *)
ForgetSensors ==
    /\ fPtr' = FALSE /\ sPtr' = FALSE
    /\ fStatus' = "ERROR" /\ sStatus' = "ERROR" /\ pStatus' = "ERROR"
    /\ UNCHANGED nPtr

DetachAll ==
    /\ MutexFree
    /\ MayDetach
    /\ ForgetSensors
    /\ link' = "detached"
    /\ UNCHANGED <<alive, config, mutex, offsetVars, readVars, calVars>>

-----------------------------------------------------------------------------
(* read(), called by thread t *)

ReadBegin(t) ==
    /\ rpc[t] = "out"
    /\ MutexFree
    /\ mutex' = t
    /\ rpc' = [rpc EXCEPT ![t] = "first"]
    /\ UNCHANGED <<alive, config, link, sensorVars, offsetVars, fBuf, sBuf, got, last, calVars>>

(* One ftnode device delivers both readings.  Its read() always returns    *)
(* AS_OK, and f_status and s_status are left alone.                        *)
ReadNode(t) ==
    /\ rpc[t] = "first"
    /\ useFTNode
    /\ nPtr
    /\ fBuf' = t /\ sBuf' = t
    /\ got' = [got EXCEPT ![t] = [f |-> "OK", s |-> "OK"]]
    /\ rpc' = [rpc EXCEPT ![t] = "combine"]
    /\ UNCHANGED <<alive, config, link, mutex, sensorVars, offsetVars, last, calVars>>

ReadFirst(t) ==
    /\ rpc[t] = "first"
    /\ ~useFTNode
    /\ fPtr
    /\ \E a \in Answers : /\ fStatus' = a
                          /\ got' = [got EXCEPT ![t].f = a]
    /\ fBuf' = t
    /\ rpc' = [rpc EXCEPT ![t] = "second"]
    /\ UNCHANGED <<alive, config, link, mutex, fPtr, sPtr, nPtr, sStatus, pStatus,
                   offsetVars, sBuf, last, calVars>>

ReadSecond(t) ==
    /\ rpc[t] = "second"
    /\ sPtr
    /\ \E a \in Answers : /\ sStatus' = a
                          /\ got' = [got EXCEPT ![t].s = a]
    /\ sBuf' = t
    /\ rpc' = [rpc EXCEPT ![t] = "combine"]
    /\ UNCHANGED <<alive, config, link, mutex, fPtr, sPtr, nPtr, fStatus, pStatus,
                   offsetVars, fBuf, last, calVars>>

(* The sensor pointer read() dereferences is null: the process crashes. *)
ReadNull(t) ==
    /\ \/ rpc[t] = "first" /\ ~(IF useFTNode THEN nPtr ELSE fPtr)
       \/ rpc[t] = "second" /\ ~sPtr
    /\ alive' = FALSE
    /\ UNCHANGED <<config, link, mutex, sensorVars, offsetVars, readVars, calVars>>

(* combineFtsStatus() *)
CombineFtsStatus(f, s) ==
    IF "ERROR" \in {f, s} THEN "ERROR"
    ELSE IF "TIMEOUT" \in {f, s} THEN "TIMEOUT"
    ELSE IF "OVF" \in {f, s} THEN "OVF"
    ELSE "OK"

(* The readings in the buffers are combined, the offsets subtracted if the *)
(* shoe is calibrated, and the mutex is released.                          *)
ReadReturn(t) ==
    /\ rpc[t] = "combine"
    /\ pStatus' = CombineFtsStatus(fStatus, sStatus)
    /\ last' = [last EXCEPT ![t] =
                  [f |-> fBuf, s |-> sBuf, status |-> pStatus',
                   kind |-> IF calibrated THEN "compensated" ELSE "raw"]]
    /\ rpc' = [rpc EXCEPT ![t] = IF t \in Calibrators THEN "returned" ELSE "out"]
    /\ mutex' = NoThread
    /\ UNCHANGED <<alive, config, link, fPtr, sPtr, nPtr, fStatus, sStatus, offsetVars,
                   fBuf, sBuf, got, calVars>>

ReadStep(t) ==
    ReadNode(t) \/ ReadFirst(t) \/ ReadSecond(t) \/ ReadNull(t) \/ ReadReturn(t)

-----------------------------------------------------------------------------
(* calibrateSensor(), called by thread c *)

NoReset == UNCHANGED offsetVars
ResetOffsets == calibrated' = FALSE /\ offsets' = "zero"

KeepMutex(c) == mutex' = c
ReleaseAfterReset(c) == UNCHANGED mutex

(* Calibration data are reset in a critical section of their own. *)
CalibrateBegin(c) ==
    /\ cpc[c] = "out"
    /\ MayUse
    /\ MutexFree
    /\ ReleaseAfterReset(c)
    /\ ResetOffsets
    /\ cpc' = [cpc EXCEPT ![c] = "reset"]
    /\ samples' = [samples EXCEPT ![c] = 0]
    /\ tmpOffsets' = [tmpOffsets EXCEPT ![c] = "raw"]
    /\ UNCHANGED <<alive, config, link, sensorVars, readVars>>

(* The first reading is good: the average starts with it. *)
FirstSampleGood(c) ==
    /\ cpc[c] = "reset"
    /\ rpc[c] = "returned"
    /\ last[c].status = "OK"
    /\ tmpOffsets' = [tmpOffsets EXCEPT ![c] = last[c].kind]
    /\ cpc' = [cpc EXCEPT ![c] = "sampling"]
    /\ rpc' = [rpc EXCEPT ![c] = "out"]
    /\ UNCHANGED <<alive, config, link, mutex, sensorVars, offsetVars, fBuf, sBuf, got, last, samples>>

(* The first reading is bad: calibrateSensor() returns AS_ERROR. *)
FirstSampleBad(c) ==
    /\ cpc[c] = "reset"
    /\ rpc[c] = "returned"
    /\ last[c].status # "OK"
    /\ cpc' = [cpc EXCEPT ![c] = "out"]
    /\ rpc' = [rpc EXCEPT ![c] = "out"]
    /\ UNCHANGED <<alive, config, link, mutex, sensorVars, offsetVars, fBuf, sBuf, got, last,
                   samples, tmpOffsets>>

(* A good reading enters the average, a bad one is skipped. *)
Sample(c) ==
    /\ cpc[c] = "sampling"
    /\ rpc[c] = "returned"
    /\ tmpOffsets' = [tmpOffsets EXCEPT ![c] =
                        IF last[c].status = "OK" /\ last[c].kind = "compensated"
                          THEN "compensated" ELSE @]
    /\ samples' = [samples EXCEPT ![c] = @ + 1]
    /\ rpc' = [rpc EXCEPT ![c] = "out"]
    /\ UNCHANGED <<alive, config, link, mutex, sensorVars, offsetVars, fBuf, sBuf, got, last, cpc>>

(* The five seconds are over: the average becomes the offsets. *)
CalibrateEnd(c) ==
    /\ cpc[c] = "sampling"
    /\ rpc[c] = "out"
    /\ MutexFree
    /\ offsets' = tmpOffsets[c]
    /\ calibrated' = TRUE
    /\ cpc' = [cpc EXCEPT ![c] = "out"]
    /\ UNCHANGED <<alive, config, link, mutex, sensorVars, readVars, samples, tmpOffsets>>

ReadsWithoutDeadline(c) == cpc[c] \in {"reset", "sampling"} /\ ReadBegin(c)

(* The calibrating thread reads after the reset and, until the five        *)
(* seconds are over, again and again.                                      *)
CalibratorReads(c) ==
    /\ \/ cpc[c] = "reset"
       \/ cpc[c] = "sampling" /\ samples[c] < MaxSamples
    /\ ReadBegin(c)

CalibrateStep(c) ==
    \/ CalibratorReads(c)
    \/ FirstSampleGood(c) \/ FirstSampleBad(c) \/ Sample(c) \/ CalibrateEnd(c)

-----------------------------------------------------------------------------
ClientReads(t) == MayUse /\ ReadBegin(t)

Crashed == ~alive /\ UNCHANGED vars

Next ==
    \/ alive /\ \/ AttachAll \/ DetachAll
                \/ \E t \in Clients : ClientReads(t)
                \/ \E t \in Threads : ReadStep(t)
                \/ \E c \in Calibrators : CalibrateBegin(c) \/ CalibrateStep(c)
    \/ Crashed

(* A sensor's read() returns, a thread that can run does, and a            *)
(* calibrating thread gets the mutex if it is free again and again: it     *)
(* sleeps 10 ms between samples and the clients are periodic.              *)
Fairness ==
    /\ \A t \in Threads : WF_vars(alive /\ ReadStep(t))
    /\ \A c \in Calibrators : SF_vars(alive /\ CalibrateStep(c))

Spec == Init /\ [][Next]_vars

FairSpec == Spec /\ Fairness

-----------------------------------------------------------------------------
(* Properties *)

(* OK < OVF < TIMEOUT < ERROR *)
Severity == [OK |-> 0, OVF |-> 1, TIMEOUT |-> 2, ERROR |-> 3]

Returned(t) == rpc[t] \in {"out", "returned"} /\ last[t].f # NoThread

(* What a read() returns was computed from the two readings this very call *)
(* took, never from one another thread left in the shared buffers, and its *)
(* status is at least as severe as each sensor's answer to this call       *)
(* (ftshoeDriver.cpp:243-335).                                             *)
ReadUsesOwnReadings ==
    \A t \in Threads : Returned(t) =>
        /\ last[t].f = t /\ last[t].s = t
        /\ Severity[last[t].status] >= Severity[got[t].f]
        /\ Severity[last[t].status] >= Severity[got[t].s]

(* "Reset calibration data to support consecutive ftshoe recalibrations":  *)
(* the offsets in use are an average of readings no offsets were           *)
(* subtracted from, whatever clients read and however often the shoe is    *)
(* calibrated (ftshoeDriver.cpp:360-400).                                  *)
OffsetsFromRawReadings == calibrated => offsets = "raw"

(* Once detachAll() returned, neither read() nor getState() reports a good *)
(* status before the next attachAll(), not even with an ftnode device,     *)
(* which stays attached (ftshoeDriver.cpp:248-261, 312-342, 531-545).      *)
NoGoodStatusWhileDetached == link = "detached" => pStatus # "OK"

(* Where clients use the shoe only while it is attached and the owner      *)
(* detaches it only when nobody does, no null sensor pointer is ever       *)
(* dereferenced, failed attachAll() included (ftshoeDriver.cpp:250-266).   *)
OrderlyUseNeverCrashes == orderly => alive

(* calibrateSensor() returns: it never waits for a mutex it holds itself   *)
(* (ftshoeDriver.cpp:361-365, 396).                                        *)
CalibrationReturns ==
    \A c \in Calibrators : cpc[c] # "out" ~> (cpc[c] = "out" \/ ~alive)

(* "return 1 if everything went fine with attachAll" (ftshoeDriver.cpp:525): *)
(* when attachAll() reports success both sensors are in order.               *)
AttachSucceedsOnlyIfAllWell ==
    [][ (~useFTNode /\ link # "attached" /\ link' = "attached") => fStatus' = "OK" /\ sStatus' = "OK" ]_vars
=============================================================================
