--------------------------- MODULE AmtiPlatforms ---------------------------
(***************************************************************************)
(* The AMTI force plates (amti/src/AMTIPlatformsDriver.cpp and             *)
(* amti/src/AMTIForcePlate.cpp).  One platforms driver polls all the       *)
(* platforms found on the bus from a reader thread; each force-plate       *)
(* device attaches to it, looks its platform up by identifier, and copies  *)
(* the last measurement on every read().                                   *)
(*                                                                         *)
(* A force-plate device is named by its platformID.  Of a packet the model *)
(* keeps its number, of a measurement the packet it was copied from.       *)
(***************************************************************************)
EXTENDS Integers

CONSTANTS Plates,        \* the force-plate devices, by platformID
          Strangers,     \* serial numbers of platforms without a device
          NumPlatforms,  \* the platforms on the bus
          UnsignedMax,   \* the largest value of an unsigned
          Timeout,       \* "timeout" of the configuration, in ticks
          MaxTime,       \* bound: the clock stops there
          MaxPackets     \* bound: packets sent by the platforms

Serials == Plates \cup Strangers
Indices == 0..(NumPlatforms - 1)
Unsigned == 0..UnsignedMax

ASSUME TimesAssumption == Timeout \in Nat /\ MaxTime \in Nat /\ MaxPackets \in Nat
ASSUME NumPlatformsAssumption == NumPlatforms \in Nat \ {0}
ASSUME UnsignedAssumption == UnsignedMax \in Nat /\ UnsignedMax >= NumPlatforms
ASSUME ThreadsAssumption == Plates \cap {"reader", "owner", "nobody"} = {}

VARIABLES
    now,
    packets,      \* packets sent so far: the number of the last one
    buffered,     \* some of them are still in the library's buffer
    driver,       \* the platforms driver: "new", "open", "closing", "shut"
    mutex,        \* who holds the driver's m_mutex
    serials,      \* the serial numbers of the platforms, by index
    reader,       \* where the reader thread is
    readings,     \* m_sensorReadings: the packet they are from, 0 if zero
    stamp,        \* m_timestamp, and the packet it was updated for
    status,       \* the driver's m_status
    checked,      \* when run() last compared the stamp with the clock, or -1
    attached,     \* per device: m_platformDriver # 0
    index,        \* per device: m_platformIndex
    plateStatus,  \* per device: m_status
    ppc,          \* per device: where its read() is
    result        \* per device: what its last read() returned

hardware == <<now, packets, buffered, serials>>
readerVars == <<reader, readings, stamp, checked>>
plateVars == <<attached, index, plateStatus, ppc, result>>
vars == <<hardware, driver, mutex, readerVars, status, plateVars>>

Statuses == {"OK", "TIMEOUT", "ERROR"}
Stamps == [time : 0..MaxTime, packet : 0..MaxPackets]

(* "from" is the platform whose channels were copied; "checked" is the     *)
(* value of that variable when they were.                                  *)
Results == [status : Statuses, packet : 0..MaxPackets, from : Serials \cup {"none"},
            stamp : Stamps, checked : -1..MaxTime]

TypeOK ==
    /\ now \in 0..MaxTime
    /\ packets \in 0..MaxPackets
    /\ buffered \in BOOLEAN
    /\ driver \in {"new", "open", "closing", "shut"}
    /\ mutex \in Plates \cup {"reader", "owner", "nobody"}
    /\ serials \in [Indices -> Serials]
    /\ reader \in {"none", "asleep", "awake", "polling", "stamping", "ended"}
    /\ readings \in 0..MaxPackets
    /\ stamp \in Stamps
    /\ status \in Statuses
    /\ checked \in -1..MaxTime
    /\ attached \in [Plates -> BOOLEAN]
    /\ index \in [Plates -> Unsigned]
    /\ plateStatus \in [Plates -> Statuses]
    /\ ppc \in [Plates -> {"out", "calling", "copying"}]
    /\ result \in [Plates -> Results]

AsSigned(i) == i
ToUnsigned(i) == i % (UnsignedMax + 1)

(* The driver and the devices as their constructors and the devices'       *)
(* open() leave them; the driver's constructor takes a stamp.  No two      *)
(* platforms share a serial number.                                        *)
Init ==
    /\ now = 0 /\ packets = 0 /\ buffered = FALSE
    /\ serials \in [Indices -> Serials]
    /\ \A i, j \in Indices : serials[i] = serials[j] => i = j
    /\ driver = "new"
    /\ mutex = "nobody"
    /\ reader = "none"
    /\ readings = 0
    /\ stamp = [time |-> 0, packet |-> 0]
    /\ status = "ERROR"
    /\ checked = -1
    /\ attached = [p \in Plates |-> FALSE]
    /\ index = [p \in Plates |-> ToUnsigned(-1)]
    /\ plateStatus = [p \in Plates |-> "ERROR"]
    /\ ppc = [p \in Plates |-> "out"]
    /\ result = [p \in Plates |-> [status |-> "ERROR", packet |-> 0, from |-> "none",
                                   stamp |-> stamp, checked |-> -1]]

-----------------------------------------------------------------------------
NoMutex == TRUE
MutexFree == mutex = "nobody"

Tick ==
    /\ now < MaxTime
    /\ now' = now + 1
    /\ UNCHANGED <<packets, buffered, serials, driver, mutex, readerVars, status, plateVars>>

(* The platforms send, or do not: they may be unplugged. *)
PacketArrives ==
    /\ driver \in {"open", "closing"}
    /\ packets < MaxPackets
    /\ packets' = packets + 1
    /\ buffered' = TRUE
    /\ UNCHANGED <<now, serials, driver, mutex, readerVars, status, plateVars>>

-----------------------------------------------------------------------------
(* The owner of the platforms driver *)

(* open() holds m_mutex to its end; a driver it fails to open is dropped.  *)
Open ==
    /\ driver = "new"
    /\ MutexFree
    /\ driver' = "open"
    /\ reader' = "asleep"
    /\ status' = "OK"
    /\ UNCHANGED <<hardware, mutex, readings, stamp, checked, plateVars>>

KeepStatus == UNCHANGED status
SetError == status' = "ERROR"

(* close() holds m_mutex while stop() joins the reader. *)
CloseBegin ==
    /\ driver = "open"
    /\ MutexFree
    /\ mutex' = "owner"
    /\ driver' = "closing"
    /\ SetError
    /\ UNCHANGED <<hardware, readerVars, plateVars>>

CloseEnd ==
    /\ driver = "closing"
    /\ reader = "ended"
    /\ reader' = "none"
    /\ driver' = "shut"
    /\ mutex' = "nobody"
    /\ UNCHANGED <<hardware, readings, stamp, checked, status, plateVars>>

-----------------------------------------------------------------------------
(* The reader thread *)

(* The loop of a periodic thread: it looks for stop() before each run(). *)
Wake ==
    /\ reader = "asleep"
    /\ reader' = IF driver = "closing" THEN "ended" ELSE "awake"
    /\ UNCHANGED <<hardware, driver, mutex, readings, stamp, checked, status, plateVars>>

LockReader ==
    /\ reader = "awake"
    /\ MutexFree
    /\ mutex' = "reader"
    /\ reader' = "polling"
    /\ UNCHANGED <<hardware, driver, readings, stamp, checked, status, plateVars>>

(* getCurrentData() copies the last of the datasets in the buffer. *)
GetCurrentData ==
    /\ reader = "polling"
    /\ buffered
    /\ buffered' = FALSE
    /\ readings' = packets
    /\ reader' = "stamping"
    /\ UNCHANGED <<now, packets, serials, driver, mutex, stamp, checked, status, plateVars>>

UpdateStamp ==
    /\ reader = "stamping"
    /\ stamp' = [time |-> now, packet |-> readings]
    /\ reader' = "polling"
    /\ UNCHANGED <<hardware, driver, mutex, readings, checked, status, plateVars>>

TooOld == now - stamp.time > Timeout

OnlyResets == status' = IF status # "ERROR" THEN "OK" ELSE status
NeverRecovers == status' = IF TooOld THEN "TIMEOUT" ELSE status

(* The status run() leaves: an error stays unless the stamp is too old. *)
CheckTimeout ==
    status' = IF TooOld THEN "TIMEOUT" ELSE IF status # "ERROR" THEN "OK" ELSE "ERROR"

EndRun ==
    /\ reader = "polling"
    /\ ~buffered
    /\ CheckTimeout
    /\ checked' = now
    /\ mutex' = "nobody"
    /\ reader' = "asleep"
    /\ UNCHANGED <<hardware, driver, readings, stamp, plateVars>>

ReaderStep == Wake \/ LockReader \/ GetCurrentData \/ UpdateStamp \/ EndRun

-----------------------------------------------------------------------------
(* The force-plate devices *)

FirstIfUnknown(id) ==
    IF \E i \in Indices : serials[i] = id THEN CHOOSE i \in Indices : serials[i] = id ELSE 0

GetPlatformIndexForPlatformID(id) ==
    IF \E i \in Indices : serials[i] = id THEN CHOOSE i \in Indices : serials[i] = id ELSE -1

(* attach(): the index is stored in an unsigned, so "not found" becomes a  *)
(* large one, the test index >= 0 always holds, and true is returned.      *)
Attach(p) ==
    /\ driver = "open"
    /\ ppc[p] = "out"
    /\ ~attached[p]
    /\ MutexFree
    /\ attached' = [attached EXCEPT ![p] = TRUE]
    /\ index' = [index EXCEPT ![p] = ToUnsigned(GetPlatformIndexForPlatformID(p))]
    /\ plateStatus' = [plateStatus EXCEPT ![p] = IF index'[p] >= 0 THEN "OK" ELSE "ERROR"]
    /\ UNCHANGED <<hardware, driver, mutex, readerVars, status, ppc, result>>

Detach(p) ==
    /\ ppc[p] = "out"
    /\ attached' = [attached EXCEPT ![p] = FALSE]
    /\ plateStatus' = [plateStatus EXCEPT ![p] = "ERROR"]
    /\ UNCHANGED <<hardware, driver, mutex, readerVars, status, index, ppc, result>>

(* close() of a force-plate device keeps its status. *)
ClosePlate(p) ==
    /\ ppc[p] = "out"
    /\ attached' = [attached EXCEPT ![p] = FALSE]
    /\ UNCHANGED <<hardware, driver, mutex, readerVars, status, index, plateStatus, ppc, result>>

ReadDetached(p) ==
    /\ ppc[p] = "out"
    /\ ~attached[p]
    /\ result' = [result EXCEPT ![p].status = "ERROR"]
    /\ UNCHANGED <<hardware, driver, mutex, readerVars, status, attached, index, plateStatus, ppc>>

(* read() holds the device's own mutex and waits for the driver's. *)
ReadBegin(p) ==
    /\ ppc[p] = "out"
    /\ attached[p]
    /\ ppc' = [ppc EXCEPT ![p] = "calling"]
    /\ UNCHANGED <<hardware, driver, mutex, readerVars, status, attached, index, plateStatus, result>>

LockDriver(p) ==
    /\ ppc[p] = "calling"
    /\ MutexFree
    /\ mutex' = p
    /\ ppc' = [ppc EXCEPT ![p] = "copying"]
    /\ UNCHANGED <<hardware, driver, readerVars, status, attached, index, plateStatus, result>>

KeepMutex(p) == mutex' = p
Unlock(p) == mutex' = "nobody"

(* The index is out of range: an error is returned and no stamp. *)
RefuseIndex(p) ==
    /\ ppc[p] = "copying"
    /\ index[p] >= NumPlatforms
    /\ result' = [result EXCEPT ![p].status = "ERROR", ![p].packet = 0, ![p].from = "none"]
    /\ plateStatus' = [plateStatus EXCEPT ![p] = "ERROR"]
    /\ ppc' = [ppc EXCEPT ![p] = "out"]
    /\ Unlock(p)
    /\ UNCHANGED <<hardware, driver, readerVars, status, attached, index>>

(* getLastMeasurementForPlateAtIndex() *)
CopyMeasurement(p) ==
    /\ ppc[p] = "copying"
    /\ index[p] < NumPlatforms
    /\ result' = [result EXCEPT ![p] =
                    [status |-> status, packet |-> readings, from |-> serials[index[p]],
                     stamp |-> stamp, checked |-> checked]]
    /\ plateStatus' = [plateStatus EXCEPT ![p] = status]
    /\ ppc' = [ppc EXCEPT ![p] = "out"]
    /\ Unlock(p)
    /\ UNCHANGED <<hardware, driver, readerVars, status, attached, index>>

ReadStep(p) == LockDriver(p) \/ RefuseIndex(p) \/ CopyMeasurement(p)

-----------------------------------------------------------------------------
Next ==
    \/ Tick \/ PacketArrives
    \/ Open \/ CloseBegin \/ CloseEnd
    \/ ReaderStep
    \/ \E p \in Plates : \/ Attach(p) \/ Detach(p) \/ ClosePlate(p)
                         \/ ReadDetached(p) \/ ReadBegin(p) \/ ReadStep(p)

Spec == Init /\ [][Next]_vars

(* Threads that can run do; the reader and the owner get m_mutex if it is  *)
(* free again and again, since the devices are read periodically.          *)
FairSpec ==
    /\ Spec
    /\ SF_vars(ReaderStep)
    /\ \A p \in Plates : WF_vars(ReadStep(p))
    /\ WF_vars(CloseEnd)

-----------------------------------------------------------------------------
(* The abstract specification the driver and its devices implement.  A     *)
(* packet counts as published once it has its stamp: the stamp is what     *)
(* tells the devices that a measurement is new.                            *)
lastRead == [p \in Plates |-> [packet |-> result[p].packet, time |-> result[p].stamp.time]]

Board == INSTANCE MeasurementBoard WITH
            Devices <- Plates, clock <- now, sent <- packets, board <- stamp, last <- lastRead

-----------------------------------------------------------------------------
(* Properties *)

(* What the devices read are measurements with their own stamps, in order  *)
(* and each published once, although the reader fetches a packet and       *)
(* stamps it in two steps, every device copies both later, and reads that  *)
(* fail come in between (AMTIPlatformsDriver.cpp:28-36, 226-259,           *)
(* AMTIForcePlate.cpp:110-120).                                            *)
ImplementsMeasurementBoard == Board!Spec

(* A device is never given another platform's measurement as a good one,   *)
(* in whatever order the bus lists the platforms: one whose platform is    *)
(* not on the bus reads only errors (AMTIForcePlate.cpp:110-120,           *)
(* AMTIPlatformsDriver.cpp:226-251).                                       *)
ReadsOwnPlatform ==
    \A p \in Plates : result[p].status # "ERROR" => result[p].from = p

(* A measurement is good only if run() found it no older than the timeout, *)
(* in a check after its stamp was taken.  The zeros from before the first  *)
(* packet are good too, as the constructor takes a stamp: but only until   *)
(* a check finds that stamp too old, so that a driver that never gets a    *)
(* packet does not report good zeros for longer than the timeout           *)
(* (AMTIPlatformsDriver.cpp:38-45, 53-61, 176-183).                        *)
GoodMeasurementIsRecent ==
    \A p \in Plates : LET r == result[p] IN
        r.status = "OK" => IF r.packet = 0 THEN r.checked <= Timeout
                           ELSE r.checked \in r.stamp.time..(r.stamp.time + Timeout)

(* After close() the driver answers nothing but errors, whatever the       *)
(* reader did while it was told to stop (AMTIPlatformsDriver.cpp:191-206). *)
ShutDriverReportsError == driver = "shut" => status = "ERROR"

(* Packets in the library's buffer are fetched while the driver is open,   *)
(* however often the devices are read, found or not                        *)
(* (AMTIPlatformsDriver.cpp:28-36, 244-248).                               *)
PacketsAreFetched == buffered ~> (~buffered \/ driver # "open")

(* close() reaches releaseDriver(), which "Terminates the driver"          *)
(* (AMTIPlatformsDriver.cpp:191-206, AMTIlib.h:55).                        *)
CloseReleasesDriver == driver = "closing" ~> driver = "shut"

(* attach() succeeds only if the platform was found; an index is "the      *)
(* index of the platform or -1 if not found" (IMultipleForcePlates.h:38,   *)
(* AMTIForcePlate.cpp:115-119).                                            *)
AttachFindsPlatform ==
    [][ \A p \in Plates : (~attached[p] /\ attached'[p] /\ plateStatus'[p] = "OK")
                            => \E i \in Indices : serials[i] = p ]_vars
=============================================================================
