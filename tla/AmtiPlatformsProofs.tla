------------------------ MODULE AmtiPlatformsProofs ------------------------
(***************************************************************************)
(* Proofs about the AMTI force plates, for any devices, platforms on the   *)
(* bus, timeout and number of packets.                                     *)
(***************************************************************************)
EXTENDS AmtiPlatforms, TLAPS

USE TimesAssumption, NumPlatformsAssumption, UnsignedAssumption, ThreadsAssumption

Polling == reader \in {"polling", "stamping"}

(* m_mutex is held by the reader during a run, by the owner while it joins *)
(* the reader, and by the device that copies.                              *)
Exclusive ==
    /\ mutex = "reader" <=> Polling
    /\ mutex = "owner" <=> driver = "closing"
    /\ \A p \in Plates : mutex = p <=> ppc[p] = "copying"

(* A measurement comes with the time stamp of the very packet it is from,  *)
(* although the reader updates the two one after the other and every       *)
(* device copies both (AMTIPlatformsDriver.cpp:30-36, 243-259).            *)
MeasurementMatchesStamp ==
    \A p \in Plates : result[p].status # "ERROR" => result[p].packet = result[p].stamp.packet

(* Outside a run the stamp is that of the readings. *)
Stamped == (reader # "stamping" => readings = stamp.packet) /\ MeasurementMatchesStamp

(* An index in range is the index of the device's own platform. *)
IndexIsOwn ==
    /\ \A p \in Plates : ppc[p] # "out" => attached[p]
    /\ \A p \in Plates : attached[p] /\ index[p] < NumPlatforms => serials[index[p]] = p
    /\ ReadsOwnPlatform

(* The check at time c found the stamp s no older than the timeout; a      *)
(* stamp that belongs to no packet is from the start of the clock.         *)
Recent(s, c) == IF s.packet = 0 THEN c <= Timeout ELSE c \in s.time..(s.time + Timeout)

(* Outside a run the status agrees with the last check. *)
StatusIsChecked ==
    /\ driver = "new" => checked = -1
    /\ stamp.packet = 0 => stamp.time = 0
    /\ ~Polling => /\ checked = -1 => stamp.packet = 0
                   /\ status = "OK" => Recent(stamp, checked)
    /\ \A p \in Plates : result[p].status = "OK" => Recent(result[p].stamp, result[p].checked)

(* No run begins once close() set the error, for it holds m_mutex until    *)
(* the reader is joined.                                                   *)
ClosedIsError ==
    /\ driver \in {"new", "shut"} => reader = "none"
    /\ driver \in {"closing", "shut"} => status = "ERROR" /\ ~Polling

-----------------------------------------------------------------------------
(* The arithmetic of the bounded counters and of the unsigned index. *)
LEMMA CountersStep ==
    /\ 0 \in 0..MaxTime /\ 0 \in 0..MaxPackets /\ 0 \in Unsigned
    /\ -1 \in -1..MaxTime /\ \A t \in 0..MaxTime : t \in -1..MaxTime
    /\ \A t \in 0..MaxTime : t < MaxTime => t + 1 \in 0..MaxTime
    /\ \A n \in 0..MaxPackets : n < MaxPackets => n + 1 \in 0..MaxPackets
  BY DEF Unsigned

(* The index "not found" becomes one that no platform has; others stay.    *)
LEMMA UnsignedIndex ==
    /\ \A i \in Indices : ToUnsigned(i) = i /\ i \in Unsigned
    /\ ToUnsigned(-1) = UnsignedMax /\ UnsignedMax \in Unsigned
<1> DEFINE w == UnsignedMax + 1
<1>1. \A i \in Indices : i \in 0..(w - 1) /\ i \in Unsigned
  BY DEF Indices, Unsigned
<1>2. \A i \in 0..(w - 1) : i % w = i
  OBVIOUS
<1>3. -1 % w = w - 1
  OBVIOUS
<1> QED
  BY <1>1, <1>2, <1>3 DEF ToUnsigned, Unsigned

LEMMA PlatformIndex ==
    ASSUME TypeOK, NEW p \in Plates
    PROVE  LET i == ToUnsigned(GetPlatformIndexForPlatformID(p))
           IN  i \in Unsigned /\ (i < NumPlatforms => i \in Indices /\ serials[i] = p)
<1> DEFINE id == GetPlatformIndexForPlatformID(p)
<1>1. CASE \E i \in Indices : serials[i] = p
  <2>1. id \in Indices /\ serials[id] = p
    BY <1>1 DEF GetPlatformIndexForPlatformID
  <2> QED
    BY <2>1, UnsignedIndex
<1>2. CASE ~\E i \in Indices : serials[i] = p
  <2>1. id = -1
    BY <1>2 DEF GetPlatformIndexForPlatformID
  <2>2. ~(UnsignedMax < NumPlatforms)
    OBVIOUS
  <2> QED
    BY <2>1, <2>2, UnsignedIndex
<1> QED
  BY <1>1, <1>2

-----------------------------------------------------------------------------
LEMMA TypeInit == Init => TypeOK
<1> SUFFICES ASSUME Init PROVE TypeOK
  OBVIOUS
<1>1. stamp \in Stamps
  BY CountersStep DEF Init, Stamps
<1>2. result \in [Plates -> Results]
  BY <1>1, CountersStep DEF Init, Results, Statuses
<1>3. index \in [Plates -> Unsigned]
  BY UnsignedIndex DEF Init
<1> QED
  BY <1>1, <1>2, <1>3, CountersStep DEF Init, TypeOK, Statuses

LEMMA DriverKeepsType ==
    TypeOK /\ (Tick \/ PacketArrives \/ Open \/ CloseBegin \/ CloseEnd) => TypeOK'
<1> SUFFICES ASSUME TypeOK, Tick \/ PacketArrives \/ Open \/ CloseBegin \/ CloseEnd PROVE TypeOK'
  OBVIOUS
<1> USE DEF TypeOK, hardware, readerVars, plateVars
<1>1. CASE Tick
  <2>1. now' \in 0..MaxTime
    BY <1>1, CountersStep DEF Tick
  <2> QED
    BY <1>1, <2>1 DEF Tick
<1>2. CASE PacketArrives
  <2>1. packets' \in 0..MaxPackets
    BY <1>2, CountersStep DEF PacketArrives
  <2> QED
    BY <1>2, <2>1 DEF PacketArrives
<1>3. CASE Open
  BY <1>3 DEF Open, Statuses
<1>4. CASE CloseBegin
  BY <1>4 DEF CloseBegin, SetError, Statuses
<1>5. CASE CloseEnd
  BY <1>5 DEF CloseEnd
<1> QED
  BY <1>1, <1>2, <1>3, <1>4, <1>5

LEMMA ReaderKeepsType == TypeOK /\ ReaderStep => TypeOK'
<1> SUFFICES ASSUME TypeOK, ReaderStep PROVE TypeOK'
  OBVIOUS
<1> USE DEF TypeOK, hardware, plateVars
<1>1. CASE Wake \/ LockReader \/ GetCurrentData
  BY <1>1 DEF Wake, LockReader, GetCurrentData
<1>2. CASE UpdateStamp
  <2>1. stamp' \in Stamps
    BY <1>2 DEF UpdateStamp, Stamps
  <2> QED
    BY <1>2, <2>1 DEF UpdateStamp
<1>3. CASE EndRun
  <2>1. status' \in Statuses
    BY <1>3 DEF EndRun, CheckTimeout, Statuses
  <2>2. checked' \in -1..MaxTime
    BY <1>3, CountersStep DEF EndRun
  <2> QED
    BY <1>3, <2>1, <2>2 DEF EndRun
<1> QED
  BY <1>1, <1>2, <1>3 DEF ReaderStep

LEMMA PlateKeepsType ==
    ASSUME TypeOK, NEW p \in Plates,
           Attach(p) \/ Detach(p) \/ ClosePlate(p) \/ ReadDetached(p) \/ ReadBegin(p) \/ ReadStep(p)
    PROVE  TypeOK'
<1> USE DEF TypeOK, hardware, readerVars
<1>1. CASE Attach(p)
  <2>1. index' \in [Plates -> Unsigned]
    BY <1>1, PlatformIndex DEF Attach
  <2>2. plateStatus' \in [Plates -> Statuses]
    BY <1>1, Zenon DEF Attach, Statuses
  <2>3. attached' \in [Plates -> BOOLEAN]
    BY <1>1 DEF Attach
  <2> QED
    BY <1>1, <2>1, <2>2, <2>3 DEF Attach
<1>2. CASE Detach(p) \/ ClosePlate(p)
  <2>1. attached' \in [Plates -> BOOLEAN] /\ plateStatus' \in [Plates -> Statuses]
    BY <1>2 DEF Detach, ClosePlate, Statuses
  <2>2. UNCHANGED <<hardware, driver, mutex, readerVars, status, index, ppc, result>>
    BY <1>2 DEF Detach, ClosePlate
  <2> QED
    BY <2>1, <2>2
<1>3. CASE ReadDetached(p)
  <2>1. result' \in [Plates -> Results]
    <3>1. [result[p] EXCEPT !.status = "ERROR"] \in Results
      BY DEF Results, Statuses
    <3>2. result' = [result EXCEPT ![p] = [result[p] EXCEPT !.status = "ERROR"]]
      BY <1>3 DEF ReadDetached
    <3> QED
      BY <3>1, <3>2
  <2> QED
    BY <1>3, <2>1 DEF ReadDetached
<1>4. CASE ReadBegin(p) \/ LockDriver(p)
  BY <1>4 DEF ReadBegin, LockDriver
<1>5. CASE RefuseIndex(p)
  <2> DEFINE refused == [result[p] EXCEPT !.status = "ERROR", !.packet = 0, !.from = "none"]
  <2>3. refused \in Results
    <3>1. result[p] \in Results
      OBVIOUS
    <3>2. 0 \in 0..MaxPackets /\ "ERROR" \in Statuses /\ "none" \in Serials \cup {"none"}
      BY CountersStep DEF Statuses
    <3> QED
      BY <3>1, <3>2 DEF Results
  <2>4. result' = [result EXCEPT ![p] = refused]
    BY <1>5 DEF RefuseIndex
  <2>1. result' \in [Plates -> Results]
    BY <2>3, <2>4
  <2>2. plateStatus' \in [Plates -> Statuses]
    BY <1>5 DEF RefuseIndex, Statuses
  <2> QED
    BY <1>5, <2>1, <2>2 DEF RefuseIndex, Unlock
<1>6. CASE CopyMeasurement(p)
  <2>1. index[p] \in Indices
    BY <1>6 DEF CopyMeasurement, Indices, Unsigned
  <2>2. result' \in [Plates -> Results]
    BY <1>6, <2>1 DEF CopyMeasurement, Results
  <2> QED
    BY <1>6, <2>2 DEF CopyMeasurement, Unlock
<1> QED
  BY <1>1, <1>2, <1>3, <1>4, <1>5, <1>6 DEF ReadStep

LEMMA TypeStep == TypeOK /\ [Next]_vars => TypeOK'
<1>1. TypeOK /\ UNCHANGED vars => TypeOK'
  BY DEF TypeOK, vars, hardware, readerVars, plateVars
<1> QED
  BY <1>1, DriverKeepsType, ReaderKeepsType, PlateKeepsType DEF Next

(* The state stays in the ranges of the declarations, for any bus. *)
THEOREM TypeCorrect == Spec => []TypeOK
  BY TypeInit, TypeStep, PTL DEF Spec

-----------------------------------------------------------------------------
(* What a step of one device's read() may change. *)
PlateSteps ==
    \E p \in Plates : \/ Attach(p) \/ Detach(p) \/ ClosePlate(p)
                      \/ ReadDetached(p) \/ ReadBegin(p) \/ ReadStep(p)

DriverSteps == Tick \/ PacketArrives \/ Open \/ CloseBegin \/ CloseEnd

LEMMA NextSplit == [Next]_vars => DriverSteps \/ ReaderStep \/ PlateSteps \/ UNCHANGED vars
  BY DEF Next, DriverSteps, PlateSteps

LEMMA ExclusiveInit == Init => Exclusive
  BY DEF Init, Exclusive, Polling

LEMMA ExclusiveStep == TypeOK /\ Exclusive /\ [Next]_vars => Exclusive'
<1> SUFFICES ASSUME TypeOK, Exclusive, [Next]_vars PROVE Exclusive'
  OBVIOUS
<1> USE DEF Exclusive, Polling
<1>1. CASE Tick \/ PacketArrives \/ UNCHANGED vars
  BY <1>1 DEF Tick, PacketArrives, vars, readerVars, plateVars
<1>2. CASE Open
  BY <1>2 DEF Open, MutexFree, plateVars
<1>3. CASE CloseBegin
  BY <1>3 DEF CloseBegin, MutexFree, readerVars, plateVars
<1>4. CASE CloseEnd
  BY <1>4 DEF CloseEnd, plateVars
<1>5. CASE ReaderStep
  BY <1>5 DEF ReaderStep, Wake, LockReader, GetCurrentData, UpdateStamp, EndRun, MutexFree, plateVars
<1>6. ASSUME NEW p \in Plates, Attach(p) \/ Detach(p) \/ ClosePlate(p) \/ ReadDetached(p)
      PROVE  Exclusive'
  BY <1>6 DEF Attach, Detach, ClosePlate, ReadDetached, readerVars
<1>7. ASSUME NEW p \in Plates, ReadBegin(p) \/ LockDriver(p) PROVE Exclusive'
  BY <1>7 DEF ReadBegin, LockDriver, MutexFree, readerVars, TypeOK
<1>8. ASSUME NEW p \in Plates, RefuseIndex(p) \/ CopyMeasurement(p) PROVE Exclusive'
  BY <1>8 DEF RefuseIndex, CopyMeasurement, Unlock, readerVars, TypeOK
<1> QED
  BY <1>1, <1>2, <1>3, <1>4, <1>5, <1>6, <1>7, <1>8 DEF Next, ReadStep

LEMMA ExclusiveInductive == Spec => [](TypeOK /\ Exclusive)
  BY TypeInit, TypeStep, ExclusiveInit, ExclusiveStep, PTL DEF Spec

-----------------------------------------------------------------------------
(* A device copies only outside a run of the reader. *)
LEMMA CopyOutsideRun ==
    ASSUME Exclusive, NEW p \in Plates, ppc[p] = "copying"
    PROVE  ~Polling
  BY DEF Exclusive

(* The results of the devices change in the steps of their own read()      *)
(* only, and to a status other than an error in CopyMeasurement only.      *)
LEMMA ResultsOf ==
    ASSUME TypeOK, NEW p \in Plates,
           Attach(p) \/ Detach(p) \/ ClosePlate(p) \/ ReadDetached(p) \/ ReadBegin(p)
             \/ LockDriver(p) \/ RefuseIndex(p),
           NEW q \in Plates
    PROVE  result'[q] = result[q] \/ result'[q].status = "ERROR"
<1>1. CASE result' = result
  BY <1>1
<1>2. CASE ReadDetached(p) \/ RefuseIndex(p)
  BY <1>2 DEF ReadDetached, RefuseIndex, TypeOK, Results
<1>3. result' = result \/ ReadDetached(p) \/ RefuseIndex(p)
  BY DEF Attach, Detach, ClosePlate, ReadBegin, LockDriver
<1> QED
  BY <1>1, <1>2, <1>3

LEMMA CopyResult ==
    ASSUME TypeOK, NEW p \in Plates, CopyMeasurement(p), NEW q \in Plates
    PROVE  IF q = p
           THEN /\ result'[q].status = status /\ result'[q].packet = readings
                /\ result'[q].from = serials[index[p]]
                /\ result'[q].stamp = stamp /\ result'[q].checked = checked
           ELSE result'[q] = result[q]
  BY DEF CopyMeasurement, TypeOK

LEMMA StampedStep == TypeOK /\ Exclusive /\ Stamped /\ [Next]_vars => Stamped'
<1> SUFFICES ASSUME TypeOK, Exclusive, Stamped, [Next]_vars PROVE Stamped'
  OBVIOUS
<1>1. CASE DriverSteps \/ UNCHANGED vars
  <2>1. /\ readings' = readings /\ stamp' = stamp /\ result' = result
        /\ reader' = reader \/ reader # "stamping"
    BY <1>1 DEF DriverSteps, Tick, PacketArrives, Open, CloseBegin, CloseEnd, vars, readerVars,
       plateVars, Exclusive, Polling, MutexFree
  <2> QED
    BY <2>1 DEF Stamped, MeasurementMatchesStamp
<1>2. CASE ReaderStep
  <2>1. result' = result
    BY <1>2 DEF ReaderStep, Wake, LockReader, GetCurrentData, UpdateStamp, EndRun, plateVars
  <2>2. reader' # "stamping" => readings' = stamp'.packet
    BY <1>2 DEF ReaderStep, Wake, LockReader, GetCurrentData, UpdateStamp, EndRun, Stamped
  <2> QED
    BY <2>1, <2>2 DEF Stamped, MeasurementMatchesStamp
<1>3. ASSUME NEW p \in Plates,
             Attach(p) \/ Detach(p) \/ ClosePlate(p) \/ ReadDetached(p) \/ ReadBegin(p)
               \/ LockDriver(p) \/ RefuseIndex(p)
      PROVE  Stamped'
  <2>1. UNCHANGED <<reader, readings, stamp>>
    BY <1>3 DEF Attach, Detach, ClosePlate, ReadDetached, ReadBegin, LockDriver, RefuseIndex,
       readerVars
  <2>2. \A q \in Plates : result'[q] = result[q] \/ result'[q].status = "ERROR"
    BY <1>3, ResultsOf
  <2> QED
    BY <2>1, <2>2 DEF Stamped, MeasurementMatchesStamp
<1>4. ASSUME NEW p \in Plates, CopyMeasurement(p) PROVE Stamped'
  <2>1. ~Polling /\ UNCHANGED <<reader, readings, stamp>>
    BY <1>4, CopyOutsideRun DEF CopyMeasurement, readerVars
  <2>2. readings = stamp.packet
    BY <2>1 DEF Stamped, Polling
  <2> QED
    BY <1>4, <2>1, <2>2, CopyResult DEF Stamped, MeasurementMatchesStamp
<1> QED
  BY <1>1, <1>2, <1>3, <1>4, NextSplit DEF PlateSteps, ReadStep

(* Every good measurement comes with the stamp of its own packet. *)
THEOREM StampsMatch == Spec => []MeasurementMatchesStamp
<1>1. Init => Stamped
  BY DEF Init, Stamped, MeasurementMatchesStamp
<1>2. Stamped => MeasurementMatchesStamp
  BY DEF Stamped
<1> QED
  BY ExclusiveInductive, StampedStep, <1>1, <1>2, PTL DEF Spec

-----------------------------------------------------------------------------
LEMMA IndexIsOwnInit == Init => IndexIsOwn
  BY DEF Init, IndexIsOwn, ReadsOwnPlatform

LEMMA IndexIsOwnStep == TypeOK /\ IndexIsOwn /\ [Next]_vars => IndexIsOwn'
<1> SUFFICES ASSUME TypeOK, IndexIsOwn, [Next]_vars PROVE IndexIsOwn'
  OBVIOUS
<1>1. CASE DriverSteps \/ ReaderStep \/ UNCHANGED vars
  <2>1. serials' = serials /\ UNCHANGED plateVars
    BY <1>1 DEF DriverSteps, Tick, PacketArrives, Open, CloseBegin, CloseEnd, ReaderStep, Wake,
       LockReader, GetCurrentData, UpdateStamp, EndRun, vars, hardware
  <2> QED
    BY <2>1 DEF IndexIsOwn, ReadsOwnPlatform, plateVars
<1>2. ASSUME NEW p \in Plates, Attach(p) PROVE IndexIsOwn'
  <2>1. /\ index'[p] < NumPlatforms => serials[index'[p]] = p
        /\ attached'[p]
        /\ \A q \in Plates \ {p} : index'[q] = index[q] /\ attached'[q] = attached[q]
    BY <1>2, PlatformIndex DEF Attach, TypeOK
  <2>2. UNCHANGED <<serials, ppc, result>>
    BY <1>2 DEF Attach, hardware
  <2> QED
    BY <2>1, <2>2 DEF IndexIsOwn, ReadsOwnPlatform
<1>3. ASSUME NEW p \in Plates, Detach(p) \/ ClosePlate(p) PROVE IndexIsOwn'
  BY <1>3 DEF Detach, ClosePlate, hardware, IndexIsOwn, ReadsOwnPlatform, TypeOK
<1>4. ASSUME NEW p \in Plates, ReadDetached(p) \/ ReadBegin(p) \/ LockDriver(p) \/ RefuseIndex(p)
      PROVE  IndexIsOwn'
  <2>1. UNCHANGED <<serials, index, attached>>
    BY <1>4 DEF ReadDetached, ReadBegin, LockDriver, RefuseIndex, hardware
  <2>2. \A q \in Plates : ppc'[q] # "out" => attached[q]
    BY <1>4 DEF ReadDetached, ReadBegin, LockDriver, RefuseIndex, IndexIsOwn, TypeOK
  <2>3. \A q \in Plates : result'[q] = result[q] \/ result'[q].status = "ERROR"
    BY <1>4, ResultsOf
  <2> QED
    BY <2>1, <2>2, <2>3 DEF IndexIsOwn, ReadsOwnPlatform
<1>5. ASSUME NEW p \in Plates, CopyMeasurement(p) PROVE IndexIsOwn'
  <2>1. UNCHANGED <<serials, index, attached>>
    BY <1>5 DEF CopyMeasurement, hardware
  <2>2. \A q \in Plates : ppc'[q] # "out" => attached[q]
    BY <1>5 DEF CopyMeasurement, IndexIsOwn, TypeOK
  <2>3. serials[index[p]] = p
    BY <1>5 DEF CopyMeasurement, IndexIsOwn
  <2> QED
    BY <1>5, <2>1, <2>2, <2>3, CopyResult DEF IndexIsOwn, ReadsOwnPlatform
<1> QED
  BY <1>1, <1>2, <1>3, <1>4, <1>5, NextSplit DEF PlateSteps, ReadStep

(* However the bus orders its platforms, no device reads another's. *)
THEOREM PlatformsNotMixed == Spec => []ReadsOwnPlatform
<1>1. IndexIsOwn => ReadsOwnPlatform
  BY DEF IndexIsOwn
<1> QED
  BY TypeCorrect, IndexIsOwnInit, IndexIsOwnStep, <1>1, PTL DEF Spec

-----------------------------------------------------------------------------
LEMMA ClosedIsErrorStep ==
    TypeOK /\ Exclusive /\ ClosedIsError /\ [Next]_vars => ClosedIsError'
<1> SUFFICES ASSUME TypeOK, Exclusive, ClosedIsError, [Next]_vars PROVE ClosedIsError'
  OBVIOUS
<1>1. CASE DriverSteps
  BY <1>1 DEF DriverSteps, Tick, PacketArrives, Open, CloseBegin, CloseEnd, SetError, readerVars,
     Exclusive, Polling, MutexFree, ClosedIsError
<1>2. CASE ReaderStep
  BY <1>2 DEF ReaderStep, Wake, LockReader, GetCurrentData, UpdateStamp, EndRun, Exclusive, Polling,
     MutexFree, ClosedIsError
<1>3. CASE PlateSteps \/ UNCHANGED vars
  <2>1. UNCHANGED <<driver, status, reader>>
    BY <1>3 DEF PlateSteps, Attach, Detach, ClosePlate, ReadDetached, ReadBegin, ReadStep, LockDriver,
       RefuseIndex, CopyMeasurement, readerVars, vars
  <2> QED
    BY <2>1 DEF ClosedIsError, Polling
<1> QED
  BY <1>1, <1>2, <1>3, NextSplit

LEMMA ClosedIsErrorInductive == Spec => []ClosedIsError
<1>1. Init => ClosedIsError
  BY DEF Init, ClosedIsError
<1> QED
  BY ExclusiveInductive, ClosedIsErrorStep, <1>1, PTL DEF Spec

(* A driver that was closed answers only errors. *)
THEOREM ClosedDriverReportsError == Spec => []ShutDriverReportsError
<1>1. ClosedIsError => ShutDriverReportsError
  BY DEF ClosedIsError, ShutDriverReportsError
<1> QED
  BY ClosedIsErrorInductive, <1>1, PTL

-----------------------------------------------------------------------------
(* The order of the measurements *)

(* Time stamps and packets come in the order in which they pass from the   *)
(* platforms over the reader to the devices.                               *)
InOrder ==
    /\ stamp.time <= now
    /\ stamp.packet <= readings /\ readings <= packets
    /\ \A p \in Plates : /\ result[p].stamp.time <= stamp.time
                         /\ result[p].stamp.packet <= stamp.packet

LEMMA StampNumbers ==
    ASSUME TypeOK
    PROVE  /\ now \in Int /\ packets \in Int /\ readings \in Int
           /\ stamp.time \in Int /\ stamp.packet \in Int
           /\ \A p \in Plates : result[p].stamp.time \in Int /\ result[p].stamp.packet \in Int
<1>1. \A x \in Stamps : x.time \in Int /\ x.packet \in Int
  BY DEF Stamps
<1>2. \A p \in Plates : result[p].stamp \in Stamps
  BY DEF TypeOK, Results
<1> QED
  BY <1>1, <1>2 DEF TypeOK

(* A step of the surroundings, the owner or the reader keeps the results,  *)
(* and moves the clock, the packets, the readings and the stamp forward.   *)
LEMMA SourcesGrow ==
    ASSUME TypeOK, InOrder, DriverSteps \/ ReaderStep \/ UNCHANGED vars
    PROVE  /\ result' = result
           /\ stamp'.time >= stamp.time /\ stamp'.packet >= stamp.packet
           /\ stamp'.time <= now' /\ stamp'.packet <= readings' /\ readings' <= packets'
<1>1. result' = result
  BY DEF DriverSteps, Tick, PacketArrives, Open, CloseBegin, CloseEnd, ReaderStep, Wake, LockReader,
     GetCurrentData, UpdateStamp, EndRun, vars, plateVars
<1>2. CASE UpdateStamp
  <2>1. stamp'.time = now /\ stamp'.packet = readings /\ UNCHANGED <<now, packets, readings>>
    BY <1>2 DEF UpdateStamp, hardware
  <2> QED
    BY <1>1, <2>1, StampNumbers DEF InOrder
<1>3. CASE GetCurrentData
  <2>1. readings' = packets /\ UNCHANGED <<now, packets, stamp>>
    BY <1>3 DEF GetCurrentData
  <2> QED
    BY <1>1, <2>1, StampNumbers DEF InOrder
<1>4. CASE Tick \/ PacketArrives
  <2>1. /\ now' = now \/ now' = now + 1
        /\ packets' = packets \/ packets' = packets + 1
        /\ UNCHANGED <<stamp, readings>>
    BY <1>4 DEF Tick, PacketArrives, readerVars
  <2> QED
    BY <1>1, <2>1, StampNumbers DEF InOrder
<1>5. CASE UNCHANGED <<now, packets, readings, stamp>>
  BY <1>1, <1>5, StampNumbers DEF InOrder
<1> QED
  BY <1>2, <1>3, <1>4, <1>5 DEF DriverSteps, Open, CloseBegin, CloseEnd, ReaderStep, Wake,
     LockReader, EndRun, vars, hardware, readerVars

(* What a device has read stays, or becomes the driver's present stamp.    *)
LEMMA ResultsGrow ==
    ASSUME TypeOK, InOrder, PlateSteps
    PROVE  /\ UNCHANGED <<now, packets, readings, stamp>>
           /\ \A q \in Plates : result'[q].stamp = result[q].stamp \/ result'[q].stamp = stamp
<1>1. UNCHANGED <<now, packets, readings, stamp>>
  BY DEF PlateSteps, Attach, Detach, ClosePlate, ReadDetached, ReadBegin, ReadStep, LockDriver,
     RefuseIndex, CopyMeasurement, hardware, readerVars
<1>2. ASSUME NEW p \in Plates, ReadDetached(p) \/ RefuseIndex(p), NEW q \in Plates
      PROVE  result'[q].stamp = result[q].stamp
  <2>1. result \in [Plates -> Results] /\ result[p] \in Results
    BY DEF TypeOK
  <2>2. CASE ReadDetached(p)
    BY <2>1, <2>2 DEF ReadDetached, Results
  <2>3. CASE RefuseIndex(p)
    BY <2>1, <2>3 DEF RefuseIndex, Results
  <2> QED
    BY <1>2, <2>2, <2>3
<1>3. ASSUME NEW p \in Plates, CopyMeasurement(p), NEW q \in Plates
      PROVE  result'[q].stamp = result[q].stamp \/ result'[q].stamp = stamp
  BY <1>3, CopyResult
<1>4. ASSUME NEW p \in Plates,
             Attach(p) \/ Detach(p) \/ ClosePlate(p) \/ ReadBegin(p) \/ LockDriver(p)
      PROVE  result' = result
  BY <1>4 DEF Attach, Detach, ClosePlate, ReadBegin, LockDriver
<1> QED
  BY <1>1, <1>2, <1>3, <1>4 DEF PlateSteps, ReadStep

LEMMA InOrderStep ==
    TypeOK /\ InOrder /\ [Next]_vars =>
        /\ InOrder'
        /\ \A p \in Plates : /\ result'[p].stamp.time >= result[p].stamp.time
                             /\ result'[p].stamp.packet >= result[p].stamp.packet
<1> SUFFICES ASSUME TypeOK, InOrder, [Next]_vars
             PROVE  /\ InOrder'
                    /\ \A p \in Plates : /\ result'[p].stamp.time >= result[p].stamp.time
                                         /\ result'[p].stamp.packet >= result[p].stamp.packet
  OBVIOUS
<1>1. TypeOK'
  BY TypeStep
<1>2. /\ stamp'.time \in Int /\ stamp'.packet \in Int
      /\ \A p \in Plates : result'[p].stamp.time \in Int /\ result'[p].stamp.packet \in Int
  <2>1. \A x \in Stamps : x.time \in Int /\ x.packet \in Int
    BY DEF Stamps
  <2>2. \A p \in Plates : result'[p].stamp \in Stamps
    BY <1>1 DEF TypeOK, Results
  <2> QED
    BY <1>1, <2>1, <2>2 DEF TypeOK
<1>3. CASE DriverSteps \/ ReaderStep \/ UNCHANGED vars
  BY <1>2, <1>3, SourcesGrow, StampNumbers DEF InOrder
<1>4. CASE PlateSteps
  BY <1>4, ResultsGrow, StampNumbers DEF InOrder
<1> QED
  BY <1>3, <1>4, NextSplit

(* Neither the packet nor the time of what a device reads ever goes back,  *)
(* whatever happens between two reads: other devices, failed reads, runs   *)
(* of the reader in the middle, a detach or a close.                       *)
THEOREM MeasurementsInOrder ==
    Spec => [][\A p \in Plates : /\ result'[p].stamp.time >= result[p].stamp.time
                                 /\ result'[p].stamp.packet >= result[p].stamp.packet]_vars
<1>1. Init => InOrder
  BY CountersStep DEF Init, InOrder
<1>2. TypeOK /\ InOrder /\ [Next]_vars =>
        [\A p \in Plates : /\ result'[p].stamp.time >= result[p].stamp.time
                           /\ result'[p].stamp.packet >= result[p].stamp.packet]_vars
  BY InOrderStep
<1>3. TypeOK /\ InOrder /\ [Next]_vars => InOrder'
  BY InOrderStep
<1> QED
  BY TypeCorrect, <1>1, <1>2, <1>3, PTL DEF Spec

-----------------------------------------------------------------------------
(* The refinement *)

(* A packet is in the buffer only if it is newer than what was fetched,    *)
(* and fetched once: it is stamped before the next one is.                 *)
EachPacketOnce ==
    /\ readings <= packets /\ stamp.packet <= readings
    /\ buffered => readings < packets
    /\ reader = "stamping" => stamp.packet < readings

Unknown(p) == \A i \in Indices : serials[i] # p

(* An attached device whose index is out of range has no platform, so it   *)
(* never read anything a failed read could take back.                      *)
StrangersReadNothing ==
    \A p \in Plates : /\ attached[p] /\ index[p] >= NumPlatforms => Unknown(p)
                      /\ Unknown(p) => result[p].packet = 0

LEMMA EachPacketOnceStep == TypeOK /\ EachPacketOnce /\ [Next]_vars => EachPacketOnce'
<1> SUFFICES ASSUME TypeOK, EachPacketOnce, [Next]_vars PROVE EachPacketOnce'
  OBVIOUS
<1> USE StampNumbers DEF EachPacketOnce
<1>1. CASE PacketArrives
  BY <1>1 DEF PacketArrives, readerVars
<1>2. CASE GetCurrentData
  BY <1>2 DEF GetCurrentData
<1>3. CASE UpdateStamp
  BY <1>3 DEF UpdateStamp, hardware
<1>4. CASE UNCHANGED <<packets, buffered, readings, stamp>> /\ (reader' = "stamping" => reader = "stamping")
  BY <1>4
<1>5. CASE DriverSteps \/ UNCHANGED vars
  BY <1>1, <1>4, <1>5 DEF DriverSteps, Tick, Open, CloseBegin, CloseEnd, vars, hardware, readerVars
<1>6. CASE ReaderStep
  BY <1>2, <1>3, <1>4, <1>6 DEF ReaderStep, Wake, LockReader, EndRun, hardware
<1>7. CASE PlateSteps
  BY <1>4, <1>7 DEF PlateSteps, Attach, Detach, ClosePlate, ReadDetached, ReadBegin, ReadStep,
     LockDriver, RefuseIndex, CopyMeasurement, hardware, readerVars
<1> QED
  BY <1>5, <1>6, <1>7, NextSplit

LEMMA UnknownIndex ==
    ASSUME TypeOK, NEW p \in Plates
    PROVE  ToUnsigned(GetPlatformIndexForPlatformID(p)) >= NumPlatforms => Unknown(p)
<1>1. CASE \E i \in Indices : serials[i] = p
  <2>1. GetPlatformIndexForPlatformID(p) \in Indices
    BY <1>1 DEF GetPlatformIndexForPlatformID
  <2>2. \A i \in Indices : ~(i >= NumPlatforms)
    BY DEF Indices
  <2> QED
    BY <2>1, <2>2, UnsignedIndex
<1> QED
  BY <1>1 DEF Unknown

LEMMA StrangersStep ==
    TypeOK /\ IndexIsOwn /\ StrangersReadNothing /\ [Next]_vars => StrangersReadNothing'
<1> SUFFICES ASSUME TypeOK, IndexIsOwn, StrangersReadNothing, [Next]_vars
             PROVE  StrangersReadNothing'
  OBVIOUS
<1> USE DEF StrangersReadNothing, Unknown
<1>1. serials' = serials
  BY DEF Next, Tick, PacketArrives, Open, CloseBegin, CloseEnd, ReaderStep, Wake, LockReader,
     GetCurrentData, UpdateStamp, EndRun, Attach, Detach, ClosePlate, ReadDetached, ReadBegin,
     ReadStep, LockDriver, RefuseIndex, CopyMeasurement, vars, hardware
<1>2. CASE index' = index /\ result' = result /\ \A q \in Plates : attached'[q] => attached[q]
  BY <1>1, <1>2
<1>3. ASSUME NEW p \in Plates, Attach(p) PROVE StrangersReadNothing'
  <2>1. /\ result' = result
        /\ \A q \in Plates \ {p} : index'[q] = index[q] /\ attached'[q] = attached[q]
    BY <1>3 DEF Attach, TypeOK
  <2>2. index'[p] = ToUnsigned(GetPlatformIndexForPlatformID(p))
    BY <1>3 DEF Attach, TypeOK
  <2> QED
    BY <1>1, <2>1, <2>2, UnknownIndex
<1>4. ASSUME NEW p \in Plates, ReadDetached(p) \/ RefuseIndex(p) PROVE StrangersReadNothing'
  <2>1. index' = index /\ attached' = attached
    BY <1>4 DEF ReadDetached, RefuseIndex
  <2>2. \A q \in Plates : result'[q].packet \in {0, result[q].packet}
    BY <1>4 DEF ReadDetached, RefuseIndex, TypeOK, Results
  <2> QED
    BY <1>1, <2>1, <2>2
<1>5. ASSUME NEW p \in Plates, CopyMeasurement(p) PROVE StrangersReadNothing'
  <2>1. /\ index' = index /\ attached' = attached
        /\ \A q \in Plates \ {p} : result'[q] = result[q]
    BY <1>5, CopyResult DEF CopyMeasurement
  <2>2. index[p] \in Indices /\ serials[index[p]] = p
    BY <1>5 DEF CopyMeasurement, IndexIsOwn, TypeOK, Unsigned, Indices
  <2> QED
    BY <1>1, <2>1, <2>2
<1>6. CASE DriverSteps \/ ReaderStep \/ UNCHANGED vars
  BY <1>2, <1>6 DEF DriverSteps, Tick, PacketArrives, Open, CloseBegin, CloseEnd, ReaderStep, Wake,
     LockReader, GetCurrentData, UpdateStamp, EndRun, vars, plateVars
<1>7. ASSUME NEW p \in Plates, Detach(p) \/ ClosePlate(p) \/ ReadBegin(p) \/ LockDriver(p)
      PROVE  StrangersReadNothing'
  BY <1>2, <1>7 DEF Detach, ClosePlate, ReadBegin, LockDriver, TypeOK
<1> QED
  BY <1>3, <1>4, <1>5, <1>6, <1>7, NextSplit DEF PlateSteps, ReadStep

BoardInv == TypeOK /\ Exclusive /\ Stamped /\ IndexIsOwn /\ EachPacketOnce /\ StrangersReadNothing

LEMMA BoardInductive == Spec => []BoardInv
<1>1. Init => Stamped /\ EachPacketOnce /\ StrangersReadNothing
  <2> SUFFICES ASSUME Init PROVE Stamped /\ EachPacketOnce /\ StrangersReadNothing
    OBVIOUS
  <2>1. Stamped /\ EachPacketOnce
    BY DEF Init, Stamped, MeasurementMatchesStamp, EachPacketOnce
  <2>2. StrangersReadNothing
    <3>1. \A p \in Plates : ~attached[p] /\ result[p].packet = 0
      BY DEF Init
    <3> QED
      BY <3>1 DEF StrangersReadNothing
  <2> QED
    BY <2>1, <2>2
<1> QED
  BY ExclusiveInductive, StampedStep, IndexIsOwnInit, IndexIsOwnStep, EachPacketOnceStep,
     StrangersStep, <1>1, PTL DEF Spec, BoardInv

LEMMA BoardInit == Init => Board!Init
  BY DEF Init, lastRead, Board!Init, Board!Nothing

(* UpdateStamp publishes the packet that was fetched. *)
LEMMA BoardPublish == BoardInv /\ UpdateStamp => \E n \in 1..packets : Board!Publish(n)
<1> SUFFICES ASSUME BoardInv, UpdateStamp PROVE \E n \in 1..packets : Board!Publish(n)
  OBVIOUS
<1>1. readings \in 1..packets /\ readings > stamp.packet
  <2>1. reader = "stamping"
    BY DEF UpdateStamp
  <2>2. stamp.packet \in Nat /\ readings \in Nat /\ packets \in Nat
    <3>1. \A x \in Stamps : x.packet \in Nat
      BY DEF Stamps
    <3> QED
      BY <3>1 DEF BoardInv, TypeOK
  <2> QED
    BY <2>1, <2>2 DEF BoardInv, EachPacketOnce
<1>2. /\ stamp' = [packet |-> readings, time |-> now]
      /\ now' = now /\ packets' = packets /\ result' = result
  BY DEF UpdateStamp, hardware, plateVars
<1>3. lastRead' = lastRead
  BY <1>2 DEF lastRead
<1>4. readings <= packets
  BY <1>1 DEF BoardInv, EachPacketOnce
<1> QED
  BY <1>1, <1>2, <1>3, <1>4 DEF Board!Publish

(* A device copies the published measurement with its own stamp. *)
LEMMA BoardRead ==
    ASSUME BoardInv, NEW p \in Plates, CopyMeasurement(p)
    PROVE  Board!Read(p)
<1>1. readings = stamp.packet /\ UNCHANGED <<now, packets, stamp>>
  BY CopyOutsideRun DEF BoardInv, Stamped, Polling, CopyMeasurement, hardware, readerVars
<1>2. stamp = [packet |-> stamp.packet, time |-> stamp.time]
  BY DEF BoardInv, TypeOK, Stamps
<1>3. \A q \in Plates : lastRead'[q] = [lastRead EXCEPT ![p] = stamp][q]
  <2>1. TypeOK
    BY DEF BoardInv
  <2>2. lastRead'[p] = [packet |-> readings, time |-> stamp.time]
    BY <2>1, CopyResult DEF lastRead
  <2>3. \A q \in Plates \ {p} : lastRead'[q] = lastRead[q]
    BY <2>1, CopyResult DEF lastRead
  <2> QED
    BY <1>1, <1>2, <2>2, <2>3 DEF lastRead
<1>4. lastRead' = [lastRead EXCEPT ![p] = stamp]
  BY <1>3 DEF lastRead
<1> QED
  BY <1>1, <1>4 DEF Board!Read

(* A read that fails leaves what the device read before. *)
LEMMA FailedRead ==
    ASSUME BoardInv, NEW p \in Plates, ReadDetached(p) \/ RefuseIndex(p)
    PROVE  UNCHANGED Board!bvars
<1>1. UNCHANGED <<now, packets, stamp>>
  BY DEF ReadDetached, RefuseIndex, hardware, readerVars
<1>2. \A q \in Plates : result'[q].packet = result[q].packet /\ result'[q].stamp = result[q].stamp
  <2>1. result \in [Plates -> Results] /\ result[p] \in Results
    BY DEF BoardInv, TypeOK
  <2>2. CASE ReadDetached(p)
    BY <2>1, <2>2 DEF ReadDetached, Results
  <2>3. CASE RefuseIndex(p)
    <3>1. result[p].packet = 0
      BY <2>3 DEF RefuseIndex, BoardInv, IndexIsOwn, StrangersReadNothing
    <3> QED
      BY <2>1, <2>3, <3>1 DEF RefuseIndex, Results
  <2> QED
    BY <2>2, <2>3
<1>3. lastRead' = lastRead
  BY <1>2 DEF lastRead
<1> QED
  BY <1>1, <1>3 DEF Board!bvars

LEMMA BoardStep == BoardInv /\ [Next]_vars => [Board!Next]_Board!bvars
<1> SUFFICES ASSUME BoardInv, [Next]_vars PROVE [Board!Next]_Board!bvars
  OBVIOUS
<1>1. CASE Tick
  BY <1>1 DEF Tick, readerVars, plateVars, lastRead, Board!Next, Board!Tick
<1>2. CASE PacketArrives
  BY <1>2 DEF PacketArrives, readerVars, plateVars, lastRead, Board!Next, Board!Send
<1>3. CASE UpdateStamp
  BY <1>3, BoardPublish DEF Board!Next
<1>4. ASSUME NEW p \in Plates, CopyMeasurement(p) PROVE Board!Next
  BY <1>4, BoardRead DEF Board!Next
<1>5. ASSUME NEW p \in Plates, ReadDetached(p) \/ RefuseIndex(p) PROVE UNCHANGED Board!bvars
  BY <1>5, FailedRead
<1> USE DEF Board!bvars, lastRead, hardware, readerVars, plateVars
<1>6. CASE Open \/ CloseBegin \/ CloseEnd
  BY <1>6 DEF Open, CloseBegin, CloseEnd
<1>7. CASE Wake \/ LockReader \/ GetCurrentData \/ EndRun
  BY <1>7 DEF Wake, LockReader, GetCurrentData, EndRun
<1>8. ASSUME NEW p \in Plates,
             Attach(p) \/ Detach(p) \/ ClosePlate(p) \/ ReadBegin(p) \/ LockDriver(p)
      PROVE  UNCHANGED Board!bvars
  BY <1>8 DEF Attach, Detach, ClosePlate, ReadBegin, LockDriver
<1>9. CASE UNCHANGED vars
  BY <1>9 DEF vars
<1> QED
  BY <1>1, <1>2, <1>3, <1>4, <1>5, <1>6, <1>7, <1>8, <1>9 DEF Next, ReaderStep, ReadStep

(* The driver and its devices implement the measurement board: fetching,   *)
(* stamping and copying, steps of several threads, publish each packet at  *)
(* one instant and read the board at one instant.                          *)
THEOREM Refinement == Spec => ImplementsMeasurementBoard
  BY BoardInductive, BoardInit, BoardStep, PTL DEF Spec, ImplementsMeasurementBoard, Board!Spec

-----------------------------------------------------------------------------
(* How old a good measurement is *)

LEMMA StatusIsCheckedStep ==
    TypeOK /\ Exclusive /\ ClosedIsError /\ EachPacketOnce /\ InOrder /\ StatusIsChecked
      /\ [Next]_vars => StatusIsChecked'
<1> SUFFICES ASSUME TypeOK, Exclusive, ClosedIsError, EachPacketOnce, InOrder, StatusIsChecked,
                    [Next]_vars
             PROVE  StatusIsChecked'
  OBVIOUS
<1>1. CASE Open
  <2>1. checked = -1 /\ stamp.packet = 0 /\ -1 <= Timeout
    BY <1>1 DEF Open, StatusIsChecked, ClosedIsError, Polling
  <2>2. Recent(stamp, checked)
    BY <2>1 DEF Recent
  <2> QED
    BY <1>1, <2>1, <2>2 DEF Open, StatusIsChecked, plateVars
<1>2. CASE Tick \/ PacketArrives \/ CloseBegin \/ CloseEnd \/ UNCHANGED vars
  <2>1. /\ UNCHANGED <<stamp, checked, result>>
        /\ status' = status \/ status' = "ERROR"
        /\ reader' = reader \/ (reader = "ended" /\ reader' = "none")
        /\ driver' = "new" => driver = "new"
    BY <1>2 DEF Tick, PacketArrives, CloseBegin, CloseEnd, SetError, readerVars, plateVars, vars
  <2> QED
    BY <2>1 DEF StatusIsChecked, Polling
<1>3. CASE Wake \/ LockReader \/ GetCurrentData
  <2>1. UNCHANGED <<driver, status, stamp, checked, result>> /\ (Polling' \/ ~Polling)
    BY <1>3 DEF Wake, LockReader, GetCurrentData, Polling, plateVars
  <2> QED
    BY <2>1 DEF StatusIsChecked
<1>4. CASE UpdateStamp
  <2>1. stamp.packet < readings /\ stamp.packet \in Nat /\ readings \in Nat
    <3>1. \A x \in Stamps : x.packet \in Nat
      BY DEF Stamps
    <3> QED
      BY <1>4, <3>1 DEF UpdateStamp, EachPacketOnce, TypeOK
  <2>2. stamp'.packet # 0
    BY <1>4, <2>1 DEF UpdateStamp
  <2>3. UNCHANGED <<driver, status, checked, result>> /\ Polling'
    BY <1>4 DEF UpdateStamp, Polling, plateVars
  <2> QED
    BY <2>2, <2>3 DEF StatusIsChecked
<1>5. CASE EndRun
  <2>1. /\ checked' = now
        /\ UNCHANGED <<driver, stamp, result>>
        /\ status' = "OK" => ~TooOld
    BY <1>5 DEF EndRun, CheckTimeout, plateVars
  <2>2. driver # "new" /\ now # -1
    BY <1>5 DEF EndRun, ClosedIsError, TypeOK
  <2>3. ~TooOld => Recent(stamp, now)
    <3>1. now \in Int /\ stamp.time \in Int /\ stamp.time <= now
      BY StampNumbers DEF InOrder
    <3>2. stamp.packet = 0 => stamp.time = 0
      BY DEF StatusIsChecked
    <3> QED
      BY <3>1, <3>2 DEF TooOld, Recent
  <2> QED
    BY <2>1, <2>2, <2>3 DEF StatusIsChecked
<1>6. ASSUME NEW p \in Plates,
             Attach(p) \/ Detach(p) \/ ClosePlate(p) \/ ReadDetached(p) \/ ReadBegin(p)
               \/ LockDriver(p) \/ RefuseIndex(p)
      PROVE  StatusIsChecked'
  <2>1. UNCHANGED <<driver, reader, stamp, checked, status>>
    BY <1>6 DEF Attach, Detach, ClosePlate, ReadDetached, ReadBegin, LockDriver, RefuseIndex,
       readerVars
  <2>2. \A q \in Plates : result'[q] = result[q] \/ result'[q].status = "ERROR"
    BY <1>6, ResultsOf
  <2> QED
    BY <2>1, <2>2 DEF StatusIsChecked, Polling
<1>7. ASSUME NEW p \in Plates, CopyMeasurement(p) PROVE StatusIsChecked'
  <2>1. ~Polling /\ UNCHANGED <<driver, reader, stamp, checked, status>>
    BY <1>7, CopyOutsideRun DEF CopyMeasurement, readerVars
  <2>2. /\ result'[p].status = status /\ result'[p].stamp = stamp /\ result'[p].checked = checked
        /\ \A q \in Plates \ {p} : result'[q] = result[q]
    BY <1>7, CopyResult
  <2> QED
    BY <2>1, <2>2 DEF StatusIsChecked, Polling
<1> QED
  BY <1>1, <1>2, <1>3, <1>4, <1>5, <1>6, <1>7 DEF Next, ReaderStep, ReadStep

(* A measurement is good only if run() found it recent after it got its    *)
(* stamp, and the zeros of a driver without packets are good no longer     *)
(* than the timeout.                                                       *)
THEOREM GoodIsRecent == Spec => []GoodMeasurementIsRecent
<1>1. Init => StatusIsChecked /\ InOrder
  BY DEF Init, StatusIsChecked, Recent, InOrder
<1>2. Stamped /\ StatusIsChecked => GoodMeasurementIsRecent
  BY DEF Stamped, MeasurementMatchesStamp, StatusIsChecked, Recent, GoodMeasurementIsRecent
<1>3. BoardInv => TypeOK /\ Exclusive /\ Stamped /\ EachPacketOnce
  BY DEF BoardInv
<1>4. TypeOK /\ InOrder /\ [Next]_vars => InOrder'
  BY InOrderStep
<1> QED
  BY BoardInductive, ClosedIsErrorInductive, StatusIsCheckedStep, <1>1, <1>2, <1>3, <1>4, PTL
     DEF Spec

-----------------------------------------------------------------------------
(* The safety that the liveness of the reader and of close() rests on *)

(* The steps of run() until it releases m_mutex, if no packet arrives. *)
RunLeft ==
    IF Polling
    THEN 1 + (IF buffered THEN 2 ELSE 0) + (IF reader = "stamping" THEN 1 ELSE 0)
    ELSE 0

(* run() holds m_mutex for four steps and two more for each packet that    *)
(* arrives meanwhile; no device and not the owner sets it back.            *)
THEOREM RunIsBounded ==
    Spec => [][Polling => /\ RunLeft \in 1..4
                          /\ RunLeft' <= RunLeft + (IF packets' = packets THEN 0 ELSE 2)
                          /\ ReaderStep => RunLeft' < RunLeft]_vars
<1> DEFINE Bounded == Polling => /\ RunLeft \in 1..4
                                 /\ RunLeft' <= RunLeft + (IF packets' = packets THEN 0 ELSE 2)
                                 /\ ReaderStep => RunLeft' < RunLeft
<1>1. TypeOK /\ Exclusive /\ ClosedIsError /\ [Next]_vars => [Bounded]_vars
  <2> SUFFICES ASSUME TypeOK, Exclusive, ClosedIsError, [Next]_vars, Polling PROVE Bounded
    OBVIOUS
  <2>1. driver # "new" /\ driver # "closing" /\ driver # "shut"
    BY DEF ClosedIsError, Polling
  <2>2. CASE ReaderStep
    <3>1. \/ buffered /\ ~buffered' /\ reader = "polling" /\ reader' = "stamping"
          \/ buffered' = buffered /\ reader = "stamping" /\ reader' = "polling"
          \/ ~buffered /\ ~buffered' /\ reader = "polling" /\ reader' = "asleep"
      BY <2>2 DEF ReaderStep, Wake, LockReader, GetCurrentData, UpdateStamp, EndRun, Polling,
         hardware
    <3>2. packets' = packets
      BY <2>2 DEF ReaderStep, Wake, LockReader, GetCurrentData, UpdateStamp, EndRun, hardware
    <3> QED
      BY <3>1, <3>2 DEF RunLeft, Polling
  <2>3. CASE PacketArrives
    <3>1. packets' # packets /\ reader' = reader
      BY <2>3 DEF PacketArrives, TypeOK, readerVars
    <3>2. ~ReaderStep
      BY <3>1 DEF ReaderStep, Wake, LockReader, GetCurrentData, UpdateStamp, EndRun, hardware
    <3> QED
      BY <3>1, <3>2 DEF RunLeft, Polling
  <2>4. CASE ~ReaderStep /\ ~PacketArrives
    <3>1. UNCHANGED <<reader, buffered, packets>>
      BY <2>1, <2>4, NextSplit DEF DriverSteps, Tick, Open, CloseBegin, CloseEnd, PlateSteps, Attach,
         Detach, ClosePlate, ReadDetached, ReadBegin, ReadStep, LockDriver, RefuseIndex,
         CopyMeasurement, vars, hardware, readerVars
    <3> QED
      BY <2>4, <3>1 DEF RunLeft, Polling
  <2> QED
    BY <2>2, <2>3, <2>4
<1> QED
  BY ExclusiveInductive, ClosedIsErrorInductive, <1>1, PTL DEF Spec

(* The reader is there from open() until close() joined it. *)
ReaderIsThere == driver \in {"open", "closing"} => reader # "none"

LEMMA ReaderIsThereStep == TypeOK /\ ReaderIsThere /\ [Next]_vars => ReaderIsThere'
  BY DEF ReaderIsThere, Next, Tick, PacketArrives, Open, CloseBegin, CloseEnd, ReaderStep, Wake,
     LockReader, GetCurrentData, UpdateStamp, EndRun, Attach, Detach, ClosePlate, ReadDetached,
     ReadBegin, ReadStep, LockDriver, RefuseIndex, CopyMeasurement, vars, readerVars

(* Whether close() returns is decided when it takes m_mutex.  A reader     *)
(* that waits for m_mutex then waits forever, with close() and with every  *)
(* device that reads; any other ends, and close() returns when it ended.   *)
THEOREM CloseIsDecided ==
    Spec => [][driver = "closing" =>
                 /\ reader = "awake" => reader' = "awake" /\ driver' = "closing"
                 /\ reader # "awake" => \/ reader' = reader /\ driver' = driver
                                        \/ reader = "asleep" /\ reader' = "ended" /\ driver' = driver
                                        \/ reader = "ended" /\ driver' = "shut"
                 /\ \A p \in Plates : ppc'[p] # "copying"]_vars
<1> DEFINE Decided ==
      driver = "closing" =>
        /\ reader = "awake" => reader' = "awake" /\ driver' = "closing"
        /\ reader # "awake" => \/ reader' = reader /\ driver' = driver
                               \/ reader = "asleep" /\ reader' = "ended" /\ driver' = driver
                               \/ reader = "ended" /\ driver' = "shut"
        /\ \A p \in Plates : ppc'[p] # "copying"
<1>1. TypeOK /\ Exclusive /\ ClosedIsError /\ ReaderIsThere /\ [Next]_vars => [Decided]_vars
  <2> SUFFICES ASSUME TypeOK, Exclusive, ClosedIsError, ReaderIsThere, [Next]_vars,
                      driver = "closing"
               PROVE  Decided
    OBVIOUS
  <2>1. /\ mutex = "owner" /\ ~MutexFree /\ reader \in {"asleep", "awake", "ended"}
        /\ \A p \in Plates : ppc[p] # "copying"
    BY DEF Exclusive, ClosedIsError, ReaderIsThere, Polling, TypeOK, MutexFree
  <2>2. CASE DriverSteps \/ ReaderStep \/ UNCHANGED vars
    <3>1. ppc' = ppc
      BY <2>2 DEF DriverSteps, Tick, PacketArrives, Open, CloseBegin, CloseEnd, ReaderStep, Wake,
         LockReader, GetCurrentData, UpdateStamp, EndRun, vars, plateVars
    <3> QED
      BY <2>1, <2>2, <3>1 DEF DriverSteps, Tick, PacketArrives, Open, CloseBegin, CloseEnd,
         ReaderStep, Wake, LockReader, GetCurrentData, UpdateStamp, EndRun, vars, readerVars
  <2>3. CASE PlateSteps
    <3>1. reader' = reader /\ driver' = driver
      BY <2>3 DEF PlateSteps, Attach, Detach, ClosePlate, ReadDetached, ReadBegin, ReadStep,
         LockDriver, RefuseIndex, CopyMeasurement, readerVars
    <3>2. \A p \in Plates : ppc'[p] # "copying"
      BY <2>1, <2>3 DEF PlateSteps, Attach, Detach, ClosePlate, ReadDetached, ReadBegin, ReadStep,
         LockDriver, RefuseIndex, CopyMeasurement, TypeOK
    <3> QED
      BY <2>1, <3>1, <3>2
  <2> QED
    BY <2>2, <2>3, NextSplit
<1>2. Init => ReaderIsThere
  BY DEF Init, ReaderIsThere
<1> QED
  BY ExclusiveInductive, ClosedIsErrorInductive, ReaderIsThereStep, <1>1, <1>2, PTL DEF Spec
=============================================================================
