---------------------------- MODULE FtShoeProofs ----------------------------
(***************************************************************************)
(* Proofs about the ftShoe device, for any number of clients, any sensor   *)
(* answers and any number of samples of a calibration.                     *)
(***************************************************************************)
EXTENDS FtShoe, TLAPS

USE AnswersAssumption, ChannelsAssumption, MaxSamplesAssumption, NoThreadAssumption,
    DisjointAssumption

Reading == {"first", "second", "combine"}

(* p_mutex is held by the thread that is inside read(). *)
LockHeld == \A t \in Threads : mutex = t <=> rpc[t] \in Reading

(* The buffers and statuses a read() will combine are those it just read.  *)
OwnBuffers ==
    \A t \in Threads :
        /\ rpc[t] = "second" => ~useFTNode /\ fBuf = t /\ fStatus = got[t].f
        /\ rpc[t] = "combine" =>
              /\ fBuf = t /\ sBuf = t
              /\ IF useFTNode THEN got[t] = [f |-> "OK", s |-> "OK"]
                              ELSE fStatus = got[t].f /\ sStatus = got[t].s

(* The pointers read() dereferences are set. *)
Pointers == IF useFTNode THEN nPtr ELSE fPtr /\ sPtr

PointersSet ==
    /\ link = "attached" => Pointers
    /\ orderly /\ ~Quiet => Pointers
    /\ orderly => alive

(* After detachAll() the statuses are errors and no read() of two sensors  *)
(* gets past the first pointer.                                            *)
DetachedErrors ==
    link = "detached" =>
        /\ fStatus = "ERROR" /\ sStatus = "ERROR" /\ pStatus = "ERROR"
        /\ ~useFTNode => ~fPtr /\ \A t \in Threads : rpc[t] \notin {"second", "combine"}

IInv ==
    /\ TypeOK
    /\ LockHeld
    /\ OwnBuffers
    /\ ReadUsesOwnReadings
    /\ PointersSet
    /\ DetachedErrors

-----------------------------------------------------------------------------
(* A calibrating thread only reads while it has samples left to take: with *)
(* this the type invariant is inductive.                                   *)
SamplesLeft ==
    \A c \in Calibrators : cpc[c] = "sampling" /\ rpc[c] # "out" => samples[c] < MaxSamples

Typed == TypeOK /\ SamplesLeft

LEMMA TypeInit == Init => Typed
<1> SUFFICES ASSUME Init PROVE Typed
  OBVIOUS
<1> USE DEF Init, Statuses
<1>1. [f |-> NoThread, s |-> NoThread, status |-> "ERROR", kind |-> "raw"] \in Output
  BY DEF Output, Means
<1>2. last \in [Threads -> Output]
  BY <1>1
<1>3. 0 \in 0..MaxSamples
  OBVIOUS
<1>4. samples \in [Calibrators -> 0..MaxSamples]
  BY <1>3
<1> QED
  BY <1>2, <1>4 DEF Typed, TypeOK, SamplesLeft, Links, Means

LEMMA CombineType ==
    ASSUME NEW f \in Statuses, NEW s \in Statuses
    PROVE  CombineFtsStatus(f, s) \in Statuses
  BY DEF CombineFtsStatus, Statuses

LEMMA TypeStep == Typed /\ [Next]_vars => Typed'
<1> SUFFICES ASSUME Typed, [Next]_vars PROVE Typed'
  OBVIOUS
<1> USE DEF Typed, TypeOK, SamplesLeft, config, sensorVars, offsetVars, readVars, calVars
<1>1. CASE AttachAll
  <2>1. link' \in Links /\ <<fPtr, sPtr, nPtr>>' \in BOOLEAN \X BOOLEAN \X BOOLEAN
    BY <1>1 DEF AttachAll, AttachTwo, AttachFirstFails, AttachSecondFails, AttachBoth, AttachNode,
                Linked, Links
  <2>2. <<fStatus, sStatus, pStatus>>' \in Statuses \X Statuses \X Statuses
    BY <1>1 DEF AttachAll, AttachTwo, AttachFirstFails, AttachSecondFails, AttachBoth, AttachNode,
                ChannelStatus, Statuses
  <2> QED
    BY <1>1, <2>1, <2>2 DEF AttachAll
<1>2. CASE DetachAll
  BY <1>2 DEF DetachAll, ForgetSensors, Links, Statuses
<1>3. ASSUME NEW t \in Threads, ReadBegin(t),
             t \in Calibrators => cpc[t] # "sampling" \/ samples[t] < MaxSamples
      PROVE  Typed'
  BY <1>3 DEF ReadBegin
<1>4. ASSUME NEW t \in Threads, ReadNode(t) PROVE Typed'
  BY <1>4 DEF ReadNode, Statuses
<1>5. ASSUME NEW t \in Threads, ReadFirst(t) PROVE Typed'
  BY <1>5 DEF ReadFirst
<1>6. ASSUME NEW t \in Threads, ReadSecond(t) PROVE Typed'
  BY <1>6 DEF ReadSecond
<1>7. ASSUME NEW t \in Threads, ReadNull(t) PROVE Typed'
  BY <1>7 DEF ReadNull
<1>8. ASSUME NEW t \in Threads, ReadReturn(t) PROVE Typed'
  <2>1. pStatus' \in Statuses
    BY <1>8, CombineType DEF ReadReturn
  <2>2. last' \in [Threads -> Output]
    BY <1>8, <2>1 DEF ReadReturn, Output, Means
  <2> QED
    BY <1>8, <2>1, <2>2 DEF ReadReturn
<1>9. ASSUME NEW c \in Calibrators, CalibrateBegin(c) PROVE Typed'
  <2>1. samples' \in [Calibrators -> 0..MaxSamples]
    <3>1. 0 \in 0..MaxSamples
      OBVIOUS
    <3> QED
      BY <1>9, <3>1 DEF CalibrateBegin
  <2> QED
    BY <1>9, <2>1 DEF CalibrateBegin, ReleaseAfterReset, ResetOffsets, Means
<1>10. ASSUME NEW c \in Calibrators, FirstSampleGood(c) \/ FirstSampleBad(c) PROVE Typed'
  <2>1. last[c].kind \in Means
    BY DEF Output, Threads
  <2>2. ASSUME FirstSampleGood(c) PROVE Typed'
    BY <2>1, <2>2 DEF FirstSampleGood, Threads
  <2>3. ASSUME FirstSampleBad(c) PROVE Typed'
    BY <2>3 DEF FirstSampleBad, Threads
  <2> QED
    BY <1>10, <2>2, <2>3
<1>11. ASSUME NEW c \in Calibrators, Sample(c) PROVE Typed'
  <2>1. samples[c] < MaxSamples /\ samples[c] \in Nat
    BY <1>11 DEF Sample
  <2>2. samples' \in [Calibrators -> 0..MaxSamples]
    BY <1>11, <2>1 DEF Sample
  <2>3. tmpOffsets' \in [Calibrators -> Means]
    BY <1>11 DEF Sample, Means
  <2> QED
    BY <1>11, <2>2, <2>3 DEF Sample, Threads
<1>12. ASSUME NEW c \in Calibrators, CalibrateEnd(c) PROVE Typed'
  BY <1>12 DEF CalibrateEnd
<1>13. CASE UNCHANGED vars
  BY <1>13 DEF vars
<1> QED
  BY <1>1, <1>2, <1>3, <1>4, <1>5, <1>6, <1>7, <1>8, <1>9, <1>10, <1>11, <1>12, <1>13
  DEF Next, ClientReads, ReadStep, CalibrateStep, CalibratorReads, Crashed, Threads

LEMMA AlwaysTyped == Spec => []Typed
  BY TypeInit, TypeStep, PTL DEF Spec

(* Every variable of the device keeps its type, whatever the threads do.   *)
THEOREM TypeCorrect == Spec => []TypeOK
<1>1. Typed => TypeOK
  BY DEF Typed
<1> QED
  BY AlwaysTyped, <1>1, PTL

-----------------------------------------------------------------------------
LEMMA InvInit == Init => IInv
<1> SUFFICES ASSUME Init PROVE IInv
  OBVIOUS
<1>1. TypeOK
  BY TypeInit DEF Typed
<1>2. LockHeld /\ OwnBuffers /\ ReadUsesOwnReadings /\ PointersSet /\ DetachedErrors
  BY DEF Init, LockHeld, OwnBuffers, ReadUsesOwnReadings, PointersSet, DetachedErrors, Returned,
         Reading, Quiet
<1> QED
  BY <1>1, <1>2 DEF IInv

(* The combined status is at least as severe as both statuses.             *)
LEMMA CombineWorst ==
    ASSUME NEW f \in Statuses, NEW s \in Statuses
    PROVE  /\ Severity[CombineFtsStatus(f, s)] >= Severity[f]
           /\ Severity[CombineFtsStatus(f, s)] >= Severity[s]
           /\ "ERROR" \in {f, s} => CombineFtsStatus(f, s) = "ERROR"
<1>1. Severity["OK"] = 0 /\ Severity["OVF"] = 1 /\ Severity["TIMEOUT"] = 2 /\ Severity["ERROR"] = 3
  BY DEF Severity
<1> QED
  BY <1>1 DEF CombineFtsStatus, Statuses

(* Attaching and detaching happen while nobody is inside read(). *)
LEMMA OwnerStepInv == IInv /\ (AttachAll \/ DetachAll) => (LockHeld /\ OwnBuffers)'
  BY DEF IInv, TypeOK, AttachAll, DetachAll, MutexFree, LockHeld, OwnBuffers, Reading, readVars,
         calVars, config

LEMMA AttachStepInv == IInv /\ AttachAll => (ReadUsesOwnReadings /\ PointersSet /\ DetachedErrors)'
<1> SUFFICES ASSUME IInv, AttachAll
             PROVE  (ReadUsesOwnReadings /\ PointersSet /\ DetachedErrors)'
  OBVIOUS
<1> USE DEF IInv, TypeOK, AttachAll, config, offsetVars, readVars, calVars
<1>1. ReadUsesOwnReadings'
  BY DEF ReadUsesOwnReadings, Returned
<1>2. /\ link' \in {"attached", "failed"}
      /\ link' = "attached" => Pointers'
      /\ Pointers => Pointers'
  BY DEF AttachTwo, AttachFirstFails, AttachSecondFails, AttachBoth, AttachNode, Linked, Pointers,
         sensorVars
<1>3. PointersSet'
  BY <1>2 DEF PointersSet, Quiet
<1> QED
  BY <1>1, <1>2, <1>3 DEF DetachedErrors

LEMMA DetachStepInv == IInv /\ DetachAll => (ReadUsesOwnReadings /\ PointersSet /\ DetachedErrors)'
  BY DEF IInv, TypeOK, DetachAll, ForgetSensors, MayDetach, MutexFree, LockHeld, Reading,
         ReadUsesOwnReadings, Returned, PointersSet, DetachedErrors, Quiet,
         config, offsetVars, readVars, calVars

LEMMA ReadBeginInv ==
    ASSUME IInv, NEW t \in Threads, ReadBegin(t), MayUse \/ ~Quiet
    PROVE  (LockHeld /\ OwnBuffers /\ ReadUsesOwnReadings /\ PointersSet /\ DetachedErrors)'
<1> USE DEF IInv, TypeOK, ReadBegin, MutexFree, config, sensorVars, offsetVars, calVars
<1>1. LockHeld' /\ OwnBuffers'
  BY DEF LockHeld, OwnBuffers, Reading
<1>2. ReadUsesOwnReadings'
  BY DEF ReadUsesOwnReadings, Returned
<1>3. PointersSet'
  BY DEF PointersSet, MayUse, Pointers
<1> QED
  BY <1>1, <1>2, <1>3 DEF DetachedErrors

(* While t is inside read() it holds the mutex, and no other thread is.    *)
LEMMA OnlyReader ==
    ASSUME IInv, NEW t \in Threads, rpc[t] \in Reading
    PROVE  ~Quiet /\ \A q \in Threads : q # t => rpc[q] \notin Reading
  BY DEF IInv, LockHeld, Quiet, Reading

LEMMA ReadStepInv ==
    ASSUME IInv, alive, NEW t \in Threads, ReadStep(t)
    PROVE  (LockHeld /\ OwnBuffers /\ ReadUsesOwnReadings /\ PointersSet /\ DetachedErrors)'
<1> USE DEF IInv, TypeOK, config, sensorVars, offsetVars, readVars, calVars
<1>1. ~Quiet /\ \A q \in Threads : q # t => rpc[q] \notin Reading
  BY OnlyReader DEF ReadStep, ReadNode, ReadFirst, ReadSecond, ReadNull, ReadReturn, Reading
<1>2. CASE ReadNode(t)
  <2>1. LockHeld' /\ OwnBuffers'
    BY <1>1, <1>2 DEF ReadNode, LockHeld, OwnBuffers, Reading
  <2>2. ReadUsesOwnReadings'
    BY <1>2 DEF ReadNode, ReadUsesOwnReadings, Returned
  <2>3. PointersSet' /\ DetachedErrors'
    BY <1>1, <1>2 DEF ReadNode, PointersSet, Pointers, DetachedErrors
  <2> QED
    BY <2>1, <2>2, <2>3
<1>3. CASE ReadFirst(t)
  <2>1. LockHeld' /\ OwnBuffers'
    BY <1>1, <1>3 DEF ReadFirst, LockHeld, OwnBuffers, Reading
  <2>2. ReadUsesOwnReadings'
    BY <1>3 DEF ReadFirst, ReadUsesOwnReadings, Returned
  <2>3. PointersSet' /\ DetachedErrors'
    BY <1>1, <1>3 DEF ReadFirst, PointersSet, Pointers, DetachedErrors
  <2> QED
    BY <2>1, <2>2, <2>3
<1>4. CASE ReadSecond(t)
  <2>1. LockHeld' /\ OwnBuffers'
    BY <1>1, <1>4 DEF ReadSecond, LockHeld, OwnBuffers, Reading
  <2>2. ReadUsesOwnReadings'
    BY <1>4 DEF ReadSecond, ReadUsesOwnReadings, Returned
  <2>3. PointersSet' /\ DetachedErrors'
    BY <1>1, <1>4 DEF ReadSecond, PointersSet, Pointers, DetachedErrors, OwnBuffers
  <2> QED
    BY <2>1, <2>2, <2>3
<1>5. CASE ReadNull(t)
  <2>1. ~orderly
    BY <1>1, <1>5 DEF ReadNull, PointersSet, Pointers, OwnBuffers
  <2> QED
    BY <1>5, <2>1 DEF ReadNull, LockHeld, OwnBuffers, ReadUsesOwnReadings, Returned, PointersSet,
                      Pointers, Quiet, DetachedErrors
<1>6. CASE ReadReturn(t)
  <2>1. LockHeld' /\ OwnBuffers'
    BY <1>1, <1>6 DEF ReadReturn, LockHeld, OwnBuffers, Reading
  <2>2. /\ Severity[pStatus'] >= Severity[got[t].f]
        /\ Severity[pStatus'] >= Severity[got[t].s]
    <3>1. CASE useFTNode
      <4>1. got[t].f = "OK" /\ got[t].s = "OK"
        BY <1>6, <3>1 DEF ReadReturn, OwnBuffers
      <4>2. CombineFtsStatus(fStatus, sStatus) \in Statuses
        BY CombineType
      <4> QED
        BY <1>6, <4>1, <4>2 DEF ReadReturn, Severity, Statuses
    <3>2. CASE ~useFTNode
      BY <1>6, <3>2, CombineWorst DEF ReadReturn, OwnBuffers
    <3> QED
      BY <3>1, <3>2
  <2>3. last'[t].f = t /\ last'[t].s = t /\ last'[t].status = pStatus'
    BY <1>6 DEF ReadReturn, OwnBuffers
  <2>4. ASSUME NEW q \in Threads, q # t
        PROVE  last'[q] = last[q] /\ rpc'[q] = rpc[q] /\ got'[q] = got[q]
    BY <1>6, <2>4 DEF ReadReturn
  <2>5. ReadUsesOwnReadings'
    BY <1>6, <2>2, <2>3, <2>4 DEF ReadReturn, ReadUsesOwnReadings, Returned
  <2>6. PointersSet'
    BY <1>1, <1>6 DEF ReadReturn, PointersSet, Pointers
  <2>7. DetachedErrors'
    BY <1>6, CombineWorst DEF ReadReturn, DetachedErrors
  <2> QED
    BY <2>1, <2>5, <2>6, <2>7
<1> QED
  BY <1>2, <1>3, <1>4, <1>5, <1>6 DEF ReadStep

(* The steps of calibrateSensor() outside read() leave buffers, statuses   *)
(* and pointers alone.                                                     *)
LEMMA CalibrateStepInv ==
    ASSUME IInv, NEW c \in Calibrators,
           \/ CalibrateBegin(c) \/ FirstSampleGood(c) \/ FirstSampleBad(c)
           \/ Sample(c) \/ CalibrateEnd(c)
    PROVE  (LockHeld /\ OwnBuffers /\ ReadUsesOwnReadings /\ PointersSet /\ DetachedErrors)'
<1> USE DEF IInv, TypeOK, config, sensorVars, offsetVars, readVars, calVars, Threads
<1>1. /\ \A t \in Threads : rpc'[t] = rpc[t] \/ (rpc[t] = "returned" /\ rpc'[t] = "out")
      /\ UNCHANGED <<alive, config, link, mutex, sensorVars, fBuf, sBuf, got, last>>
  <2>1. CASE CalibrateBegin(c) \/ CalibrateEnd(c)
    BY <2>1 DEF CalibrateBegin, ReleaseAfterReset, CalibrateEnd
  <2>2. CASE FirstSampleGood(c)
    BY <2>2 DEF FirstSampleGood
  <2>3. CASE FirstSampleBad(c)
    BY <2>3 DEF FirstSampleBad
  <2>4. CASE Sample(c)
    BY <2>4 DEF Sample
  <2> QED
    BY <2>1, <2>2, <2>3, <2>4
<1>2. LockHeld' /\ OwnBuffers' /\ ReadUsesOwnReadings' /\ DetachedErrors'
  <2>1. LockHeld'
    BY <1>1 DEF LockHeld, Reading
  <2>2. OwnBuffers'
    BY <1>1 DEF OwnBuffers
  <2>3. ReadUsesOwnReadings'
    BY <1>1 DEF ReadUsesOwnReadings, Returned
  <2>4. DetachedErrors'
    BY <1>1 DEF DetachedErrors
  <2> QED
    BY <2>1, <2>2, <2>3, <2>4
<1>3. orderly => Pointers
  BY DEF CalibrateBegin, FirstSampleGood, FirstSampleBad, Sample, CalibrateEnd, MayUse, PointersSet,
         Quiet
<1>4. PointersSet'
  BY <1>1, <1>3 DEF PointersSet, Pointers
<1> QED
  BY <1>2, <1>4

LEMMA InvStep == Typed /\ IInv /\ [Next]_vars => IInv'
<1> SUFFICES ASSUME Typed, IInv, [Next]_vars PROVE IInv'
  OBVIOUS
<1>1. TypeOK'
  BY TypeStep DEF Typed
<1>2. CASE AttachAll \/ DetachAll
  BY <1>1, <1>2, OwnerStepInv, AttachStepInv, DetachStepInv DEF IInv
<1>3. ASSUME NEW t \in Clients, ClientReads(t) PROVE IInv'
  BY <1>1, <1>3, ReadBeginInv DEF IInv, ClientReads, Threads
<1>4. ASSUME alive, NEW t \in Threads, ReadStep(t) PROVE IInv'
  BY <1>1, <1>4, ReadStepInv DEF IInv
<1>5. ASSUME NEW c \in Calibrators, CalibratorReads(c) PROVE IInv'
  <2>1. ~Quiet
    BY <1>5 DEF CalibratorReads, Quiet
  <2> QED
    BY <1>1, <1>5, <2>1, ReadBeginInv DEF IInv, CalibratorReads, Threads
<1>6. ASSUME NEW c \in Calibrators,
             \/ CalibrateBegin(c) \/ FirstSampleGood(c) \/ FirstSampleBad(c)
             \/ Sample(c) \/ CalibrateEnd(c)
      PROVE  IInv'
  BY <1>1, <1>6, CalibrateStepInv DEF IInv
<1>7. CASE UNCHANGED vars
  BY <1>1, <1>7 DEF IInv, LockHeld, OwnBuffers, ReadUsesOwnReadings, Returned, PointersSet, Pointers,
     Quiet, DetachedErrors, vars, config, sensorVars, readVars, calVars
<1> QED
  BY <1>2, <1>3, <1>4, <1>5, <1>6, <1>7 DEF Next, CalibrateStep, Crashed

LEMMA Inductive == Spec => []IInv
  BY InvInit, InvStep, AlwaysTyped, PTL DEF Spec

(* A read() combines the readings and statuses it took itself. *)
THEOREM OwnReadings == Spec => []ReadUsesOwnReadings
<1>1. IInv => ReadUsesOwnReadings
  BY DEF IInv
<1> QED
  BY Inductive, <1>1, PTL

(* No null pointer is dereferenced where attach, use and detach keep their order. *)
THEOREM OrderlyUseIsSafe == Spec => []OrderlyUseNeverCrashes
<1>1. IInv => OrderlyUseNeverCrashes
  BY DEF IInv, PointersSet, OrderlyUseNeverCrashes
<1> QED
  BY Inductive, <1>1, PTL

(* A detached shoe reports errors, with either kind of sensor. *)
THEOREM DetachedShoeReportsErrors == Spec => []NoGoodStatusWhileDetached
<1>1. IInv => NoGoodStatusWhileDetached
  BY DEF IInv, DetachedErrors, NoGoodStatusWhileDetached
<1> QED
  BY Inductive, <1>1, PTL

-----------------------------------------------------------------------------
(* What a calibration needs of the others: no two of them overlap.  Then   *)
(* no offsets are subtracted while one samples, because it reset them when *)
(* it began.                                                               *)
OneAtATime == \A c, d \in Calibrators : cpc[c] # "out" /\ cpc[d] # "out" => c = d

RawWhileSampling ==
    /\ calibrated => offsets = "raw"
    /\ \A c \in Calibrators : cpc[c] = "out" => rpc[c] = "out"
    /\ \A c \in Calibrators : cpc[c] # "out" =>
          /\ ~calibrated
          /\ tmpOffsets[c] = "raw"
          /\ rpc[c] = "returned" => last[c].kind = "raw"

LEMMA RawStep ==
    ASSUME OneAtATime, OneAtATime', Typed, RawWhileSampling, [Next]_vars
    PROVE  RawWhileSampling'
<1> USE DEF OneAtATime, RawWhileSampling, Typed, TypeOK,
            config, sensorVars, offsetVars, readVars, calVars
<1>1. CASE AttachAll \/ DetachAll
  BY <1>1 DEF AttachAll, DetachAll
<1>2. ASSUME NEW t \in Threads, ReadBegin(t), t \in Clients \/ cpc[t] # "out"
      PROVE  RawWhileSampling'
  BY <1>2 DEF ReadBegin
<1>3. ASSUME NEW t \in Threads, ReadNode(t) \/ ReadFirst(t) \/ ReadSecond(t) \/ ReadNull(t)
      PROVE  RawWhileSampling'
  <2>1. /\ \A q \in Threads : rpc'[q] = rpc[q] \/ (rpc[q] # "out" /\ rpc'[q] # "returned")
        /\ UNCHANGED <<calibrated, offsets, cpc, tmpOffsets, last>>
    <3>1. CASE ReadNode(t)
      BY <3>1 DEF ReadNode
    <3>2. CASE ReadFirst(t)
      BY <3>2 DEF ReadFirst
    <3>3. CASE ReadSecond(t)
      BY <3>3 DEF ReadSecond
    <3>4. CASE ReadNull(t)
      BY <3>4 DEF ReadNull
    <3> QED
      BY <1>3, <3>1, <3>2, <3>3, <3>4
  <2> QED
    BY <2>1 DEF Threads
<1>4. ASSUME NEW t \in Threads, ReadReturn(t) PROVE RawWhileSampling'
  BY <1>4 DEF ReadReturn, Threads
<1>5. ASSUME NEW c \in Calibrators, CalibrateBegin(c) PROVE RawWhileSampling'
  <2>1. rpc[c] = "out" /\ c \in Threads
    BY <1>5 DEF CalibrateBegin, Threads
  <2>2. \A d \in Calibrators : d # c => cpc'[d] = "out" /\ cpc[d] = "out"
    BY <1>5 DEF CalibrateBegin
  <2> QED
    BY <1>5, <2>1, <2>2 DEF CalibrateBegin, ReleaseAfterReset, ResetOffsets
<1>6. ASSUME NEW c \in Calibrators, cpc[c] # "out"
      PROVE  c \in Threads /\ \A d \in Calibrators : d # c => cpc[d] = "out" /\ rpc[d] = "out"
  BY <1>6 DEF Threads
<1>7. ASSUME NEW c \in Calibrators, FirstSampleGood(c) \/ FirstSampleBad(c)
      PROVE  RawWhileSampling'
  <2>1. CASE FirstSampleGood(c)
    BY <1>6, <2>1 DEF FirstSampleGood
  <2>2. CASE FirstSampleBad(c)
    BY <1>6, <2>2 DEF FirstSampleBad
  <2> QED
    BY <1>7, <2>1, <2>2
<1>8. ASSUME NEW c \in Calibrators, Sample(c) PROVE RawWhileSampling'
  BY <1>6, <1>8 DEF Sample
<1>9. ASSUME NEW c \in Calibrators, CalibrateEnd(c) PROVE RawWhileSampling'
  BY <1>6, <1>9 DEF CalibrateEnd
<1>10. CASE UNCHANGED vars
  BY <1>10 DEF vars
<1> QED
  BY <1>1, <1>2, <1>3, <1>4, <1>5, <1>7, <1>8, <1>9, <1>10
  DEF Next, ClientReads, ReadStep, CalibrateStep, CalibratorReads, Crashed, Threads

(* With any number of calibrating threads, the offsets are an average of   *)
(* raw readings as long as no two calibrations overlap.                    *)
THEOREM SeparateCalibrationsAreSound ==
    Spec /\ []OneAtATime => []OffsetsFromRawReadings
<1>1. Init => RawWhileSampling
  BY DEF Init, RawWhileSampling, Threads
<1>2. OneAtATime /\ OneAtATime' /\ Typed /\ RawWhileSampling /\ [Next]_vars
        => RawWhileSampling'
  BY RawStep
<1>3. RawWhileSampling => OffsetsFromRawReadings
  BY DEF RawWhileSampling, OffsetsFromRawReadings
<1> QED
  BY AlwaysTyped, <1>1, <1>2, <1>3, PTL DEF Spec

OneCalibrator == \A c, d \in Calibrators : c = d

(* With a single calibrating thread the offsets are always an average of   *)
(* raw readings, however often it recalibrates.                            *)
THEOREM RecalibrationIsSound ==
    ASSUME OneCalibrator
    PROVE  Spec => []OffsetsFromRawReadings
<1>1. OneAtATime
  BY DEF OneCalibrator, OneAtATime
<1> QED
  BY <1>1, SeparateCalibrationsAreSound, PTL

-----------------------------------------------------------------------------
(* The safety that the liveness of calibrateSensor() rests on: its steps   *)
(* and those of whoever holds the mutex can be taken, and are bounded.     *)

(* Who holds p_mutex is inside read(), where no step waits: one that finds *)
(* no sensor crashes.  A calibrating thread that waits for the mutex does  *)
(* not hold it.                                                            *)
NobodyWaitsForItself ==
    /\ \A t \in Threads : mutex = t => rpc[t] \in Reading
    /\ \A c \in Calibrators : rpc[c] = "out" => mutex # c

(* The steps of read() until its result is used. *)
ReadLeft(t) ==
    CASE rpc[t] = "out"      -> 5
      [] rpc[t] = "first"    -> 4
      [] rpc[t] = "second"   -> 3
      [] rpc[t] = "combine"  -> 2
      [] rpc[t] = "returned" -> 1

(* The steps of calibrateSensor() until it returns: five per sample. *)
CalibrateLeft(c) ==
    CASE cpc[c] = "out"      -> 0
      [] cpc[c] = "reset"    -> 5 * MaxSamples + 1 + ReadLeft(c)
      [] cpc[c] = "sampling" -> 5 * (MaxSamples - samples[c]) - 4 + ReadLeft(c)

LEMMA CalibrateLeftRange ==
    ASSUME Typed, NEW c \in Calibrators, cpc[c] # "out"
    PROVE  CalibrateLeft(c) \in 1..5 * MaxSamples + 6
<1>1. /\ samples[c] \in 0..MaxSamples /\ cpc[c] \in {"reset", "sampling"} /\ c \in Threads
      /\ rpc[c] \in {"out", "first", "second", "combine", "returned"}
      /\ cpc[c] = "sampling" /\ rpc[c] # "out" => samples[c] < MaxSamples
  BY DEF Typed, TypeOK, SamplesLeft, Threads
<1>2. ReadLeft(c) \in 1..5 /\ (rpc[c] = "out" <=> ReadLeft(c) = 5)
  BY <1>1 DEF ReadLeft
<1> QED
  BY <1>1, <1>2 DEF CalibrateLeft

(* What a step does to the calibration of c depends on these. *)
LEMMA SameCalibration ==
    ASSUME NEW c \in Calibrators, cpc'[c] = cpc[c], rpc'[c] = rpc[c], samples'[c] = samples[c]
    PROVE  CalibrateLeft(c)' = CalibrateLeft(c)
  BY DEF CalibrateLeft, ReadLeft

LEMMA ReadApproaches ==
    ASSUME Typed, NEW c \in Calibrators, cpc[c] # "out", ReadBegin(c) \/ ReadStep(c), alive'
    PROVE  CalibrateLeft(c)' < CalibrateLeft(c)
<1>1. c \in Threads /\ samples[c] \in 0..MaxSamples
  BY DEF Typed, TypeOK, Threads
<1>2. cpc'[c] = cpc[c] /\ samples'[c] = samples[c]
  BY DEF ReadBegin, ReadStep, ReadNode, ReadFirst, ReadSecond, ReadNull, ReadReturn, calVars
<1>3. ReadLeft(c) \in 1..5 /\ ReadLeft(c)' \in 1..5 /\ ReadLeft(c)' < ReadLeft(c)
  <2> USE <1>1 DEF Typed, TypeOK, ReadLeft
  <2>1. CASE ReadBegin(c)
    BY <2>1 DEF ReadBegin
  <2>2. CASE ReadNode(c)
    BY <2>2 DEF ReadNode
  <2>3. CASE ReadFirst(c)
    BY <2>3 DEF ReadFirst
  <2>4. CASE ReadSecond(c)
    BY <2>4 DEF ReadSecond
  <2>5. CASE ReadReturn(c)
    BY <2>5 DEF ReadReturn
  <2>6. ~ReadNull(c)
    BY DEF ReadNull
  <2> QED
    BY <2>1, <2>2, <2>3, <2>4, <2>5, <2>6 DEF ReadStep
<1>4. cpc[c] \in {"reset", "sampling"}
  BY DEF Typed, TypeOK
<1> HIDE DEF ReadLeft
<1> QED
  BY <1>1, <1>2, <1>3, <1>4 DEF CalibrateLeft

LEMMA CalibrateApproaches ==
    ASSUME Typed, NEW c \in Calibrators, cpc[c] # "out",
           FirstSampleGood(c) \/ FirstSampleBad(c) \/ Sample(c) \/ CalibrateEnd(c)
    PROVE  CalibrateLeft(c)' < CalibrateLeft(c)
<1> USE DEF Typed, TypeOK, SamplesLeft, Threads, CalibrateLeft, ReadLeft
<1>1. CASE FirstSampleGood(c)
  <2>1. /\ cpc'[c] = "sampling" /\ rpc'[c] = "out" /\ samples' = samples
        /\ cpc[c] = "reset" /\ rpc[c] = "returned"
    BY <1>1 DEF FirstSampleGood
  <2> QED
    BY <2>1
<1>2. CASE FirstSampleBad(c)
  <2>1. cpc'[c] = "out" /\ cpc[c] = "reset" /\ rpc[c] = "returned"
    BY <1>2 DEF FirstSampleBad
  <2> QED
    BY <2>1
<1>3. CASE Sample(c)
  <2>1. /\ cpc'[c] = "sampling" /\ rpc'[c] = "out" /\ samples'[c] = samples[c] + 1
        /\ cpc[c] = "sampling" /\ rpc[c] = "returned"
    BY <1>3 DEF Sample
  <2> QED
    BY <2>1
<1>4. CASE CalibrateEnd(c)
  <2>1. cpc'[c] = "out" /\ cpc[c] = "sampling" /\ rpc[c] = "out"
    BY <1>4 DEF CalibrateEnd
  <2> QED
    BY <2>1
<1> QED
  BY <1>1, <1>2, <1>3, <1>4

(* The calibration of c is its own: other threads do not touch it. *)
LEMMA OthersLeaveCalibration ==
    ASSUME Typed, NEW c \in Calibrators, cpc[c] # "out", [Next]_vars
    PROVE  \/ (ReadBegin(c) \/ ReadStep(c)) /\ alive
           \/ FirstSampleGood(c) \/ FirstSampleBad(c) \/ Sample(c) \/ CalibrateEnd(c)
           \/ cpc'[c] = cpc[c] /\ rpc'[c] = rpc[c] /\ samples'[c] = samples[c]
<1> DEFINE Same == cpc'[c] = cpc[c] /\ rpc'[c] = rpc[c] /\ samples'[c] = samples[c]
<1> USE DEF Typed, TypeOK, readVars, calVars
<1>0. c \in Threads /\ c \notin Clients
  BY DEF Threads
<1>1. AttachAll \/ DetachAll => Same
  BY DEF AttachAll, DetachAll
<1>2. ASSUME NEW t \in Threads, t # c, ReadBegin(t) \/ ReadStep(t) PROVE Same
  BY <1>0, <1>2 DEF ReadBegin, ReadStep, ReadNode, ReadFirst, ReadSecond, ReadNull, ReadReturn
<1>3. ASSUME NEW d \in Calibrators, CalibrateBegin(d) PROVE Same
  BY <1>0, <1>3 DEF CalibrateBegin
<1>4. ASSUME NEW d \in Calibrators, d # c,
             FirstSampleGood(d) \/ FirstSampleBad(d) \/ Sample(d) \/ CalibrateEnd(d)
      PROVE  Same
  <2>1. CASE FirstSampleGood(d) \/ FirstSampleBad(d)
    BY <1>0, <1>4, <2>1 DEF FirstSampleGood, FirstSampleBad, Threads
  <2>2. CASE Sample(d) \/ CalibrateEnd(d)
    BY <1>0, <1>4, <2>2 DEF Sample, CalibrateEnd, Threads
  <2> QED
    BY <1>4, <2>1, <2>2
<1>5. UNCHANGED vars => Same
  BY DEF vars
<1> HIDE DEF Same, Typed, TypeOK
<1>6. SUFFICES ASSUME ~Same, Next
      PROVE  \/ (ReadBegin(c) \/ ReadStep(c)) /\ alive
             \/ FirstSampleGood(c) \/ FirstSampleBad(c) \/ Sample(c) \/ CalibrateEnd(c)
  BY <1>5 DEF Same
<1>7. CASE alive /\ \E t \in Clients : ClientReads(t)
  BY <1>0, <1>2, <1>6, <1>7 DEF ClientReads, Threads
<1>8. CASE alive /\ \E t \in Threads : ReadStep(t)
  BY <1>2, <1>6, <1>8
<1>9. CASE alive /\ \E d \in Calibrators : CalibrateBegin(d) \/ CalibrateStep(d)
  BY <1>2, <1>3, <1>4, <1>6, <1>9 DEF CalibrateStep, CalibratorReads, Threads
<1> QED
  BY <1>1, <1>5, <1>6, <1>7, <1>8, <1>9 DEF Next, Crashed

LEMMA CalibratingStep ==
    ASSUME Typed, [Next]_vars, NEW c \in Calibrators, cpc[c] # "out"
    PROVE  /\ CalibrateLeft(c) \in 1..5 * MaxSamples + 6
           /\ CalibrateLeft(c)' <= CalibrateLeft(c)
           /\ (CalibrateStep(c) \/ ReadStep(c)) /\ alive' => CalibrateLeft(c)' < CalibrateLeft(c)
<1>1. CalibrateLeft(c) \in 1..5 * MaxSamples + 6
  BY CalibrateLeftRange
<1>2. ASSUME CalibrateStep(c) \/ ReadStep(c), alive' PROVE CalibrateLeft(c)' < CalibrateLeft(c)
  BY <1>2, ReadApproaches, CalibrateApproaches DEF CalibrateStep, CalibratorReads
<1>3. ASSUME ReadBegin(c) \/ ReadStep(c), alive, ~alive'
      PROVE  cpc'[c] = cpc[c] /\ rpc'[c] = rpc[c] /\ samples'[c] = samples[c]
  BY <1>3 DEF ReadBegin, ReadStep, ReadNode, ReadFirst, ReadSecond, ReadNull, ReadReturn,
    readVars, calVars
<1>4. CalibrateLeft(c)' < CalibrateLeft(c) \/ CalibrateLeft(c)' = CalibrateLeft(c)
  <2>1. CASE (ReadBegin(c) \/ ReadStep(c)) /\ alive
    BY <1>3, <2>1, ReadApproaches, SameCalibration
  <2>2. CASE FirstSampleGood(c) \/ FirstSampleBad(c) \/ Sample(c) \/ CalibrateEnd(c)
    BY <2>2, CalibrateApproaches
  <2>3. CASE cpc'[c] = cpc[c] /\ rpc'[c] = rpc[c] /\ samples'[c] = samples[c]
    BY <2>3, SameCalibration
  <2> QED
    BY <2>1, <2>2, <2>3, OthersLeaveCalibration
<1>5. CalibrateLeft(c)' \in Int
  <2>1. Typed'
    BY TypeStep
  <2>2. /\ samples'[c] \in 0..MaxSamples /\ cpc'[c] \in {"out", "reset", "sampling"}
        /\ rpc'[c] \in {"out", "first", "second", "combine", "returned"}
    BY <2>1 DEF Typed, TypeOK, Threads
  <2>3. ReadLeft(c)' \in 1..5
    BY <2>2 DEF ReadLeft
  <2> QED
    BY <2>2, <2>3 DEF CalibrateLeft
<1> QED
  BY <1>1, <1>2, <1>4, <1>5

(* calibrateSensor() takes at most 5 * MaxSamples + 6 steps of its own:    *)
(* each of them that does not crash brings it nearer to its return, and no *)
(* client, no other calibration and not the owner sets it back.            *)
THEOREM CalibrationIsBounded ==
    Spec => [][\A c \in Calibrators : cpc[c] # "out" =>
                 /\ CalibrateLeft(c) \in 1..5 * MaxSamples + 6
                 /\ CalibrateLeft(c)' <= CalibrateLeft(c)
                 /\ (CalibrateStep(c) \/ ReadStep(c)) /\ alive'
                      => CalibrateLeft(c)' < CalibrateLeft(c)]_vars
<1>1. Typed /\ [Next]_vars =>
        [\A c \in Calibrators : cpc[c] # "out" =>
           /\ CalibrateLeft(c) \in 1..5 * MaxSamples + 6
           /\ CalibrateLeft(c)' <= CalibrateLeft(c)
           /\ (CalibrateStep(c) \/ ReadStep(c)) /\ alive'
                => CalibrateLeft(c)' < CalibrateLeft(c)]_vars
  BY CalibratingStep
<1> QED
  BY AlwaysTyped, <1>1, PTL DEF Spec

(* Nobody waits for a mutex he holds, and the holder's steps never wait:   *)
(* p_mutex is not recursive, and calibrateSensor() calls read().           *)
THEOREM MutexIsReleased == Spec => []NobodyWaitsForItself
<1>1. IInv => NobodyWaitsForItself
  BY DEF IInv, LockHeld, NobodyWaitsForItself, Reading, Threads
<1> QED
  BY Inductive, <1>1, PTL
=============================================================================
