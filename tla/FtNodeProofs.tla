---------------------------- MODULE FtNodeProofs ----------------------------
(***************************************************************************)
(* Proofs about the ftnode device, for any number of sensors and readers,  *)
(* any set of lines the firmware may send and any number of them.          *)
(***************************************************************************)
EXTENDS FtNode, TLAPS

USE NumSensorsAssumption, MaxLinesAssumption, LinesAssumption, ThreadsAssumption

(* The parts of the inductive invariant besides TypeOK. *)

(* An update flag is set exactly when its buffer holds something. *)
FlagsMatchBuffers ==
    \A i \in Sensors : /\ forceFlag[i] <=> forceBuf[i] # 0
                       /\ torqueFlag[i] <=> torqueBuf[i] # 0

(* The mutex is held by whoever is in a critical section. *)
LockHeld ==
    /\ mutex = Run <=> pc = "writing"
    /\ \A r \in Readers : mutex = r <=> rpos[r] # 0

(* In its critical section the periodic thread publishes a complete wrench, *)
(* and already copied the force.                                            *)
WritingComplete == pc = "writing" => Complete(idx) /\ meas[idx].force = forceBuf[idx]

(* What a reader copied so far is still what is exposed. *)
CopiesCurrent ==
    \A r \in Readers, i \in Sensors : rpos[r] > i => copied[r][i] = meas[i]

(* A buffered component is newer than the wrench of its sensor. *)
BuffersNewer ==
    \A i \in Sensors :
        /\ meas[i].force <= lineNo /\ meas[i].torque <= lineNo
        /\ forceBuf[i] <= lineNo /\ torqueBuf[i] <= lineNo
        /\ forceBuf[i] # 0 => /\ forceBuf[i] > meas[i].torque
                              /\ ~Writing(i) => forceBuf[i] > meas[i].force
        /\ torqueBuf[i] # 0 => /\ torqueBuf[i] > meas[i].torque
                               /\ ~Writing(i) => torqueBuf[i] > meas[i].force

IInv ==
    /\ TypeOK
    /\ FlagsMatchBuffers
    /\ LockHeld
    /\ WritingComplete
    /\ CopiesCurrent
    /\ BuffersNewer
    /\ SerialDeviceOutlivesThread

-----------------------------------------------------------------------------
(* Replacing one component of a wrench by another line's gives a wrench.   *)
LEMMA WrenchUpdated ==
    ASSUME NEW w \in Wrench, NEW n \in 0..MaxLines
    PROVE  /\ [w EXCEPT !.force = n] \in Wrench
           /\ [w EXCEPT !.torque = n] \in Wrench
  BY DEF Wrench

LEMMA IntSuccessor ==
    ASSUME NEW a \in Int, NEW b \in Int, a + 1 > b
    PROVE  b = a \/ a > b
  OBVIOUS

LEMMA TypeInit == Init => TypeOK
<1> SUFFICES ASSUME Init PROVE TypeOK
  OBVIOUS
<1>1. Zeros \in [Sensors -> Wrench]
  BY DEF Zeros, Zero, Wrench
<1>2. 1 \in Sensors /\ 0 \in 0..MaxLines /\ 0 \in 0..NumSensors + 1
  BY DEF Sensors
<1>3. /\ alive \in BOOLEAN /\ owner \in {"idle", "stopping"} /\ dev \in BOOLEAN
      /\ pc \in Phases /\ closing \in BOOLEAN /\ mutex \in Readers \cup {Run, Free}
  BY DEF Init, Phases
<1>4. lineNo \in 0..MaxLines /\ idx \in Sensors
  BY <1>2 DEF Init
<1>5. /\ forceBuf \in [Sensors -> 0..MaxLines] /\ torqueBuf \in [Sensors -> 0..MaxLines]
      /\ forceFlag \in [Sensors -> BOOLEAN] /\ torqueFlag \in [Sensors -> BOOLEAN]
      /\ rpos \in [Readers -> 0..NumSensors + 1]
  BY <1>2 DEF Init
<1>6. /\ meas \in [Sensors -> Wrench]
      /\ copied \in [Readers -> [Sensors -> Wrench]]
      /\ result \in [Readers -> [Sensors -> Wrench]]
  BY <1>1 DEF Init
<1> QED
  BY <1>3, <1>4, <1>5, <1>6 DEF TypeOK

LEMMA TypeStep == TypeOK /\ [Next]_vars => TypeOK'
<1> SUFFICES ASSUME TypeOK, [Next]_vars PROVE TypeOK'
  OBVIOUS
<1> USE DEF TypeOK, Phases, ownerVars, bufVars, readVars, Sensors
<1>1. CASE Attach
  BY <1>1 DEF Attach
<1>2. CASE DetachBegin
  BY <1>2 DEF DetachBegin
<1>3. CASE DetachEnd
  BY <1>3 DEF DetachEnd
<1>4. CASE Wake \/ Exit
  BY <1>4 DEF Wake, Exit
<1>5. CASE ReceiveNothing
  BY <1>5 DEF ReceiveNothing
<1>6. ASSUME NEW line \in Lines, Receive(line) PROVE TypeOK'
  <2>1. lineNo' = lineNo + 1 /\ lineNo' \in 0..MaxLines
    BY <1>6 DEF Receive
  <2>2. /\ forceBuf' \in [Sensors -> 0..MaxLines] /\ torqueBuf' \in [Sensors -> 0..MaxLines]
        /\ forceFlag' \in [Sensors -> BOOLEAN] /\ torqueFlag' \in [Sensors -> BOOLEAN]
    BY <1>6, <2>1 DEF Receive
  <2>3. pc' \in Phases /\ idx' \in Sensors
    BY <1>6 DEF Receive
  <2> QED
    BY <1>6, <2>1, <2>2, <2>3 DEF Receive
<1>7. ASSUME NEW line \in Lines, ReceiveOutOfRange(line) PROVE TypeOK'
  BY <1>7 DEF ReceiveOutOfRange
<1>8. CASE SkipSensor
  <2>1. pc' \in Phases /\ idx' \in Sensors
    BY <1>8 DEF SkipSensor, Advance
  <2>2. UNCHANGED <<alive, ownerVars, lineNo, bufVars, mutex, meas, readVars>>
    BY <1>8 DEF SkipSensor
  <2> QED
    BY <2>1, <2>2
<1>9. CASE BeginPublish
  <2>1. [meas[idx] EXCEPT !.force = forceBuf[idx]] \in Wrench
    BY WrenchUpdated
  <2> QED
    BY <1>9, <2>1 DEF BeginPublish
<1>10. CASE EndPublish
  <2>1. [meas[idx] EXCEPT !.torque = torqueBuf[idx]] \in Wrench
    BY WrenchUpdated
  <2>2. meas' = [meas EXCEPT ![idx] = [meas[idx] EXCEPT !.torque = torqueBuf[idx]]]
    BY <1>10 DEF EndPublish
  <2>3. pc' \in Phases /\ idx' \in Sensors
    BY <1>10 DEF EndPublish, Advance
  <2>4. meas' \in [Sensors -> Wrench]
    BY <2>1, <2>2
  <2>5. /\ forceBuf' \in [Sensors -> 0..MaxLines] /\ torqueBuf' \in [Sensors -> 0..MaxLines]
        /\ forceFlag' \in [Sensors -> BOOLEAN] /\ torqueFlag' \in [Sensors -> BOOLEAN]
    BY <1>10 DEF EndPublish, FlagReset
  <2>6. mutex' = Free /\ UNCHANGED <<alive, ownerVars, lineNo, readVars>>
    BY <1>10 DEF EndPublish
  <2> QED
    BY <2>3, <2>4, <2>5, <2>6
<1>11. ASSUME NEW r \in Readers, ReadBegin(r) PROVE TypeOK'
  BY <1>11 DEF ReadBegin
<1>12. ASSUME NEW r \in Readers, ReadCopy(r) PROVE TypeOK'
  <2>1. rpos' \in [Readers -> 0..NumSensors + 1]
    <3>1. rpos[r] \in Sensors /\ rpos' = [rpos EXCEPT ![r] = rpos[r] + 1]
      BY <1>12 DEF ReadCopy
    <3>2. rpos[r] + 1 \in 0..NumSensors + 1
      BY <3>1 DEF Sensors
    <3> QED
      BY <3>1, <3>2
  <2>2. copied' \in [Readers -> [Sensors -> Wrench]]
    <3>1. meas[rpos[r]] \in Wrench /\ copied[r] \in [Sensors -> Wrench]
      <4>1. rpos[r] \in Sensors
        BY <1>12 DEF ReadCopy
      <4> QED
        BY <4>1
    <3>2. [copied[r] EXCEPT ![rpos[r]] = meas[rpos[r]]] \in [Sensors -> Wrench]
      BY <3>1
    <3>3. copied' = [copied EXCEPT ![r] = [copied[r] EXCEPT ![rpos[r]] = meas[rpos[r]]]]
      BY <1>12 DEF ReadCopy
    <3> QED
      BY <3>2, <3>3
  <2> QED
    BY <1>12, <2>1, <2>2 DEF ReadCopy
<1>13. ASSUME NEW r \in Readers, ReadReturn(r) PROVE TypeOK'
  BY <1>13 DEF ReadReturn
<1>14. CASE UNCHANGED vars
  BY <1>14 DEF vars
<1> QED
  BY <1>1, <1>2, <1>3, <1>4, <1>5, <1>6, <1>7, <1>8, <1>9, <1>10, <1>11, <1>12, <1>13, <1>14
  DEF Next, OwnerStep, RunStep, Acquire, ReadStep, Terminated

(* Every variable of the device keeps its type, whatever the threads do.   *)
THEOREM TypeCorrect == Spec => []TypeOK
  BY TypeInit, TypeStep, PTL DEF Spec

-----------------------------------------------------------------------------
LEMMA InvInit == Init => IInv
<1> SUFFICES ASSUME Init PROVE IInv
  OBVIOUS
<1>1. TypeOK
  BY TypeInit
<1>2. SerialDeviceOutlivesThread /\ LockHeld /\ WritingComplete
  BY DEF Init, SerialDeviceOutlivesThread, LockHeld, WritingComplete
<1>3. FlagsMatchBuffers /\ CopiesCurrent /\ BuffersNewer
  BY DEF Init, FlagsMatchBuffers, CopiesCurrent, BuffersNewer, Zeros, Zero, Writing, Sensors
<1> QED
  BY <1>1, <1>2, <1>3 DEF IInv

(* The steps of the owner, of readers and of the periodic thread outside   *)
(* Receive, BeginPublish and EndPublish leave buffers and wrenches alone.  *)
LEMMA InvStep == IInv /\ [Next]_vars => IInv'
<1> SUFFICES ASSUME IInv, [Next]_vars PROVE IInv'
  OBVIOUS
<1> USE DEF IInv
<1>0. TypeOK'
  BY TypeStep
<1> USE DEF TypeOK, FlagsMatchBuffers, LockHeld, WritingComplete, CopiesCurrent, BuffersNewer,
            SerialDeviceOutlivesThread, Complete, Writing, Phases, ownerVars, bufVars, readVars
<1>1. CASE Attach
  BY <1>0, <1>1 DEF Attach
<1>2. CASE DetachBegin
  BY <1>0, <1>2 DEF DetachBegin
<1>3. CASE DetachEnd
  BY <1>0, <1>3 DEF DetachEnd, Joined
<1>4. CASE Wake \/ Exit
  BY <1>0, <1>4 DEF Wake, Exit
<1>5. CASE ReceiveNothing
  BY <1>0, <1>5 DEF ReceiveNothing
<1>6. ASSUME NEW line \in Lines, Receive(line) PROVE IInv'
  <2>1. lineNo \in Nat /\ lineNo' = lineNo + 1 /\ ~Writing(1) /\ pc # "writing"
    BY <1>6 DEF Receive
  <2>2. FlagsMatchBuffers'
    <3> SUFFICES ASSUME NEW i \in Sensors
                 PROVE  /\ forceFlag'[i] <=> forceBuf'[i] # 0
                        /\ torqueFlag'[i] <=> torqueBuf'[i] # 0
      OBVIOUS
    <3>1. forceBuf'[i] = IF i \in Named(line, 1) THEN lineNo + 1 ELSE forceBuf[i]
      BY <1>6 DEF Receive
    <3>2. torqueBuf'[i] = IF i \in Named(line, 2) THEN lineNo + 1 ELSE torqueBuf[i]
      BY <1>6 DEF Receive
    <3>3. forceFlag'[i] <=> forceFlag[i] \/ i \in Named(line, 1)
      BY <1>6, Zenon DEF Receive
    <3>4. torqueFlag'[i] <=> torqueFlag[i] \/ i \in Named(line, 2)
      BY <1>6, Zenon DEF Receive
    <3> QED
      BY <2>1, <3>1, <3>2, <3>3, <3>4
  <2>3. LockHeld' /\ WritingComplete' /\ CopiesCurrent' /\ SerialDeviceOutlivesThread'
    BY <1>6 DEF Receive
  <2>4. ASSUME NEW i \in Sensors
        PROVE  /\ meas[i].force \in Nat /\ meas[i].torque \in Nat
               /\ forceBuf'[i] \in {forceBuf[i], lineNo + 1}
               /\ torqueBuf'[i] \in {torqueBuf[i], lineNo + 1}
    BY <1>6 DEF Receive, Wrench
  <2>5. BuffersNewer'
    BY <1>6, <2>1, <2>4 DEF Receive
  <2> QED
    BY <1>0, <2>2, <2>3, <2>5
<1>7. ASSUME NEW line \in Lines, ReceiveOutOfRange(line) PROVE IInv'
  BY <1>0, <1>7 DEF ReceiveOutOfRange
<1>8. CASE SkipSensor
  BY <1>0, <1>8 DEF SkipSensor, Advance
<1>9. CASE BeginPublish
  <2>1. /\ meas'[idx].force = forceBuf[idx]
        /\ meas'[idx].torque = meas[idx].torque
        /\ \A i \in Sensors : i # idx => meas'[i] = meas[i]
    BY <1>9 DEF BeginPublish, Wrench
  <2>2. \A r \in Readers : rpos[r] = 0
    BY <1>9 DEF BeginPublish, MutexFree
  <2>3. FlagsMatchBuffers' /\ LockHeld' /\ SerialDeviceOutlivesThread'
    BY <1>9, <2>2 DEF BeginPublish
  <2>4. WritingComplete'
    BY <1>9, <2>1 DEF BeginPublish
  <2>5. CopiesCurrent'
    BY <1>9, <2>2 DEF BeginPublish, Sensors
  <2>6. forceBuf[idx] \in Nat /\ forceBuf[idx] <= lineNo
    BY <1>9
  <2>7. BuffersNewer'
    BY <1>9, <2>1, <2>6 DEF BeginPublish
  <2> QED
    BY <1>0, <2>3, <2>4, <2>5, <2>7
<1>10. CASE EndPublish
  <2>1. /\ meas'[idx].force = meas[idx].force
        /\ meas'[idx].torque = torqueBuf[idx]
        /\ \A i \in Sensors : i # idx => meas'[i] = meas[i]
    BY <1>10 DEF EndPublish, Wrench
  <2>2. \A r \in Readers : rpos[r] = 0
    BY <1>10 DEF EndPublish
  <2>3. pc' # "writing" /\ pc # "off"
    BY <1>10 DEF EndPublish, Advance
  <2>4. FlagsMatchBuffers'
    BY <1>10 DEF EndPublish, FlagReset
  <2>5. LockHeld' /\ WritingComplete' /\ SerialDeviceOutlivesThread'
    BY <1>10, <2>2, <2>3 DEF EndPublish
  <2>6. CopiesCurrent'
    BY <1>10, <2>2 DEF EndPublish, Sensors
  <2>7. torqueBuf[idx] \in Nat /\ torqueBuf[idx] <= lineNo
    BY <1>10
  <2>8. BuffersNewer'
    BY <1>10, <2>1, <2>3, <2>7 DEF EndPublish
  <2> QED
    BY <1>0, <2>4, <2>5, <2>6, <2>8
<1>11. ASSUME NEW r \in Readers, ReadBegin(r) PROVE IInv'
  <2>1. LockHeld'
    BY <1>11 DEF ReadBegin, MutexFree
  <2>2. CopiesCurrent'
    BY <1>11 DEF ReadBegin, Sensors
  <2> QED
    BY <1>0, <1>11, <2>1, <2>2 DEF ReadBegin
<1>12. ASSUME NEW r \in Readers, ReadCopy(r) PROVE IInv'
  <2>1. LockHeld'
    <3>1. rpos[r] \in Sensors /\ UNCHANGED <<mutex, pc>>
      BY <1>12 DEF ReadCopy
    <3>2. \A q \in Readers : rpos'[q] = IF q = r THEN rpos[r] + 1 ELSE rpos[q]
      BY <1>12 DEF ReadCopy
    <3>3. rpos[r] # 0 /\ rpos[r] + 1 # 0
      BY <3>1 DEF Sensors
    <3> QED
      BY <3>1, <3>2, <3>3 DEF LockHeld
  <2>2. \A q \in Readers, i \in Sensors :
           copied'[q][i] = IF q = r /\ i = rpos[r] THEN meas[i] ELSE copied[q][i]
    <3>1. copied \in [Readers -> [Sensors -> Wrench]]
      OBVIOUS
    <3>2. copied' = [copied EXCEPT ![r] = [copied[r] EXCEPT ![rpos[r]] = meas[rpos[r]]]]
      BY <1>12 DEF ReadCopy
    <3> QED
      BY <3>1, <3>2
  <2>3. CopiesCurrent'
    <3>1. meas' = meas /\ rpos[r] \in Int
      <4>1. rpos \in [Readers -> 0..NumSensors + 1]
        OBVIOUS
      <4> QED
        BY <1>12, <4>1 DEF ReadCopy
    <3>2. \A q \in Readers : rpos'[q] = IF q = r THEN rpos[r] + 1 ELSE rpos[q]
      BY <1>12 DEF ReadCopy
    <3>3. ASSUME NEW q \in Readers, NEW i \in Sensors, rpos'[q] > i
          PROVE  copied'[q][i] = meas[i]
      <4>1. i \in Int
        BY DEF Sensors
      <4>2. CASE q = r
        <5>1. rpos[r] + 1 > i
          BY <3>2, <3>3, <4>2
        <5>2. i = rpos[r] \/ rpos[r] > i
          BY <3>1, <4>1, <5>1, IntSuccessor, Zenon
        <5> QED
          BY <2>2, <4>2, <5>2 DEF CopiesCurrent
      <4>3. CASE q # r
        <5>1. rpos[q] > i
          BY <3>2, <3>3, <4>3
        <5> QED
          BY <2>2, <4>3, <5>1 DEF CopiesCurrent
      <4> QED
        BY <4>2, <4>3
    <3> QED
      BY <3>1, <3>3 DEF CopiesCurrent
  <2> QED
    BY <1>0, <1>12, <2>1, <2>3 DEF ReadCopy
<1>13. ASSUME NEW r \in Readers, ReadReturn(r) PROVE IInv'
  <2>1. LockHeld'
    BY <1>13 DEF ReadReturn
  <2>2. CopiesCurrent'
    BY <1>13 DEF ReadReturn, Sensors
  <2> QED
    BY <1>0, <1>13, <2>1, <2>2 DEF ReadReturn
<1>14. CASE UNCHANGED vars
  BY <1>0, <1>14 DEF vars
<1> QED
  BY <1>1, <1>2, <1>3, <1>4, <1>5, <1>6, <1>7, <1>8, <1>9, <1>10, <1>11, <1>12, <1>13, <1>14
  DEF Next, OwnerStep, RunStep, Acquire, ReadStep, Terminated

LEMMA Inductive == Spec => []IInv
  BY InvInit, InvStep, PTL DEF Spec

(* run() never finds iSerialDevice null: the owner forgets the device only *)
(* after it joined the periodic thread.                                    *)
THEOREM SerialDeviceSafe == Spec => []SerialDeviceOutlivesThread
<1>1. IInv => SerialDeviceOutlivesThread
  BY DEF IInv
<1> QED
  BY Inductive, <1>1, PTL

-----------------------------------------------------------------------------
(* The refinement. *)

LEMMA BoardInit == Init => Board!Init
  BY DEF Init, Board!Init, Board!Zero, boardPending, boardWrench, Writing, Zeros, Zero

LEMMA BoardPublish == IInv /\ BeginPublish => Board!Publish(idx)
<1> SUFFICES ASSUME IInv, BeginPublish PROVE Board!Publish(idx)
  OBVIOUS
<1> USE DEF IInv, TypeOK
<1>1. ~Writing(idx) /\ \A i \in Sensors : Writing(i)' <=> i = idx
  BY DEF BeginPublish, Writing
<1>2. forceBuf[idx] # 0 /\ torqueBuf[idx] # 0
  BY DEF BeginPublish, Complete, FlagsMatchBuffers
<1>3. boardPending[idx] = [force |-> forceBuf[idx], torque |-> torqueBuf[idx]]
  BY <1>1 DEF boardPending
<1>4. boardWrench' = [boardWrench EXCEPT ![idx] = boardPending[idx]]
  BY <1>1, <1>3 DEF boardWrench, boardPending, BeginPublish, bufVars, Writing
<1>5. boardPending' = [boardPending EXCEPT ![idx] = Board!Zero]
  BY <1>1 DEF boardPending, BeginPublish, bufVars, Board!Zero, Zero, Writing
<1> QED
  BY <1>2, <1>3, <1>4, <1>5 DEF Board!Publish, BeginPublish, readVars

LEMMA BoardEndPublish == IInv /\ EndPublish => UNCHANGED Board!bvars
<1> SUFFICES ASSUME IInv, EndPublish PROVE UNCHANGED Board!bvars
  OBVIOUS
<1> USE DEF IInv, TypeOK
<1>1. \A i \in Sensors : (Writing(i) <=> i = idx) /\ ~Writing(i)'
  BY DEF EndPublish, Advance, Writing
<1>2. meas'[idx] = [force |-> forceBuf[idx], torque |-> torqueBuf[idx]]
  BY DEF EndPublish, WritingComplete, Wrench
<1>3. \A i \in Sensors : i # idx => meas'[i] = meas[i]
  BY DEF EndPublish
<1>4. boardWrench' = boardWrench
  BY <1>1, <1>2, <1>3 DEF boardWrench
<1>5. \A i \in Sensors : /\ forceBuf'[i] = IF i = idx THEN 0 ELSE forceBuf[i]
                         /\ torqueBuf'[i] = IF i = idx THEN 0 ELSE torqueBuf[i]
  BY DEF EndPublish
<1>6. boardPending' = boardPending
  BY <1>1, <1>5 DEF boardPending, Zero
<1> QED
  BY <1>4, <1>6 DEF Board!bvars, EndPublish, readVars

LEMMA BoardRead == ASSUME IInv, NEW r \in Readers, ReadReturn(r) PROVE Board!Read(r)
<1> USE DEF IInv, TypeOK
<1>1. \A i \in Sensors : copied[r][i] = meas[i] /\ ~Writing(i)
  <2>1. pc # "writing"
    BY DEF ReadReturn, LockHeld
  <2>2. \A i \in Sensors : rpos[r] > i
    BY DEF ReadReturn, Sensors
  <2> QED
    BY <2>1, <2>2 DEF CopiesCurrent, Writing
<1>2. copied[r] = boardWrench
  BY <1>1 DEF boardWrench
<1>3. UNCHANGED <<boardWrench, boardPending>>
  BY <1>1 DEF boardWrench, boardPending, ReadReturn, bufVars, Writing
<1> QED
  BY <1>2, <1>3 DEF Board!Read, ReadReturn

LEMMA BoardDeliver ==
    ASSUME IInv, NEW line \in Lines, Receive(line)
    PROVE  Board!Deliver(Named(line, 1), Named(line, 2))
<1> USE DEF IInv, TypeOK
<1>1. \A i \in Sensors : ~Writing(i) /\ ~Writing(i)'
  BY DEF Receive, Writing
<1>2. boardWrench' = boardWrench
  BY <1>1 DEF boardWrench, Receive
<1>3. boardPending' =
        [i \in Sensors |->
           [force  |-> IF i \in Named(line, 1) THEN lineNo + 1 ELSE boardPending[i].force,
            torque |-> IF i \in Named(line, 2) THEN lineNo + 1 ELSE boardPending[i].torque]]
  BY <1>1 DEF boardPending, Receive
<1> QED
  BY <1>2, <1>3 DEF Board!Deliver, Receive, readVars

(* Everything else a thread does is invisible on the board. *)
LEMMA BoardStep == IInv /\ [Next]_vars => [Board!Next]_Board!bvars
<1> SUFFICES ASSUME IInv, [Next]_vars PROVE [Board!Next]_Board!bvars
  OBVIOUS
<1>1. ASSUME NEW line \in Lines, Receive(line) PROVE Board!Next
  BY <1>1, BoardDeliver DEF Board!Next, Named
<1>2. CASE BeginPublish
  BY <1>2, BoardPublish DEF Board!Next, IInv, TypeOK
<1>3. CASE EndPublish
  BY <1>3, BoardEndPublish
<1>4. ASSUME NEW r \in Readers, ReadReturn(r) PROVE Board!Next
  BY <1>4, BoardRead DEF Board!Next
<1> USE DEF Board!bvars, boardPending, boardWrench, Writing, ownerVars, bufVars, readVars
<1>5. CASE Attach
  BY <1>5 DEF Attach, IInv, SerialDeviceOutlivesThread
<1>6. CASE DetachBegin \/ DetachEnd
  BY <1>6 DEF DetachBegin, DetachEnd
<1>7. CASE Wake \/ Exit
  BY <1>7 DEF Wake, Exit
<1>8. CASE ReceiveNothing
  BY <1>8 DEF ReceiveNothing
<1>9. ASSUME NEW line \in Lines, ReceiveOutOfRange(line) PROVE UNCHANGED Board!bvars
  BY <1>9 DEF ReceiveOutOfRange
<1>10. CASE SkipSensor
  BY <1>10 DEF SkipSensor, Advance
<1>11. ASSUME NEW r \in Readers, ReadBegin(r) \/ ReadCopy(r) PROVE UNCHANGED Board!bvars
  BY <1>11 DEF ReadBegin, ReadCopy
<1>12. CASE UNCHANGED vars
  BY <1>12 DEF vars
<1> QED
  BY <1>1, <1>2, <1>3, <1>4, <1>5, <1>6, <1>7, <1>8, <1>9, <1>10, <1>11, <1>12
  DEF Next, OwnerStep, RunStep, Acquire, ReadStep, Terminated

(* The device implements the wrench board: publication and read(), each a  *)
(* series of steps of concurrent threads, take effect at one instant.      *)
THEOREM Refinement == Spec => ImplementsBoard
  BY Inductive, BoardInit, BoardStep, PTL DEF Spec, ImplementsBoard, Board!Spec

-----------------------------------------------------------------------------
(* Consequences for the users of read(). *)

LEMMA BoardTypeOK == TypeOK => boardWrench \in [Sensors -> Wrench]
  BY DEF TypeOK, boardWrench, Wrench

(* "Newer than" on wrenches is transitive. *)
LEMMA FreshTransitive ==
    ASSUME NEW u \in Wrench, NEW v \in Wrench, NEW w \in Wrench,
           Board!FreshWrench(u, v), Board!FreshWrench(v, w)
    PROVE  Board!FreshWrench(u, w)
  BY DEF Board!FreshWrench, Wrench

LEMMA FreshStep ==
    ASSUME IInv, [Next]_vars, NEW i \in Sensors, boardWrench'[i] # boardWrench[i]
    PROVE  Board!FreshWrench(boardWrench[i], boardWrench'[i])
<1> USE DEF IInv
<1>1. [Board!Next]_Board!bvars
  BY BoardStep
<1>2. PICK j \in Sensors : Board!Publish(j)
  BY <1>1 DEF Board!Next, Board!bvars, Board!Deliver, Board!Read
<1>3. /\ i = j /\ boardWrench'[i] = boardPending[i]
      /\ boardPending[i].force # 0
  BY <1>2, BoardTypeOK DEF Board!Publish
<1>4. ~Writing(i)
  BY <1>3 DEF boardPending, Zero
<1>5. /\ boardWrench[i] = meas[i]
      /\ boardWrench'[i] = [force |-> forceBuf[i], torque |-> torqueBuf[i]]
      /\ forceBuf[i] # 0 /\ torqueBuf[i] # 0
  BY <1>2, <1>3, <1>4 DEF boardPending, boardWrench, Board!Publish
<1> QED
  BY <1>4, <1>5 DEF Board!FreshWrench, BuffersNewer

(* No component of a wrench is ever published twice. *)
THEOREM PublicationIsFresh == Spec => FreshPublication
<1>1. IInv /\ [Next]_vars =>
        [\A i \in Sensors : boardWrench'[i] # boardWrench[i]
            => Board!FreshWrench(boardWrench[i], boardWrench'[i])]_vars
  BY FreshStep
<1> QED
  BY Inductive, <1>1, PTL DEF Spec, FreshPublication

(* What a client read last is what is exposed now, or older. *)
ResultsOlder ==
    \A r \in Readers, i \in Sensors :
        result[r][i] = boardWrench[i] \/ Board!FreshWrench(result[r][i], boardWrench[i])

LEMMA ResultsOlderInit == Init => ResultsOlder
  BY DEF Init, ResultsOlder, boardWrench, Writing, Zeros

(* A read() that returns is the only step that changes a result. *)
LEMMA ResultStep ==
    ASSUME IInv, [Next]_vars, NEW r \in Readers, NEW i \in Sensors
    PROVE  \/ result'[r][i] = result[r][i]
           \/ result'[r][i] = boardWrench[i] /\ boardWrench'[i] = boardWrench[i]
<1>1. [Board!Next]_Board!bvars
  BY BoardStep
<1>2. CASE UNCHANGED Board!bvars
  BY <1>2 DEF Board!bvars
<1>3. ASSUME NEW F, NEW T, Board!Deliver(F, T) PROVE result' = result
  BY <1>3 DEF Board!Deliver
<1>4. ASSUME NEW j, Board!Publish(j) PROVE result' = result
  BY <1>4 DEF Board!Publish
<1>5. ASSUME NEW q \in Readers, Board!Read(q)
      PROVE  /\ result'[r][i] \in {result[r][i], boardWrench[i]}
             /\ boardWrench'[i] = boardWrench[i]
  BY <1>5 DEF Board!Read, IInv, TypeOK
<1> QED
  BY <1>1, <1>2, <1>3, <1>4, <1>5 DEF Board!Next

LEMMA ResultsOlderStep == IInv /\ IInv' /\ ResultsOlder /\ [Next]_vars => ResultsOlder'
<1> SUFFICES ASSUME IInv, IInv', ResultsOlder, [Next]_vars,
                    NEW r \in Readers, NEW i \in Sensors
             PROVE  \/ result'[r][i] = boardWrench'[i]
                    \/ Board!FreshWrench(result'[r][i], boardWrench'[i])
  BY DEF ResultsOlder, Board!FreshWrench
<1>1. /\ result[r][i] \in Wrench
      /\ boardWrench[i] \in Wrench
      /\ boardWrench'[i] \in Wrench
  BY BoardTypeOK DEF IInv, TypeOK, boardWrench, Writing, Wrench
<1>2. result[r][i] = boardWrench[i] \/ Board!FreshWrench(result[r][i], boardWrench[i])
  BY DEF ResultsOlder
<1>3. boardWrench'[i] = boardWrench[i] \/ Board!FreshWrench(boardWrench[i], boardWrench'[i])
  BY FreshStep
<1>4. CASE result'[r][i] = result[r][i]
  <2>1. CASE boardWrench'[i] = boardWrench[i]
    BY <1>2, <1>4, <2>1
  <2>2. CASE Board!FreshWrench(boardWrench[i], boardWrench'[i])
    BY <1>1, <1>2, <1>4, <2>2, FreshTransitive
  <2> QED
    BY <1>3, <2>1, <2>2
<1> QED
  BY <1>4, ResultStep

(* The wrenches a client reads only ever get newer. *)
THEOREM ReadsMonotone == Spec => ReadsNeverGoBack
<1>1. Spec => []ResultsOlder
  BY Inductive, ResultsOlderInit, ResultsOlderStep, PTL DEF Spec
<1>2. IInv /\ ResultsOlder /\ [Next]_vars =>
        [\A r \in Readers, i \in Sensors : result'[r][i] # result[r][i]
            => Board!FreshWrench(result[r][i], result'[r][i])]_vars
  <2> SUFFICES ASSUME IInv, ResultsOlder, [Next]_vars, NEW r \in Readers, NEW i \in Sensors,
                      result'[r][i] # result[r][i]
               PROVE  Board!FreshWrench(result[r][i], result'[r][i])
    OBVIOUS
  <2> QED
    BY ResultStep DEF ResultsOlder
<1> QED
  BY Inductive, <1>1, <1>2, PTL DEF Spec, ReadsNeverGoBack

(* For a sensor whose components always travel together, the buffers, the  *)
(* exposed wrench outside the critical section, and what readers copied or *)
(* returned hold a force and a torque of one line.                         *)
PairsKept ==
    \A i \in PairedSensors :
        /\ forceBuf[i] = torqueBuf[i]
        /\ ~Writing(i) => meas[i].force = meas[i].torque
        /\ \A r \in Readers : /\ copied[r][i].force = copied[r][i].torque
                              /\ result[r][i].force = result[r][i].torque

LEMMA PairsStep == IInv /\ PairsKept /\ [Next]_vars => PairsKept'
<1> SUFFICES ASSUME IInv, PairsKept, [Next]_vars, NEW i \in PairedSensors
             PROVE  /\ forceBuf'[i] = torqueBuf'[i]
                    /\ ~Writing(i)' => meas'[i].force = meas'[i].torque
                    /\ \A r \in Readers : /\ copied'[r][i].force = copied'[r][i].torque
                                          /\ result'[r][i].force = result'[r][i].torque
  BY DEF PairsKept
<1>0. i \in Sensors
  BY DEF PairedSensors
<1> USE <1>0 DEF IInv, TypeOK, PairsKept, Writing, ownerVars, bufVars, readVars
<1>1. CASE Attach \/ DetachBegin \/ DetachEnd \/ Wake \/ Exit \/ ReceiveNothing
  BY <1>1 DEF Attach, DetachBegin, DetachEnd, Wake, Exit, ReceiveNothing,
              SerialDeviceOutlivesThread
<1>2. ASSUME NEW line \in Lines, Receive(line) PROVE PairsKept'
  <2>1. \A j \in PairedSensors : j \in Named(line, 1) <=> j \in Named(line, 2)
    BY DEF PairedSensors
  <2>2. \A j \in PairedSensors : forceBuf'[j] = torqueBuf'[j]
    BY <1>2, <2>1 DEF Receive, PairedSensors
  <2> QED
    BY <1>2, <2>2 DEF Receive
<1>3. ASSUME NEW line \in Lines, ReceiveOutOfRange(line) PROVE PairsKept'
  BY <1>3 DEF ReceiveOutOfRange
<1>4. CASE SkipSensor
  BY <1>4 DEF SkipSensor, Advance
<1>5. CASE BeginPublish
  BY <1>5 DEF BeginPublish
<1>6. CASE EndPublish
  <2>1. forceBuf'[i] = torqueBuf'[i]
    BY <1>6 DEF EndPublish
  <2>2. CASE i = idx
    <3>1. meas'[i].force = meas[i].force /\ meas'[i].torque = torqueBuf[i]
      BY <1>6, <2>2 DEF EndPublish, Wrench
    <3> QED
      BY <1>6, <2>1, <2>2, <3>1 DEF EndPublish, WritingComplete
  <2>3. CASE i # idx
    BY <1>6, <2>1, <2>3 DEF EndPublish
  <2> QED
    BY <2>2, <2>3
<1>7. ASSUME NEW q \in Readers, ReadBegin(q) PROVE PairsKept'
  BY <1>7 DEF ReadBegin
<1>8. ASSUME NEW q \in Readers, ReadCopy(q) PROVE PairsKept'
  <2>1. pc # "writing"
    <3>1. rpos[q] # 0
      BY <1>8 DEF ReadCopy, Sensors
    <3> QED
      BY <3>1 DEF LockHeld
  <2>2. ASSUME NEW r \in Readers, NEW j \in PairedSensors
        PROVE  copied'[r][j].force = copied'[r][j].torque
    <3>1. j \in Sensors
      BY DEF PairedSensors
    <3>2. copied'[r][j] \in {copied[r][j], meas[j]}
      BY <1>8, <3>1 DEF ReadCopy
    <3> QED
      BY <2>1, <3>2
  <2> QED
    BY <1>8, <2>2 DEF ReadCopy
<1>9. ASSUME NEW q \in Readers, ReadReturn(q) PROVE PairsKept'
  <2>1. \A r \in Readers : result'[r] = IF r = q THEN copied[r] ELSE result[r]
    BY <1>9 DEF ReadReturn
  <2> QED
    BY <1>9, <2>1 DEF ReadReturn
<1>10. CASE UNCHANGED vars
  BY <1>10 DEF vars
<1> QED
  BY <1>1, <1>2, <1>3, <1>4, <1>5, <1>6, <1>7, <1>8, <1>9, <1>10
  DEF Next, OwnerStep, RunStep, Acquire, ReadStep, Terminated

(* A read() returns force and torque of one line for these sensors.        *)
THEOREM PairsReadTogether == Spec => []PairedWrenchesFromOneLine
<1>1. Init => PairsKept
  BY DEF Init, PairsKept, PairedSensors, Zeros, Zero
<1>2. PairsKept => PairedWrenchesFromOneLine
  BY DEF PairsKept, PairedWrenchesFromOneLine
<1> QED
  BY Inductive, <1>1, PairsStep, <1>2, PTL DEF Spec

-----------------------------------------------------------------------------
(* The safety that the liveness of the device rests on: what each thread   *)
(* still has to do shrinks with its own steps and with nobody else's.      *)

(* No sensor is left behind: outside of the publication loop none is       *)
(* complete, inside none that the loop has passed.                         *)
NothingLeftBehind ==
    \A i \in Sensors :
        Complete(i) => pc \in {"publish", "writing"} /\ i >= idx

LEMMA LeftBehindStep == IInv /\ NothingLeftBehind /\ [Next]_vars => NothingLeftBehind'
<1> SUFFICES ASSUME IInv, NothingLeftBehind, [Next]_vars, NEW i \in Sensors, Complete(i)'
             PROVE  pc' \in {"publish", "writing"} /\ i >= idx'
  BY DEF NothingLeftBehind
<1>0. /\ Complete(i) => pc \in {"publish", "writing"} /\ i >= idx
      /\ i \in 1..NumSensors /\ idx \in 1..NumSensors
  BY DEF NothingLeftBehind, IInv, TypeOK, Sensors
<1>1. CASE OwnerStep
  <2>1. Complete(i)' = Complete(i) /\ idx' = idx /\ (pc = "off" \/ pc' = pc)
    BY <1>1 DEF OwnerStep, Attach, DetachBegin, DetachEnd, Complete, bufVars, IInv,
      SerialDeviceOutlivesThread
  <2> QED
    BY <1>0, <2>1
<1>2. CASE Wake \/ Exit
  BY <1>0, <1>2 DEF Wake, Exit, Complete, bufVars
<1>3. CASE ReceiveNothing \/ \E line \in Lines : Receive(line)
  BY <1>0, <1>3 DEF ReceiveNothing, Receive
<1>4. ASSUME NEW line \in Lines, ReceiveOutOfRange(line)
      PROVE  pc' \in {"publish", "writing"} /\ i >= idx'
  BY <1>0, <1>4 DEF ReceiveOutOfRange, Complete, bufVars
<1>5. CASE SkipSensor
  <2>1. Complete(i) /\ i # idx
    BY <1>5 DEF SkipSensor, Complete, bufVars
  <2> QED
    BY <1>0, <1>5, <2>1 DEF SkipSensor, Advance
<1>6. CASE BeginPublish
  BY <1>0, <1>6 DEF BeginPublish, Complete, bufVars
<1>7. CASE EndPublish
  <2>1. Complete(i) /\ i # idx
    <3>1. i = idx => ~forceFlag'[i]
      BY <1>7 DEF EndPublish, FlagReset, IInv, TypeOK
    <3>2. i # idx => forceFlag'[i] = forceFlag[i] /\ torqueFlag'[i] = torqueFlag[i]
      BY <1>7 DEF EndPublish, FlagReset, IInv, TypeOK
    <3> QED
      BY <3>1, <3>2 DEF Complete
  <2> QED
    BY <1>0, <1>7, <2>1 DEF EndPublish, Advance
<1>8. ASSUME NEW r \in Readers, ReadStep(r)
      PROVE  pc' \in {"publish", "writing"} /\ i >= idx'
  BY <1>0, <1>8 DEF ReadStep, ReadBegin, ReadCopy, ReadReturn, Complete, bufVars
<1>9. CASE UNCHANGED vars
  BY <1>0, <1>9 DEF vars, Complete, bufVars
<1> QED
  BY <1>1, <1>2, <1>3, <1>4, <1>5, <1>6, <1>7, <1>8, <1>9
  DEF Next, RunStep, Acquire, Terminated

(* A run() publishes every wrench that is complete when it ends: none      *)
(* waits for the next line, and none is passed over.                       *)
THEOREM EveryRunPublishesAll == Spec => []NothingLeftBehind
<1>1. Init => NothingLeftBehind
  BY DEF Init, NothingLeftBehind, Complete
<1> QED
  BY Inductive, <1>1, LeftBehindStep, PTL DEF Spec

(* The steps the periodic thread takes at most until it ends, once it is   *)
(* asked to: two per sensor, and those around the loop.                    *)
StepsLeft ==
    CASE pc = "off"     -> 0
      [] pc = "sleep"   -> 1
      [] pc = "publish" -> 2 * (NumSensors - idx) + 3
      [] pc = "writing" -> 2 * (NumSensors - idx) + 2
      [] pc = "receive" -> 2 * NumSensors + 2

(* Who asked the periodic thread to end is heard. *)
StopIsAsked == owner = "stopping" /\ pc # "off" => closing

LEMMA StopIsAskedStep == IInv /\ StopIsAsked /\ [Next]_vars => StopIsAsked'
<1> SUFFICES ASSUME IInv, StopIsAsked, [Next]_vars PROVE StopIsAsked'
  OBVIOUS
<1> USE DEF StopIsAsked, ownerVars
<1>1. CASE OwnerStep
  BY <1>1 DEF OwnerStep, Attach, DetachBegin, DetachEnd
<1>2. CASE RunStep
  BY <1>2 DEF RunStep, Wake, Exit, Acquire, ReceiveNothing, Receive, ReceiveOutOfRange,
    SkipSensor, BeginPublish, EndPublish, Advance
<1>3. ASSUME NEW r \in Readers, ReadStep(r) PROVE StopIsAsked'
  BY <1>3 DEF ReadStep, ReadBegin, ReadCopy, ReadReturn
<1>4. CASE UNCHANGED vars
  BY <1>4 DEF vars
<1> QED
  BY <1>1, <1>2, <1>3, <1>4 DEF Next, Terminated

LEMMA StepsLeftNat == ASSUME TypeOK' PROVE StepsLeft' \in Nat
<1>1. pc' \in Phases /\ idx' \in 1..NumSensors
  BY DEF TypeOK, Sensors
<1> QED
  BY <1>1 DEF StepsLeft, Phases

LEMMA StepsLeftBounded == ASSUME TypeOK PROVE StepsLeft \in 0..2 * NumSensors + 2
<1>1. pc \in Phases /\ idx \in Nat /\ 1 <= idx /\ idx <= NumSensors
  BY DEF TypeOK, Sensors
<1>2. CASE pc = "publish"
  <2>1. StepsLeft = 2 * (NumSensors - idx) + 3
    BY <1>2 DEF StepsLeft
  <2> QED
    BY <1>1, <2>1
<1>3. CASE pc = "writing"
  <2>1. StepsLeft = 2 * (NumSensors - idx) + 2
    BY <1>3 DEF StepsLeft
  <2> QED
    BY <1>1, <2>1
<1>4. CASE pc \notin {"publish", "writing"}
  BY <1>1, <1>4 DEF StepsLeft, Phases
<1> QED
  BY <1>2, <1>3, <1>4

(* Going on to the next sensor, or to sleep, leaves fewer steps than there *)
(* were before the sensor's publication ended.                             *)
LEMMA AdvanceSteps ==
    ASSUME TypeOK, Advance
    PROVE  StepsLeft' <= 2 * (NumSensors - idx) + 1
<1>1. idx \in Nat /\ 1 <= idx /\ idx <= NumSensors
  BY DEF TypeOK, Sensors
<1>2. CASE idx = NumSensors
  BY <1>1, <1>2 DEF Advance, StepsLeft
<1>3. CASE idx # NumSensors
  <2>1. StepsLeft' = 2 * (NumSensors - (idx + 1)) + 3
    BY <1>3 DEF Advance, StepsLeft
  <2> QED
    BY <1>1, <2>1
<1> QED
  BY <1>2, <1>3

LEMMA PublicationSteps ==
    ASSUME TypeOK, TypeOK', SkipSensor \/ BeginPublish \/ EndPublish
    PROVE  StepsLeft' < StepsLeft
<1>1. idx \in Nat /\ 1 <= idx /\ idx <= NumSensors
  BY DEF TypeOK, Sensors
<1>2. StepsLeft' \in Nat
  BY StepsLeftNat
<1>3. CASE SkipSensor
  <2>1. StepsLeft = 2 * (NumSensors - idx) + 3
    BY <1>3 DEF SkipSensor, StepsLeft
  <2>2. StepsLeft' <= 2 * (NumSensors - idx) + 1
    BY <1>3, AdvanceSteps DEF SkipSensor
  <2> QED
    BY <1>1, <1>2, <2>1, <2>2
<1>4. CASE BeginPublish
  <2>1. StepsLeft = 2 * (NumSensors - idx) + 3
    BY <1>4 DEF BeginPublish, StepsLeft
  <2>2. StepsLeft' = 2 * (NumSensors - idx) + 2
    BY <1>4 DEF BeginPublish, StepsLeft
  <2> QED
    BY <1>1, <2>1, <2>2
<1>5. CASE EndPublish
  <2>1. StepsLeft = 2 * (NumSensors - idx) + 2
    BY <1>5 DEF EndPublish, StepsLeft
  <2>2. StepsLeft' <= 2 * (NumSensors - idx) + 1
    BY <1>5, AdvanceSteps DEF EndPublish
  <2> QED
    BY <1>1, <1>2, <2>1, <2>2
<1> QED
  BY <1>3, <1>4, <1>5

LEMMA StoppingStep ==
    ASSUME IInv, StopIsAsked, [Next]_vars, owner = "stopping"
    PROVE  /\ StepsLeft \in 0..2 * NumSensors + 2
           /\ StepsLeft' <= StepsLeft
           /\ RunStep /\ alive' => StepsLeft' < StepsLeft
<1>1. StepsLeft \in 0..2 * NumSensors + 2
  BY StepsLeftBounded DEF IInv
<1> USE DEF IInv, TypeOK, Phases, Sensors, ownerVars, bufVars, readVars
<1>2. CASE OwnerStep
  <2>1. UNCHANGED <<pc, idx>>
    BY <1>2 DEF OwnerStep, Attach, DetachBegin, DetachEnd
  <2>2. ~RunStep
    BY <1>2, <2>1 DEF OwnerStep, Attach, DetachBegin, DetachEnd, RunStep, Wake, Exit, Acquire,
      ReceiveNothing, Receive, ReceiveOutOfRange, SkipSensor, BeginPublish, EndPublish
  <2> QED
    BY <1>1, <2>1, <2>2 DEF StepsLeft
<1>3. ASSUME Wake \/ Exit PROVE StepsLeft' < StepsLeft
  BY <1>3 DEF Wake, Exit, StopRequested, StopIsAsked, StepsLeft
<1>4. ASSUME ReceiveNothing PROVE StepsLeft' < StepsLeft
  BY <1>4 DEF ReceiveNothing, StepsLeft
<1>5. ASSUME NEW line \in Lines, Receive(line) PROVE StepsLeft' < StepsLeft
  BY <1>5 DEF Receive, StepsLeft
<1>6. ASSUME NEW line \in Lines, ReceiveOutOfRange(line)
      PROVE  StepsLeft' = StepsLeft /\ ~alive'
  BY <1>6 DEF ReceiveOutOfRange, StepsLeft
<1>7. ASSUME SkipSensor \/ BeginPublish \/ EndPublish PROVE StepsLeft' < StepsLeft
  BY <1>7, PublicationSteps, TypeStep
<1>8. CASE RunStep
  <2>1. \/ Wake \/ Exit \/ ReceiveNothing \/ SkipSensor \/ BeginPublish \/ EndPublish
        \/ \E line \in Lines : Receive(line)
        \/ \E line \in Lines : ReceiveOutOfRange(line)
    BY <1>8 DEF RunStep, Acquire
  <2> HIDE DEF IInv, TypeOK
  <2>2. StepsLeft' < StepsLeft \/ (StepsLeft' = StepsLeft /\ ~alive')
    <3>1. ASSUME NEW line \in Lines, Receive(line) PROVE StepsLeft' < StepsLeft
      BY <3>1, <1>5
    <3> HIDE DEF StepsLeft
    <3> QED
      BY <2>1, <3>1, <1>3, <1>4, <1>6, <1>7
  <2>3. StepsLeft' \in Int
    BY TypeStep, StepsLeftNat DEF IInv
  <2> QED
    BY <1>1, <2>2, <2>3
<1>9. ASSUME NEW r \in Readers, ReadStep(r) PROVE StepsLeft' = StepsLeft /\ ~RunStep
  <2>1. UNCHANGED <<pc, idx>> /\ rpos' # rpos
    BY <1>9 DEF ReadStep, ReadBegin, ReadCopy, ReadReturn
  <2>2. ~RunStep
    BY <2>1 DEF RunStep, Wake, Exit, Acquire, ReceiveNothing, Receive, ReceiveOutOfRange,
      SkipSensor, BeginPublish, EndPublish
  <2> QED
    BY <2>1, <2>2 DEF StepsLeft
<1>10. CASE UNCHANGED vars
  <2>1. ~(RunStep /\ alive')
    BY <1>10 DEF vars, RunStep, Wake, Exit, Acquire, ReceiveNothing, Receive, ReceiveOutOfRange,
      SkipSensor, BeginPublish, EndPublish, Advance
  <2> QED
    BY <1>1, <1>10, <2>1 DEF vars, StepsLeft
<1> QED
  BY <1>1, <1>2, <1>8, <1>9, <1>10 DEF Next, Terminated

(* detach() waits for at most 2 * NumSensors + 2 steps of the periodic     *)
(* thread: each of its steps, other than the exception that ends the       *)
(* process, brings it nearer to its end, and no other thread sends it back.*)
THEOREM DetachIsBounded ==
    Spec => [][owner = "stopping" =>
                 /\ StepsLeft \in 0..2 * NumSensors + 2
                 /\ StepsLeft' <= StepsLeft
                 /\ RunStep /\ alive' => StepsLeft' < StepsLeft]_vars
<1>1. Init => StopIsAsked
  BY DEF Init, StopIsAsked
<1>2. IInv /\ StopIsAsked /\ [Next]_vars =>
        [owner = "stopping" =>
           /\ StepsLeft \in 0..2 * NumSensors + 2
           /\ StepsLeft' <= StepsLeft
           /\ RunStep /\ alive' => StepsLeft' < StepsLeft]_vars
  BY StoppingStep
<1> QED
  BY Inductive, <1>1, StopIsAskedStep, <1>2, PTL DEF Spec

(* The steps until the holder of the mutex releases it. *)
HoldLeft ==
    CASE mutex = Free       -> 0
      [] mutex = Run        -> 1
      [] mutex \in Readers  -> NumSensors + 2 - rpos[mutex]

(* Who holds the mutex is at a step that waits for nothing: the end of the *)
(* publication, or the next copy or the return of a read().                *)
HolderCanMove ==
    /\ mutex = Run => pc = "writing"
    /\ \A r \in Readers : mutex = r => rpos[r] \in Sensors \/ rpos[r] = NumSensors + 1

LEMMA HoldStep ==
    ASSUME IInv, [Next]_vars, mutex # Free
    PROVE  /\ mutex' \in {mutex, Free}
           /\ HoldLeft' <= HoldLeft
           /\ EndPublish => HoldLeft' < HoldLeft
           /\ \A r \in Readers : ReadStep(r) => mutex = r /\ HoldLeft' < HoldLeft
<1> USE DEF IInv, TypeOK, Phases, Sensors, LockHeld, ownerVars, bufVars, readVars
<1>1. HoldLeft \in Nat /\ HoldLeft >= 1
  <2>1. CASE mutex = Run
    BY <2>1 DEF HoldLeft
  <2>2. CASE mutex \in Readers
    <3>1. rpos[mutex] \in 0..NumSensors + 1
      BY <2>2
    <3> QED
      BY <2>2, <3>1 DEF HoldLeft
  <2> QED
    BY <2>1, <2>2
<1>2. ASSUME NEW r \in Readers, ReadStep(r)
      PROVE  mutex = r /\ mutex' \in {mutex, Free} /\ HoldLeft' < HoldLeft /\ HoldLeft' <= HoldLeft
  <2>1. mutex = r /\ rpos[r] \in 1..NumSensors + 1
    <3>1. ~ReadBegin(r)
      BY DEF ReadBegin, MutexFree
    <3>2. rpos[r] \in 1..NumSensors + 1
      BY <1>2, <3>1 DEF ReadStep, ReadCopy, ReadReturn
    <3> QED
      BY <3>2
  <2>2. HoldLeft = NumSensors + 2 - rpos[r]
    BY <2>1 DEF HoldLeft
  <2>3. CASE ReadCopy(r)
    <3>1. mutex' = r /\ rpos'[r] = rpos[r] + 1
      BY <2>1, <2>3 DEF ReadCopy
    <3> QED
      BY <2>1, <2>2, <3>1 DEF HoldLeft
  <2>4. CASE ReadReturn(r)
    <3>1. mutex' = Free
      BY <2>4 DEF ReadReturn
    <3> QED
      BY <2>1, <2>2, <3>1 DEF HoldLeft
  <2> QED
    BY <1>2, <2>1, <2>3, <2>4 DEF ReadStep, ReadBegin, MutexFree
<1>3. ASSUME EndPublish
      PROVE  mutex' \in {mutex, Free} /\ HoldLeft' < HoldLeft /\ HoldLeft' <= HoldLeft
  <2>1. mutex' = Free
    BY <1>3 DEF EndPublish
  <2> QED
    BY <1>1, <2>1 DEF HoldLeft
<1>4. ASSUME OwnerStep \/ Wake \/ Exit \/ Acquire \/ SkipSensor \/ UNCHANGED vars
      PROVE  mutex' = mutex /\ HoldLeft' = HoldLeft
  <2>1. UNCHANGED <<mutex, rpos>>
    BY <1>4 DEF OwnerStep, Attach, DetachBegin, DetachEnd, Wake, Exit, Acquire, ReceiveNothing,
      Receive, ReceiveOutOfRange, SkipSensor, vars
  <2> QED
    BY <2>1 DEF HoldLeft
<1>5. ~BeginPublish
  BY DEF BeginPublish, MutexFree
<1>6. \/ EndPublish
      \/ \E r \in Readers : ReadStep(r)
      \/ mutex' = mutex /\ HoldLeft' = HoldLeft
  BY <1>4, <1>5 DEF Next, RunStep, Terminated
<1>7. mutex' \in {mutex, Free} /\ HoldLeft' <= HoldLeft
  BY <1>1, <1>2, <1>3, <1>6
<1> QED
  BY <1>2, <1>3, <1>7

(* The mutex is held for at most NumSensors + 1 steps of its holder, whose *)
(* next step never waits; nobody else takes it away or prolongs its use.   *)
(* Whoever waits for the mutex therefore waits for steps that can be taken.*)
THEOREM HoldIsBounded ==
    Spec => /\ []HolderCanMove
            /\ [][mutex # Free =>
                    /\ mutex' \in {mutex, Free}
                    /\ HoldLeft' <= HoldLeft
                    /\ EndPublish => HoldLeft' < HoldLeft
                    /\ \A r \in Readers : ReadStep(r) => mutex = r /\ HoldLeft' < HoldLeft]_vars
<1>1. IInv => HolderCanMove
  BY DEF IInv, TypeOK, LockHeld, HolderCanMove, Sensors
<1>2. IInv /\ [Next]_vars =>
        [mutex # Free =>
           /\ mutex' \in {mutex, Free}
           /\ HoldLeft' <= HoldLeft
           /\ EndPublish => HoldLeft' < HoldLeft
           /\ \A r \in Readers : ReadStep(r) => mutex = r /\ HoldLeft' < HoldLeft]_vars
  BY HoldStep
<1> QED
  BY Inductive, <1>1, <1>2, PTL DEF Spec
=============================================================================
