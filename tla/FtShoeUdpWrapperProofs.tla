----------------------- MODULE FtShoeUdpWrapperProofs -----------------------
(***************************************************************************)
(* Proofs about the ftShoeUdpWrapper device, for clocks, attachments and   *)
(* closes without a particular bound, and for any float format that keeps  *)
(* the order of the times.                                                 *)
(***************************************************************************)
EXTENDS FtShoeUdpWrapper, TLAPS

USE MaxTimeAssumption, StartTimeAssumption, MaxAttachmentsAssumption, MaxClosesAssumption

(* run() holds m_mutex exactly while it reads the shoes. *)
LockHeld == mutex <=> pc \in Reading

(* What the steps of the surroundings and of the owner change. *)
OwnerStep ==
    \/ Open \/ Close \/ StartPublisher \/ DetachAll
    \/ \E first, second \in Offers : AttachShoes(first, second)

EnvironmentStep == Tick \/ \E s \in Shoes : ClientReads(s)

-----------------------------------------------------------------------------
(* The arithmetic of times and pointers. *)
LEMMA Zeros == 0 \in Times /\ 0 \in Means /\ 0 \in Pointers /\ 0 \in 0..MaxCloses
  BY DEF Times, Means, Pointers

LEMMA TimesAdd == \A a, b \in Times : a + b \in Means /\ a + b \in Int
  BY DEF Times, Means

LEMMA TimesTick == \A a \in Times : a < MaxTime => a + 1 \in Times
  BY DEF Times

LEMMA PointersNext == \A a \in Pointers : a < MaxAttachments => a + 1 \in Pointers
  BY DEF Pointers

LEMMA ClosesNext == \A a \in 0..MaxCloses : a < MaxCloses => a + 1 \in 0..MaxCloses
  OBVIOUS

LEMMA Differences == \A a, b \in Means : a - b \in Doubles /\ a \in Doubles /\ a \in Nat
<1> SUFFICES ASSUME NEW a \in Means, NEW b \in Means
             PROVE  a - b \in Doubles /\ a \in Doubles /\ a \in Nat
  OBVIOUS
<1> DEFINE m == 2 * MaxTime
<1>1. m \in Nat /\ Means = 0..m /\ Doubles = (-m)..m
  BY DEF Means, Doubles
<1> HIDE DEF m
<1>2. /\ a \in Nat /\ b \in Nat /\ a <= m /\ b <= m
  BY <1>1
<1>3. a - b \in Int /\ -m <= a - b /\ a - b <= m /\ -m <= a /\ -m \in Int
  BY <1>1, <1>2
<1> QED
  BY <1>1, <1>2, <1>3

LEMMA RelativeTimes ==
    \A t \in [Shoes -> Times], i \in Means :
        t[1] + t[2] \in Means /\ (t[1] + t[2]) - i \in Doubles
<1> SUFFICES ASSUME NEW t \in [Shoes -> Times], NEW i \in Means
             PROVE  t[1] + t[2] \in Means /\ (t[1] + t[2]) - i \in Doubles
  OBVIOUS
<1>1. t[1] \in Times /\ t[2] \in Times
  BY DEF Shoes
<1> DEFINE sum == t[1] + t[2]
<1>2. sum \in Means
  BY <1>1, TimesAdd
<1> HIDE DEF sum
<1>3. sum - i \in Doubles
  BY <1>2, Differences
<1>4. sum \in Means /\ sum - i \in Doubles
  BY <1>2, <1>3
<1> QED
  BY <1>4, Zenon DEF sum

LEMMA FloatType == \A a \in Doubles : Float[a] \in Int
  BY FloatAssumption

LEMMA FloatGrows == \A a, b \in Doubles : a <= b => Float[a] <= Float[b]
  BY FloatAssumption

LEMMA TypeInit == Init => TypeOK
<1> SUFFICES ASSUME Init PROVE TypeOK
  OBVIOUS
<1>1. packet \in Packets
  BY Zeros DEF Init, Packets
<1>2. StartTime \in Times
  BY DEF Times
<1>3. now \in Times /\ stamp \in [Shoes -> Times]
  BY <1>2 DEF Init
<1> QED
  BY <1>1, <1>3, Zeros DEF Init, TypeOK, Reading

LEMMA AttachShoesType ==
    ASSUME TypeOK, NEW first \in Offers, NEW second \in Offers, AttachShoes(first, second)
    PROVE  TypeOK'
<1>1. attachments + 1 \in Pointers
  BY PointersNext DEF TypeOK, AttachShoes
<1>2. sensor' \in [Shoes -> Pointers]
  BY <1>1, Zeros DEF TypeOK, AttachShoes, SensorAfter, Shoes
<1>3. timed' \in [Shoes -> Pointers]
  BY <1>1, Zeros DEF TypeOK, AttachShoes, TimedAfter, Shoes
<1>4. attachments' \in Pointers
  BY <1>1 DEF TypeOK, AttachShoes
<1>5. attaching' \in BOOLEAN
  BY Zenon DEF AttachShoes, AnyRefused, Refused
<1>6. UNCHANGED <<crash, now, stamp, socket, closes, detached, running, runVars>>
  BY DEF AttachShoes
<1> QED
  BY <1>2, <1>3, <1>4, <1>5, <1>6 DEF TypeOK, runVars

LEMMA OwnerStepType == TypeOK /\ OwnerStep => TypeOK'
<1> SUFFICES ASSUME TypeOK, OwnerStep PROVE TypeOK'
  OBVIOUS
<1>1. CASE Open
  BY <1>1 DEF TypeOK, Open, deviceVars, runVars
<1>2. CASE Close
  <2>1. closes' \in 0..MaxCloses
    BY <1>2, ClosesNext DEF TypeOK, Close
  <2> QED
    BY <1>2, <2>1 DEF TypeOK, Close, deviceVars, runVars
<1>3. CASE StartPublisher
  BY <1>3 DEF TypeOK, StartPublisher, runVars
<1>4. CASE DetachAll
  <2>1. sensor' \in [Shoes -> Pointers] /\ timed' \in [Shoes -> Pointers]
    BY <1>4, Zeros DEF TypeOK, DetachAll, Shoes
  <2> QED
    BY <1>4, <2>1 DEF TypeOK, DetachAll, runVars
<1> QED
  BY <1>1, <1>2, <1>3, <1>4, AttachShoesType DEF OwnerStep

LEMMA RunStepType == TypeOK /\ RunStep => TypeOK'
<1> SUFFICES ASSUME TypeOK, RunStep PROVE TypeOK'
  OBVIOUS
<1> USE DEF TypeOK, deviceVars, Reading
<1>1. CASE RunBegin
  BY <1>1 DEF RunBegin
<1>2. CASE NullPointer \/ SendThrows
  BY <1>2 DEF NullPointer, SendThrows, runVars
<1>3. CASE FirstStamp \/ SecondStamp
  BY <1>3 DEF FirstStamp, SecondStamp, TakeStamp, Shoes
<1>4. CASE FirstData
  BY <1>4 DEF FirstData, ReadShoe, Shoes
<1>5. CASE SecondData
  <2>1. taken[1] + taken[2] \in Means
    BY TimesAdd DEF Shoes
  <2> QED
    BY <1>5, <2>1 DEF SecondData, ReadShoe, KeepInitial, Shoes
<1>6. CASE SocketIsOpen \/ Reopen \/ ReopenFails
  BY <1>6 DEF SocketIsOpen, Reopen, ReopenFails
<1>7. CASE Send
  <2>1. taken[1] + taken[2] \in Doubles /\ (taken[1] + taken[2]) - initial \in Doubles
    BY RelativeTimes, Differences
  <2>2. Float[taken[1] + taken[2]] \in Int /\ Float[(taken[1] + taken[2]) - initial] \in Int
    BY <2>1, FloatType
  <2>3. packet' \in Packets
    BY <1>7, <2>2 DEF Send, Packets
  <2> QED
    BY <1>7, <2>3 DEF Send
<1> QED
  BY <1>1, <1>2, <1>3, <1>4, <1>5, <1>6, <1>7 DEF RunStep

LEMMA TypeStep == TypeOK /\ [Next]_vars => TypeOK'
<1> SUFFICES ASSUME TypeOK, [Next]_vars PROVE TypeOK'
  OBVIOUS
<1>1. CASE Tick
  <2>1. now' \in Times
    BY <1>1, TimesTick DEF TypeOK, Tick
  <2> QED
    BY <1>1, <2>1 DEF TypeOK, Tick, deviceVars, runVars
<1>2. ASSUME NEW s \in Shoes, ClientReads(s) PROVE TypeOK'
  BY <1>2 DEF TypeOK, ClientReads, deviceVars, runVars
<1>3. CASE UNCHANGED vars
  BY <1>3 DEF TypeOK, vars, deviceVars, runVars
<1> QED
  BY <1>1, <1>2, <1>3, OwnerStepType, RunStepType DEF Next, OwnerStep, Crashed

(* The state stays in the ranges the declarations of the device give it. *)
THEOREM TypeCorrect == Spec => []TypeOK
  BY TypeInit, TypeStep, PTL DEF Spec

-----------------------------------------------------------------------------
(* Where a shoe has both pointers they are from one attachAll(), and so    *)
(* are the sensors of the two shoes: the second is never attached alone.   *)
Matched ==
    /\ \A s \in Shoes : sensor[s] # 0 /\ timed[s] # 0 => sensor[s] = timed[s]
    /\ sensor[2] # 0 => sensor[1] = sensor[2]

(* What a run has dereferenced so far is still in place. *)
UsedInPlace ==
    /\ pc = "firstStamp" => used = {}
    /\ pc = "secondStamp" => used = {timed[1]} /\ timed[1] # 0
    /\ pc = "firstData" => used = {timed[1], timed[2]} /\ timed[1] # 0 /\ timed[2] # 0
    /\ pc = "secondData" =>
          used = {timed[1], timed[2], sensor[1]} /\ timed[1] # 0 /\ timed[2] # 0 /\ sensor[1] # 0
    /\ pc \in {"check", "send"} => \A a, b \in used : a = b

AttachmentInv == LockHeld /\ Matched /\ UsedInPlace /\ OneAttachmentPerPacket

LEMMA AttachmentInit == Init => AttachmentInv
  BY DEF Init, AttachmentInv, LockHeld, Matched, UsedInPlace, OneAttachmentPerPacket, Reading, Shoes

LEMMA AttachMatches ==
    ASSUME TypeOK, Matched, NEW first \in Offers, NEW second \in Offers, AttachShoes(first, second)
    PROVE  Matched'
<1> DEFINE n == attachments + 1
<1>n. n # 0
  <2>1. attachments \in Pointers
    BY DEF TypeOK
  <2> QED
    BY <2>1 DEF Pointers
<1>s. sensor' = [s \in Shoes |->
                    IF s = 1 THEN SensorAfter(1, first, n)
                    ELSE IF Refused(1, first) THEN sensor[2]
                    ELSE SensorAfter(2, second, n)]
  BY DEF AttachShoes
<1>t. timed' = [s \in Shoes |->
                   IF s = 1 THEN TimedAfter(1, first, n)
                   ELSE IF Refused(1, first) THEN timed[2]
                   ELSE TimedAfter(2, second, n)]
  BY DEF AttachShoes
<1> HIDE DEF n
<1> USE <1>n, <1>s, <1>t DEF Matched, Shoes, SensorAfter, TimedAfter, Offers
<1>1. CASE Refused(1, first)
  BY <1>1 DEF Refused
<1>2. CASE ~Refused(1, first)
  BY <1>2 DEF Refused
<1> QED
  BY <1>1, <1>2

LEMMA AttachmentStep == TypeOK /\ AttachmentInv /\ [Next]_vars => AttachmentInv'
<1> SUFFICES ASSUME TypeOK, AttachmentInv, [Next]_vars PROVE AttachmentInv'
  OBVIOUS
<1> USE DEF AttachmentInv, Shoes
<1>1. CASE EnvironmentStep \/ Open \/ Close \/ StartPublisher \/ UNCHANGED vars
  BY <1>1 DEF EnvironmentStep, Tick, ClientReads, Open, Close, StartPublisher, vars, deviceVars,
     runVars, LockHeld, Matched, UsedInPlace, OneAttachmentPerPacket
<1>2. ASSUME NEW first \in Offers, NEW second \in Offers, AttachShoes(first, second)
      PROVE  AttachmentInv'
  <2>1. Matched'
    BY <1>2, AttachMatches
  <2>2. pc \notin Reading /\ UNCHANGED runVars
    BY <1>2 DEF AttachShoes, MutexFree, LockHeld
  <2> QED
    BY <2>1, <2>2 DEF runVars, LockHeld, UsedInPlace, OneAttachmentPerPacket, Reading
<1>3. CASE DetachAll
  BY <1>3 DEF DetachAll, MutexFree, runVars, TypeOK, LockHeld, Matched, UsedInPlace,
     OneAttachmentPerPacket, Reading
<1>4. CASE RunBegin
  BY <1>4 DEF RunBegin, deviceVars, LockHeld, Matched, UsedInPlace, OneAttachmentPerPacket, Reading
<1>8. CASE NullPointer \/ SendThrows
  <2>1. UNCHANGED <<sensor, timed, mutex, pc, used, packet>>
    BY <1>8 DEF NullPointer, SendThrows, deviceVars, runVars
  <2> QED
    BY <2>1 DEF LockHeld, Matched, UsedInPlace, OneAttachmentPerPacket
<1>9. CASE SocketIsOpen \/ Reopen \/ ReopenFails
  <2>1. pc = "check" /\ pc' \in {"idle", "send"} /\ UNCHANGED <<sensor, timed, mutex, used, packet>>
    BY <1>9 DEF SocketIsOpen, Reopen, ReopenFails, deviceVars
  <2> QED
    BY <2>1 DEF LockHeld, Matched, UsedInPlace, OneAttachmentPerPacket, Reading
<1>5. CASE FirstStamp \/ SecondStamp \/ FirstData
  BY <1>5 DEF FirstStamp, SecondStamp, FirstData, TakeStamp, ReadShoe, deviceVars, TypeOK, LockHeld,
     Matched, UsedInPlace, OneAttachmentPerPacket, Reading
<1>6. CASE SecondData
  <2>1. \A a, b \in used \cup {sensor[2]} : a = b
    BY <1>6 DEF SecondData, Matched, UsedInPlace
  <2> QED
    BY <1>6, <2>1 DEF SecondData, ReadShoe, deviceVars, LockHeld, Matched, UsedInPlace,
       OneAttachmentPerPacket, Reading
<1>7. CASE Send
  <2>1. packet'.used = used
    BY <1>7 DEF Send
  <2> QED
    BY <1>7, <2>1 DEF Send, deviceVars, LockHeld, Matched, UsedInPlace, OneAttachmentPerPacket, Reading
<1> QED
  BY <1>1, <1>2, <1>3, <1>4, <1>5, <1>6, <1>7, <1>8, <1>9
     DEF Next, RunStep, EnvironmentStep, Crashed

LEMMA AttachmentInductive == Spec => []AttachmentInv
  BY AttachmentInit, AttachmentStep, TypeCorrect, PTL DEF Spec

(* No packet mixes data of two attachments. *)
THEOREM PacketsOfOneAttachment == Spec => []OneAttachmentPerPacket
<1>1. AttachmentInv => OneAttachmentPerPacket
  BY DEF AttachmentInv
<1> QED
  BY AttachmentInductive, <1>1, PTL

-----------------------------------------------------------------------------
(* All four pointers run() dereferences are set. *)
AllSet == \A s \in Shoes : sensor[s] # 0 /\ timed[s] # 0

(* A running thread was started by an attachAll() that attached everything,*)
(* and only detachAll() takes a pointer away; a socket is lost by close(). *)
LifeInv ==
    /\ attaching => AllSet
    /\ running /\ ~detached => AllSet
    /\ pc # "idle" => running
    /\ attaching \/ running => socket # "null"
    /\ socket = "closed" => closes > 0
    /\ OnlyOwnerEndsPublication

LEMMA LifeInit == Init => LifeInv
  BY DEF Init, LifeInv, OnlyOwnerEndsPublication

LEMMA AttachKeepsLife ==
    ASSUME TypeOK, LifeInv, NEW first \in Offers, NEW second \in Offers, AttachShoes(first, second)
    PROVE  LifeInv'
<1>1. attachments + 1 # 0
  <2>1. attachments \in Pointers
    BY DEF TypeOK
  <2> QED
    BY <2>1 DEF Pointers
<1>2. AllSet => AllSet'
  BY DEF AllSet, AttachShoes, SensorAfter, TimedAfter, Refused, Shoes
<1>3. ~AnyRefused(first, second) => AllSet'
  BY <1>1 DEF AllSet, AttachShoes, SensorAfter, TimedAfter, AnyRefused, Refused, Shoes
<1>4. attaching' <=> ~AnyRefused(first, second)
  BY Zenon DEF AttachShoes
<1>5. socket # "null" /\ UNCHANGED <<crash, socket, closes, detached, running, pc>>
  BY DEF AttachShoes, runVars
<1> QED
  BY <1>2, <1>3, <1>4, <1>5 DEF LifeInv, OnlyOwnerEndsPublication

LEMMA OwnerKeepsLife == TypeOK /\ LifeInv /\ OwnerStep => LifeInv'
<1> SUFFICES ASSUME TypeOK, LifeInv, OwnerStep PROVE LifeInv'
  OBVIOUS
<1>1. CASE Open
  BY <1>1 DEF LifeInv, AllSet, OnlyOwnerEndsPublication, Open, deviceVars, runVars
<1>2. CASE Close
  <2>1. closes' > 0
    <3>1. closes \in 0..MaxCloses
      BY DEF TypeOK
    <3> QED
      BY <1>2, <3>1 DEF Close
  <2> QED
    BY <1>2, <2>1 DEF LifeInv, AllSet, OnlyOwnerEndsPublication, Close, deviceVars, runVars
<1>3. CASE StartPublisher
  BY <1>3 DEF LifeInv, AllSet, OnlyOwnerEndsPublication, StartPublisher, runVars
<1>4. CASE DetachAll
  BY <1>4 DEF LifeInv, OnlyOwnerEndsPublication, DetachAll, runVars
<1> QED
  BY <1>1, <1>2, <1>3, <1>4, AttachKeepsLife DEF OwnerStep

LEMMA RunKeepsLife == LifeInv /\ RunStep => LifeInv'
<1> SUFFICES ASSUME LifeInv, RunStep PROVE LifeInv'
  OBVIOUS
<1>1. CASE NullPointer
  <2>1. running /\ ~AllSet
    BY <1>1 DEF NullPointer, Dereferences, LifeInv, AllSet, Shoes
  <2>2. detached /\ UNCHANGED <<socket, closes, deviceVars, runVars>> /\ crash' = "nullPointer"
    BY <1>1, <2>1 DEF NullPointer, LifeInv
  <2> QED
    BY <2>2 DEF LifeInv, AllSet, OnlyOwnerEndsPublication, deviceVars, runVars
<1>2. CASE SendThrows
  <2>1. closes > 0 /\ UNCHANGED <<socket, closes, deviceVars, runVars>> /\ crash' = "closedSocket"
    BY <1>2 DEF SendThrows, LifeInv
  <2> QED
    BY <2>1 DEF LifeInv, AllSet, OnlyOwnerEndsPublication, deviceVars, runVars
<1>3. CASE RunBegin
  BY <1>3 DEF RunBegin, LifeInv, AllSet, OnlyOwnerEndsPublication, deviceVars
<1>4. CASE FirstStamp \/ SecondStamp \/ FirstData \/ SecondData \/ SocketIsOpen \/ Reopen \/ ReopenFails
           \/ Send
  <2>1. /\ pc # "idle" /\ UNCHANGED <<crash, closes, deviceVars>>
        /\ socket' # "closed" \/ socket' = socket
        /\ socket' # "null" \/ socket' = socket
    BY <1>4 DEF FirstStamp, SecondStamp, FirstData, SecondData, SocketIsOpen, Reopen, ReopenFails, Send
  <2> QED
    BY <2>1 DEF LifeInv, AllSet, OnlyOwnerEndsPublication, deviceVars
<1> QED
  BY <1>1, <1>2, <1>3, <1>4 DEF RunStep

LEMMA LifeStep == TypeOK /\ LifeInv /\ [Next]_vars => LifeInv'
<1> SUFFICES ASSUME TypeOK, LifeInv, [Next]_vars PROVE LifeInv'
  OBVIOUS
<1>1. CASE EnvironmentStep
  <2>1. UNCHANGED <<crash, socket, closes, deviceVars, runVars>>
    BY <1>1 DEF EnvironmentStep, Tick, ClientReads
  <2> QED
    BY <2>1 DEF LifeInv, AllSet, OnlyOwnerEndsPublication, deviceVars, runVars
<1>2. CASE UNCHANGED vars
  BY <1>2 DEF vars, LifeInv, AllSet, OnlyOwnerEndsPublication, deviceVars, runVars
<1> QED
  BY <1>1, <1>2, OwnerKeepsLife, RunKeepsLife DEF Next, EnvironmentStep, OwnerStep, Crashed

LEMMA LifeInductive == Spec => []LifeInv
  BY LifeInit, LifeStep, TypeCorrect, PTL DEF Spec

(* Nothing but detachAll() or close() during the publication ends it.      *)
THEOREM PublicationSurvives == Spec => []OnlyOwnerEndsPublication
<1>1. LifeInv => OnlyOwnerEndsPublication
  BY DEF LifeInv
<1> QED
  BY LifeInductive, <1>1, PTL

(* The thread uses m_socket without a check, and waits for nothing once it *)
(* is inside run(): at every place one of its steps can be taken.          *)
RunningHasSocket == running \/ pc # "idle" => socket # "null"

(* The socket run() tests, reopens and sends with is there whenever the    *)
(* thread runs: only an opened device is attached, and close() keeps it.   *)
THEOREM SocketIsThere == Spec => []RunningHasSocket
<1>1. LifeInv => RunningHasSocket
  BY DEF LifeInv, RunningHasSocket
<1> QED
  BY LifeInductive, <1>1, PTL

-----------------------------------------------------------------------------
(* The times of a run, doubled where they are means: a stamp is taken      *)
(* before its shoe is read, the initial time is a mean of earlier stamps,  *)
(* and what was sent is at most what the stamps of this run are rounded to.*)
Sum == taken[1] + taken[2]

TimeInv ==
    /\ \A s \in Shoes : stamp[s] <= now /\ taken[s] <= stamp[s]
    /\ pc = "secondData" => taken[1] <= data[1]
    /\ pc \in {"check", "send"} =>
          /\ \A s \in Shoes : taken[s] <= data[s]
          /\ initial = 0 => Sum = 0
    /\ initial <= Sum
    /\ packet.abs <= Float[Sum]
    /\ initial = 0 => packet.rel = 0
    /\ packet.rel <= Float[Sum - initial]
    /\ PacketNotNewerThanReadings

(* What the arithmetic below needs of the type invariant. *)
Numbers ==
    /\ now \in Nat
    /\ stamp \in [Shoes -> Nat] /\ taken \in [Shoes -> Nat] /\ data \in [Shoes -> Nat]
    /\ initial \in Means /\ Sum \in Means /\ data[1] + data[2] \in Means
    /\ packet.abs \in Int /\ packet.rel \in Int

LEMMA TypeNumbers == TypeOK => Numbers
<1> SUFFICES ASSUME TypeOK PROVE Numbers
  OBVIOUS
<1>1. Times \subseteq Nat
  BY DEF Times
<1>2. Sum \in Means /\ data[1] + data[2] \in Means
  <2>1. taken \in [Shoes -> Times] /\ data \in [Shoes -> Times]
    BY DEF TypeOK
  <2>2. /\ taken[1] \in Times /\ taken[2] \in Times
        /\ data[1] \in Times /\ data[2] \in Times
    BY <2>1 DEF Shoes
  <2> QED
    BY <2>2, TimesAdd DEF Sum
<1> QED
  BY <1>1, <1>2 DEF TypeOK, Numbers, Packets

LEMMA TimeInit == Init => TimeInv
<1> SUFFICES ASSUME Init PROVE TimeInv
  OBVIOUS
<1>1. /\ now = StartTime /\ initial = 0 /\ pc = "idle"
      /\ \A s \in Shoes : stamp[s] = StartTime /\ taken[s] = 0 /\ data[s] = 0
      /\ packet.abs = 0 /\ packet.rel = 0 /\ packet.taken = taken /\ packet.data = data
  BY DEF Init
<1>2. Sum = 0 /\ Sum - initial = 0 /\ data[1] + data[2] = 0
  BY <1>1 DEF Sum, Shoes
<1>3. PacketNotNewerThanReadings
  BY <1>1, <1>2, FloatAssumption DEF PacketNotNewerThanReadings
<1> QED
  BY <1>1, <1>2, <1>3, FloatAssumption DEF TimeInv

(* A shoe that is read by anyone gets a stamp no older than it had. *)
LEMMA EnvironmentKeepsTime == Numbers /\ TimeInv /\ EnvironmentStep => TimeInv'
<1> SUFFICES ASSUME Numbers, TimeInv, EnvironmentStep PROVE TimeInv'
  OBVIOUS
<1>1. /\ UNCHANGED runVars /\ Sum' = Sum
      /\ PacketNotNewerThanReadings'
  BY DEF EnvironmentStep, Tick, ClientReads, runVars, Sum, TimeInv, PacketNotNewerThanReadings
<1>2. \A s \in Shoes : stamp'[s] <= now' /\ taken[s] <= stamp'[s]
  BY DEF EnvironmentStep, Tick, ClientReads, Numbers, TimeInv
<1> QED
  BY <1>1, <1>2 DEF TimeInv, runVars

LEMMA StampKeepsTime ==
    ASSUME Numbers, Numbers', TimeInv, FirstStamp \/ SecondStamp
    PROVE  TimeInv'
<1> USE DEF Shoes
<1>1. /\ pc' \notin {"secondData", "check", "send"}
      /\ UNCHANGED <<now, stamp, initial, packet>>
      /\ taken' = [taken EXCEPT ![1] = stamp[1]] \/ taken' = [taken EXCEPT ![2] = stamp[2]]
  BY DEF FirstStamp, SecondStamp, TakeStamp
<1>2. \A s \in Shoes : taken[s] <= taken'[s] /\ taken'[s] <= stamp[s] /\ taken'[s] \in Nat
  BY <1>1 DEF TimeInv, Numbers
<1>3. Sum <= Sum' /\ Sum - initial <= Sum' - initial /\ initial <= Sum'
  <2>1. /\ taken[1] \in Nat /\ taken[2] \in Nat /\ taken'[1] \in Nat /\ taken'[2] \in Nat
        /\ taken[1] <= taken'[1] /\ taken[2] <= taken'[2]
    BY <1>2 DEF Numbers
  <2>2. Sum <= Sum' /\ Sum \in Nat /\ Sum' \in Nat
    BY <2>1 DEF Sum
  <2>3. initial \in Nat /\ initial <= Sum
    BY Differences DEF Numbers, TimeInv
  <2>4. \A a, b, c \in Nat : a <= b /\ c <= a => a - c <= b - c /\ c <= b
    OBVIOUS
  <2> QED
    BY <2>2, <2>3, <2>4
<1>4. /\ Sum \in Doubles /\ Sum' \in Doubles
      /\ Sum - initial \in Doubles /\ Sum' - initial \in Doubles
  BY Differences DEF Numbers
<1>5. packet'.abs <= Float[Sum'] /\ packet'.rel <= Float[Sum' - initial']
  <2>1. Float[Sum] <= Float[Sum'] /\ Float[Sum - initial] <= Float[Sum' - initial]
    BY <1>3, <1>4, FloatGrows
  <2>2. /\ Float[Sum] \in Int /\ Float[Sum'] \in Int
        /\ Float[Sum - initial] \in Int /\ Float[Sum' - initial] \in Int
    BY <1>4, FloatType
  <2>3. packet.abs <= Float[Sum] /\ packet.rel <= Float[Sum - initial]
        /\ packet.abs \in Int /\ packet.rel \in Int
    BY DEF TimeInv, Numbers
  <2> QED
    BY <1>1, <2>1, <2>2, <2>3
<1>6. PacketNotNewerThanReadings'
  BY <1>1 DEF TimeInv, PacketNotNewerThanReadings
<1>7. \A s \in Shoes : stamp'[s] <= now' /\ taken'[s] <= stamp'[s]
  BY <1>1, <1>2 DEF TimeInv
<1>8. initial' = 0 => packet'.rel = 0
  BY <1>1 DEF TimeInv
<1> QED
  BY <1>1, <1>3, <1>5, <1>6, <1>7, <1>8 DEF TimeInv

LEMMA DataKeepsTime ==
    ASSUME Numbers, TimeInv, FirstData \/ SecondData
    PROVE  TimeInv'
<1> USE DEF Shoes
<1>1. /\ \A s \in Shoes : stamp'[s] <= now' /\ taken'[s] <= stamp'[s]
      /\ UNCHANGED <<now, taken, packet>> /\ Sum' = Sum
  BY DEF FirstData, SecondData, ReadShoe, Numbers, TimeInv, Sum
<1>2. PacketNotNewerThanReadings' /\ packet'.abs <= Float[Sum']
  BY <1>1 DEF TimeInv, PacketNotNewerThanReadings
<1>3. CASE FirstData
  <2>1. pc' = "secondData" /\ taken'[1] <= data'[1] /\ UNCHANGED initial
    BY <1>3 DEF FirstData, ReadShoe, Numbers, TimeInv
  <2> QED
    BY <1>1, <1>2, <2>1 DEF TimeInv
<1>4. CASE SecondData
  <2>1. /\ pc' = "check"
        /\ \A s \in Shoes : taken'[s] <= data'[s]
        /\ initial' = IF initial = 0 THEN Sum ELSE initial
    BY <1>4 DEF SecondData, ReadShoe, KeepInitial, Numbers, TimeInv, Sum
  <2>2. CASE initial = 0
    <3>1. initial' = Sum /\ packet'.rel = 0 /\ Sum' - initial' = 0 /\ Sum \in Nat
      BY <1>1, <2>1, <2>2 DEF TimeInv, Numbers, Means
    <3>2. packet'.rel <= Float[Sum' - initial']
      BY <3>1, FloatAssumption
    <3> QED
      BY <1>1, <1>2, <2>1, <3>1, <3>2 DEF TimeInv
  <2>3. CASE initial # 0
    BY <1>1, <1>2, <2>1, <2>3 DEF TimeInv
  <2> QED
    BY <2>2, <2>3
<1> QED
  BY <1>3, <1>4

(* What Send puts into the packet. *)
LEMMA SentTimes ==
    ASSUME Numbers, TimeInv, Send
    PROVE  /\ packet'.abs = Float[Sum] /\ packet'.rel = Float[Sum - initial]
           /\ packet'.taken = taken /\ packet'.data = data
           /\ Sum \in Doubles /\ Sum - initial \in Doubles
           /\ Float[Sum] \in Int /\ Float[Sum - initial] \in Int
           /\ 0 <= Float[Sum - initial] /\ Float[Sum - initial] <= Float[Sum]
<1>1. Sum \in Doubles /\ Sum - initial \in Doubles /\ 0 \in Doubles
  BY Differences, Zeros DEF Numbers
<1>2. 0 <= Sum - initial /\ Sum - initial <= Sum
  <2>1. Sum \in Nat /\ initial \in Nat /\ initial <= Sum
    BY Differences DEF Numbers, TimeInv
  <2> QED
    BY <2>1
<1>3. Float[0] <= Float[Sum - initial] /\ Float[Sum - initial] <= Float[Sum]
  BY <1>1, <1>2, FloatGrows
<1>4. /\ packet'.abs = Float[Sum] /\ packet'.rel = Float[Sum - initial]
      /\ packet'.taken = taken /\ packet'.data = data
  <2>1. packet' = [abs |-> Float[taken[1] + taken[2]],
                   rel |-> Float[(taken[1] + taken[2]) - initial],
                   taken |-> taken, data |-> data, used |-> used]
    BY Zenon DEF Send
  <2>2. packet' = [abs |-> Float[Sum], rel |-> Float[Sum - initial], taken |-> taken,
                   data |-> data, used |-> used]
    BY <2>1, Zenon DEF Sum
  <2> QED
    BY <2>2
<1> QED
  BY <1>1, <1>3, <1>4, FloatType, FloatAssumption

LEMMA SendKeepsTime == Numbers /\ TimeInv /\ Send => TimeInv'
<1> SUFFICES ASSUME Numbers, TimeInv, Send PROVE TimeInv'
  OBVIOUS
<1>1. /\ pc = "send" /\ pc' = "idle" /\ Sum' = Sum
      /\ UNCHANGED <<now, stamp, taken, data, initial>>
  <2>1. pc = "send" /\ pc' = "idle" /\ UNCHANGED <<now, stamp, taken, data, initial>>
    BY DEF Send
  <2> QED
    BY <2>1 DEF Sum
<1>2. \A s \in Shoes : taken[s] <= data[s]
  BY <1>1 DEF TimeInv
<1>3. Float[Sum] <= Float[data[1] + data[2]]
  <2>1. Sum <= data[1] + data[2]
    BY <1>2 DEF Numbers, Sum, Shoes
  <2>2. Sum \in Doubles /\ data[1] + data[2] \in Doubles
    BY Differences DEF Numbers
  <2> QED
    BY <2>1, <2>2, FloatGrows
<1>4. PacketNotNewerThanReadings'
  BY <1>2, <1>3, SentTimes DEF PacketNotNewerThanReadings
<1>5. packet'.abs <= Float[Sum'] /\ packet'.rel <= Float[Sum' - initial']
  BY <1>1, SentTimes
<1>6. initial' = 0 => packet'.rel = 0
  <2>1. initial = 0 => Sum = 0 /\ Sum - initial = 0
    BY <1>1 DEF TimeInv
  <2> QED
    BY <1>1, <2>1, SentTimes, FloatAssumption
<1> QED
  BY <1>1, <1>4, <1>5, <1>6 DEF TimeInv

LEMMA TimeStep == TypeOK /\ TimeInv /\ [Next]_vars => TimeInv'
<1> SUFFICES ASSUME TypeOK, TimeInv, [Next]_vars PROVE TimeInv'
  OBVIOUS
<1>0. Numbers /\ Numbers'
  <2>1. TypeOK'
    BY TypeStep
  <2>2. TypeOK' => Numbers'
    BY TypeNumbers, PTL
  <2> QED
    BY <2>1, <2>2, TypeNumbers
<1>1. CASE RunBegin \/ NullPointer \/ SocketIsOpen \/ Reopen \/ ReopenFails \/ SendThrows
  <2>1. /\ UNCHANGED <<now, stamp, taken, data, initial, packet>>
        /\ pc' = pc \/ pc' \in {"firstStamp", "idle"} \/ (pc = "check" /\ pc' = "send")
    BY <1>1 DEF RunBegin, NullPointer, SocketIsOpen, Reopen, ReopenFails, SendThrows, runVars
  <2> QED
    BY <2>1 DEF TimeInv, Sum, PacketNotNewerThanReadings
<1>2. CASE OwnerStep \/ UNCHANGED vars
  <2>1. UNCHANGED <<now, stamp, runVars>>
    BY <1>2 DEF OwnerStep, Open, Close, StartPublisher, DetachAll, AttachShoes, vars
  <2> QED
    BY <2>1 DEF TimeInv, Sum, PacketNotNewerThanReadings, runVars
<1> QED
  BY <1>0, <1>1, <1>2, EnvironmentKeepsTime, StampKeepsTime, DataKeepsTime, SendKeepsTime
     DEF Next, EnvironmentStep, OwnerStep, RunStep, Crashed

LEMMA TimeInductive == Spec => [](TypeOK /\ TimeInv)
  BY TypeInit, TypeStep, TimeInit, TimeStep, PTL DEF Spec

(* The stamps of a packet are not newer than its readings, and its times   *)
(* are not above what the readings' own time is rounded to, nor negative.  *)
THEOREM PacketsAreNotNewer == Spec => []PacketNotNewerThanReadings
<1>1. TimeInv => PacketNotNewerThanReadings
  BY DEF TimeInv
<1> QED
  BY TimeInductive, <1>1, PTL

(* Neither time of the packets ever decreases. *)
THEOREM PacketsInOrder == Spec => PacketTimesNeverGoBack
<1> DEFINE Grows == packet'.abs >= packet.abs /\ packet'.rel >= packet.rel
<1>1. TypeOK /\ TimeInv /\ [Next]_vars => [Grows]_vars
  <2> SUFFICES ASSUME TypeOK, TimeInv, [Next]_vars PROVE Grows
    OBVIOUS
  <2>1. Numbers
    BY TypeNumbers
  <2>2. CASE packet' = packet
    BY <2>1, <2>2 DEF Numbers
  <2>3. CASE Send
    <3>1. packet.abs <= Float[Sum] /\ packet.rel <= Float[Sum - initial]
          /\ packet.abs \in Int /\ packet.rel \in Int
      BY <2>1 DEF TimeInv, Numbers
    <3> QED
      BY <2>1, <2>3, <3>1, SentTimes
  <2>4. packet' = packet \/ Send
    BY DEF Next, Tick, ClientReads, Open, Close, AttachShoes, StartPublisher, DetachAll, RunStep,
       RunBegin, NullPointer, FirstStamp, SecondStamp, FirstData, SecondData, SocketIsOpen, Reopen,
       ReopenFails, SendThrows, Crashed, vars, runVars
  <2> QED
    BY <2>2, <2>3, <2>4
<1> QED
  BY TimeInductive, <1>1, PTL DEF Spec, PacketTimesNeverGoBack

-----------------------------------------------------------------------------
(* The safety that the liveness of the publication rests on. *)

(* The steps of run() until it returns, or until it begins and returns.    *)
RunLeft ==
    [idle |-> 7, firstStamp |-> 6, secondStamp |-> 5, firstData |-> 4, secondData |-> 3,
     check |-> 2, send |-> 1][pc]

ReopenLeft == IF socket = "closed" THEN 7 ELSE 0

(* The steps of run() until a packet is sent: one run to reopen a closed   *)
(* socket and one to send, and both again for every close() to come.       *)
ResumeLeft == 14 * (MaxCloses - closes) + ReopenLeft + RunLeft

RunPlaces == {"idle", "firstStamp", "secondStamp", "firstData", "secondData", "check", "send"}

LEMMA ResumeLeftRange ==
    ASSUME TypeOK PROVE ResumeLeft \in 1..14 * MaxCloses + 14 /\ RunLeft \in 1..7
<1>1. pc \in RunPlaces
  BY DEF TypeOK, Reading, RunPlaces
<1>2. RunLeft \in 1..7 /\ ReopenLeft \in 0..7
  BY <1>1 DEF RunLeft, ReopenLeft, RunPlaces
<1>3. closes \in 0..MaxCloses
  BY DEF TypeOK
<1> QED
  BY <1>2, <1>3, MaxClosesAssumption DEF ResumeLeft

LEMMA OwnerKeepsResumption ==
    ASSUME TypeOK, OwnerStep \/ EnvironmentStep \/ UNCHANGED vars, socket # "null"
    PROVE  ResumeLeft' <= ResumeLeft /\ ~(RunStep /\ crash' = "no" /\ outcome' = "gaveUp")
<1>1. RunLeft \in 1..7 /\ closes \in 0..MaxCloses /\ ReopenLeft \in {0, 7}
  BY ResumeLeftRange DEF TypeOK, ReopenLeft
<1>2. pc' = pc /\ RunLeft' = RunLeft
  <2>1. pc' = pc
    BY DEF OwnerStep, EnvironmentStep, Open, Close, StartPublisher, DetachAll, AttachShoes, Tick,
      ClientReads, vars, runVars
  <2> QED
    BY <2>1 DEF RunLeft
<1>3. CASE Close
  <2>1. closes' = closes + 1 /\ ReopenLeft' = 7
    BY <1>3 DEF Close, ReopenLeft
  <2>2. ~RunStep
    <3>1. RunStep => closes' = closes
      BY DEF RunStep, RunBegin, NullPointer, FirstStamp, SecondStamp, FirstData,
        SecondData, SocketIsOpen, Reopen, ReopenFails, Send, SendThrows
    <3> QED
      BY <1>1, <2>1, <3>1
  <2> QED
    BY <1>1, <1>2, <2>1, <2>2, MaxClosesAssumption DEF ResumeLeft
<1>4. CASE ~Close
  <2>1. UNCHANGED <<closes, socket>>
    BY <1>4 DEF OwnerStep, EnvironmentStep, Open, StartPublisher, DetachAll, AttachShoes, Tick,
      ClientReads, vars
  <2>2. ~(RunStep /\ crash' = "no" /\ outcome' = "gaveUp")
    BY <1>2 DEF RunStep, RunBegin, NullPointer, FirstStamp, SecondStamp, FirstData,
      SecondData, SocketIsOpen, Reopen, ReopenFails, Send, SendThrows
  <2>3. ReopenLeft' = ReopenLeft
    BY <2>1 DEF ReopenLeft
  <2> QED
    BY <1>1, <1>2, <2>1, <2>2, <2>3, MaxClosesAssumption DEF ResumeLeft
<1> QED
  BY <1>3, <1>4

LEMMA RunApproachesPacket ==
    ASSUME TypeOK, RunStep, crash' = "no", outcome' = "gaveUp"
    PROVE  ResumeLeft' < ResumeLeft
<1>1. closes \in 0..MaxCloses /\ closes' = closes
  BY DEF TypeOK, RunStep, RunBegin, NullPointer, FirstStamp, SecondStamp, FirstData, SecondData,
    SocketIsOpen, Reopen, ReopenFails, Send, SendThrows
<1>2. CASE Reopen
  <2>1. RunLeft = 2 /\ RunLeft' = 7 /\ ReopenLeft = 7 /\ ReopenLeft' = 0
    BY <1>2 DEF Reopen, RunLeft, ReopenLeft
  <2> QED
    BY <1>1, <2>1, MaxClosesAssumption DEF ResumeLeft
<1>3. CASE ~Reopen
  <2>1. /\ \/ pc = "idle" /\ pc' = "firstStamp"
           \/ pc = "firstStamp" /\ pc' = "secondStamp"
           \/ pc = "secondStamp" /\ pc' = "firstData"
           \/ pc = "firstData" /\ pc' = "secondData"
           \/ pc = "secondData" /\ pc' = "check"
           \/ pc = "check" /\ pc' = "send"
        /\ socket' = socket
    BY <1>3 DEF RunStep, RunBegin, NullPointer, FirstStamp, SecondStamp, FirstData, SecondData,
      SocketIsOpen, ReopenFails, Send, SendThrows
  <2>2. RunLeft \in 1..7 /\ RunLeft' = RunLeft - 1
    BY <2>1 DEF RunLeft
  <2>3. ReopenLeft \in {0, 7} /\ ReopenLeft' = ReopenLeft
    BY <2>1 DEF ReopenLeft
  <2> QED
    BY <1>1, <2>2, <2>3, MaxClosesAssumption DEF ResumeLeft
<1> QED
  BY <1>2, <1>3

(* A run that gave up has been before: its socket is there. *)
GaveUpHasSocket == outcome = "gaveUp" => socket # "null"

LEMMA GaveUpStep == GaveUpHasSocket /\ [Next]_vars => GaveUpHasSocket'
  BY DEF GaveUpHasSocket, Next, Tick, ClientReads, Open, Close, AttachShoes, StartPublisher,
    DetachAll, RunStep, RunBegin, NullPointer, FirstStamp, SecondStamp, FirstData, SecondData,
    SocketIsOpen, Reopen, ReopenFails, Send, SendThrows, Crashed, vars, runVars

(* After a run that gave up, run() sends a packet within 14 steps per      *)
(* close() and 14 more, unless the process ends: every step of run() comes *)
(* nearer, and neither the owner nor the readers of the shoes set it back. *)
THEOREM ResumptionIsBounded ==
    Spec => [][outcome = "gaveUp" =>
                 /\ ResumeLeft \in 1..14 * MaxCloses + 14
                 /\ outcome' = "gaveUp" /\ crash' = "no" =>
                      /\ ResumeLeft' <= ResumeLeft
                      /\ RunStep => ResumeLeft' < ResumeLeft]_vars
<1>1. Init => GaveUpHasSocket
  BY DEF Init, GaveUpHasSocket
<1>2. TypeOK /\ GaveUpHasSocket /\ [Next]_vars =>
        [outcome = "gaveUp" =>
           /\ ResumeLeft \in 1..14 * MaxCloses + 14
           /\ outcome' = "gaveUp" /\ crash' = "no" =>
                /\ ResumeLeft' <= ResumeLeft
                /\ RunStep => ResumeLeft' < ResumeLeft]_vars
  <2> SUFFICES ASSUME TypeOK, GaveUpHasSocket, [Next]_vars, outcome = "gaveUp"
               PROVE  /\ ResumeLeft \in 1..14 * MaxCloses + 14
                      /\ outcome' = "gaveUp" /\ crash' = "no" =>
                           /\ ResumeLeft' <= ResumeLeft
                           /\ RunStep => ResumeLeft' < ResumeLeft
    OBVIOUS
  <2>1. ResumeLeft \in 1..14 * MaxCloses + 14
    BY ResumeLeftRange
  <2>2. ASSUME outcome' = "gaveUp", crash' = "no", OwnerStep \/ EnvironmentStep \/ UNCHANGED vars
        PROVE  ResumeLeft' <= ResumeLeft /\ ~RunStep
    BY <2>2, OwnerKeepsResumption DEF GaveUpHasSocket
  <2>3. ASSUME outcome' = "gaveUp", crash' = "no", RunStep
        PROVE  ResumeLeft' <= ResumeLeft /\ ResumeLeft' < ResumeLeft
    <3>1. ResumeLeft' < ResumeLeft
      BY <2>3, RunApproachesPacket
    <3>2. ResumeLeft' \in Int
      <4>1. TypeOK'
        BY TypeStep
      <4>2. closes' \in 0..MaxCloses /\ pc' \in RunPlaces
        BY <4>1 DEF TypeOK, Reading, RunPlaces
      <4>3. RunLeft' \in 1..7 /\ ReopenLeft' \in {0, 7}
        BY <4>2 DEF RunLeft, ReopenLeft, RunPlaces
      <4> QED
        BY <4>2, <4>3, MaxClosesAssumption DEF ResumeLeft
    <3> QED
      BY <2>1, <3>1, <3>2
  <2> QED
    BY <2>1, <2>2, <2>3 DEF Next, EnvironmentStep, OwnerStep, Crashed
<1> QED
  BY TypeCorrect, <1>1, GaveUpStep, <1>2, PTL DEF Spec
=============================================================================
