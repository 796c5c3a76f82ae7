--------------------------- MODULE AtiNetFtProofs ---------------------------
(***************************************************************************)
(* Proofs of the safety properties of AtiNetFt for any number of clients   *)
(* and any number of faults.  LagIsDuplicates rests on two facts about the *)
(* network: no datagram appears from nowhere (Conservation), and of the    *)
(* datagrams under way the older ones are further ahead (Aged).            *)
(***************************************************************************)
EXTENDS AtiNetFt, SequenceTheorems, TLAPS

Waiting == IF mutex = "free" THEN 0 ELSE 1

(* Each request that was sent is answered, under way, or lost. *)
Conservation == requests + Len(responses) + lost = duplicated + Waiting

(* How old a response may be, by its place. *)
Aged ==
    ~reordered => \A i \in 1..Len(responses) :
        sent - ((Len(responses) + requests + lost) - i) <= responses[i]

Answered == \A i \in 1..Len(responses) : responses[i] <= sent

(* A read() that waits has sent the last request. *)
LastAsked == \A c \in Clients : client[c].at = "receive" => client[c].asked = sent

(* What a read() that is not waiting got. *)
Lag ==
    ~reordered => \A c \in Clients : client[c].at # "receive" =>
        client[c].asked - duplicated <= client[c].got /\ client[c].got <= sent

Inductive == TypeOK /\ Conservation /\ Aged /\ Answered /\ LastAsked /\ Lag

-----------------------------------------------------------------------------
(* A response that is young enough stays so. *)
LEMMA Older ==
    ASSUME NEW s \in Nat, NEW n \in Nat, NEW i \in Nat, NEW v \in Nat,
           NEW a \in Nat, NEW l \in Nat, NEW a1 \in Nat, NEW l1 \in Nat,
           a + l <= a1 + l1, s - ((n + a + l) - i) <= v
    PROVE  s - ((n + a1 + l1) - i) <= v
  OBVIOUS

(* Taking one element out of a sequence and putting one twice. *)
LEMMA Removed ==
    ASSUME NEW s \in Seq(Nat), NEW k \in 1..Len(s)
    PROVE  /\ RemoveAt(s, k) \in Seq(Nat)
           /\ Len(RemoveAt(s, k)) = Len(s) - 1
           /\ \A i \in 1..(k - 1) : RemoveAt(s, k)[i] = s[i]
           /\ \A i \in k..(Len(s) - 1) : RemoveAt(s, k)[i] = s[i + 1]
<1>1. PICK a : a = SubSeq(s, 1, k - 1)
  OBVIOUS
<1>2. PICK b : b = SubSeq(s, k + 1, Len(s))
  OBVIOUS
<1>3. a \in Seq(Nat) /\ Len(a) = k - 1 /\ \A i \in 1..(k - 1) : a[i] = s[i]
  BY <1>1, SubSeqProperties
<1>4. b \in Seq(Nat) /\ Len(b) = Len(s) - k /\ \A i \in 1..(Len(s) - k) : b[i] = s[k + i]
  BY <1>2, SubSeqProperties
<1>5. RemoveAt(s, k) = a \o b
  BY <1>1, <1>2 DEF RemoveAt
<1>6. /\ a \o b \in Seq(Nat) /\ Len(a \o b) = Len(a) + Len(b)
      /\ \A i \in 1..(Len(a) + Len(b)) :
             (a \o b)[i] = IF i <= Len(a) THEN a[i] ELSE b[i - Len(a)]
  BY <1>3, <1>4, ConcatProperties
<1>7. ASSUME NEW i \in 1..(k - 1) PROVE (a \o b)[i] = s[i]
  BY <1>3, <1>4, <1>6
<1>8. ASSUME NEW i \in k..(Len(s) - 1) PROVE (a \o b)[i] = s[i + 1]
  <2>0. Len(a) = k - 1 /\ i \in 1..(Len(a) + Len(b)) /\ ~(i <= Len(a))
    <3>1. i \in Int /\ k <= i /\ i <= Len(s) - 1 /\ k \in Int /\ k >= 1 /\ Len(s) \in Int
      OBVIOUS
    <3>2. Len(a) + Len(b) = Len(s) - 1
      BY <1>3, <1>4, <3>1
    <3> QED
      BY <1>3, <3>1, <3>2
  <2>1. (a \o b)[i] = b[i - (k - 1)] /\ i - (k - 1) \in 1..(Len(s) - k)
    <3>1. (a \o b)[i] = b[i - Len(a)]
      BY <1>6, <2>0
    <3>2. (a \o b)[i] = b[i - (k - 1)]
      BY <2>0, <3>1
    <3>3. i - (k - 1) \in 1..(Len(s) - k)
      OBVIOUS
    <3> QED
      BY <3>2, <3>3
  <2>2. b[i - (k - 1)] = s[k + (i - (k - 1))]
    BY <1>4, <2>1
  <2>3. k + (i - (k - 1)) = i + 1
    OBVIOUS
  <2> QED
    BY <2>1, <2>2, <2>3
<1>9. Len(a \o b) = Len(s) - 1
  BY <1>3, <1>4, <1>6
<1> QED
  BY <1>5, <1>6, <1>7, <1>8, <1>9

LEMMA Repeated ==
    ASSUME NEW s \in Seq(Nat), NEW k \in 1..Len(s)
    PROVE  /\ InsertAt(s, k, s[k]) \in Seq(Nat)
           /\ Len(InsertAt(s, k, s[k])) = Len(s) + 1
           /\ \A i \in 1..k : InsertAt(s, k, s[k])[i] = s[i]
           /\ \A i \in (k + 1)..(Len(s) + 1) : InsertAt(s, k, s[k])[i] = s[i - 1]
<1>1. PICK a : a = SubSeq(s, 1, k - 1)
  OBVIOUS
<1>2. PICK b : b = SubSeq(s, k, Len(s))
  OBVIOUS
<1>3. PICK e : e = <<s[k]>>
  OBVIOUS
<1>4. a \in Seq(Nat) /\ Len(a) = k - 1 /\ \A i \in 1..(k - 1) : a[i] = s[i]
  BY <1>1, SubSeqProperties
<1>5. b \in Seq(Nat) /\ Len(b) = (Len(s) - k) + 1
      /\ \A i \in 1..((Len(s) - k) + 1) : b[i] = s[(k + i) - 1]
  <2>1. k \in Int /\ Len(s) \in Int /\ k <= Len(s) /\ \A i \in k..Len(s) : s[i] \in Nat
    OBVIOUS
  <2>2. /\ b \in Seq(Nat) /\ Len(b) = IF k <= Len(s) THEN Len(s) - k + 1 ELSE 0
        /\ \A i \in 1..(Len(s) - k + 1) : b[i] = s[k + i - 1]
    <3>1. PICK n : n = Len(s)
      OBVIOUS
    <3>2. k \in Int /\ n \in Int /\ \A i \in k..n : s[i] \in Nat
      BY <2>1, <3>1
    <3>3. /\ SubSeq(s, k, n) \in Seq(Nat) /\ Len(SubSeq(s, k, n)) = IF k <= n THEN n - k + 1 ELSE 0
          /\ \A i \in 1..(n - k + 1) : SubSeq(s, k, n)[i] = s[k + i - 1]
      BY <3>2, SubSeqProperties, SMTT(30)
    <3> QED
      BY <1>2, <3>1, <3>3
  <2> QED
    BY <2>1, <2>2
<1>6. e \in Seq(Nat) /\ Len(e) = 1 /\ e[1] = s[k]
  BY <1>3
<1>7. PICK c : c = a \o e
  OBVIOUS
<1>8. InsertAt(s, k, s[k]) = c \o b
  BY <1>1, <1>2, <1>3, <1>7 DEF InsertAt
<1>9. /\ c \in Seq(Nat) /\ Len(c) = Len(a) + Len(e)
      /\ \A i \in 1..(Len(a) + Len(e)) : c[i] = IF i <= Len(a) THEN a[i] ELSE e[i - Len(a)]
  BY <1>4, <1>6, <1>7, ConcatProperties
<1>10. Len(c) = k /\ \A i \in 1..k : c[i] = s[i]
  <2>1. Len(a) = k - 1 /\ Len(e) = 1 /\ Len(a) + Len(e) = k
    BY <1>4, <1>6
  <2>2. ASSUME NEW i \in 1..(k - 1) PROVE c[i] = s[i]
    <3>1. c[i] = a[i]
      BY <1>9, <2>1
    <3> QED
      BY <1>4, <3>1
  <2>3. c[k] = s[k]
    <3>1. k \in 1..(Len(a) + Len(e)) /\ ~(k <= Len(a)) /\ k - Len(a) = 1
      BY <2>1
    <3> QED
      BY <1>6, <1>9, <3>1
  <2>4. Len(c) = k
    BY <1>9, <2>1
  <2> QED
    <3>1. ASSUME NEW i \in 1..k PROVE c[i] = s[i]
      <4>1. i \in 1..(k - 1) \/ i = k
        OBVIOUS
      <4> QED
        BY <2>2, <2>3, <4>1
    <3> QED
      BY <2>4, <3>1
<1>11. /\ c \o b \in Seq(Nat) /\ Len(c \o b) = Len(c) + Len(b)
       /\ \A i \in 1..(Len(c) + Len(b)) :
              (c \o b)[i] = IF i <= Len(c) THEN c[i] ELSE b[i - Len(c)]
  <2>1. c \in Seq(Nat) /\ b \in Seq(Nat)
    BY <1>5, <1>9
  <2> QED
    BY <2>1, ConcatProperties
<1>12. ASSUME NEW i \in 1..k PROVE (c \o b)[i] = s[i]
  <2>1. Len(b) \in Nat /\ Len(c) = k /\ i <= Len(c) /\ i \in 1..(Len(c) + Len(b))
    BY <1>5, <1>10
  <2> QED
    BY <1>10, <1>11, <2>1
<1>13. ASSUME NEW i \in (k + 1)..(Len(s) + 1) PROVE (c \o b)[i] = s[i - 1]
  <2>0. Len(c) = k /\ i \in 1..(Len(c) + Len(b)) /\ ~(i <= Len(c))
    BY <1>5, <1>10
  <2>1. (c \o b)[i] = b[i - k] /\ i - k \in 1..((Len(s) - k) + 1)
    <3>1. (c \o b)[i] = b[i - Len(c)]
      BY <1>11, <2>0
    <3> QED
      BY <2>0, <3>1
  <2>2. b[i - k] = s[(k + (i - k)) - 1]
    BY <1>5, <2>1
  <2>3. (k + (i - k)) - 1 = i - 1
    OBVIOUS
  <2> QED
    BY <2>1, <2>2, <2>3
<1>14. Len(c \o b) = Len(s) + 1
  <2>1. Len(c) = k /\ Len(b) = (Len(s) - k) + 1 /\ k \in Int /\ Len(s) \in Int
    BY <1>5, <1>10
  <2>2. Len(c \o b) = Len(c) + Len(b)
    BY <1>11
  <2> QED
    BY <2>1, <2>2
<1> QED
  BY <1>8, <1>11, <1>12, <1>13, <1>14

(* Where the elements of the changed sequence come from. *)
LEMMA RemovedPlaces ==
    ASSUME NEW s \in Seq(Nat), NEW k \in 1..Len(s), NEW i \in 1..(Len(s) - 1)
    PROVE  \E j \in {i, i + 1} : j \in 1..Len(s) /\ RemoveAt(s, k)[i] = s[j]
<1>1. CASE i < k
  <2>1. i \in 1..(k - 1) /\ i \in 1..Len(s)
    BY <1>1
  <2> QED
    BY <2>1, Removed
<1>2. CASE i >= k
  <2>1. i \in k..(Len(s) - 1) /\ i + 1 \in 1..Len(s)
    BY <1>2
  <2> QED
    BY <2>1, Removed
<1> QED
  BY <1>1, <1>2

LEMMA RepeatedPlaces ==
    ASSUME NEW s \in Seq(Nat), NEW k \in 1..Len(s), NEW i \in 1..(Len(s) + 1)
    PROVE  \E j \in {i, i - 1} : j \in 1..Len(s) /\ InsertAt(s, k, s[k])[i] = s[j]
<1>1. CASE i <= k
  <2>1. i \in 1..k /\ i \in 1..Len(s)
    BY <1>1
  <2> QED
    BY <2>1, Repeated
<1>2. CASE i > k
  <2>1. i \in (k + 1)..(Len(s) + 1) /\ i - 1 \in 1..Len(s)
    BY <1>2
  <2> QED
    BY <2>1, Repeated
<1> QED
  BY <1>1, <1>2

-----------------------------------------------------------------------------
(* The initial state. *)
LEMMA InitInductive == Init => Inductive
<1> SUFFICES ASSUME Init PROVE Inductive
  OBVIOUS
<1>1. client \in [Clients -> [at : {"idle", "lock", "receive"}, asked : Nat, got : Nat]]
  BY DEF Init
<1>2. TypeOK
  <2>1. \A c \in Clients : client[c].at = "receive" <=> mutex = c
    BY ClientsAssumption DEF Init
  <2>2. /\ sent \in Nat /\ requests \in Nat /\ responses \in Seq(Nat)
        /\ duplicated \in Nat /\ lost \in Nat /\ opens \in 0..MaxOpens
    BY BoundsAssumption DEF Init
  <2>3. /\ process \in {"running", "exited"} /\ owner \in {"idle", "open", "close"}
        /\ socketHandle \in {"none", "open", "unconnected", "closed"}
        /\ mutex \in {"free"} \cup Clients /\ reordered \in BOOLEAN
    BY DEF Init
  <2> QED
    BY <1>1, <2>1, <2>2, <2>3 DEF TypeOK
<1>3. Conservation /\ Aged /\ Answered
  BY DEF Init, Conservation, Waiting, Aged, Answered
<1>4. LastAsked /\ Lag
  BY DEF Init, LastAsked, Lag
<1> QED
  BY <1>2, <1>3, <1>4 DEF Inductive

-----------------------------------------------------------------------------
(* The network: the steps that touch no thread. *)

Responded == [at : {"idle", "lock", "receive"}, asked : Nat, got : Nat]

LEMMA Types ==
    ASSUME TypeOK
    PROVE  /\ sent \in Nat /\ requests \in Nat /\ responses \in Seq(Nat)
           /\ duplicated \in Nat /\ lost \in Nat /\ Len(responses) \in Nat
           /\ client \in [Clients -> Responded]
           /\ \A c \in Clients : client[c].asked \in Nat /\ client[c].got \in Nat
           /\ Waiting \in {0, 1}
  BY DEF TypeOK, Responded, Waiting

(* A network step changes what is under way and counts its faults. *)
NetworkStep ==
    /\ UNCHANGED <<process, device, mutex, client, sent>>
    /\ requests' \in Nat /\ responses' \in Seq(Nat) /\ duplicated' \in Nat /\ lost' \in Nat
    /\ duplicated' >= duplicated /\ reordered' \in BOOLEAN /\ (reordered => reordered')
    /\ requests' + Len(responses') + lost' + duplicated =
           requests + Len(responses) + lost + duplicated'
    /\ Aged' /\ Answered'

LEMMA NetworkPreserves ==
    ASSUME Inductive, NetworkStep
    PROVE  Inductive'
<1>1. /\ TypeOK /\ Conservation /\ LastAsked /\ Lag
      /\ UNCHANGED <<process, device, mutex, client, sent>>
  BY DEF Inductive, NetworkStep
<1>2. TypeOK'
  BY <1>1 DEF TypeOK, NetworkStep, device
<1>3. Conservation'
  <2>1. /\ requests' \in Nat /\ Len(responses') \in Nat /\ duplicated' \in Nat /\ lost' \in Nat
        /\ requests' + Len(responses') + lost' + duplicated =
               requests + Len(responses) + lost + duplicated'
    BY DEF NetworkStep
  <2>2. /\ requests \in Nat /\ Len(responses) \in Nat /\ duplicated \in Nat /\ lost \in Nat
        /\ Waiting \in {0, 1} /\ requests + Len(responses) + lost = duplicated + Waiting
    BY <1>1, Types DEF Conservation
  <2>3. Waiting' = Waiting
    BY <1>1 DEF Waiting
  <2>4. PICK w \in {0, 1} : w = Waiting
    BY <2>2
  <2>5. requests + Len(responses) + lost = duplicated + w
    BY <2>2, <2>4
  <2>6. requests' + Len(responses') + lost' = duplicated' + w
    <3>1. PICK n \in Nat : n = Len(responses)
      BY <2>2
    <3>2. PICK m \in Nat : m = Len(responses')
      BY <2>1
    <3>3. requests + n + lost = duplicated + w
      BY <2>5, <3>1
    <3>4. requests' + m + lost' + duplicated = requests + n + lost + duplicated'
      BY <2>1, <3>1, <3>2
    <3>5. /\ requests \in Nat /\ lost \in Nat /\ duplicated \in Nat
          /\ requests' \in Nat /\ lost' \in Nat /\ duplicated' \in Nat
      BY <2>1, <2>2
    <3>6. requests' + m + lost' = duplicated' + w
      BY <3>3, <3>4, <3>5
    <3> QED
      BY <3>2, <3>6
  <2> QED
    BY <2>3, <2>4, <2>6 DEF Conservation
<1>4. LastAsked'
  BY <1>1 DEF LastAsked
<1>5. Lag'
  <2> SUFFICES ASSUME ~reordered', NEW c \in Clients, client[c].at # "receive"
               PROVE  client[c].asked - duplicated' <= client[c].got /\ client[c].got <= sent
    BY <1>1 DEF Lag
  <2>1. client[c].asked - duplicated <= client[c].got /\ client[c].got <= sent
    BY <1>1 DEF Lag, NetworkStep
  <2>2. duplicated' \in Nat /\ duplicated' >= duplicated
    BY DEF NetworkStep
  <2> QED
    BY <1>1, <2>1, <2>2, Types
<1> QED
  BY <1>2, <1>3, <1>4, <1>5 DEF Inductive, NetworkStep

LEMMA AnswerStep ==
    ASSUME Inductive, Answer
    PROVE  NetworkStep
<1> USE DEF Answer, faults, Inductive
<1>0. /\ sent \in Nat /\ requests \in Nat /\ responses \in Seq(Nat) /\ duplicated \in Nat
      /\ lost \in Nat /\ reordered \in BOOLEAN /\ Len(responses) \in Nat
  BY DEF TypeOK
<1>1. /\ responses' \in Seq(Nat) /\ Len(responses') = Len(responses) + 1
      /\ \A i \in 1..Len(responses) : responses'[i] = responses[i]
      /\ responses'[Len(responses) + 1] = sent
  BY <1>0
<1>2. requests' \in Nat /\ requests' = requests - 1 /\ lost' = lost /\ sent' = sent
      /\ duplicated' = duplicated /\ reordered' = reordered
  BY <1>0
<1>3. Answered'
  BY <1>0, <1>1, <1>2 DEF Answered
<1>4. Aged'
  <2> SUFFICES ASSUME ~reordered, NEW i \in 1..(Len(responses) + 1)
               PROVE  sent - ((Len(responses) + 1 + requests - 1 + lost) - i) <= responses'[i]
    BY <1>1, <1>2 DEF Aged
  <2>1. CASE i \in 1..Len(responses)
    <3>1. sent - ((Len(responses) + requests + lost) - i) <= responses[i]
      BY <2>1 DEF Aged
    <3>2. responses[i] \in Nat
      BY <1>0, <2>1
    <3> QED
      BY <1>0, <1>1, <2>1, <3>1, <3>2
  <2>2. CASE i = Len(responses) + 1
    BY <1>0, <1>1, <2>2
  <2> QED
    BY <1>0, <2>1, <2>2
<1> QED
  BY <1>0, <1>1, <1>2, <1>3, <1>4 DEF NetworkStep

(* The age of every response, from the facts of a state. *)
LEMMA RequestFaults ==
    ASSUME Inductive, LoseRequest \/ DuplicateRequest
    PROVE  NetworkStep
<1>0. /\ sent \in Nat /\ requests \in Nat /\ responses \in Seq(Nat) /\ duplicated \in Nat
      /\ lost \in Nat /\ Len(responses) \in Nat
  BY DEF TypeOK, Inductive
<1>1. reordered \in BOOLEAN
  BY DEF TypeOK, Inductive
<1>a. \A i \in 1..Len(responses) : responses[i] \in Nat /\ responses[i] <= sent
  BY <1>0 DEF Answered, Inductive
<1>b. ASSUME ~reordered, NEW i \in 1..Len(responses)
      PROVE  sent - ((Len(responses) + requests + lost) - i) <= responses[i]
  BY <1>b DEF Aged, Inductive
<1>2. /\ UNCHANGED <<process, device, mutex, client, sent, responses, reordered>>
      /\ \/ requests > 0 /\ requests' = requests - 1 /\ lost' = lost + 1 /\ duplicated' = duplicated
         \/ requests' = requests + 1 /\ lost' = lost /\ duplicated' = duplicated + 1
  BY DEF LoseRequest, DuplicateRequest
<1>3. /\ requests' \in Nat /\ lost' \in Nat /\ duplicated' \in Nat /\ duplicated' >= duplicated
      /\ requests + lost <= requests' + lost'
      /\ requests' + Len(responses) + lost' + duplicated =
             requests + Len(responses) + lost + duplicated'
  <2>1. CASE requests > 0 /\ requests' = requests - 1 /\ lost' = lost + 1 /\ duplicated' = duplicated
    BY <1>0, <2>1
  <2>2. CASE requests' = requests + 1 /\ lost' = lost /\ duplicated' = duplicated + 1
    BY <1>0, <2>2
  <2> QED
    BY <1>2, <2>1, <2>2
<1>4. Answered'
  BY <1>2, <1>a DEF Answered
<1>5. Aged'
  <2> SUFFICES ASSUME ~reordered, NEW i \in 1..Len(responses)
               PROVE  sent - ((Len(responses) + requests' + lost') - i) <= responses[i]
    BY <1>2 DEF Aged
  <2>1. responses[i] \in Nat /\ sent - ((Len(responses) + requests + lost) - i) <= responses[i]
    BY <1>a, <1>b
  <2>2. i \in Nat
    OBVIOUS
  <2> QED
    BY <1>0, <1>3, <2>1, <2>2, Older
<1> QED
  BY <1>0, <1>1, <1>2, <1>3, <1>4, <1>5 DEF NetworkStep

LEMMA LoseResponseStep ==
    ASSUME Inductive, NEW k \in DOMAIN responses, LoseResponse(k)
    PROVE  NetworkStep
<1>0. /\ sent \in Nat /\ requests \in Nat /\ responses \in Seq(Nat) /\ duplicated \in Nat
      /\ lost \in Nat /\ Len(responses) \in Nat
  BY DEF TypeOK, Inductive
<1>1. reordered \in BOOLEAN
  BY DEF TypeOK, Inductive
<1>a. \A i \in 1..Len(responses) : responses[i] \in Nat /\ responses[i] <= sent
  BY <1>0 DEF Answered, Inductive
<1>b. ASSUME ~reordered, NEW i \in 1..Len(responses)
      PROVE  sent - ((Len(responses) + requests + lost) - i) <= responses[i]
  BY <1>b DEF Aged, Inductive
<1>2. /\ UNCHANGED <<process, device, mutex, client, sent, requests, duplicated, reordered>>
      /\ lost' = lost + 1 /\ responses' = RemoveAt(responses, k) /\ k \in 1..Len(responses)
  BY <1>0 DEF LoseResponse
<1>3. /\ responses' \in Seq(Nat) /\ Len(responses') = Len(responses) - 1
      /\ \A i \in 1..(k - 1) : responses'[i] = responses[i]
      /\ \A i \in k..(Len(responses) - 1) : responses'[i] = responses[i + 1]
  BY <1>0, <1>2, Removed
<1>4. ASSUME NEW i \in 1..(Len(responses) - 1)
      PROVE  \E j \in {i, i + 1} :
                 j \in 1..Len(responses) /\ responses'[i] = responses[j]
  BY <1>0, <1>2, RemovedPlaces
<1>5. Answered'
  <2> SUFFICES ASSUME NEW i \in 1..(Len(responses) - 1) PROVE responses'[i] <= sent
    BY <1>2, <1>3 DEF Answered
  <2>1. PICK j \in 1..Len(responses) : responses'[i] = responses[j]
    BY <1>4
  <2> QED
    BY <1>a, <2>1
<1>6. Aged'
  <2> SUFFICES ASSUME ~reordered, NEW i \in 1..(Len(responses) - 1)
               PROVE  sent - (((Len(responses) - 1) + requests + (lost + 1)) - i) <= responses'[i]
    BY <1>2, <1>3 DEF Aged
  <2>1. PICK j \in {i, i + 1} : j \in 1..Len(responses) /\ responses'[i] = responses[j]
    BY <1>4
  <2>2. responses[j] \in Nat /\ sent - ((Len(responses) + requests + lost) - j) <= responses[j]
    BY <1>a, <1>b, <2>1
  <2>3. sent - (((Len(responses) - 1) + requests + (lost + 1)) - i) <= sent - ((Len(responses) + requests + lost) - j)
    BY <1>0, <2>1
  <2> QED
    BY <1>0, <2>1, <2>2, <2>3
<1> QED
  BY <1>0, <1>1, <1>2, <1>3, <1>5, <1>6 DEF NetworkStep

LEMMA DuplicateResponseStep ==
    ASSUME Inductive, NEW k \in DOMAIN responses, DuplicateResponse(k)
    PROVE  NetworkStep
<1>0. /\ sent \in Nat /\ requests \in Nat /\ responses \in Seq(Nat) /\ duplicated \in Nat
      /\ lost \in Nat /\ Len(responses) \in Nat
  BY DEF TypeOK, Inductive
<1>1. reordered \in BOOLEAN
  BY DEF TypeOK, Inductive
<1>a. \A i \in 1..Len(responses) : responses[i] \in Nat /\ responses[i] <= sent
  BY <1>0 DEF Answered, Inductive
<1>b. ASSUME ~reordered, NEW i \in 1..Len(responses)
      PROVE  sent - ((Len(responses) + requests + lost) - i) <= responses[i]
  BY <1>b DEF Aged, Inductive
<1>2. /\ UNCHANGED <<process, device, mutex, client, sent, requests, lost, reordered>>
      /\ duplicated' = duplicated + 1 /\ k \in 1..Len(responses)
      /\ responses' = InsertAt(responses, k, responses[k])
  BY <1>0 DEF DuplicateResponse
<1>3. /\ responses' \in Seq(Nat) /\ Len(responses') = Len(responses) + 1
      /\ \A i \in 1..k : responses'[i] = responses[i]
      /\ \A i \in (k + 1)..(Len(responses) + 1) : responses'[i] = responses[i - 1]
  BY <1>0, <1>2, Repeated
<1>4. ASSUME NEW i \in 1..(Len(responses) + 1)
      PROVE  \E j \in {i, i - 1} :
                 j \in 1..Len(responses) /\ responses'[i] = responses[j]
  BY <1>0, <1>2, RepeatedPlaces
<1>5. Answered'
  <2> SUFFICES ASSUME NEW i \in 1..(Len(responses) + 1) PROVE responses'[i] <= sent
    BY <1>2, <1>3 DEF Answered
  <2>1. PICK j \in 1..Len(responses) : responses'[i] = responses[j]
    BY <1>4
  <2> QED
    BY <1>a, <2>1
<1>6. Aged'
  <2> SUFFICES ASSUME ~reordered, NEW i \in 1..(Len(responses) + 1)
               PROVE  sent - (((Len(responses) + 1) + requests + lost) - i) <= responses'[i]
    BY <1>2, <1>3 DEF Aged
  <2>1. PICK j \in {i, i - 1} : j \in 1..Len(responses) /\ responses'[i] = responses[j]
    BY <1>4
  <2>2. responses[j] \in Nat /\ sent - ((Len(responses) + requests + lost) - j) <= responses[j]
    BY <1>a, <1>b, <2>1
  <2>3. sent - (((Len(responses) + 1) + requests + lost) - i) <= sent - ((Len(responses) + requests + lost) - j)
    BY <1>0, <2>1
  <2> QED
    BY <1>0, <2>1, <2>2, <2>3
<1> QED
  BY <1>0, <1>1, <1>2, <1>3, <1>5, <1>6 DEF NetworkStep

LEMMA ReorderStep ==
    ASSUME Inductive, NEW k \in DOMAIN responses, Reorder(k)
    PROVE  NetworkStep
<1>0. /\ sent \in Nat /\ requests \in Nat /\ responses \in Seq(Nat) /\ duplicated \in Nat
      /\ lost \in Nat /\ Len(responses) \in Nat
  BY DEF TypeOK, Inductive
<1>1. reordered \in BOOLEAN
  BY DEF TypeOK, Inductive
<1>a. \A i \in 1..Len(responses) : responses[i] \in Nat /\ responses[i] <= sent
  BY <1>0 DEF Answered, Inductive
<1>b. ASSUME ~reordered, NEW i \in 1..Len(responses)
      PROVE  sent - ((Len(responses) + requests + lost) - i) <= responses[i]
  BY <1>b DEF Aged, Inductive
<1>2. /\ UNCHANGED <<process, device, mutex, client, sent, requests, duplicated, lost>>
      /\ k \in 1..Len(responses) /\ k + 1 \in 1..Len(responses)
      /\ responses' = [responses EXCEPT ![k] = responses[k + 1], ![k + 1] = responses[k]]
  BY <1>0 DEF Reorder
<1>3. reordered' = TRUE
  BY DEF Reorder
<1>4. responses' \in Seq(Nat) /\ Len(responses') = Len(responses)
  BY <1>0, <1>2
<1>5. ASSUME NEW i \in 1..Len(responses) PROVE responses'[i] <= sent
  <2>1. responses'[i] \in {responses[i], responses[k], responses[k + 1]}
    <3>1. DOMAIN responses = 1..Len(responses)
      BY <1>0
    <3> QED
      BY <1>2, <3>1
  <2> QED
    BY <1>a, <1>2, <2>1
<1>6. Answered' /\ Aged'
  BY <1>2, <1>3, <1>4, <1>5 DEF Answered, Aged
<1> QED
  BY <1>0, <1>1, <1>2, <1>3, <1>4, <1>6 DEF NetworkStep

LEMMA NetworkSteps ==
    ASSUME Inductive, Network
    PROVE  Inductive'
<1>1. NetworkStep
  BY AnswerStep, RequestFaults, LoseResponseStep, DuplicateResponseStep, ReorderStep DEF Network
<1> QED
  BY <1>1, NetworkPreserves

-----------------------------------------------------------------------------
(* The steps of the threads. *)

LEMMA QuietPreserves ==
    ASSUME Inductive, TypeOK', UNCHANGED <<mutex, client, sent, wire, faults>>
    PROVE  Inductive'
  BY DEF Inductive, Conservation, Waiting, Aged, Answered, LastAsked, Lag, wire, faults

LEMMA ExitPreserves ==
    ASSUME Inductive, Exit
    PROVE  Inductive'
<1>1. TypeOK'
  BY DEF Inductive, TypeOK, Exit, device, wire, faults
<1> QED
  BY <1>1, QuietPreserves DEF Exit

LEMMA CallPreserves ==
    ASSUME Inductive, NEW method \in {"open", "close"}, Call(method)
    PROVE  Inductive'
<1>1. TypeOK'
  BY BoundsAssumption DEF Inductive, TypeOK, Call, wire, faults
<1> QED
  BY <1>1, QuietPreserves DEF Call

LEMMA DiscardPreserves ==
    ASSUME Inductive, Open \/ Close
    PROVE  Inductive'
<1>0. /\ sent \in Nat /\ requests \in Nat /\ responses \in Seq(Nat) /\ duplicated \in Nat
      /\ lost \in Nat /\ Len(responses) \in Nat
      /\ client \in [Clients -> Responded]
      /\ \A d \in Clients : client[d].asked \in Nat /\ client[d].got \in Nat
  BY Types DEF Inductive
<1>1. TypeOK /\ Conservation /\ Aged /\ Answered /\ LastAsked /\ Lag
  BY DEF Inductive
<1>2. UNCHANGED <<process, opens, mutex, client, sent, duplicated, reordered>> /\ mutex = "free"
  BY DEF Open, Close, Discard, MutexFree
<1>3. requests' = 0 /\ responses' = <<>> /\ lost' = lost + requests + Len(responses)
  BY DEF Open, Close, Discard
<1>4. socketHandle' \in {"open", "unconnected", "closed"} /\ owner' = "idle"
  BY DEF Open, Close
<1>5. lost' \in Nat /\ responses' \in Seq(Nat) /\ Len(responses') = 0
  BY <1>0, <1>3
<1>6. TypeOK'
  BY <1>1, <1>2, <1>3, <1>4, <1>5 DEF TypeOK
<1>7. Conservation'
  <2>1. requests + Len(responses) + lost = duplicated /\ Waiting' = 0
    BY <1>0, <1>1, <1>2 DEF Conservation, Waiting
  <2>2. requests' + Len(responses') + lost' = duplicated
    BY <1>0, <1>3, <1>5, <2>1
  <2> QED
    BY <1>0, <1>2, <2>1, <2>2 DEF Conservation
<1>8. Aged' /\ Answered'
  BY <1>5 DEF Aged, Answered
<1>9. LastAsked' /\ Lag'
  BY <1>1, <1>2 DEF LastAsked, Lag
<1> QED
  BY <1>6, <1>7, <1>8, <1>9 DEF Inductive

LEMMA ReadBeginPreserves ==
    ASSUME Inductive, NEW c \in Clients, ReadBegin(c)
    PROVE  Inductive'
<1>0. /\ sent \in Nat /\ requests \in Nat /\ responses \in Seq(Nat) /\ duplicated \in Nat
      /\ lost \in Nat /\ Len(responses) \in Nat
      /\ client \in [Clients -> Responded]
      /\ \A d \in Clients : client[d].asked \in Nat /\ client[d].got \in Nat
  BY Types DEF Inductive
<1>1. TypeOK /\ Conservation /\ Aged /\ Answered /\ LastAsked /\ Lag
  BY DEF Inductive
<1>2. /\ UNCHANGED <<process, owner, opens, socketHandle, mutex, sent, requests, responses,
                     duplicated, lost, reordered>>
      /\ client[c].at = "idle" /\ client' = [client EXCEPT ![c].at = "lock"]
  BY DEF ReadBegin, device, wire, faults
<1>3. /\ client' \in [Clients -> Responded]
      /\ \A d \in Clients : /\ client'[d].asked = client[d].asked /\ client'[d].got = client[d].got
                            /\ client'[d].at = IF d = c THEN "lock" ELSE client[d].at
  BY <1>0, <1>2 DEF Responded
<1>4. TypeOK'
  BY <1>1, <1>2, <1>3 DEF TypeOK, Responded
<1>5. Conservation' /\ Aged' /\ Answered'
  BY <1>1, <1>2 DEF Conservation, Waiting, Aged, Answered
<1>6. LastAsked'
  BY <1>1, <1>2, <1>3 DEF LastAsked
<1>7. Lag'
  BY <1>1, <1>2, <1>3 DEF Lag
<1> QED
  BY <1>4, <1>5, <1>6, <1>7 DEF Inductive

LEMMA SendPreserves ==
    ASSUME Inductive, NEW c \in Clients, Send(c)
    PROVE  Inductive'
<1>0. /\ sent \in Nat /\ requests \in Nat /\ responses \in Seq(Nat) /\ duplicated \in Nat
      /\ lost \in Nat /\ Len(responses) \in Nat
      /\ client \in [Clients -> Responded]
      /\ \A d \in Clients : client[d].asked \in Nat /\ client[d].got \in Nat
  BY Types DEF Inductive
<1>1. TypeOK /\ Conservation /\ Aged /\ Answered /\ LastAsked /\ Lag
  BY DEF Inductive
<1>2. /\ UNCHANGED <<process, owner, opens, socketHandle, responses, duplicated, lost, reordered>>
      /\ client[c].at = "lock" /\ mutex = "free" /\ mutex' = c
      /\ sent' = sent + 1 /\ requests' = requests + 1
      /\ client' = [client EXCEPT ![c].at = "receive", ![c].asked = sent']
  BY DEF Send, MutexFree, device, faults
<1>3. /\ client' \in [Clients -> Responded]
      /\ client'[c].at = "receive" /\ client'[c].asked = sent + 1
      /\ \A d \in Clients \ {c} : client'[d] = client[d]
  <2>1. client[c] \in Responded /\ sent' \in Nat /\ sent' = sent + 1
    BY <1>0, <1>2
  <2>2. PICK e : e = [client[c] EXCEPT !.at = "receive", !.asked = sent']
    OBVIOUS
  <2>3. e \in Responded /\ e.at = "receive" /\ e.asked = sent + 1
    BY <2>1, <2>2 DEF Responded
  <2>4. client' = [client EXCEPT ![c] = e]
    BY <1>2, <2>2
  <2> QED
    BY <1>0, <2>3, <2>4
<1>4. \A d \in Clients : client[d].at # "receive"
  BY <1>1, <1>2, ClientsAssumption DEF TypeOK
<1>5. TypeOK'
  <2>1. \A d \in Clients : client'[d].at = "receive" <=> mutex' = d
    BY <1>2, <1>3, <1>4
  <2>2. sent' \in Nat /\ requests' \in Nat /\ mutex' \in {"free"} \cup Clients
    BY <1>0, <1>2
  <2> QED
    BY <1>1, <1>2, <1>3, <2>1, <2>2 DEF TypeOK, Responded
<1>6. Conservation'
  <2>1. Waiting = 0 /\ Waiting' = 1
    BY <1>2, ClientsAssumption DEF Waiting
  <2>2. requests + Len(responses) + lost = duplicated
    BY <1>0, <1>1, <2>1 DEF Conservation
  <2>3. requests' + Len(responses) + lost = duplicated + 1
    BY <1>0, <1>2, <2>2
  <2> QED
    BY <1>2, <2>1, <2>3 DEF Conservation
<1>7. Answered'
  BY <1>0, <1>1, <1>2 DEF Answered
<1>8. Aged'
  <2> SUFFICES ASSUME ~reordered, NEW i \in 1..Len(responses)
               PROVE  (sent + 1) - ((Len(responses) + (requests + 1) + lost) - i) <= responses[i]
    BY <1>2 DEF Aged
  <2>1. sent - ((Len(responses) + requests + lost) - i) <= responses[i] /\ responses[i] \in Nat
    BY <1>0, <1>1 DEF Aged
  <2> QED
    BY <1>0, <2>1
<1>9. LastAsked'
  BY <1>2, <1>3, <1>4 DEF LastAsked
<1>10. Lag'
  <2> SUFFICES ASSUME ~reordered, NEW d \in Clients, client'[d].at # "receive"
               PROVE  client'[d].asked - duplicated <= client'[d].got /\ client'[d].got <= sent + 1
    BY <1>2 DEF Lag
  <2>1. client'[d] = client[d]
    BY <1>3
  <2>2. client[d].asked - duplicated <= client[d].got /\ client[d].got <= sent
    BY <1>1, <1>4 DEF Lag
  <2> QED
    BY <1>0, <2>1, <2>2
<1> QED
  BY <1>5, <1>6, <1>7, <1>8, <1>9, <1>10 DEF Inductive

LEMMA ReceivePreserves ==
    ASSUME Inductive, NEW c \in Clients, Receive(c)
    PROVE  Inductive'
<1>0. /\ sent \in Nat /\ requests \in Nat /\ responses \in Seq(Nat) /\ duplicated \in Nat
      /\ lost \in Nat /\ Len(responses) \in Nat
      /\ client \in [Clients -> Responded]
      /\ \A d \in Clients : client[d].asked \in Nat /\ client[d].got \in Nat
  BY Types DEF Inductive
<1>1. TypeOK /\ Conservation /\ Aged /\ Answered /\ LastAsked /\ Lag
  BY DEF Inductive
<1>2. /\ UNCHANGED <<process, owner, opens, socketHandle, sent, requests, duplicated, lost,
                     reordered>>
      /\ client[c].at = "receive" /\ responses # <<>> /\ mutex' = "free"
      /\ responses' = Tail(responses)
      /\ client' = [client EXCEPT ![c].at = "idle", ![c].got = Head(responses)]
  BY DEF Receive, device, faults
<1>3. /\ responses' \in Seq(Nat) /\ Len(responses') = Len(responses) - 1 /\ Len(responses) >= 1
      /\ \A i \in 1..(Len(responses) - 1) : responses'[i] = responses[i + 1]
      /\ Head(responses) = responses[1] /\ responses[1] \in Nat
  BY <1>0, <1>2
<1>4. /\ client' \in [Clients -> Responded]
      /\ client'[c].at = "idle" /\ client'[c].asked = client[c].asked
      /\ client'[c].got = responses[1]
      /\ \A d \in Clients \ {c} : client'[d] = client[d]
  BY <1>0, <1>2, <1>3 DEF Responded
<1>5. mutex = c /\ \A d \in Clients \ {c} : client[d].at # "receive"
  BY <1>1, <1>2 DEF TypeOK
<1>6. TypeOK'
  <2>1. \A d \in Clients : client'[d].at = "receive" <=> mutex' = d
    BY <1>2, <1>4, <1>5, ClientsAssumption
  <2> QED
    BY <1>0, <1>1, <1>2, <1>3, <1>4, <2>1 DEF TypeOK, Responded
<1>7. requests + Len(responses) + lost = duplicated + 1
  <2>1. Waiting = 1
    BY <1>5, ClientsAssumption DEF Waiting
  <2> QED
    BY <1>1, <2>1 DEF Conservation
<1>8. Conservation'
  <2>1. Waiting' = 0
    BY <1>2 DEF Waiting
  <2>2. requests + (Len(responses) - 1) + lost = duplicated
    BY <1>0, <1>7
  <2> QED
    BY <1>0, <1>2, <1>3, <2>1, <2>2 DEF Conservation
<1>9. Answered'
  <2> SUFFICES ASSUME NEW i \in 1..(Len(responses) - 1) PROVE responses'[i] <= sent
    BY <1>2, <1>3 DEF Answered
  <2>1. i + 1 \in 1..Len(responses) /\ responses'[i] = responses[i + 1]
    BY <1>0, <1>3
  <2> QED
    BY <1>1, <2>1 DEF Answered
<1>10. Aged'
  <2> SUFFICES ASSUME ~reordered, NEW i \in 1..(Len(responses) - 1)
               PROVE  sent - (((Len(responses) - 1) + requests + lost) - i) <= responses'[i]
    BY <1>2, <1>3 DEF Aged
  <2>1. i + 1 \in 1..Len(responses) /\ responses'[i] = responses[i + 1]
    BY <1>0, <1>3
  <2>2. sent - ((Len(responses) + requests + lost) - (i + 1)) <= responses[i + 1]
    BY <1>1, <2>1 DEF Aged
  <2>3. responses[i + 1] \in Nat
    BY <1>0, <2>1
  <2> QED
    BY <1>0, <2>1, <2>2, <2>3
<1>11. LastAsked'
  BY <1>2, <1>4, <1>5 DEF LastAsked
<1>12. Lag'
  <2> SUFFICES ASSUME ~reordered, NEW d \in Clients, client'[d].at # "receive"
               PROVE  client'[d].asked - duplicated <= client'[d].got /\ client'[d].got <= sent
    BY <1>2 DEF Lag
  <2>1. CASE d # c
    <3>1. client'[d] = client[d] /\ client[d].at # "receive"
      BY <1>4, <1>5, <2>1
    <3> QED
      BY <1>1, <3>1 DEF Lag
  <2>2. CASE d = c
    <3>1. client[c].asked = sent
      BY <1>1, <1>2 DEF LastAsked
    <3>2. sent - ((Len(responses) + requests + lost) - 1) <= responses[1] /\ responses[1] <= sent
      BY <1>1, <1>3, <1>0 DEF Aged, Answered
    <3>3. sent - duplicated <= responses[1]
      BY <1>0, <1>3, <1>7, <3>2
    <3> QED
      BY <1>4, <2>2, <3>1, <3>2, <3>3
  <2> QED
    BY <2>1, <2>2
<1> QED
  BY <1>6, <1>8, <1>9, <1>10, <1>11, <1>12 DEF Inductive

LEMMA NextInductive ==
    ASSUME Inductive, [Next]_vars
    PROVE  Inductive'
<1>1. ASSUME NEW method \in {"open", "close"}, Call(method) PROVE Inductive'
  BY <1>1, CallPreserves
<1>2. CASE Open \/ Close
  BY <1>2, DiscardPreserves
<1>3. CASE Exit
  BY <1>3, ExitPreserves
<1>4. ASSUME NEW c \in Clients, ReadBegin(c) PROVE Inductive'
  BY <1>4, ReadBeginPreserves
<1>5. ASSUME NEW c \in Clients, Send(c) PROVE Inductive'
  BY <1>5, SendPreserves
<1>6. ASSUME NEW c \in Clients, Receive(c) PROVE Inductive'
  BY <1>6, ReceivePreserves
<1>7. CASE Network
  BY <1>7, NetworkSteps
<1>8. CASE UNCHANGED vars
  <2>1. TypeOK'
    BY <1>8 DEF Inductive, TypeOK, vars, device, wire, faults
  <2> QED
    BY <1>8, <2>1, QuietPreserves DEF vars
<1> QED
  BY <1>1, <1>2, <1>3, <1>4, <1>5, <1>6, <1>7, <1>8
  DEF Next, OpenFails, SendFails, ReceiveFails

(* The inductive invariant holds in every reachable state. *)
THEOREM InductiveInvariant == Spec => []Inductive
  BY InitInductive, NextInductive, PTL DEF Spec

-----------------------------------------------------------------------------
(* Type correctness, and m_mutex is held exactly by the read() that waits for *)
(* its response.                                                              *)
THEOREM TypeCorrect == Spec => []TypeOK
<1>1. Inductive => TypeOK
  BY DEF Inductive
<1> QED
  BY <1>1, InductiveInvariant, PTL

(* The sequence numbers are not compared, and need not be while the network *)
(* duplicates nothing: a read() lags behind its request by no more than the *)
(* number of duplicated datagrams.                                          *)
THEOREM LagCorrect == Spec => []LagIsDuplicates
<1>1. Inductive => LagIsDuplicates
  BY DEF Inductive, Lag, LagIsDuplicates
<1> QED
  BY <1>1, InductiveInvariant, PTL

-----------------------------------------------------------------------------
(* The safety that the liveness of read() rests on. *)

(* A read() that waits has something to wait for unless more datagrams     *)
(* were lost than duplicated, and while nobody reads, exactly the          *)
(* duplicates that were not lost are under way or left in the socket.      *)
THEOREM WaitIsAnswered ==
    Spec => []/\ mutex # "free" /\ lost <= duplicated => requests > 0 \/ responses # <<>>
              /\ mutex = "free" => requests + Len(responses) = duplicated - lost
<1>1. ASSUME Inductive
      PROVE  /\ mutex # "free" /\ lost <= duplicated => requests > 0 \/ responses # <<>>
             /\ mutex = "free" => requests + Len(responses) = duplicated - lost
  <2>1. /\ requests \in Nat /\ lost \in Nat /\ duplicated \in Nat /\ Len(responses) \in Nat
        /\ responses = <<>> <=> Len(responses) = 0
    <3>1. responses \in Seq(Nat)
      BY <1>1, Types DEF Inductive
    <3>2. responses = <<>> <=> Len(responses) = 0
      BY <3>1, EmptySeq
    <3> QED
      BY <1>1, <3>2, Types DEF Inductive
  <2>2. CASE mutex = "free"
    <3>1. requests + Len(responses) + lost = duplicated
      BY <1>1, <2>1, <2>2 DEF Inductive, Conservation, Waiting
    <3> QED
      BY <2>1, <2>2, <3>1
  <2>3. CASE mutex # "free"
    <3>1. requests + Len(responses) + lost = duplicated + 1
      BY <1>1, <2>1, <2>3 DEF Inductive, Conservation, Waiting
    <3> QED
      BY <2>1, <2>3, <3>1
  <2> QED
    BY <2>2, <2>3
<1> QED
  BY <1>1, InductiveInvariant, PTL

(* A read() that waits, with nothing under way. *)
Starved == mutex # "free" /\ requests = 0 /\ responses = <<>>

LEMMA StarvedSteps ==
    ASSUME TypeOK, Starved, [Next]_vars
    PROVE  Starved' /\ mutex' = mutex /\ \A c \in Clients : client'[c].at = "receive" => c = mutex
<1> USE DEF Starved, MutexFree
<1>1. ASSUME NEW method \in {"open", "close"}, Call(method)
      PROVE  UNCHANGED <<mutex, client, requests, responses>>
  BY <1>1 DEF Call, wire
<1>2. ~Open /\ ~Close /\ ~OpenFails /\ ~Network
  BY DEF Open, Close, OpenFails, Network, Answer, LoseRequest, DuplicateRequest
<1>3. ASSUME NEW c \in Clients, Send(c) \/ SendFails(c) \/ Receive(c)
      PROVE  FALSE
  BY <1>3 DEF Send, SendFails, Receive
<1>4. ASSUME NEW c \in Clients, ReceiveFails(c)
      PROVE  UNCHANGED <<mutex, client, requests, responses>>
  BY <1>4 DEF ReceiveFails, Exit, wire
<1>5. ASSUME NEW c \in Clients, ReadBegin(c)
      PROVE  /\ UNCHANGED <<mutex, requests, responses>>
             /\ \A d \in Clients : client'[d].at = "receive" => client[d].at = "receive"
  <2>1. /\ UNCHANGED <<mutex, requests, responses>>
        /\ client' = [client EXCEPT ![c].at = "lock"]
    BY <1>5 DEF ReadBegin, wire
  <2>2. client \in [Clients -> Responded]
    BY Types
  <2> QED
    BY <2>1, <2>2 DEF Responded
<1>6. UNCHANGED vars => UNCHANGED <<mutex, client, requests, responses>>
  BY DEF vars, wire
<1>7. \A c \in Clients : client[c].at = "receive" => c = mutex
  BY DEF TypeOK
<1> QED
  BY <1>1, <1>2, <1>3, <1>4, <1>5, <1>6, <1>7 DEF Next

(* The last datagram that a read() could take is lost: for lack of a       *)
(* timeout that read() holds m_mutex for good, and no other read(), no     *)
(* open() and no close() ever gets it, unless the process exits.           *)
THEOREM StarvedForGood ==
    Spec => [][Starved => /\ Starved' /\ mutex' = mutex
                          /\ \A c \in Clients : client'[c].at = "receive" => c = mutex]_vars
<1>1. TypeOK /\ [Next]_vars =>
        [Starved => /\ Starved' /\ mutex' = mutex
                    /\ \A c \in Clients : client'[c].at = "receive" => c = mutex]_vars
  BY StarvedSteps
<1> QED
  BY TypeCorrect, <1>1, PTL DEF Spec

-----------------------------------------------------------------------------
(* The order of the samples. *)
Ordered(s) == \A i \in 1..Len(s), j \in 1..Len(s) : i <= j => s[i] <= s[j]

(* What is under way is in the order of the samples, and no older than     *)
(* what any read() ever got.                                               *)
InOrder ==
    /\ \A c \in Clients : client[c].got <= sent
    /\ ~reordered =>
           /\ Ordered(responses)
           /\ \A c \in Clients, i \in 1..Len(responses) : client[c].got <= responses[i]

LEMMA ElementOfNat ==
    ASSUME NEW s \in Seq(Nat), NEW i \in 1..Len(s)
    PROVE  s[i] \in Nat
  OBVIOUS

(* A sequence whose elements come from around the same places stays ordered. *)
LEMMA KeptOrder ==
    ASSUME NEW s \in Seq(Nat), Ordered(s), NEW t \in Seq(Nat), NEW d \in {-1, 0},
           \A i \in 1..Len(t) : \E j \in 1..Len(s) : j \in {i + d, i + d + 1} /\ t[i] = s[j]
    PROVE  Ordered(t)
<1> SUFFICES ASSUME NEW i \in 1..Len(t), NEW j \in 1..Len(t), i <= j PROVE t[i] <= t[j]
  BY DEF Ordered
<1>1. PICK m \in 1..Len(s) : m \in {i + d, i + d + 1} /\ t[i] = s[m]
  OBVIOUS
<1>2. PICK n \in 1..Len(s) : n \in {j + d, j + d + 1} /\ t[j] = s[n]
  OBVIOUS
<1>3. CASE i = j
  <2>1. s[m] \in Nat
    BY ElementOfNat, Zenon
  <2>2. t[i] \in Nat
    BY <1>1, <2>1, Zenon
  <2> QED
    BY <1>3, <2>2
<1>4. CASE i # j
  <2>1. m <= n
    <3>1. i \in Int /\ j \in Int /\ d \in Int /\ m \in Int /\ n \in Int /\ i + 1 <= j
      BY <1>4
    <3>2. m <= i + d + 1
      BY <1>1, <3>1
    <3>3. j + d <= n
      BY <1>2, <3>1
    <3> QED
      BY <3>1, <3>2, <3>3
  <2> QED
    BY <1>1, <1>2, <2>1 DEF Ordered
<1> QED
  BY <1>3, <1>4

(* ... and so does what is under way when it changes like that. *)
LEMMA KeptInOrder ==
    ASSUME Inductive, InOrder, UNCHANGED <<client, sent, reordered>>,
           responses' \in Seq(Nat), NEW d \in {-1, 0},
           \A i \in 1..Len(responses') : \E j \in 1..Len(responses) :
               j \in {i + d, i + d + 1} /\ responses'[i] = responses[j]
    PROVE  InOrder'
<1>1. responses \in Seq(Nat)
  BY Types DEF Inductive
<1>2. ASSUME ~reordered PROVE Ordered(responses')
  BY <1>1, <1>2, KeptOrder DEF InOrder
<1>3. ASSUME ~reordered, NEW c \in Clients, NEW i \in 1..Len(responses')
      PROVE  client[c].got <= responses'[i]
  BY <1>3 DEF InOrder
<1> QED
  BY <1>2, <1>3 DEF InOrder, Ordered

LEMMA NetworkInOrder ==
    ASSUME Inductive, InOrder, Network
    PROVE  InOrder'
<1>0. /\ sent \in Nat /\ responses \in Seq(Nat) /\ Len(responses) \in Nat
      /\ UNCHANGED <<client, sent>>
  BY Types DEF Inductive, Network, Answer, LoseRequest, DuplicateRequest, LoseResponse,
    DuplicateResponse, Reorder
<1>1. ASSUME Answer PROVE InOrder'
  <2>1. responses' = Append(responses, sent) /\ reordered' = reordered
    BY <1>1 DEF Answer, faults
  <2>2. /\ Len(responses') = Len(responses) + 1
        /\ \A i \in 1..Len(responses) : responses'[i] = responses[i]
        /\ responses'[Len(responses) + 1] = sent
    BY <1>0, <2>1
  <2>3. \A i \in 1..Len(responses') : i \in 1..Len(responses) \/ i = Len(responses) + 1
    BY <1>0, <2>2
  <2>4. \A i \in 1..Len(responses) : responses[i] \in Nat /\ responses[i] <= sent
    BY <1>0 DEF Inductive, Answered
  <2>5. ASSUME ~reordered PROVE Ordered(responses')
    <3> SUFFICES ASSUME NEW i \in 1..Len(responses'), NEW j \in 1..Len(responses'), i <= j
                 PROVE  responses'[i] <= responses'[j]
      BY DEF Ordered
    <3>1. CASE j = Len(responses) + 1
      BY <1>0, <2>2, <2>3, <2>4, <3>1
    <3>2. CASE j \in 1..Len(responses)
      <4>1. i \in 1..Len(responses)
        BY <1>0, <2>3, <3>2
      <4> QED
        BY <2>2, <2>5, <3>2, <4>1 DEF InOrder, Ordered
    <3> QED
      BY <2>3, <3>1, <3>2
  <2>6. ASSUME ~reordered, NEW c \in Clients, NEW i \in 1..Len(responses')
        PROVE  client[c].got <= responses'[i]
    BY <2>2, <2>3, <2>6 DEF InOrder
  <2> QED
    BY <1>0, <2>1, <2>5, <2>6 DEF InOrder, Ordered
<1>2. ASSUME LoseRequest \/ DuplicateRequest PROVE InOrder'
  BY <1>2 DEF LoseRequest, DuplicateRequest, InOrder, Ordered
<1>3. ASSUME NEW k \in DOMAIN responses, LoseResponse(k) PROVE InOrder'
  <2>1. /\ responses' = RemoveAt(responses, k) /\ k \in 1..Len(responses)
        /\ reordered' = reordered
    BY <1>0, <1>3 DEF LoseResponse
  <2>2. responses' \in Seq(Nat) /\ Len(responses') = Len(responses) - 1
    BY <1>0, <2>1, Removed
  <2>3. ASSUME NEW i \in 1..Len(responses')
        PROVE  \E j \in 1..Len(responses) :
                   j \in {i + 0, i + 0 + 1} /\ responses'[i] = responses[j]
    <3>1. PICK j \in {i, i + 1} : j \in 1..Len(responses) /\ responses'[i] = responses[j]
      BY <1>0, <2>1, <2>2, RemovedPlaces
    <3> QED
      BY <3>1
  <2> QED
    BY <1>0, <2>1, <2>2, <2>3, KeptInOrder
<1>4. ASSUME NEW k \in DOMAIN responses, DuplicateResponse(k) PROVE InOrder'
  <2>1. /\ responses' = InsertAt(responses, k, responses[k]) /\ k \in 1..Len(responses)
        /\ reordered' = reordered
    BY <1>0, <1>4 DEF DuplicateResponse
  <2>2. responses' \in Seq(Nat) /\ Len(responses') = Len(responses) + 1
    BY <1>0, <2>1, Repeated
  <2>3. ASSUME NEW i \in 1..Len(responses')
        PROVE  \E j \in 1..Len(responses) :
                   j \in {i + (-1), i + (-1) + 1} /\ responses'[i] = responses[j]
    <3>1. PICK j \in {i, i - 1} : j \in 1..Len(responses) /\ responses'[i] = responses[j]
      BY <1>0, <2>1, <2>2, RepeatedPlaces
    <3>2. i - 1 = i + (-1) /\ i = i + (-1) + 1
      OBVIOUS
    <3> QED
      BY <3>1, <3>2
  <2> QED
    BY <1>0, <2>1, <2>2, <2>3, KeptInOrder
<1>5. ASSUME NEW k \in DOMAIN responses, Reorder(k) PROVE InOrder'
  BY <1>0, <1>5 DEF Reorder, InOrder
<1> QED
  BY <1>1, <1>2, <1>3, <1>4, <1>5 DEF Network

LEMMA ReceiveInOrder ==
    ASSUME Inductive, InOrder, NEW c \in Clients, Receive(c)
    PROVE  /\ InOrder'
           /\ ~reordered => \A d \in Clients : client[d].got <= client'[c].got
<1>0. /\ sent \in Nat /\ responses \in Seq(Nat) /\ Len(responses) \in Nat
      /\ client \in [Clients -> Responded]
  BY Types DEF Inductive
<1>1. /\ responses # <<>> /\ responses' = Tail(responses) /\ UNCHANGED <<sent, reordered>>
      /\ client' = [client EXCEPT ![c].at = "idle", ![c].got = Head(responses)]
  BY DEF Receive, faults
<1>2. /\ responses' \in Seq(Nat) /\ Len(responses') = Len(responses) - 1
      /\ \A i \in 1..(Len(responses) - 1) : responses'[i] = responses[i + 1]
      /\ Head(responses) = responses[1] /\ 1 \in 1..Len(responses)
  BY <1>0, <1>1
<1>3. client'[c].got = responses[1] /\ \A d \in Clients \ {c} : client'[d] = client[d]
  BY <1>0, <1>1, <1>2 DEF Responded
<1>4. ASSUME NEW i \in 1..Len(responses')
      PROVE  i + 1 \in 1..Len(responses) /\ responses'[i] = responses[i + 1]
  BY <1>0, <1>2
<1>5. ASSUME ~reordered PROVE Ordered(responses')
  <2>1. ASSUME NEW i \in 1..Len(responses')
        PROVE  \E j \in 1..Len(responses) :
                   j \in {i + 0, i + 0 + 1} /\ responses'[i] = responses[j]
    BY <1>4
  <2> QED
    BY <1>0, <1>2, <1>5, <2>1, KeptOrder DEF InOrder
<1>6. ASSUME ~reordered, NEW d \in Clients, NEW i \in 1..Len(responses')
      PROVE  client'[d].got <= responses'[i]
  <2>1. CASE d = c
    <3>1. responses[1] <= responses[i + 1]
      <4>1. 1 <= i + 1
        OBVIOUS
      <4> QED
        BY <1>2, <1>4, <1>6, <4>1 DEF InOrder, Ordered
    <3> QED
      BY <1>3, <1>4, <2>1, <3>1
  <2>2. CASE d # c
    BY <1>3, <1>4, <1>6, <2>2 DEF InOrder
  <2> QED
    BY <2>1, <2>2
<1>7. ASSUME NEW d \in Clients PROVE client'[d].got <= sent
  <2>1. responses[1] <= sent
    BY <1>2 DEF Inductive, Answered
  <2> QED
    BY <1>3, <2>1 DEF InOrder
<1>8. ~reordered => \A d \in Clients : client[d].got <= client'[c].got
  BY <1>2, <1>3 DEF InOrder
<1>9. InOrder'
  BY <1>1, <1>5, <1>6, <1>7 DEF InOrder, Ordered
<1> QED
  BY <1>8, <1>9

(* The other steps of the threads give no read() a sample. *)
LEMMA ThreadInOrder ==
    ASSUME Inductive, InOrder, sent' \in Nat, sent <= sent', reordered' = reordered,
           responses' = responses \/ responses' = <<>>,
           \A c \in Clients : client'[c].got = client[c].got
    PROVE  InOrder'
<1>1. \A c \in Clients : client[c].got \in Nat /\ sent \in Nat
  BY Types DEF Inductive
<1>2. ASSUME NEW c \in Clients PROVE client'[c].got <= sent'
  BY <1>1 DEF InOrder
<1>3. CASE responses' = responses
  BY <1>2, <1>3 DEF InOrder, Ordered
<1>4. CASE responses' = <<>>
  <2>1. 1..Len(responses') = {}
    BY <1>4
  <2> QED
    BY <1>2, <2>1 DEF InOrder, Ordered
<1> QED
  BY <1>3, <1>4

LEMMA StepInOrder ==
    ASSUME Inductive, InOrder, [Next]_vars
    PROVE  InOrder'
<1>0. sent \in Nat /\ client \in [Clients -> Responded] /\ sent <= sent /\ sent <= sent + 1
  BY Types DEF Inductive
<1>1. ASSUME UNCHANGED <<client, sent, responses, reordered>> PROVE InOrder'
  BY <1>0, <1>1, ThreadInOrder
<1>2. ASSUME NEW method \in {"open", "close"}, Call(method) PROVE InOrder'
  BY <1>1, <1>2 DEF Call, wire, faults
<1>3. ASSUME Open \/ Close PROVE InOrder'
  BY <1>0, <1>3, ThreadInOrder DEF Open, Close, Discard
<1>4. ASSUME Exit PROVE InOrder'
  BY <1>1, <1>4 DEF Exit, wire, faults
<1>5. ASSUME NEW c \in Clients, ReadBegin(c) PROVE InOrder'
  <2>1. client' = [client EXCEPT ![c].at = "lock"] /\ UNCHANGED <<sent, responses, reordered>>
    BY <1>5 DEF ReadBegin, wire, faults
  <2>2. \A d \in Clients : client'[d].got = client[d].got
    BY <1>0, <2>1 DEF Responded
  <2> QED
    BY <1>0, <2>1, <2>2, ThreadInOrder
<1>6. ASSUME NEW c \in Clients, Send(c) PROVE InOrder'
  <2>1. /\ client' = [client EXCEPT ![c].at = "receive", ![c].asked = sent']
        /\ sent' = sent + 1 /\ UNCHANGED <<responses, reordered>>
    BY <1>6 DEF Send, faults
  <2>2. \A d \in Clients : client'[d].got = client[d].got
    BY <1>0, <2>1 DEF Responded
  <2>3. sent' \in Nat /\ sent <= sent'
    BY <1>0, <2>1
  <2> QED
    BY <2>1, <2>2, <2>3, ThreadInOrder
<1>7. ASSUME NEW c \in Clients, Receive(c) PROVE InOrder'
  BY <1>7, ReceiveInOrder
<1>8. CASE Network
  BY <1>8, NetworkInOrder
<1>9. CASE UNCHANGED vars
  BY <1>1, <1>9 DEF vars, wire, faults
<1> QED
  BY <1>2, <1>3, <1>4, <1>5, <1>6, <1>7, <1>8, <1>9
  DEF Next, OpenFails, SendFails, ReceiveFails

(* Although no sequence number is compared: as long as no response          *)
(* overtakes another, no read() of any thread returns a sample older than   *)
(* one that an earlier read() of any thread returned, whatever is lost or   *)
(* duplicated and however often the device is closed and opened.            *)
THEOREM SamplesInOrder ==
    Spec => [][\A c, d \in Clients :
                  ~reordered /\ Receive(c) => client[d].got <= client'[c].got]_vars
<1>1. Init => InOrder
  <2> SUFFICES ASSUME Init PROVE InOrder
    OBVIOUS
  <2>1. \A c \in Clients : client[c].got = 0
    BY DEF Init
  <2>2. sent = 0 /\ 1..Len(responses) = {}
    BY DEF Init
  <2> QED
    BY <2>1, <2>2 DEF InOrder, Ordered
<1>2. Inductive /\ InOrder /\ [Next]_vars => InOrder'
  BY StepInOrder
<1>3. Inductive /\ InOrder /\ [Next]_vars =>
        [\A c, d \in Clients :
            ~reordered /\ Receive(c) => client[d].got <= client'[c].got]_vars
  BY ReceiveInOrder
<1> QED
  BY InductiveInvariant, <1>1, <1>2, <1>3, PTL DEF Spec
=============================================================================
