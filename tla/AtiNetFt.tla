------------------------------ MODULE AtiNetFt ------------------------------
(***************************************************************************)
(* The ATI Net F/T device (ATI_Ethernet/ati_ethernetDriver.cpp) and the    *)
(* network to its sensor.  read() sends a request and waits, without a     *)
(* timeout and holding m_mutex, for whatever response comes next; requests *)
(* are all alike and the numbers in a response are never compared.         *)
(*                                                                         *)
(* A response is the number of requests that had been sent when its sample *)
(* was taken.  UDP may lose, duplicate and reorder; the bounds say how     *)
(* often.                                                                  *)
(***************************************************************************)
EXTENDS Integers, Sequences, SequencesExt, FiniteSets

CONSTANTS Clients,      \* threads that call read()
          MaxRequests,  \* bound: calls of read()
          MaxFaults,    \* bound: losses, duplications, and reorderings
          MaxOpens      \* bound: calls of open()

ASSUME BoundsAssumption ==
    MaxRequests \in Nat /\ MaxFaults \in Nat /\ MaxOpens \in Nat
ASSUME ClientsAssumption == "free" \notin Clients

VARIABLES
    process,       \* "running" or "exited"
    owner,         \* the thread that opens and closes: "idle" or its call
    opens,         \* calls of open() so far
    socketHandle,  \* "none", "open" (connected), "unconnected" or "closed"
    mutex,         \* who holds m_mutex
    client,        \* per thread: where it is in read(), what it asked and got
    sent,          \* requests sent
    requests,      \* requests on their way
    responses,     \* responses on their way or in the socket, in order
    duplicated,    \* datagrams the network duplicated
    lost,          \* datagrams that will never be received
    reordered      \* a response was overtaken

device == <<owner, opens, socketHandle>>
wire == <<requests, responses>>
faults == <<duplicated, lost, reordered>>
vars == <<process, device, mutex, client, sent, wire, faults>>

Init ==
    /\ process = "running" /\ owner = "idle" /\ opens = 0 /\ socketHandle = "none"
    /\ mutex = "free" /\ client = [c \in Clients |-> [at |-> "idle", asked |-> 0, got |-> 0]]
    /\ sent = 0 /\ requests = 0 /\ responses = <<>>
    /\ duplicated = 0 /\ lost = 0 /\ reordered = FALSE

(* Mutant: no mutex. *)
NoMutex == TRUE

MutexFree == mutex = "free"

(* exit(): nothing of the process is used again. *)
Exit ==
    /\ process' = "exited"
    /\ UNCHANGED <<device, mutex, client, sent, wire, faults>>

-----------------------------------------------------------------------------
(* open() and close() wait for m_mutex. *)
Call(method) ==
    /\ process = "running" /\ owner = "idle"
    /\ IF method = "open" THEN opens < MaxOpens /\ opens' = opens + 1
                          ELSE opens > 0 /\ UNCHANGED opens
    /\ owner' = method
    /\ UNCHANGED <<process, socketHandle, mutex, client, sent, wire, faults>>

(* What is on its way to a socket that is given up is never received. *)
Discard ==
    /\ requests' = 0 /\ responses' = <<>>
    /\ lost' = lost + requests + Len(responses)
    /\ UNCHANGED <<sent, duplicated, reordered>>

(* A new socket, also when one is open; connected unless the host's name is *)
(* unknown, and then open() fails.                                          *)
Open ==
    /\ process = "running" /\ owner = "open" /\ MutexFree
    /\ socketHandle' \in {"open", "unconnected"}
    /\ owner' = "idle"
    /\ Discard
    /\ UNCHANGED <<process, opens, mutex, client>>

Close ==
    /\ process = "running" /\ owner = "close" /\ MutexFree
    /\ socketHandle' = "closed"
    /\ owner' = "idle"
    /\ Discard
    /\ UNCHANGED <<process, opens, mutex, client>>

(* No socket, or no connection: exit(). *)
OpenFails == process = "running" /\ owner = "open" /\ MutexFree /\ Exit

-----------------------------------------------------------------------------
(* read() *)
ReadBegin(c) ==
    /\ process = "running" /\ socketHandle = "open" /\ client[c].at = "idle"
    /\ sent + Cardinality({d \in Clients : client[d].at = "lock"}) < MaxRequests
    /\ client' = [client EXCEPT ![c].at = "lock"]
    /\ UNCHANGED <<process, device, mutex, sent, wire, faults>>

Send(c) ==
    /\ process = "running" /\ client[c].at = "lock" /\ MutexFree
    /\ socketHandle = "open"
    /\ mutex' = c
    /\ sent' = sent + 1 /\ requests' = requests + 1
    /\ client' = [client EXCEPT ![c].at = "receive", ![c].asked = sent']
    /\ UNCHANGED <<process, device, responses, faults>>

(* The handle was closed while read() waited for m_mutex, or the network is *)
(* down: exit().                                                            *)
SendFails(c) ==
    process = "running" /\ client[c].at = "lock" /\ MutexFree /\ Exit

(* Mutant: the mutex is not released. *)
ReceiveKeepsMutex(c) ==
    /\ process = "running" /\ client[c].at = "receive" /\ responses # <<>>
    /\ responses' = Tail(responses)
    /\ client' = [client EXCEPT ![c].at = "idle", ![c].got = Head(responses)]
    /\ UNCHANGED <<process, device, mutex, sent, requests, faults>>

(* Mutant: a response whose number is not the expected one is dropped and *)
(* waited for again.                                                      *)
ReceiveOwnOnly(c) ==
    /\ process = "running" /\ client[c].at = "receive" /\ responses # <<>>
    /\ responses' = Tail(responses)
    /\ IF Head(responses) = client[c].asked
       THEN client' = [client EXCEPT ![c].at = "idle", ![c].got = Head(responses)] /\ mutex' = "free"
       ELSE UNCHANGED <<client, mutex>>
    /\ UNCHANGED <<process, device, sent, requests, faults>>

(* The next response, decoded, converted, stamped and returned. *)
Receive(c) ==
    /\ process = "running" /\ client[c].at = "receive" /\ responses # <<>>
    /\ responses' = Tail(responses)
    /\ client' = [client EXCEPT ![c].at = "idle", ![c].got = Head(responses)]
    /\ mutex' = "free"
    /\ UNCHANGED <<process, device, sent, requests, faults>>

(* The sensor's host refused an earlier request: exit(). *)
ReceiveFails(c) == process = "running" /\ client[c].at = "receive" /\ Exit

-----------------------------------------------------------------------------
(* The sensor samples when a request arrives and answers it. *)
Answer ==
    /\ requests > 0
    /\ requests' = requests - 1 /\ responses' = Append(responses, sent)
    /\ UNCHANGED <<process, device, mutex, client, sent, faults>>

LoseRequest ==
    /\ requests > 0 /\ lost < MaxFaults
    /\ requests' = requests - 1 /\ lost' = lost + 1
    /\ UNCHANGED <<process, device, mutex, client, sent, responses, duplicated, reordered>>

LoseResponse(k) ==
    /\ lost < MaxFaults
    /\ responses' = RemoveAt(responses, k) /\ lost' = lost + 1
    /\ UNCHANGED <<process, device, mutex, client, sent, requests, duplicated, reordered>>

DuplicateRequest ==
    /\ requests > 0 /\ duplicated < MaxFaults
    /\ requests' = requests + 1 /\ duplicated' = duplicated + 1
    /\ UNCHANGED <<process, device, mutex, client, sent, responses, lost, reordered>>

DuplicateResponse(k) ==
    /\ duplicated < MaxFaults
    /\ responses' = InsertAt(responses, k, responses[k]) /\ duplicated' = duplicated + 1
    /\ UNCHANGED <<process, device, mutex, client, sent, requests, lost, reordered>>

(* One response overtakes the next. *)
Reorder(k) ==
    /\ k + 1 \in DOMAIN responses /\ ~reordered
    /\ responses' = [responses EXCEPT ![k] = responses[k + 1], ![k + 1] = responses[k]]
    /\ reordered' = TRUE
    /\ UNCHANGED <<process, device, mutex, client, sent, requests, duplicated, lost>>

Network ==
    \/ Answer \/ LoseRequest \/ DuplicateRequest
    \/ \E k \in DOMAIN responses : LoseResponse(k) \/ DuplicateResponse(k) \/ Reorder(k)

Next ==
    \/ \E method \in {"open", "close"} : Call(method)
    \/ Open \/ OpenFails \/ Close
    \/ \E c \in Clients : ReadBegin(c) \/ Send(c) \/ SendFails(c) \/ Receive(c) \/ ReceiveFails(c)
    \/ Network

Spec == Init /\ [][Next]_vars

(* Threads that can run do, one that keeps finding m_mutex free gets it, and *)
(* the sensor answers what it receives.                                      *)
FairSpec ==
    /\ Spec
    /\ WF_vars(Answer)
    /\ SF_vars(Open \/ Close)
    /\ \A c \in Clients : WF_vars(Receive(c)) /\ SF_vars(Send(c) \/ SendFails(c))

-----------------------------------------------------------------------------
(* Every variable has its type, and m_mutex is held by a read() that waits *)
(* for its response, and by no other.                                      *)
TypeOK ==
    /\ process \in {"running", "exited"} /\ owner \in {"idle", "open", "close"}
    /\ opens \in 0..MaxOpens
    /\ socketHandle \in {"none", "open", "unconnected", "closed"}
    /\ client \in [Clients -> [at : {"idle", "lock", "receive"}, asked : Nat, got : Nat]]
    /\ mutex \in {"free"} \cup Clients
    /\ \A c \in Clients : client[c].at = "receive" <=> mutex = c
    /\ sent \in Nat /\ requests \in Nat /\ responses \in Seq(Nat)
    /\ duplicated \in Nat /\ lost \in Nat /\ reordered \in BOOLEAN

(* While no response overtakes another, a read() returns a sample that is at *)
(* most as many requests old as datagrams were duplicated: its own, if none  *)
(* was.                                                                      *)
LagIsDuplicates ==
    ~reordered => \A c \in Clients : client[c].at = "idle" =>
        client[c].asked - duplicated <= client[c].got /\ client[c].got <= sent

(* read() returns unless more datagrams were lost than duplicated. *)
ReadReturns ==
    \A c \in Clients :
        client[c].at # "idle" ~> client[c].at = "idle" \/ lost > duplicated \/ process = "exited"
=============================================================================
