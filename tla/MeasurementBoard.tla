-------------------------- MODULE MeasurementBoard --------------------------
(***************************************************************************)
(* What a driver shared by several devices promises to them: the packets   *)
(* of its hardware appear on a board, each at most once, none after a      *)
(* newer one, and together with the time at which it was noticed; what a   *)
(* device reads is the board at one instant.  Packets may be skipped.  A   *)
(* packet is represented by its number; 0 stands for the zeros that are    *)
(* there before the first one.                                             *)
(***************************************************************************)
EXTENDS Naturals

CONSTANT Devices   \* the devices that read the board

VARIABLES clock,   \* the time
          sent,    \* packets sent so far
          board,   \* the packet that is shown, and its time
          last     \* what each device read last

bvars == <<clock, sent, board, last>>

Nothing == [packet |-> 0, time |-> 0]

Init ==
    /\ clock = 0
    /\ sent = 0
    /\ board = Nothing
    /\ last = [d \in Devices |-> Nothing]

Tick ==
    /\ clock' = clock + 1
    /\ UNCHANGED <<sent, board, last>>

Send ==
    /\ sent' = sent + 1
    /\ UNCHANGED <<clock, board, last>>

(* A packet newer than the one that is shown, stamped now. *)
Publish(n) ==
    /\ n > board.packet
    /\ n <= sent
    /\ board' = [packet |-> n, time |-> clock]
    /\ UNCHANGED <<clock, sent, last>>

Read(d) ==
    /\ last' = [last EXCEPT ![d] = board]
    /\ UNCHANGED <<clock, sent, board>>

Next ==
    \/ Tick
    \/ Send
    \/ \E n \in 1..sent : Publish(n)
    \/ \E d \in Devices : Read(d)

Spec == Init /\ [][Next]_bvars
=============================================================================
