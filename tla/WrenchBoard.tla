---------------------------- MODULE WrenchBoard ----------------------------
(***************************************************************************)
(* What an acquisition device promises to the users of its IAnalogSensor   *)
(* interface: a board with one wrench (a force and a torque) per sensor.   *)
(* Components arrive one by one, a sensor's wrench is replaced as a whole  *)
(* once both of its components arrived anew, and a read is a snapshot of   *)
(* the board.  A component is represented by the number of the message     *)
(* that carried it; 0 stands for the zeros the buffers start with.         *)
(***************************************************************************)
EXTENDS Naturals

CONSTANTS Sensors,   \* the force/torque sensors the device serves
          Readers    \* the clients that call read()

VARIABLES clock,     \* messages received so far
          pending,   \* what arrived since the sensor's last publication
          board,     \* what read() exposes
          result     \* what the last completed read() of each reader returned

bvars == <<clock, pending, board, result>>

Zero == [force |-> 0, torque |-> 0]

Init ==
    /\ clock = 0
    /\ pending = [i \in Sensors |-> Zero]
    /\ board = [i \in Sensors |-> Zero]
    /\ result = [r \in Readers |-> [i \in Sensors |-> Zero]]

(* A message brings the forces of the sensors in F and the torques of those in T. *)
Deliver(F, T) ==
    /\ clock' = clock + 1
    /\ pending' = [i \in Sensors |->
                     [force  |-> IF i \in F THEN clock + 1 ELSE pending[i].force,
                      torque |-> IF i \in T THEN clock + 1 ELSE pending[i].torque]]
    /\ UNCHANGED <<board, result>>

(* Both components of sensor i are there: they become its wrench, together. *)
Publish(i) ==
    /\ pending[i].force # 0
    /\ pending[i].torque # 0
    /\ board' = [board EXCEPT ![i] = pending[i]]
    /\ pending' = [pending EXCEPT ![i] = Zero]
    /\ UNCHANGED <<clock, result>>

Read(r) ==
    /\ result' = [result EXCEPT ![r] = board]
    /\ UNCHANGED <<clock, pending, board>>

Next ==
    \/ \E F, T \in SUBSET Sensors : Deliver(F, T)
    \/ \E i \in Sensors : Publish(i)
    \/ \E r \in Readers : Read(r)

Spec == Init /\ [][Next]_bvars

-----------------------------------------------------------------------------
(* A wrench made of a force and a torque that both arrived after           *)
(* everything the old one is made of.                                      *)
FreshWrench(old, new) ==
    /\ new.force  > old.force  /\ new.force  > old.torque
    /\ new.torque > old.force  /\ new.torque > old.torque
=============================================================================
