------------------------------ MODULE MCFtNode ------------------------------
(* A small ftnode device: two sensors, of which the firmware sends the     *)
(* first one's force and torque always together.                           *)
EXTENDS FtNode

Force(s) == [source |-> s, kind |-> 1]
Torque(s) == [source |-> s, kind |-> 2]
Other(s) == [source |-> s, kind |-> 0]

MCLines == {
    <<Force(1), Torque(1), Force(2), Torque(2)>>,
    <<Force(1), Torque(1), Other(2), Force(2)>>,
    <<Torque(2), Other(1), Torque(3), Other(0)>>,
    <<Force(1), Torque(1), Force(2), Torque(0)>> }
=============================================================================
