------------------------ MODULE MCFtShoeUdpWrapper ------------------------
(* Floats that are exact up to 4 and four apart above, a tie going to the  *)
(* even multiple: near the start of the clock they lie further apart than  *)
(* the ticks, like those of a time in seconds since 1970.                  *)
EXTENDS FtShoeUdpWrapper

Nearest(n) ==
    LET below == n \div 4 IN
    IF n % 4 > 2 \/ (n % 4 = 2 /\ below % 2 = 1) THEN 4 * (below + 1) ELSE 4 * below

MCFloat == [n \in Doubles |-> IF n \in -4..4 THEN n ELSE Nearest(n)]
=============================================================================
