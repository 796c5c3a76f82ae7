--------------------------- MODULE MCAmeCommands ---------------------------
(* Five methods: queries, a command the board answers although nobody waits *)
(* for the answer, and one it does not answer.  The second value of every   *)
(* reply is the header of a reply to getBoardInfo().                        *)
EXTENDS AmeCommands

MCMethods == {calibrateOffsets, getCalibrationOffsets, getBoardInfo, getNetmask, saveParamsOnFlash}

MCAnswered == {1, 3, 21, 33}

MCBoardData ==
    [c \in Calls |-> [i \in 1..12 |->
        IF i = 2 THEN packHeaderInfo(2, 8, ENCODING_TYPE) ELSE 16777216 * c + 65536 * i + i]]
=============================================================================
