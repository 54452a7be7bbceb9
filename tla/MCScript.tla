------------------------------ MODULE MCScript ------------------------------
(* Script for TLC: one plain variable, one column of a loop's record, i64 of  *)
(* two bits, and a FOR of one turn, of two, down, up to the largest integer,  *)
(* and by the smallest.                                                       *)
EXTENDS Script

CONSTANT r

MCColumns == {<<r>>}
MCMinInt == -2

MCRange(from, to, step, reverse) == [from |-> from, to |-> to, step |-> step, reverse |-> reverse]

MCRanges == {MCRange(0, 0, 1, FALSE), MCRange(0, -1, 1, TRUE),
             MCRange(0, 1, 1, FALSE), MCRange(1, 0, -2, TRUE)}
=============================================================================
