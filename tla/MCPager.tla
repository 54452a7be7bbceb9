------------------------------ MODULE MCPager ------------------------------
(***************************************************************************)
(* Model-checking instance of Pager: two allocatable pages above the       *)
(* header, so that a cache of two pages is full after one load, can be all *)
(* dirty, and can outgrow its capacity.                                    *)
(***************************************************************************)
EXTENDS Pager, TLC

CONSTANTS z, a, s1, s2

MCVals == {z, a}
MCNames == {s1, s2}
=============================================================================
