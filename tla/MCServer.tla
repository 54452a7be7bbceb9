------------------------------ MODULE MCServer ------------------------------
(***************************************************************************)
(* Model-checking instances of Server: two handlers (one where a session is *)
(* shown to lose its database), a database name, and two files, so that the *)
(* name can be dropped and created again while a session holds the file it *)
(* denoted.                                                                *)
(***************************************************************************)
EXTENDS Server, TLC

CONSTANTS d, e, t1, t2, i1, i2

Symmetric == Permutations(Names) \cup Permutations(Threads) \cup Permutations(Inodes)
=============================================================================
