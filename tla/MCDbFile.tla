------------------------------ MODULE MCDbFile ------------------------------
(***************************************************************************)
(* Model-checking instances of DbFile: one or two processes, a database a  *)
(* and the place b of its copy.  Jobs differ from run to run.              *)
(***************************************************************************)
EXTENDS DbFile, TLC

CONSTANTS a, b, p, q, i1, i2, i3, w1, w2

Symmetric == Permutations(Inodes) \cup Permutations(Wals)

\* The supported use: one process creates the database, both work on it, one
\* makes, verifies and drops copies which the other may look at.
SupportedJobs ==
  [x \in Procs |-> IF x = p THEN {Job("create", a), Job("tx", a), Job("verify", b)}
                   ELSE {Job("tx", a), CopyTo(a, b), Job("drop", b)}]

\* One process that restores a copy over a database it also uses.
RestoreJobs == [x \in Procs |-> {Job("tx", a), Job("tx", b), Forced(CopyTo(a, b))}]

\* One process that drops a database and makes it again.
DropJobs == [x \in Procs |-> {Job("create", a), Job("tx", a), Job("drop", a)}]

ASSUME JobsAreSupported == Jobs = SupportedJobs => Supported

=============================================================================
