------------------------------ MODULE TxStore ------------------------------
(***************************************************************************)
(* What a Pager promises to the SQL engine above it: one transaction at a  *)
(* time over a database whose state is a value of States, with a stack of  *)
(* named savepoints.  Nothing here mentions pages in memory, eviction, or  *)
(* the header: Pager.tla is the detailed module that implements this one.  *)
(***************************************************************************)
EXTENDS Naturals, Sequences

CONSTANTS
  States,      \* the database states a transaction can produce
  Names        \* savepoint names

VARIABLES
  committed,   \* the state a restart shows
  working,     \* the state the open transaction reads and writes
  inTx,        \* a transaction is open
  stack        \* savepoints of the open transaction, oldest first

vars == <<committed, working, inTx, stack>>

TypeOK ==
  /\ committed \in States
  /\ working \in States
  /\ inTx \in BOOLEAN
  /\ stack \in Seq([name : Names, state : States])

Init ==
  /\ committed \in States
  /\ working = committed
  /\ inTx = FALSE
  /\ stack = <<>>

Begin ==
  /\ ~inTx
  /\ inTx' = TRUE
  /\ UNCHANGED <<committed, working, stack>>

\* Any change of pages, allocation or catalog root inside the transaction.
Update ==
  /\ inTx
  /\ working' \in States
  /\ UNCHANGED <<committed, inTx, stack>>

Commit ==
  /\ inTx
  /\ committed' = working
  /\ inTx' = FALSE
  /\ stack' = <<>>
  /\ UNCHANGED working

Rollback ==
  /\ inTx
  /\ working' = committed
  /\ inTx' = FALSE
  /\ stack' = <<>>
  /\ UNCHANGED committed

SetSavepoint(n) ==
  /\ inTx
  /\ stack' = Append(stack, [name |-> n, state |-> working])
  /\ UNCHANGED <<committed, working, inTx>>

\* i is the youngest savepoint called n.
Youngest(n, i) ==
  /\ i \in 1..Len(stack)
  /\ stack[i].name = n
  /\ \A j \in (i + 1)..Len(stack) : stack[j].name # n

\* The named savepoint survives; the younger ones do not.
RollbackTo(n) ==
  /\ inTx
  /\ \E i \in 1..Len(stack) :
       /\ Youngest(n, i)
       /\ working' = stack[i].state
       /\ stack' = SubSeq(stack, 1, i)
  /\ UNCHANGED <<committed, inTx>>

Release(n) ==
  /\ inTx
  /\ \E i \in 1..Len(stack) :
       /\ Youngest(n, i)
       /\ stack' = SubSeq(stack, 1, i - 1)
  /\ UNCHANGED <<committed, working, inTx>>

Next ==
  \/ Begin
  \/ Update
  \/ Commit
  \/ Rollback
  \/ \E n \in Names : SetSavepoint(n) \/ RollbackTo(n) \/ Release(n)

Spec == Init /\ [][Next]_vars
=============================================================================
