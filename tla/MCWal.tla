------------------------------- MODULE MCWal -------------------------------
(***************************************************************************)
(* Model-checking instance of Wal: the header page and two more, so that a *)
(* commit can be cut between two pages, with or without page 0.            *)
(***************************************************************************)
EXTENDS Wal

CONSTANTS h, p1, p2

\* Processes are killed, and writing or syncing the log may fail.
Killing == [kill |-> TRUE, power |-> FALSE, errors |-> {"log", "logsync"},
            unlink |-> FALSE, maxTx |-> 3, maxCrashes |-> 3]

\* The machine loses power, and a WAL may not go when it is removed.
PowerFailing == [kill |-> FALSE, power |-> TRUE, errors |-> {},
                 unlink |-> TRUE, maxTx |-> 2, maxCrashes |-> 2]

\* Both a log that cannot be written and a WAL that cannot be removed.
Stubborn(e) == [e EXCEPT !.errors = {"log"}, !.unlink = TRUE]

\* One power loss in one transaction.
OneCut == [kill |-> FALSE, power |-> TRUE, errors |-> {},
           unlink |-> FALSE, maxTx |-> 1, maxCrashes |-> 1]

MCEnvironments == {Killing, PowerFailing, Stubborn(Killing), Stubborn(PowerFailing)}
BadRecordEnvironments == {OneCut}
=============================================================================
