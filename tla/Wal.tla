-------------------------------- MODULE Wal --------------------------------
(***************************************************************************)
(* The commit protocol of the Pager and its recovery, one write, sync or   *)
(* unlink at a time, over two files: the .db and the .wal beside it.       *)
(*                                                                         *)
(* Each file has two views.  db and wal are what the operating system      *)
(* returns to a read: they survive the death of the process.  dbDisk and   *)
(* walDisk are what has reached stable storage: after a power loss only    *)
(* they are sure, and anything written since the last sync may or may not  *)
(* be there, whole or torn.  A transaction writes its own number into the  *)
(* pages it dirties, so a mixture of two transactions is visible.          *)
(***************************************************************************)
EXTENDS Naturals, FiniteSets

CONSTANTS
  DbPages,      \* page numbers
  Header,       \* page 0, which open verifies before it looks at the WAL
  Environments, \* the faults a behaviour may meet, one environment in each
  Tails,        \* what an interrupted append to the WAL can leave
  Tearable,     \* pages a power loss can tear in the middle of a write
  Torn,         \* the contents of a torn page: its CRC does not verify
  NoFile,       \* the WAL does not exist
  None          \* no commit is in doubt

Steps == {"log", "logsync", "apply", "dbsync"}

\* An environment: whether the process can be killed and the machine can lose
\* power, at any step, the steps of commit that may return an I/O error, whether
\* remove_file may fail (the code ignores its result), and the bounds on the
\* transactions begun and on the crashes.
Faults == [kill : BOOLEAN, power : BOOLEAN, errors : SUBSET Steps, unlink : BOOLEAN,
           maxTx : Nat, maxCrashes : Nat]

ASSUME WalAssumption ==
  /\ Header \in DbPages
  /\ Environments \subseteq Faults
  /\ Tails \subseteq {"hdr", "data"}
  /\ Tearable \subseteq DbPages
  /\ Torn \notin Nat

\* A WAL: the transaction whose page records it holds, the pages recorded,
\* those among them whose bytes are not whole, the COMMIT marker, and how the
\* file ends ("hdr": inside a record's header, "data": inside its page).
WalFiles == [tx : Nat, pages : SUBSET DbPages, bad : SUBSET DbPages,
             commit : BOOLEAN, tail : {"whole", "hdr", "data"}]
States == [DbPages -> Nat]

ASSUME SentinelAssumption == NoFile \notin WalFiles /\ None \notin States

VARIABLES
  pc,       \* where the process is
  tx,       \* transactions begun so far; the open one's number
  dirty,    \* the open transaction's dirty pages, fixed when commit starts
  todo,     \* pages left in the current loop of commit or replay
  wal,      \* the .wal as read by a process
  walDisk,  \* the .wal on stable storage
  db,       \* the .db as read by a process
  dbDisk,   \* the .db on stable storage
  acked,    \* history: the state the clients have been told of
  doubt,    \* history: the state of a commit that has not been answered
  crashes,  \* crashes so far
  env       \* the environment, the same throughout

files == <<wal, walDisk, db, dbDisk>>
walVars == <<pc, tx, dirty, todo, wal, walDisk, db, dbDisk, acked, doubt, crashes, env>>

FreshWal(n) == [tx |-> n, pages |-> {}, bad |-> {}, commit |-> FALSE, tail |-> "whole"]
Committed(w) == w # NoFile /\ w.commit

WalInit ==
  /\ pc = "idle"
  /\ tx = 0
  /\ dirty = {} /\ todo = {}
  /\ wal = NoFile /\ walDisk = NoFile
  /\ db = [p \in DbPages |-> 0]
  /\ dbDisk = db
  /\ acked = db /\ doubt = None
  /\ crashes = 0
  /\ env \in Environments

\* remove_file, its error dropped: what a process finds at the path afterwards.
Removed == {NoFile} \cup (IF env.unlink THEN {wal} ELSE {})

-----------------------------------------------------------------------------
(* begin, commit, rollback.                                                *)

BeginTx ==
  /\ pc = "idle"
  /\ tx < env.maxTx
  /\ tx' = tx + 1
  /\ wal' = FreshWal(tx + 1)
  /\ pc' = "tx"
  /\ UNCHANGED <<dirty, todo, walDisk, db, dbDisk, acked, doubt, crashes, env>>

\* commit takes the snapshot of the dirty pages, which may be empty.
StartCommit(D) ==
  /\ pc = "tx"
  /\ dirty' = D
  /\ todo' = D
  /\ doubt' = [p \in DbPages |-> IF p \in D THEN tx ELSE acked[p]]
  /\ pc' = "log"
  /\ UNCHANGED <<tx, files, acked, crashes, env>>

LogPage(p) ==
  /\ pc = "log"
  /\ p \in todo
  /\ wal' = [wal EXCEPT !.pages = @ \cup {p}]
  /\ todo' = todo \ {p}
  /\ UNCHANGED <<pc, tx, dirty, walDisk, db, dbDisk, acked, doubt, crashes, env>>

LogCommit ==
  /\ pc = "log"
  /\ todo = {}
  /\ wal' = [wal EXCEPT !.commit = TRUE]
  /\ pc' = "logsync"
  /\ UNCHANGED <<tx, dirty, todo, walDisk, db, dbDisk, acked, doubt, crashes, env>>

\* Mutant of SyncLog: the WAL is not synced before the .db is written.
SyncLogSkipped ==
  /\ pc = "logsync"
  /\ todo' = dirty
  /\ pc' = "apply"
  /\ UNCHANGED <<tx, dirty, files, acked, doubt, crashes, env>>

SyncLog ==
  /\ pc = "logsync"
  /\ walDisk' = wal
  /\ todo' = dirty
  /\ pc' = "apply"
  /\ UNCHANGED <<tx, dirty, wal, db, dbDisk, acked, doubt, crashes, env>>

ApplyPage(p) ==
  /\ pc = "apply"
  /\ p \in todo
  /\ db' = [db EXCEPT ![p] = tx]
  /\ todo' = todo \ {p}
  /\ UNCHANGED <<pc, tx, dirty, wal, walDisk, dbDisk, acked, doubt, crashes, env>>

\* Mutant of SyncDb: the .db is not synced before the WAL is removed.
SyncDbSkipped ==
  /\ pc = "apply"
  /\ todo = {}
  /\ pc' = "remove"
  /\ UNCHANGED <<tx, dirty, todo, files, acked, doubt, crashes, env>>

SyncDb ==
  /\ pc = "apply"
  /\ todo = {}
  /\ dbDisk' = db
  /\ pc' = "remove"
  /\ UNCHANGED <<tx, dirty, todo, wal, walDisk, db, acked, doubt, crashes, env>>

\* The WAL is removed and commit returns Ok.
FinishCommit ==
  /\ pc = "remove"
  /\ wal' \in Removed
  /\ acked' = doubt
  /\ doubt' = None
  /\ dirty' = {}
  /\ pc' = "idle"
  /\ UNCHANGED <<tx, todo, walDisk, db, dbDisk, crashes, env>>

\* A write or a sync of commit returns an error and commit returns it.
IoError(step) ==
  /\ step \in env.errors
  /\ \/ step = "log" /\ pc = "log"
        /\ \E t \in {"whole"} \cup (IF todo = {} THEN {} ELSE Tails) :
             wal' = [wal EXCEPT !.tail = t]
     \/ step = "logsync" /\ pc = "logsync" /\ UNCHANGED wal
     \/ step = "apply" /\ pc = "apply" /\ todo # {} /\ UNCHANGED wal
     \/ step = "dbsync" /\ pc = "apply" /\ todo = {} /\ UNCHANGED wal
  /\ pc' = "failed"
  /\ UNCHANGED <<tx, dirty, todo, walDisk, db, dbDisk, acked, doubt, crashes, env>>

\* rollback, on request or by the caller of a commit that failed: it drops the
\* cache and the WAL and reads page 0 back; the client is told the transaction
\* did not happen.
RollbackTx ==
  /\ pc \in {"tx", "failed"}
  /\ wal' \in Removed
  /\ pc' = "idle"
  /\ dirty' = {} /\ todo' = {}
  /\ doubt' = None
  /\ UNCHANGED <<tx, walDisk, db, dbDisk, acked, crashes, env>>

-----------------------------------------------------------------------------
(* Crashes.                                                                *)

Running == pc \notin {"down", "refused"}

\* kill -9: the files stay as the process left them, the last append perhaps
\* cut between two of the four writes that make up a page record.
Killed ==
  /\ env.kill
  /\ crashes < env.maxCrashes
  /\ Running
  /\ \/ UNCHANGED wal
     \/ /\ pc = "log" /\ todo # {}
        /\ \E t \in Tails : wal' = [wal EXCEPT !.tail = t]
  /\ pc' = "down"
  /\ crashes' = crashes + 1
  /\ UNCHANGED <<tx, dirty, todo, walDisk, db, dbDisk, acked, doubt, env>>

\* What a power loss can leave of page p of the .db.
PageSurvivors(p) ==
  IF db[p] = dbDisk[p] THEN {db[p]}
  ELSE {db[p], dbDisk[p]} \cup (IF p \in Tearable THEN {Torn} ELSE {})

\* What it can leave of the WAL: the synced file, or any part of what was
\* appended since.  The marker is the last byte, so it survives only with the
\* headers of every record before it, though not always with their pages.
WalSurvivors ==
  {walDisk, wal} \cup
  IF wal = walDisk \/ wal = NoFile THEN {}
  ELSE {w \in [tx : {wal.tx}, pages : SUBSET wal.pages, bad : SUBSET Tearable,
               commit : {wal.commit, FALSE}, tail : {"whole"} \cup Tails] :
          /\ w.bad \subseteq w.pages
          /\ w.commit => w.pages = wal.pages /\ w.tail = "whole"}

PowerLost ==
  /\ env.power
  /\ crashes < env.maxCrashes
  /\ db' \in {s \in [DbPages -> {Torn} \cup 0..tx] : \A p \in DbPages : s[p] \in PageSurvivors(p)}
  /\ dbDisk' = db'
  /\ wal' \in WalSurvivors
  /\ walDisk' = wal'
  /\ pc' = "down"
  /\ crashes' = crashes + 1
  /\ UNCHANGED <<tx, dirty, todo, acked, doubt, env>>

-----------------------------------------------------------------------------
(* Pager::open.                                                            *)

\* The restarted database serves what is in the .db: a commit in doubt turns
\* out to have happened, or not.
Serve ==
  /\ pc' = "idle"
  /\ acked' = IF doubt # None /\ db = doubt THEN doubt ELSE acked
  /\ doubt' = None
  /\ dirty' = {} /\ todo' = {}

\* Page 0 does not verify, or scan_commit meets the end of the file inside a
\* record's header: open returns the error and leaves the files alone.
OpenRefused ==
  /\ pc = "down"
  /\ db[Header] = Torn \/ (wal # NoFile /\ wal.tail = "hdr")
  /\ pc' = "refused"
  /\ UNCHANGED <<tx, dirty, todo, files, acked, doubt, crashes, env>>

OpenClean ==
  /\ pc = "down"
  /\ db[Header] # Torn
  /\ wal = NoFile
  /\ Serve
  /\ UNCHANGED <<tx, files, crashes, env>>

\* Mutant of OpenWithWal: the WAL is replayed without its COMMIT marker.
OpenReplaysAnyWal ==
  /\ pc = "down"
  /\ db[Header] # Torn
  /\ wal # NoFile /\ wal.tail # "hdr"
  /\ todo' = wal.pages
  /\ pc' = "replay"
  /\ UNCHANGED <<tx, dirty, files, acked, doubt, crashes, env>>

\* scan_commit reads to the end: a WAL with its marker is replayed, a WAL
\* without one is dropped.
OpenWithWal ==
  /\ pc = "down"
  /\ db[Header] # Torn
  /\ wal # NoFile /\ wal.tail # "hdr"
  /\ IF wal.commit
     THEN todo' = wal.pages /\ pc' = "replay"
     ELSE todo' = {} /\ pc' = "discard"
  /\ UNCHANGED <<tx, dirty, files, acked, doubt, crashes, env>>

\* Mutant of ReplayPage: replay does not move on to the next record.
ReplayPageAgain(p) ==
  /\ pc = "replay"
  /\ p \in todo
  /\ p \notin wal.bad
  /\ db' = [db EXCEPT ![p] = wal.tx]
  /\ UNCHANGED <<pc, tx, dirty, todo, wal, walDisk, dbDisk, acked, doubt, crashes, env>>

\* replay_to verifies a record's CRC just before it applies that record.
ReplayPage(p) ==
  /\ pc = "replay"
  /\ p \in todo
  /\ p \notin wal.bad
  /\ db' = [db EXCEPT ![p] = wal.tx]
  /\ todo' = todo \ {p}
  /\ UNCHANGED <<pc, tx, dirty, wal, walDisk, dbDisk, acked, doubt, crashes, env>>

ReplayRefused(p) ==
  /\ pc = "replay"
  /\ p \in todo
  /\ p \in wal.bad
  /\ pc' = "refused"
  /\ UNCHANGED <<tx, dirty, todo, files, acked, doubt, crashes, env>>

\* Mutant of SyncReplay: the WAL is dropped before the replay is synced.
SyncReplaySkipped ==
  /\ pc = "replay"
  /\ todo = {}
  /\ pc' = "discard"
  /\ UNCHANGED <<tx, dirty, todo, files, acked, doubt, crashes, env>>

SyncReplay ==
  /\ pc = "replay"
  /\ todo = {}
  /\ dbDisk' = db
  /\ pc' = "discard"
  /\ UNCHANGED <<tx, dirty, todo, wal, walDisk, db, acked, doubt, crashes, env>>

DiscardWal ==
  /\ pc = "discard"
  /\ wal' \in Removed
  /\ Serve
  /\ UNCHANGED <<tx, walDisk, db, dbDisk, crashes, env>>

\* The caller of a refused open tries again.
Retry ==
  /\ pc = "refused"
  /\ pc' = "down"
  /\ UNCHANGED <<tx, dirty, todo, files, acked, doubt, crashes, env>>

Recovery ==
  \/ OpenRefused
  \/ OpenClean
  \/ OpenWithWal
  \/ \E p \in DbPages : ReplayPage(p)
  \/ \E p \in DbPages : ReplayRefused(p)
  \/ SyncReplay
  \/ DiscardWal

WalNext ==
  \/ BeginTx
  \/ \E D \in SUBSET DbPages : StartCommit(D)
  \/ \E p \in DbPages : LogPage(p)
  \/ LogCommit
  \/ SyncLog
  \/ \E p \in DbPages : ApplyPage(p)
  \/ SyncDb
  \/ FinishCommit
  \/ \E s \in Steps : IoError(s)
  \/ RollbackTx
  \/ Killed
  \/ PowerLost
  \/ Recovery
  \/ Retry

WalSpec == WalInit /\ [][WalNext]_walVars

\* An open that has started runs to its end, and a database that is down is
\* opened again: open is a straight line of code with no wait in it.
FairSpec == WalSpec /\ WF_walVars(Recovery)

-----------------------------------------------------------------------------
(* Properties.                                                             *)

Points == {"idle", "tx", "log", "logsync", "apply", "remove", "failed",
           "down", "replay", "discard", "refused"}

\* The files, the program point and the history keep their types.
WalTypeOK ==
  /\ pc \in Points
  /\ tx \in Nat /\ crashes \in Nat
  /\ env \in Environments
  /\ dirty \subseteq DbPages /\ todo \subseteq DbPages
  /\ wal \in WalFiles \cup {NoFile}
  /\ walDisk \in WalFiles \cup {NoFile}
  /\ db \in [DbPages -> Nat \cup {Torn}]
  /\ dbDisk \in [DbPages -> Nat \cup {Torn}]
  /\ acked \in States
  /\ doubt \in States \cup {None}

\* Whenever the database can be used, its pages are those of the last
\* transaction the client was told of: every acknowledged commit is there,
\* nothing of a rolled back one is, and a commit that a crash interrupted is
\* there as a whole or not at all.
ServesAcked == pc \in {"idle", "tx"} => db = acked

\* Commit answers Ok only for what a power loss cannot take back: from the
\* answer until the next WAL is synced, stable storage holds the state acked.
AckIsDurable ==
  env.power /\ pc \in {"idle", "tx", "log", "logsync"} => dbDisk = acked

\* While the .db is being overwritten, the WAL on stable storage can redo the
\* whole transaction.
RedoReady ==
  pc = "apply" => /\ Committed(walDisk)
                  /\ walDisk.tx = tx
                  /\ walDisk.pages = dirty
                  /\ walDisk.bad = {} /\ walDisk.tail = "whole"

\* A committed WAL that outlives its transaction, because its removal failed
\* or had not reached the disk, records what the .db already holds: replaying
\* it at a later restart undoes no newer transaction.
StaleWalHarmless ==
  /\ env.power /\ pc \in {"idle", "tx", "log", "logsync"} /\ Committed(walDisk)
       => \A p \in walDisk.pages : dbDisk[p] = walDisk.tx
  /\ pc = "idle" /\ Committed(wal)
       => \A p \in wal.pages : db[p] = wal.tx

\* A restart that is not interrupted for ever serves the database again, or
\* refuses it because its header or its WAL is damaged: recovery cannot hang,
\* nor undo its own progress.
RecoversEventually ==
  pc = "down" ~> \/ pc = "idle"
                 \/ pc = "refused" /\ (db[Header] = Torn \/ wal.bad # {} \/ wal.tail = "hdr")

\* RUNBOOK.md:123: when a page of the WAL fails its CRC the replay stops
\* instead of corrupting the .db, which keeps one transaction's state.
RefusedReplaySparesDb ==
  pc = "refused" /\ db[Header] # Torn => db \in {acked, doubt}
=============================================================================
