------------------------------- MODULE DbFile -------------------------------
(***************************************************************************)
(* Whole databases as processes handle them: gabysql init, exec, backup,   *)
(* restore, verify and DROP DATABASE, over a directory in which a .db and  *)
(* its .wal are found by name, while the exclusive lock belongs to the     *)
(* open file.  A job is the sequence of its system calls, and processes    *)
(* interleave between any two of them.                                     *)
(*                                                                         *)
(* A page holds the number of the transaction that wrote it, and two pages *)
(* stand for all: the header, which open verifies, and one more.  The log  *)
(* phase of a commit is one step here; Wal.tla opens it up.                *)
(***************************************************************************)
EXTENDS Naturals, FiniteSets

CONSTANTS
  Paths,      \* names of .db files; a .wal has the name of its .db
  Inodes,     \* bound: .db files that exist at once, linked or not
  Wals,       \* bound: .wal files that exist at once, linked or not
  Procs,      \* processes, or handlers of one: whoever opens a Pager
  Jobs,       \* what each process may be asked to do
  Existing,   \* the paths that hold a database at the start
  MaxVer,     \* bound: transactions and creations
  Kill,       \* processes may be killed
  Absent,     \* what a file holds past its end
  None        \* no file, no job

Pages == {"hdr", "body"}
Blank == [g \in Pages |-> Absent]
Filled(v) == [g \in Pages |-> v]
Contents == [Pages -> 0..MaxVer \cup {Absent}]
Logs == [ver : 0..MaxVer, pages : SUBSET Pages, commit : BOOLEAN]
EmptyLog == [ver |-> 0, pages |-> {}, commit |-> FALSE]

\* What a process is asked to do.  expect is the header that a copy must have.
Job(kind, path) == [kind |-> kind, path |-> path, to |-> path, force |-> FALSE,
                    expect |-> Absent]
Forced(j) == [j EXCEPT !.force = TRUE]
CopyTo(a, b) == [Job("backup", a) EXCEPT !.to = b]
JobType == [kind : {"create", "tx", "backup", "verify", "drop"}, path : Paths, to : Paths,
            force : BOOLEAN, expect : 0..MaxVer \cup {Absent}]

\* A process: where it is, its job, the .db, copy and .wal it has open, the
\* pages left in its loop, and the number of its transaction.
Idle == [pc |-> "idle", job |-> None, db |-> None, copy |-> None, wal |-> None,
         todo |-> {}, num |-> 0]
ProcType == [pc : {"idle", "make", "made", "fill", "open", "opened", "locked", "replay",
                   "discard", "ready", "tx", "apply", "good", "copy", "unlink", "unlinkwal"},
             job : JobType \cup {None}, db : Inodes \cup {None}, copy : Inodes \cup {None},
             wal : Wals \cup {None}, todo : SUBSET Pages, num : 0..MaxVer]

ASSUME DbFileAssumption ==
  /\ MaxVer \in Nat /\ Kill \in BOOLEAN
  /\ Existing \subseteq Paths
  /\ Jobs \in [Procs -> SUBSET JobType]
  /\ Absent \notin Nat /\ None \notin Inodes \cup Wals \cup Procs \cup JobType

\* The paths on which a job of a kind works, those a process brings about, and
\* those that copies are made to.
UsedBy(kind) == {a \in Paths : \E p \in Procs : \E j \in Jobs[p] : j.kind = kind /\ j.path = a}
MakesIn(p, a) == \E j \in Jobs[p] : (j.kind = "create" /\ j.path = a) \/ (j.kind = "backup" /\ j.to = a)
CopiedTo == {a \in Paths : \E p \in Procs : \E j \in Jobs[p] : j.kind = "backup" /\ j.to = a}

\* The use that keeps databases whole: nothing is forced, one process at a time
\* makes a path, a database in use is not dropped, and a copy is neither written
\* to nor copied.
Supported ==
  /\ \A p \in Procs : \A j \in Jobs[p] : ~j.force
  /\ \A a \in Paths : \A p, q \in Procs : MakesIn(p, a) /\ MakesIn(q, a) => p = q
  /\ UsedBy("tx") \cap (UsedBy("drop") \cup CopiedTo) = {}
  /\ UsedBy("backup") \cap CopiedTo = {}

VARIABLES
  dir,      \* the .db inode of each path
  walDir,   \* the .wal inode of each path
  content,  \* the pages of each .db inode
  log,      \* the contents of each .wal inode
  lock,     \* who holds each .db inode's lock
  proc,     \* the processes
  ver,      \* transactions and creations so far
  allowed   \* history: what each .db may hold, by what its clients were told

files == <<dir, walDir, content, log, ver, allowed>>
vars == <<files, lock, proc>>

Init ==
  /\ dir \in [Paths -> Inodes \cup {None}]
  /\ \A a \in Paths : dir[a] # None <=> a \in Existing
  /\ \A a, b \in Existing : a # b => dir[a] # dir[b]
  /\ walDir = [a \in Paths |-> None]
  /\ content = [i \in Inodes |-> Filled(0)]
  /\ log = [w \in Wals |-> EmptyLog]
  /\ lock = [i \in Inodes |-> None]
  /\ proc = [p \in Procs |-> Idle]
  /\ ver = 0
  /\ allowed = [i \in Inodes |-> {Filled(0)}]

-----------------------------------------------------------------------------
(* Steps that several jobs share.                                          *)

At(p, point) == proc[p].pc = point
Becomes(p, me) == proc' = [proc EXCEPT ![p] = me]
Goto(p, point) == Becomes(p, [proc[p] EXCEPT !.pc = point])

Released(p) == [i \in Inodes |-> IF lock[i] = p THEN None ELSE lock[i]]

\* Mutant of EndJob: the lock outlives the file it was taken on.
EndJobLocked(p) == Becomes(p, Idle) /\ UNCHANGED <<files, lock>>

\* The job is over, well or in an error: its files are closed, and a lock goes
\* with its file.
EndJob(p) == Becomes(p, Idle) /\ lock' = Released(p) /\ UNCHANGED files

FreshInodes == {i \in Inodes : /\ \A a \in Paths : dir[a] # i
                               /\ \A p \in Procs : i \notin {proc[p].db, proc[p].copy}}
FreshWals == {w \in Wals : /\ \A a \in Paths : walDir[a] # w
                           /\ \A p \in Procs : proc[p].wal # w}

\* create(true).truncate(true): the file at path a, emptied, or a new one.
OpenTruncated(a, i) ==
  /\ IF dir[a] # None THEN i = dir[a] ELSE i \in FreshInodes
  /\ dir' = [dir EXCEPT ![a] = i]
  /\ content' = [content EXCEPT ![i] = Blank]

\* The checks made by name before anything is opened.
MayStart(j) ==
  /\ j.kind = "create" /\ ~j.force => dir[j.path] = None
  /\ j.kind = "backup" /\ ~j.force => dir[j.to] = None
  /\ j.kind = "drop" => dir[j.path] # None

Start(p, j) ==
  /\ At(p, "idle")
  /\ j \in Jobs[p]
  /\ MayStart(j)
  /\ Becomes(p, [Idle EXCEPT !.job = j,
                   !.pc = CASE j.kind = "create" -> "make"
                            [] j.kind = "drop" -> "unlink"
                            [] OTHER -> "open"])
  /\ UNCHANGED <<files, lock>>

\* Mutant of TakeLock: try_lock is not asked for its answer.
TakeLockAnyway(p, next) ==
  /\ lock' = [lock EXCEPT ![proc[p].db] = p]
  /\ Goto(p, next)
  /\ UNCHANGED files

\* acquire_db_lock.
TakeLock(p, next) ==
  IF lock[proc[p].db] # None THEN EndJob(p)
  ELSE /\ lock' = [lock EXCEPT ![proc[p].db] = p]
       /\ Goto(p, next)
       /\ UNCHANGED files

-----------------------------------------------------------------------------
(* create_internal.                                                        *)

Make(p) ==
  /\ At(p, "make")
  /\ \E i \in Inodes :
       /\ OpenTruncated(proc[p].job.path, i)
       /\ allowed' = [allowed EXCEPT ![i] = IF i \in FreshInodes THEN {} ELSE @]
       /\ Becomes(p, [proc[p] EXCEPT !.pc = "made", !.db = i])
  /\ UNCHANGED <<walDir, log, ver, lock>>

LockNew(p) == At(p, "made") /\ TakeLock(p, "fill")

WriteHeader(p) ==
  /\ At(p, "fill")
  /\ ver < MaxVer
  /\ ver' = ver + 1
  /\ content' = [content EXCEPT ![proc[p].db] = Filled(ver + 1)]
  /\ allowed' = [allowed EXCEPT ![proc[p].db] = {Filled(ver + 1)}]
  /\ Goto(p, "good")
  /\ UNCHANGED <<dir, walDir, log, lock>>

-----------------------------------------------------------------------------
(* Pager::open.                                                            *)

OpenFile(p) ==
  /\ At(p, "open")
  /\ IF dir[proc[p].job.path] = None THEN EndJob(p)
     ELSE /\ Becomes(p, [proc[p] EXCEPT !.pc = "opened", !.db = dir[proc[p].job.path]])
          /\ UNCHANGED <<files, lock>>

LockFile(p) == At(p, "opened") /\ TakeLock(p, "locked")

\* Mutant of AfterLock: the WAL is removed without being replayed.
AfterLockDiscards(p, w) ==
  IF w = None THEN [proc[p] EXCEPT !.pc = "ready"] ELSE [proc[p] EXCEPT !.pc = "discard"]

\* What is done about the WAL w that has the path's name.
AfterLock(p, w) ==
  IF w = None THEN [proc[p] EXCEPT !.pc = "ready"]
  ELSE IF log[w].commit
  THEN [proc[p] EXCEPT !.pc = "replay", !.wal = w, !.todo = log[w].pages, !.num = log[w].ver]
  ELSE [proc[p] EXCEPT !.pc = "discard"]

\* Page 0 is verified, and then the WAL is looked for by name.
Recover(p) ==
  /\ At(p, "locked")
  /\ IF content[proc[p].db].hdr = Absent THEN EndJob(p)
     ELSE Becomes(p, AfterLock(p, walDir[proc[p].job.path])) /\ UNCHANGED <<files, lock>>

\* replay_to, and the loop of commit that writes the dirty pages to the .db.
WritePage(p, g) ==
  /\ At(p, "replay") \/ At(p, "apply")
  /\ g \in proc[p].todo
  /\ content' = [content EXCEPT ![proc[p].db][g] = proc[p].num]
  /\ Becomes(p, [proc[p] EXCEPT !.todo = @ \ {g}])
  /\ UNCHANGED <<dir, walDir, log, ver, allowed, lock>>

UnlinkWalOf(p) == walDir' = [walDir EXCEPT ![proc[p].job.path] = None]

DiscardWal(p) ==
  /\ At(p, "replay") \/ At(p, "discard")
  /\ proc[p].todo = {}
  /\ UnlinkWalOf(p)
  /\ Becomes(p, [proc[p] EXCEPT !.pc = "ready", !.wal = None])
  /\ UNCHANGED <<dir, content, log, ver, allowed, lock>>

-----------------------------------------------------------------------------
(* A Pager in use: transactions, one at a time.                            *)

\* Wal::create truncates the .wal that has the name, whoever's it is.
Begin(p) ==
  /\ At(p, "ready") /\ proc[p].job.kind = "tx"
  /\ \E w \in Wals :
       LET old == walDir[proc[p].job.path] IN
       /\ IF old # None THEN w = old ELSE w \in FreshWals
       /\ walDir' = [walDir EXCEPT ![proc[p].job.path] = w]
       /\ log' = [log EXCEPT ![w] = EmptyLog]
       /\ Becomes(p, [proc[p] EXCEPT !.pc = "tx", !.wal = w])
  /\ UNCHANGED <<dir, content, ver, allowed, lock>>

\* The WAL is written and synced.  Until commit answers, the database may be
\* as it was or as it will be.
LogPages(p, D) ==
  LET i == proc[p].db
      new == [g \in Pages |-> IF g \in D THEN ver + 1 ELSE content[i][g]]
  IN  /\ At(p, "tx")
      /\ ver < MaxVer
      /\ ver' = ver + 1
      /\ log' = [log EXCEPT ![proc[p].wal] = [ver |-> ver + 1, pages |-> D, commit |-> TRUE]]
      /\ allowed' = [allowed EXCEPT ![i] = @ \cup {new}]
      /\ Becomes(p, [proc[p] EXCEPT !.pc = "apply", !.todo = D, !.num = ver + 1])
      /\ UNCHANGED <<dir, walDir, content, lock>>

\* The WAL is removed by name and commit answers Ok.
FinishCommit(p) ==
  LET i == proc[p].db IN
  /\ At(p, "apply") /\ proc[p].todo = {}
  /\ UnlinkWalOf(p)
  /\ allowed' = [allowed EXCEPT ![i] = {s \in @ : \E g \in Pages : s[g] = proc[p].num}]
  /\ Becomes(p, [proc[p] EXCEPT !.pc = "ready", !.wal = None])
  /\ UNCHANGED <<dir, content, log, ver, lock>>

RollbackTx(p) ==
  /\ At(p, "tx")
  /\ UnlinkWalOf(p)
  /\ Becomes(p, [proc[p] EXCEPT !.pc = "ready", !.wal = None])
  /\ UNCHANGED <<dir, content, log, ver, allowed, lock>>

Close(p) == (At(p, "good") \/ (At(p, "ready") /\ proc[p].job.kind = "tx")) /\ EndJob(p)

-----------------------------------------------------------------------------
(* verify, backup, restore.                                                *)

\* Mutant of AllRead: the loop over the pages is left out.
HeaderRead(i) == content[i].hdr # Absent

\* page_data on every page, each of which must be there and verify.
AllRead(i) == \A g \in Pages : content[i][g] # Absent

\* verify, and the second phase of backup, which also compares the headers.
CheckPages(p) ==
  LET i == proc[p].db IN
  /\ At(p, "ready") /\ proc[p].job.kind = "verify"
  /\ IF proc[p].job.expect \in {Absent, content[i].hdr} /\ AllRead(i)
     THEN Goto(p, "good") /\ UNCHANGED <<files, lock>>
     ELSE EndJob(p)

\* The destination is truncated, and no lock is asked for it.
OpenCopy(p) ==
  /\ At(p, "ready") /\ proc[p].job.kind = "backup"
  /\ \E i \in Inodes :
       /\ OpenTruncated(proc[p].job.to, i)
       /\ allowed' = [allowed EXCEPT ![i] = {content[proc[p].db]}]
       /\ Becomes(p, [proc[p] EXCEPT !.pc = "copy", !.copy = i, !.todo = Pages])
  /\ UNCHANGED <<walDir, log, ver, lock>>

\* Pages are copied in their order; one that cannot be read ends the job.
CopyPage(p, g) ==
  /\ At(p, "copy")
  /\ g \in proc[p].todo /\ (g = "hdr" \/ "hdr" \notin proc[p].todo)
  /\ IF content[proc[p].db][g] = Absent THEN EndJob(p)
     ELSE /\ content' = [content EXCEPT ![proc[p].copy][g] = content[proc[p].db][g]]
          /\ Becomes(p, [proc[p] EXCEPT !.todo = @ \ {g}])
          /\ UNCHANGED <<dir, walDir, log, ver, allowed, lock>>

\* The source is closed and the copy opened by its name, as any database is.
CopyDone(p) ==
  LET j == [Job("verify", proc[p].job.to) EXCEPT !.expect = content[proc[p].db].hdr] IN
  /\ At(p, "copy") /\ proc[p].todo = {}
  /\ lock' = Released(p)
  /\ Becomes(p, [Idle EXCEPT !.pc = "open", !.job = j])
  /\ UNCHANGED files

-----------------------------------------------------------------------------
(* DROP DATABASE, and a kill.                                              *)

Unlink(p) ==
  /\ At(p, "unlink")
  /\ dir' = [dir EXCEPT ![proc[p].job.path] = None]
  /\ IF dir[proc[p].job.path] = None THEN Becomes(p, Idle) ELSE Goto(p, "unlinkwal")
  /\ UNCHANGED <<walDir, content, log, ver, allowed, lock>>

UnlinkWal(p) ==
  /\ At(p, "unlinkwal")
  /\ UnlinkWalOf(p)
  /\ Becomes(p, Idle)
  /\ UNCHANGED <<dir, content, log, ver, allowed, lock>>

\* kill -9: the files stay, the handles and the locks go.
Killed(p) == Kill /\ proc[p] # Idle /\ EndJob(p)

Step(p) ==
  \/ Make(p) \/ LockNew(p) \/ WriteHeader(p)
  \/ OpenFile(p) \/ LockFile(p) \/ Recover(p) \/ DiscardWal(p)
  \/ \E g \in Pages : WritePage(p, g)
  \/ Begin(p) \/ FinishCommit(p) \/ RollbackTx(p) \/ Close(p)
  \/ \E D \in (SUBSET Pages) \ {{}} : LogPages(p, D)
  \/ CheckPages(p) \/ OpenCopy(p) \/ CopyDone(p)
  \/ \E g \in Pages : CopyPage(p, g)
  \/ Unlink(p) \/ UnlinkWal(p)
  \/ Killed(p)

Next == \E p \in Procs : Step(p) \/ (\E j \in Jobs[p] : Start(p, j))

Spec == Init /\ [][Next]_vars

-----------------------------------------------------------------------------
(* Properties.                                                             *)

\* The directory, the files and the processes keep their types, and a lock is
\* held by a process that has the file open.
TypeOK ==
  /\ dir \in [Paths -> Inodes \cup {None}]
  /\ walDir \in [Paths -> Wals \cup {None}]
  /\ content \in [Inodes -> Contents]
  /\ log \in [Wals -> Logs]
  /\ proc \in [Procs -> ProcType]
  /\ ver \in 0..MaxVer
  /\ allowed \in [Inodes -> SUBSET Contents]
  /\ lock \in [Inodes -> Procs \cup {None}]
  /\ \A i \in Inodes : lock[i] # None => proc[lock[i]].db = i

\* A Pager that is ready for a transaction serves what its database's clients
\* were last told: whatever creations, copies, drops, kills and recoveries by
\* whatever processes came before.
ServesCommitted ==
  \A p \in Procs : At(p, "ready") /\ proc[p].job.kind = "tx"
                     => content[proc[p].db] \in allowed[proc[p].db]

\* While a Pager overwrites the .db that has its name, the WAL that can redo the
\* commit is the one a recovery would find.  TECHNICAL_SPECS.md:52-59 has the
\* .wal removed after the .db is synced.
RedoByName ==
  \A p \in Procs : At(p, "apply") /\ dir[proc[p].job.path] = proc[p].db
                     => walDir[proc[p].job.path] = proc[p].wal

\* When verify, backup, restore or init answers OK, the file it answers for is
\* a whole database: what its clients were told, or the source of the copy.
\* backup.rs:8-9 promises it: a verified-good file or a loud failure.
GoodIsCommitted ==
  \A p \in Procs : At(p, "good") => content[proc[p].db] \in allowed[proc[p].db]

\* Whatever is answered for a database is true of its file: of a transaction's
\* first read and of an OK alike, and no lock is held on a file nobody has open.
OnlyWholeDatabases == TypeOK /\ ServesCommitted /\ GoodIsCommitted
=============================================================================
