------------------------------- MODULE Server -------------------------------
(***************************************************************************)
(* gabysql-server in -dir mode: the accept loop with its connection cap,   *)
(* one handler thread per connection, the write_lock every POST handler    *)
(* holds from its first look at the database to its answer, the exclusive  *)
(* file lock a Pager holds from open to close, the single session slot of  *)
(* /tx/*, and CREATE and DROP DATABASE.                                    *)
(*                                                                         *)
(* A database is an inode with the set of row changes committed to it; a   *)
(* name of the directory denotes an inode or nothing, because DROP         *)
(* DATABASE unlinks a file that a Pager may still have open.  A statement  *)
(* n changes two rows, <<n, 1>> and <<n, 2>>, so that one that fails half  *)
(* way can be told from one that does nothing.  The session store's mutex  *)
(* is taken only under write_lock and is not modelled apart.               *)
(***************************************************************************)
EXTENDS Naturals, FiniteSets

CONSTANTS
  Names,            \* database names under -dir
  Threads,          \* handler threads
  MaxConnections,   \* -max-connections
  Inodes,           \* bound: database files ever created
  MaxStmts,         \* bound: statements executed
  MaxSessions,      \* bound: sessions opened
  Panics,           \* a handler may panic
  Drops,            \* clients use DROP DATABASE
  None              \* no inode, no session, no request, no owner

SessionIds == 1..MaxSessions
Stmts == 1..MaxStmts
Rows == Stmts \X {1, 2}
Both(n) == {<<n, 1>>, <<n, 2>>}

ByName == {"get", "exec", "create", "drop", "begin"}
BySession == {"sexec", "commit", "rollback"}
Requests == [kind : ByName, arg : Names] \cup [kind : BySession, arg : SessionIds]
Sessions == [id : SessionIds, ino : Inodes, name : Names, pending : SUBSET Rows,
             done : SUBSET Stmts, expired : BOOLEAN]

ASSUME ServerAssumption ==
  /\ IsFiniteSet(Threads)
  /\ MaxConnections \in Nat \ {0}
  /\ MaxStmts \in Nat /\ MaxSessions \in Nat
  /\ Panics \in BOOLEAN /\ Drops \in BOOLEAN
  /\ None \notin Inodes \cup Threads \cup Sessions \cup Requests

VARIABLES
  dir,        \* the inode each name denotes
  content,    \* the rows committed to each inode
  locked,     \* inodes whose file lock is held
  writeLock,  \* the thread that holds write_lock
  poisoned,   \* a thread panicked while it held write_lock
  session,    \* SessionStore.current
  pc,         \* where each handler is
  req,        \* the request it handles
  ino,        \* the inode its own Pager has open
  active,     \* the counter of connections
  stmts,      \* statements executed so far
  issued,     \* sessions opened so far
  acked,      \* history: <<statement, name, inode>>, commits acknowledged
  refused     \* history: statements the client knows did not happen

data == <<dir, content, acked, refused>>
handlers == <<pc, req, ino, active>>
vars == <<data, handlers, locked, writeLock, poisoned, session, stmts, issued>>

Init ==
  /\ dir = [n \in Names |-> None]
  /\ content = [i \in Inodes |-> {}]
  /\ locked = {} /\ writeLock = None /\ poisoned = FALSE /\ session = None
  /\ pc = [t \in Threads |-> "idle"]
  /\ req = [t \in Threads |-> None]
  /\ ino = [t \in Threads |-> None]
  /\ active = 0 /\ stmts = 0 /\ issued = 0
  /\ acked = {} /\ refused = {}

-----------------------------------------------------------------------------
(* The accept loop.                                                        *)

\* The bounds: a request is made only if there is enough left of what it uses.
InFlight(k) ==
  Cardinality({t \in Threads : pc[t] \notin {"idle", "answered"} /\ req[t].kind = k})
Fresh == {i \in Inodes : /\ content[i] = {} /\ i \notin locked
                         /\ \A n \in Names : dir[n] # i}
Affordable(r) ==
  /\ r.kind \in {"exec", "sexec"} => stmts + InFlight("exec") + InFlight("sexec") < MaxStmts
  /\ r.kind = "begin" => issued + InFlight("begin") < MaxSessions
  /\ r.kind = "create" => InFlight("create") < Cardinality(Fresh)

\* Mutant of Accept: one connection too many is let in.
AcceptOverCap(t, r) ==
  /\ pc[t] = "idle"
  /\ active <= MaxConnections
  /\ r.kind \in BySession => r.arg <= issued
  /\ r.kind = "drop" => Drops
  /\ Affordable(r)
  /\ active' = active + 1
  /\ pc' = [pc EXCEPT ![t] = "start"]
  /\ req' = [req EXCEPT ![t] = r]
  /\ UNCHANGED <<data, ino, locked, writeLock, poisoned, session, stmts, issued>>

\* One acceptor compares and then adds, so nothing comes between the two.
Accept(t, r) ==
  /\ pc[t] = "idle"
  /\ active < MaxConnections
  /\ r.kind \in BySession => r.arg <= issued
  /\ r.kind = "drop" => Drops
  /\ Affordable(r)
  /\ active' = active + 1
  /\ pc' = [pc EXCEPT ![t] = "start"]
  /\ req' = [req EXCEPT ![t] = r]
  /\ UNCHANGED <<data, ino, locked, writeLock, poisoned, session, stmts, issued>>

\* The response is written and the connection given back.
Finish(t) ==
  /\ pc[t] = "answered"
  /\ active' = active - 1
  /\ pc' = [pc EXCEPT ![t] = "idle"]
  /\ req' = [req EXCEPT ![t] = None]
  /\ UNCHANGED <<data, ino, locked, writeLock, poisoned, session, stmts, issued>>

Answered(t) == pc' = [pc EXCEPT ![t] = "answered"]

\* open_pager_from_request fails at once if the file is absent or locked.
CanOpen(n, held) == dir[n] # None /\ dir[n] \notin held

-----------------------------------------------------------------------------
(* The GET handlers, which take no mutex: they open a Pager, read, drop it. *)

GetOpen(t) ==
  /\ pc[t] = "start" /\ req[t].kind = "get"
  /\ IF CanOpen(req[t].arg, locked)
     THEN /\ locked' = locked \cup {dir[req[t].arg]}
          /\ ino' = [ino EXCEPT ![t] = dir[req[t].arg]]
          /\ pc' = [pc EXCEPT ![t] = "reading"]
     ELSE Answered(t) /\ UNCHANGED <<locked, ino>>
  /\ UNCHANGED <<data, req, active, writeLock, poisoned, session, stmts, issued>>

GetClose(t) ==
  /\ pc[t] = "reading"
  /\ locked' = locked \ {ino[t]}
  /\ ino' = [ino EXCEPT ![t] = None]
  /\ Answered(t)
  /\ UNCHANGED <<data, req, active, writeLock, poisoned, session, stmts, issued>>

-----------------------------------------------------------------------------
(* The POST handlers run under write_lock.                                 *)

Enter(t) ==
  /\ pc[t] = "start" /\ req[t].kind # "get"
  /\ writeLock = None
  /\ IF poisoned
     THEN Answered(t) /\ UNCHANGED writeLock
     ELSE writeLock' = t /\ pc' = [pc EXCEPT ![t] = "guarded"]
  /\ UNCHANGED <<data, req, ino, active, locked, poisoned, session, stmts, issued>>

Handling(t, kind) == pc[t] = "guarded" /\ req[t].kind = kind

\* Mutant of Leave: the guard outlives the answer.
LeaveHolding(t) == Answered(t) /\ UNCHANGED <<req, active, poisoned, writeLock>>

\* The guard is dropped with the answer.
Leave(t) ==
  /\ Answered(t)
  /\ writeLock' = None
  /\ UNCHANGED <<req, active, poisoned>>

\* Mutant of ExecOpen: the Pager is opened without taking the file lock.
ExecOpenUnlocked(t) ==
  /\ Handling(t, "exec")
  /\ IF dir[req[t].arg] # None
     THEN /\ locked' = locked \cup {dir[req[t].arg]}
          /\ ino' = [ino EXCEPT ![t] = dir[req[t].arg]]
          /\ pc' = [pc EXCEPT ![t] = "running"]
          /\ UNCHANGED <<req, active, writeLock, poisoned>>
     ELSE Leave(t) /\ UNCHANGED <<locked, ino>>
  /\ UNCHANGED <<data, session, stmts, issued>>

\* exec_sql without a session: a Pager of its own.
ExecOpen(t) ==
  /\ Handling(t, "exec")
  /\ IF CanOpen(req[t].arg, locked)
     THEN /\ locked' = locked \cup {dir[req[t].arg]}
          /\ ino' = [ino EXCEPT ![t] = dir[req[t].arg]]
          /\ pc' = [pc EXCEPT ![t] = "running"]
          /\ UNCHANGED <<req, active, writeLock, poisoned>>
     ELSE Leave(t) /\ UNCHANGED <<locked, ino>>
  /\ UNCHANGED <<data, session, stmts, issued>>

ExecClose(t) ==
  /\ pc[t] = "running"
  /\ stmts' = stmts + 1
  /\ locked' = locked \ {ino[t]}
  /\ ino' = [ino EXCEPT ![t] = None]
  /\ Leave(t)
  /\ UNCHANGED <<dir, session, issued>>

ExecCommit(t) ==
  /\ ExecClose(t)
  /\ content' = [content EXCEPT ![ino[t]] = @ \cup Both(stmts + 1)]
  /\ acked' = acked \cup {<<stmts + 1, req[t].arg, ino[t]>>}
  /\ UNCHANGED refused

\* Mutant of ExecFail: what the statement had changed is committed.
ExecFailCommits(t) ==
  /\ ExecClose(t)
  /\ content' = [content EXCEPT ![ino[t]] = @ \cup {<<stmts + 1, 1>>}]
  /\ refused' = refused \cup {stmts + 1}
  /\ UNCHANGED acked

\* A statement of the request fails and the whole transaction is rolled back.
ExecFail(t) ==
  /\ ExecClose(t)
  /\ refused' = refused \cup {stmts + 1}
  /\ UNCHANGED <<content, acked>>

CreateDb(t) ==
  /\ Handling(t, "create")
  /\ Leave(t)
  /\ IF dir[req[t].arg] # None THEN UNCHANGED dir
     ELSE \E i \in Fresh : dir' = [dir EXCEPT ![req[t].arg] = i]
  /\ UNCHANGED <<content, acked, refused, ino, locked, session, stmts, issued>>

\* remove_file asks nobody whether the database is open.  Its clients give up
\* what they had been told was in it.
DropDb(t) ==
  /\ Handling(t, "drop")
  /\ Leave(t)
  /\ dir' = [dir EXCEPT ![req[t].arg] = None]
  /\ acked' = {a \in acked : a[2] # req[t].arg}
  /\ UNCHANGED <<content, refused, ino, locked, session, stmts, issued>>

-----------------------------------------------------------------------------
(* The session handlers.  Each begins with gc_idle.                        *)

\* gc_idle: the session has outlived its timeout.
Idle == session # None /\ session.expired

\* The session and the locks as gc_idle leaves them.
Live == IF Idle THEN None ELSE session
Held == IF Idle THEN locked \ {session.ino} ELSE locked
Collected == IF Idle THEN refused \cup session.done ELSE refused

\* Mutant of Mine: the id is not compared.
MineAny(t) == Live # None
Mine(t) == Live # None /\ Live.id = req[t].arg

\* The answer is 404 or 409; only gc_idle has done anything.
Rejected(t) ==
  /\ session' = Live /\ locked' = Held /\ refused' = Collected
  /\ Leave(t)
  /\ UNCHANGED <<dir, content, acked, ino, stmts, issued>>

\* Mutant of TxBegin: a second session takes the slot of the first.
TxBeginReplaces(t) ==
  /\ Handling(t, "begin")
  /\ CanOpen(req[t].arg, Held)
  /\ session' = [id |-> issued + 1, ino |-> dir[req[t].arg], name |-> req[t].arg,
                 pending |-> {}, done |-> {}, expired |-> FALSE]
  /\ issued' = issued + 1
  /\ locked' = Held \cup {dir[req[t].arg]}
  /\ refused' = Collected
  /\ Leave(t)
  /\ UNCHANGED <<dir, content, acked, ino, stmts>>

TxBegin(t) ==
  /\ Handling(t, "begin")
  /\ IF Live # None \/ ~CanOpen(req[t].arg, Held)
     THEN Rejected(t)
     ELSE /\ session' = [id |-> issued + 1, ino |-> dir[req[t].arg], name |-> req[t].arg,
                         pending |-> {}, done |-> {}, expired |-> FALSE]
          /\ issued' = issued + 1
          /\ locked' = Held \cup {dir[req[t].arg]}
          /\ refused' = Collected
          /\ Leave(t)
          /\ UNCHANGED <<dir, content, acked, ino, stmts>>

\* /exec in the session: the statement succeeds, or fails having changed
\* nothing, or one row of two.  The session goes on either way.
SessionExec(t) ==
  /\ Handling(t, "sexec")
  /\ Mine(t)
  /\ stmts' = stmts + 1
  /\ \/ session' = [session EXCEPT !.pending = @ \cup Both(stmts + 1),
                                   !.done = @ \cup {stmts + 1}]
     \/ session' = session
     \/ session' = [session EXCEPT !.pending = @ \cup {<<stmts + 1, 1>>}]
  /\ Leave(t)
  /\ UNCHANGED <<data, ino, locked, issued>>

\* Mutant of Persist: the acknowledgement is sent and the commit is not made.
PersistLost(s) ==
  /\ content' = content
  /\ acked' = acked \cup {<<n, s.name, s.ino>> : n \in s.done}

\* The pending work is committed and acknowledged.
Persist(s) ==
  /\ content' = [content EXCEPT ![s.ino] = @ \cup s.pending]
  /\ acked' = acked \cup {<<n, s.name, s.ino>> : n \in s.done}

\* /exec in the session of a script that ends with COMMIT: exec_commit commits
\* and begins anew, and the session goes on.
SessionCommitScript(t) ==
  /\ Handling(t, "sexec")
  /\ Mine(t)
  /\ Persist(session)
  /\ session' = [session EXCEPT !.pending = {}, !.done = {}]
  /\ Leave(t)
  /\ UNCHANGED <<dir, refused, ino, locked, stmts, issued>>

\* The same with ROLLBACK: everything the session had done is dropped.
SessionRollbackScript(t) ==
  /\ Handling(t, "sexec")
  /\ Mine(t)
  /\ refused' = refused \cup session.done
  /\ session' = [session EXCEPT !.pending = {}, !.done = {}]
  /\ Leave(t)
  /\ UNCHANGED <<dir, content, acked, ino, locked, stmts, issued>>

TxCommit(t) ==
  /\ Handling(t, "commit")
  /\ Mine(t)
  /\ Persist(session)
  /\ session' = None
  /\ locked' = locked \ {session.ino}
  /\ Leave(t)
  /\ UNCHANGED <<dir, refused, ino, stmts, issued>>

TxRollback(t) ==
  /\ Handling(t, "rollback")
  /\ Mine(t)
  /\ session' = None
  /\ locked' = locked \ {session.ino}
  /\ refused' = refused \cup session.done
  /\ Leave(t)
  /\ UNCHANGED <<dir, content, acked, ino, stmts, issued>>

NotMine(t) ==
  /\ \E k \in BySession : Handling(t, k)
  /\ ~Mine(t)
  /\ Rejected(t)

-----------------------------------------------------------------------------
(* Time, panics, and the death of the server.                              *)

\* SESSION_IDLE_TIMEOUT_SECS go by; a handler of the session resets the clock
\* by making a new session record, or by ending it.
Expire ==
  /\ session # None /\ ~session.expired
  /\ \A t \in Threads : writeLock # t
  /\ session' = [session EXCEPT !.expired = TRUE]
  /\ UNCHANGED <<data, handlers, locked, writeLock, poisoned, stmts, issued>>

\* The thread unwinds: its Pager is dropped, its guard poisons write_lock, and
\* nothing takes its connection off the counter.
Panic(t) ==
  /\ Panics
  /\ pc[t] \in {"start", "reading", "guarded", "running"}
  /\ locked' = locked \ {ino[t]}
  /\ ino' = [ino EXCEPT ![t] = None]
  /\ poisoned' = (poisoned \/ writeLock = t)
  /\ writeLock' = IF writeLock = t THEN None ELSE writeLock
  /\ pc' = [pc EXCEPT ![t] = "idle"]
  /\ req' = [req EXCEPT ![t] = None]
  /\ UNCHANGED <<data, active, session, stmts, issued>>

\* The process dies and a new one starts: only the directory survives.
Restart ==
  /\ locked' = {} /\ writeLock' = None /\ poisoned' = FALSE
  /\ session' = None
  /\ pc' = [t \in Threads |-> "idle"]
  /\ req' = [t \in Threads |-> None]
  /\ ino' = [t \in Threads |-> None]
  /\ active' = 0
  /\ refused' = IF session = None THEN refused ELSE refused \cup session.done
  /\ UNCHANGED <<dir, content, acked, stmts, issued>>

Handle(t) ==
  \/ GetOpen(t) \/ GetClose(t)
  \/ ExecOpen(t) \/ ExecCommit(t) \/ ExecFail(t)
  \/ CreateDb(t) \/ DropDb(t)
  \/ TxBegin(t) \/ SessionExec(t) \/ SessionCommitScript(t) \/ SessionRollbackScript(t)
  \/ TxCommit(t) \/ TxRollback(t) \/ NotMine(t)
  \/ Finish(t)

Next ==
  \/ \E t \in Threads, r \in Requests : Accept(t, r)
  \/ \E t \in Threads : Handle(t) \/ Enter(t) \/ Panic(t)
  \/ Expire
  \/ Restart

Spec == Init /\ [][Next]_vars

\* A handler that has started runs on, and one that waits for write_lock gets
\* it if the lock stays free.  Rust's Mutex promises no more: it may pass one
\* waiting thread over for others as long as others come.
FairSpec == /\ Spec
            /\ \A t \in Threads : WF_vars(Handle(t)) /\ WF_vars(Enter(t))

-----------------------------------------------------------------------------
(* Properties.                                                             *)

\* The directory, the locks, the handlers and the history keep their types.
TypeOK ==
  /\ dir \in [Names -> Inodes \cup {None}]
  /\ content \in [Inodes -> SUBSET Rows]
  /\ locked \subseteq Inodes
  /\ writeLock \in Threads \cup {None} /\ poisoned \in BOOLEAN
  /\ session \in Sessions \cup {None}
  /\ pc \in [Threads -> {"idle", "start", "reading", "guarded", "running", "answered"}]
  /\ req \in [Threads -> Requests \cup {None}]
  /\ ino \in [Threads -> Inodes \cup {None}]
  /\ active \in 0..MaxConnections
  /\ stmts \in 0..MaxStmts /\ issued \in 0..MaxSessions
  /\ acked \subseteq Stmts \X Names \X Inodes /\ refused \subseteq Stmts

\* Who has inode i open.
Pagers(i) == {t \in Threads : ino[t] = i}
             \cup (IF session # None /\ session.ino = i THEN {0} ELSE {})

\* A database has at most one Pager at a time, over sessions that expire,
\* handlers that panic and names that are dropped and created again; its file
\* lock is held exactly while it has one, so no path leaks a lock.
OnePager ==
  \A i \in Inodes : /\ Cardinality(Pagers(i)) <= 1
                    /\ i \in locked <=> Pagers(i) # {}

\* The types and the one-Pager rule together: no counter leaves its bounds and no
\* lock is lost or taken twice.
LocksAreKept == TypeOK /\ OnePager

\* While a session is open nobody else commits to its database, and while a
\* GET reads a database nobody at all does.
Isolated ==
  [][\A i \in Inodes : content'[i] # content[i] =>
       /\ \A t \in Threads : pc[t] = "reading" => ino[t] # i
       /\ session # None /\ session.ino = i
            => \E t \in Threads : /\ writeLock = t
                                  /\ req[t].kind \in BySession
                                  /\ req[t].arg = session.id]_vars

\* A session is ended by a request that names it or, after the timeout, by
\* gc_idle, and by nothing else but the death of the server.
EndedByOwner ==
  [][session # None /\ ~Restart /\ (session' = None \/ session'.id # session.id)
     => \/ session.expired
        \/ \E t \in Threads : /\ writeLock = t
                              /\ req[t].kind \in {"commit", "rollback"}
                              /\ req[t].arg = session.id]_vars

\* What the client has been told did not happen never shows: no row of a batch
\* that failed, or of a transaction that was rolled back or expired, is ever
\* committed.
RefusedLeavesNothing ==
  \A i \in Inodes, n \in refused : content[i] \cap Both(n) = {}

\* A commit that was acknowledged is in the file it was made to, whatever became
\* of the session, of the handler and of the name, and a restart finds it there.
AckedIsKept == \A a \in acked : Both(a[1]) \subseteq content[a[3]]

\* What a client has been told stands, either way: refused work never shows and
\* acknowledged work never goes.
AnswersStand == RefusedLeavesNothing /\ AckedIsKept

\* m13_server.rs:129 (m13_cross_request_tx_persists_on_commit): after /tx/commit
\* has answered OK, the database of that name has the committed rows.
AckedIsThere ==
  \A a \in acked : dir[a[2]] # None /\ Both(a[1]) \subseteq content[dir[a[2]]]

\* Once requests stop coming, every one that was accepted is answered and its
\* handler done, whoever holds write_lock, a file lock or the session slot.
EveryRequestAnswered ==
  <>[][\A t \in Threads, r \in Requests : ~Accept(t, r)]_vars
    => <>[](\A t \in Threads : pc[t] = "idle")
=============================================================================
