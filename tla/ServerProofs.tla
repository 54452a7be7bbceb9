---------------------------- MODULE ServerProofs ----------------------------
(***************************************************************************)
(* Proofs about Server for any number of handlers, names, files,           *)
(* statements and sessions, with panics, drops and restarts.               *)
(***************************************************************************)
EXTENDS Server, FiniteSetTheorems, TLAPS

\* What a handler's place says of its request, its Pager and write_lock.
HandlersOK ==
  \A t \in Threads :
    /\ pc[t] # "idle" => req[t] \in Requests
    /\ pc[t] = "running" => req[t].kind = "exec"
    /\ ino[t] # None <=> pc[t] \in {"reading", "running"}
    /\ writeLock = t <=> pc[t] \in {"guarded", "running"}

\* A file's lock is held by one handler, or by the session, or by nobody.
LocksOK ==
  /\ \A i \in Inodes :
       i \in locked <=> (\E t \in Threads : ino[t] = i) \/ (session # None /\ session.ino = i)
  /\ \A t, u \in Threads : ino[t] # None /\ ino[t] = ino[u] => t = u
  /\ \A t \in Threads : session # None => ino[t] # session.ino

\* The handlers with a request, and those whose request of kind k is under way.
Busy       == {t \in Threads : pc[t] # "idle"}
Serving(k) == {t \in Threads : pc[t] \notin {"idle", "answered"} /\ req[t].kind = k}

\* Every connection is counted, and what is under way fits in what is left.
CountsOK ==
  /\ Cardinality(Busy) <= active
  /\ stmts + Cardinality(Serving("exec")) + Cardinality(Serving("sexec")) <= MaxStmts
  /\ issued + Cardinality(Serving("begin")) <= MaxSessions

\* Rows belong to statements that were executed; what a session has done is
\* in its pending rows and nowhere else, and nothing of a refused statement is.
WorkOK ==
  /\ \A i \in Inodes : \A x \in content[i] : x[1] <= stmts /\ x[1] \notin refused
  /\ \A n \in refused : n <= stmts
  /\ session # None =>
       /\ session.id <= issued
       /\ \A x \in session.pending : x[1] <= stmts /\ x[1] \notin refused
       /\ \A n \in session.done : n <= stmts /\ Both(n) \subseteq session.pending
       /\ \A i \in Inodes : \A x \in content[i] : x[1] \notin session.done
  /\ AckedIsKept

\* The inductive invariant: what every reachable state of the server satisfies.
IInv == TypeOK /\ HandlersOK /\ LocksOK /\ CountsOK /\ WorkOK

USE ServerAssumption

-----------------------------------------------------------------------------
\* gc_idle leaves the session or nothing.
LEMMA Collection ==
  ASSUME TypeOK
  PROVE  /\ Live \in Sessions \cup {None}
         /\ Live # None => Live = session /\ ~Idle
         /\ Held \subseteq Inodes
         /\ Collected \subseteq Stmts
  BY DEF TypeOK, Live, Held, Collected, Idle, Sessions

\* The handlers of one kind are finitely many.
LEMMA Finite ==
  /\ IsFiniteSet(Busy) /\ Cardinality(Busy) \in Nat
  /\ \A k : IsFiniteSet(Serving(k)) /\ Cardinality(Serving(k)) \in Nat
<1>1. Busy \in SUBSET Threads  BY DEF Busy
<1>2. \A k : Serving(k) \in SUBSET Threads  BY DEF Serving
<1> QED  BY <1>1, <1>2, FS_Subset, FS_CardinalityType DEF ServerAssumption

\* An empty directory, idle handlers and no session satisfy it.
LEMMA InitHolds == Init => IInv
<1> SUFFICES ASSUME Init PROVE IInv
  OBVIOUS
<1>1. TypeOK
  <2>1. 0 \in 0..MaxConnections /\ 0 \in 0..MaxStmts /\ 0 \in 0..MaxSessions
    BY DEF ServerAssumption
  <2>2. acked \subseteq Stmts \X Names \X Inodes /\ refused \subseteq Stmts
    BY DEF Init
  <2> QED  BY <2>1, <2>2 DEF Init, TypeOK
<1>2. HandlersOK
  BY DEF Init, HandlersOK, ServerAssumption
<1>3. LocksOK
  BY DEF Init, LocksOK, ServerAssumption
<1>4. CountsOK
  <2>1. Busy = {} /\ \A k : Serving(k) = {}
    BY DEF Init, Busy, Serving
  <2>2. Cardinality({}) = 0
    BY FS_EmptySet
  <2> QED  BY <2>1, <2>2 DEF CountsOK, Init, ServerAssumption
<1>5. WorkOK
  BY DEF Init, WorkOK, AckedIsKept, ServerAssumption
<1> QED  BY <1>1, <1>2, <1>3, <1>4, <1>5 DEF IInv

-----------------------------------------------------------------------------
\* A handler with a request of kind k is one of those counted.
LEMMA Counted ==
  ASSUME NEW k, NEW t \in Serving(k)
  PROVE  Cardinality(Serving(k)) >= 1
<1>1. Cardinality(Serving(k)) # 0
  BY FS_EmptySet, Finite
<1> QED  BY <1>1, Finite

\* What a request under way uses up is left.
LEMMA Affords ==
  ASSUME IInv, NEW t \in Threads, pc[t] \in {"guarded", "running"}
  PROVE  /\ req[t].kind \in {"exec", "sexec"} => stmts + 1 \in 0..MaxStmts /\ stmts + 1 \in Stmts
         /\ req[t].kind = "begin" => issued + 1 \in 0..MaxSessions /\ issued + 1 \in SessionIds
<1>1. t \in Serving(req[t].kind)
  BY DEF Serving
<1>2. Cardinality(Serving(req[t].kind)) >= 1
  BY <1>1, Counted
<1>3. stmts \in Nat /\ issued \in Nat /\ MaxStmts \in Nat /\ MaxSessions \in Nat
  BY DEF IInv, TypeOK, ServerAssumption
<1>4. ASSUME req[t].kind \in {"exec", "sexec"} PROVE stmts + 1 <= MaxStmts
  BY <1>2, <1>3, <1>4, Finite DEF IInv, CountsOK
<1>5. ASSUME req[t].kind = "begin" PROVE issued + 1 <= MaxSessions
  BY <1>2, <1>3, <1>5, Finite DEF IInv, CountsOK
<1> QED  BY <1>3, <1>4, <1>5 DEF Stmts, SessionIds

\* What /tx/begin puts in the SessionStore.
NewSession(t) == [id |-> issued + 1, ino |-> dir[req[t].arg], name |-> req[t].arg,
                  pending |-> {}, done |-> {}, expired |-> FALSE]

\* A session that /tx/begin opens is one, on the file of the request's name.
LEMMA Opened ==
  ASSUME IInv, NEW t \in Threads, TxBegin(t), ~Rejected(t)
  PROVE  /\ Live = None /\ dir[req[t].arg] \in Inodes \ Held
         /\ session' = NewSession(t) /\ session' \in Sessions
         /\ issued' = issued + 1 /\ issued' \in 0..MaxSessions
         /\ locked' = Held \cup {dir[req[t].arg]} /\ refused' = Collected
         /\ Leave(t) /\ UNCHANGED <<dir, content, acked, ino, stmts>>
<1>1. req[t].arg \in Names
  BY DEF IInv, HandlersOK, TxBegin, Handling, Requests, ByName, BySession
<1>2. dir[req[t].arg] \in Inodes \ Held
  BY <1>1 DEF IInv, TypeOK, TxBegin, CanOpen
<1>3. issued + 1 \in 0..MaxSessions /\ issued + 1 \in SessionIds
  BY Affords DEF TxBegin, Handling
<1>4. NewSession(t) \in Sessions
  BY <1>1, <1>2, <1>3 DEF NewSession, Sessions
<1> QED  BY <1>2, <1>3, <1>4 DEF TxBegin, NewSession

\* A session that goes on is one, on the same file, and so is one that expires.
LEMMA Continued ==
  ASSUME IInv,
         Expire \/ \E t \in Threads : SessionExec(t) \/ SessionCommitScript(t) \/ SessionRollbackScript(t)
  PROVE  /\ session \in Sessions /\ session' \in Sessions
         /\ session'.ino = session.ino /\ session'.id = session.id
         /\ session'.name = session.name
<1>1. session \in Sessions
  BY DEF IInv, TypeOK, SessionExec, SessionCommitScript, SessionRollbackScript, Expire, Mine, Live
<1>a. session.pending \subseteq Rows /\ session.done \subseteq Stmts
  BY <1>1 DEF Sessions
<1>2. ASSUME NEW t \in Threads, SessionExec(t)
      PROVE  session' \in Sessions /\ session'.ino = session.ino /\ session'.id = session.id
             /\ session'.name = session.name
  <2>1. stmts + 1 \in Stmts
    BY <1>2, Affords DEF SessionExec, Handling
  <2>2. Both(stmts + 1) \subseteq Rows /\ <<stmts + 1, 1>> \in Rows
    BY <2>1 DEF Both, Rows
  <2>3. session.pending \cup Both(stmts + 1) \in SUBSET Rows /\ session.done \cup {stmts + 1} \in SUBSET Stmts
        /\ session.pending \cup {<<stmts + 1, 1>>} \in SUBSET Rows
    BY <1>a, <2>1, <2>2
  <2> HIDE DEF Rows, Stmts, Both
  <2>4. CASE session' = [session EXCEPT !.pending = @ \cup Both(stmts + 1), !.done = @ \cup {stmts + 1}]
    BY <1>1, <2>3, <2>4 DEF Sessions
  <2>5. CASE session' = session
    BY <1>1, <2>5
  <2>6. CASE session' = [session EXCEPT !.pending = @ \cup {<<stmts + 1, 1>>}]
    BY <1>1, <2>3, <2>6 DEF Sessions
  <2> QED  BY <1>2, <2>4, <2>5, <2>6 DEF SessionExec
<1>3. ASSUME NEW t \in Threads, SessionCommitScript(t) \/ SessionRollbackScript(t)
      PROVE  session' \in Sessions /\ session'.ino = session.ino /\ session'.id = session.id
             /\ session'.name = session.name
  BY <1>1, <1>3 DEF SessionCommitScript, SessionRollbackScript, Sessions
<1>4. CASE Expire
  BY <1>1, <1>4 DEF Expire, Sessions
<1> QED  BY <1>1, <1>2, <1>3, <1>4

\* The session whose id a request carries is there and has not expired.
LEMMA Owned ==
  ASSUME IInv, NEW t \in Threads, Mine(t)
  PROVE  session \in Sessions /\ session.id = req[t].arg /\ ~Idle
  BY DEF IInv, TypeOK, Mine, Live

-----------------------------------------------------------------------------
\* A request under way is counted, and a guarded or running handler's too.
LEMMA HandlersStep ==
  ASSUME IInv, [Next]_vars
  PROVE  HandlersOK'
<1> USE DEF IInv
<1>1. ASSUME NEW t \in Threads, NEW r \in Requests, Accept(t, r) PROVE HandlersOK'
  BY <1>1 DEF TypeOK, HandlersOK, Accept, data, ServerAssumption
<1>2. ASSUME NEW t \in Threads, GetOpen(t) PROVE HandlersOK'
  BY <1>2 DEF TypeOK, HandlersOK, GetOpen, Answered, CanOpen, data, ServerAssumption
<1>3. ASSUME NEW t \in Threads, GetClose(t) PROVE HandlersOK'
  BY <1>3 DEF TypeOK, HandlersOK, GetClose, Answered, data, ServerAssumption
<1>4. ASSUME NEW t \in Threads, Enter(t) PROVE HandlersOK'
  BY <1>4 DEF TypeOK, HandlersOK, Enter, Answered, data, ServerAssumption
<1>5. ASSUME NEW t \in Threads, ExecOpen(t) PROVE HandlersOK'
  BY <1>5 DEF TypeOK, HandlersOK, ExecOpen, Handling, Leave, Answered, CanOpen, data, ServerAssumption
<1>6. ASSUME NEW t \in Threads, ExecClose(t) PROVE HandlersOK'
  BY <1>6 DEF TypeOK, HandlersOK, ExecClose, Leave, Answered, ServerAssumption
<1>7. ASSUME NEW t \in Threads, pc[t] = "guarded", Leave(t), ino' = ino PROVE HandlersOK'
  BY <1>7 DEF TypeOK, HandlersOK, Leave, Answered, ServerAssumption
<1>8. ASSUME NEW t \in Threads, Finish(t) PROVE HandlersOK'
  BY <1>8 DEF TypeOK, HandlersOK, Finish, data, ServerAssumption
<1>9. ASSUME NEW t \in Threads, Panic(t) PROVE HandlersOK'
  BY <1>9 DEF TypeOK, HandlersOK, Panic, data, ServerAssumption
<1>10. CASE Restart
  BY <1>10 DEF TypeOK, HandlersOK, Restart, ServerAssumption
<1>11. CASE Expire \/ UNCHANGED vars
  BY <1>11 DEF TypeOK, HandlersOK, Expire, vars, handlers, data
<1> QED
  BY <1>1, <1>2, <1>3, <1>4, <1>5, <1>6, <1>7, <1>8, <1>9, <1>10, <1>11
  DEF Next, Handle, ExecCommit, ExecFail, CreateDb, DropDb, TxBegin, Rejected, SessionExec,
      SessionCommitScript, SessionRollbackScript, TxCommit, TxRollback, NotMine, Handling

-----------------------------------------------------------------------------
\* Nobody takes a lock that is held, and whoever lets go of a file lets go of its
\* lock.
LEMMA LocksStep ==
  ASSUME IInv, [Next]_vars
  PROVE  LocksOK'
<1> USE DEF IInv, TypeOK
<1>a. Inodes \cap {None} = {} /\ session # None => session.ino \in Inodes
  BY DEF Sessions, ServerAssumption
<1>1. ASSUME NEW t \in Threads, NEW r \in Requests, Accept(t, r) PROVE LocksOK'
  BY <1>1 DEF LocksOK, Accept
<1>2. ASSUME NEW t \in Threads, GetOpen(t) PROVE LocksOK'
  BY <1>2, <1>a DEF LocksOK, HandlersOK, GetOpen, CanOpen
<1>3. ASSUME NEW t \in Threads, GetClose(t) PROVE LocksOK'
  BY <1>3, <1>a DEF LocksOK, HandlersOK, GetClose
<1>4. ASSUME NEW t \in Threads, Enter(t) PROVE LocksOK'
  BY <1>4 DEF LocksOK, Enter
<1>5. ASSUME NEW t \in Threads, ExecOpen(t) PROVE LocksOK'
  BY <1>5, <1>a DEF LocksOK, HandlersOK, ExecOpen, Handling, CanOpen
<1>6. ASSUME NEW t \in Threads, ExecClose(t) PROVE LocksOK'
  BY <1>6, <1>a DEF LocksOK, HandlersOK, ExecClose
<1>7. ASSUME NEW t \in Threads, CreateDb(t) \/ DropDb(t) \/ Finish(t) PROVE LocksOK'
  BY <1>7 DEF LocksOK, CreateDb, DropDb, Finish
<1>8. ASSUME NEW t \in Threads, Rejected(t) PROVE LocksOK'
  BY <1>8, <1>a DEF LocksOK, Rejected, Live, Held, Idle
<1>9. ASSUME NEW t \in Threads, TxBegin(t) PROVE LocksOK'
  <2>1. CASE Rejected(t)
    BY <2>1, <1>8
  <2>2. CASE ~Rejected(t)
    BY <1>9, <2>2, <1>a, Opened DEF LocksOK, Live, Held, Idle, NewSession, ServerAssumption
  <2> QED  BY <2>1, <2>2
<1>10. ASSUME NEW t \in Threads, SessionExec(t) \/ SessionCommitScript(t) \/ SessionRollbackScript(t)
       PROVE  LocksOK'
  <2>1. session # None /\ session' # None /\ session'.ino = session.ino
    BY <1>10, Continued DEF ServerAssumption
  <2> QED  BY <1>10, <2>1 DEF LocksOK, SessionExec, SessionCommitScript, SessionRollbackScript
<1>11. ASSUME NEW t \in Threads, TxCommit(t) \/ TxRollback(t) PROVE LocksOK'
  BY <1>11, <1>a DEF LocksOK, TxCommit, TxRollback, Mine, Live
<1>12. CASE Expire
  <2>1. session # None /\ session' # None /\ session'.ino = session.ino
    BY <1>12, Continued DEF ServerAssumption
  <2> QED  BY <1>12, <2>1 DEF LocksOK, Expire, handlers
<1>13. ASSUME NEW t \in Threads, Panic(t) PROVE LocksOK'
  BY <1>13, <1>a DEF LocksOK, Panic
<1>14. CASE Restart
  BY <1>14, <1>a DEF LocksOK, Restart
<1>15. CASE UNCHANGED vars
  BY <1>15 DEF LocksOK, vars, handlers, data
<1> QED
  BY <1>1, <1>2, <1>3, <1>4, <1>5, <1>6, <1>7, <1>8, <1>9, <1>10, <1>11, <1>12, <1>13, <1>14, <1>15
  DEF Next, Handle, ExecCommit, ExecFail, NotMine

-----------------------------------------------------------------------------
\* What a handler does to the counts: an answer takes it off what is under way, a
\* step that goes on leaves it there.
LEMMA AnswerCounts ==
  ASSUME IInv, NEW t \in Threads, pc' = [pc EXCEPT ![t] = "answered"], req' = req
  PROVE  Busy' \subseteq Busy \cup {t} /\ \A k : Serving(k)' = Serving(k) \ {t}
  BY DEF IInv, TypeOK, Busy, Serving

\* Fewer handlers under way, and nothing used, keep the counts.
LEMMA FewerCount ==
  ASSUME IInv, Busy' \subseteq Busy, \A k : Serving(k)' \subseteq Serving(k),
         active' = active, stmts' = stmts, issued' = issued
  PROVE  CountsOK'
<1>1. Cardinality(Busy') <= Cardinality(Busy) /\ Cardinality(Busy') \in Nat
  BY Finite, FS_Subset, FS_CardinalityType
<1>2. \A k : Cardinality(Serving(k)') <= Cardinality(Serving(k)) /\ Cardinality(Serving(k)') \in Nat
  BY Finite, FS_Subset, FS_CardinalityType
<1>3. /\ active \in Nat /\ stmts \in Nat /\ issued \in Nat
      /\ MaxStmts \in Nat /\ MaxSessions \in Nat
  BY DEF IInv, TypeOK, ServerAssumption
<1>4. Cardinality(Busy') <= active
  BY <1>1, <1>3, Finite DEF IInv, CountsOK
<1>5. stmts + Cardinality(Serving("exec")') + Cardinality(Serving("sexec")') <= MaxStmts
  BY <1>2, <1>3, Finite DEF IInv, CountsOK
<1>6. issued + Cardinality(Serving("begin")') <= MaxSessions
  BY <1>2, <1>3, Finite DEF IInv, CountsOK
<1> QED  BY <1>4, <1>5, <1>6 DEF CountsOK

\* A handler that answers a request of kind k makes room for what it has used.
LEMMA AnswerFrees ==
  ASSUME IInv, NEW t \in Threads, pc' = [pc EXCEPT ![t] = "answered"], req' = req,
         pc[t] \in {"guarded", "running"}, active' = active,
         \/ req[t].kind \in {"exec", "sexec"} /\ stmts' = stmts + 1 /\ issued' = issued
         \/ req[t].kind = "begin" /\ stmts' = stmts /\ issued' = issued + 1
  PROVE  CountsOK'
<1> DEFINE kind == req[t].kind
<1>1. t \in Serving(kind) /\ Busy' \subseteq Busy
  BY AnswerCounts DEF Serving, Busy
<1>2. \A k : Serving(k)' = Serving(k) \ {t}
  BY AnswerCounts
<1>3. Cardinality(Busy') <= Cardinality(Busy) /\ Cardinality(Busy') \in Nat
  BY <1>1, Finite, FS_Subset, FS_CardinalityType
<1>4. \A k : Cardinality(Serving(k)') <= Cardinality(Serving(k)) /\ Cardinality(Serving(k)') \in Nat
  BY <1>2, Finite, FS_Subset, FS_CardinalityType
<1>5. Cardinality(Serving(kind)') = Cardinality(Serving(kind)) - 1
  BY <1>1, <1>2, Finite, FS_RemoveElement
<1>6. /\ active \in Nat /\ stmts \in Nat /\ issued \in Nat
      /\ MaxStmts \in Nat /\ MaxSessions \in Nat
  BY DEF IInv, TypeOK, ServerAssumption
<1>7. Cardinality(Busy') <= active'
  BY <1>3, <1>6, Finite DEF IInv, CountsOK
<1>8. stmts' + Cardinality(Serving("exec")') + Cardinality(Serving("sexec")') <= MaxStmts
  BY <1>4, <1>5, <1>6, Finite DEF IInv, CountsOK
<1>9. issued' + Cardinality(Serving("begin")') <= MaxSessions
  BY <1>4, <1>5, <1>6, Finite DEF IInv, CountsOK
<1> QED  BY <1>7, <1>8, <1>9 DEF CountsOK

\* No connection goes uncounted, and what is under way is paid for.
LEMMA CountsStep ==
  ASSUME IInv, [Next]_vars
  PROVE  CountsOK'
<1> USE DEF IInv, TypeOK
<1>1. ASSUME NEW t \in Threads, NEW r \in Requests, Accept(t, r) PROVE CountsOK'
  <2>1. Busy' = Busy \cup {t} /\ t \notin Busy
    BY <1>1 DEF Accept, Busy
  <2>2. \A k : Serving(k)' = (IF k = r.kind THEN Serving(k) \cup {t} ELSE Serving(k)) /\ t \notin Serving(k)
    BY <1>1 DEF Accept, Serving
  <2>3. Cardinality(Busy') = Cardinality(Busy) + 1
    BY <2>1, Finite, FS_AddElement
  <2>4. \A k : Cardinality(Serving(k)')
                 = IF k = r.kind THEN Cardinality(Serving(k)) + 1 ELSE Cardinality(Serving(k))
    BY <2>2, Finite, FS_AddElement
  <2>5. /\ active' = active + 1 /\ UNCHANGED <<stmts, issued>>
        /\ r.kind \in {"exec", "sexec"} =>
             stmts + Cardinality(Serving("exec")) + Cardinality(Serving("sexec")) < MaxStmts
        /\ r.kind = "begin" => issued + Cardinality(Serving("begin")) < MaxSessions
    BY <1>1 DEF Accept, Affordable, InFlight, Serving
  <2>6. active \in Nat /\ stmts \in Nat /\ issued \in Nat /\ MaxStmts \in Nat /\ MaxSessions \in Nat
    BY DEF ServerAssumption
  <2>7. Cardinality(Busy') <= active'
    BY <2>3, <2>5, <2>6, Finite DEF CountsOK
  <2>8. stmts' + Cardinality(Serving("exec")') + Cardinality(Serving("sexec")') <= MaxStmts
    BY <2>4, <2>5, <2>6, Finite DEF CountsOK
  <2>9. issued' + Cardinality(Serving("begin")') <= MaxSessions
    BY <2>4, <2>5, <2>6, Finite DEF CountsOK
  <2> QED  BY <2>7, <2>8, <2>9 DEF CountsOK
<1>2. ASSUME NEW t \in Threads, GetOpen(t) \/ GetClose(t) \/ Enter(t) \/ ExecOpen(t) PROVE CountsOK'
  <2>1. Busy' \subseteq Busy /\ \A k : Serving(k)' \subseteq Serving(k)
    BY <1>2 DEF GetOpen, GetClose, Enter, ExecOpen, Handling, Leave, Answered, Busy, Serving
  <2> QED  BY <1>2, <2>1, FewerCount DEF GetOpen, GetClose, Enter, ExecOpen, Leave
<1>3. ASSUME NEW t \in Threads, ExecClose(t) PROVE CountsOK'
  BY <1>3, AnswerFrees DEF ExecClose, Leave, Answered, HandlersOK
<1>4. ASSUME NEW t \in Threads, pc[t] = "guarded", Leave(t), stmts' = stmts, issued' = issued
      PROVE  CountsOK'
  <2>1. Busy' \subseteq Busy \cup {t} /\ \A k : Serving(k)' = Serving(k) \ {t}
    BY <1>4, AnswerCounts DEF Leave, Answered
  <2>2. t \in Busy
    BY <1>4 DEF Busy
  <2>3. Busy' \subseteq Busy /\ \A k : Serving(k)' \subseteq Serving(k)
    BY <2>1, <2>2
  <2> QED  BY <1>4, <2>3, FewerCount DEF Leave
<1>5. ASSUME NEW t \in Threads, TxBegin(t) PROVE CountsOK'
  <2>1. CASE Rejected(t)
    BY <1>4, <1>5, <2>1 DEF TxBegin, Handling, Rejected
  <2>2. CASE ~Rejected(t)
    BY <1>5, <2>2, Opened, AnswerFrees DEF TxBegin, Handling, Leave, Answered
  <2> QED  BY <2>1, <2>2
<1>6. ASSUME NEW t \in Threads, SessionExec(t) PROVE CountsOK'
  BY <1>6, AnswerFrees DEF SessionExec, Handling, Leave, Answered
<1>7. ASSUME NEW t \in Threads, Finish(t) PROVE CountsOK'
  <2>1. Busy' = Busy \ {t} /\ t \in Busy /\ \A k : Serving(k)' = Serving(k)
    BY <1>7 DEF Finish, Busy, Serving
  <2>2. Cardinality(Busy') = Cardinality(Busy) - 1
    BY <2>1, Finite, FS_RemoveElement
  <2> QED  BY <1>7, <2>1, <2>2, Finite DEF Finish, CountsOK, ServerAssumption
<1>8. ASSUME NEW t \in Threads, Panic(t) PROVE CountsOK'
  <2>1. Busy' \subseteq Busy /\ \A k : Serving(k)' \subseteq Serving(k)
    BY <1>8 DEF Panic, Busy, Serving
  <2> QED  BY <1>8, <2>1, FewerCount DEF Panic
<1>9. CASE Restart
  <2>1. Busy' = {} /\ \A k : Serving(k)' = {}
    BY <1>9 DEF Restart, Busy, Serving
  <2>2. Cardinality(Busy') = 0 /\ \A k : Cardinality(Serving(k)') = 0
    BY <2>1, FS_EmptySet
  <2>3. /\ active' = 0 /\ stmts' = stmts /\ issued' = issued
        /\ stmts \in 0..MaxStmts /\ issued \in 0..MaxSessions
    BY <1>9 DEF Restart
  <2> HIDE DEF IInv, TypeOK
  <2> QED  BY <2>2, <2>3 DEF CountsOK, ServerAssumption
<1>10. CASE Expire \/ UNCHANGED vars
  <2>1. Busy' = Busy /\ \A k : Serving(k)' = Serving(k)
    BY <1>10 DEF Expire, vars, handlers, Busy, Serving
  <2> QED  BY <1>10, <2>1, FewerCount DEF Expire, vars, handlers
<1> QED
  BY <1>1, <1>2, <1>3, <1>4, <1>5, <1>6, <1>7, <1>8, <1>9, <1>10
  DEF Next, Handle, ExecCommit, ExecFail, CreateDb, DropDb, Rejected, SessionCommitScript,
      SessionRollbackScript, TxCommit, TxRollback, NotMine, Handling

-----------------------------------------------------------------------------
\* A counter of connections that stays within its cap goes down by connections
\* that are there.
LEMMA ActiveStep ==
  ASSUME IInv, NEW t \in Threads, Finish(t)
  PROVE  active' \in 0..MaxConnections
<1>1. Cardinality(Busy) # 0
  BY Finite, FS_EmptySet DEF Finish, Busy
<1> QED  BY <1>1, Finite DEF IInv, TypeOK, CountsOK, Finish, ServerAssumption

\* TypeOK, one group of variables after the other.
\* A handler's place, request, inode, and the count of connections.
HandlersTyped ==
  /\ writeLock \in Threads \cup {None} /\ poisoned \in BOOLEAN
  /\ pc \in [Threads -> {"idle", "start", "reading", "guarded", "running", "answered"}]
  /\ req \in [Threads -> Requests \cup {None}]
  /\ ino \in [Threads -> Inodes \cup {None}]
  /\ active \in 0..MaxConnections

\* The directory, the files and the history of the answers.
DataTyped ==
  /\ dir \in [Names -> Inodes \cup {None}]
  /\ content \in [Inodes -> SUBSET Rows]
  /\ acked \subseteq Stmts \X Names \X Inodes
  /\ refused \subseteq Stmts

\* The session, the locks and the counters.
SessionTyped ==
  /\ session \in Sessions \cup {None}
  /\ locked \subseteq Inodes
  /\ stmts \in 0..MaxStmts /\ issued \in 0..MaxSessions

\* Every step keeps the types of the handlers' variables.
LEMMA HandlerTypes ==
  ASSUME IInv, [Next]_vars
  PROVE  HandlersTyped'
<1> USE DEF IInv, TypeOK, HandlersTyped
<1>1. ASSUME NEW t \in Threads, NEW r \in Requests, Accept(t, r) PROVE HandlersTyped'
  BY <1>1 DEF Accept, ServerAssumption
<1>2. ASSUME NEW t \in Threads, GetOpen(t) \/ ExecOpen(t) PROVE HandlersTyped'
  <2>1. req[t].arg \in Names
    BY <1>2 DEF HandlersOK, GetOpen, ExecOpen, Handling, Requests, ByName, BySession
  <2> QED  BY <1>2, <2>1 DEF GetOpen, ExecOpen, Handling, Leave, Answered
<1>3. ASSUME NEW t \in Threads, GetClose(t) \/ Enter(t) \/ ExecClose(t) \/ Panic(t) PROVE HandlersTyped'
  BY <1>3 DEF GetClose, Enter, ExecClose, Panic, Leave, Answered
<1>4. ASSUME NEW t \in Threads, Leave(t), ino' = ino PROVE HandlersTyped'
  BY <1>4 DEF Leave, Answered
<1>5. ASSUME NEW t \in Threads, Finish(t) PROVE HandlersTyped'
  BY <1>5, ActiveStep DEF Finish
<1>6. CASE Restart
  <2>1. 0 \in 0..MaxConnections
    BY DEF ServerAssumption
  <2> QED  BY <1>6, <2>1 DEF Restart
<1>7. CASE Expire \/ UNCHANGED vars
  BY <1>7 DEF Expire, vars, handlers
<1> QED
  BY <1>1, <1>2, <1>3, <1>4, <1>5, <1>6, <1>7
  DEF Next, Handle, ExecCommit, ExecFail, CreateDb, DropDb, TxBegin, Rejected, SessionExec,
      SessionCommitScript, SessionRollbackScript, TxCommit, TxRollback, NotMine

\* Every step keeps the types of the files and of the history.
LEMMA DataTypes ==
  ASSUME IInv, [Next]_vars
  PROVE  DataTyped'
<1> USE DEF IInv, TypeOK, DataTyped
<1>1. ASSUME NEW t \in Threads, NEW r \in Requests, Accept(t, r) PROVE DataTyped'
  BY <1>1 DEF Accept, data
<1>2. ASSUME NEW t \in Threads, GetOpen(t) \/ GetClose(t) \/ Enter(t) \/ ExecOpen(t) \/ Finish(t) \/ Panic(t)
             \/ SessionExec(t)
      PROVE  DataTyped'
  BY <1>2 DEF GetOpen, GetClose, Enter, ExecOpen, Finish, Panic, SessionExec, data
<1>3. ASSUME NEW t \in Threads, ExecCommit(t) PROVE DataTyped'
  <2>1. stmts + 1 \in Stmts /\ req[t].arg \in Names /\ ino[t] \in Inodes
    BY <1>3, Affords DEF HandlersOK, ExecCommit, ExecClose, Requests, ByName, BySession
  <2>2. Both(stmts + 1) \subseteq Rows
    BY <2>1 DEF Both, Rows
  <2> QED  BY <1>3, <2>1, <2>2 DEF ExecCommit, ExecClose
<1>4. ASSUME NEW t \in Threads, ExecFail(t) PROVE DataTyped'
  <2>1. stmts + 1 \in Stmts
    BY <1>4, Affords DEF HandlersOK, ExecFail, ExecClose
  <2> QED  BY <1>4, <2>1 DEF ExecFail, ExecClose
<1>5. ASSUME NEW t \in Threads, CreateDb(t) \/ DropDb(t) PROVE DataTyped'
  BY <1>5 DEF CreateDb, DropDb, Fresh
<1>6. ASSUME NEW t \in Threads, Rejected(t) PROVE DataTyped'
  BY <1>6, Collection DEF Rejected
<1>7. ASSUME NEW t \in Threads, TxBegin(t) PROVE DataTyped'
  BY <1>6, <1>7, Opened, Collection
<1>8. ASSUME NEW t \in Threads, SessionCommitScript(t) \/ TxCommit(t) PROVE DataTyped'
  <2>1. session \in Sessions
    BY <1>8, Owned DEF SessionCommitScript, TxCommit
  <2>2. session.ino \in Inodes /\ session.pending \subseteq Rows /\ session.name \in Names
        /\ session.done \subseteq Stmts
    BY <2>1 DEF Sessions
  <2> QED  BY <1>8, <2>2 DEF SessionCommitScript, TxCommit, Persist
<1>9. ASSUME NEW t \in Threads, SessionRollbackScript(t) \/ TxRollback(t) PROVE DataTyped'
  <2>1. session \in Sessions
    BY <1>9, Owned DEF SessionRollbackScript, TxRollback
  <2>2. session.done \subseteq Stmts
    BY <2>1 DEF Sessions
  <2> QED  BY <1>9, <2>2 DEF SessionRollbackScript, TxRollback
<1>10. CASE Restart
  <2>1. session # None => session.done \subseteq Stmts
    BY DEF Sessions
  <2> QED  BY <1>10, <2>1 DEF Restart
<1>11. CASE Expire \/ UNCHANGED vars
  BY <1>11 DEF Expire, vars, data
<1> QED
  BY <1>1, <1>2, <1>3, <1>4, <1>5, <1>6, <1>7, <1>8, <1>9, <1>10, <1>11 DEF Next, Handle, NotMine

\* Every step keeps the types of the session, the locks and the counters.
LEMMA SessionTypes ==
  ASSUME IInv, [Next]_vars
  PROVE  SessionTyped'
<1> USE DEF IInv, TypeOK, SessionTyped
<1>1. ASSUME NEW t \in Threads, NEW r \in Requests, Accept(t, r) PROVE SessionTyped'
  BY <1>1 DEF Accept
<1>2. ASSUME NEW t \in Threads, GetOpen(t) PROVE SessionTyped'
  <2>1. req[t].arg \in Names
    BY <1>2 DEF HandlersOK, GetOpen, Requests, ByName, BySession
  <2> QED  BY <1>2, <2>1 DEF GetOpen, CanOpen
<1>3. ASSUME NEW t \in Threads, ExecOpen(t) PROVE SessionTyped'
  <2>1. req[t].arg \in Names
    BY <1>3 DEF HandlersOK, ExecOpen, Handling, Requests, ByName, BySession
  <2> QED  BY <1>3, <2>1 DEF ExecOpen, CanOpen
<1>4. ASSUME NEW t \in Threads, ExecClose(t) PROVE SessionTyped'
  BY <1>4, Affords DEF HandlersOK, ExecClose
<1>5. ASSUME NEW t \in Threads,
             GetClose(t) \/ Enter(t) \/ Finish(t) \/ Panic(t) \/ CreateDb(t) \/ DropDb(t)
      PROVE  SessionTyped'
  BY <1>5 DEF GetClose, Enter, Finish, Panic, CreateDb, DropDb
<1>6. ASSUME NEW t \in Threads, Rejected(t) PROVE SessionTyped'
  BY <1>6, Collection DEF Rejected
<1>7. ASSUME NEW t \in Threads, TxBegin(t) PROVE SessionTyped'
  BY <1>6, <1>7, Opened, Collection
<1>8. ASSUME NEW t \in Threads, SessionExec(t) PROVE SessionTyped'
  <2>1. stmts + 1 \in 0..MaxStmts
    BY <1>8, Affords DEF SessionExec, Handling
  <2> QED  BY <1>8, <2>1, Continued DEF SessionExec
<1>9. ASSUME NEW t \in Threads, SessionCommitScript(t) \/ SessionRollbackScript(t) PROVE SessionTyped'
  BY <1>9, Continued DEF SessionCommitScript, SessionRollbackScript
<1>10. ASSUME NEW t \in Threads, TxCommit(t) \/ TxRollback(t) PROVE SessionTyped'
  BY <1>10 DEF TxCommit, TxRollback
<1>11. CASE Expire
  BY <1>11, Continued DEF Expire
<1>12. CASE Restart \/ UNCHANGED vars
  BY <1>12 DEF Restart, vars
<1> QED
  BY <1>1, <1>2, <1>3, <1>4, <1>5, <1>6, <1>7, <1>8, <1>9, <1>10, <1>11, <1>12
  DEF Next, Handle, ExecCommit, ExecFail, NotMine

-----------------------------------------------------------------------------
\* The two rows of a statement are those with its number.
LEMMA RowsOfStatement ==
  /\ \A n : \A x \in Both(n) : x[1] = n
  /\ \A x \in Rows : \A n : x \in Both(n) <=> x[1] = n
  /\ \A x \in Rows : x[1] \in Stmts
  BY DEF Both, Rows

\* A statement that has not been executed is nobody's.
LEMMA NextStatement ==
  ASSUME IInv
  PROVE  /\ stmts \in Nat /\ issued \in Nat
         /\ \A n : n <= stmts => n # stmts + 1 \/ n \notin Stmts
         /\ stmts + 1 \notin refused
  BY DEF IInv, TypeOK, WorkOK, Stmts, ServerAssumption

\* What is committed was not refused and will not be, and what was acknowledged is
\* committed.
LEMMA WorkStep ==
  ASSUME IInv, [Next]_vars
  PROVE  WorkOK'
<1>a. /\ stmts \in Nat /\ issued \in Nat /\ WorkOK
      /\ content \in [Inodes -> SUBSET Rows] /\ refused \subseteq Stmts
      /\ acked \subseteq Stmts \X Names \X Inodes
      /\ Stmts \subseteq Nat
      /\ session # None => session \in Sessions
  BY DEF IInv, TypeOK, Stmts
<1>b. session # None => /\ session.ino \in Inodes /\ session.pending \subseteq Rows
                        /\ session.done \subseteq Stmts
  BY <1>a DEF Sessions
<1>c. \A x \in Rows : x[1] \in Nat
  BY <1>a, RowsOfStatement
<1>1. ASSUME UNCHANGED <<content, acked, refused, session, stmts, issued>> PROVE WorkOK'
  BY <1>1, <1>a DEF WorkOK, AckedIsKept
<1>2. ASSUME NEW t \in Threads, ExecCommit(t) PROVE WorkOK'
  <2> DEFINE new == Both(stmts + 1)
  <2>1. ino[t] \in Inodes /\ \A x \in new : x[1] = stmts + 1
    BY <1>2, RowsOfStatement DEF IInv, TypeOK, HandlersOK, ExecCommit, ExecClose
  <2>2. /\ content' = [content EXCEPT ![ino[t]] = @ \cup new]
        /\ acked' = acked \cup {<<stmts + 1, req[t].arg, ino[t]>>}
        /\ stmts' = stmts + 1 /\ UNCHANGED <<refused, session, issued>>
    BY <1>2 DEF ExecCommit, ExecClose
  <2> HIDE DEF new
  <2>3. \A i \in Inodes : \A x \in content'[i] : x \in content[i] \/ x[1] = stmts + 1
    BY <1>a, <2>1, <2>2
  <2>4. \A n \in refused : n # stmts + 1
    BY <1>a, NextStatement
  <2>5. session # None => stmts + 1 \notin session.done
    BY <1>a, <1>b DEF WorkOK
  <2>6. AckedIsKept'
    BY <1>a, <2>1, <2>2 DEF WorkOK, AckedIsKept, new
  <2>7. \A i \in Inodes : \A x \in content'[i] : x[1] <= stmts' /\ x[1] \notin refused'
    BY <1>a, <1>c, <2>2, <2>3, <2>4 DEF WorkOK
  <2>8. \A n \in refused' : n <= stmts'
    BY <1>a, <2>2 DEF WorkOK
  <2>9. ASSUME session # None
        PROVE  /\ session.id <= issued
               /\ \A x \in session.pending : x[1] <= stmts + 1 /\ x[1] \notin refused
               /\ \A n \in session.done : n <= stmts + 1 /\ Both(n) \subseteq session.pending
               /\ \A i \in Inodes : \A x \in content'[i] : x[1] \notin session.done
    <3>1. \A x \in session.pending : x[1] <= stmts + 1 /\ x[1] \notin refused
      BY <1>a, <1>b, <1>c, <2>9 DEF WorkOK
    <3>2. \A n \in session.done : n <= stmts + 1 /\ Both(n) \subseteq session.pending
      BY <1>a, <1>b, <2>9 DEF WorkOK
    <3>3. \A i \in Inodes : \A x \in content'[i] : x[1] \notin session.done
      BY <1>a, <2>3, <2>5, <2>9 DEF WorkOK
    <3> QED  BY <1>a, <2>9, <3>1, <3>2, <3>3 DEF WorkOK
  <2> QED  BY <2>2, <2>6, <2>7, <2>8, <2>9 DEF WorkOK
<1>3. ASSUME NEW t \in Threads, ExecFail(t) PROVE WorkOK'
  <2>1. /\ refused' = refused \cup {stmts + 1} /\ stmts' = stmts + 1
        /\ UNCHANGED <<content, acked, session, issued>>
    BY <1>3 DEF ExecFail, ExecClose
  <2> QED  BY <1>a, <1>b, <1>c, <2>1 DEF WorkOK, AckedIsKept
<1>4. ASSUME NEW t \in Threads, DropDb(t) PROVE WorkOK'
  BY <1>4, <1>a DEF DropDb, WorkOK, AckedIsKept
\* The session and what it had done go, to refused if they were there.
<1>5. ASSUME session' = None, UNCHANGED <<content, acked, stmts, issued>>,
             refused' = refused \/ (session # None /\ refused' = refused \cup session.done)
      PROVE  WorkOK'
  BY <1>5, <1>a, <1>b DEF WorkOK, AckedIsKept
<1>6. ASSUME NEW t \in Threads, Rejected(t) PROVE WorkOK'
  BY <1>1, <1>5, <1>6 DEF Rejected, Live, Collected, Idle
<1>7. ASSUME NEW t \in Threads, TxBegin(t), ~Rejected(t) PROVE WorkOK'
  <2>1. /\ Live = None /\ session' = NewSession(t) /\ session' # None
        /\ refused' = Collected /\ issued' = issued + 1 /\ UNCHANGED <<content, acked, stmts>>
    BY <1>7, Opened DEF ServerAssumption
  <2>2. Idle => session # None
    BY DEF Idle
  <2>3. refused' = refused \/ (session # None /\ refused' = refused \cup session.done)
    BY <2>1, <2>2 DEF Collected
  <2>4. session'.id = issued + 1 /\ session'.pending = {} /\ session'.done = {}
    BY <2>1 DEF NewSession
  <2>5. AckedIsKept'
    BY <1>a, <2>1 DEF WorkOK, AckedIsKept
  <2>6. /\ \A i \in Inodes : \A x \in content[i] : x[1] <= stmts /\ x[1] \notin refused'
        /\ \A n \in refused' : n <= stmts
    BY <1>a, <1>b, <2>3 DEF WorkOK
  <2> QED  BY <1>a, <2>1, <2>4, <2>5, <2>6 DEF WorkOK
<1>8. ASSUME NEW t \in Threads, SessionExec(t) PROVE WorkOK'
  <2>1. session \in Sessions /\ session # None
    BY <1>8, Owned DEF SessionExec, ServerAssumption
  <2>2. /\ session'.id = session.id /\ stmts' = stmts + 1
        /\ UNCHANGED <<content, acked, refused, issued>>
    BY <1>8, Continued DEF SessionExec, data
  <2>3. /\ \A x \in session'.pending : x \in session.pending \/ x[1] = stmts + 1
        /\ session.pending \subseteq session'.pending
        /\ \/ session'.done = session.done
           \/ session'.done = session.done \cup {stmts + 1} /\ Both(stmts + 1) \subseteq session'.pending
    <3> DEFINE whole == [session EXCEPT !.pending = @ \cup Both(stmts + 1), !.done = @ \cup {stmts + 1}]
               half  == [session EXCEPT !.pending = @ \cup {<<stmts + 1, 1>>}]
    <3>1. /\ whole.pending = session.pending \cup Both(stmts + 1) /\ whole.done = session.done \cup {stmts + 1}
          /\ half.pending = session.pending \cup {<<stmts + 1, 1>>} /\ half.done = session.done
      BY <2>1 DEF Sessions
    <3>2. session' = whole \/ session' = session \/ session' = half
      BY <1>8 DEF SessionExec
    <3> HIDE DEF whole, half
    <3>3. CASE session' = whole
      BY <3>1, <3>3, RowsOfStatement
    <3>4. CASE session' = session
      BY <3>4
    <3>5. CASE session' = half
      BY <3>1, <3>5
    <3> QED  BY <3>2, <3>3, <3>4, <3>5
  <2>4. \A n \in refused : n # stmts + 1
    BY <1>a, NextStatement
  <2> QED  BY <1>a, <1>b, <1>c, <2>1, <2>2, <2>3, <2>4 DEF WorkOK, AckedIsKept
\* What the session has pending is committed, and what it has done acknowledged.
<1>9. ASSUME session # None, Persist(session), UNCHANGED <<refused, stmts, issued>>,
             \/ session' = None
             \/ session'.id = session.id /\ session'.pending = {} /\ session'.done = {}
      PROVE  WorkOK'
  <2>1. \A i \in Inodes : \A x \in content'[i] : x \in content[i] \/ x \in session.pending
    BY <1>9, <1>a, <1>b DEF Persist
  <2>2. AckedIsKept'
    BY <1>9, <1>a, <1>b DEF Persist, WorkOK, AckedIsKept
  <2> QED  BY <1>9, <1>a, <1>b, <2>1, <2>2 DEF WorkOK
<1>10. ASSUME NEW t \in Threads, SessionCommitScript(t) \/ TxCommit(t) PROVE WorkOK'
  <2>1. session \in Sessions /\ session # None
    BY <1>10, Owned DEF SessionCommitScript, TxCommit, ServerAssumption
  <2> QED  BY <1>9, <1>10, <2>1 DEF SessionCommitScript, TxCommit, Sessions
<1>11. ASSUME NEW t \in Threads, SessionRollbackScript(t) PROVE WorkOK'
  <2>1. session \in Sessions /\ session # None
    BY <1>11, Owned DEF SessionRollbackScript, ServerAssumption
  <2>2. /\ session'.id = session.id /\ session'.pending = {} /\ session'.done = {}
        /\ refused' = refused \cup session.done /\ UNCHANGED <<content, acked, stmts, issued>>
    BY <1>11, <2>1 DEF SessionRollbackScript, Sessions
  <2> QED  BY <1>a, <1>b, <2>1, <2>2 DEF WorkOK, AckedIsKept
<1>12. ASSUME NEW t \in Threads, TxRollback(t) PROVE WorkOK'
  <2>1. session # None
    BY <1>12, Owned DEF TxRollback, ServerAssumption
  <2> QED  BY <1>5, <1>12, <2>1 DEF TxRollback
<1>13. CASE Expire
  <2>1. /\ session # None /\ session'.id = session.id
        /\ session'.pending = session.pending /\ session'.done = session.done
        /\ UNCHANGED <<content, acked, refused, stmts, issued>>
    BY <1>13, <1>a DEF Expire, Sessions, data
  <2> QED  BY <1>a, <2>1 DEF WorkOK, AckedIsKept
<1>14. CASE Restart
  <2>1. /\ session' = None /\ UNCHANGED <<content, acked, stmts, issued>>
        /\ refused' = refused \/ (session # None /\ refused' = refused \cup session.done)
    BY <1>14 DEF Restart
  <2> QED  BY <1>5, <2>1
<1>15. ASSUME NEW t \in Threads,
              GetOpen(t) \/ GetClose(t) \/ Enter(t) \/ ExecOpen(t) \/ CreateDb(t) \/ Finish(t) \/ Panic(t)
       PROVE  WorkOK'
  BY <1>1, <1>15 DEF GetOpen, GetClose, Enter, ExecOpen, CreateDb, Finish, Panic, data
<1>16. ASSUME NEW t \in Threads, NEW r \in Requests, Accept(t, r) PROVE WorkOK'
  BY <1>1, <1>16 DEF Accept, data
<1>17. CASE UNCHANGED vars
  BY <1>1, <1>17 DEF vars, data
<1> QED
  BY <1>2, <1>3, <1>4, <1>6, <1>7, <1>8, <1>10, <1>11, <1>12, <1>13, <1>14, <1>15, <1>16, <1>17
  DEF Next, Handle, NotMine

-----------------------------------------------------------------------------
\* Every step of the server, a crash and a timeout included, keeps IInv.
LEMMA Inductive == IInv /\ [Next]_vars => IInv'
<1> SUFFICES ASSUME IInv, [Next]_vars PROVE IInv'
  OBVIOUS
<1>1. TypeOK'
  BY HandlerTypes, DataTypes, SessionTypes DEF TypeOK, HandlersTyped, DataTyped, SessionTyped
<1> QED
  BY <1>1, HandlersStep, LocksStep, CountsStep, WorkStep DEF IInv

\* server.rs: in every state the server reaches, with any number of handlers, names,
\* files and sessions, IInv holds.
THEOREM Invariance == Spec => []IInv
  BY InitHolds, Inductive, PTL DEF Spec

\* Of the handlers and the session one at most has a file open.
LEMMA OnePagerHolds ==
  ASSUME IInv
  PROVE  OnePager
<1> SUFFICES ASSUME NEW i \in Inodes
             PROVE  Cardinality(Pagers(i)) <= 1 /\ (i \in locked <=> Pagers(i) # {})
  BY DEF OnePager
<1>1. i # None
  BY DEF ServerAssumption
<1>2. i \in locked <=> Pagers(i) # {}
  BY DEF IInv, LocksOK, Pagers
<1>3. CASE Pagers(i) = {}
  BY <1>2, <1>3, FS_EmptySet
<1>4. CASE Pagers(i) # {}
  <2>1. PICK x \in Pagers(i) : TRUE
    BY <1>4
  <2>2. \A y \in Pagers(i) : y = x
    BY <1>1, <2>1 DEF IInv, LocksOK, Pagers
  <2>3. Pagers(i) = {x}
    BY <2>1, <2>2
  <2>4. Cardinality({x}) = 1
    BY FS_Singleton
  <2> QED  BY <1>2, <2>3, <2>4
<1> QED  BY <1>3, <1>4

\* Server.tla, LocksAreKept: types, one Pager per file, and a lock exactly as long
\* as there is one (server.rs, every handler and its ways out).
THEOREM LocksHeld == Spec => []LocksAreKept
<1>1. IInv => LocksAreKept
  BY OnePagerHolds DEF IInv, LocksAreKept
<1> QED  BY <1>1, Invariance, PTL

\* Server.tla, AnswersStand: what was refused is in no file, what was acknowledged is
\* in the file it was made to.
THEOREM AnswersHeld == Spec => []AnswersStand
<1>1. ASSUME IInv PROVE RefusedLeavesNothing
  BY <1>1, RowsOfStatement DEF IInv, WorkOK, RefusedLeavesNothing
<1>2. IInv => AnswersStand
  BY <1>1 DEF IInv, WorkOK, AnswersStand
<1> QED  BY <1>2, Invariance, PTL

\* Server.tla, Isolated: nobody commits to a file that a GET reads, or that another
\* client's session has open.
THEOREM IsolationHolds == Spec => Isolated
<1> DEFINE Kept(i) ==
      content'[i] # content[i] =>
       /\ \A t \in Threads : pc[t] = "reading" => ino[t] # i
       /\ session # None /\ session.ino = i
            => \E t \in Threads : /\ writeLock = t
                                  /\ req[t].kind \in BySession
                                  /\ req[t].arg = session.id
<1>1. ASSUME IInv, [Next]_vars, NEW i \in Inodes PROVE Kept(i)
  <2>1. ASSUME content' = content PROVE Kept(i)
    BY <2>1
  <2>2. ASSUME NEW t \in Threads, ExecCommit(t) PROVE Kept(i)
    <3>1. /\ content'[i] # content[i] => ino[t] = i
          /\ pc[t] = "running" /\ ino[t] # None
      BY <1>1, <2>2 DEF IInv, TypeOK, HandlersOK, ExecCommit, ExecClose
    <3> QED  BY <1>1, <3>1 DEF IInv, LocksOK
  <2>3. ASSUME NEW t \in Threads, SessionCommitScript(t) \/ TxCommit(t) PROVE Kept(i)
    <3>1. session # None /\ session.id = req[t].arg
      BY <1>1, <2>3, Owned DEF SessionCommitScript, TxCommit, ServerAssumption
    <3>2. content'[i] # content[i] => session.ino = i
      BY <1>1, <2>3 DEF IInv, TypeOK, SessionCommitScript, TxCommit, Persist
    <3>3. writeLock = t /\ req[t].kind \in BySession
      BY <1>1, <2>3 DEF IInv, HandlersOK, SessionCommitScript, TxCommit, Handling, BySession
    <3> QED  BY <1>1, <3>1, <3>2, <3>3 DEF IInv, LocksOK
  <2> QED
    BY <1>1, <2>1, <2>2, <2>3
    DEF Next, Handle, Accept, GetOpen, GetClose, Enter, ExecOpen, ExecFail, CreateDb, DropDb, TxBegin,
        Rejected, SessionExec, SessionRollbackScript, TxRollback, NotMine, Finish, Expire, Panic,
        Restart, data, vars
<1>2. IInv /\ [Next]_vars => [\A i \in Inodes : Kept(i)]_vars
  BY <1>1
<1> QED  BY <1>2, Invariance, PTL DEF Spec, Isolated

\* Server.tla, EndedByOwner: a session ends by its owner's request, by its timeout
\* or with the server.
THEOREM OwnersEnd == Spec => EndedByOwner
<1> DEFINE Ended ==
      session # None /\ ~Restart /\ (session' = None \/ session'.id # session.id)
        => \/ session.expired
           \/ \E t \in Threads : /\ writeLock = t
                                 /\ req[t].kind \in {"commit", "rollback"}
                                 /\ req[t].arg = session.id
<1>1. ASSUME IInv, [Next]_vars PROVE Ended
  <2>1. ASSUME session' = session PROVE Ended
    BY <1>1, <2>1 DEF IInv, TypeOK
  <2>2. ASSUME NEW t \in Threads, Rejected(t) \/ TxBegin(t) PROVE Ended
    BY <1>1, <2>1, <2>2 DEF Rejected, TxBegin, Live, Idle
  <2>3. ASSUME Expire \/ \E t \in Threads : SessionExec(t) \/ SessionCommitScript(t) \/ SessionRollbackScript(t)
        PROVE  Ended
    BY <1>1, <2>3, Continued DEF ServerAssumption
  <2>4. ASSUME NEW t \in Threads, TxCommit(t) \/ TxRollback(t) PROVE Ended
    <3>1. session.id = req[t].arg
      BY <1>1, <2>4, Owned DEF TxCommit, TxRollback
    <3>2. writeLock = t /\ req[t].kind \in {"commit", "rollback"}
      BY <1>1, <2>4 DEF IInv, HandlersOK, TxCommit, TxRollback, Handling
    <3> QED  BY <3>1, <3>2
  <2> QED
    BY <1>1, <2>1, <2>2, <2>3, <2>4
    DEF Next, Handle, Accept, GetOpen, GetClose, Enter, ExecOpen, ExecCommit, ExecFail, ExecClose,
        CreateDb, DropDb, NotMine, Finish, Panic, vars
<1>2. IInv /\ [Next]_vars => [Ended]_vars
  BY <1>1
<1> QED  BY <1>2, Invariance, PTL DEF Spec, EndedByOwner
=============================================================================
