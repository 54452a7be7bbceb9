---------------------------- MODULE DbFileProofs ----------------------------
(***************************************************************************)
(* Proofs about DbFile for any number of paths, processes and jobs of      *)
(* supported use, with kills between any two system calls.                 *)
(***************************************************************************)
EXTENDS DbFile, TLAPS

-----------------------------------------------------------------------------
(* The inductive invariant.                                                *)

Opening == {"open", "opened", "locked", "replay", "discard", "ready"}
Working == {"tx", "apply"}
Locking == {"locked", "fill", "replay", "discard", "ready", "tx", "apply", "copy", "good"}
Reading == {"replay", "discard", "ready", "tx", "apply", "copy"}
Logging == {"replay", "discard", "tx", "apply"}
Quiet   == {"ready", "copy", "good", "made", "fill"}

\* A process does its job's steps, and it has open what they use.
ShapeOK(me) ==
  /\ me.pc = "idle" <=> me.job = None
  /\ me.pc = "idle" => me = Idle
  /\ me.pc \in {"make", "made", "fill"} => me.job.kind = "create"
  /\ me.pc \in {"unlink", "unlinkwal"} => me.job.kind = "drop"
  /\ me.pc \in Working => me.job.kind = "tx"
  /\ me.pc = "copy" => me.job.kind = "backup"
  /\ me.pc \in Opening => me.job.kind \in {"tx", "backup", "verify"}
  /\ me.db = None <=> me.pc \in {"idle", "make", "open", "unlink", "unlinkwal"}
  /\ me.copy = None <=> me.pc # "copy"
  /\ me.wal = None <=> me.pc \notin {"replay", "tx", "apply"}

\* The job is one the process was given, or the check of the copy it made.
JobOK(p) ==
  LET me == proc[p] IN
  me.job = None \/ me.job \in Jobs[p] \/ me.job.kind = "verify"

\* What is to be made is not there yet; what nobody drops stays where it was.
NamesOK(p) ==
  LET me == proc[p] IN
  /\ me.pc = "make" => dir[me.job.path] = None
  /\ me.pc \in Opening /\ me.job.kind = "backup" => dir[me.job.to] = None
  /\ me.db # None /\ me.job.path \notin UsedBy("drop") => dir[me.job.path] = me.db

\* Who works on a file has its lock; a file without a header is being made.
FileOpenOK(p) ==
  LET me == proc[p] IN
  /\ me.pc \in Locking => lock[me.db] = p
  /\ me.pc \in {"made", "fill"} => content[me.db].hdr = Absent
  /\ me.pc \in Reading => content[me.db].hdr # Absent
  /\ me.pc = "good" => \A g \in Pages : content[me.db][g] # Absent

\* What a process knows of the WAL that has its path's name.
WalKnown(p) ==
  LET me == proc[p]
      w  == walDir[me.job.path]
  IN
  /\ me.pc \in Quiet => w = None
  /\ me.pc \in Logging => w # None
  /\ me.pc \in {"discard", "tx"} => ~log[w].commit
  /\ me.pc \in {"replay", "tx", "apply"} => me.wal = w
  /\ me.pc = "apply" => log[w].pages # {}
  /\ me.pc \in {"replay", "apply"} =>
       /\ log[w].commit /\ me.num = log[w].ver /\ me.todo \subseteq log[w].pages
       /\ \A g \in log[w].pages \ me.todo : content[me.db][g] = me.num

\* The copy has the pages of the source that were copied, and no others.
CopyOK(p) ==
  LET me == proc[p] IN
  me.pc = "copy" =>
    /\ allowed[me.copy] = {content[me.db]}
    /\ \A g \in Pages : content[me.copy][g] = IF g \in me.todo THEN Absent ELSE content[me.db][g]

ProcOK(p) ==
  ShapeOK(proc[p]) /\ JobOK(p) /\ NamesOK(p) /\ FileOpenOK(p) /\ WalKnown(p) /\ CopyOK(p)

\* A file is of one path, by its name or by those who have it open.
Of(i, a) ==
  \/ dir[a] = i
  \/ \E p \in Procs : proc[p].db = i /\ proc[p].job.path = a
  \/ \E p \in Procs : proc[p].copy = i /\ proc[p].job.to = a

OfOnePath == \A i \in Inodes : \A a, b \in Paths : Of(i, a) /\ Of(i, b) => a = b

\* Nobody else has the copy open as one.
OneCopyist == \A p, q \in Procs : proc[p].copy # None /\ proc[p].copy = proc[q].copy => p = q

\* Only databases in use have a WAL, each its own, and a header to go with it.
WalsOK ==
  /\ \A a \in Paths : walDir[a] # None => a \in UsedBy("tx") /\ dir[a] # None /\ content[dir[a]].hdr # Absent
  /\ \A a, b \in Paths : walDir[a] # None /\ walDir[a] = walDir[b] => a = b

\* What a recovery would make of file i of path a.
Redone(i, a) ==
  [g \in Pages |-> IF walDir[a] # None /\ log[walDir[a]].commit /\ g \in log[walDir[a]].pages
                   THEN log[walDir[a]].ver ELSE content[i][g]]

AllThere(i) == \A g \in Pages : content[i][g] # Absent

\* A file that has all its pages is, once recovered, what its clients may see;
\* and only a copy can lack some of them.
FileOK(i, a) ==
  Of(i, a) =>
    /\ a \notin CopiedTo /\ content[i].hdr # Absent => AllThere(i)
    /\ AllThere(i) => Redone(i, a) \in allowed[i]

IInv ==
  /\ TypeOK
  /\ \A p \in Procs : ProcOK(p)
  /\ OfOnePath /\ OneCopyist /\ WalsOK
  /\ \A i \in Inodes : \A a \in Paths : FileOK(i, a)

-----------------------------------------------------------------------------
(* What a step of process p may do to the others.                          *)

OthersStay(p) ==
  \A q \in Procs \ {p} : proc'[q] = proc[q] /\ \A i \in Inodes : lock[i] = q => lock'[i] = q

DirEffect(p) ==
  \A a \in Paths : \/ dir'[a] = dir[a]
                   \/ dir'[a] = None /\ a \in UsedBy("drop")
                   \/ dir[a] = None /\ dir'[a] \in FreshInodes /\ MakesIn(p, a)

\* A file's pages change when it is new, when p makes it, when p writes to the
\* database it has locked, and when p copies a page that was not there.
ContentEffect(p) ==
  LET me == proc[p] IN
  \A i \in Inodes :
    \/ content'[i] = content[i] /\ allowed'[i] = allowed[i]
    \/ i \in FreshInodes
    \/ i = me.db /\ me.pc = "fill"
    \/ /\ i = me.db /\ me.pc \in Reading /\ me.job.path \in UsedBy("tx")
       /\ content'[i].hdr # Absent
    \/ /\ i = me.copy /\ allowed'[i] = allowed[i]
       /\ \E g \in Pages : content[i][g] = Absent /\ content'[i] = [content[i] EXCEPT ![g] = content[me.db][g]]
                           /\ content[me.db][g] # Absent

\* The WAL of another path stays; a WAL that gets a name is new.
WalEffect(p) ==
  LET me == proc[p] IN
  \A a \in Paths :
    \/ walDir'[a] = walDir[a] /\ (walDir[a] # None => log'[walDir[a]] = log[walDir[a]])
    \/ /\ a = me.job.path /\ a \in UsedBy("tx") /\ dir[a] = me.db /\ me.pc \in Reading
       /\ walDir'[a] \in {None, walDir[a]} \cup FreshWals
       /\ content'[me.db].hdr # Absent

\* At most one file gets a path it did not have, and it is a new file.
NameEffect(p) ==
  /\ \E j \in Inodes : \E b \in Paths : j \in FreshInodes /\
       \A i \in Inodes : \A a \in Paths : Of(i, a)' => Of(i, a) \/ (i = j /\ a = b)
  /\ proc'[p].copy \in {None, proc[p].copy} \cup FreshInodes

NoNewName(p) ==
  /\ \A i \in Inodes : \A a \in Paths : Of(i, a)' => Of(i, a)
  /\ proc'[p].copy \in {None, proc[p].copy}

Effects(p) ==
  OthersStay(p) /\ DirEffect(p) /\ ContentEffect(p) /\ WalEffect(p) /\ (NameEffect(p) \/ NoNewName(p))

-----------------------------------------------------------------------------
(* Facts about a process.                                                  *)

\* The fields of a process, by their types.
LEMMA Typed ==
  ASSUME TypeOK, NEW p \in Procs
  PROVE  LET me == proc[p] IN
         /\ me \in ProcType
         /\ me.job \in JobType \cup {None} /\ me.db \in Inodes \cup {None} /\ me.copy \in Inodes \cup {None}
         /\ me.wal \in Wals \cup {None} /\ me.todo \in SUBSET Pages /\ me.num \in 0..MaxVer
         /\ me = [pc |-> me.pc, job |-> me.job, db |-> me.db, copy |-> me.copy, wal |-> me.wal,
                  todo |-> me.todo, num |-> me.num]
<1>1. proc[p] \in ProcType  BY DEF TypeOK
<1> QED  BY <1>1 DEF ProcType

\* A job's path and destination are paths.
LEMMA JobTyped ==
  ASSUME NEW j \in JobType
  PROVE  j.path \in Paths /\ j.to \in Paths /\ j # None
BY DbFileAssumption DEF JobType

\* Only the process that takes a step moves.
LEMMA Moves ==
  ASSUME TypeOK, NEW p \in Procs, NEW me, Becomes(p, me)
  PROVE  /\ proc'[p] = me
         /\ \A q \in Procs \ {p} : proc'[q] = proc[q]
         /\ me \in ProcType => proc' \in [Procs -> ProcType]
BY DEF TypeOK, Becomes

\* A process is a record.
Record(m) ==
  m = [pc |-> m.pc, job |-> m.job, db |-> m.db, copy |-> m.copy, wal |-> m.wal, todo |-> m.todo, num |-> m.num]

\* What a busy process's job makes of its paths.
LEMMA JobUses ==
  ASSUME TypeOK, NEW p \in Procs, ShapeOK(proc[p]), JobOK(p), proc[p].pc # "idle"
  PROVE  LET j == proc[p].job IN
         /\ j \in JobType /\ j.path \in Paths /\ j.to \in Paths
         /\ j.kind \in {"tx", "backup", "drop"} => j.path \in UsedBy(j.kind)
         /\ j.kind = "create" => MakesIn(p, j.path)
         /\ j.kind = "backup" => MakesIn(p, j.to) /\ j.to \in CopiedTo
<1> DEFINE j == proc[p].job
<1>1. j \in JobType  BY Typed DEF ShapeOK
<1>2. j.path \in Paths /\ j.to \in Paths /\ j # None  BY <1>1, JobTyped
<1>3. j.kind # "verify" => j \in Jobs[p]  BY <1>2 DEF JobOK
<1> QED  BY <1>1, <1>2, <1>3 DEF UsedBy, MakesIn, CopiedTo

-----------------------------------------------------------------------------
(* What a step of p leaves of the invariant, beside p and its files.       *)

\* The others stay where they were, and what they know stays true.
LEMMA OthersOK ==
  ASSUME IInv, Supported, NEW p \in Procs, Effects(p), NEW q \in Procs \ {p}
  PROVE  ProcOK(q)'
<1> DEFINE me == proc[q]
           it == proc[p]
<1>0. /\ TypeOK /\ OfOnePath /\ OneCopyist /\ WalsOK
      /\ ShapeOK(me) /\ JobOK(q) /\ NamesOK(q) /\ FileOpenOK(q) /\ WalKnown(q) /\ CopyOK(q)
      /\ ShapeOK(it) /\ JobOK(p) /\ NamesOK(p) /\ FileOpenOK(p)
  BY DEF IInv, ProcOK
<1>1. proc'[q] = proc[q] /\ \A i \in Inodes : lock[i] = q => lock'[i] = q  BY DEF Effects, OthersStay
<1>2. ShapeOK(proc[q])'  BY <1>0, <1>1 DEF ShapeOK
<1>3. JobOK(q)'  BY <1>0, <1>1 DEF JobOK
<1>4. CASE me.pc = "idle"
  <2>1. me = Idle  BY <1>0, <1>4 DEF ShapeOK
  <2> QED
    BY <1>1, <1>2, <1>3, <2>1 DEF ProcOK, NamesOK, FileOpenOK, WalKnown, CopyOK, Idle, Opening, Locking, Reading, Quiet, Logging
<1>5. CASE me.pc # "idle"
  <2>1. /\ me.job.path \in Paths /\ me.job.to \in Paths
        /\ me.job.kind \in {"tx", "backup", "drop"} => me.job.path \in UsedBy(me.job.kind)
        /\ me.job.kind = "create" => MakesIn(q, me.job.path)
        /\ me.job.kind = "backup" => MakesIn(q, me.job.to) /\ me.job.to \in CopiedTo
    BY <1>0, <1>5, JobUses
  <2>2. it.pc # "idle" =>
          /\ it.job.path \in Paths /\ it.job.to \in Paths
          /\ it.job.kind = "create" => MakesIn(p, it.job.path)
          /\ it.job.kind = "backup" => MakesIn(p, it.job.to) /\ it.job.to \in CopiedTo
    BY <1>0, JobUses
  <2>3. \A a \in Paths : ~(MakesIn(p, a) /\ MakesIn(q, a))  BY DEF Supported
  <2>4. \A a \in UsedBy("tx") : a \notin UsedBy("drop") /\ a \notin CopiedTo  BY DEF Supported
  <2>5. \A a \in UsedBy("backup") : a \notin CopiedTo  BY DEF Supported
  <2>6. me.db \in Inodes \cup {None} /\ me.copy \in Inodes \cup {None}  BY <1>0, Typed
  <2>7. /\ it.pc \in Reading \cup {"fill"} => it.db # None /\ lock[it.db] = p
        /\ it.copy # None => it.pc = "copy" /\ it.job.kind = "backup"
        /\ it.pc = "fill" => it.job.kind = "create"
    BY <1>0 DEF ShapeOK, FileOpenOK, Reading, Locking
  <2>8. NamesOK(q)'
    <3>1. DirEffect(p)  BY DEF Effects
    <3>2. me.pc = "make" => MakesIn(q, me.job.path)  BY <1>0, <2>1 DEF ShapeOK
    <3>3. me.pc = "make" => dir'[me.job.path] = None
      BY <1>0, <2>1, <2>3, <3>1, <3>2 DEF DirEffect, NamesOK
    <3>4. me.pc \in Opening /\ me.job.kind = "backup" => dir'[me.job.to] = None
      BY <1>0, <2>1, <2>3, <3>1 DEF DirEffect, NamesOK
    <3>5. me.db # None /\ me.job.path \notin UsedBy("drop") => dir'[me.job.path] = me.db
      BY <1>0, <2>1, <3>1 DEF DirEffect, NamesOK
    <3> QED  BY <1>1, <3>3, <3>4, <3>5 DEF NamesOK
  <2>9. me.pc \in Locking => me.db \in Inodes /\ lock[me.db] = q
    BY <1>0, <2>6 DEF ShapeOK, FileOpenOK, Locking
  <2>10. me.db # None /\ it.db = me.db => it.job.path = me.job.path
    <3> HAVE me.db # None /\ it.db = me.db
    <3>1. Of(me.db, me.job.path) /\ Of(me.db, it.job.path)  BY DEF Of
    <3>2. it.pc # "idle"  BY <1>0 DEF ShapeOK
    <3> QED  BY <1>0, <2>1, <2>2, <2>6, <3>1, <3>2 DEF OfOnePath
  <2>11. me.db # None /\ it.copy = me.db => it.job.to = me.job.path
    <3> HAVE me.db # None /\ it.copy = me.db
    <3>1. Of(me.db, me.job.path) /\ Of(me.db, it.job.to)  BY DEF Of
    <3>2. it.pc # "idle"  BY <2>7
    <3> QED  BY <1>0, <2>1, <2>2, <2>6, <3>1, <3>2 DEF OfOnePath
  <2>12. me.copy # None /\ it.db = me.copy => it.job.path = me.job.to
    <3> HAVE me.copy # None /\ it.db = me.copy
    <3>1. Of(me.copy, me.job.to) /\ Of(me.copy, it.job.path)  BY DEF Of
    <3>2. it.pc # "idle"  BY <1>0 DEF ShapeOK
    <3> QED  BY <1>0, <2>1, <2>2, <2>6, <3>1, <3>2 DEF OfOnePath
  <2>13. me.db \notin FreshInodes /\ me.copy \notin FreshInodes  BY DEF FreshInodes
  <2>14. me.db # None =>
           \/ content'[me.db] = content[me.db]
           \/ it.db = me.db /\ it.pc \in Reading \cup {"fill"}
           \/ /\ it.copy = me.db
              /\ \E g \in Pages : content[me.db][g] = Absent /\ content'[me.db] = [content[me.db] EXCEPT ![g] = content[it.db][g]]
                                  /\ content[it.db][g] # Absent
    BY <2>6, <2>13 DEF Effects, ContentEffect
  <2>15. me.pc \in Locking => ~(it.db = me.db /\ it.pc \in Reading \cup {"fill"})
    BY <2>7, <2>9
  <2>16. FileOpenOK(q)'
    <3>1. me.pc \in Locking => lock'[me.db] = q  BY <1>1, <2>9
    <3>2. me.pc \in {"made", "fill"} => content'[me.db].hdr = Absent
      <4> HAVE me.pc \in {"made", "fill"}
      <4>1. me.db # None /\ MakesIn(q, me.job.path) /\ content[me.db].hdr = Absent
        BY <1>0, <2>1 DEF ShapeOK, FileOpenOK
      <4>2. CASE it.db = me.db /\ it.pc \in Reading
        BY <1>0, <4>1, <4>2 DEF FileOpenOK
      <4>3. CASE it.db = me.db /\ it.pc = "fill"
        <5>1. MakesIn(p, it.job.path)  BY <2>2, <2>7, <4>3
        <5> QED  BY <2>1, <2>3, <2>10, <4>1, <4>3, <5>1
      <4>4. CASE it.copy = me.db
        <5>1. MakesIn(p, it.job.to)  BY <2>2, <2>7, <4>1, <4>4
        <5> QED  BY <2>1, <2>3, <2>11, <4>1, <4>4, <5>1
      <4> QED  BY <2>14, <4>1, <4>2, <4>3, <4>4
    <3>3. me.pc \in Reading => content'[me.db].hdr # Absent
      <4> HAVE me.pc \in Reading
      <4>1. me.db \in Inodes /\ content[me.db].hdr # Absent /\ me.pc \in Locking
        BY <1>0, <2>9 DEF FileOpenOK, Reading, Locking
      <4>2. content[me.db] \in [Pages -> 0..MaxVer \cup {Absent}]  BY <1>0, <4>1 DEF TypeOK, Contents
      <4>3. me.db # None  BY <4>1, DbFileAssumption
      <4> QED  BY <2>14, <2>15, <4>1, <4>2, <4>3 DEF Pages
    <3>4. me.pc = "good" => \A g \in Pages : content'[me.db][g] # Absent
      <4> HAVE me.pc = "good"
      <4>1. me.db \in Inodes /\ (\A g \in Pages : content[me.db][g] # Absent) /\ me.pc \in Locking
        BY <1>0, <2>9 DEF FileOpenOK, Locking
      <4>3. me.db # None  BY <4>1, DbFileAssumption
      <4> QED  BY <2>14, <2>15, <4>1, <4>3
    <3> QED  BY <1>1, <3>1, <3>2, <3>3, <3>4 DEF FileOpenOK
  <2>17. WalKnown(q)'
    <3>1. CASE me.pc \notin Quiet \cup Logging
      BY <1>1, <3>1 DEF WalKnown, Quiet, Logging
    <3>2. CASE me.pc \in Quiet \cup Logging
      <4>1. me.db # None  BY <1>0, <3>2 DEF ShapeOK, Quiet, Logging
      <4>2. ~(/\ me.job.path = it.job.path /\ me.job.path \in UsedBy("tx") /\ dir[me.job.path] = it.db /\ it.pc \in Reading)
        <5> SUFFICES ASSUME me.job.path \in UsedBy("tx"), dir[me.job.path] = it.db, it.pc \in Reading  PROVE FALSE
          OBVIOUS
        <5>1. it.db = me.db  BY <1>0, <2>4, <4>1 DEF NamesOK
        <5>2. me.pc = "made"  BY <2>15, <3>2, <5>1 DEF Quiet, Logging, Locking
        <5> QED  BY <1>0, <5>1, <5>2 DEF FileOpenOK
      <4>3. walDir'[me.job.path] = walDir[me.job.path]
            /\ (walDir[me.job.path] # None => log'[walDir[me.job.path]] = log[walDir[me.job.path]])
        BY <2>1, <4>2 DEF Effects, WalEffect
      <4>4. me.pc \in {"replay", "apply"} => content'[me.db] = content[me.db]
        <5> HAVE me.pc \in {"replay", "apply"}
        <5>1. me.pc \in Locking /\ walDir[me.job.path] # None  BY <1>0 DEF Locking, Logging, WalKnown
        <5>2. me.job.path \in UsedBy("tx")  BY <1>0, <2>1, <5>1 DEF WalsOK
        <5>3. it.copy # me.db
          BY <2>2, <2>4, <2>7, <2>11, <4>1, <5>2
        <5> QED  BY <2>14, <2>15, <4>1, <5>1, <5>3
      <4>5. me.pc \in Logging => walDir[me.job.path] # None  BY <1>0 DEF WalKnown
      <4> QED  BY <1>0, <1>1, <3>2, <4>3, <4>4, <4>5 DEF WalKnown, Quiet, Logging
    <3> QED  BY <3>1, <3>2
  <2>18. CopyOK(q)'
    <3>1. CASE me.pc # "copy"  BY <1>1, <3>1 DEF CopyOK
    <3>2. CASE me.pc = "copy"
      <4>1. /\ me.db # None /\ me.copy # None /\ me.pc \in Locking
            /\ me.job.path \in UsedBy("backup") /\ me.job.to \in CopiedTo /\ MakesIn(q, me.job.to)
        BY <1>0, <2>1, <3>2 DEF ShapeOK, Locking
      <4>2. content'[me.db] = content[me.db]
        <5>1. it.copy # me.db
          BY <2>2, <2>5, <2>7, <2>11, <4>1
        <5> QED  BY <2>14, <2>15, <4>1, <5>1
      <4>3. content'[me.copy] = content[me.copy] /\ allowed'[me.copy] = allowed[me.copy]
        <5>1. it.copy # me.copy  BY <1>0, <4>1 DEF OneCopyist
        <5>2. ~(it.db = me.copy /\ it.pc = "fill")
          BY <2>1, <2>2, <2>3, <2>7, <2>12, <4>1
        <5>3. ~(it.db = me.copy /\ it.job.path \in UsedBy("tx"))
          BY <2>4, <2>12, <4>1
        <5>4. me.copy \in Inodes /\ me.copy \notin FreshInodes  BY <2>6, <2>13, <4>1
        <5> QED  BY <5>1, <5>2, <5>3, <5>4 DEF Effects, ContentEffect
      <4> QED  BY <1>0, <1>1, <3>2, <4>2, <4>3 DEF CopyOK
    <3> QED  BY <3>1, <3>2
  <2> QED  BY <1>2, <1>3, <2>8, <2>16, <2>17, <2>18 DEF ProcOK
<1> QED  BY <1>4, <1>5

\* Files keep to one path, copies to one process, WALs to one database.
LEMMA GlobalsOK ==
  ASSUME IInv, Supported, NEW p \in Procs, Effects(p)
  PROVE  OfOnePath' /\ OneCopyist' /\ WalsOK'
<1> DEFINE it == proc[p]
<1>0. /\ TypeOK /\ OfOnePath /\ OneCopyist /\ WalsOK
      /\ ShapeOK(it) /\ JobOK(p) /\ FileOpenOK(p)
  BY DEF IInv, ProcOK
<1>1. NameEffect(p) \/ NoNewName(p)  BY DEF Effects
<1>2. OfOnePath'
  <2>1. CASE NoNewName(p)  BY <1>0, <2>1 DEF NoNewName, OfOnePath
  <2>2. CASE NameEffect(p)
    <3>1. PICK j \in FreshInodes, b \in Paths : \A i \in Inodes : \A a \in Paths : Of(i, a)' => Of(i, a) \/ (i = j /\ a = b)
      BY <2>2 DEF NameEffect
    <3>2. \A a \in Paths : ~Of(j, a)  BY DEF FreshInodes, Of
    <3> QED  BY <1>0, <3>1, <3>2 DEF OfOnePath
  <2> QED  BY <1>1, <2>1, <2>2
<1>3. OneCopyist'
  <2>1. proc'[p].copy \in {None, proc[p].copy} \cup FreshInodes  BY <1>1 DEF NameEffect, NoNewName
  <2>2. \A q \in Procs \ {p} : proc'[q] = proc[q]  BY DEF Effects, OthersStay
  <2>3. \A q \in Procs : proc[q].copy \notin FreshInodes  BY DEF FreshInodes
  <2> QED  BY <1>0, <2>1, <2>2, <2>3 DEF OneCopyist
<1>4. WalsOK'
  <2>0. WalEffect(p) /\ DirEffect(p) /\ ContentEffect(p)  BY DEF Effects
  <2>1. \A a \in Paths : walDir'[a] # None =>
          (walDir'[a] = walDir[a] \/ (walDir'[a] \in FreshWals /\ a = it.job.path))
    BY <2>0 DEF WalEffect
  <2>2. \A a, b \in Paths : walDir'[a] # None /\ walDir'[a] = walDir'[b] => a = b
    <3>1. \A a \in Paths : walDir[a] \notin FreshWals  BY DEF FreshWals
    <3> QED  BY <1>0, <2>1, <3>1 DEF WalsOK
  <2>3. ASSUME NEW a \in Paths, walDir'[a] # None
        PROVE  a \in UsedBy("tx") /\ dir'[a] # None /\ content'[dir'[a]].hdr # Absent
    <3>1. CASE walDir'[a] = walDir[a]
      <4>1. a \in UsedBy("tx") /\ dir[a] # None /\ content[dir[a]].hdr # Absent  BY <1>0, <2>3, <3>1 DEF WalsOK
      <4>2. dir'[a] = dir[a] /\ dir[a] \in Inodes
        <5>1. a \notin UsedBy("drop")  BY <4>1 DEF Supported
        <5> QED  BY <1>0, <2>0, <4>1, <5>1 DEF DirEffect, TypeOK
      <4>3. dir[a] \notin FreshInodes  BY DEF FreshInodes
      <4>4. ~(dir[a] = it.db /\ it.pc = "fill")  BY <1>0, <4>1 DEF FileOpenOK
      <4>5. content[dir[a]] \in [Pages -> 0..MaxVer \cup {Absent}]  BY <1>0, <4>2 DEF TypeOK, Contents
      <4>6. content'[dir[a]].hdr # Absent
        BY <2>0, <4>1, <4>2, <4>3, <4>4, <4>5 DEF ContentEffect, Pages
      <4> QED  BY <4>1, <4>2, <4>6
    <3>2. CASE walDir'[a] # walDir[a]
      <4>1. /\ a = it.job.path /\ a \in UsedBy("tx") /\ dir[a] = it.db /\ it.pc \in Reading
            /\ content'[it.db].hdr # Absent
        BY <2>0, <3>2 DEF WalEffect
      <4>2. it.db # None  BY <1>0, <4>1 DEF ShapeOK, Reading
      <4>3. dir'[a] = dir[a]
        <5>1. a \notin UsedBy("drop")  BY <4>1 DEF Supported
        <5> QED  BY <1>0, <2>0, <4>1, <4>2, <5>1 DEF DirEffect, TypeOK
      <4> QED  BY <4>1, <4>2, <4>3
    <3> QED  BY <3>1, <3>2
  <2> QED  BY <2>2, <2>3 DEF WalsOK
<1> QED  BY <1>2, <1>3, <1>4

\* A file nobody touched is as good as it was.
LEMMA FileStays ==
  ASSUME IInv, NEW i \in Inodes, NEW a \in Paths, Of(i, a), content'[i] = content[i], allowed'[i] = allowed[i],
         walDir'[a] = walDir[a], walDir[a] # None => log'[walDir[a]] = log[walDir[a]]
  PROVE  FileOK(i, a)'
<1>1. FileOK(i, a)  BY DEF IInv
<1>2. Redone(i, a)' = Redone(i, a)  BY DEF Redone
<1>3. AllThere(i)' = AllThere(i)  BY DEF AllThere
<1>4. /\ a \notin CopiedTo /\ content'[i].hdr # Absent => AllThere(i)
      /\ AllThere(i) => Redone(i, a) \in allowed'[i]
  BY <1>1 DEF FileOK
<1> QED  BY <1>2, <1>3, <1>4 DEF FileOK

\* With the type and the process that moved, that is the whole invariant.
LEMMA Together ==
  ASSUME IInv, Supported, NEW p \in Procs, Effects(p), TypeOK', ProcOK(p)',
         \A i \in Inodes : \A a \in Paths : FileOK(i, a)'
  PROVE  IInv'
<1>1. \A q \in Procs : ProcOK(q)'
  <2> TAKE q \in Procs
  <2>1. CASE q = p  BY <2>1
  <2>2. CASE q # p  BY <2>2, OthersOK
  <2> QED  BY <2>1, <2>2
<1>2. OfOnePath' /\ OneCopyist' /\ WalsOK'  BY GlobalsOK
<1> QED  BY <1>1, <1>2 DEF IInv

-----------------------------------------------------------------------------
(* Steps that leave the files alone.                                       *)

\* No file gets a path that it did not have.
LEMMA NoNewOK ==
  ASSUME TypeOK, NEW p \in Procs, NEW me, Becomes(p, me), \A a \in Paths : dir'[a] \in {None, dir[a]},
         me.db # None => Of(me.db, me.job.path),
         me.copy # None => me.copy = proc[p].copy /\ me.job = proc[p].job
  PROVE  NoNewName(p)
<1>2. proc'[p] = me /\ \A q \in Procs \ {p} : proc'[q] = proc[q]  BY Moves
<1>6. \A i \in Inodes : \A a \in Paths : Of(i, a)' => Of(i, a)
  <2> SUFFICES ASSUME NEW i \in Inodes, NEW a \in Paths, Of(i, a)'  PROVE Of(i, a)
    OBVIOUS
  <2>1. i # None  BY DbFileAssumption
  <2>2. CASE dir'[a] = i  BY <2>1, <2>2 DEF Of
  <2>3. CASE \E q \in Procs : proc'[q].db = i /\ proc'[q].job.path = a
    <3>1. PICK q \in Procs : proc'[q].db = i /\ proc'[q].job.path = a  BY <2>3
    <3>2. CASE q = p  BY <1>2, <2>1, <3>1, <3>2
    <3>3. CASE q # p  BY <1>2, <3>1, <3>3 DEF Of
    <3> QED  BY <3>2, <3>3
  <2>4. CASE \E q \in Procs : proc'[q].copy = i /\ proc'[q].job.to = a
    <3>1. PICK q \in Procs : proc'[q].copy = i /\ proc'[q].job.to = a  BY <2>4
    <3>2. CASE q = p  BY <1>2, <2>1, <3>1, <3>2 DEF Of
    <3>3. CASE q # p  BY <1>2, <3>1, <3>3 DEF Of
    <3> QED  BY <3>2, <3>3
  <2> QED  BY <2>2, <2>3, <2>4 DEF Of
<1> QED  BY <1>2, <1>6 DEF NoNewName

\* Such a step touches nobody, if it opens what has its path's name.
LEMMA QuietEffects ==
  ASSUME IInv, NEW p \in Procs, NEW me \in ProcType, Becomes(p, me), UNCHANGED files,
         \A q \in Procs \ {p} : \A i \in Inodes : lock[i] = q => lock'[i] = q,
         me.db # None => Of(me.db, me.job.path),
         me.copy # None => me.copy = proc[p].copy /\ me.job = proc[p].job
  PROVE  Effects(p) /\ \A i \in Inodes : \A a \in Paths : FileOK(i, a)'
<1>1. TypeOK  BY DEF IInv
<1>2. proc'[p] = me /\ \A q \in Procs \ {p} : proc'[q] = proc[q]  BY <1>1, Moves
<1>3. UNCHANGED <<dir, walDir, content, log, allowed>>  BY DEF files
<1>4. OthersStay(p)  BY <1>2 DEF OthersStay
<1>5. DirEffect(p) /\ ContentEffect(p) /\ WalEffect(p)  BY <1>3 DEF DirEffect, ContentEffect, WalEffect
<1>7. NoNewName(p)  BY <1>1, <1>3, NoNewOK
<1>6. \A i \in Inodes : \A a \in Paths : Of(i, a)' => Of(i, a)  BY <1>7 DEF NoNewName
<1>8. ASSUME NEW i \in Inodes, NEW a \in Paths  PROVE FileOK(i, a)'
  <2>1. CASE Of(i, a)'
    <3>1. Of(i, a)  BY <1>6, <2>1
    <3> QED  BY <1>3, <3>1, FileStays
  <2>2. CASE ~Of(i, a)'  BY <2>2 DEF FileOK
  <2> QED  BY <2>1, <2>2
<1> QED  BY <1>4, <1>5, <1>7, <1>8 DEF Effects

\* Locks are taken by whoever has the file open.
LEMMA LocksTyped ==
  ASSUME TypeOK, NEW p \in Procs, NEW me \in ProcType, Becomes(p, me), UNCHANGED files,
         lock' \in [Inodes -> Procs \cup {None}],
         \A i \in Inodes : lock'[i] = lock[i] \/ lock'[i] \in {None, p},
         \A i \in Inodes : lock'[i] = p => me.db = i
  PROVE  TypeOK'
<1>1. proc'[p] = me /\ (\A q \in Procs \ {p} : proc'[q] = proc[q]) /\ proc' \in [Procs -> ProcType]  BY Moves
<1>2. \A i \in Inodes : lock'[i] # None => proc'[lock'[i]].db = i
  <2> TAKE i \in Inodes
  <2> HAVE lock'[i] # None
  <2>1. CASE lock'[i] = p  BY <1>1, <2>1
  <2>2. CASE lock'[i] # p
    <3>1. lock[i] = lock'[i] /\ lock[i] \in Procs \ {p}  BY <2>2
    <3>2. proc[lock[i]].db = i  BY <3>1, DbFileAssumption DEF TypeOK
    <3> QED  BY <1>1, <3>1, <3>2
  <2> QED  BY <2>1, <2>2
<1> QED  BY <1>1, <1>2 DEF TypeOK, files

\* A job that ends leaves nothing behind but what it wrote.
LEMMA EndJobOK ==
  ASSUME IInv, Supported, NEW p \in Procs, EndJob(p)
  PROVE  IInv'
<1>0. TypeOK  BY DEF IInv
<1>1. Idle \in ProcType  BY DbFileAssumption DEF Idle, ProcType
<1>2. Becomes(p, Idle) /\ UNCHANGED files /\ lock' = Released(p)  BY DEF EndJob
<1>3. /\ lock' \in [Inodes -> Procs \cup {None}]
      /\ \A i \in Inodes : lock'[i] = lock[i] \/ lock'[i] \in {None, p}
      /\ \A i \in Inodes : lock'[i] # p
      /\ \A q \in Procs \ {p} : \A i \in Inodes : lock[i] = q => lock'[i] = q
  BY <1>0, <1>2, DbFileAssumption DEF Released, TypeOK
<1>4. TypeOK'  BY <1>0, <1>1, <1>2, <1>3, LocksTyped
<1>5. Effects(p) /\ \A i \in Inodes : \A a \in Paths : FileOK(i, a)'
  <2>1. Idle.db = None /\ Idle.copy = None  BY DEF Idle
  <2> QED  BY <1>1, <1>2, <1>3, <2>1, QuietEffects
<1>6. proc'[p] = Idle  BY <1>0, <1>2, Moves
<1>7. ProcOK(p)'
  BY <1>6 DEF ProcOK, ShapeOK, JobOK, NamesOK, FileOpenOK, WalKnown, CopyOK, Idle, Opening, Locking, Reading, Quiet, Logging, Working
<1> QED  BY <1>4, <1>5, <1>7, Together

\* A step from one point of the program to the next.
LEMMA MoveOK ==
  ASSUME IInv, Supported, NEW p \in Procs, NEW me \in ProcType, Becomes(p, me), UNCHANGED <<files, lock>>,
         proc[p].db # None => me.db = proc[p].db,
         me.db # None => Of(me.db, me.job.path),
         me.copy # None => me.copy = proc[p].copy /\ me.job = proc[p].job,
         ProcOK(p)'
  PROVE  IInv'
<1>0. TypeOK  BY DEF IInv
<1>1. /\ lock' \in [Inodes -> Procs \cup {None}]
      /\ \A i \in Inodes : lock'[i] = lock[i] \/ lock'[i] \in {None, p}
      /\ \A q \in Procs \ {p} : \A i \in Inodes : lock[i] = q => lock'[i] = q
  BY <1>0 DEF TypeOK
<1>2. \A i \in Inodes : lock'[i] = p => me.db = i
  <2> TAKE i \in Inodes
  <2> HAVE lock'[i] = p
  <2>1. proc[p].db = i  BY <1>0, DbFileAssumption DEF TypeOK
  <2>2. i # None  BY DbFileAssumption
  <2> QED  BY <2>1, <2>2
<1>3. UNCHANGED files  OBVIOUS
<1>4. TypeOK'  BY <1>0, <1>1, <1>2, <1>3, LocksTyped
<1>5. Effects(p) /\ \A i \in Inodes : \A a \in Paths : FileOK(i, a)'  BY <1>1, <1>3, QuietEffects
<1> QED  BY <1>4, <1>5, Together

\* A job starts where its checks by name let it.
LEMMA StartOK ==
  ASSUME IInv, Supported, NEW p \in Procs, NEW j \in Jobs[p], Start(p, j)
  PROVE  IInv'
<1>0. TypeOK /\ ShapeOK(proc[p])  BY DEF IInv, ProcOK
<1>1. j \in JobType /\ ~j.force  BY DbFileAssumption DEF Supported
<1>2. j.kind \in {"create", "tx", "backup", "verify", "drop"} /\ j # None  BY <1>1, DbFileAssumption DEF JobType
<1> DEFINE c == CASE j.kind = "create" -> "make" [] j.kind = "drop" -> "unlink" [] OTHER -> "open"
           me == [Idle EXCEPT !.job = j, !.pc = c]
<1>3. Becomes(p, me) /\ UNCHANGED <<files, lock>> /\ MayStart(j) /\ proc[p].pc = "idle"
  BY DEF Start, At
<1>4. /\ c \in {"make", "unlink", "open"}
      /\ c = "make" => j.kind = "create"
      /\ c = "unlink" => j.kind = "drop"
      /\ c = "open" => j.kind \in {"tx", "backup", "verify"}
  BY <1>2
<1>5. /\ me.pc = c /\ me.job = j /\ me.db = None /\ me.copy = None /\ me.wal = None
      /\ me.todo = {} /\ me.num = 0
  BY DEF Idle
<1>a. Record(me)
  <2>1. Record(Idle)  BY DEF Idle, Record
  <2> HIDE DEF c, me
  <2>2. PICK e : e = me  OBVIOUS
  <2>3. e = [Idle EXCEPT !.job = j, !.pc = c]  BY <2>2 DEF me
  <2>4. Record(e)  BY <2>1, <2>3 DEF Record
  <2> QED  BY <2>2, <2>4
<1> HIDE DEF c
<1>6. me \in ProcType
  <2> HIDE DEF me
  <2> QED  BY <1>1, <1>4, <1>5, <1>a, DbFileAssumption DEF ProcType, Record
<1> HIDE DEF me
<1>7. proc'[p] = me /\ UNCHANGED <<dir, walDir, content, log, allowed>>  BY <1>0, <1>3, Moves DEF files
<1>8. ShapeOK(me)
  BY <1>2, <1>4, <1>5 DEF ShapeOK, Idle, Working, Opening
<1>9. ShapeOK(proc[p])'  BY <1>7, <1>8
<1>10. NamesOK(p)'
  <2>1. c = "make" => dir[j.path] = None  BY <1>1, <1>3, <1>4 DEF MayStart
  <2>2. c = "open" /\ j.kind = "backup" => dir[j.to] = None  BY <1>1, <1>3 DEF MayStart
  <2> QED  BY <1>4, <1>5, <1>7, <2>1, <2>2 DEF NamesOK, Opening
<1>11. JobOK(p)'  BY <1>5, <1>7 DEF JobOK
<1>12. FileOpenOK(p)' /\ WalKnown(p)' /\ CopyOK(p)'
  BY <1>4, <1>5, <1>7 DEF FileOpenOK, WalKnown, CopyOK, Locking, Reading, Quiet, Logging
<1>13. ProcOK(p)'  BY <1>9, <1>10, <1>11, <1>12 DEF ProcOK
<1>14. proc[p].db = None  BY <1>0, <1>3 DEF ShapeOK
<1> QED  BY <1>3, <1>5, <1>6, <1>13, <1>14, MoveOK

Points == {"idle", "make", "made", "fill", "open", "opened", "locked", "replay",
           "discard", "ready", "tx", "apply", "good", "copy", "unlink", "unlinkwal"}

\* A record with the right fields is a process.
LEMMA RecordTyped ==
  ASSUME NEW m, Record(m), m.pc \in Points, m.job \in JobType \cup {None}, m.db \in Inodes \cup {None},
         m.copy \in Inodes \cup {None}, m.wal \in Wals \cup {None}, m.todo \in SUBSET Pages, m.num \in 0..MaxVer
  PROVE  m \in ProcType
BY DEF ProcType, Record, Points

\* Going on to another point changes nothing else.
LEMMA Goes ==
  ASSUME TypeOK, NEW p \in Procs, NEW c \in Points, Goto(p, c)
  PROVE  LET me == proc'[p]
             it == proc[p]
         IN
         /\ me \in ProcType /\ Becomes(p, me)
         /\ me.pc = c /\ me.job = it.job /\ me.db = it.db /\ me.copy = it.copy /\ me.wal = it.wal
         /\ me.todo = it.todo /\ me.num = it.num
<1> DEFINE me == proc'[p]
           it == proc[p]
<1>1. Record(it) /\ it.job \in JobType \cup {None} /\ it.db \in Inodes \cup {None} /\ it.copy \in Inodes \cup {None}
      /\ it.wal \in Wals \cup {None} /\ it.todo \in SUBSET Pages /\ it.num \in 0..MaxVer
  BY Typed DEF Record
<1>2. Becomes(p, [it EXCEPT !.pc = c])  BY DEF Goto
<1>3. me = [it EXCEPT !.pc = c]  BY <1>2, Moves
<1>4. me = [pc |-> c, job |-> it.job, db |-> it.db, copy |-> it.copy, wal |-> it.wal, todo |-> it.todo, num |-> it.num]
  BY <1>1, <1>3 DEF Record
<1>5. /\ me.pc = c /\ me.job = it.job /\ me.db = it.db /\ me.copy = it.copy /\ me.wal = it.wal
      /\ me.todo = it.todo /\ me.num = it.num /\ Record(me)
  BY <1>4 DEF Record
<1>6. Becomes(p, me)  BY <1>2, <1>3
<1> HIDE DEF me, it
<1>7. me \in ProcType  BY <1>1, <1>5, RecordTyped
<1> QED  BY <1>5, <1>6, <1>7 DEF me, it

\* A lock is taken on a file that nobody has locked, or the job is over.
LEMMA TakeLockOK ==
  ASSUME IInv, Supported, NEW p \in Procs, NEW c \in {"fill", "locked"}, TakeLock(p, c),
         proc[p].pc = IF c = "fill" THEN "made" ELSE "opened"
  PROVE  IInv'
<1> DEFINE me == proc'[p]
           it == proc[p]
<1>0. TypeOK /\ ShapeOK(it) /\ JobOK(p) /\ NamesOK(p) /\ FileOpenOK(p) /\ WalKnown(p) /\ CopyOK(p)
  BY DEF IInv, ProcOK
<1>1. CASE EndJob(p)  BY <1>1, EndJobOK
<1>2. CASE ~EndJob(p)
  <2>1. /\ lock[it.db] = None /\ lock' = [lock EXCEPT ![it.db] = p] /\ Goto(p, c) /\ UNCHANGED files
    BY <1>2 DEF TakeLock
  <2>2. c \in Points  BY DEF Points
  <2>3. /\ me \in ProcType /\ Becomes(p, me)
        /\ me.pc = c /\ me.job = it.job /\ me.db = it.db /\ me.copy = it.copy /\ me.wal = it.wal
        /\ me.todo = it.todo /\ me.num = it.num
    BY <1>0, <2>1, <2>2, Goes
  <2>4. it.db \in Inodes  BY <1>0, Typed DEF ShapeOK
  <2>5. /\ lock' \in [Inodes -> Procs \cup {None}]
        /\ lock'[it.db] = p
        /\ \A i \in Inodes : lock'[i] = lock[i] \/ lock'[i] \in {None, p}
        /\ \A q \in Procs \ {p} : \A i \in Inodes : lock[i] = q => lock'[i] = q
    BY <1>0, <2>1, <2>4, DbFileAssumption DEF TypeOK
  <2>6. \A i \in Inodes : lock'[i] = p => me.db = i
    BY <1>0, <2>1, <2>3, <2>4, DbFileAssumption DEF TypeOK
  <2>7. TypeOK'  BY <1>0, <2>1, <2>3, <2>5, <2>6, LocksTyped
  <2>8. me.copy = None  BY <1>0, <2>3 DEF ShapeOK
  <2>9. Of(me.db, me.job.path)  BY <2>3 DEF Of
  <2>10. Effects(p) /\ \A i \in Inodes : \A a \in Paths : FileOK(i, a)'
    BY <2>1, <2>3, <2>5, <2>8, <2>9, QuietEffects
  <2>11. UNCHANGED <<dir, walDir, content, log, allowed>>  BY <2>1 DEF files
  <2>12. ShapeOK(me)  BY <1>0, <2>3, DbFileAssumption DEF ShapeOK, Working, Opening
  <2>13. NamesOK(p)' /\ JobOK(p)'
    BY <1>0, <2>3, <2>11 DEF ShapeOK, NamesOK, JobOK, Opening
  <2>14. FileOpenOK(p)' /\ CopyOK(p)'
    BY <1>0, <2>3, <2>5, <2>11 DEF ShapeOK, FileOpenOK, CopyOK, Reading, Locking
  <2>15. WalKnown(p)'  BY <1>0, <2>3, <2>11 DEF WalKnown, Quiet, Logging
  <2>16. ProcOK(p)'
    <3>1. ShapeOK(proc[p])'  BY <2>12
    <3> QED  BY <2>13, <2>14, <2>15, <3>1 DEF ProcOK
  <2> QED  BY <2>7, <2>10, <2>16, Together
<1> QED  BY <1>1, <1>2

\* A file is opened by its name.
LEMMA OpenFileOK ==
  ASSUME IInv, Supported, NEW p \in Procs, OpenFile(p)
  PROVE  IInv'
<1> DEFINE me == proc'[p]
           it == proc[p]
           i  == dir[it.job.path]
<1>0. TypeOK /\ ShapeOK(it) /\ JobOK(p) /\ NamesOK(p)  BY DEF IInv, ProcOK
<1>1. CASE EndJob(p)  BY <1>1, EndJobOK
<1>2. CASE ~EndJob(p)
  <2>1. it.pc = "open" /\ Becomes(p, [it EXCEPT !.pc = "opened", !.db = i]) /\ i # None /\ UNCHANGED <<files, lock>>
    BY <1>2 DEF OpenFile, At
  <2>2. it.job \in JobType /\ it.job.path \in Paths  BY <1>0, <2>1, JobUses
  <2>3. i \in Inodes  BY <1>0, <2>1, <2>2 DEF TypeOK
  <2>4. Record(it) /\ it.wal = None /\ it.copy = None /\ it.db = None /\ it.todo \in SUBSET Pages /\ it.num \in 0..MaxVer
    BY <1>0, <2>1, Typed DEF Record, ShapeOK
  <2>5. me = [it EXCEPT !.pc = "opened", !.db = i] /\ Becomes(p, me)  BY <1>0, <2>1, Moves
  <2> HIDE DEF i
  <2>6. /\ me.pc = "opened" /\ me.job = it.job /\ me.db = i /\ me.copy = None /\ me.wal = None
        /\ me.todo = it.todo /\ me.num = it.num /\ Record(me)
    BY <2>4, <2>5 DEF Record
  <2> HIDE DEF me, it
  <2>7. me \in ProcType
    <3>1. "opened" \in Points  BY DEF Points
    <3> QED  BY <2>2, <2>3, <2>4, <2>6, <3>1, RecordTyped
  <2> USE DEF me, it
  <2>8. UNCHANGED <<dir, walDir, content, log, allowed>>  BY <2>1 DEF files
  <2>9. ShapeOK(me)
    <3>1. i # None  BY <2>1 DEF i
    <3> QED  BY <1>0, <2>1, <2>6, <3>1 DEF ShapeOK, Working, Opening
  <2>10. NamesOK(p)' /\ JobOK(p)'
    <3>1. it.job.kind = "backup" => dir[it.job.to] = None  BY <1>0, <2>1 DEF NamesOK, Opening
    <3> QED  BY <1>0, <2>6, <2>8, <3>1 DEF NamesOK, JobOK, i
  <2>11. FileOpenOK(p)' /\ CopyOK(p)' /\ WalKnown(p)'
    BY <2>6, <2>8 DEF FileOpenOK, CopyOK, WalKnown, Reading, Locking, Quiet, Logging
  <2>12. ProcOK(p)'
    <3>1. ShapeOK(proc[p])'  BY <2>9
    <3> QED  BY <2>10, <2>11, <3>1 DEF ProcOK
  <2>13. Of(me.db, me.job.path)  BY <2>6 DEF Of, i
  <2> QED  BY <2>1, <2>4, <2>5, <2>6, <2>7, <2>12, <2>13, MoveOK
<1> QED  BY <1>1, <1>2

\* What is done about the WAL that has the path's name.
LEMMA RecoverOK ==
  ASSUME IInv, Supported, NEW p \in Procs, Recover(p)
  PROVE  IInv'
<1> DEFINE me == proc'[p]
           it == proc[p]
           w  == walDir[it.job.path]
<1>0. TypeOK /\ ShapeOK(it) /\ JobOK(p) /\ NamesOK(p) /\ FileOpenOK(p)  BY DEF IInv, ProcOK
<1>1. CASE EndJob(p)  BY <1>1, EndJobOK
<1>2. CASE ~EndJob(p)
  <2>1. /\ it.pc = "locked" /\ content[it.db].hdr # Absent
        /\ Becomes(p, AfterLock(p, w)) /\ UNCHANGED <<files, lock>>
    BY <1>2 DEF Recover, At
  <2>2. it.job \in JobType /\ it.job.path \in Paths  BY <1>0, <2>1, JobUses
  <2>3. w \in Wals \cup {None} /\ it.db \in Inodes  BY <1>0, <2>1, <2>2, Typed DEF TypeOK, ShapeOK
  <2>4. Record(it) /\ it.wal = None /\ it.copy = None /\ it.todo \in SUBSET Pages /\ it.num \in 0..MaxVer
    BY <1>0, <2>1, Typed DEF Record, ShapeOK
  <2>5. me = AfterLock(p, w) /\ Becomes(p, me)  BY <1>0, <2>1, Moves
  <2>6. UNCHANGED <<dir, walDir, content, log, allowed>>  BY <2>1 DEF files
  <2> HIDE DEF w
  <2>7. /\ me.job = it.job /\ me.db = it.db /\ me.copy = None /\ Record(me)
        /\ \/ /\ me.pc = "ready" /\ w = None /\ me.wal = None /\ me.todo = it.todo /\ me.num = it.num
           \/ /\ me.pc = "discard" /\ w # None /\ ~log[w].commit /\ me.wal = None /\ me.todo = it.todo /\ me.num = it.num
           \/ /\ me.pc = "replay" /\ w # None /\ log[w].commit /\ me.wal = w /\ me.todo = log[w].pages /\ me.num = log[w].ver
    <3>1. CASE w = None
      <4>1. me = [it EXCEPT !.pc = "ready"]  BY <2>5, <3>1 DEF AfterLock
      <4> QED  BY <2>4, <3>1, <4>1 DEF Record
    <3>2. CASE w # None /\ log[w].commit
      <4>1. me = [it EXCEPT !.pc = "replay", !.wal = w, !.todo = log[w].pages, !.num = log[w].ver]
        BY <2>5, <3>2 DEF AfterLock
      <4> QED  BY <2>4, <3>2, <4>1 DEF Record
    <3>3. CASE w # None /\ ~log[w].commit
      <4>1. me = [it EXCEPT !.pc = "discard"]  BY <2>5, <3>3 DEF AfterLock
      <4> QED  BY <2>4, <3>3, <4>1 DEF Record
    <3> QED  BY <3>1, <3>2, <3>3
  <2>8. w # None => log[w].pages \in SUBSET Pages /\ log[w].ver \in 0..MaxVer
    BY <1>0, <2>3 DEF TypeOK, Logs
  <2> HIDE DEF me, it
  <2>9. me \in ProcType
    <3>1. {"ready", "discard", "replay"} \subseteq Points  BY DEF Points
    <3> QED  BY <2>2, <2>3, <2>4, <2>7, <2>8, <3>1, RecordTyped
  <2>10. ShapeOK(me)  BY <1>0, <2>1, <2>3, <2>7 DEF ShapeOK, Working, Opening
  <2>11. lock[it.db] = p  BY <1>0, <2>1 DEF FileOpenOK, Locking, it
  <2>12. it.job.kind = "backup" => dir[it.job.to] = None  BY <1>0, <2>1 DEF NamesOK, Opening, it
  <2>13. it.job.path \notin UsedBy("drop") => dir[it.job.path] = it.db
    BY <1>0, <2>1, <2>3, DbFileAssumption DEF NamesOK, it
  <2>14. NamesOK(p)' /\ JobOK(p)'
    <3>1. me.job = None \/ me.job \in Jobs[p] \/ me.job.kind = "verify"  BY <1>0, <2>7 DEF JobOK, it
    <3> QED  BY <2>6, <2>7, <2>12, <2>13, <3>1 DEF NamesOK, JobOK, me
  <2>15. FileOpenOK(p)'
    BY <2>1, <2>6, <2>7, <2>11 DEF FileOpenOK, me
  <2>16. WalKnown(p)'
    BY <2>6, <2>7 DEF WalKnown, Quiet, Logging, me, w
  <2>17. CopyOK(p)'  BY <2>7 DEF CopyOK, me
  <2>18. ProcOK(p)'
    <3>1. ShapeOK(proc[p])'  BY <2>10 DEF me
    <3> QED  BY <2>14, <2>15, <2>16, <2>17, <3>1 DEF ProcOK
  <2>19. Of(me.db, me.job.path)  BY <2>7 DEF Of, it
  <2>20. me.db = proc[p].db /\ me.copy = None  BY <2>7 DEF it
  <2> QED  BY <2>1, <2>5, <2>9, <2>18, <2>19, <2>20, MoveOK
<1> QED  BY <1>1, <1>2

\* A file is answered for when all its pages were read.
LEMMA CheckPagesOK ==
  ASSUME IInv, Supported, NEW p \in Procs, CheckPages(p)
  PROVE  IInv'
<1> DEFINE me == proc'[p]
           it == proc[p]
<1>0. TypeOK /\ ShapeOK(it) /\ JobOK(p) /\ NamesOK(p) /\ FileOpenOK(p) /\ WalKnown(p)  BY DEF IInv, ProcOK
<1>1. CASE EndJob(p)  BY <1>1, EndJobOK
<1>2. CASE ~EndJob(p)
  <2>1. it.pc = "ready" /\ it.job.kind = "verify" /\ AllRead(it.db) /\ Goto(p, "good") /\ UNCHANGED <<files, lock>>
    BY <1>2 DEF CheckPages, At
  <2>2. "good" \in Points  BY DEF Points
  <2>3. /\ me \in ProcType /\ Becomes(p, me)
        /\ me.pc = "good" /\ me.job = it.job /\ me.db = it.db /\ me.copy = it.copy /\ me.wal = it.wal
        /\ me.todo = it.todo /\ me.num = it.num
    BY <1>0, <2>1, <2>2, Goes
  <2>4. UNCHANGED <<dir, walDir, content, log, allowed>>  BY <2>1 DEF files
  <2>5. ShapeOK(me)  BY <1>0, <2>1, <2>3 DEF ShapeOK, Working, Opening
  <2>6. NamesOK(p)' /\ JobOK(p)'  BY <1>0, <2>1, <2>3, <2>4 DEF NamesOK, JobOK, Opening
  <2>7. FileOpenOK(p)' /\ CopyOK(p)' /\ WalKnown(p)'
    BY <1>0, <2>1, <2>3, <2>4 DEF FileOpenOK, CopyOK, WalKnown, AllRead, Reading, Locking, Quiet, Logging
  <2>8. ProcOK(p)'
    <3>1. ShapeOK(proc[p])'  BY <2>5
    <3> QED  BY <2>6, <2>7, <3>1 DEF ProcOK
  <2>9. Of(me.db, me.job.path)  BY <2>3 DEF Of
  <2>10. me.copy = None  BY <1>0, <2>1, <2>3 DEF ShapeOK
  <2> QED  BY <2>1, <2>3, <2>8, <2>9, <2>10, MoveOK
<1> QED  BY <1>1, <1>2

\* The source is closed, and the copy will be opened by its name.
LEMMA CopyDoneOK ==
  ASSUME IInv, Supported, NEW p \in Procs, CopyDone(p)
  PROVE  IInv'
<1> DEFINE me == proc'[p]
           it == proc[p]
           x  == content[it.db].hdr
           j  == [Job("verify", it.job.to) EXCEPT !.expect = x]
<1>0. TypeOK /\ ShapeOK(it) /\ JobOK(p)  BY DEF IInv, ProcOK
<1>1. it.pc = "copy" /\ lock' = Released(p) /\ Becomes(p, [Idle EXCEPT !.pc = "open", !.job = j]) /\ UNCHANGED files
  BY DEF CopyDone, At
<1>2. it.job \in JobType /\ it.job.to \in Paths  BY <1>0, <1>1, JobUses
<1>3. it.db \in Inodes  BY <1>0, <1>1, Typed DEF ShapeOK
<1>4. x \in 0..MaxVer \cup {Absent}  BY <1>0, <1>3 DEF TypeOK, Contents, Pages
<1> HIDE DEF x
<1>5. j.kind = "verify" /\ j.path = it.job.to /\ j \in JobType
  <2> HIDE DEF j
  <2>1. PICK b : b = Job("verify", it.job.to)  OBVIOUS
  <2>2. b = [kind |-> "verify", path |-> it.job.to, to |-> it.job.to, force |-> FALSE, expect |-> Absent]
    BY <2>1 DEF Job
  <2>3. j = [b EXCEPT !.expect = x]  BY <2>1 DEF j
  <2>4. j = [kind |-> b.kind, path |-> b.path, to |-> b.to, force |-> b.force, expect |-> x]
    <3>1. b = [kind |-> b.kind, path |-> b.path, to |-> b.to, force |-> b.force, expect |-> b.expect]  BY <2>2
    <3> QED  BY <2>3, <3>1
  <2>5. b.kind = "verify" /\ b.path = it.job.to /\ b.to = it.job.to /\ b.force \in BOOLEAN  BY <2>2
  <2> QED  BY <1>2, <1>4, <2>4, <2>5 DEF JobType
<1> HIDE DEF j
<1>6. me = [Idle EXCEPT !.pc = "open", !.job = j] /\ Becomes(p, me)  BY <1>0, <1>1, Moves
<1>7. Record(Idle)  BY DEF Record, Idle
<1>8. /\ me.pc = "open" /\ me.job = j /\ me.db = None /\ me.copy = None /\ me.wal = None /\ me.todo = {} /\ me.num = 0
      /\ Record(me)
  BY <1>6, <1>7 DEF Idle, Record
<1> HIDE DEF me
<1>9. me \in ProcType
  <2>1. "open" \in Points /\ 0 \in 0..MaxVer  BY DbFileAssumption DEF Points
  <2> QED  BY <1>5, <1>8, <2>1, RecordTyped
<1>10. /\ lock' \in [Inodes -> Procs \cup {None}]
       /\ \A i \in Inodes : lock'[i] = lock[i] \/ lock'[i] \in {None, p}
       /\ \A i \in Inodes : lock'[i] # p
       /\ \A q \in Procs \ {p} : \A i \in Inodes : lock[i] = q => lock'[i] = q
  BY <1>0, <1>1, DbFileAssumption DEF Released, TypeOK
<1>11. TypeOK'  BY <1>0, <1>1, <1>6, <1>9, <1>10, LocksTyped
<1>12. Effects(p) /\ \A i \in Inodes : \A a \in Paths : FileOK(i, a)'
  BY <1>1, <1>6, <1>8, <1>9, <1>10, QuietEffects
<1>13. ShapeOK(me)
  <2>1. j # None  BY <1>5, JobTyped
  <2> QED  BY <1>5, <1>8, <2>1 DEF ShapeOK, Working, Opening
<1>14. NamesOK(p)' /\ JobOK(p)' /\ FileOpenOK(p)' /\ WalKnown(p)' /\ CopyOK(p)'
  BY <1>5, <1>8 DEF NamesOK, JobOK, FileOpenOK, WalKnown, CopyOK, Opening, Locking, Reading, Quiet, Logging, me
<1>15. ProcOK(p)'
  <2>1. ShapeOK(proc[p])'  BY <1>13 DEF me
  <2> QED  BY <1>14, <2>1 DEF ProcOK
<1> QED  BY <1>11, <1>12, <1>15, Together

-----------------------------------------------------------------------------
(* Steps that change files: what they have in common.                      *)

\* Processes and locks keep their types when no lock is taken.
LEMMA SameLocks ==
  ASSUME TypeOK, NEW p \in Procs, NEW me \in ProcType, Becomes(p, me), UNCHANGED lock,
         proc[p].db # None => me.db = proc[p].db
  PROVE  /\ proc' \in [Procs -> ProcType] /\ lock' \in [Inodes -> Procs \cup {None}]
         /\ \A i \in Inodes : lock'[i] # None => proc'[lock'[i]].db = i
         /\ OthersStay(p)
<1>1. proc'[p] = me /\ (\A q \in Procs \ {p} : proc'[q] = proc[q]) /\ proc' \in [Procs -> ProcType]  BY Moves
<1>2. \A i \in Inodes : lock'[i] # None => proc'[lock'[i]].db = i
  <2> TAKE i \in Inodes
  <2> HAVE lock'[i] # None
  <2>1. lock[i] \in Procs /\ proc[lock[i]].db = i /\ i # None  BY DbFileAssumption DEF TypeOK
  <2>2. CASE lock[i] = p  BY <1>1, <2>1, <2>2
  <2>3. CASE lock[i] # p  BY <1>1, <2>1, <2>3
  <2> QED  BY <2>2, <2>3
<1> QED  BY <1>1, <1>2 DEF TypeOK, OthersStay

\* A database in use is where its name says.
LEMMA Linked ==
  ASSUME IInv, Supported, NEW a \in UsedBy("tx"), NEW i \in Inodes, Of(i, a)
  PROVE  dir[a] = i
<1>0. a \in Paths /\ a \notin UsedBy("drop") /\ a \notin CopiedTo  BY DEF Supported, UsedBy
<1>1. i # None  BY DbFileAssumption
<1>2. CASE \E q \in Procs : proc[q].db = i /\ proc[q].job.path = a
  <2>1. PICK q \in Procs : proc[q].db = i /\ proc[q].job.path = a  BY <1>2
  <2>2. NamesOK(q)  BY DEF IInv, ProcOK
  <2> QED  BY <1>0, <1>1, <2>1, <2>2 DEF NamesOK
<1>3. CASE \E q \in Procs : proc[q].copy = i /\ proc[q].job.to = a
  <2>1. PICK q \in Procs : proc[q].copy = i /\ proc[q].job.to = a  BY <1>3
  <2>2. TypeOK /\ ShapeOK(proc[q]) /\ JobOK(q)  BY DEF IInv, ProcOK
  <2>3. proc[q].pc = "copy"  BY <1>1, <2>1, <2>2 DEF ShapeOK
  <2>4. a \in CopiedTo
    <3>1. proc[q].job.kind = "backup"  BY <2>2, <2>3 DEF ShapeOK
    <3> QED  BY <2>1, <2>2, <2>3, <3>1, JobUses
  <2> QED  BY <1>0, <2>4
<1> QED  BY <1>2, <1>3 DEF Of

\* When one database changes, the other files stay as good as they were.
LEMMA OnlyThisFile ==
  ASSUME IInv, Supported, NEW p \in Procs, NEW f \in Inodes, NEW b \in Paths, Of(f, b), NoNewName(p),
         \A i \in Inodes \ {f} : content'[i] = content[i] /\ allowed'[i] = allowed[i],
         \A a \in Paths : \/ walDir'[a] = walDir[a] /\ (walDir[a] # None => log'[walDir[a]] = log[walDir[a]])
                          \/ a = b /\ a \in UsedBy("tx") /\ dir[a] = f,
         FileOK(f, b)'
  PROVE  \A i \in Inodes : \A a \in Paths : FileOK(i, a)'
<1> SUFFICES ASSUME NEW i \in Inodes, NEW a \in Paths, Of(i, a)'  PROVE FileOK(i, a)'
  BY DEF FileOK
<1>1. Of(i, a)  BY DEF NoNewName
<1>3. CASE i = f
  <2>1. a = b  BY <1>1, <1>3 DEF IInv, OfOnePath
  <2> QED  BY <1>3, <2>1
<1>4. CASE i # f
  <2>1. ~(a = b /\ a \in UsedBy("tx") /\ dir[a] = f)
    BY <1>1, <1>4, Linked
  <2> QED  BY <1>1, <1>4, <2>1, FileStays
<1> QED  BY <1>3, <1>4

\* What holds of a database that a process reads and clients write to.
LEMMA InUse ==
  ASSUME IInv, Supported, NEW p \in Procs, proc[p].pc \in Reading, proc[p].pc # "copy",
         proc[p].pc \in Logging \/ proc[p].job.kind = "tx"
  PROVE  LET it == proc[p]
             f == it.db
             b == it.job.path
             w == walDir[b]
         IN
         /\ f \in Inodes /\ b \in Paths /\ b \in UsedBy("tx") /\ dir[b] = f /\ Of(f, b) /\ it.job \in JobType
         /\ b \notin CopiedTo /\ content[f].hdr # Absent /\ AllThere(f) /\ Redone(f, b) \in allowed[f]
         /\ content[f] \in [Pages -> 0..MaxVer \cup {Absent}] /\ allowed[f] \in SUBSET Contents
         /\ w \in Wals \cup {None} /\ it.copy = None /\ Record(it)
         /\ it.todo \in SUBSET Pages /\ it.num \in 0..MaxVer /\ it.wal \in Wals \cup {None}
         /\ lock[f] = p
         /\ w # None => log[w].ver \in 0..MaxVer /\ log[w].pages \in SUBSET Pages /\ log[w].commit \in BOOLEAN
<1> DEFINE it == proc[p]
           f == it.db
           b == it.job.path
           w == walDir[b]
<1>1. TypeOK /\ ShapeOK(it) /\ JobOK(p) /\ FileOpenOK(p) /\ WalKnown(p) /\ WalsOK  BY DEF IInv, ProcOK
<1>2. it.pc # "idle"  BY DEF Reading
<1>3. f \in Inodes /\ it.job \in JobType /\ b \in Paths  BY <1>1, <1>2, JobUses, Typed DEF ShapeOK, Reading
<1>4. b \in UsedBy("tx")
  <2>1. CASE it.pc \in Logging
    <3>1. w # None  BY <1>1, <2>1 DEF WalKnown
    <3> QED  BY <1>1, <1>3, <3>1 DEF WalsOK
  <2>2. CASE it.job.kind = "tx"  BY <1>1, <1>2, <2>2, JobUses
  <2> QED  BY <2>1, <2>2
<1>5. Of(f, b)  BY DEF Of
<1>6. dir[b] = f  BY <1>3, <1>4, <1>5, Linked
<1>7. b \notin CopiedTo  BY <1>4 DEF Supported
<1>8. content[f].hdr # Absent /\ lock[f] = p  BY <1>1 DEF FileOpenOK, Reading, Locking
<1>9. FileOK(f, b)  BY <1>3 DEF IInv
<1>10. AllThere(f) /\ Redone(f, b) \in allowed[f]  BY <1>5, <1>7, <1>8, <1>9 DEF FileOK
<1>11. content[f] \in [Pages -> 0..MaxVer \cup {Absent}] /\ allowed[f] \in SUBSET Contents /\ w \in Wals \cup {None}
  BY <1>1, <1>3 DEF TypeOK, Contents
<1>12. w # None => log[w].ver \in 0..MaxVer /\ log[w].pages \in SUBSET Pages /\ log[w].commit \in BOOLEAN
  BY <1>1, <1>11 DEF TypeOK, Logs
<1>13. it.copy = None /\ Record(it) /\ it.todo \in SUBSET Pages /\ it.num \in 0..MaxVer /\ it.wal \in Wals \cup {None}
  BY <1>1, Typed DEF ShapeOK, Record
<1> QED  BY <1>3, <1>4, <1>5, <1>6, <1>7, <1>8, <1>10, <1>11, <1>12, <1>13

\* A step on a database in use keeps the invariant if it keeps that database
\* whole and knows what it did.
LEMMA InUseOK ==
  ASSUME IInv, Supported, NEW p \in Procs, NEW me \in ProcType, Becomes(p, me), UNCHANGED <<dir, lock>>,
         proc[p].pc \in Reading, proc[p].pc # "copy", proc[p].pc \in Logging \/ proc[p].job.kind = "tx",
         NEW f, f = proc[p].db, NEW b, b = proc[p].job.path,
         me.db = f, me.job = proc[p].job, me.copy = None, me.pc \in {"ready", "replay", "tx", "apply"},
         ShapeOK(me), WalKnown(p)', FileOK(f, b)', content'[f].hdr # Absent,
         \A i \in Inodes \ {f} : content'[i] = content[i] /\ allowed'[i] = allowed[i],
         \A a \in Paths \ {b} : walDir'[a] = walDir[a] /\ (walDir[a] # None => log'[walDir[a]] = log[walDir[a]]),
         walDir'[b] \in {None, walDir[b]} \cup FreshWals,
         walDir' \in [Paths -> Wals \cup {None}], content' \in [Inodes -> Contents], log' \in [Wals -> Logs],
         ver' \in 0..MaxVer, allowed' \in [Inodes -> SUBSET Contents]
  PROVE  IInv'
<1>1. TypeOK /\ NamesOK(p) /\ JobOK(p) /\ ShapeOK(proc[p])  BY DEF IInv, ProcOK
<1>2. /\ f \in Inodes /\ b \in Paths /\ b \in UsedBy("tx") /\ dir[b] = f /\ Of(f, b)
      /\ lock[f] = p
  BY InUse
<1>3. proc'[p] = me  BY <1>1, Moves
<1>4. /\ proc' \in [Procs -> ProcType] /\ lock' \in [Inodes -> Procs \cup {None}]
      /\ \A i \in Inodes : lock'[i] # None => proc'[lock'[i]].db = i
      /\ OthersStay(p)
  BY <1>1, SameLocks
<1>5. TypeOK'  BY <1>1, <1>4 DEF TypeOK
<1>6. NoNewName(p)
  <2>1. Of(me.db, me.job.path)  BY <1>2
  <2> QED  BY <1>1, <2>1, NoNewOK
<1>7. DirEffect(p)  BY DEF DirEffect
<1>8. ContentEffect(p)
  <2> SUFFICES ASSUME NEW i \in Inodes
               PROVE  \/ content'[i] = content[i] /\ allowed'[i] = allowed[i]
                      \/ /\ i = proc[p].db /\ proc[p].pc \in Reading /\ proc[p].job.path \in UsedBy("tx")
                         /\ content'[i].hdr # Absent
    BY DEF ContentEffect
  <2> QED  BY <1>2
<1>9. WalEffect(p)
  <2> SUFFICES ASSUME NEW a \in Paths
               PROVE  \/ walDir'[a] = walDir[a] /\ (walDir[a] # None => log'[walDir[a]] = log[walDir[a]])
                      \/ /\ a = proc[p].job.path /\ a \in UsedBy("tx") /\ dir[a] = proc[p].db /\ proc[p].pc \in Reading
                         /\ walDir'[a] \in {None, walDir[a]} \cup FreshWals
                         /\ content'[proc[p].db].hdr # Absent
    BY DEF WalEffect
  <2> QED  BY <1>2
<1>10. Effects(p)  BY <1>4, <1>6, <1>7, <1>8, <1>9 DEF Effects
<1>11. \A i \in Inodes : \A a \in Paths : FileOK(i, a)'
  BY <1>2, <1>6, OnlyThisFile
<1>12. NamesOK(p)' /\ JobOK(p)' /\ FileOpenOK(p)' /\ CopyOK(p)'
  <2>1. JobOK(p)'  BY <1>1, <1>3 DEF JobOK
  <2>2. CopyOK(p)'  BY <1>3 DEF CopyOK
  <2>3. FileOpenOK(p)'  BY <1>2, <1>3 DEF FileOpenOK, Locking
  <2>4. NamesOK(p)'
    <3>1. proc[p].job.kind = "backup" => proc[p].pc \in Opening
      BY <1>1 DEF ShapeOK, Reading, Opening, Working
    <3>2. proc[p].job.kind = "backup" => dir[proc[p].job.to] = None  BY <1>1, <3>1 DEF NamesOK
    <3> QED  BY <1>2, <1>3, <3>2 DEF NamesOK
  <2> QED  BY <2>1, <2>2, <2>3, <2>4
<1>13. ProcOK(p)'
  <2>1. ShapeOK(proc[p])'  BY <1>3
  <2> QED  BY <1>12, <2>1 DEF ProcOK
<1> QED  BY <1>5, <1>10, <1>11, <1>13, Together

-----------------------------------------------------------------------------
(* Steps on a database in use.                                             *)

\* The file is whole if what a recovery would make of it was allowed.
LEMMA WholeNext ==
  ASSUME NEW f, NEW b, AllThere(f)', Redone(f, b)' \in allowed'[f]
  PROVE  FileOK(f, b)'
BY DEF FileOK

\* A page of a logged commit is written: a recovery would write it too.
LEMMA WritePageOK ==
  ASSUME IInv, Supported, NEW p \in Procs, NEW g \in Pages, WritePage(p, g)
  PROVE  IInv'
<1> DEFINE me == proc'[p]
           it == proc[p]
<1>a. PICK f : f = it.db  OBVIOUS
<1>b. PICK b : b = it.job.path  OBVIOUS
<1>c. PICK w : w = walDir[b]  OBVIOUS
<1>0. TypeOK /\ ShapeOK(it) /\ WalKnown(p)  BY DEF IInv, ProcOK
<1>1. /\ it.pc \in {"replay", "apply"} /\ g \in it.todo
      /\ content' = [content EXCEPT ![f][g] = it.num]
      /\ Becomes(p, [it EXCEPT !.todo = @ \ {g}]) /\ UNCHANGED <<dir, walDir, log, ver, allowed, lock>>
  BY <1>a DEF WritePage, At
<1>2. it.pc \in Reading /\ it.pc # "copy" /\ it.pc \in Logging  BY <1>1 DEF Reading, Logging
<1>3. /\ f \in Inodes /\ b \in Paths /\ it.copy = None /\ AllThere(f) /\ Redone(f, b) \in allowed[f]
      /\ content[f] \in [Pages -> 0..MaxVer \cup {Absent}] /\ w \in Wals \cup {None} /\ Record(it) /\ content[f].hdr # Absent
      /\ it.job \in JobType /\ it.todo \in SUBSET Pages /\ it.num \in 0..MaxVer /\ it.wal \in Wals \cup {None}
  BY <1>2, <1>a, <1>b, <1>c, InUse
<1>4. /\ w # None /\ log[w].commit /\ it.num = log[w].ver /\ it.todo \subseteq log[w].pages
      /\ \A h \in log[w].pages \ it.todo : content[f][h] = it.num
  BY <1>0, <1>1, <1>a, <1>b, <1>c DEF WalKnown, Logging
<1>5. me = [it EXCEPT !.todo = it.todo \ {g}] /\ Becomes(p, me)
  <2>1. [it EXCEPT !.todo = @ \ {g}] = [it EXCEPT !.todo = it.todo \ {g}]  BY <1>3 DEF Record
  <2> QED  BY <1>0, <1>1, <2>1, Moves
<1>6. /\ me.pc = it.pc /\ me.job = it.job /\ me.db = f /\ me.copy = None /\ me.wal = it.wal
      /\ me.todo = it.todo \ {g} /\ me.num = it.num /\ Record(me)
  BY <1>3, <1>5, <1>a DEF Record
<1>7. me \in ProcType
  <2> HIDE DEF me, it
  <2>1. it.pc \in Points /\ f \in Inodes \cup {None}  BY <1>1, <1>3 DEF Points
  <2>2. me.todo \in SUBSET Pages /\ me.copy \in Inodes \cup {None}  BY <1>3, <1>6
  <2> QED  BY <1>3, <1>6, <2>1, <2>2, RecordTyped
<1>8. /\ content'[f] = [content[f] EXCEPT ![g] = it.num]
      /\ \A i \in Inodes \ {f} : content'[i] = content[i]
      /\ content' \in [Inodes -> Contents]
  BY <1>0, <1>1, <1>3 DEF TypeOK, Contents
<1>9. /\ content'[f][g] = it.num /\ \A h \in Pages \ {g} : content'[f][h] = content[f][h]
  BY <1>3, <1>8
<1>10. it.num # Absent  BY <1>3, DbFileAssumption
<1>11. AllThere(f)'
  <2>1. \A h \in Pages : content'[f][h] # Absent  BY <1>3, <1>9, <1>10 DEF AllThere
  <2> QED  BY <1>1, <1>5, <2>1 DEF AllThere
<1>12. FileOK(f, b)'
  <2>1. Redone(f, b)' = Redone(f, b)
    <3>1. \A h \in Pages : h \in log[w].pages \/ content'[f][h] = content[f][h]
      BY <1>1, <1>4, <1>9
    <3> QED  BY <1>1, <1>4, <1>c, <3>1 DEF Redone
  <2> QED  BY <1>1, <1>3, <1>11, <2>1, WholeNext
<1>13. ShapeOK(me)  BY <1>0, <1>1, <1>6, <1>a, DbFileAssumption DEF ShapeOK, Working, Opening
<1>14. WalKnown(p)'
  <2>0. log[w].pages \in SUBSET Pages  BY <1>2, <1>4, <1>b, <1>c, InUse
  <2>1. \A h \in log[w].pages \ me.todo : content'[f][h] = it.num
    <3> TAKE h \in log[w].pages \ me.todo
    <3>1. CASE h = g  BY <1>9, <3>1
    <3>2. CASE h # g  BY <1>4, <1>6, <1>9, <2>0, <3>2
    <3> QED  BY <3>1, <3>2
  <2>2. me.pc = "apply" => log[w].pages # {}  BY <1>0, <1>6, <1>b, <1>c DEF WalKnown
  <2>3. it.wal = w  BY <1>0, <1>1, <1>b, <1>c DEF WalKnown
  <2> QED  BY <1>1, <1>4, <1>6, <1>b, <1>c, <2>1, <2>2, <2>3 DEF WalKnown, Quiet, Logging
<1>15. content'[f].hdr # Absent  BY <1>3, <1>8, <1>10 DEF Pages
<1>16. /\ walDir' \in [Paths -> Wals \cup {None}] /\ log' \in [Wals -> Logs]
       /\ ver' \in 0..MaxVer /\ allowed' \in [Inodes -> SUBSET Contents]
  BY <1>0, <1>1 DEF TypeOK
<1>17. me.pc \in {"ready", "replay", "tx", "apply"}  BY <1>1, <1>6
<1>18. UNCHANGED <<dir, lock>> /\ UNCHANGED <<walDir, log, allowed>>  BY <1>1
<1> HIDE DEF me
<1> QED
  BY <1>2, <1>5, <1>6, <1>7, <1>8, <1>12, <1>13, <1>14, <1>15, <1>16, <1>17, <1>18, <1>a, <1>b, InUseOK

\* The WAL goes once its pages are in the .db, or because it has no commit.
LEMMA DiscardWalOK ==
  ASSUME IInv, Supported, NEW p \in Procs, DiscardWal(p) \/ RollbackTx(p)
  PROVE  IInv'
<1> DEFINE me == proc'[p]
           it == proc[p]
<1>a. PICK f : f = it.db  OBVIOUS
<1>b. PICK b : b = it.job.path  OBVIOUS
<1>c. PICK w : w = walDir[b]  OBVIOUS
<1>0. TypeOK /\ ShapeOK(it) /\ WalKnown(p)  BY DEF IInv, ProcOK
<1>1. /\ it.pc \in {"replay", "discard", "tx"} /\ (it.pc = "replay" => it.todo = {})
      /\ walDir' = [walDir EXCEPT ![b] = None]
      /\ Becomes(p, [it EXCEPT !.pc = "ready", !.wal = None])
      /\ UNCHANGED <<dir, content, log, ver, allowed, lock>>
  BY <1>b DEF DiscardWal, RollbackTx, At, UnlinkWalOf
<1>2. it.pc \in Reading /\ it.pc # "copy" /\ it.pc \in Logging  BY <1>1 DEF Reading, Logging
<1>3. /\ f \in Inodes /\ b \in Paths /\ it.copy = None /\ AllThere(f) /\ Redone(f, b) \in allowed[f]
      /\ content[f] \in [Pages -> 0..MaxVer \cup {Absent}] /\ content[f].hdr # Absent
  BY <1>2, <1>a, <1>b, InUse
<1>4. /\ log[w].commit => \A h \in log[w].pages : content[f][h] = log[w].ver
  BY <1>0, <1>1, <1>a, <1>b, <1>c DEF WalKnown
<1>5. me = [it EXCEPT !.pc = "ready", !.wal = None] /\ Becomes(p, me)
  BY <1>0, <1>1, Moves
<1>6. /\ me \in ProcType /\ me.pc = "ready" /\ me.job = it.job /\ me.db = f /\ me.copy = None /\ me.wal = None
  <2>1. Record(it) /\ it.job \in JobType \cup {None} /\ it.todo \in SUBSET Pages /\ it.num \in 0..MaxVer
    BY <1>0, Typed DEF Record
  <2>2. /\ me.pc = "ready" /\ me.job = it.job /\ me.db = f /\ me.copy = None /\ me.wal = None
        /\ me.todo = it.todo /\ me.num = it.num /\ Record(me)
    BY <1>3, <1>5, <1>a, <2>1 DEF Record
  <2> HIDE DEF me, it
  <2>3. me.pc \in Points /\ me.db \in Inodes \cup {None} /\ me.copy \in Inodes \cup {None} /\ me.wal \in Wals \cup {None}
    BY <1>3, <2>2 DEF Points
  <2>4. me \in ProcType  BY <2>1, <2>2, <2>3, RecordTyped
  <2> QED  BY <2>2, <2>4
<1>7. Redone(f, b)' = content[f]
  <2>1. walDir'[b] = None  BY <1>0, <1>1, <1>3 DEF TypeOK
  <2>2. content' = content  BY <1>1
  <2> QED  BY <1>3, <2>1, <2>2 DEF Redone
<1>8. Redone(f, b) = content[f]
  <2>1. \A h \in Pages : (w # None /\ log[w].commit /\ h \in log[w].pages) => content[f][h] = log[w].ver
    BY <1>4
  <2> QED  BY <1>3, <1>c, <2>1 DEF Redone
<1>9. FileOK(f, b)'
  <2>1. AllThere(f)'  BY <1>1, <1>3 DEF AllThere
  <2> QED  BY <1>1, <1>3, <1>7, <1>8, <2>1, WholeNext
<1>10. ShapeOK(me)  BY <1>0, <1>1, <1>6, <1>a, DbFileAssumption DEF ShapeOK, Working, Opening
<1>11. WalKnown(p)'
  <2>1. walDir'[b] = None  BY <1>0, <1>1, <1>3 DEF TypeOK
  <2> QED  BY <1>6, <1>b, <2>1 DEF WalKnown, Quiet, Logging
<1>12. /\ walDir' \in [Paths -> Wals \cup {None}] /\ content' \in [Inodes -> Contents] /\ log' \in [Wals -> Logs]
       /\ ver' \in 0..MaxVer /\ allowed' \in [Inodes -> SUBSET Contents]
       /\ walDir'[b] = None
       /\ \A a \in Paths \ {b} : walDir'[a] = walDir[a]
  BY <1>0, <1>1, <1>3 DEF TypeOK
<1>13. UNCHANGED <<dir, lock>> /\ UNCHANGED <<content, log, allowed>>  BY <1>1
<1> HIDE DEF me
<1> QED
  BY <1>2, <1>3, <1>5, <1>6, <1>9, <1>10, <1>11, <1>12, <1>13, <1>a, <1>b, InUseOK

\* A transaction starts with an empty WAL of its own.
LEMMA BeginOK ==
  ASSUME IInv, Supported, NEW p \in Procs, Begin(p)
  PROVE  IInv'
<1> DEFINE me == proc'[p]
           it == proc[p]
<1>a. PICK f : f = it.db  OBVIOUS
<1>b. PICK b : b = it.job.path  OBVIOUS
<1>0. TypeOK /\ ShapeOK(it) /\ WalKnown(p)  BY DEF IInv, ProcOK
<1>1. it.pc = "ready" /\ it.job.kind = "tx" /\ UNCHANGED <<dir, content, ver, allowed, lock>>
  BY DEF Begin, At
<1>2. walDir[b] = None  BY <1>0, <1>1, <1>b DEF WalKnown, Quiet
<1>3. PICK w \in FreshWals : /\ walDir' = [walDir EXCEPT ![b] = w] /\ log' = [log EXCEPT ![w] = EmptyLog]
                             /\ Becomes(p, [it EXCEPT !.pc = "tx", !.wal = w])
  <2>1. PICK x \in Wals : /\ IF walDir[b] # None THEN x = walDir[b] ELSE x \in FreshWals
                          /\ walDir' = [walDir EXCEPT ![b] = x] /\ log' = [log EXCEPT ![x] = EmptyLog]
                          /\ Becomes(p, [it EXCEPT !.pc = "tx", !.wal = x])
    BY <1>b DEF Begin
  <2>2. x \in FreshWals  BY <1>2, <2>1
  <2> QED  BY <2>1, <2>2
<1>4. w \in Wals /\ \A a \in Paths : walDir[a] # w  BY <1>3 DEF FreshWals
<1>5. it.pc \in Reading /\ it.pc # "copy"  BY <1>1 DEF Reading
<1>6. /\ f \in Inodes /\ b \in Paths /\ it.copy = None /\ AllThere(f) /\ Redone(f, b) \in allowed[f]
      /\ content[f] \in [Pages -> 0..MaxVer \cup {Absent}] /\ content[f].hdr # Absent
  BY <1>1, <1>5, <1>a, <1>b, InUse
<1>7. me = [it EXCEPT !.pc = "tx", !.wal = w] /\ Becomes(p, me)
  BY <1>0, <1>3, Moves
<1>8. /\ me \in ProcType /\ me.pc = "tx" /\ me.job = it.job /\ me.db = f /\ me.copy = None /\ me.wal = w
  <2>1. Record(it) /\ it.job \in JobType \cup {None} /\ it.todo \in SUBSET Pages /\ it.num \in 0..MaxVer
    BY <1>0, Typed DEF Record
  <2>2. /\ me.pc = "tx" /\ me.job = it.job /\ me.db = f /\ me.copy = None /\ me.wal = w
        /\ me.todo = it.todo /\ me.num = it.num /\ Record(me)
    BY <1>6, <1>7, <1>a, <2>1 DEF Record
  <2> HIDE DEF me, it
  <2>3. me.pc \in Points /\ me.db \in Inodes \cup {None} /\ me.copy \in Inodes \cup {None} /\ me.wal \in Wals \cup {None}
    BY <1>4, <1>6, <2>2 DEF Points
  <2>4. me \in ProcType  BY <2>1, <2>2, <2>3, RecordTyped
  <2> QED  BY <2>2, <2>4
<1>9. EmptyLog \in Logs /\ ~EmptyLog.commit  BY DbFileAssumption DEF EmptyLog, Logs
<1>10. /\ walDir' \in [Paths -> Wals \cup {None}] /\ log' \in [Wals -> Logs] /\ content' \in [Inodes -> Contents]
       /\ ver' \in 0..MaxVer /\ allowed' \in [Inodes -> SUBSET Contents]
       /\ walDir'[b] = w /\ (\A a \in Paths \ {b} : walDir'[a] = walDir[a])
       /\ log'[w] = EmptyLog /\ (\A x \in Wals \ {w} : log'[x] = log[x])
  BY <1>0, <1>1, <1>3, <1>4, <1>6, <1>9 DEF TypeOK
<1>11. \A a \in Paths \ {b} : walDir[a] # None => log'[walDir[a]] = log[walDir[a]]
  BY <1>0, <1>4, <1>10 DEF TypeOK
<1>12. FileOK(f, b)'
  <2>1. AllThere(f)'  BY <1>1, <1>6 DEF AllThere
  <2>2. Redone(f, b) = content[f]  BY <1>2, <1>6 DEF Redone
  <2>3. Redone(f, b)' = content[f]
    <3>1. ~log'[walDir'[b]].commit  BY <1>9, <1>10
    <3> QED  BY <1>1, <1>6, <3>1 DEF Redone
  <2> QED  BY <1>1, <1>6, <2>1, <2>2, <2>3, WholeNext
<1>13. w # None  BY <1>4, DbFileAssumption
<1>14. ShapeOK(me)  BY <1>0, <1>1, <1>8, <1>13, <1>a DEF ShapeOK, Working, Opening
<1>15. WalKnown(p)'
  BY <1>8, <1>9, <1>10, <1>13, <1>b DEF WalKnown, Quiet, Logging
<1>16. UNCHANGED <<dir, lock>> /\ UNCHANGED <<content, allowed>> /\ it.job.kind = "tx"  BY <1>1
<1> HIDE DEF me
<1>17. me.pc \in {"ready", "replay", "tx", "apply"}  BY <1>8
<1>18. walDir'[b] \in {None, walDir[b]} \cup FreshWals  BY <1>3, <1>10
<1> QED
  BY <1>5, <1>6, <1>7, <1>8, <1>10, <1>11, <1>12, <1>14, <1>15, <1>16, <1>17, <1>18, <1>a, <1>b, InUseOK

\* The logged commit is what a recovery makes of the file, and it is allowed.
LEMMA LogPagesOK ==
  ASSUME IInv, Supported, NEW p \in Procs, NEW D \in (SUBSET Pages) \ {{}}, LogPages(p, D)
  PROVE  IInv'
<1> DEFINE me == proc'[p]
           it == proc[p]
           entry == [ver |-> ver + 1, pages |-> D, commit |-> TRUE]
<1>a. PICK f : f = it.db  OBVIOUS
<1>b. PICK b : b = it.job.path  OBVIOUS
<1>c. PICK w : w = walDir[b]  OBVIOUS
<1>d. PICK new : new = [g \in Pages |-> IF g \in D THEN ver + 1 ELSE content[f][g]]  OBVIOUS
<1>0. TypeOK /\ ShapeOK(it) /\ WalKnown(p)  BY DEF IInv, ProcOK
<1>1. /\ it.pc = "tx" /\ ver < MaxVer /\ ver' = ver + 1
      /\ log' = [log EXCEPT ![it.wal] = entry]
      /\ allowed' = [allowed EXCEPT ![f] = @ \cup {new}]
      /\ Becomes(p, [it EXCEPT !.pc = "apply", !.todo = D, !.num = ver + 1])
      /\ UNCHANGED <<dir, walDir, content, lock>>
  BY <1>a, <1>d DEF LogPages, At
<1>2. it.wal = w /\ w # None  BY <1>0, <1>1, <1>b, <1>c DEF WalKnown, Logging
<1>3. it.pc \in Reading /\ it.pc # "copy" /\ it.pc \in Logging  BY <1>1 DEF Reading, Logging
<1>4. /\ f \in Inodes /\ b \in Paths /\ it.copy = None /\ AllThere(f) /\ allowed[f] \in SUBSET Contents
      /\ content[f] \in [Pages -> 0..MaxVer \cup {Absent}] /\ content[f].hdr # Absent /\ w \in Wals \cup {None}
      /\ Record(it) /\ it.job \in JobType
  BY <1>3, <1>a, <1>b, <1>c, InUse
<1>5. ver + 1 \in 0..MaxVer /\ entry \in Logs  BY <1>0, <1>1, DbFileAssumption DEF TypeOK, Logs
<1>6. new \in Contents /\ new \in [Pages -> 0..MaxVer \cup {Absent}]  BY <1>4, <1>5, <1>d DEF Contents
<1>7. me = [it EXCEPT !.pc = "apply", !.todo = D, !.num = ver + 1] /\ Becomes(p, me)
  BY <1>0, <1>1, Moves
<1>8. /\ me.pc = "apply" /\ me.job = it.job /\ me.db = f /\ me.copy = None /\ me.wal = w
      /\ me.todo = D /\ me.num = ver + 1 /\ Record(me)
  BY <1>2, <1>4, <1>7, <1>a DEF Record
<1>9. me \in ProcType
  <2> HIDE DEF me, it
  <2>1. me.pc \in Points /\ f \in Inodes \cup {None} /\ me.copy \in Inodes \cup {None} /\ D \in SUBSET Pages
    BY <1>4, <1>8 DEF Points
  <2> QED  BY <1>4, <1>5, <1>8, <2>1, RecordTyped
<1> HIDE DEF entry
<1>10. /\ walDir' \in [Paths -> Wals \cup {None}] /\ log' \in [Wals -> Logs] /\ content' \in [Inodes -> Contents]
       /\ ver' \in 0..MaxVer
       /\ log'[w] = entry /\ (\A x \in Wals \ {w} : log'[x] = log[x])
  BY <1>0, <1>1, <1>2, <1>4, <1>5 DEF TypeOK
<1>11. /\ allowed' \in [Inodes -> SUBSET Contents] /\ new \in allowed'[f]
       /\ \A i \in Inodes \ {f} : allowed'[i] = allowed[i]
  BY <1>0, <1>1, <1>4, <1>6 DEF TypeOK
<1>12. \A a \in Paths \ {b} : walDir[a] # None => log'[walDir[a]] = log[walDir[a]]
  <2>1. WalsOK  BY DEF IInv
  <2> QED  BY <1>0, <1>2, <1>4, <1>10, <1>c, <2>1 DEF TypeOK, WalsOK
<1>e. entry.ver = ver + 1 /\ entry.pages = D /\ entry.commit  BY DEF entry
<1>13. FileOK(f, b)'
  <2>1. AllThere(f)'  BY <1>1, <1>4 DEF AllThere
  <2>2. Redone(f, b)' = [g \in Pages |-> IF g \in D THEN ver + 1 ELSE content[f][g]]
    BY <1>1, <1>2, <1>10, <1>c, <1>e DEF Redone
  <2> QED  BY <1>11, <1>d, <2>1, <2>2, WholeNext
<1>14. ShapeOK(me)  BY <1>0, <1>1, <1>2, <1>8, <1>a DEF ShapeOK, Working, Opening
<1>15. WalKnown(p)'
  BY <1>1, <1>2, <1>8, <1>10, <1>b, <1>c, <1>e DEF WalKnown, Quiet, Logging
<1>16. UNCHANGED <<dir, lock>> /\ UNCHANGED <<content, walDir>>  BY <1>1
<1> HIDE DEF me
<1>17. me.pc \in {"ready", "replay", "tx", "apply"}  BY <1>8
<1> QED
  BY <1>3, <1>4, <1>7, <1>8, <1>9, <1>10, <1>11, <1>12, <1>13, <1>14, <1>15, <1>16, <1>17, <1>a, <1>b, InUseOK

\* The commit answers when all its pages are there, so it is what was made.
LEMMA FinishCommitOK ==
  ASSUME IInv, Supported, NEW p \in Procs, FinishCommit(p)
  PROVE  IInv'
<1> DEFINE me == proc'[p]
           it == proc[p]
<1>a. PICK f : f = it.db  OBVIOUS
<1>b. PICK b : b = it.job.path  OBVIOUS
<1>c. PICK w : w = walDir[b]  OBVIOUS
<1>0. TypeOK /\ ShapeOK(it) /\ WalKnown(p)  BY DEF IInv, ProcOK
<1>1. /\ it.pc = "apply" /\ it.todo = {}
      /\ walDir' = [walDir EXCEPT ![b] = None]
      /\ allowed' = [allowed EXCEPT ![f] = {s \in @ : \E g \in Pages : s[g] = it.num}]
      /\ Becomes(p, [it EXCEPT !.pc = "ready", !.wal = None])
      /\ UNCHANGED <<dir, content, log, ver, lock>>
  BY <1>a, <1>b DEF FinishCommit, At, UnlinkWalOf
<1>2. it.pc \in Reading /\ it.pc # "copy" /\ it.pc \in Logging  BY <1>1 DEF Reading, Logging
<1>3. /\ f \in Inodes /\ b \in Paths /\ it.copy = None /\ AllThere(f) /\ Redone(f, b) \in allowed[f]
      /\ content[f] \in [Pages -> 0..MaxVer \cup {Absent}] /\ content[f].hdr # Absent
      /\ allowed[f] \in SUBSET Contents /\ w \in Wals \cup {None} /\ it.job.kind = "tx"
      /\ (w # None => log[w].pages \in SUBSET Pages)
  BY <1>0, <1>1, <1>2, <1>a, <1>b, <1>c, InUse DEF ShapeOK, Working
<1>4. /\ w # None /\ log[w].commit /\ log[w].ver = it.num /\ log[w].pages # {}
      /\ \A h \in log[w].pages : content[f][h] = it.num
  BY <1>0, <1>1, <1>a, <1>b, <1>c DEF WalKnown, Logging
<1>5. me = [it EXCEPT !.pc = "ready", !.wal = None] /\ Becomes(p, me)
  BY <1>0, <1>1, Moves
<1>6. /\ me \in ProcType /\ me.pc = "ready" /\ me.job = it.job /\ me.db = f /\ me.copy = None /\ me.wal = None
  <2>1. Record(it) /\ it.job \in JobType \cup {None} /\ it.todo \in SUBSET Pages /\ it.num \in 0..MaxVer
    BY <1>0, Typed DEF Record
  <2>2. /\ me.pc = "ready" /\ me.job = it.job /\ me.db = f /\ me.copy = None /\ me.wal = None
        /\ me.todo = it.todo /\ me.num = it.num /\ Record(me)
    BY <1>3, <1>5, <1>a, <2>1 DEF Record
  <2> HIDE DEF me, it
  <2>3. me.pc \in Points /\ me.db \in Inodes \cup {None} /\ me.copy \in Inodes \cup {None} /\ me.wal \in Wals \cup {None}
    BY <1>3, <2>2 DEF Points
  <2>4. me \in ProcType  BY <2>1, <2>2, <2>3, RecordTyped
  <2> QED  BY <2>2, <2>4
<1>7. Redone(f, b) = content[f]
  <2>1. \A h \in Pages : (w # None /\ log[w].commit /\ h \in log[w].pages) => content[f][h] = log[w].ver
    BY <1>4
  <2> QED  BY <1>3, <1>c, <2>1 DEF Redone
<1>8. /\ walDir' \in [Paths -> Wals \cup {None}] /\ content' \in [Inodes -> Contents] /\ log' \in [Wals -> Logs]
      /\ ver' \in 0..MaxVer /\ walDir'[b] = None
      /\ \A a \in Paths \ {b} : walDir'[a] = walDir[a]
  BY <1>0, <1>1, <1>3 DEF TypeOK
<1>9. allowed'[f] = {s \in allowed[f] : \E g \in Pages : s[g] = it.num}
  BY <1>0, <1>1, <1>3 DEF TypeOK
<1>10. content[f] \in allowed'[f]
  BY <1>3, <1>4, <1>7, <1>9
<1>11. /\ allowed' \in [Inodes -> SUBSET Contents]
       /\ \A i \in Inodes \ {f} : allowed'[i] = allowed[i]
  <2>1. {s \in allowed[f] : \E g \in Pages : s[g] = it.num} \in SUBSET Contents  BY <1>3
  <2> QED  BY <1>0, <1>1, <1>3, <2>1 DEF TypeOK
<1>12. Redone(f, b)' = content[f]
  <2>2. content' = content  BY <1>1
  <2> QED  BY <1>3, <1>8, <2>2 DEF Redone
<1>13. FileOK(f, b)'
  <2>1. AllThere(f)'  BY <1>1, <1>3 DEF AllThere
  <2> QED  BY <1>10, <1>12, <2>1, WholeNext
<1>14. ShapeOK(me)  BY <1>0, <1>1, <1>3, <1>6, <1>a, DbFileAssumption DEF ShapeOK, Working, Opening
<1>15. WalKnown(p)'  BY <1>6, <1>8, <1>b DEF WalKnown, Quiet, Logging
<1>16. UNCHANGED <<dir, lock>> /\ UNCHANGED <<content, log>>  BY <1>1
<1> HIDE DEF me
<1>17. me.pc \in {"ready", "replay", "tx", "apply"}  BY <1>6
<1> QED
  BY <1>2, <1>3, <1>5, <1>6, <1>8, <1>11, <1>13, <1>14, <1>15, <1>16, <1>17, <1>a, <1>b, InUseOK

-----------------------------------------------------------------------------
(* Steps that make files.                                                  *)

\* The new database is written whole, under its lock.
LEMMA WriteHeaderOK ==
  ASSUME IInv, Supported, NEW p \in Procs, WriteHeader(p)
  PROVE  IInv'
<1> DEFINE me == proc'[p]
           it == proc[p]
<1>a. PICK f : f = it.db  OBVIOUS
<1>b. PICK b : b = it.job.path  OBVIOUS
<1>c. PICK new : new = Filled(ver + 1)  OBVIOUS
<1>0. TypeOK /\ ShapeOK(it) /\ JobOK(p) /\ NamesOK(p) /\ FileOpenOK(p) /\ WalKnown(p)  BY DEF IInv, ProcOK
<1>1. /\ it.pc = "fill" /\ ver < MaxVer /\ ver' = ver + 1
      /\ content' = [content EXCEPT ![f] = new] /\ allowed' = [allowed EXCEPT ![f] = {new}]
      /\ Goto(p, "good") /\ UNCHANGED <<dir, walDir, log, lock>>
  BY <1>a, <1>c DEF WriteHeader, At
<1>2. "good" \in Points  BY DEF Points
<1>3. /\ me \in ProcType /\ Becomes(p, me)
      /\ me.pc = "good" /\ me.job = it.job /\ me.db = f /\ me.copy = it.copy /\ me.wal = it.wal
  BY <1>0, <1>1, <1>2, <1>a, Goes
<1>4. f \in Inodes /\ b \in Paths /\ it.copy = None /\ lock[f] = p /\ f # None
  BY <1>0, <1>1, <1>a, <1>b, Typed, JobUses DEF ShapeOK, FileOpenOK, Locking
<1>5. ver + 1 \in 0..MaxVer /\ ver + 1 # Absent  BY <1>0, <1>1, DbFileAssumption DEF TypeOK
<1>6. /\ new \in Contents /\ (\A g \in Pages : new[g] # Absent) /\ new.hdr # Absent
      /\ new = [g \in Pages |-> new[g]]
  BY <1>5, <1>c DEF Filled, Contents, Pages
<1>7. /\ content' \in [Inodes -> Contents] /\ allowed' \in [Inodes -> SUBSET Contents]
      /\ content'[f] = new /\ new \in allowed'[f]
      /\ \A i \in Inodes \ {f} : content'[i] = content[i] /\ allowed'[i] = allowed[i]
  BY <1>0, <1>1, <1>4, <1>6 DEF TypeOK
<1>8. walDir[b] = None  BY <1>0, <1>1, <1>b DEF WalKnown, Quiet
<1>9. FileOK(f, b)'
  <2>1. AllThere(f)'  BY <1>6, <1>7 DEF AllThere
  <2>2. Redone(f, b)' = new  BY <1>1, <1>6, <1>7, <1>8 DEF Redone
  <2> QED  BY <1>7, <2>1, <2>2, WholeNext
<1>10. Of(f, b)  BY <1>a, <1>b DEF Of
<1>11. NoNewName(p)
  <2>1. me.db # None => Of(me.db, me.job.path)  BY <1>3, <1>10, <1>b
  <2>2. \A a \in Paths : dir'[a] \in {None, dir[a]}  BY <1>1
  <2>3. me.copy = None  BY <1>3, <1>4
  <2> HIDE DEF me
  <2> QED  BY <1>0, <1>3, <2>1, <2>2, <2>3, NoNewOK
<1>12. \A i \in Inodes : \A a \in Paths : FileOK(i, a)'
  <2>1. \A a \in Paths : walDir'[a] = walDir[a] /\ (walDir[a] # None => log'[walDir[a]] = log[walDir[a]])
    BY <1>1
  <2> QED  BY <1>4, <1>7, <1>9, <1>10, <1>11, <2>1, OnlyThisFile
<1>13. /\ proc' \in [Procs -> ProcType] /\ lock' \in [Inodes -> Procs \cup {None}]
       /\ \A i \in Inodes : lock'[i] # None => proc'[lock'[i]].db = i
       /\ OthersStay(p)
  BY <1>0, <1>1, <1>3, <1>a, SameLocks
<1>14. TypeOK'  BY <1>0, <1>1, <1>5, <1>7, <1>13 DEF TypeOK
<1>15. Effects(p)
  <2>1. DirEffect(p) /\ WalEffect(p)  BY <1>1 DEF DirEffect, WalEffect
  <2>2. ContentEffect(p)
    <3> SUFFICES ASSUME NEW i \in Inodes
                 PROVE  \/ content'[i] = content[i] /\ allowed'[i] = allowed[i]
                        \/ i = proc[p].db /\ proc[p].pc = "fill"
      BY DEF ContentEffect
    <3> QED  BY <1>1, <1>7, <1>a
  <2> QED  BY <1>11, <1>13, <2>1, <2>2 DEF Effects
<1>16. ShapeOK(me)  BY <1>0, <1>1, <1>3, <1>4 DEF ShapeOK, Working, Opening
<1>17. JobOK(p)' /\ NamesOK(p)' /\ FileOpenOK(p)' /\ WalKnown(p)' /\ CopyOK(p)'
  <2>1. JobOK(p)' /\ CopyOK(p)'  BY <1>0, <1>3 DEF JobOK, CopyOK
  <2>2. NamesOK(p)'  BY <1>0, <1>1, <1>3, <1>a DEF NamesOK, Opening
  <2>3. FileOpenOK(p)'  BY <1>1, <1>3, <1>4, <1>6, <1>7 DEF FileOpenOK, Locking, Reading
  <2>4. WalKnown(p)'  BY <1>1, <1>3, <1>8, <1>b DEF WalKnown, Logging
  <2> QED  BY <2>1, <2>2, <2>3, <2>4
<1>18. ProcOK(p)'
  <2>1. ShapeOK(proc[p])'  BY <1>16
  <2> QED  BY <1>17, <2>1 DEF ProcOK
<1> QED  BY <1>12, <1>14, <1>15, <1>18, Together

\* What a new file at a new path does to the others.
LEMMA NewFile ==
  ASSUME IInv, NEW p \in Procs, NEW me \in ProcType, Becomes(p, me), OthersStay(p),
         NEW f \in FreshInodes, NEW b \in Paths, dir[b] = None, MakesIn(p, b),
         dir' = [dir EXCEPT ![b] = f], content' = [content EXCEPT ![f] = Blank],
         \A i \in Inodes \ {f} : allowed'[i] = allowed[i], UNCHANGED <<walDir, log>>,
         (me.db = f /\ me.job.path = b) \/ (me.db # None => Of(me.db, me.job.path)),
         me.copy = None \/ (me.copy = f /\ me.job.to = b)
  PROVE  Effects(p) /\ \A i \in Inodes : \A a \in Paths : FileOK(i, a)'
<1>1. TypeOK /\ f \in Inodes  BY DEF IInv, FreshInodes
<1>2. proc'[p] = me /\ \A q \in Procs \ {p} : proc'[q] = proc[q]  BY <1>1, Moves
<1>3. /\ dir'[b] = f /\ (\A a \in Paths \ {b} : dir'[a] = dir[a])
      /\ content'[f] = Blank /\ (\A i \in Inodes \ {f} : content'[i] = content[i])
  BY <1>1 DEF TypeOK
<1>4. ASSUME NEW i \in Inodes, NEW a \in Paths, Of(i, a)'  PROVE Of(i, a) \/ (i = f /\ a = b)
  <2>1. i # None  BY DbFileAssumption
  <2>2. CASE dir'[a] = i  BY <1>3, <2>2 DEF Of
  <2>3. CASE \E q \in Procs : proc'[q].db = i /\ proc'[q].job.path = a
    <3>1. PICK q \in Procs : proc'[q].db = i /\ proc'[q].job.path = a  BY <2>3
    <3>2. CASE q = p  BY <1>2, <2>1, <3>1, <3>2
    <3>3. CASE q # p  BY <1>2, <3>1, <3>3 DEF Of
    <3> QED  BY <3>2, <3>3
  <2>4. CASE \E q \in Procs : proc'[q].copy = i /\ proc'[q].job.to = a
    <3>1. PICK q \in Procs : proc'[q].copy = i /\ proc'[q].job.to = a  BY <2>4
    <3>2. CASE q = p  BY <1>2, <2>1, <3>1, <3>2
    <3>3. CASE q # p  BY <1>2, <3>1, <3>3 DEF Of
    <3> QED  BY <3>2, <3>3
  <2> QED  BY <1>4, <2>2, <2>3, <2>4 DEF Of
<1>5. \A a \in Paths : ~Of(f, a)  BY DEF FreshInodes, Of
<1>6. NameEffect(p)
  <2>1. proc'[p].copy \in {None, proc[p].copy} \cup FreshInodes  BY <1>2
  <2> QED  BY <1>1, <1>4, <2>1 DEF NameEffect
<1>7. DirEffect(p)  BY <1>3 DEF DirEffect
<1>8. ContentEffect(p)
  <2> SUFFICES ASSUME NEW i \in Inodes
               PROVE  (content'[i] = content[i] /\ allowed'[i] = allowed[i]) \/ i \in FreshInodes
    BY DEF ContentEffect
  <2> QED  BY <1>3
<1>9. WalEffect(p)  BY DEF WalEffect
<1>10. ASSUME NEW i \in Inodes, NEW a \in Paths  PROVE FileOK(i, a)'
  <2>1. CASE ~Of(i, a)'  BY <2>1 DEF FileOK
  <2>2. CASE Of(i, a)' /\ i # f
    <3>1. Of(i, a)  BY <1>4, <2>2
    <3> QED  BY <1>3, <2>2, <3>1, FileStays
  <2>3. CASE Of(i, a)' /\ i = f
    <3>1. content'[i].hdr = Absent /\ ~AllThere(i)'  BY <1>3, <2>3 DEF AllThere, Blank, Pages
    <3> QED  BY <3>1 DEF FileOK
  <2> QED  BY <2>1, <2>2, <2>3
<1> QED  BY <1>6, <1>7, <1>8, <1>9, <1>10 DEF Effects

\* A database that is not there is made: an empty file, not yet locked.
LEMMA MakeOK ==
  ASSUME IInv, Supported, NEW p \in Procs, Make(p)
  PROVE  IInv'
<1> DEFINE me == proc'[p]
           it == proc[p]
<1>b. PICK b : b = it.job.path  OBVIOUS
<1>0. TypeOK /\ ShapeOK(it) /\ JobOK(p) /\ NamesOK(p)  BY DEF IInv, ProcOK
<1>1. it.pc = "make" /\ UNCHANGED <<walDir, log, ver, lock>>  BY DEF Make, At
<1>2. dir[b] = None  BY <1>0, <1>1, <1>b DEF NamesOK
<1>3. PICK f \in Inodes : /\ IF dir[b] # None THEN f = dir[b] ELSE f \in FreshInodes
                          /\ dir' = [dir EXCEPT ![b] = f] /\ content' = [content EXCEPT ![f] = Blank]
                          /\ allowed' = [allowed EXCEPT ![f] = IF f \in FreshInodes THEN {} ELSE @]
                          /\ Becomes(p, [it EXCEPT !.pc = "made", !.db = f])
  BY <1>b DEF Make, OpenTruncated
<1>4. f \in FreshInodes  BY <1>2, <1>3
<1>5. /\ it.job.kind = "create" /\ it.db = None /\ it.copy = None /\ it.wal = None /\ it.job \in JobType /\ b \in Paths
      /\ MakesIn(p, b) /\ Record(it) /\ it.todo \in SUBSET Pages /\ it.num \in 0..MaxVer
  BY <1>0, <1>1, <1>b, JobUses, Typed DEF ShapeOK, Record
<1>6. me = [it EXCEPT !.pc = "made", !.db = f] /\ Becomes(p, me)  BY <1>0, <1>3, Moves
<1>7. /\ me.pc = "made" /\ me.job = it.job /\ me.db = f /\ me.copy = None /\ me.wal = None
      /\ me.todo = it.todo /\ me.num = it.num /\ Record(me)
  BY <1>5, <1>6 DEF Record
<1>8. me \in ProcType
  <2> HIDE DEF me, it
  <2>1. me.pc \in Points  BY <1>7 DEF Points
  <2> QED  BY <1>3, <1>5, <1>7, <2>1, RecordTyped
<1>9. /\ proc' \in [Procs -> ProcType] /\ lock' \in [Inodes -> Procs \cup {None}]
      /\ \A i \in Inodes : lock'[i] # None => proc'[lock'[i]].db = i
      /\ OthersStay(p)
  <2> HIDE DEF me
  <2> QED  BY <1>0, <1>1, <1>5, <1>6, <1>8, SameLocks
<1>10. allowed' = [allowed EXCEPT ![f] = {}]  BY <1>3, <1>4
<1>11. Blank \in Contents /\ Blank.hdr = Absent  BY DEF Blank, Contents, Pages
<1>12. /\ dir' \in [Paths -> Inodes \cup {None}] /\ content' \in [Inodes -> Contents] /\ allowed' \in [Inodes -> SUBSET Contents]
       /\ content'[f] = Blank /\ (\A i \in Inodes \ {f} : allowed'[i] = allowed[i]) /\ dir'[b] = f
  BY <1>0, <1>3, <1>5, <1>10, <1>11 DEF TypeOK
<1>13. TypeOK'  BY <1>0, <1>1, <1>9, <1>12 DEF TypeOK
<1>14. Effects(p) /\ \A i \in Inodes : \A a \in Paths : FileOK(i, a)'
  <2>1. me.job.path = b  BY <1>7, <1>b
  <2>2. dir' = [dir EXCEPT ![b] = f] /\ content' = [content EXCEPT ![f] = Blank] /\ UNCHANGED <<walDir, log>>
    BY <1>1, <1>3
  <2> HIDE DEF me
  <2> QED  BY <1>2, <1>4, <1>5, <1>6, <1>7, <1>8, <1>9, <1>12, <2>1, <2>2, NewFile
<1>15. f # None  BY <1>3, DbFileAssumption
<1>16. ShapeOK(me)  BY <1>0, <1>1, <1>5, <1>7, <1>15 DEF ShapeOK, Working, Opening
<1>17. JobOK(p)' /\ NamesOK(p)' /\ FileOpenOK(p)' /\ WalKnown(p)' /\ CopyOK(p)'
  <2>1. JobOK(p)' /\ CopyOK(p)'  BY <1>0, <1>7 DEF JobOK, CopyOK
  <2>2. NamesOK(p)'  BY <1>7, <1>12, <1>b DEF NamesOK, Opening
  <2>3. FileOpenOK(p)'  BY <1>7, <1>11, <1>12 DEF FileOpenOK, Locking, Reading
  <2>4. WalKnown(p)'
    <3>1. walDir[b] = None  BY <1>2, <1>5 DEF IInv, WalsOK
    <3> QED  BY <1>1, <1>7, <1>b, <3>1 DEF WalKnown, Logging
  <2> QED  BY <2>1, <2>2, <2>3, <2>4
<1>18. ProcOK(p)'
  <2>1. ShapeOK(proc[p])'  BY <1>16
  <2> QED  BY <1>17, <2>1 DEF ProcOK
<1> QED  BY <1>13, <1>14, <1>18, Together

\* The copy is a new file too, and what it shall become is the source.
LEMMA OpenCopyOK ==
  ASSUME IInv, Supported, NEW p \in Procs, OpenCopy(p)
  PROVE  IInv'
<1> DEFINE me == proc'[p]
           it == proc[p]
<1>a. PICK s : s = it.db  OBVIOUS
<1>b. PICK b : b = it.job.to  OBVIOUS
<1>0. TypeOK /\ ShapeOK(it) /\ JobOK(p) /\ NamesOK(p) /\ FileOpenOK(p) /\ WalKnown(p)  BY DEF IInv, ProcOK
<1>1. it.pc = "ready" /\ it.job.kind = "backup" /\ UNCHANGED <<walDir, log, ver, lock>>  BY DEF OpenCopy, At
<1>2. dir[b] = None  BY <1>0, <1>1, <1>b DEF NamesOK, Opening
<1>3. PICK f \in Inodes : /\ IF dir[b] # None THEN f = dir[b] ELSE f \in FreshInodes
                          /\ dir' = [dir EXCEPT ![b] = f] /\ content' = [content EXCEPT ![f] = Blank]
                          /\ allowed' = [allowed EXCEPT ![f] = {content[s]}]
                          /\ Becomes(p, [it EXCEPT !.pc = "copy", !.copy = f, !.todo = Pages])
  BY <1>a, <1>b DEF OpenCopy, OpenTruncated
<1>4. f \in FreshInodes  BY <1>2, <1>3
<1>5. /\ s \in Inodes /\ it.copy = None /\ it.wal = None /\ it.job \in JobType /\ b \in Paths
      /\ MakesIn(p, b) /\ Record(it) /\ it.num \in 0..MaxVer /\ lock[s] = p /\ content[s].hdr # Absent
  BY <1>0, <1>1, <1>a, <1>b, JobUses, Typed DEF ShapeOK, Record, FileOpenOK, Reading, Locking
<1>6. me = [it EXCEPT !.pc = "copy", !.copy = f, !.todo = Pages] /\ Becomes(p, me)  BY <1>0, <1>3, Moves
<1>7. /\ me.pc = "copy" /\ me.job = it.job /\ me.db = s /\ me.copy = f /\ me.wal = None
      /\ me.todo = Pages /\ me.num = it.num /\ Record(me)
  BY <1>5, <1>6, <1>a DEF Record
<1>8. me \in ProcType
  <2> HIDE DEF me, it
  <2>1. me.pc \in Points /\ me.todo \in SUBSET Pages  BY <1>7 DEF Points
  <2> QED  BY <1>3, <1>5, <1>7, <2>1, RecordTyped
<1>9. /\ proc' \in [Procs -> ProcType] /\ lock' \in [Inodes -> Procs \cup {None}]
      /\ \A i \in Inodes : lock'[i] # None => proc'[lock'[i]].db = i
      /\ OthersStay(p)
  <2>1. me.db = it.db  BY <1>7, <1>a
  <2> HIDE DEF me
  <2> QED  BY <1>0, <1>1, <1>6, <1>8, <2>1, SameLocks
<1>10. content[s] \in Contents  BY <1>0, <1>5 DEF TypeOK
<1>11. Blank \in Contents /\ \A g \in Pages : Blank[g] = Absent  BY DEF Blank, Contents
<1>12. f # s  BY <1>4, <1>a DEF FreshInodes
<1>13. /\ dir' \in [Paths -> Inodes \cup {None}] /\ content' \in [Inodes -> Contents] /\ allowed' \in [Inodes -> SUBSET Contents]
       /\ content'[f] = Blank /\ content'[s] = content[s] /\ allowed'[f] = {content[s]}
       /\ (\A i \in Inodes \ {f} : allowed'[i] = allowed[i]) /\ (\A a \in Paths \ {b} : dir'[a] = dir[a])
  BY <1>0, <1>3, <1>5, <1>10, <1>11, <1>12 DEF TypeOK
<1>14. TypeOK'  BY <1>0, <1>1, <1>9, <1>13 DEF TypeOK
<1>15. Of(s, it.job.path)  BY <1>a DEF Of
<1>16. Effects(p) /\ \A i \in Inodes : \A a \in Paths : FileOK(i, a)'
  <2>1. me.job.to = b /\ (me.db # None => Of(me.db, me.job.path))  BY <1>7, <1>15, <1>b
  <2>2. dir' = [dir EXCEPT ![b] = f] /\ content' = [content EXCEPT ![f] = Blank] /\ UNCHANGED <<walDir, log>>
    BY <1>1, <1>3
  <2>3. /\ OthersStay(p) /\ Becomes(p, me) /\ b \in Paths /\ MakesIn(p, b) /\ me.copy = f
        /\ \A i \in Inodes \ {f} : allowed'[i] = allowed[i]
    BY <1>5, <1>6, <1>7, <1>9, <1>13
  <2> HIDE DEF me
  <2> QED  BY <1>2, <1>4, <1>8, <2>1, <2>2, <2>3, NewFile
<1>17. f # None /\ s # None  BY <1>3, <1>5, DbFileAssumption
<1>18. ShapeOK(me)  BY <1>1, <1>0, <1>7, <1>17 DEF ShapeOK, Working, Opening
<1>19. JobOK(p)' /\ NamesOK(p)' /\ FileOpenOK(p)' /\ WalKnown(p)' /\ CopyOK(p)'
  <2>1. JobOK(p)'  BY <1>0, <1>7 DEF JobOK
  <2>2. CopyOK(p)'  BY <1>7, <1>11, <1>13 DEF CopyOK
  <2>3. FileOpenOK(p)'  BY <1>1, <1>5, <1>7, <1>13 DEF FileOpenOK, Locking, Reading
  <2>4. WalKnown(p)'  BY <1>0, <1>1, <1>7 DEF WalKnown, Logging, Quiet
  <2>5. NamesOK(p)'
    <3>1. it.job.path \notin UsedBy("drop") => dir[it.job.path] = s  BY <1>0, <1>17, <1>a DEF NamesOK
    <3>2. it.job.path \notin UsedBy("drop") => it.job.path # b  BY <1>2, <1>17, <3>1
    <3>3. it.job.path \in Paths  BY <1>5, JobTyped
    <3> QED  BY <1>7, <1>13, <3>1, <3>2, <3>3 DEF NamesOK, Opening
  <2> QED  BY <2>1, <2>2, <2>3, <2>4, <2>5
<1>20. ProcOK(p)'
  <2>1. ShapeOK(proc[p])'  BY <1>18
  <2> QED  BY <1>19, <2>1 DEF ProcOK
<1> QED  BY <1>14, <1>16, <1>20, Together

-----------------------------------------------------------------------------
(* Copying, and dropping.                                                  *)

\* A copied page is in the copy as it is in the source, and a copy that has
\* them all is what it was to become.
LEMMA CopyPageOK ==
  ASSUME IInv, Supported, NEW p \in Procs, NEW g \in Pages, CopyPage(p, g)
  PROVE  IInv'
<1> DEFINE me == proc'[p]
           it == proc[p]
<1>a. PICK s : s = it.db  OBVIOUS
<1>b. PICK b : b = it.job.to  OBVIOUS
<1>c. PICK f : f = it.copy  OBVIOUS
<1>0. TypeOK /\ ShapeOK(it) /\ JobOK(p) /\ NamesOK(p) /\ FileOpenOK(p) /\ WalKnown(p) /\ CopyOK(p)  BY DEF IInv, ProcOK
<1>1. CASE EndJob(p)  BY <1>1, EndJobOK
<1>2. CASE ~EndJob(p)
  <2>1. /\ it.pc = "copy" /\ g \in it.todo /\ content[s][g] # Absent
        /\ content' = [content EXCEPT ![f][g] = content[s][g]]
        /\ Becomes(p, [it EXCEPT !.todo = @ \ {g}])
        /\ UNCHANGED <<dir, walDir, log, ver, allowed, lock>>
    BY <1>2, <1>a, <1>c DEF CopyPage, At
  <2>2. /\ s \in Inodes /\ f \in Inodes /\ it.wal = None /\ it.job \in JobType /\ b \in Paths /\ it.job.path \in Paths
        /\ MakesIn(p, b) /\ b \in CopiedTo /\ it.job.path \in UsedBy("backup")
        /\ Record(it) /\ it.todo \in SUBSET Pages /\ it.num \in 0..MaxVer /\ lock[s] = p /\ content[s].hdr # Absent
    BY <1>0, <2>1, <1>a, <1>b, <1>c, JobUses, Typed DEF ShapeOK, Record, FileOpenOK, Reading, Locking
  <2>3. Of(s, it.job.path) /\ Of(f, b)  BY <1>a, <1>b, <1>c DEF Of
  <2>4. it.job.path # b  BY <2>2 DEF Supported
  <2>5. f # s  BY <2>2, <2>3, <2>4 DEF IInv, OfOnePath
  <2>6. walDir[b] = None
    <3>1. b \notin UsedBy("tx")  BY <2>2 DEF Supported
    <3> QED  BY <2>2, <3>1 DEF IInv, WalsOK
  <2>7. /\ allowed[f] = {content[s]}
        /\ \A h \in Pages : content[f][h] = IF h \in it.todo THEN Absent ELSE content[s][h]
    BY <1>0, <2>1, <1>a, <1>c DEF CopyOK
  <2>8. content[s] \in [Pages -> 0..MaxVer \cup {Absent}] /\ content[f] \in [Pages -> 0..MaxVer \cup {Absent}]
    BY <1>0, <2>2 DEF TypeOK, Contents
  <2>9. me = [it EXCEPT !.todo = it.todo \ {g}] /\ Becomes(p, me)
    <3>1. [it EXCEPT !.todo = @ \ {g}] = [it EXCEPT !.todo = it.todo \ {g}]  BY <2>2 DEF Record
    <3> QED  BY <1>0, <2>1, <3>1, Moves
  <2>10. /\ me.pc = "copy" /\ me.job = it.job /\ me.db = s /\ me.copy = f /\ me.wal = None
         /\ me.todo = it.todo \ {g} /\ me.num = it.num /\ Record(me)
    BY <2>1, <2>2, <2>9, <1>a, <1>c DEF Record
  <2>11. me \in ProcType
    <3> HIDE DEF me, it
    <3>1. me.pc \in Points /\ me.todo \in SUBSET Pages  BY <2>2, <2>10 DEF Points
    <3> QED  BY <2>2, <2>10, <3>1, RecordTyped
  <2>12. /\ content'[f] = [content[f] EXCEPT ![g] = content[s][g]]
         /\ \A i \in Inodes \ {f} : content'[i] = content[i]
         /\ content' \in [Inodes -> Contents]
    BY <1>0, <2>1, <2>2, <2>8 DEF TypeOK, Contents
  <2>13. content'[s] = content[s]  BY <2>2, <2>5, <2>12
  <2>14. \A h \in Pages : content'[f][h] = IF h \in me.todo THEN Absent ELSE content[s][h]
    BY <2>7, <2>8, <2>10, <2>12
  <2>15. FileOK(f, b)'
    <3>1. b \in CopiedTo  BY <2>2
    <3>2. ASSUME AllThere(f)'  PROVE Redone(f, b)' \in allowed'[f]
      <4>1. \A h \in Pages : content'[f][h] # Absent  BY <3>2 DEF AllThere
      <4>2. \A h \in Pages : content'[f][h] = content[s][h]  BY <2>14, <4>1
      <4>3. Redone(f, b)' = [h \in Pages |-> content'[f][h]]  BY <2>1, <2>6 DEF Redone
      <4>4. Redone(f, b)' = content[s]  BY <2>8, <4>2, <4>3
      <4> QED  BY <2>1, <2>7, <4>4
    <3> QED  BY <3>1, <3>2 DEF FileOK
  <2>16. Of(me.db, me.job.path)  BY <2>3, <2>10
  <2>17. NoNewName(p)
    <3>1. me.copy = it.copy /\ me.job = it.job  BY <2>10, <1>c
    <3>2. \A a \in Paths : dir'[a] \in {None, dir[a]}  BY <2>1
    <3> HIDE DEF me
    <3> QED  BY <1>0, <2>9, <2>16, <3>1, <3>2, NoNewOK
  <2>18. \A i \in Inodes : \A a \in Paths : FileOK(i, a)'
    <3>1. \A a \in Paths : walDir'[a] = walDir[a] /\ (walDir[a] # None => log'[walDir[a]] = log[walDir[a]])
      BY <2>1
    <3>2. \A i \in Inodes \ {f} : content'[i] = content[i] /\ allowed'[i] = allowed[i]  BY <2>1, <2>12
    <3> QED  BY <2>2, <2>3, <2>15, <2>17, <3>1, <3>2, OnlyThisFile
  <2>19. /\ proc' \in [Procs -> ProcType] /\ lock' \in [Inodes -> Procs \cup {None}]
         /\ \A i \in Inodes : lock'[i] # None => proc'[lock'[i]].db = i
         /\ OthersStay(p)
    <3>1. me.db = it.db  BY <2>10, <1>a
    <3> HIDE DEF me
    <3> QED  BY <1>0, <2>1, <2>9, <2>11, <3>1, SameLocks
  <2>20. TypeOK'  BY <1>0, <2>1, <2>12, <2>19 DEF TypeOK
  <2>21. Effects(p)
    <3>1. DirEffect(p) /\ WalEffect(p)  BY <2>1 DEF DirEffect, WalEffect
    <3>2. ContentEffect(p)
      <4> SUFFICES ASSUME NEW i \in Inodes
                   PROVE  \/ content'[i] = content[i] /\ allowed'[i] = allowed[i]
                          \/ /\ i = it.copy /\ allowed'[i] = allowed[i]
                             /\ \E h \in Pages : content[i][h] = Absent /\ content'[i] = [content[i] EXCEPT ![h] = content[it.db][h]]
                                                 /\ content[it.db][h] # Absent
        BY DEF ContentEffect
      <4>1. CASE i # f  BY <2>1, <2>12, <4>1
      <4>2. CASE i = f
        <5>1. content[f][g] = Absent  BY <2>1, <2>7
        <5> QED  BY <2>1, <2>12, <4>2, <5>1, <1>a, <1>c
      <4> QED  BY <4>1, <4>2
    <3> QED  BY <2>17, <2>19, <3>1, <3>2 DEF Effects
  <2>22. s # None /\ f # None  BY <2>2, DbFileAssumption
  <2>23. ShapeOK(me)  BY <1>0, <2>1, <2>10, <2>22 DEF ShapeOK, Working, Opening
  <2>24. JobOK(p)' /\ NamesOK(p)' /\ FileOpenOK(p)' /\ WalKnown(p)' /\ CopyOK(p)'
    <3>1. JobOK(p)'  BY <1>0, <2>10 DEF JobOK
    <3>2. CopyOK(p)'  BY <2>1, <2>7, <2>10, <2>13, <2>14 DEF CopyOK
    <3>3. FileOpenOK(p)'  BY <2>1, <2>2, <2>10, <2>13 DEF FileOpenOK, Locking, Reading
    <3>4. WalKnown(p)'  BY <1>0, <2>1, <2>10 DEF WalKnown, Logging, Quiet
    <3>5. NamesOK(p)'  BY <1>0, <2>1, <2>10, <1>a DEF NamesOK, Opening
    <3> QED  BY <3>1, <3>2, <3>3, <3>4, <3>5
  <2>25. ProcOK(p)'
    <3>1. ShapeOK(proc[p])'  BY <2>23
    <3> QED  BY <2>24, <3>1 DEF ProcOK
  <2> QED  BY <2>18, <2>20, <2>21, <2>25, Together
<1> QED  BY <1>1, <1>2

\* A name goes: nobody uses the database, and whoever has it open keeps it.
LEMMA UnlinkOK ==
  ASSUME IInv, Supported, NEW p \in Procs, Unlink(p)
  PROVE  IInv'
<1> DEFINE me == proc'[p]
           it == proc[p]
<1>b. PICK b : b = it.job.path  OBVIOUS
<1>0. TypeOK /\ ShapeOK(it) /\ JobOK(p)  BY DEF IInv, ProcOK
<1>1. /\ it.pc = "unlink" /\ dir' = [dir EXCEPT ![b] = None]
      /\ Becomes(p, Idle) \/ Goto(p, "unlinkwal")
      /\ UNCHANGED <<walDir, content, log, ver, allowed, lock>>
  BY <1>b DEF Unlink, At
<1>2. it.job.kind = "drop" /\ it.db = None /\ it.copy = None /\ it.wal = None /\ b \in Paths /\ b \in UsedBy("drop")
  BY <1>0, <1>1, <1>b, JobUses DEF ShapeOK
<1>3. /\ me \in ProcType /\ Becomes(p, me) /\ me.db = None /\ me.copy = None
      /\ ShapeOK(me) /\ me.pc \in {"idle", "unlinkwal"} /\ (me.job = None \/ me.job = it.job)
  <2>1. CASE Becomes(p, Idle)
    <3>1. Idle \in ProcType  BY DbFileAssumption DEF Idle, ProcType
    <3>2. me = Idle  BY <1>0, <2>1, Moves
    <3>3. ShapeOK(Idle)  BY DEF Idle, ShapeOK, Opening, Working
    <3>4. Idle.pc = "idle" /\ Idle.job = None /\ Idle.db = None /\ Idle.copy = None  BY DEF Idle
    <3> QED  BY <2>1, <3>1, <3>2, <3>3, <3>4
  <2>2. CASE Goto(p, "unlinkwal")
    <3>1. "unlinkwal" \in Points  BY DEF Points
    <3>2. /\ me \in ProcType /\ Becomes(p, me)
          /\ me.pc = "unlinkwal" /\ me.job = it.job /\ me.db = it.db /\ me.copy = it.copy /\ me.wal = it.wal
      BY <1>0, <2>2, <3>1, Goes
    <3>3. ShapeOK(me)  BY <1>0, <1>1, <1>2, <3>2 DEF ShapeOK, Opening, Working
    <3> QED  BY <1>2, <3>2, <3>3
  <2> QED  BY <1>1, <2>1, <2>2
<1>4. dir' \in [Paths -> Inodes \cup {None}] /\ dir'[b] = None /\ \A a \in Paths \ {b} : dir'[a] = dir[a]
  BY <1>0, <1>1, <1>2 DEF TypeOK
<1>5. /\ proc' \in [Procs -> ProcType] /\ lock' \in [Inodes -> Procs \cup {None}]
      /\ \A i \in Inodes : lock'[i] # None => proc'[lock'[i]].db = i
      /\ OthersStay(p)
  <2> HIDE DEF me
  <2> QED  BY <1>0, <1>1, <1>2, <1>3, SameLocks
<1>6. TypeOK'  BY <1>0, <1>1, <1>4, <1>5 DEF TypeOK
<1>7. NoNewName(p)
  <2>1. \A a \in Paths : dir'[a] \in {None, dir[a]}  BY <1>4
  <2> HIDE DEF me
  <2> QED  BY <1>0, <1>3, <2>1, NoNewOK
<1>8. Effects(p)
  <2>1. DirEffect(p)  BY <1>2, <1>4 DEF DirEffect
  <2>2. ContentEffect(p) /\ WalEffect(p)  BY <1>1 DEF ContentEffect, WalEffect
  <2> QED  BY <1>5, <1>7, <2>1, <2>2 DEF Effects
<1>9. ASSUME NEW i \in Inodes, NEW a \in Paths  PROVE FileOK(i, a)'
  <2>1. CASE Of(i, a)'
    <3>1. Of(i, a)  BY <1>7, <2>1 DEF NoNewName
    <3> QED  BY <1>1, <3>1, FileStays
  <2>2. CASE ~Of(i, a)'  BY <2>2 DEF FileOK
  <2> QED  BY <2>1, <2>2
<1>10. ProcOK(p)'
  <2>1. JobOK(p)'  BY <1>0, <1>3 DEF JobOK
  <2>2. NamesOK(p)' /\ FileOpenOK(p)' /\ WalKnown(p)' /\ CopyOK(p)'
    BY <1>3 DEF NamesOK, FileOpenOK, WalKnown, CopyOK, Opening, Locking, Reading, Quiet, Logging
  <2>3. ShapeOK(proc[p])'  BY <1>3
  <2> QED  BY <2>1, <2>2, <2>3 DEF ProcOK
<1> QED  BY <1>6, <1>8, <1>9, <1>10, Together

\* A database that may be dropped has no WAL, so there is none to remove.
LEMMA UnlinkWalOK ==
  ASSUME IInv, Supported, NEW p \in Procs, UnlinkWal(p)
  PROVE  IInv'
<1> DEFINE it == proc[p]
<1>b. PICK b : b = it.job.path  OBVIOUS
<1>0. TypeOK /\ ShapeOK(it) /\ JobOK(p) /\ WalsOK  BY DEF IInv, ProcOK
<1>1. it.pc = "unlinkwal" /\ Becomes(p, Idle) /\ walDir' = [walDir EXCEPT ![b] = None]
      /\ UNCHANGED <<dir, content, log, ver, allowed, lock>>
  BY <1>b DEF UnlinkWal, UnlinkWalOf, At
<1>2. it.db = None /\ b \in Paths /\ b \in UsedBy("drop")  BY <1>0, <1>1, <1>b, JobUses DEF ShapeOK
<1>3. walDir[b] = None
  <2>1. b \notin UsedBy("tx")  BY <1>2 DEF Supported
  <2> QED  BY <1>0, <1>2, <2>1 DEF WalsOK
<1>4. walDir' = walDir  BY <1>0, <1>1, <1>2, <1>3 DEF TypeOK
<1>5. lock' = Released(p)
  <2>1. \A i \in Inodes : lock[i] # p  BY <1>0, <1>2, DbFileAssumption DEF TypeOK
  <2> QED  BY <1>0, <1>1, <2>1 DEF Released, TypeOK
<1> QED  BY <1>1, <1>4, <1>5, EndJobOK DEF EndJob, files

-----------------------------------------------------------------------------
(* The invariant holds.                                                    *)

\* It holds of the databases that are there at the start.
LEMMA Initially ==
  ASSUME Init
  PROVE  IInv
<1>1. TypeOK
  <2>1. Idle \in ProcType  BY DbFileAssumption DEF Idle, ProcType
  <2>2. EmptyLog \in Logs  BY DbFileAssumption DEF EmptyLog, Logs
  <2>3. Filled(0) \in Contents  BY DbFileAssumption DEF Filled, Contents
  <2> QED  BY <2>1, <2>2, <2>3, DbFileAssumption DEF Init, TypeOK
<1>2. \A p \in Procs : ProcOK(p)
  <2> TAKE p \in Procs
  <2>1. proc[p] = Idle  BY DEF Init
  <2> QED
    BY <2>1 DEF ProcOK, ShapeOK, JobOK, NamesOK, FileOpenOK, WalKnown, CopyOK, Idle, Opening, Locking, Reading, Quiet, Logging, Working
<1>3. \A i \in Inodes : \A a \in Paths : Of(i, a) => dir[a] = i /\ a \in Existing
  <2> TAKE i \in Inodes
  <2> TAKE a \in Paths
  <2>1. \A p \in Procs : proc[p].db = None /\ proc[p].copy = None  BY DEF Init, Idle
  <2>2. i # None  BY DbFileAssumption
  <2> QED  BY <2>1, <2>2 DEF Init, Of
<1>4. OfOnePath
  <2> SUFFICES ASSUME NEW i \in Inodes, NEW a \in Paths, NEW b \in Paths, Of(i, a), Of(i, b)  PROVE a = b
    BY DEF OfOnePath
  <2> QED  BY <1>3 DEF Init
<1>5. OneCopyist  BY DEF Init, OneCopyist, Idle
<1>6. WalsOK  BY DEF Init, WalsOK
<1>7. ASSUME NEW i \in Inodes, NEW a \in Paths  PROVE FileOK(i, a)
  <2>1. content[i] = Filled(0) /\ allowed[i] = {Filled(0)} /\ walDir[a] = None  BY DEF Init
  <2>2. \A g \in Pages : content[i][g] # Absent  BY <2>1, DbFileAssumption DEF Filled
  <2>3. Redone(i, a) = Filled(0)  BY <2>1 DEF Redone, Filled
  <2> QED  BY <2>1, <2>2, <2>3 DEF FileOK, AllThere
<1> QED  BY <1>1, <1>2, <1>4, <1>5, <1>6, <1>7 DEF IInv

\* Every step of supported use keeps it.
LEMMA Inductive ==
  ASSUME Supported, IInv, [Next]_vars
  PROVE  IInv'
<1>1. CASE UNCHANGED vars
  BY <1>1 DEF vars, files, IInv, TypeOK, ProcOK, ShapeOK, JobOK, NamesOK, FileOpenOK, WalKnown, CopyOK,
              OfOnePath, OneCopyist, WalsOK, FileOK, Of, Redone, AllThere
<1>2. CASE Next
  <2>1. PICK p \in Procs : Step(p) \/ \E j \in Jobs[p] : Start(p, j)  BY <1>2 DEF Next
  <2>2. CASE \E j \in Jobs[p] : Start(p, j)  BY <2>2, StartOK
  <2>3. CASE Step(p)
    <3>1. CASE Make(p)  BY <3>1, MakeOK
    <3>2. CASE LockNew(p)
      <4>1. proc[p].pc = "made" /\ TakeLock(p, "fill")  BY <3>2 DEF LockNew, At
      <4> QED  BY <4>1, TakeLockOK
    <3>3. CASE WriteHeader(p)  BY <3>3, WriteHeaderOK
    <3>4. CASE OpenFile(p)  BY <3>4, OpenFileOK
    <3>5. CASE LockFile(p)
      <4>1. proc[p].pc = "opened" /\ TakeLock(p, "locked")  BY <3>5 DEF LockFile, At
      <4> QED  BY <4>1, TakeLockOK
    <3>6. CASE Recover(p)  BY <3>6, RecoverOK
    <3>7. CASE DiscardWal(p) \/ RollbackTx(p)  BY <3>7, DiscardWalOK
    <3>8. CASE \E g \in Pages : WritePage(p, g)  BY <3>8, WritePageOK
    <3>9. CASE Begin(p)  BY <3>9, BeginOK
    <3>10. CASE FinishCommit(p)  BY <3>10, FinishCommitOK
    <3>11. CASE Close(p) \/ Killed(p)  BY <3>11, EndJobOK DEF Close, Killed
    <3>12. CASE \E D \in (SUBSET Pages) \ {{}} : LogPages(p, D)  BY <3>12, LogPagesOK
    <3>13. CASE CheckPages(p)  BY <3>13, CheckPagesOK
    <3>14. CASE OpenCopy(p)  BY <3>14, OpenCopyOK
    <3>15. CASE CopyDone(p)  BY <3>15, CopyDoneOK
    <3>16. CASE \E g \in Pages : CopyPage(p, g)  BY <3>16, CopyPageOK
    <3>17. CASE Unlink(p)  BY <3>17, UnlinkOK
    <3>18. CASE UnlinkWal(p)  BY <3>18, UnlinkWalOK
    <3> QED
      BY <2>3, <3>1, <3>2, <3>3, <3>4, <3>5, <3>6, <3>7, <3>8, <3>9, <3>10, <3>11, <3>12, <3>13, <3>14, <3>15,
         <3>16, <3>17, <3>18 DEF Step
  <2> QED  BY <2>1, <2>2, <2>3
<1> QED  BY <1>1, <1>2

\* The inductive invariant holds in every state of supported use: whatever
\* processes are killed between whatever system calls, recovery by name makes of
\* each file what its clients may see (Pager::open, commit, run_backup).
THEOREM Invariance ==
  ASSUME Supported
  PROVE  Spec => []IInv
<1>1. Init => IInv  BY Initially
<1>2. IInv /\ [Next]_vars => IInv'  BY Inductive
<1> QED  BY <1>1, <1>2, PTL DEF Spec

\* What is answered for a database is true of its file: a transaction starts
\* from what its clients were last told, and what init, verify, backup or
\* restore answer OK for is whole.
THEOREM DatabasesAreWhole ==
  ASSUME Supported
  PROVE  Spec => []OnlyWholeDatabases
<1>1. ASSUME IInv  PROVE OnlyWholeDatabases
  <2>1. ASSUME NEW p \in Procs, proc[p].pc = "ready", proc[p].job.kind = "tx"
        PROVE  content[proc[p].db] \in allowed[proc[p].db]
    <3>1. PICK f : f = proc[p].db  OBVIOUS
    <3>2. PICK b : b = proc[p].job.path  OBVIOUS
    <3>3. proc[p].pc \in Reading /\ proc[p].pc # "copy"  BY <2>1 DEF Reading
    <3>4. Redone(f, b) \in allowed[f] /\ content[f] \in [Pages -> 0..MaxVer \cup {Absent}]
      BY <1>1, <2>1, <3>1, <3>2, <3>3, InUse
    <3>5. walDir[b] = None  BY <1>1, <2>1, <3>2 DEF IInv, ProcOK, WalKnown, Quiet
    <3>6. Redone(f, b) = content[f]  BY <3>4, <3>5 DEF Redone
    <3> QED  BY <3>1, <3>4, <3>6
  <2>2. ASSUME NEW p \in Procs, proc[p].pc = "good"
        PROVE  content[proc[p].db] \in allowed[proc[p].db]
    <3>1. PICK f : f = proc[p].db  OBVIOUS
    <3>2. PICK b : b = proc[p].job.path  OBVIOUS
    <3>3. TypeOK /\ ShapeOK(proc[p]) /\ JobOK(p) /\ FileOpenOK(p) /\ WalKnown(p)  BY <1>1 DEF IInv, ProcOK
    <3>4. f \in Inodes /\ b \in Paths /\ Of(f, b)  BY <2>2, <3>1, <3>2, <3>3, JobUses, Typed DEF ShapeOK, Of
    <3>5. AllThere(f)  BY <2>2, <3>1, <3>3 DEF FileOpenOK, AllThere
    <3>6. FileOK(f, b)  BY <1>1, <3>4 DEF IInv
    <3>7. walDir[b] = None  BY <2>2, <3>2, <3>3 DEF WalKnown, Quiet
    <3>8. content[f] \in [Pages -> 0..MaxVer \cup {Absent}]  BY <3>3, <3>4 DEF TypeOK, Contents
    <3>9. Redone(f, b) = content[f]  BY <3>7, <3>8 DEF Redone
    <3> QED  BY <3>1, <3>4, <3>5, <3>6, <3>9 DEF FileOK
  <2> QED  BY <1>1, <2>1, <2>2 DEF IInv, OnlyWholeDatabases, ServesCommitted, GoodIsCommitted, At
<1>2. IInv => OnlyWholeDatabases  BY <1>1
<1> QED  BY <1>2, Invariance, PTL

\* While a commit writes to the .db that has its name, the WAL that can redo it
\* has its name too: the .wal is removed after the pages are written.
THEOREM RedoHolds ==
  ASSUME Supported
  PROVE  Spec => []RedoByName
<1>1. ASSUME IInv  PROVE RedoByName
  <2> SUFFICES ASSUME NEW p \in Procs, proc[p].pc = "apply"  PROVE walDir[proc[p].job.path] = proc[p].wal
    BY DEF RedoByName, At
  <2> QED  BY <1>1 DEF IInv, ProcOK, WalKnown
<1>2. IInv => RedoByName  BY <1>1
<1> QED  BY <1>2, Invariance, PTL
=============================================================================
