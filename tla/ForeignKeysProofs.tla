------------------------- MODULE ForeignKeysProofs -------------------------
(***************************************************************************)
(* Proofs about ForeignKeys for every set of tables and every schema, with *)
(* any cycle of foreign keys in it: the types, that every index has        *)
(* exactly the entries of the rows, that no statement leaves an orphan,    *)
(* that a cascade writes nothing a constraint refuses, and that it changes *)
(* what its actions ask for and no more.  What the hypotheses exclude, the *)
(* README's known limits name.                                             *)
(***************************************************************************)
EXTENDS ForeignKeys, FiniteSetTheorems, TLAPS

\* Failed statements are rolled back, no row references itself when its key
\* changes, and a default of a referencing column is NULL.
Supported ==
  /\ ~KeepPartial /\ SelfMoves = {}
  /\ \A s \in Schemas : \A i \in 1..Len(s) : s[i].default \in {NULL, NoDefault}

-----------------------------------------------------------------------------
(* The invariant, over the rows R and the indexes X of a state.            *)

RowsOK(R) ==
  /\ R = [t \in Tables |-> R[t]]
  /\ \A t \in Tables : R[t] \in [Pks -> Rows(t) \cup {Absent}]

IndexOK(R, X) ==
  /\ X \in [Cols -> SUBSET (Pks \X Pks)]
  /\ \A i \in Cols : fks[i].index => \A v, p \in Pks :
       <<v, p>> \in X[i] <=> R[fks[i].table][p] # Absent /\ R[fks[i].table][p][i] = v

\* Every reference is to a row that is there.
Sound(R) ==
  \A t \in Tables : \A p \in Pks : \A i \in ColsOf(t) :
    R[t][p] # Absent /\ R[t][p][i] # NULL => R[fks[i].parent][R[t][p][i]] # Absent

Queued == {queue[j] : j \in 1..Len(queue)}

StatementOK ==
  /\ stmt.table \in Tables
  /\ stmt.op \in {"delete", "update", "insert"}
  /\ stmt.op = "update" => /\ stmt.to \in [Pks -> Pks]
                           /\ stmt.set \in [ColsOf(stmt.table) -> Vals \cup {Keep}]
  /\ stmt.op = "insert" => stmt.pk \in Pks /\ stmt.row \in Rows(stmt.table)

\* Only a statement of the right kind has a worklist or moves a row.
ControlOK ==
  /\ todo \subseteq Pks
  /\ queue \in Seq(Tables \X Pks) /\ visited \subseteq Tables \X Pks
  /\ next \in 1..(Len(fks) + 1)
  /\ Idle => queue = <<>> /\ visited = {} /\ moving = NoMove /\ next = 1
  /\ ~Idle => StatementOK
  /\ ~Idle /\ stmt.op = "update" => queue = <<>> /\ visited = {}
  /\ moving # NoMove => stmt.op = "update"

\* A statement that fails goes back to a sound state.
SavedOK ==
  ~Idle => RowsOK(saved.rows) /\ IndexOK(saved.rows, saved.index) /\ Sound(saved.rows)

\* A reference is to a row that is there, or to the one that is about to be,
\* or is that of a row that is about to go.
RefsOK ==
  \A t \in Tables : \A p \in Pks : \A i \in ColsOf(t) :
    rows[t][p] # Absent /\ rows[t][p][i] # NULL =>
      \/ rows[fks[i].parent][rows[t][p][i]] # Absent
      \/ moving # NoMove /\ fks[i].parent = stmt.table /\ rows[t][p][i] = moving.to
      \/ <<t, p>> \in Queued

\* Rows that were visited and are there are still queued, and so are those
\* that reference the row at hand by a foreign key already looked at.
VisitOK ==
  /\ \A x \in visited : rows[x[1]][x[2]] # Absent => x \in Queued
  /\ queue # <<>> => \A t \in Tables : \A p \in Pks : \A i \in ColsOf(t) :
       i < next /\ fks[i].parent = HeadTable /\ rows[t][p] # Absent
         /\ rows[t][p][i] = HeadPk => <<t, p>> \in Queued

\* The row that moves is as it was read, and nothing references it by a
\* foreign key already looked at.
MoveOK ==
  moving # NoMove =>
    LET t == stmt.table IN
    /\ moving.from \in Pks /\ moving.to \in Pks \ todo /\ moving.from \notin todo
    /\ moving.from # moving.to
    /\ rows[t][moving.from] # Absent /\ rows[t][moving.to] = Absent
    /\ rows[t][moving.from] = moving.old
    /\ moving.old \in Rows(t) /\ moving.new \in Rows(t)
    /\ \A i \in ColsOf(t) : fks[i].parent = t =>
         moving.old[i] # moving.from /\ moving.new[i] # moving.from
    /\ \A i \in ColsOf(t) : moving.new[i] # NULL =>
         rows[fks[i].parent][moving.new[i]] # Absent
    /\ \A u \in Tables : \A p \in Pks : \A i \in ColsOf(u) :
         i < next /\ fks[i].parent = t /\ rows[u][p] # Absent => rows[u][p][i] # moving.from

\* The rows an UPDATE has still to handle are there, and those whose keys it
\* changes do not reference themselves, before or after.
TodoOK ==
  ~Idle /\ stmt.op = "update" => \A p \in todo :
    /\ rows[stmt.table][p] # Absent
    /\ stmt.to[p] # p => \A i \in ColsOf(stmt.table) : fks[i].parent = stmt.table =>
         rows[stmt.table][p][i] # p /\ stmt.set[i] # p

IInv ==
  /\ fks \in Schemas
  /\ RowsOK(rows) /\ IndexOK(rows, index)
  /\ ControlOK /\ SavedOK
  /\ RefsOK /\ VisitOK /\ MoveOK /\ TodoOK

-----------------------------------------------------------------------------
(* Foreign keys, rows and indexes.                                         *)

LEMMA FkFacts ==
  ASSUME fks \in Schemas
  PROVE  /\ Len(fks) \in Nat /\ Cols = 1..Len(fks)
         /\ \A i \in Cols :
              /\ fks[i].table \in Tables /\ fks[i].parent \in Tables
              /\ fks[i].check \subseteq Vals /\ NoDefault \notin fks[i].check
              /\ fks[i].index \in BOOLEAN
              /\ fks[i].on_delete \in {"RESTRICT", "CASCADE", "SET NULL", "SET DEFAULT"}
              /\ fks[i].on_update \in {"RESTRICT", "CASCADE", "SET NULL", "SET DEFAULT"}
              /\ i \in ColsOf(fks[i].table)
         /\ \A t : Absent \notin Rows(t) /\ ColsOf(t) \subseteq Cols
<1>1. /\ fks \in Seq(FkMeta)
      /\ \A C \in SUBSET (1..Len(fks)) : Absent \notin [C -> Vals]
  BY ForeignKeysAssumption
<1>2. Len(fks) \in Nat /\ Cols = 1..Len(fks)
  BY <1>1 DEF Cols
<1>3. ASSUME NEW t PROVE Absent \notin Rows(t) /\ ColsOf(t) \subseteq Cols
  BY <1>1, <1>2 DEF Rows, ColsOf
<1>4. ASSUME NEW i \in Cols PROVE fks[i] \in FkMeta
  BY <1>1, <1>2
<1> QED
  BY <1>2, <1>3, <1>4, ForeignKeysAssumption DEF FkMeta, ColsOf

LEMMA ValFacts ==
  /\ NULL \notin Pks /\ Pks \subseteq Vals /\ NULL \in Vals
  /\ \A v \in Vals : v \in Pks \/ v = NULL
BY ForeignKeysAssumption DEF Vals

\* What a row of a table is.
LEMMA RowFacts ==
  ASSUME fks \in Schemas, NEW R, RowsOK(R), NEW t \in Tables, NEW p \in Pks, R[t][p] # Absent
  PROVE  R[t][p] \in Rows(t) /\ \A i \in ColsOf(t) : R[t][p][i] \in Vals
BY DEF RowsOK, Rows

\* The children a cascade looks up are the rows that hold the key.
LEMMA ChildrenFacts ==
  ASSUME fks \in Schemas, RowsOK(rows), IndexOK(rows, index),
         NEW i \in Cols, NEW v \in Pks
  PROVE  Children(i, v) = {p \in Pks : /\ rows[fks[i].table][p] # Absent
                                       /\ rows[fks[i].table][p][i] = v}
<1>1. CASE fks[i].index
  BY <1>1 DEF Children, IndexOK
<1>2. CASE ~fks[i].index
  BY <1>2 DEF Children, Live
<1> QED BY <1>1, <1>2

LEMMA IndexedFacts ==
  ASSUME fks \in Schemas, NEW X \in [Cols -> SUBSET (Pks \X Pks)],
         NEW t \in Tables, NEW p \in Pks, NEW r \in Rows(t)
  PROVE  /\ Indexed(X, t, p, r) \in [Cols -> SUBSET (Pks \X Pks)]
         /\ \A i \in Cols : \A v, q \in Pks :
              <<v, q>> \in Indexed(X, t, p, r)[i] <=>
                \/ <<v, q>> \in X[i]
                \/ fks[i].table = t /\ fks[i].index /\ q = p /\ r[i] = v
<1>1. ASSUME NEW i \in Cols
      PROVE  i \in ColsOf(t) <=> fks[i].table = t
  BY DEF ColsOf
<1>2. ASSUME NEW i \in Cols, i \in ColsOf(t), r[i] # NULL
      PROVE  r[i] \in Pks
  BY <1>2, ValFacts DEF Rows
<1>3. ASSUME NEW i \in Cols
      PROVE  /\ Indexed(X, t, p, r)[i] \subseteq Pks \X Pks
             /\ \A v, q \in Pks :
                  <<v, q>> \in Indexed(X, t, p, r)[i] <=>
                    \/ <<v, q>> \in X[i]
                    \/ fks[i].table = t /\ fks[i].index /\ q = p /\ r[i] = v
  BY <1>1, <1>2, ValFacts DEF Indexed
<1> QED BY <1>3 DEF Indexed

LEMMA UnindexedFacts ==
  ASSUME fks \in Schemas, NEW X \in [Cols -> SUBSET (Pks \X Pks)],
         NEW t \in Tables, NEW p \in Pks, NEW r \in Rows(t)
  PROVE  /\ Unindexed(X, t, p, r) \in [Cols -> SUBSET (Pks \X Pks)]
         /\ \A i \in Cols : \A v, q \in Pks :
              <<v, q>> \in Unindexed(X, t, p, r)[i] <=>
                <<v, q>> \in X[i] /\ ~(fks[i].table = t /\ q = p /\ r[i] = v)
<1>1. ASSUME NEW i \in Cols
      PROVE  i \in ColsOf(t) <=> fks[i].table = t
  BY DEF ColsOf
<1>2. ASSUME NEW i \in Cols
      PROVE  /\ Unindexed(X, t, p, r)[i] \subseteq Pks \X Pks
             /\ \A v, q \in Pks :
                  <<v, q>> \in Unindexed(X, t, p, r)[i] <=>
                    <<v, q>> \in X[i] /\ ~(fks[i].table = t /\ q = p /\ r[i] = v)
  BY <1>1 DEF Unindexed
<1> QED BY <1>2 DEF Unindexed

\* One row put at a key, or taken from it.
LEMMA PutFacts ==
  ASSUME fks \in Schemas, fks' = fks, RowsOK(rows),
         NEW t \in Tables, NEW p \in Pks, NEW r \in Rows(t) \cup {Absent},
         rows' = [rows EXCEPT ![t][p] = r]
  PROVE  /\ RowsOK(rows)'
         /\ \A u \in Tables : \A q \in Pks :
              rows'[u][q] = IF u = t /\ q = p THEN r ELSE rows[u][q]
<1>1. \A u \in Tables : Rows(u)' = Rows(u)
  BY DEF Rows, ColsOf, Cols
<1>2. /\ rows' = [u \in Tables |-> IF u = t THEN [rows[t] EXCEPT ![p] = r] ELSE rows[u]]
      /\ \A u \in Tables : rows[u] \in [Pks -> Rows(u) \cup {Absent}]
  BY DEF RowsOK
<1>3. \A u \in Tables : \A q \in Pks :
        rows'[u][q] = IF u = t /\ q = p THEN r ELSE rows[u][q]
  BY <1>2
<1>4. \A u \in Tables : rows'[u] \in [Pks -> Rows(u) \cup {Absent}]
  BY <1>2
<1>5. rows' = [u \in Tables |-> rows'[u]]
  BY <1>2
<1> QED BY <1>1, <1>3, <1>4, <1>5 DEF RowsOK

\* A cascade sets one column of some rows, and its index with them.
LEMMA SetColumnFacts ==
  ASSUME fks \in Schemas, fks' = fks, RowsOK(rows), IndexOK(rows, index),
         NEW i \in Cols, NEW cs \in SUBSET Pks, NEW v,
         CanSet(i, cs, v), SetColumn(i, cs, v)
  PROVE  /\ RowsOK(rows)' /\ IndexOK(rows, index)'
         /\ \A u \in Tables : \A q \in Pks :
              /\ rows'[u][q] # Absent <=> rows[u][q] # Absent
              /\ rows[u][q] # Absent => \A j \in ColsOf(u) :
                   rows'[u][q][j] = IF j = i /\ q \in Changed(i, cs, v) THEN v
                                    ELSE rows[u][q][j]
<1> DEFINE t == fks[i].table
           changed == Changed(i, cs, v)
           row(q) == IF q \in changed THEN [rows[t][q] EXCEPT ![i] = v] ELSE rows[t][q]
<1>1. /\ t \in Tables /\ i \in ColsOf(t) /\ ColsOf(t) \subseteq Cols
      /\ \A u \in Tables : Absent \notin Rows(u)
  BY FkFacts
<1>2. \A q \in changed : /\ q \in Pks /\ rows[t][q] # Absent
                         /\ rows[t][q] \in Rows(t) /\ rows[t][q][i] # v
                         /\ rows[t][q][i] \in Vals /\ v \in Vals
  BY <1>1, RowFacts, FkFacts DEF Changed, CanSet, Live, Rows
<1>3. /\ rows' = [rows EXCEPT ![t] = [q \in Pks |-> row(q)]]
      /\ index' = [index EXCEPT ![i] =
                     IF ~fks[i].index THEN @
                     ELSE (@ \ {<<rows[t][p][i], p>> : p \in changed})
                          \cup (IF v = NULL THEN {} ELSE {<<v, p>> : p \in changed})]
  BY DEF SetColumn
<1>4. \A u \in Tables : Rows(u)' = Rows(u) /\ ColsOf(u)' = ColsOf(u)
  BY DEF Rows, ColsOf, Cols
<1>5. \A u \in Tables : \A q \in Pks : rows'[u][q] = IF u = t THEN row(q) ELSE rows[u][q]
  BY <1>1, <1>3 DEF RowsOK
<1>6. \A q \in changed : row(q) \in Rows(t)
  BY <1>1, <1>2 DEF Rows
<1>7. RowsOK(rows)'
  <2>1. \A q \in Pks : row(q) \in Rows(t) \cup {Absent}
    BY <1>1, <1>6 DEF RowsOK
  <2>2. rows' = [u \in Tables |-> IF u = t THEN [q \in Pks |-> row(q)] ELSE rows[u]]
    BY <1>1, <1>3 DEF RowsOK
  <2>3. \A u \in Tables : rows'[u] \in [Pks -> Rows(u) \cup {Absent}]
    <3> HIDE DEF row
    <3> QED BY <2>1, <2>2 DEF RowsOK
  <2>4. rows' = [u \in Tables |-> rows'[u]]
    BY <2>2
  <2> QED BY <1>4, <2>3, <2>4 DEF RowsOK
<1>8. ASSUME NEW u \in Tables, NEW q \in Pks
      PROVE  rows'[u][q] # Absent <=> rows[u][q] # Absent
  <2>1. CASE u = t /\ q \in changed
    <3>1. rows'[u][q] = row(q)
      BY <1>5, <2>1
    <3> HIDE DEF row, changed
    <3> QED BY <1>1, <1>2, <1>6, <2>1, <3>1
  <2>2. CASE ~(u = t /\ q \in changed)
    BY <1>5, <2>2
  <2> QED BY <2>1, <2>2
<1>9. ASSUME NEW u \in Tables, NEW q \in Pks, rows[u][q] # Absent, NEW j \in ColsOf(u)
      PROVE  rows'[u][q][j] = IF j = i /\ q \in changed THEN v ELSE rows[u][q][j]
  <2>1. u = t \/ j # i
    BY DEF ColsOf
  <2>2. CASE u # t
    BY <1>5, <2>1, <2>2
  <2>3. CASE u = t /\ q \in changed
    BY <1>2, <1>5, <2>3 DEF Rows
  <2>4. CASE u = t /\ q \notin changed
    BY <1>5, <2>4
  <2> QED BY <2>2, <2>3, <2>4
<1>10. IndexOK(rows, index)'
  <2>1. Cols' = Cols
    BY DEF Cols
  <2>2. \A p \in changed : v # NULL => v \in Pks
    BY <1>2, ValFacts
  <2>3. index' \in [Cols -> SUBSET (Pks \X Pks)]
    <3>1. {<<v, p>> : p \in changed} \subseteq Pks \X Pks \/ v = NULL
      BY <1>2, <2>2
    <3> QED BY <1>3, <3>1 DEF IndexOK
  <2>4. ASSUME NEW j \in Cols, fks[j].index, NEW w \in Pks, NEW p \in Pks
        PROVE  <<w, p>> \in index'[j] <=> /\ rows'[fks[j].table][p] # Absent
                                          /\ rows'[fks[j].table][p][j] = w
    <3>1. fks[j].table \in Tables /\ j \in ColsOf(fks[j].table)
      BY FkFacts
    <3>2. <<w, p>> \in index[j] <=> /\ rows[fks[j].table][p] # Absent
                                    /\ rows[fks[j].table][p][j] = w
      BY <2>4 DEF IndexOK
    <3>3. CASE j # i
      BY <1>3, <1>8, <1>9, <3>1, <3>2, <3>3 DEF IndexOK
    <3>4. CASE j = i
      <4>1. <<w, p>> \in index'[i] <=>
              \/ <<w, p>> \in index[i] /\ ~(p \in changed /\ w = rows[t][p][i])
              \/ v # NULL /\ w = v /\ p \in changed
        <5> HIDE DEF changed
        <5> QED BY <1>3, <2>4, <3>4 DEF IndexOK
      <4>2. CASE p \in changed
        BY <1>2, <1>8, <1>9, <3>1, <3>2, <3>4, <4>1, <4>2, ValFacts
      <4>3. CASE p \notin changed
        BY <1>8, <1>9, <3>1, <3>2, <3>4, <4>1, <4>3
      <4> QED BY <4>2, <4>3
    <3> QED BY <3>3, <3>4
  <2> QED BY <2>1, <2>3, <2>4 DEF IndexOK
<1> QED BY <1>7, <1>8, <1>9, <1>10

\* Taking the first of a queue, and adding to its end.
LEMMA TailFacts ==
  ASSUME queue \in Seq(Tables \X Pks), queue # <<>>, queue' = Tail(queue)
  PROVE  /\ queue' \in Seq(Tables \X Pks)
         /\ Head(queue) \in Tables \X Pks /\ Head(queue) \in Queued
         /\ \A x : x \in Queued => x = Head(queue) \/ x \in Queued'
         /\ \A x : x \in Queued' => x \in Queued
<1>1. Len(queue) \in Nat /\ Len(queue) > 0 /\ Head(queue) = queue[1]
  OBVIOUS
<1>2. /\ Tail(queue) \in Seq(Tables \X Pks) /\ Len(Tail(queue)) = Len(queue) - 1
      /\ \A j \in 1..(Len(queue) - 1) : Tail(queue)[j] = queue[j + 1]
  BY <1>1
<1>3. ASSUME NEW j \in 1..Len(queue)
      PROVE  queue[j] = Head(queue) \/ queue[j] \in Queued'
  <2>1. CASE j = 1
    BY <1>1, <2>1
  <2>2. CASE j # 1
    <3>1. j - 1 \in 1..Len(queue') /\ queue'[j - 1] = queue[j]
      BY <1>1, <1>2, <2>2
    <3> QED BY <3>1 DEF Queued
  <2> QED BY <2>1, <2>2
<1>4. Head(queue) \in Tables \X Pks /\ Head(queue) \in Queued
  BY <1>1 DEF Queued
<1>5. ASSUME NEW j \in 1..Len(queue') PROVE queue'[j] \in Queued
  <2>1. j \in 1..(Len(queue) - 1) /\ j + 1 \in 1..Len(queue)
    BY <1>1, <1>2
  <2>2. queue'[j] = queue[j + 1]
    BY <1>2, <2>1
  <2> QED BY <2>1, <2>2 DEF Queued
<1> QED BY <1>2, <1>3, <1>4, <1>5 DEF Queued

LEMMA AppendFacts ==
  ASSUME queue \in Seq(Tables \X Pks), NEW s \in Seq(Tables \X Pks), queue' = queue \o s
  PROVE  /\ queue' \in Seq(Tables \X Pks)
         /\ \A x : x \in Queued => x \in Queued'
         /\ \A j \in 1..Len(s) : s[j] \in Queued'
         /\ \A x : x \in Queued' => x \in Queued \/ \E j \in 1..Len(s) : x = s[j]
         /\ queue # <<>> => queue' # <<>> /\ Head(queue') = Head(queue)
<1>1. /\ Len(queue) \in Nat /\ Len(s) \in Nat
      /\ queue \o s \in Seq(Tables \X Pks) /\ Len(queue \o s) = Len(queue) + Len(s)
      /\ \A j \in 1..(Len(queue) + Len(s)) :
           (queue \o s)[j] = IF j <= Len(queue) THEN queue[j] ELSE s[j - Len(queue)]
  OBVIOUS
<1>2. ASSUME NEW j \in 1..Len(queue) PROVE queue[j] \in Queued'
  <2>1. j \in 1..Len(queue') /\ queue'[j] = queue[j]
    BY <1>1
  <2> QED BY <2>1 DEF Queued
<1>3. ASSUME NEW j \in 1..Len(s) PROVE s[j] \in Queued'
  <2>1. j + Len(queue) \in 1..Len(queue') /\ queue'[j + Len(queue)] = s[j]
    BY <1>1
  <2> QED BY <2>1 DEF Queued
<1>4. queue # <<>> => queue' # <<>> /\ Head(queue') = Head(queue)
  BY <1>1
<1>5. ASSUME NEW j \in 1..Len(queue')
      PROVE  queue'[j] \in Queued \/ \E k \in 1..Len(s) : queue'[j] = s[k]
  <2>1. CASE j <= Len(queue)
    <3>1. j \in 1..Len(queue) /\ queue'[j] = queue[j]
      BY <1>1, <2>1
    <3> QED BY <3>1 DEF Queued
  <2>2. CASE ~(j <= Len(queue))
    <3>1. j - Len(queue) \in 1..Len(s) /\ queue'[j] = s[j - Len(queue)]
      BY <1>1, <2>2
    <3> QED BY <3>1
  <2> QED BY <2>1, <2>2
<1> QED BY <1>1, <1>2, <1>3, <1>4, <1>5 DEF Queued

-----------------------------------------------------------------------------
(* Steps: what they share, then one lemma for each.                        *)

LEMMA SameFks ==
  ASSUME fks' = fks
  PROVE  /\ Len(fks)' = Len(fks) /\ Cols' = Cols
         /\ \A t : ColsOf(t)' = ColsOf(t) /\ Rows(t)' = Rows(t)
BY DEF Cols, ColsOf, Rows

LEMMA NextFk ==
  ASSUME fks \in Schemas, fks' = fks, NEW i \in Cols, next' = i + 1
  PROVE  next' \in 1..(Len(fks') + 1)
<1>1. Len(fks) \in Nat /\ i \in 1..Len(fks)
  BY FkFacts
<1> QED BY <1>1

LEMMA SameRows ==
  ASSUME UNCHANGED <<fks, rows, index>>, RowsOK(rows), IndexOK(rows, index)
  PROVE  RowsOK(rows)' /\ IndexOK(rows, index)'
<1>1. RowsOK(rows)'
  BY SameFks DEF RowsOK
<1>2. IndexOK(rows, index)'
  BY SameFks DEF IndexOK
<1> QED BY <1>1, <1>2

LEMMA SameSaved ==
  ASSUME SavedOK, UNCHANGED <<fks, stmt, saved>>
  PROVE  SavedOK'
<1>1. RowsOK(saved.rows) => RowsOK(saved.rows)'
  BY SameFks DEF RowsOK
<1>2. IndexOK(saved.rows, saved.index) => IndexOK(saved.rows, saved.index)'
  BY SameFks DEF IndexOK
<1>3. Sound(saved.rows) => Sound(saved.rows)'
  BY SameFks DEF Sound
<1> QED BY <1>1, <1>2, <1>3 DEF SavedOK, Idle

\* Without a worklist and a move, no reference is excused.
LEMMA RefsAreSound ==
  ASSUME RefsOK, queue = <<>>, moving = NoMove
  PROVE  Sound(rows)
BY DEF RefsOK, Sound, Queued

LEMMA EndStep ==
  ASSUME fks \in Schemas, Ended, RowsOK(rows)', IndexOK(rows, index)', Sound(rows)'
  PROVE  IInv'
<1>1. fks' = fks /\ fks' \in Schemas
  BY DEF Ended
<1>2. ControlOK'
  <2>0. Len(fks) \in Nat
    BY FkFacts
  <2>1. 1 \in 1..(Len(fks) + 1)
    BY <2>0
  <2> QED BY <1>1, <2>1 DEF ControlOK, Ended, Idle
<1>3. SavedOK' /\ TodoOK'
  BY DEF SavedOK, TodoOK, Ended, Idle
<1>4. RefsOK'
  BY DEF RefsOK, Sound
<1>5. VisitOK' /\ MoveOK'
  BY DEF VisitOK, MoveOK, Ended
<1> QED BY <1>1, <1>2, <1>3, <1>4, <1>5 DEF IInv

LEMMA FailStep ==
  ASSUME Supported, IInv, ~Idle, Fail
  PROVE  IInv'
<1>1. fks' = fks /\ rows' = saved.rows /\ index' = saved.index /\ Ended
  BY DEF Fail, Ended, Supported
<1>2. RowsOK(saved.rows) /\ IndexOK(saved.rows, saved.index) /\ Sound(saved.rows)
  BY DEF IInv, SavedOK
<1>3. RowsOK(rows)'
  BY <1>1, <1>2, SameFks DEF RowsOK
<1>4. IndexOK(rows, index)'
  BY <1>1, <1>2, SameFks DEF IndexOK
<1>5. Sound(rows)'
  BY <1>1, <1>2, SameFks DEF Sound
<1> QED BY <1>1, <1>3, <1>4, <1>5, EndStep DEF IInv

LEMMA InitInv ==
  ASSUME Init
  PROVE  IInv
<1>1. fks \in Schemas
  BY DEF Init
<1>2. /\ rows = [t \in Tables |-> [p \in Pks |-> Absent]]
      /\ \A t \in Tables : \A p \in Pks : rows[t][p] = Absent
  BY DEF Init
<1>3. RowsOK(rows)
  BY <1>2 DEF RowsOK
<1>4. IndexOK(rows, index)
  BY <1>1, <1>2, FkFacts DEF IndexOK, Init
<1>5. ControlOK
  <2>0. Len(fks) \in Nat
    BY <1>1, FkFacts
  <2>1. 1 \in 1..(Len(fks) + 1)
    BY <2>0
  <2> QED BY <2>1 DEF Init, ControlOK, Idle
<1>6. SavedOK /\ TodoOK
  BY DEF Init, SavedOK, TodoOK, Idle
<1>7. RefsOK
  BY <1>2 DEF RefsOK
<1>8. VisitOK /\ MoveOK
  BY DEF VisitOK, MoveOK, Init
<1> QED BY <1>1, <1>3, <1>4, <1>5, <1>6, <1>7, <1>8 DEF IInv

LEMMA BeginFacts ==
  ASSUME IInv, NEW s, NEW targets \in SUBSET Pks, Begin(s, targets),
         StatementOK', TodoOK'
  PROVE  IInv'
<1>1. /\ UNCHANGED <<fks, rows, index, queue, visited, moving, next>>
      /\ queue = <<>> /\ visited = {} /\ moving = NoMove /\ next = 1
  BY DEF Begin, IInv, ControlOK
<1>2. RowsOK(rows)' /\ IndexOK(rows, index)'
  BY <1>1, SameRows DEF IInv
<1>3. ControlOK'
  BY <1>1, FkFacts DEF IInv, ControlOK, Begin, Idle
<1>4. Sound(rows)
  BY <1>1, RefsAreSound DEF IInv
<1>5. SavedOK'
  <2>1. saved'.rows = rows /\ saved'.index = index
    BY DEF Begin
  <2>2. RowsOK(saved.rows)'
    BY <1>1, <2>1, SameFks DEF IInv, RowsOK
  <2>3. IndexOK(saved.rows, saved.index)'
    BY <1>1, <2>1, SameFks DEF IInv, IndexOK
  <2>4. Sound(saved.rows)'
    BY <1>1, <1>4, <2>1, SameFks DEF Sound
  <2> QED BY <2>2, <2>3, <2>4 DEF SavedOK
<1>6. RefsOK'
  BY <1>1, <1>4 DEF RefsOK, Sound, ColsOf, Cols
<1>7. VisitOK' /\ MoveOK'
  BY <1>1 DEF VisitOK, MoveOK
<1> QED BY <1>1, <1>2, <1>3, <1>5, <1>6, <1>7 DEF IInv

LEMMA BeginStep ==
  ASSUME Supported, IInv, NEW t \in Tables,
         \/ \E s \in Deletes : BeginDelete(s)
         \/ \E s \in Updates(t) : BeginUpdate(s)
         \/ \E s \in Inserts(t) : BeginInsert(s)
  PROVE  IInv'
<1>1. ASSUME NEW s \in Deletes, BeginDelete(s) PROVE IInv'
  <2>1. /\ stmt' = s /\ s.targets \in SUBSET Pks /\ s.op = "delete" /\ s.table \in Tables
        /\ Begin(s, s.targets)
    BY <1>1 DEF BeginDelete, Begin, Deletes
  <2>2. StatementOK' /\ TodoOK'
    BY <2>1 DEF StatementOK, TodoOK
  <2> QED BY <2>1, <2>2, BeginFacts
<1>2. ASSUME NEW s \in Updates(t), BeginUpdate(s) PROVE IInv'
  <2>1. /\ stmt' = s /\ todo' = s.targets /\ UNCHANGED <<fks, rows>>
        /\ s.targets \in SUBSET Live(t) /\ s.op = "update" /\ s.table = t
        /\ s.to \in [Pks -> Pks] /\ s.set \in [ColsOf(t) -> Vals \cup {Keep}]
        /\ Begin(s, s.targets) /\ MovesOthers(s)
    BY <1>2 DEF BeginUpdate, Begin, Updates
  <2>2. s.targets \in SUBSET Pks
    BY <2>1 DEF Live
  <2>3. StatementOK'
    BY <2>1 DEF StatementOK, ColsOf, Cols
  <2>4. TodoOK'
    BY <2>1 DEF TodoOK, MovesOthers, Live, Supported, ColsOf, Cols
  <2> QED BY <2>1, <2>2, <2>3, <2>4, BeginFacts
<1>3. ASSUME NEW s \in Inserts(t), BeginInsert(s) PROVE IInv'
  <2> DEFINE targets == IF s.on_conflict = "replace" THEN Conflicts(s.table, s.pk, s.row) ELSE {}
  <2>1. /\ stmt' = s /\ s.op = "insert" /\ s.table = t
        /\ s.pk \in Pks /\ s.row \in Rows(t) /\ UNCHANGED fks
        /\ Begin(s, targets)
    BY <1>3 DEF BeginInsert, Begin, Inserts
  <2>2. targets \in SUBSET Pks
    BY DEF Conflicts, Live
  <2>3. StatementOK' /\ TodoOK'
    BY <2>1 DEF StatementOK, TodoOK, Rows, ColsOf, Cols
  <2> QED BY <2>1, <2>2, <2>3, BeginFacts
<1> QED BY <1>1, <1>2, <1>3

LEMMA SkipRowStep ==
  ASSUME IInv, NEW p \in Pks, SkipRow(p)
  PROVE  IInv'
<1>1. /\ UNCHANGED <<fks, rows, index, stmt, queue, visited, moving, next, saved>>
      /\ todo' = todo \ {p} /\ moving = NoMove /\ queue = <<>>
  BY DEF SkipRow, Target, AtRow
<1>2. RowsOK(rows)' /\ IndexOK(rows, index)' /\ SavedOK'
  BY <1>1, SameRows, SameSaved DEF IInv
<1>3. ControlOK'
  BY <1>1 DEF IInv, ControlOK, Idle, StatementOK, Rows, ColsOf, Cols
<1>4. RefsOK' /\ VisitOK'
  BY <1>1 DEF IInv, RefsOK, VisitOK, Queued, ColsOf, Cols
<1>5. MoveOK' /\ TodoOK'
  BY <1>1 DEF IInv, MoveOK, TodoOK, ColsOf, Cols, Idle
<1> QED BY <1>1, <1>2, <1>3, <1>4, <1>5 DEF IInv

\* The row at hand is one of the rows, and only DELETE and REPLACE have one.
LEMMA HeadFacts ==
  ASSUME IInv, queue # <<>>
  PROVE  /\ HeadTable \in Tables /\ HeadPk \in Pks
         /\ Head(queue) = <<HeadTable, HeadPk>> /\ Head(queue) \in Queued
         /\ ~Idle /\ stmt.op # "update" /\ moving = NoMove
<1>1. queue \in Seq(Tables \X Pks)
  BY DEF IInv, ControlOK
<1>2. Len(queue) \in Nat /\ Len(queue) > 0 /\ Head(queue) = queue[1]
  BY <1>1
<1>3. Head(queue) \in Tables \X Pks /\ Head(queue) \in Queued
  BY <1>1, <1>2 DEF Queued
<1>4. ~Idle /\ stmt.op # "update" /\ moving = NoMove
  BY DEF IInv, ControlOK
<1> QED BY <1>3, <1>4 DEF HeadTable, HeadPk

LEMMA DeleteTargetStep ==
  ASSUME IInv, NEW p \in Pks, DeleteTarget(p)
  PROVE  IInv'
<1>1. /\ UNCHANGED <<fks, rows, index, stmt, moving, saved>>
      /\ queue = <<>> /\ moving = NoMove /\ ~Idle /\ stmt.op # "update"
      /\ todo' = todo \ {p} /\ next' = 1
      /\ queue' = <<<<stmt.table, p>>>> /\ visited' = {<<stmt.table, p>>}
  BY DEF DeleteTarget, Target, AtRow
<1>2. RowsOK(rows)' /\ IndexOK(rows, index)' /\ SavedOK'
  BY <1>1, SameRows, SameSaved DEF IInv
<1>3. stmt.table \in Tables /\ Len(fks) \in Nat
  BY <1>1, FkFacts DEF IInv, ControlOK, StatementOK
<1>4. ControlOK'
  <2>1. queue' \in Seq(Tables \X Pks) /\ visited' \subseteq Tables \X Pks
    BY <1>1, <1>3
  <2>2. next' \in 1..(Len(fks') + 1)
    BY <1>1, <1>3
  <2>3. StatementOK'
    BY <1>1, SameFks DEF IInv, ControlOK, StatementOK
  <2>4. todo' \subseteq Pks
    BY <1>1 DEF IInv, ControlOK
  <2> QED BY <1>1, <2>1, <2>2, <2>3, <2>4 DEF ControlOK, Idle
<1>5. RefsOK'
  BY <1>1, RefsAreSound, SameFks DEF IInv, RefsOK, Sound
<1>6. VisitOK'
  <2>1. <<stmt.table, p>> \in Queued'
    <3>1. 1 \in 1..Len(queue') /\ queue'[1] = <<stmt.table, p>>
      BY <1>1
    <3> QED BY <3>1 DEF Queued
  <2>2. \A i \in Cols' : ~(i < next')
    BY <1>1, <1>3 DEF Cols
  <2> QED BY <1>1, <2>1, <2>2 DEF VisitOK, ColsOf
<1>7. MoveOK' /\ TodoOK'
  BY <1>1 DEF MoveOK, TodoOK
<1> QED BY <1>1, <1>2, <1>4, <1>5, <1>6, <1>7 DEF IInv

LEMMA SkipFkStep ==
  ASSUME IInv, NEW i \in Cols, SkipFk(i)
  PROVE  IInv'
<1>1. /\ UNCHANGED <<fks, rows, index, stmt, todo, queue, visited, moving, saved>>
      /\ queue # <<>> /\ next = i /\ next' = i + 1 /\ DependentsOf(i) = {}
  BY DEF SkipFk, Visiting
<1>2. RowsOK(rows)' /\ IndexOK(rows, index)' /\ SavedOK'
  BY <1>1, SameRows, SameSaved DEF IInv
<1>3. ControlOK'
  <2>1. next' \in 1..(Len(fks') + 1)
    BY <1>1, NextFk DEF IInv
  <2>2. StatementOK => StatementOK'
    BY <1>1, SameFks DEF StatementOK
  <2> QED BY <1>1, <2>1, <2>2 DEF IInv, ControlOK, Idle
<1>4. RefsOK'
  BY <1>1, SameFks DEF IInv, RefsOK, Queued
<1>5. ASSUME NEW t \in Tables, NEW p \in Pks, i \in ColsOf(t),
             fks[i].parent = HeadTable, rows[t][p] # Absent, rows[t][p][i] = HeadPk
      PROVE  <<t, p>> \in Queued
  <2>1. /\ HeadTable \in Tables /\ HeadPk \in Pks /\ moving = NoMove /\ HeadPk # NULL
        /\ t = fks[i].table
    BY <1>1, <1>5, HeadFacts, ValFacts DEF ColsOf
  <2>2. CASE HeadPk \in Live(HeadTable)
    <3>1. Children(i, HeadPk) = {}
      BY <1>1, <1>5, <2>2 DEF DependentsOf
    <3> QED BY <1>5, <2>1, <3>1, ChildrenFacts DEF IInv
  <2>3. CASE HeadPk \notin Live(HeadTable)
    BY <1>5, <2>1, <2>3 DEF IInv, RefsOK, Live
  <2> QED BY <2>2, <2>3
<1>6. VisitOK'
  <2>1. \A j \in Cols : j < i + 1 => j < i \/ j = i
    BY DEF Cols
  <2>2. Queued' = Queued /\ HeadTable' = HeadTable /\ HeadPk' = HeadPk
    BY <1>1 DEF Queued, HeadTable, HeadPk
  <2>3. \A t : ColsOf(t) \subseteq Cols
    BY DEF ColsOf
  <2> QED BY <1>1, <1>5, <2>1, <2>2, <2>3, SameFks DEF IInv, VisitOK
<1>7. MoveOK' /\ TodoOK'
  BY <1>1, HeadFacts DEF MoveOK, TodoOK
<1> QED BY <1>1, <1>2, <1>3, <1>4, <1>6, <1>7 DEF IInv

LEMMA CascadeDeleteStep ==
  ASSUME IInv, NEW i \in Cols, CascadeDelete(i)
  PROVE  IInv'
<1> DEFINE u == fks[i].table
           new == {p \in DependentsOf(i) : <<u, p>> \notin visited}
<1>1. /\ UNCHANGED <<fks, rows, index, stmt, todo, moving, saved>>
      /\ queue # <<>> /\ next = i /\ next' = i + 1 /\ DependentsOf(i) # {}
      /\ visited' = visited \cup {<<u, p>> : p \in new}
  BY DEF CascadeDelete, Visiting
<1>2. PICK s \in Ascending(new) : queue' = queue \o [j \in DOMAIN s |-> <<u, s[j]>>]
  BY DEF CascadeDelete
<1>3. RowsOK(rows)' /\ IndexOK(rows, index)' /\ SavedOK'
  BY <1>1, SameRows, SameSaved DEF IInv
<1>4. /\ u \in Tables /\ i \in ColsOf(u) /\ new \subseteq Pks
      /\ HeadTable \in Tables /\ HeadPk \in Pks
      /\ fks[i].parent = HeadTable
      /\ DependentsOf(i) = {p \in Pks : rows[u][p] # Absent /\ rows[u][p][i] = HeadPk}
  BY <1>1, FkFacts, HeadFacts, ChildrenFacts DEF IInv, DependentsOf
<1>5. Cardinality(new) \in Nat
  BY <1>4, FS_Subset, FS_CardinalityType, ForeignKeysAssumption
<1>6. /\ [j \in DOMAIN s |-> <<u, s[j]>>] \in Seq(Tables \X Pks)
      /\ \A p \in new : \E j \in 1..Len([k \in DOMAIN s |-> <<u, s[k]>>]) :
            [k \in DOMAIN s |-> <<u, s[k]>>][j] = <<u, p>>
  <2>1. /\ DOMAIN s = 1..Cardinality(new) /\ \A j \in DOMAIN s : s[j] \in new
        /\ \A p \in new : \E j \in DOMAIN s : s[j] = p
    BY DEF Ascending
  <2> DEFINE sq == [j \in 1..Cardinality(new) |-> <<u, s[j]>>]
  <2>2. sq = [j \in DOMAIN s |-> <<u, s[j]>>]
    BY <2>1
  <2>3. \A j \in 1..Cardinality(new) : sq[j] = <<u, s[j]>> /\ sq[j] \in Tables \X Pks
    BY <1>4, <2>1
  <2>4. sq \in Seq(Tables \X Pks) /\ Len(sq) = Cardinality(new)
    <3>1. sq \in [1..Cardinality(new) -> Tables \X Pks]
      BY <2>3
    <3> HIDE DEF sq, new
    <3> QED BY <1>5, <3>1
  <2>5. \A p \in new : \E j \in 1..Len(sq) : sq[j] = <<u, p>>
    BY <2>1, <2>3, <2>4
  <2> HIDE DEF sq, new
  <2> QED BY <2>2, <2>4, <2>5
<1>7. /\ queue' \in Seq(Tables \X Pks)
      /\ \A x : x \in Queued => x \in Queued'
      /\ \A p \in new : <<u, p>> \in Queued'
      /\ queue' # <<>> /\ Head(queue') = Head(queue)
  <2>1. queue \in Seq(Tables \X Pks)
    BY DEF IInv, ControlOK
  <2> QED BY <1>1, <1>2, <1>6, <2>1, AppendFacts
<1>8. ControlOK'
  <2>1. next' \in 1..(Len(fks') + 1)
    BY <1>1, NextFk DEF IInv
  <2>2. StatementOK => StatementOK'
    BY <1>1, SameFks DEF StatementOK
  <2>3. ~Idle /\ stmt.op # "update" /\ moving = NoMove
    BY <1>1, HeadFacts
  <2>4. visited' \subseteq Tables \X Pks
    <3>1. u \in Tables /\ new \subseteq Pks
      BY <1>4
    <3> HIDE DEF new
    <3>2. {<<u, p>> : p \in new} \subseteq Tables \X Pks
      BY <3>1
    <3> QED BY <1>1, <3>2 DEF IInv, ControlOK
  <2> QED BY <1>1, <1>7, <2>1, <2>2, <2>3, <2>4 DEF IInv, ControlOK, Idle
<1>9. RefsOK'
  BY <1>1, <1>7, SameFks DEF IInv, RefsOK
<1>10. VisitOK'
  <2>1. \A j \in Cols : j < i + 1 => j < i \/ j = i
    BY DEF Cols
  <2>2. HeadTable' = HeadTable /\ HeadPk' = HeadPk
    BY <1>7 DEF HeadTable, HeadPk
  <2>3. \A t : ColsOf(t) \subseteq Cols
    BY DEF ColsOf
  <2>4. \A p \in DependentsOf(i) : <<u, p>> \in Queued'
    BY <1>4, <1>7 DEF IInv, VisitOK
  <2>5. \A x \in visited' : rows'[x[1]][x[2]] # Absent => x \in Queued'
    BY <1>1, <1>7 DEF IInv, VisitOK
  <2>6. ASSUME NEW t \in Tables, NEW p \in Pks, NEW j \in ColsOf(t), j < i + 1,
               fks[j].parent = HeadTable, rows[t][p] # Absent, rows[t][p][j] = HeadPk
        PROVE  <<t, p>> \in Queued'
    <3>1. CASE j = i
      BY <1>4, <2>4, <2>6, <3>1 DEF ColsOf
    <3>2. CASE j # i
      BY <1>1, <1>7, <2>1, <2>3, <2>6, <3>2 DEF IInv, VisitOK
    <3> QED BY <3>1, <3>2
  <2> QED BY <1>1, <2>2, <2>5, <2>6, SameFks DEF VisitOK
<1>11. MoveOK' /\ TodoOK'
  BY <1>1, HeadFacts DEF MoveOK, TodoOK
<1> QED BY <1>1, <1>3, <1>8, <1>9, <1>10, <1>11 DEF IInv

LEMMA CascadeSetStep ==
  ASSUME Supported, IInv, NEW i \in Cols, CascadeSet(i)
  PROVE  IInv'
<1> DEFINE u == fks[i].table
           cs == DependentsOf(i)
           v == ActionValue(i, fks[i].on_delete, NULL)
<1>1. /\ UNCHANGED <<fks, stmt, todo, queue, visited, moving, saved>>
      /\ queue # <<>> /\ next = i /\ next' = i + 1 /\ cs # {}
      /\ fks[i].on_delete \in {"SET NULL", "SET DEFAULT"}
      /\ CanSet(i, cs, v) /\ SetColumn(i, cs, v)
  BY DEF CascadeSet, Visiting
<1>2. /\ u \in Tables /\ i \in ColsOf(u) /\ fks \in Schemas
      /\ HeadTable \in Tables /\ HeadPk \in Pks /\ HeadPk # NULL /\ HeadPk # NoDefault
      /\ moving = NoMove /\ ~Idle /\ stmt.op # "update" /\ fks[i].parent = HeadTable
      /\ cs = {p \in Pks : rows[u][p] # Absent /\ rows[u][p][i] = HeadPk}
  <2>1. u \in Tables /\ i \in ColsOf(u) /\ fks \in Schemas
    BY FkFacts DEF IInv
  <2>2. /\ HeadTable \in Tables /\ HeadPk \in Pks
        /\ moving = NoMove /\ ~Idle /\ stmt.op # "update"
    BY <1>1, HeadFacts
  <2>3. HeadPk # NULL /\ HeadPk # NoDefault
    BY <2>2, ForeignKeysAssumption DEF Vals
  <2>4. fks[i].parent = HeadTable /\ cs = Children(i, HeadPk)
    BY <1>1 DEF DependentsOf
  <2>5. Children(i, HeadPk) = {p \in Pks : rows[u][p] # Absent /\ rows[u][p][i] = HeadPk}
    BY <2>1, <2>2, ChildrenFacts DEF IInv
  <2> QED BY <2>1, <2>2, <2>3, <2>4, <2>5
<1>3. v = NULL /\ Changed(i, cs, v) = cs
  <2>1. v \in {NULL, NoDefault}
    BY <1>1, <1>2 DEF ActionValue, Supported, Cols
  <2>2. Changed(i, cs, v) = cs
    BY <1>2, <2>1 DEF Changed, Live
  <2>3. v \in fks[i].check
    BY <1>1, <2>2 DEF CanSet
  <2> QED BY <1>2, <2>1, <2>2, <2>3, FkFacts
<1> HIDE DEF v, cs
<1>3a. cs \in SUBSET Pks
  BY <1>2
<1>4. /\ RowsOK(rows)' /\ IndexOK(rows, index)'
      /\ \A t \in Tables : \A q \in Pks :
           /\ rows'[t][q] # Absent <=> rows[t][q] # Absent
           /\ rows[t][q] # Absent => \A j \in ColsOf(t) :
                rows'[t][q][j] = IF j = i /\ q \in cs THEN NULL ELSE rows[t][q][j]
  <2>1. /\ RowsOK(rows)' /\ IndexOK(rows, index)'
        /\ \A t \in Tables : \A q \in Pks :
             /\ rows'[t][q] # Absent <=> rows[t][q] # Absent
             /\ rows[t][q] # Absent => \A j \in ColsOf(t) :
                  rows'[t][q][j] = IF j = i /\ q \in Changed(i, cs, v) THEN v
                                   ELSE rows[t][q][j]
    <3>1. PICK c \in SUBSET Pks, w \in {NULL} : c = cs /\ w = v
      BY <1>3, <1>3a
    <3>2. /\ CanSet(i, c, w) /\ SetColumn(i, c, w)
          /\ fks \in Schemas /\ fks' = fks /\ RowsOK(rows) /\ IndexOK(rows, index)
      BY <1>1, <3>1 DEF IInv
    <3>3. /\ RowsOK(rows)' /\ IndexOK(rows, index)'
          /\ \A t \in Tables : \A q \in Pks :
               /\ rows'[t][q] # Absent <=> rows[t][q] # Absent
               /\ rows[t][q] # Absent => \A j \in ColsOf(t) :
                    rows'[t][q][j] = IF j = i /\ q \in Changed(i, c, w) THEN w
                                     ELSE rows[t][q][j]
      BY <3>2, SetColumnFacts
    <3> QED BY <3>1, <3>3
  <2> QED BY <1>3, <2>1
<1>5. SavedOK'
  BY <1>1, SameSaved DEF IInv
<1>6. ControlOK'
  <2>1. next' \in 1..(Len(fks') + 1)
    BY <1>1, NextFk DEF IInv
  <2>2. StatementOK => StatementOK'
    BY <1>1, SameFks DEF StatementOK
  <2> QED BY <1>1, <2>1, <2>2 DEF IInv, ControlOK, Idle
<1>7. Queued' = Queued /\ HeadTable' = HeadTable /\ HeadPk' = HeadPk
  BY <1>1 DEF Queued, HeadTable, HeadPk
<1>8. RefsOK'
  <2>1. ASSUME NEW t \in Tables, NEW p \in Pks, NEW j \in ColsOf(t),
               rows'[t][p] # Absent, rows'[t][p][j] # NULL
        PROVE  \/ rows'[fks[j].parent][rows'[t][p][j]] # Absent
               \/ <<t, p>> \in Queued
    <3>1. rows[t][p] # Absent /\ rows'[t][p][j] = rows[t][p][j]
      BY <1>4, <2>1
    <3>2. \/ rows[fks[j].parent][rows[t][p][j]] # Absent
          \/ <<t, p>> \in Queued
      BY <1>2, <2>1, <3>1 DEF IInv, RefsOK
    <3>3. fks[j].parent \in Tables /\ rows[t][p][j] \in Pks
      BY <1>2, <2>1, <3>1, FkFacts, RowFacts, ValFacts DEF IInv
    <3> QED BY <1>4, <3>1, <3>2, <3>3
  <2> QED BY <1>1, <1>7, <2>1, SameFks DEF RefsOK
<1>9. VisitOK'
  <2>1. \A j \in Cols : j < i + 1 => j < i \/ j = i
    BY DEF Cols
  <2>2. \A t : ColsOf(t) \subseteq Cols
    BY DEF ColsOf
  <2>3. \A x \in visited' : rows'[x[1]][x[2]] # Absent => x \in Queued
    <3>1. visited \subseteq Tables \X Pks
      BY DEF IInv, ControlOK
    <3> QED BY <1>1, <1>4, <3>1 DEF IInv, VisitOK
  <2>4. ASSUME NEW t \in Tables, NEW p \in Pks, NEW j \in ColsOf(t), j < i + 1,
               fks[j].parent = HeadTable, rows'[t][p] # Absent, rows'[t][p][j] = HeadPk
        PROVE  <<t, p>> \in Queued
    <3>1. /\ rows[t][p] # Absent /\ rows[t][p][j] = HeadPk
          /\ ~(j = i /\ p \in cs)
      BY <1>2, <1>4, <2>4
    <3>2. j # i
      BY <1>2, <2>4, <3>1 DEF ColsOf, cs
    <3> QED BY <1>1, <2>1, <2>2, <2>4, <3>1, <3>2 DEF IInv, VisitOK
  <2> QED BY <1>1, <1>7, <2>3, <2>4, SameFks DEF VisitOK
<1>10. MoveOK' /\ TodoOK'
  BY <1>1, <1>2 DEF MoveOK, TodoOK
<1> QED BY <1>1, <1>2, <1>4, <1>5, <1>6, <1>8, <1>9, <1>10 DEF IInv

LEMMA DeleteRowStep ==
  ASSUME IInv, DeleteRow
  PROVE  IInv'
<1> DEFINE t == HeadTable
           p == HeadPk
<1>1. /\ UNCHANGED <<fks, stmt, todo, visited, moving, saved>>
      /\ queue # <<>> /\ next = Len(fks) + 1
      /\ queue' = Tail(queue) /\ next' = 1
  BY DEF DeleteRow
<1>2. /\ t \in Tables /\ p \in Pks /\ Head(queue) = <<t, p>>
      /\ ~Idle /\ stmt.op # "update" /\ moving = NoMove
      /\ fks \in Schemas /\ Len(fks) \in Nat
  BY <1>1, HeadFacts, FkFacts DEF IInv
<1>3. /\ queue' \in Seq(Tables \X Pks)
      /\ \A x : x \in Queued => x = <<t, p>> \/ x \in Queued'
  BY <1>1, <1>2, TailFacts DEF IInv, ControlOK
<1>4. /\ RowsOK(rows)' /\ IndexOK(rows, index)'
      /\ \A u \in Tables : \A q \in Pks :
           rows'[u][q] = IF u = t /\ q = p THEN Absent ELSE rows[u][q]
  <2>1. CASE p \in Live(t)
    <3>1. /\ rows' = [rows EXCEPT ![t][p] = Absent]
          /\ index' = Unindexed(index, t, p, rows[t][p])
          /\ rows[t][p] # Absent
      BY <2>1 DEF DeleteRow, Live
    <3>2. rows[t][p] \in Rows(t)
      BY <1>2, <3>1, RowFacts DEF IInv
    <3>3. /\ RowsOK(rows)'
          /\ \A u \in Tables : \A q \in Pks :
               rows'[u][q] = IF u = t /\ q = p THEN Absent ELSE rows[u][q]
      <4>1. PICK r \in Rows(t) \cup {Absent} : r = Absent
        OBVIOUS
      <4>2. /\ t \in Tables /\ p \in Pks /\ fks \in Schemas /\ fks' = fks
            /\ RowsOK(rows) /\ rows' = [rows EXCEPT ![t][p] = r]
        BY <1>1, <1>2, <3>1, <4>1 DEF IInv
      <4>3. /\ RowsOK(rows)'
            /\ \A u \in Tables : \A q \in Pks :
                 rows'[u][q] = IF u = t /\ q = p THEN r ELSE rows[u][q]
        BY <4>2, PutFacts
      <4> QED BY <4>1, <4>3
    <3>4. /\ index' \in [Cols -> SUBSET (Pks \X Pks)]
          /\ \A i \in Cols : \A v, q \in Pks :
               <<v, q>> \in index'[i] <=>
                 <<v, q>> \in index[i] /\ ~(fks[i].table = t /\ q = p /\ rows[t][p][i] = v)
      BY <1>2, <3>1, <3>2, UnindexedFacts DEF IInv, IndexOK
    <3>5. \A i \in Cols : fks[i].table \in Tables
      BY <1>2, FkFacts
    <3>6. IndexOK(rows, index)'
      BY <1>1, <3>3, <3>4, <3>5, SameFks DEF IInv, IndexOK
    <3> QED BY <3>3, <3>6
  <2>2. CASE p \notin Live(t)
    <3>1. UNCHANGED <<fks, rows, index>> /\ rows[t][p] = Absent
      BY <1>1, <1>2, <2>2 DEF DeleteRow, Live
    <3> QED BY <3>1, SameRows DEF IInv
  <2> QED BY <2>1, <2>2
<1>5. SavedOK'
  BY <1>1, SameSaved DEF IInv
<1>6. ControlOK'
  <2>1. next' \in 1..(Len(fks') + 1)
    BY <1>1, <1>2
  <2>2. StatementOK => StatementOK'
    BY <1>1, SameFks DEF StatementOK
  <2> QED BY <1>1, <1>2, <1>3, <2>1, <2>2 DEF IInv, ControlOK, Idle
<1>7. RefsOK'
  <2>1. ASSUME NEW u \in Tables, NEW q \in Pks, NEW i \in ColsOf(u),
               rows'[u][q] # Absent, rows'[u][q][i] # NULL
        PROVE  \/ rows'[fks[i].parent][rows'[u][q][i]] # Absent
               \/ <<u, q>> \in Queued'
    <3>1. /\ ~(u = t /\ q = p) /\ rows'[u][q] = rows[u][q]
          /\ rows[u][q] # Absent /\ rows[u][q][i] # NULL
      BY <1>4, <2>1
    <3>2. /\ fks[i].parent \in Tables /\ rows[u][q][i] \in Pks
          /\ i \in Cols /\ i < next
      <4>1. i \in Cols /\ fks[i].parent \in Tables
        BY <1>2, FkFacts
      <4>2. i < next
        BY <1>1, <1>2, <4>1 DEF Cols
      <4> QED BY <1>2, <3>1, <4>1, <4>2, RowFacts, ValFacts DEF IInv
    <3>3. CASE <<u, q>> \in Queued
      BY <1>3, <3>1, <3>3
    <3>4. CASE <<u, q>> \notin Queued
      <4>1. rows[fks[i].parent][rows[u][q][i]] # Absent
        BY <1>2, <3>1, <3>4 DEF IInv, RefsOK
      <4>2. ~(fks[i].parent = t /\ rows[u][q][i] = p)
        BY <1>1, <3>1, <3>2, <3>4 DEF IInv, VisitOK
      <4> QED BY <1>4, <3>1, <3>2, <4>1, <4>2
    <3> QED BY <3>3, <3>4
  <2> QED BY <1>1, <2>1, SameFks DEF RefsOK
<1>8. VisitOK'
  <2>1. \A x \in visited' : rows'[x[1]][x[2]] # Absent => x \in Queued'
    <3>1. visited \subseteq Tables \X Pks
      BY DEF IInv, ControlOK
    <3>2. ASSUME NEW x \in visited, rows'[x[1]][x[2]] # Absent
          PROVE  x \in Queued'
      <4>1. x[1] \in Tables /\ x[2] \in Pks /\ x = <<x[1], x[2]>>
        BY <3>1
      <4>2. x # <<t, p>> /\ rows[x[1]][x[2]] # Absent
        BY <1>4, <3>2, <4>1
      <4> QED BY <1>3, <4>2 DEF IInv, VisitOK
    <3> QED BY <1>1, <3>2
  <2>2. \A i \in Cols' : ~(i < next')
    BY <1>1, <1>2 DEF Cols
  <2> QED BY <2>1, <2>2 DEF VisitOK, ColsOf
<1>9. MoveOK' /\ TodoOK'
  BY <1>1, <1>2 DEF MoveOK, TodoOK
<1> QED BY <1>1, <1>2, <1>4, <1>5, <1>6, <1>7, <1>8, <1>9 DEF IInv

\* The row that an UPDATE makes is one, and may reference what it is let.
LEMMA AssignedFacts ==
  ASSUME IInv, NEW p \in Pks, Target(p), Here(p), stmt.op = "update",
         UpdateAllowed(stmt.table, p, rows[stmt.table][p],
                       Assigned(stmt, rows[stmt.table][p]))
  PROVE  LET t == stmt.table
             old == rows[t][p]
             new == Assigned(stmt, old)
         IN  /\ t \in Tables /\ ~Idle /\ queue = <<>> /\ visited = {} /\ moving = NoMove
             /\ p \in todo /\ Sound(rows)
             /\ old # Absent /\ old \in Rows(t) /\ new \in Rows(t)
             /\ \A i \in ColsOf(t) :
                  /\ fks[i].parent \in Tables
                  /\ new[i] # NULL =>
                       \/ rows[fks[i].parent][new[i]] # Absent
                       \/ fks[i].parent = t /\ new[i] = p
<1> DEFINE t == stmt.table
           old == rows[t][p]
           new == Assigned(stmt, old)
<1>1. /\ t \in Tables /\ ~Idle /\ queue = <<>> /\ visited = {} /\ moving = NoMove
      /\ p \in todo /\ Sound(rows) /\ fks \in Schemas
      /\ stmt.set \in [ColsOf(t) -> Vals \cup {Keep}]
  BY RefsAreSound DEF Target, AtRow, IInv, ControlOK, StatementOK
<1>2. old # Absent /\ old \in Rows(t)
  BY <1>1, RowFacts DEF Here, Live, IInv
<1>3. new \in Rows(t)
  BY <1>1, <1>2 DEF Assigned, Rows
<1>4. ASSUME NEW i \in ColsOf(t)
      PROVE  /\ fks[i].parent \in Tables
             /\ new[i] # NULL =>
                  \/ rows[fks[i].parent][new[i]] # Absent
                  \/ fks[i].parent = t /\ new[i] = p
  <2>1. fks[i].parent \in Tables /\ fks[i].table = t
    BY <1>1, FkFacts DEF ColsOf
  <2>2. CASE new[i] = old[i]
    BY <1>1, <1>2, <2>1, <2>2 DEF Sound
  <2>3. CASE new[i] # old[i]
    <3>1. ParentExists(i, new[i], p)
      BY <2>3 DEF UpdateAllowed
    <3> QED BY <2>1, <3>1 DEF ParentExists, Live
  <2> QED BY <2>1, <2>2, <2>3
<1> QED BY <1>1, <1>2, <1>3, <1>4

LEMMA UpdateInPlace ==
  ASSUME IInv, NEW p \in Pks, UpdateRow(p), stmt.to[p] = p
  PROVE  IInv'
<1> DEFINE t == stmt.table
           old == rows[t][p]
           new == Assigned(stmt, old)
<1>1. /\ rows' = [rows EXCEPT ![t][p] = new]
      /\ index' = Indexed(Unindexed(index, t, p, old), t, p, new)
      /\ UNCHANGED <<fks, stmt, queue, visited, saved, moving, next>>
      /\ todo' = todo \ {p}
      /\ UpdateAllowed(t, p, old, new) /\ Target(p) /\ Here(p) /\ stmt.op = "update"
  BY DEF UpdateRow
<1>2. /\ t \in Tables /\ ~Idle /\ queue = <<>> /\ visited = {} /\ moving = NoMove
      /\ p \in todo /\ Sound(rows)
      /\ old # Absent /\ old \in Rows(t) /\ new \in Rows(t)
      /\ \A i \in ColsOf(t) :
           /\ fks[i].parent \in Tables
           /\ new[i] # NULL =>
                \/ rows[fks[i].parent][new[i]] # Absent
                \/ fks[i].parent = t /\ new[i] = p
  BY <1>1, AssignedFacts
<1>3. fks \in Schemas /\ new # Absent
  BY <1>2, FkFacts DEF IInv
<1> HIDE DEF new, old
<1>4. /\ RowsOK(rows)'
      /\ \A u \in Tables : \A q \in Pks :
           rows'[u][q] = IF u = t /\ q = p THEN new ELSE rows[u][q]
  <2>1. PICK r \in Rows(t) \cup {Absent} : r = new
    BY <1>2
  <2>2. fks \in Schemas /\ fks' = fks /\ RowsOK(rows) /\ rows' = [rows EXCEPT ![t][p] = r]
    BY <1>1, <1>3, <2>1 DEF IInv
  <2>3. /\ RowsOK(rows)'
        /\ \A u \in Tables : \A q \in Pks :
             rows'[u][q] = IF u = t /\ q = p THEN r ELSE rows[u][q]
    BY <1>2, <2>2, PutFacts
  <2> QED BY <2>1, <2>3
<1>5. IndexOK(rows, index)'
  <2>1. PICK X : X = Unindexed(index, t, p, old)
    OBVIOUS
  <2>2. /\ X \in [Cols -> SUBSET (Pks \X Pks)]
        /\ \A i \in Cols : \A v, q \in Pks :
             <<v, q>> \in X[i] <=>
               <<v, q>> \in index[i] /\ ~(fks[i].table = t /\ q = p /\ old[i] = v)
    BY <1>2, <1>3, <2>1, UnindexedFacts DEF IInv, IndexOK
  <2>3. /\ index' \in [Cols -> SUBSET (Pks \X Pks)]
        /\ \A i \in Cols : \A v, q \in Pks :
             <<v, q>> \in index'[i] <=>
               \/ <<v, q>> \in X[i]
               \/ fks[i].table = t /\ fks[i].index /\ q = p /\ new[i] = v
    BY <1>1, <1>2, <1>3, <2>1, <2>2, IndexedFacts
  <2>4. \A i \in Cols : fks[i].table \in Tables
    BY <1>3, FkFacts
  <2>5. ASSUME NEW i \in Cols, fks[i].index, NEW v \in Pks, NEW q \in Pks
        PROVE  <<v, q>> \in index'[i] <=> /\ rows'[fks[i].table][q] # Absent
                                          /\ rows'[fks[i].table][q][i] = v
    <3>1. <<v, q>> \in index[i] <=> /\ rows[fks[i].table][q] # Absent
                                    /\ rows[fks[i].table][q][i] = v
      BY <2>5 DEF IInv, IndexOK
    <3>2. CASE fks[i].table = t /\ q = p
      BY <1>2, <1>3, <1>4, <2>2, <2>3, <2>4, <2>5, <3>1, <3>2 DEF old
    <3>3. CASE ~(fks[i].table = t /\ q = p)
      BY <1>4, <2>2, <2>3, <2>4, <2>5, <3>1, <3>3
    <3> QED BY <3>2, <3>3
  <2> QED BY <1>1, <2>3, <2>5, SameFks DEF IndexOK
<1>6. SavedOK'
  BY <1>1, SameSaved DEF IInv
<1>7. ControlOK'
  BY <1>1, SameFks DEF IInv, ControlOK, Idle, StatementOK
<1>8. \A u \in Tables : \A q \in Pks : rows'[u][q] # Absent <=> rows[u][q] # Absent
  BY <1>2, <1>3, <1>4 DEF old
<1>9. Sound(rows)'
  <2>1. ASSUME NEW u \in Tables, NEW q \in Pks, NEW i \in ColsOf(u),
               rows'[u][q] # Absent, rows'[u][q][i] # NULL
        PROVE  rows'[fks[i].parent][rows'[u][q][i]] # Absent
    <3>1. fks[i].parent \in Tables /\ rows'[u][q][i] \in Pks
      <4>1. fks[i].parent \in Tables
        BY <1>3, FkFacts
      <4>2. rows'[u][q] \in Rows(u)
        BY <1>1, <1>4, <2>1, SameFks DEF RowsOK
      <4> QED BY <2>1, <4>1, <4>2, ValFacts DEF Rows
    <3>2. CASE u = t /\ q = p
      BY <1>2, <1>3, <1>4, <1>8, <2>1, <3>1, <3>2
    <3>3. CASE ~(u = t /\ q = p)
      BY <1>2, <1>4, <1>8, <2>1, <3>1, <3>3 DEF Sound
    <3> QED BY <3>2, <3>3
  <2> QED BY <1>1, <2>1, SameFks DEF Sound
<1>10. RefsOK' /\ VisitOK' /\ MoveOK'
  BY <1>1, <1>2, <1>9 DEF RefsOK, Sound, VisitOK, MoveOK
<1>11. TodoOK'
  <2>1. todo \subseteq Pks
    BY DEF IInv, ControlOK
  <2> QED BY <1>1, <1>2, <1>4, <2>1, SameFks DEF IInv, TodoOK, Idle
<1> QED BY <1>1, <1>3, <1>4, <1>5, <1>6, <1>7, <1>10, <1>11 DEF IInv

LEMMA UpdateBeginsMove ==
  ASSUME IInv, NEW p \in Pks, UpdateRow(p), stmt.to[p] # p
  PROVE  IInv'
<1> DEFINE t == stmt.table
           old == rows[t][p]
           new == Assigned(stmt, old)
           to == stmt.to[p]
<1>1. /\ to \notin Live(t)
      /\ moving' = [from |-> p, to |-> to, old |-> old, new |-> new]
      /\ UNCHANGED <<fks, rows, index, stmt, queue, visited, saved>>
      /\ todo' = todo \ {p} /\ next' = 1
      /\ UpdateAllowed(t, p, old, new) /\ Target(p) /\ Here(p) /\ stmt.op = "update"
  BY DEF UpdateRow
<1>2. /\ t \in Tables /\ ~Idle /\ queue = <<>> /\ visited = {} /\ moving = NoMove
      /\ p \in todo /\ Sound(rows)
      /\ old # Absent /\ old \in Rows(t) /\ new \in Rows(t)
      /\ \A i \in ColsOf(t) :
           /\ fks[i].parent \in Tables
           /\ new[i] # NULL =>
                \/ rows[fks[i].parent][new[i]] # Absent
                \/ fks[i].parent = t /\ new[i] = p
  BY <1>1, AssignedFacts
<1>3. \A i \in ColsOf(t) : fks[i].parent = t => old[i] # p /\ new[i] # p
  BY <1>1, <1>2 DEF IInv, TodoOK, Assigned
<1> HIDE DEF new
<1>4. to \in Pks /\ rows[t][to] = Absent /\ to \notin todo /\ fks \in Schemas
  <2>1. to \in Pks /\ fks \in Schemas
    BY <1>1, <1>2 DEF IInv, ControlOK, StatementOK
  <2> QED BY <1>1, <1>2, <2>1 DEF IInv, TodoOK, Live
<1>5. RowsOK(rows)' /\ IndexOK(rows, index)' /\ SavedOK'
  BY <1>1, SameRows, SameSaved DEF IInv
<1>6. Len(fks) \in Nat
  BY <1>4, FkFacts
<1>7. ControlOK'
  <2>1. next' \in 1..(Len(fks') + 1)
    BY <1>1, <1>6
  <2>2. StatementOK => StatementOK'
    BY <1>1, SameFks DEF StatementOK
  <2> QED BY <1>1, <1>2, <2>1, <2>2 DEF IInv, ControlOK, Idle
<1>8. RefsOK' /\ VisitOK'
  BY <1>1, <1>2, SameFks DEF RefsOK, Sound, VisitOK
<1>9. MoveOK'
  <2>1. \A i \in Cols' : ~(i < next')
    BY <1>1, <1>6 DEF Cols
  <2>2. \A u : ColsOf(u)' \subseteq Cols'
    BY DEF ColsOf
  <2>3. /\ moving'.from = p /\ moving'.to = to /\ moving'.old = old /\ moving'.new = new
    BY <1>1
  <2>4. p \notin todo' /\ to \notin todo'
    BY <1>1, <1>4
  <2>5. \A i \in ColsOf(t) : new[i] # NULL => rows[fks[i].parent][new[i]] # Absent
    BY <1>2, <1>3
  <2> QED BY <1>1, <1>2, <1>3, <1>4, <2>1, <2>2, <2>3, <2>4, <2>5, SameFks DEF MoveOK
<1>10. TodoOK'
  BY <1>1, SameFks DEF IInv, TodoOK, Idle
<1> QED BY <1>1, <1>4, <1>5, <1>7, <1>8, <1>9, <1>10 DEF IInv

LEMMA CascadeMoveStep ==
  ASSUME Supported, IInv, NEW i \in Cols, CascadeMove(i)
  PROVE  IInv'
<1> DEFINE t == stmt.table
           from == moving.from
           cs == Referrers(i)
           v == ActionValue(i, fks[i].on_update, moving.to)
<1>1. /\ UNCHANGED <<fks, stmt, todo, queue, visited, moving, saved>>
      /\ moving # NoMove /\ next = i /\ next' = i + 1
  BY DEF CascadeMove, Moving
<1>2. /\ fks \in Schemas /\ ~Idle /\ stmt.op = "update" /\ t \in Tables
      /\ stmt.to \in [Pks -> Pks] /\ todo \subseteq Pks
      /\ queue = <<>> /\ visited = {} /\ from \in Pks /\ moving.to \in Pks
      /\ from # moving.to /\ from # NULL /\ from # NoDefault /\ moving.to \notin todo
  <2>1. /\ fks \in Schemas /\ ~Idle /\ stmt.op = "update" /\ todo \subseteq Pks
    BY <1>1 DEF IInv, ControlOK
  <2>2. /\ t \in Tables /\ stmt.to \in [Pks -> Pks] /\ queue = <<>> /\ visited = {}
    BY <2>1 DEF IInv, ControlOK, StatementOK
  <2>3. /\ from \in Pks /\ moving.to \in Pks /\ from # moving.to /\ moving.to \notin todo
    BY <1>1 DEF IInv, MoveOK
  <2> QED BY <2>1, <2>2, <2>3, ForeignKeysAssumption DEF Vals
<1>3. \A u \in Tables : \A q \in Pks :
        i \in ColsOf(u) /\ fks[i].parent = t /\ rows[u][q] # Absent /\ rows[u][q][i] = from
          <=> i \in ColsOf(u) /\ q \in cs
  BY <1>2, ChildrenFacts DEF IInv, Referrers, ColsOf
\* The rows are as before, but for those that follow the key.
<1>4. PICK c \in SUBSET Pks, w \in {moving.to, NULL} :
        /\ \A q \in c : fks[i].parent = t
        /\ \A u \in Tables : \A q \in Pks :
             i \in ColsOf(u) /\ fks[i].parent = t /\ rows[u][q] # Absent
               /\ rows[u][q][i] = from => q \in c
        /\ \A q \in c : rows[fks[i].table][q] # Absent /\ rows[fks[i].table][q][i] = from
        /\ RowsOK(rows)' /\ IndexOK(rows, index)'
        /\ \A u \in Tables : \A q \in Pks :
             /\ rows'[u][q] # Absent <=> rows[u][q] # Absent
             /\ rows[u][q] # Absent => \A j \in ColsOf(u) :
                  rows'[u][q][j] = IF j = i /\ q \in c THEN w ELSE rows[u][q][j]
  <2>1. CASE cs = {}
    <3>1. UNCHANGED <<fks, rows, index>>
      BY <1>1, <2>1 DEF CascadeMove
    <3>2. RowsOK(rows)' /\ IndexOK(rows, index)'
      BY <3>1, SameRows DEF IInv
    <3> WITNESS {} \in SUBSET Pks, NULL \in {moving.to, NULL}
    <3> QED BY <1>3, <2>1, <3>1, <3>2
  <2>2. CASE cs # {}
    <3>1. /\ CanSet(i, cs, v) /\ SetColumn(i, cs, v) /\ fks[i].on_update # "RESTRICT"
          /\ fks[i].parent = t
      BY <2>2 DEF CascadeMove, Referrers
    <3>2. /\ fks[i].table \in Tables /\ i \in ColsOf(fks[i].table) /\ fks[i].check \subseteq Vals
          /\ NoDefault \notin fks[i].check
          /\ fks[i].on_update \in {"RESTRICT", "CASCADE", "SET NULL", "SET DEFAULT"}
      BY <1>2, FkFacts
    <3>3. v \in {moving.to, NULL, NoDefault}
      <4>1. fks[i].default \in {NULL, NoDefault}
        BY <1>2 DEF Supported, Cols
      <4> QED BY <3>1, <3>2, <4>1 DEF ActionValue
    <3> HIDE DEF v
    <3>4. /\ cs \in SUBSET Pks
          /\ \A q \in cs : rows[fks[i].table][q] # Absent /\ rows[fks[i].table][q][i] = from
      <4>1. cs = {q \in Pks : rows[fks[i].table][q] # Absent /\ rows[fks[i].table][q][i] = from}
        BY <1>2, <3>1, ChildrenFacts DEF IInv, Referrers
      <4> QED BY <4>1
    <3>5. Changed(i, cs, v) = cs
      BY <1>2, <3>3, <3>4 DEF Changed, Live
    <3>6. v \in {moving.to, NULL}
      BY <2>2, <3>1, <3>2, <3>3, <3>5 DEF CanSet
    <3>7. PICK c \in SUBSET Pks, w \in {moving.to, NULL} : c = cs /\ w = v
      BY <3>4, <3>6
    <3>8. /\ CanSet(i, c, w) /\ SetColumn(i, c, w)
          /\ fks \in Schemas /\ fks' = fks /\ RowsOK(rows) /\ IndexOK(rows, index)
      BY <1>1, <3>1, <3>7 DEF IInv
    <3>9. /\ RowsOK(rows)' /\ IndexOK(rows, index)'
          /\ \A u \in Tables : \A q \in Pks :
               /\ rows'[u][q] # Absent <=> rows[u][q] # Absent
               /\ rows[u][q] # Absent => \A j \in ColsOf(u) :
                    rows'[u][q][j] = IF j = i /\ q \in Changed(i, c, w) THEN w
                                     ELSE rows[u][q][j]
      BY <3>8, SetColumnFacts
    <3>10. Changed(i, c, w) = c
      BY <3>5, <3>7
    <3> WITNESS c \in SUBSET Pks, w \in {moving.to, NULL}
    <3> QED BY <1>3, <3>1, <3>4, <3>7, <3>9, <3>10
  <2> QED BY <2>1, <2>2
<1>4a. w # from /\ \A u : ColsOf(u) \subseteq Cols
  BY <1>2 DEF ColsOf
<1>5. SavedOK'
  BY <1>1, SameSaved DEF IInv
<1>6. ControlOK'
  <2>1. next' \in 1..(Len(fks') + 1)
    BY <1>1, <1>2, NextFk
  <2>2. StatementOK => StatementOK'
    BY <1>1, SameFks DEF StatementOK
  <2> QED BY <1>1, <2>1, <2>2 DEF IInv, ControlOK, Idle
<1>7. RefsOK'
  <2>1. ASSUME NEW u \in Tables, NEW q \in Pks, NEW j \in ColsOf(u),
               rows'[u][q] # Absent, rows'[u][q][j] # NULL
        PROVE  \/ rows'[fks[j].parent][rows'[u][q][j]] # Absent
               \/ fks[j].parent = t /\ rows'[u][q][j] = moving.to
    <3>1. rows[u][q] # Absent
      BY <1>4, <2>1
    <3>2. CASE j = i /\ q \in c
      BY <1>4, <2>1, <3>1, <3>2
    <3>3. CASE ~(j = i /\ q \in c)
      <4>1. rows'[u][q][j] = rows[u][q][j]
        BY <1>4, <3>1, <3>3
      <4>2. fks[j].parent \in Tables /\ rows[u][q][j] \in Pks
        BY <1>2, <2>1, <3>1, <4>1, FkFacts, RowFacts, ValFacts DEF IInv
      <4>3. \/ rows[fks[j].parent][rows[u][q][j]] # Absent
            \/ fks[j].parent = t /\ rows[u][q][j] = moving.to
        BY <1>2, <2>1, <3>1, <4>1 DEF IInv, RefsOK, Queued
      <4> QED BY <1>4, <4>1, <4>2, <4>3
    <3> QED BY <3>2, <3>3
  <2> QED BY <1>1, <2>1, SameFks DEF RefsOK
<1>8. VisitOK'
  BY <1>1, <1>2 DEF VisitOK
<1>9. MoveOK'
  <2>1. /\ moving.to \in Pks \ todo /\ from \notin todo
        /\ rows[t][from] # Absent /\ rows[t][moving.to] = Absent
        /\ rows[t][from] = moving.old
        /\ moving.old \in Rows(t) /\ moving.new \in Rows(t)
        /\ \A j \in ColsOf(t) : fks[j].parent = t =>
             moving.old[j] # from /\ moving.new[j] # from
        /\ \A j \in ColsOf(t) : moving.new[j] # NULL =>
             rows[fks[j].parent][moving.new[j]] # Absent
        /\ \A u \in Tables : \A p \in Pks : \A j \in ColsOf(u) :
             j < i /\ fks[j].parent = t /\ rows[u][p] # Absent => rows[u][p][j] # from
    BY <1>1 DEF IInv, MoveOK
  <2>2. rows'[t][from] # Absent /\ rows'[t][moving.to] = Absent
    BY <1>2, <1>4, <2>1
  <2>3. rows'[t][from] = moving.old
    <3>1. rows'[t][from] \in Rows(t)
      BY <1>1, <1>2, <1>4, <2>2, SameFks DEF RowsOK
    <3>2. ASSUME NEW j \in ColsOf(t)
          PROVE  rows'[t][from][j] = moving.old[j]
      <4>1. ~(j = i /\ from \in c)
        BY <1>4, <2>1, <3>2 DEF ColsOf
      <4> QED BY <1>2, <1>4, <2>1, <4>1
    <3> QED BY <2>1, <3>1, <3>2 DEF Rows
  <2>4. ASSUME NEW j \in ColsOf(t), moving.new[j] # NULL
        PROVE  rows'[fks[j].parent][moving.new[j]] # Absent
    <3>1. fks[j].parent \in Tables /\ moving.new[j] \in Pks
      BY <1>2, <2>1, <2>4, FkFacts, ValFacts DEF Rows
    <3> QED BY <1>4, <2>1, <2>4, <3>1
  <2>5. ASSUME NEW u \in Tables, NEW p \in Pks, NEW j \in ColsOf(u), j < i + 1,
               fks[j].parent = t, rows'[u][p] # Absent
        PROVE  rows'[u][p][j] # from
    <3>1. rows[u][p] # Absent
      BY <1>4, <2>5
    <3>2. CASE j = i /\ p \in c
      BY <1>4, <1>4a, <3>1, <3>2
    <3>3. CASE j = i /\ p \notin c
      BY <1>4, <2>5, <3>1, <3>3
    <3>4. CASE j # i
      <4>1. j < i
        BY <1>4a, <2>5, <3>4 DEF Cols
      <4> QED BY <1>4, <2>1, <2>5, <3>1, <3>4, <4>1
    <3> QED BY <3>2, <3>3, <3>4
  <2> QED BY <1>1, <1>2, <2>1, <2>2, <2>3, <2>4, <2>5, SameFks DEF MoveOK
<1>10. TodoOK'
  <2>1. ASSUME NEW p \in todo
        PROVE  /\ rows'[t][p] # Absent
               /\ stmt.to[p] # p => \A j \in ColsOf(t) : fks[j].parent = t =>
                    rows'[t][p][j] # p /\ stmt.set[j] # p
    <3>1. p \in Pks /\ p # moving.to /\ p # NULL
      BY <1>2, ValFacts
    <3>2. /\ rows[t][p] # Absent
          /\ stmt.to[p] # p => \A j \in ColsOf(t) : fks[j].parent = t =>
               rows[t][p][j] # p /\ stmt.set[j] # p
      BY <1>2 DEF IInv, TodoOK
    <3>3. w # p
      BY <3>1
    <3> QED BY <1>2, <1>4, <3>1, <3>2, <3>3
  <2> QED BY <1>1, <2>1, SameFks DEF TodoOK
<1> QED BY <1>1, <1>2, <1>4, <1>5, <1>6, <1>7, <1>8, <1>9, <1>10 DEF IInv

LEMMA MoveRowStep ==
  ASSUME IInv, MoveRow
  PROVE  IInv'
<1> DEFINE t == stmt.table
           from == moving.from
           to == moving.to
           old == moving.old
           new == moving.new
<1>1. /\ moving # NoMove /\ next = Len(fks) + 1
      /\ rows' = [rows EXCEPT ![t][from] = Absent, ![t][to] = new]
      /\ index' = Indexed(Unindexed(index, t, from, old), t, to, new)
      /\ moving' = NoMove /\ next' = 1
      /\ UNCHANGED <<fks, stmt, todo, queue, visited, saved>>
  BY DEF MoveRow
<1>2. /\ fks \in Schemas /\ ~Idle /\ stmt.op = "update" /\ t \in Tables
      /\ queue = <<>> /\ visited = {} /\ todo \subseteq Pks
  BY <1>1 DEF IInv, ControlOK, StatementOK
<1>3. /\ from \in Pks /\ to \in Pks /\ from # to /\ from \notin todo /\ to \notin todo
      /\ rows[t][from] # Absent /\ rows[t][to] = Absent /\ rows[t][from] = old
      /\ old \in Rows(t) /\ new \in Rows(t)
      /\ \A i \in ColsOf(t) : fks[i].parent = t => new[i] # from
      /\ \A i \in ColsOf(t) : new[i] # NULL => rows[fks[i].parent][new[i]] # Absent
      /\ \A u \in Tables : \A p \in Pks : \A i \in ColsOf(u) :
           i < next /\ fks[i].parent = t /\ rows[u][p] # Absent => rows[u][p][i] # from
  BY <1>1 DEF IInv, MoveOK
<1>4. new # Absent /\ Len(fks) \in Nat /\ \A i \in Cols : i < next /\ fks[i].parent \in Tables
  <2>1. new # Absent /\ Len(fks) \in Nat /\ \A i \in Cols : fks[i].parent \in Tables
    BY <1>2, <1>3, FkFacts
  <2> QED BY <1>1, <2>1 DEF Cols
<1> HIDE DEF old, new, from, to
<1>5. /\ RowsOK(rows)'
      /\ \A u \in Tables : \A q \in Pks :
           rows'[u][q] = IF u = t /\ q = to THEN new
                         ELSE IF u = t /\ q = from THEN Absent ELSE rows[u][q]
  <2>1. /\ rows = [u \in Tables |-> rows[u]]
        /\ \A u \in Tables : rows[u] \in [Pks -> Rows(u) \cup {Absent}]
    BY DEF IInv, RowsOK
  <2>2. rows' = [u \in Tables |-> IF u = t THEN [rows[t] EXCEPT ![from] = Absent, ![to] = new]
                                  ELSE rows[u]]
    BY <1>1, <1>2, <2>1
  <2>3. \A u \in Tables : \A q \in Pks :
           rows'[u][q] = IF u = t /\ q = to THEN new
                         ELSE IF u = t /\ q = from THEN Absent ELSE rows[u][q]
    BY <1>2, <1>3, <2>1, <2>2
  <2>4. \A u \in Tables : rows'[u] \in [Pks -> Rows(u) \cup {Absent}]
    BY <1>2, <1>3, <2>1, <2>2
  <2>5. rows' = [u \in Tables |-> rows'[u]]
    BY <2>2
  <2> QED BY <1>1, <2>3, <2>4, <2>5, SameFks DEF RowsOK
<1>6. IndexOK(rows, index)'
  <2>1. PICK X : X = Unindexed(index, t, from, old)
    OBVIOUS
  <2>2. /\ X \in [Cols -> SUBSET (Pks \X Pks)]
        /\ \A i \in Cols : \A v, q \in Pks :
             <<v, q>> \in X[i] <=>
               <<v, q>> \in index[i] /\ ~(fks[i].table = t /\ q = from /\ old[i] = v)
    BY <1>2, <1>3, <2>1, UnindexedFacts DEF IInv, IndexOK
  <2>3. /\ index' \in [Cols -> SUBSET (Pks \X Pks)]
        /\ \A i \in Cols : \A v, q \in Pks :
             <<v, q>> \in index'[i] <=>
               \/ <<v, q>> \in X[i]
               \/ fks[i].table = t /\ fks[i].index /\ q = to /\ new[i] = v
    BY <1>1, <1>2, <1>3, <2>1, <2>2, IndexedFacts
  <2>4. \A i \in Cols : fks[i].table \in Tables
    BY <1>2, FkFacts
  <2>5. ASSUME NEW i \in Cols, fks[i].index, NEW v \in Pks, NEW q \in Pks
        PROVE  <<v, q>> \in index'[i] <=> /\ rows'[fks[i].table][q] # Absent
                                          /\ rows'[fks[i].table][q][i] = v
    <3>1. <<v, q>> \in index[i] <=> /\ rows[fks[i].table][q] # Absent
                                    /\ rows[fks[i].table][q][i] = v
      BY <2>5 DEF IInv, IndexOK
    <3>2. CASE fks[i].table = t /\ q = from
      BY <1>2, <1>3, <1>4, <1>5, <2>2, <2>3, <2>4, <2>5, <3>1, <3>2
    <3>3. CASE fks[i].table = t /\ q = to
      BY <1>2, <1>3, <1>4, <1>5, <2>2, <2>3, <2>4, <2>5, <3>1, <3>3
    <3>4. CASE ~(fks[i].table = t /\ q \in {from, to})
      BY <1>5, <2>2, <2>3, <2>4, <2>5, <3>1, <3>4
    <3> QED BY <3>2, <3>3, <3>4
  <2>6. fks' = fks
    BY <1>1
  <2> QED BY <2>3, <2>5, <2>6, SameFks DEF IndexOK
<1>7. SavedOK'
  BY <1>1, SameSaved DEF IInv
<1>8. ControlOK'
  <2>1. next' \in 1..(Len(fks') + 1)
    BY <1>1, <1>4
  <2>2. StatementOK => StatementOK'
    BY <1>1, SameFks DEF StatementOK
  <2> QED BY <1>1, <1>2, <2>1, <2>2 DEF IInv, ControlOK, Idle
\* Everyone who referenced the old key has followed it.
<1>9. Sound(rows)'
  <2>1. ASSUME NEW u \in Tables, NEW q \in Pks, NEW i \in ColsOf(u),
               rows'[u][q] # Absent, rows'[u][q][i] # NULL
        PROVE  rows'[fks[i].parent][rows'[u][q][i]] # Absent
    <3>1. i \in Cols /\ fks[i].parent \in Tables /\ i < next
      BY <1>4 DEF ColsOf
    <3>2. rows'[u][q][i] \in Pks
      <4>1. rows'[u][q] \in Rows(u)
        BY <1>2, <1>3, <1>5, <2>1, RowFacts DEF IInv
      <4> QED BY <2>1, <4>1, ValFacts DEF Rows
    <3>3. \A r \in Pks : rows[fks[i].parent][r] # Absent
            /\ ~(fks[i].parent = t /\ r = from) => rows'[fks[i].parent][r] # Absent
      BY <1>4, <1>5, <3>1
    <3>4. CASE u = t /\ q = to
      BY <1>2, <1>3, <1>5, <2>1, <3>1, <3>2, <3>3, <3>4
    <3>5. CASE ~(u = t /\ q = to)
      <4>1. rows'[u][q] = rows[u][q] /\ rows[u][q] # Absent
        BY <1>5, <2>1, <3>5
      <4>2. \/ rows[fks[i].parent][rows[u][q][i]] # Absent
            \/ fks[i].parent = t /\ rows[u][q][i] = to
        BY <1>2, <2>1, <4>1 DEF IInv, RefsOK, Queued, to
      <4>3. ~(fks[i].parent = t /\ rows[u][q][i] = from)
        BY <1>3, <3>1, <4>1
      <4>4. rows'[t][to] # Absent
        BY <1>2, <1>3, <1>4, <1>5
      <4> QED BY <3>2, <3>3, <4>1, <4>2, <4>3, <4>4
    <3> QED BY <3>4, <3>5
  <2> QED BY <1>1, <2>1, SameFks DEF Sound
<1>10. RefsOK' /\ VisitOK' /\ MoveOK'
  BY <1>1, <1>2, <1>9 DEF RefsOK, Sound, VisitOK, MoveOK
<1>11. TodoOK'
  <2>1. UNCHANGED <<fks, stmt, todo>>
    BY <1>1
  <2>2. \A p \in todo : rows'[t][p] = rows[t][p]
    BY <1>2, <1>3, <1>5
  <2> QED BY <1>2, <2>1, <2>2, SameFks DEF IInv, TodoOK, Idle
<1> QED BY <1>1, <1>2, <1>5, <1>6, <1>7, <1>8, <1>10, <1>11 DEF IInv

LEMMA InsertRowStep ==
  ASSUME IInv, InsertRow
  PROVE  IInv'
<1> DEFINE t == stmt.table
           p == stmt.pk
           new == stmt.row
<1>1. /\ fks \in Schemas /\ fks' = fks /\ Ended /\ queue = <<>> /\ moving = NoMove
      /\ t \in Tables /\ p \in Pks /\ new \in Rows(t) /\ Sound(rows)
      /\ RowsOK(rows) /\ IndexOK(rows, index)
  BY RefsAreSound DEF InsertRow, Ended, AtRow, IInv, ControlOK, StatementOK
<1>2. CASE Skipped
  <2>1. UNCHANGED <<fks, rows, index>>
    BY <1>1, <1>2 DEF InsertRow
  <2>2. RowsOK(rows)' /\ IndexOK(rows, index)' /\ Sound(rows)'
    BY <1>1, <2>1, SameRows, SameFks DEF Sound
  <2> QED BY <1>1, <2>2, EndStep
<1>3. CASE ~Skipped
  <2>1. /\ rows' = [rows EXCEPT ![t][p] = new]
        /\ index' = Indexed(index, t, p, new)
        /\ rows[t][p] = Absent
        /\ \A i \in ColsOf(t) : ParentExists(i, new[i], p)
    BY <1>1, <1>3 DEF InsertRow, InsertAllowed, Live
  <2>2. new # Absent /\ \A i \in Cols : fks[i].table \in Tables /\ fks[i].parent \in Tables
    BY <1>1, FkFacts
  <2> HIDE DEF new
  <2>3. PICK r \in Rows(t) \cup {Absent} : r = new
    BY <1>1
  <2>4. rows' = [rows EXCEPT ![t][p] = r]
    BY <2>1, <2>3
  <2>5. /\ RowsOK(rows)'
        /\ \A u \in Tables : \A q \in Pks :
             rows'[u][q] = IF u = t /\ q = p THEN r ELSE rows[u][q]
    BY <1>1, <2>4, PutFacts
  <2>6. /\ index' \in [Cols -> SUBSET (Pks \X Pks)]
        /\ \A i \in Cols : \A v, q \in Pks :
             <<v, q>> \in index'[i] <=>
               \/ <<v, q>> \in index[i]
               \/ fks[i].table = t /\ fks[i].index /\ q = p /\ new[i] = v
    BY <1>1, <2>1, IndexedFacts DEF IndexOK
  <2>7. ASSUME NEW i \in Cols, fks[i].index, NEW v \in Pks, NEW q \in Pks
        PROVE  <<v, q>> \in index'[i] <=> /\ rows'[fks[i].table][q] # Absent
                                          /\ rows'[fks[i].table][q][i] = v
    <3>1. <<v, q>> \in index[i] <=> /\ rows[fks[i].table][q] # Absent
                                    /\ rows[fks[i].table][q][i] = v
      BY <1>1, <2>7 DEF IndexOK
    <3>2. CASE fks[i].table = t /\ q = p
      BY <2>1, <2>2, <2>3, <2>5, <2>6, <2>7, <3>1, <3>2
    <3>3. CASE ~(fks[i].table = t /\ q = p)
      BY <2>2, <2>5, <2>6, <2>7, <3>1, <3>3
    <3> QED BY <3>2, <3>3
  <2>8. IndexOK(rows, index)'
    <3>1. fks' = fks
      BY <1>1
    <3> QED BY <2>6, <2>7, <3>1, SameFks DEF IndexOK
  <2>9. ASSUME NEW u \in Tables, NEW q \in Pks, NEW i \in ColsOf(u),
               rows'[u][q] # Absent, rows'[u][q][i] # NULL
        PROVE  rows'[fks[i].parent][rows'[u][q][i]] # Absent
    <3>1. i \in Cols /\ fks[i].parent \in Tables /\ fks[i].table = u
      BY <2>2 DEF ColsOf
    <3>2. rows'[u][q][i] \in Pks
      <4>1. rows'[u][q] \in Rows(u)
        BY <1>1, <2>3, <2>5, <2>9, RowFacts
      <4> QED BY <2>9, <4>1, ValFacts DEF Rows
    <3>3. \A x \in Pks : rows[fks[i].parent][x] # Absent => rows'[fks[i].parent][x] # Absent
      BY <2>2, <2>3, <2>5, <3>1
    <3>4. CASE u = t /\ q = p
      BY <1>1, <2>1, <2>2, <2>3, <2>5, <2>9, <3>1, <3>2, <3>3, <3>4 DEF ParentExists, Live
    <3>5. CASE ~(u = t /\ q = p)
      BY <1>1, <2>5, <2>9, <3>2, <3>3, <3>5 DEF Sound
    <3> QED BY <3>4, <3>5
  <2>10. Sound(rows)'
    BY <1>1, <2>9, SameFks DEF Sound
  <2> QED BY <1>1, <2>5, <2>8, <2>10, EndStep
<1> QED BY <1>2, <1>3

LEMMA FinishStep ==
  ASSUME IInv, Finish
  PROVE  IInv'
<1>1. /\ fks \in Schemas /\ Ended /\ UNCHANGED <<fks, rows, index>>
      /\ RowsOK(rows) /\ IndexOK(rows, index) /\ Sound(rows)
  BY RefsAreSound DEF Finish, Ended, AtRow, IInv
<1>2. RowsOK(rows)' /\ IndexOK(rows, index)' /\ Sound(rows)'
  BY <1>1, SameRows, SameFks DEF Sound
<1> QED BY <1>1, <1>2, EndStep

LEMMA NextStep ==
  ASSUME Supported, IInv, [Next]_vars
  PROVE  IInv'
<1>1. CASE UNCHANGED vars
  <2>1. UNCHANGED <<fks, rows, index, stmt, todo, queue, visited, moving, next, saved>>
    BY <1>1 DEF vars
  <2>2. RowsOK(rows)' /\ IndexOK(rows, index)' /\ SavedOK'
    BY <2>1, SameRows, SameSaved DEF IInv
  <2>3. ControlOK'
    BY <2>1, SameFks DEF IInv, ControlOK, Idle, StatementOK
  <2>4. RefsOK'
    BY <2>1, SameFks DEF IInv, RefsOK, Queued
  <2>5. VisitOK'
    BY <2>1, SameFks DEF IInv, VisitOK, Queued, HeadTable, HeadPk
  <2>6. MoveOK' /\ TodoOK'
    <3>1. MoveOK'
      BY <2>1, SameFks DEF IInv, MoveOK
    <3>2. TodoOK'
      BY <2>1, SameFks DEF IInv, TodoOK, Idle
    <3> QED BY <3>1, <3>2
  <2> QED BY <2>1, <2>2, <2>3, <2>4, <2>5, <2>6 DEF IInv
<1>2. ASSUME NEW s \in Deletes, BeginDelete(s) PROVE IInv'
  <2>1. s.table \in Tables
    BY DEF Deletes
  <2> QED BY <1>2, <2>1, BeginStep
<1>3. ASSUME NEW t \in Tables,
             \/ \E s \in Updates(t) : BeginUpdate(s)
             \/ \E s \in Inserts(t) : BeginInsert(s)
      PROVE  IInv'
  BY <1>3, BeginStep
<1>4. ASSUME NEW p \in Pks, SkipRow(p) \/ DeleteTarget(p) \/ UpdateRow(p) \/ RefuseUpdate(p)
      PROVE  IInv'
  <2>1. CASE SkipRow(p) \/ DeleteTarget(p) \/ UpdateRow(p)
    BY <2>1, SkipRowStep, DeleteTargetStep, UpdateInPlace, UpdateBeginsMove
  <2>2. CASE RefuseUpdate(p)
    BY <2>2, FailStep DEF RefuseUpdate, Target, AtRow
  <2> QED BY <1>4, <2>1, <2>2
<1>5. ASSUME NEW i \in Cols, \/ SkipFk(i) \/ CascadeDelete(i) \/ CascadeSet(i)
                             \/ RefuseDelete(i) \/ CascadeMove(i) \/ RefuseMove(i)
      PROVE  IInv'
  <2>1. CASE SkipFk(i) \/ CascadeDelete(i) \/ CascadeSet(i) \/ CascadeMove(i)
    BY <2>1, SkipFkStep, CascadeDeleteStep, CascadeSetStep, CascadeMoveStep
  <2>2. CASE RefuseDelete(i)
    BY <2>2, HeadFacts, FailStep DEF RefuseDelete, Visiting
  <2>3. CASE RefuseMove(i)
    BY <2>3, FailStep DEF RefuseMove, Moving, IInv, ControlOK
  <2> QED BY <1>5, <2>1, <2>2, <2>3
<1>6. CASE DeleteRow \/ MoveRow \/ InsertRow \/ Finish
  BY <1>6, DeleteRowStep, MoveRowStep, InsertRowStep, FinishStep
<1>7. CASE RefuseInsert
  BY <1>7, FailStep DEF RefuseInsert, AtRow
<1> QED BY <1>1, <1>2, <1>3, <1>4, <1>5, <1>6, <1>7 DEF Next

-----------------------------------------------------------------------------
(* What the invariant says of every behaviour.                             *)

LEMMA Invariance ==
  ASSUME Supported
  PROVE  Spec => []IInv
<1>1. Init => IInv
  BY InitInv
<1>2. IInv /\ [Next]_vars => IInv'
  BY NextStep
<1> QED BY <1>1, <1>2, PTL DEF Spec

\* The tables, the indexes, the worklist of a delete and the change of a key
\* have their types in every state of every statement.
THEOREM TypeCorrect ==
  ASSUME Supported
  PROVE  Spec => []TypeOK
<1>1. ASSUME IInv PROVE TypeOK
  <2>1. fks \in Schemas /\ \A t \in Tables : rows[t] \in [Pks -> Rows(t) \cup {Absent}]
    BY <1>1 DEF IInv, RowsOK
  <2>2. index \in [Cols -> SUBSET (Pks \X Pks)]
    BY <1>1 DEF IInv, IndexOK
  <2>3. /\ todo \subseteq Pks
        /\ queue \in Seq(Tables \X Pks) /\ visited \subseteq Tables \X Pks
        /\ next \in 1..(Len(fks) + 1)
        /\ ~Idle => stmt.table \in Tables
    BY <1>1 DEF IInv, ControlOK, StatementOK
  <2>4. moving # NoMove => /\ moving.from \in Pks /\ moving.to \in Pks
                           /\ moving.new \in Rows(stmt.table)
    BY <1>1 DEF IInv, MoveOK
  <2> QED BY <2>1, <2>2, <2>3, <2>4 DEF TypeOK
<1> QED BY <1>1, Invariance, PTL

\* Every index a cascade looks its children up in has the entries of the rows
\* that are there and no others, at every step of every statement.
THEOREM IndexCorrect ==
  ASSUME Supported
  PROVE  Spec => []IndexExact
<1>1. ASSUME IInv PROVE IndexExact
  <2>1. ASSUME NEW i \in Cols, fks[i].index
        PROVE  index[i] = {<<rows[fks[i].table][p][i], p>> : p \in
                  {q \in Live(fks[i].table) : rows[fks[i].table][q][i] # NULL}}
    <3> DEFINE t == fks[i].table
               held == {q \in Live(t) : rows[t][q][i] # NULL}
    <3>1. t \in Tables /\ i \in ColsOf(t) /\ fks \in Schemas
      BY <1>1, FkFacts DEF IInv
    <3>2. /\ index[i] \subseteq Pks \X Pks
          /\ \A v, p \in Pks : <<v, p>> \in index[i] <=>
               rows[t][p] # Absent /\ rows[t][p][i] = v
      BY <1>1, <2>1 DEF IInv, IndexOK
    <3>3. ASSUME NEW p \in held PROVE p \in Pks /\ <<rows[t][p][i], p>> \in index[i]
      <4>1. p \in Pks /\ rows[t][p] # Absent /\ rows[t][p][i] # NULL
        BY DEF Live
      <4>2. rows[t][p][i] \in Pks
        BY <1>1, <3>1, <4>1, RowFacts, ValFacts DEF IInv
      <4> QED BY <3>2, <4>1, <4>2
    <3>4. ASSUME NEW x \in index[i]
          PROVE  \E p \in held : x = <<rows[t][p][i], p>>
      <4>1. PICK v \in Pks, p \in Pks : x = <<v, p>>
        BY <3>2
      <4>2. rows[t][p] # Absent /\ rows[t][p][i] = v /\ v # NULL
        BY <3>2, <4>1, ValFacts
      <4>3. p \in held
        BY <4>2 DEF Live
      <4> QED BY <4>1, <4>2, <4>3
    <3> HIDE DEF held
    <3>5. index[i] = {<<rows[t][p][i], p>> : p \in held}
      BY <3>3, <3>4
    <3> QED BY <3>5 DEF held
  <2> QED BY <2>1 DEF IndexExact
<1> QED BY <1>1, Invariance, PTL

\* No statement, whatever it deletes, nulls and moves along whatever cycles of
\* foreign keys, and whether it succeeds or fails, leaves a reference to a row
\* that is not there.
THEOREM ReferencesCorrect ==
  ASSUME Supported
  PROVE  Spec => []NoOrphans
<1>1. ASSUME IInv PROVE NoOrphans
  <2>1. SUFFICES ASSUME Idle PROVE NoOrphans
    BY DEF NoOrphans
  <2>2. fks \in Schemas /\ RowsOK(rows) /\ Sound(rows)
    BY <1>1, <2>1, RefsAreSound DEF IInv, ControlOK
  <2>3. ASSUME NEW t \in Tables, NEW p \in Live(t), NEW i \in ColsOf(t), rows[t][p][i] # NULL
        PROVE  rows[t][p][i] \in Live(fks[i].parent)
    <3>1. p \in Pks /\ rows[t][p] # Absent
      BY DEF Live
    <3>2. rows[t][p][i] \in Pks
      BY <2>2, <2>3, <3>1, RowFacts, ValFacts
    <3> QED BY <2>2, <2>3, <3>1, <3>2 DEF Sound, Live
  <2> QED BY <2>3 DEF NoOrphans
<1> QED BY <1>1, Invariance, PTL

-----------------------------------------------------------------------------
(* Constraints: what CHECK, NOT NULL and UNIQUE say of the rows R.         *)

Constrained(R) ==
  \A t \in Tables : \A p \in Pks : \A i \in ColsOf(t) : R[t][p] # Absent =>
    /\ R[t][p][i] \in fks[i].check
    /\ fks[i].unique /\ R[t][p][i] # NULL =>
         \A q \in Pks \ {p} : R[t][q] # Absent => R[t][q][i] # R[t][p][i]

\* A row r may be put at the key p of t when the rows with keys in gone go.
Fits(t, p, r, gone) ==
  \A i \in ColsOf(t) :
    /\ r[i] \in fks[i].check
    /\ fks[i].unique /\ r[i] # NULL =>
         \A q \in Pks \ (gone \cup {p}) : rows[t][q] # Absent => rows[t][q][i] # r[i]

\* A row that moves was let in before the cascade, and still may be after it;
\* a statement that fails goes back to rows that obey their constraints.
ConstraintsOK ==
  /\ Constrained(rows)
  /\ ~Idle => Constrained(saved.rows)
  /\ moving # NoMove => Fits(stmt.table, moving.to, moving.new, {moving.from})

LEMMA UniqueFacts ==
  ASSUME fks \in Schemas
  PROVE  \A i \in Cols : fks[i].unique => fks[i].index
BY ForeignKeysAssumption DEF Cols

\* The look into the index tells that no other row has the value.
LEMMA TakenFacts ==
  ASSUME fks \in Schemas, IndexOK(rows, index), NEW i \in Cols, NEW p,
         NEW v \in Vals, ~Taken(i, v, p), fks[i].unique, v # NULL
  PROVE  \A q \in Pks \ {p} :
           rows[fks[i].table][q] # Absent => rows[fks[i].table][q][i] # v
<1>1. fks[i].index /\ v \in Pks
  BY UniqueFacts, ValFacts
<1>2. \A q \in Pks : <<v, q>> \in index[i] <=>
        rows[fks[i].table][q] # Absent /\ rows[fks[i].table][q][i] = v
  BY <1>1 DEF IndexOK
<1> QED BY <1>2 DEF Taken

\* One row put at a key, and the rows with keys in gone taken away.
LEMMA PutConstrained ==
  ASSUME fks \in Schemas, fks' = fks, Constrained(rows),
         NEW t \in Tables, NEW p \in Pks, NEW r, NEW gone \in SUBSET Pks,
         r # Absent => Fits(t, p, r, gone),
         \A u \in Tables : \A q \in Pks :
           rows'[u][q] = IF u = t /\ q = p THEN r
                         ELSE IF u = t /\ q \in gone THEN Absent ELSE rows[u][q]
  PROVE  Constrained(rows)'
<1>1. ASSUME NEW u \in Tables, NEW q \in Pks, NEW i \in ColsOf(u), rows'[u][q] # Absent
      PROVE  /\ rows'[u][q][i] \in fks[i].check
             /\ fks[i].unique /\ rows'[u][q][i] # NULL =>
                  \A x \in Pks \ {q} : rows'[u][x] # Absent => rows'[u][x][i] # rows'[u][q][i]
  <2>1. CASE u = t /\ q = p
    BY <1>1, <2>1 DEF Fits
  <2>2. CASE ~(u = t /\ q = p)
    <3>1. rows'[u][q] = rows[u][q] /\ rows[u][q] # Absent /\ ~(u = t /\ q \in gone)
      BY <1>1, <2>2
    <3>2. rows'[u][q][i] \in fks[i].check
      BY <3>1 DEF Constrained
    <3>3. ASSUME fks[i].unique, rows'[u][q][i] # NULL, NEW x \in Pks \ {q}, rows'[u][x] # Absent
          PROVE  rows'[u][x][i] # rows'[u][q][i]
      <4>1. CASE u = t /\ x = p
        BY <2>2, <3>1, <3>3, <4>1 DEF Fits
      <4>2. CASE ~(u = t /\ x = p)
        BY <3>1, <3>3, <4>2 DEF Constrained
      <4> QED BY <4>1, <4>2
    <3> QED BY <3>2, <3>3
  <2> QED BY <2>1, <2>2
<1> QED BY <1>1, SameFks DEF Constrained

\* A cascade gives a column one value: at most one row if it is UNIQUE, as all
\* of them held the same key k.
LEMMA SetConstrained ==
  ASSUME fks \in Schemas, fks' = fks, RowsOK(rows), IndexOK(rows, index), Constrained(rows),
         NEW i \in Cols, NEW cs \in SUBSET Pks, NEW k \in Pks, NEW v,
         \A q \in cs : rows[fks[i].table][q] # Absent /\ rows[fks[i].table][q][i] = k,
         CanSet(i, cs, v), SetColumn(i, cs, v)
  PROVE  Constrained(rows)'
<1> DEFINE t == fks[i].table
           changed == Changed(i, cs, v)
<1>1. \A u \in Tables : \A q \in Pks :
        /\ rows'[u][q] # Absent <=> rows[u][q] # Absent
        /\ rows[u][q] # Absent => \A j \in ColsOf(u) :
             rows'[u][q][j] = IF j = i /\ q \in changed THEN v ELSE rows[u][q][j]
  BY SetColumnFacts
<1>2. /\ t \in Tables /\ i \in ColsOf(t) /\ fks[i].check \subseteq Vals
      /\ \A j \in Cols : fks[j].table \in Tables
  BY FkFacts
<1>3. ASSUME NEW q \in changed
      PROVE  /\ q \in cs /\ v \in fks[i].check
             /\ fks[i].unique /\ v # NULL =>
                  \A x \in Pks \ {q} : rows[t][x] # Absent => rows[t][x][i] # v
  <2>1. q \in cs /\ v \in fks[i].check /\ ~Taken(i, v, q)
    BY DEF Changed, CanSet
  <2>2. v \in Vals
    BY <1>2, <2>1
  <2> QED BY <2>1, <2>2, TakenFacts
<1>4. fks[i].unique => \A q, x \in changed : q = x
  <2>1. k # NULL
    BY ValFacts
  <2> QED BY <1>2, <1>3, <2>1 DEF Constrained
<1>5. ASSUME NEW u \in Tables, NEW q \in Pks, NEW j \in ColsOf(u), rows'[u][q] # Absent
      PROVE  /\ rows'[u][q][j] \in fks[j].check
             /\ fks[j].unique /\ rows'[u][q][j] # NULL =>
                  \A x \in Pks \ {q} : rows'[u][x] # Absent => rows'[u][x][j] # rows'[u][q][j]
  <2> HIDE DEF changed
  <2>1. rows[u][q] # Absent /\ (j = i => u = t)
    BY <1>1, <1>5 DEF ColsOf
  <2>2. CASE j # i
    BY <1>1, <2>1, <2>2 DEF Constrained
  <2>3. CASE j = i /\ q \in changed
    <3>1. rows'[u][q][i] = v
      BY <1>1, <2>1, <2>3
    <3>2. \A x \in Pks \ {q} : fks[i].unique /\ rows[t][x] # Absent => rows'[t][x][i] = rows[t][x][i]
      BY <1>1, <1>2, <1>4, <2>3
    <3> QED BY <1>1, <1>2, <1>3, <2>1, <2>3, <3>1, <3>2
  <2>4. CASE j = i /\ q \notin changed
    <3>1. rows'[u][q][i] = rows[t][q][i] /\ rows[t][q] # Absent
      BY <1>1, <2>1, <2>4
    <3>2. rows[t][q][i] \in fks[i].check
      BY <1>2, <3>1 DEF Constrained
    <3>3. ASSUME fks[i].unique, rows[t][q][i] # NULL, NEW x \in Pks \ {q}, rows[t][x] # Absent
          PROVE  rows'[t][x][i] # rows[t][q][i]
      <4>1. CASE x \in changed
        BY <1>1, <1>2, <1>3, <2>4, <3>1, <3>3, <4>1
      <4>2. CASE x \notin changed
        BY <1>1, <1>2, <3>1, <3>3, <4>2 DEF Constrained
      <4> QED BY <4>1, <4>2
    <3> QED BY <1>1, <1>2, <2>1, <2>4, <3>1, <3>2, <3>3
  <2> QED BY <2>2, <2>3, <2>4
<1> QED BY <1>5, SameFks DEF Constrained

LEMMA SameConstrained ==
  ASSUME ConstraintsOK, UNCHANGED <<fks, rows, stmt, saved, moving>>
  PROVE  ConstraintsOK'
<1>1. Constrained(rows) => Constrained(rows)'
  BY SameFks DEF Constrained
<1>2. Constrained(saved.rows) => Constrained(saved.rows)'
  BY SameFks DEF Constrained
<1>3. moving # NoMove /\ Fits(stmt.table, moving.to, moving.new, {moving.from})
        => Fits(stmt.table, moving.to, moving.new, {moving.from})'
  BY SameFks DEF Fits
<1> QED BY <1>1, <1>2, <1>3 DEF ConstraintsOK, Idle

\* A step that changes rows within a statement, when no row moves after it.
LEMMA RowsConstrained ==
  ASSUME ConstraintsOK, UNCHANGED <<fks, stmt, saved>>, moving' = NoMove, Constrained(rows)'
  PROVE  ConstraintsOK'
<1>1. Constrained(saved.rows) => Constrained(saved.rows)'
  BY SameFks DEF Constrained
<1> QED BY <1>1 DEF ConstraintsOK, Idle

LEMMA BeginConstrained ==
  ASSUME IInv, ConstraintsOK, NEW s, NEW targets, Begin(s, targets)
  PROVE  ConstraintsOK'
<1>1. /\ UNCHANGED <<fks, rows, moving>> /\ moving = NoMove /\ saved'.rows = rows
  BY DEF Begin, IInv, ControlOK
<1>2. Constrained(rows)' /\ Constrained(saved.rows)'
  BY <1>1, SameFks DEF ConstraintsOK, Constrained
<1> QED BY <1>1, <1>2 DEF ConstraintsOK

LEMMA FailConstrained ==
  ASSUME Supported, ConstraintsOK, ~Idle, Fail
  PROVE  ConstraintsOK'
<1>1. fks' = fks /\ rows' = saved.rows /\ stmt' = NoStmt /\ moving' = NoMove
  BY DEF Fail, Ended, Supported
<1>2. Constrained(rows)'
  BY <1>1, SameFks DEF ConstraintsOK, Constrained
<1> QED BY <1>1, <1>2 DEF ConstraintsOK, Idle

LEMMA CascadeSetConstrained ==
  ASSUME IInv, ConstraintsOK, NEW i \in Cols, CascadeSet(i)
  PROVE  ConstraintsOK'
<1>1. PICK cs, v : /\ cs = DependentsOf(i) /\ cs # {}
                   /\ CanSet(i, cs, v) /\ SetColumn(i, cs, v)
  BY DEF CascadeSet
<1>2. UNCHANGED <<fks, stmt, saved, moving>> /\ queue # <<>>
  BY DEF CascadeSet, Visiting
<1>3. HeadPk \in Pks /\ moving = NoMove /\ fks \in Schemas
  BY <1>2, HeadFacts DEF IInv
<1>4. cs = {p \in Pks : rows[fks[i].table][p] # Absent /\ rows[fks[i].table][p][i] = HeadPk}
  BY <1>1, <1>3, ChildrenFacts DEF DependentsOf, IInv
<1>5. PICK c \in SUBSET Pks, k \in Pks :
        /\ c = cs
        /\ \A q \in c : rows[fks[i].table][q] # Absent /\ rows[fks[i].table][q][i] = k
  BY <1>3, <1>4
<1>6. Constrained(rows)'
  BY <1>1, <1>2, <1>3, <1>5, SetConstrained DEF IInv, ConstraintsOK
<1> QED BY <1>2, <1>3, <1>6, RowsConstrained

LEMMA DeleteRowConstrained ==
  ASSUME IInv, ConstraintsOK, DeleteRow
  PROVE  ConstraintsOK'
<1>1. UNCHANGED <<fks, stmt, moving, saved>> /\ queue # <<>>
  BY DEF DeleteRow
<1>2. HeadTable \in Tables /\ HeadPk \in Pks /\ moving = NoMove /\ fks \in Schemas
  BY <1>1, HeadFacts DEF IInv
<1>3. CASE HeadPk \notin Live(HeadTable)
  <2>1. rows' = rows
    BY <1>3 DEF DeleteRow
  <2> QED BY <1>1, <2>1, SameConstrained
<1>4. CASE HeadPk \in Live(HeadTable)
  <2>1. rows' = [rows EXCEPT ![HeadTable][HeadPk] = Absent]
    BY <1>4 DEF DeleteRow
  <2>2. PICK r \in Rows(HeadTable) \cup {Absent} : r = Absent
    OBVIOUS
  <2>3. \A u \in Tables : \A q \in Pks :
          rows'[u][q] = IF u = HeadTable /\ q = HeadPk THEN r ELSE rows[u][q]
    BY <1>1, <1>2, <2>1, <2>2, PutFacts DEF IInv
  <2>4. PICK gone \in SUBSET Pks : gone = {}
    OBVIOUS
  <2>5. \A u \in Tables : \A q \in Pks :
          rows'[u][q] = IF u = HeadTable /\ q = HeadPk THEN r
                        ELSE IF u = HeadTable /\ q \in gone THEN Absent ELSE rows[u][q]
    BY <2>3, <2>4
  <2>6. /\ r # Absent => Fits(HeadTable, HeadPk, r, gone)
        /\ fks' = fks /\ Constrained(rows)
    BY <1>1, <2>2 DEF ConstraintsOK
  <2>7. Constrained(rows)'
    BY <1>2, <2>5, <2>6, PutConstrained
  <2> QED BY <1>1, <1>2, <2>7, RowsConstrained
<1> QED BY <1>3, <1>4

\* The row that an UPDATE makes is let in: its assigned values are looked up,
\* and those it keeps were the only ones before.
LEMMA AssignedFits ==
  ASSUME IInv, ConstraintsOK, NEW p \in Pks, Target(p), Here(p), stmt.op = "update",
         UpdateAllowed(stmt.table, p, rows[stmt.table][p],
                       Assigned(stmt, rows[stmt.table][p])),
         NEW gone \in SUBSET Pks, NEW at \in Pks, p \in gone \cup {at}
  PROVE  Fits(stmt.table, at, Assigned(stmt, rows[stmt.table][p]), gone)
<1> DEFINE t == stmt.table
           old == rows[t][p]
           new == Assigned(stmt, old)
<1>1. /\ t \in Tables /\ old # Absent /\ old \in Rows(t) /\ new \in Rows(t)
      /\ fks \in Schemas /\ IndexOK(rows, index)
  BY AssignedFacts DEF IInv
<1>2. ASSUME NEW i \in ColsOf(t)
      PROVE  /\ new[i] \in fks[i].check
             /\ fks[i].unique /\ new[i] # NULL =>
                  \A q \in Pks \ (gone \cup {at}) : rows[t][q] # Absent => rows[t][q][i] # new[i]
  <2>1. /\ new[i] \in fks[i].check
        /\ stmt.set[i] # Keep => ~Taken(i, new[i], p)
    BY DEF UpdateAllowed
  <2>2. i \in Cols /\ fks[i].table = t /\ new[i] \in Vals
    BY <1>1 DEF ColsOf, Rows
  <2>3. ASSUME fks[i].unique, new[i] # NULL, NEW q \in Pks \ {p}, rows[t][q] # Absent
        PROVE  rows[t][q][i] # new[i]
    <3>1. CASE stmt.set[i] = Keep
      <4>1. new[i] = old[i]
        BY <3>1 DEF Assigned
      <4> QED BY <1>1, <2>3, <4>1 DEF ConstraintsOK, Constrained
    <3>2. CASE stmt.set[i] # Keep
      BY <1>1, <2>1, <2>2, <2>3, <3>2, TakenFacts
    <3> QED BY <3>1, <3>2
  <2> QED BY <2>1, <2>3
<1> QED BY <1>2 DEF Fits

LEMMA UpdateRowConstrained ==
  ASSUME IInv, ConstraintsOK, NEW p \in Pks, UpdateRow(p)
  PROVE  ConstraintsOK'
<1> DEFINE t == stmt.table
           old == rows[t][p]
           new == Assigned(stmt, old)
<1>1. /\ UpdateAllowed(t, p, old, new) /\ Target(p) /\ Here(p) /\ stmt.op = "update"
      /\ UNCHANGED <<fks, stmt, saved>>
  BY DEF UpdateRow
<1>2. t \in Tables /\ new \in Rows(t) /\ fks \in Schemas /\ moving = NoMove
  BY <1>1, AssignedFacts DEF IInv
<1>3. CASE stmt.to[p] = p
  <2>1. rows' = [rows EXCEPT ![t][p] = new] /\ moving' = moving
    BY <1>3 DEF UpdateRow
  <2>2. PICK gone \in SUBSET Pks : gone = {}
    OBVIOUS
  <2>3. Fits(t, p, new, gone)
    BY <1>1, AssignedFits
  <2> HIDE DEF new
  <2>4. PICK r \in Rows(t) \cup {Absent} : r = new
    BY <1>2
  <2>5. \A u \in Tables : \A q \in Pks :
          rows'[u][q] = IF u = t /\ q = p THEN r ELSE rows[u][q]
    BY <1>1, <1>2, <2>1, <2>4, PutFacts DEF IInv
  <2>6. \A u \in Tables : \A q \in Pks :
          rows'[u][q] = IF u = t /\ q = p THEN r
                        ELSE IF u = t /\ q \in gone THEN Absent ELSE rows[u][q]
    BY <2>2, <2>5
  <2>7. Constrained(rows)'
    BY <1>1, <1>2, <2>3, <2>4, <2>6, PutConstrained DEF ConstraintsOK
  <2> QED BY <1>1, <1>2, <2>1, <2>7, RowsConstrained
<1>4. CASE stmt.to[p] # p
  <2>1. /\ rows' = rows
        /\ moving' = [from |-> p, to |-> stmt.to[p], old |-> old, new |-> new]
    BY <1>4 DEF UpdateRow
  <2>2. stmt.to[p] \in Pks
    BY <1>1, AssignedFacts DEF IInv, ControlOK, StatementOK
  <2>3. Fits(t, stmt.to[p], new, {p})
    BY <1>1, <2>2, AssignedFits
  <2>4. Constrained(rows)' /\ (Constrained(saved.rows) => Constrained(saved.rows)')
    BY <1>1, <2>1, SameFks DEF ConstraintsOK, Constrained
  <2> HIDE DEF new, old
  <2>5. moving'.from = p /\ moving'.to = stmt.to[p] /\ moving'.new = new
    BY <2>1
  <2>6. Fits(stmt.table, moving.to, moving.new, {moving.from})'
    BY <1>1, <2>1, <2>3, <2>5, SameFks DEF Fits
  <2> QED BY <1>1, <2>4, <2>6 DEF ConstraintsOK, Idle
<1> QED BY <1>3, <1>4

\* A child that follows the key gets it, and the row that moves does not have
\* it: no row has the key that it moves to, before it moves.
LEMMA CascadeMoveConstrained ==
  ASSUME Supported, IInv, ConstraintsOK, NEW i \in Cols, CascadeMove(i)
  PROVE  ConstraintsOK'
<1> DEFINE t == stmt.table
           new == moving.new
<1>1. UNCHANGED <<fks, stmt, saved, moving>> /\ moving # NoMove
  BY DEF CascadeMove, Moving
<1>2. CASE Referrers(i) = {}
  <2>1. rows' = rows
    BY <1>2 DEF CascadeMove
  <2> QED BY <1>1, <2>1, SameConstrained
<1>3. CASE Referrers(i) # {}
  <2>1. PICK cs, v : /\ cs = Referrers(i) /\ v = ActionValue(i, fks[i].on_update, moving.to)
                     /\ CanSet(i, cs, v) /\ SetColumn(i, cs, v)
                     /\ fks[i].on_update # "RESTRICT" /\ fks[i].parent = t
    BY <1>3 DEF CascadeMove, Referrers
  <2>2. /\ fks \in Schemas /\ t \in Tables /\ ~Idle
        /\ moving.from \in Pks /\ moving.to \in Pks
        /\ rows[t][moving.to] = Absent /\ new \in Rows(t)
        /\ \A j \in ColsOf(t) : new[j] # NULL => rows[fks[j].parent][new[j]] # Absent
    BY <1>1 DEF IInv, ControlOK, StatementOK, MoveOK
  <2>3. cs = {p \in Pks : rows[fks[i].table][p] # Absent
                          /\ rows[fks[i].table][p][i] = moving.from}
    BY <2>1, <2>2, ChildrenFacts DEF Referrers, IInv
  <2>4. PICK c \in SUBSET Pks, k \in Pks :
          /\ c = cs
          /\ \A q \in c : rows[fks[i].table][q] # Absent /\ rows[fks[i].table][q][i] = k
    <3>1. cs \in SUBSET Pks
      BY <2>3
    <3>2. \A q \in cs : rows[fks[i].table][q] # Absent
                         /\ rows[fks[i].table][q][i] = moving.from
      BY <2>3
    <3> QED BY <2>2, <3>1, <3>2
  <2>5. Constrained(rows)'
    BY <1>1, <2>1, <2>2, <2>4, SetConstrained DEF IInv, ConstraintsOK
  <2>6. /\ CanSet(i, c, v) /\ SetColumn(i, c, v)
        /\ \A u \in Tables : \A q \in Pks :
             /\ rows'[u][q] # Absent <=> rows[u][q] # Absent
             /\ rows[u][q] # Absent => \A j \in ColsOf(u) :
                  rows'[u][q][j] = IF j = i /\ q \in Changed(i, c, v) THEN v
                                   ELSE rows[u][q][j]
    BY <1>1, <2>1, <2>2, <2>4, SetColumnFacts DEF IInv
  \* The value written is the new key or NULL, or nothing is written.
  <2>7. \A q \in Changed(i, c, v) : v \in {moving.to, NULL}
    <3>1. v \in {moving.to, fks[i].default, NULL}
      BY <2>1, <2>2, FkFacts DEF ActionValue
    <3>2. fks[i].default \in {NULL, NoDefault}
      BY <2>2 DEF Supported, Cols
    <3>3. \A q \in Changed(i, c, v) : v \in fks[i].check
      BY <2>6 DEF CanSet
    <3> QED BY <2>2, <3>1, <3>2, <3>3, FkFacts
  <2>8. Fits(t, moving.to, new, {moving.from})'
    <3>1. ASSUME NEW j \in ColsOf(t), fks[j].unique, new[j] # NULL,
                 NEW q \in Pks \ {moving.from, moving.to}, rows'[t][q] # Absent
          PROVE  rows'[t][q][j] # new[j]
      <4>1. rows[t][q] # Absent /\ rows[t][q][j] # new[j]
        BY <1>1, <2>2, <2>6, <3>1 DEF ConstraintsOK, Fits
      <4>2. CASE j = i /\ q \in Changed(i, c, v)
        BY <2>1, <2>2, <2>6, <2>7, <3>1, <4>1, <4>2
      <4>3. CASE ~(j = i /\ q \in Changed(i, c, v))
        BY <2>2, <2>6, <4>1, <4>3
      <4> QED BY <4>2, <4>3
    <3>2. \A j \in ColsOf(t) : new[j] \in fks[j].check
      BY <1>1 DEF ConstraintsOK, Fits
    <3> QED BY <1>1, <3>1, <3>2, SameFks DEF Fits
  <2>9. Constrained(saved.rows)'
    BY <1>1, <2>2, SameFks DEF ConstraintsOK, Constrained
  <2> QED BY <1>1, <2>5, <2>8, <2>9 DEF ConstraintsOK
<1> QED BY <1>2, <1>3

LEMMA MoveRowConstrained ==
  ASSUME IInv, ConstraintsOK, MoveRow
  PROVE  ConstraintsOK'
<1>1. /\ UNCHANGED <<fks, stmt, saved>> /\ moving # NoMove /\ moving' = NoMove
      /\ rows' = [rows EXCEPT ![stmt.table][moving.from] = Absent,
                              ![stmt.table][moving.to] = moving.new]
  BY DEF MoveRow
<1>2. PICK t \in Tables, from \in Pks, to \in Pks, new \in Rows(stmt.table) :
        /\ t = stmt.table /\ from = moving.from /\ to = moving.to /\ new = moving.new
        /\ new \in Rows(t) /\ from # to
  BY <1>1 DEF IInv, ControlOK, StatementOK, MoveOK
<1>3. PICK gone \in SUBSET Pks : gone = {from}
  BY <1>2
<1>4. /\ rows' = [rows EXCEPT ![t][from] = Absent, ![t][to] = new]
      /\ Fits(t, to, new, gone) /\ fks' = fks /\ fks \in Schemas
  BY <1>1, <1>2, <1>3 DEF ConstraintsOK, IInv
<1>5. /\ rows = [u \in Tables |-> rows[u]]
      /\ \A u \in Tables : rows[u] \in [Pks -> Rows(u) \cup {Absent}]
  BY DEF IInv, RowsOK
<1>6. rows' = [u \in Tables |-> IF u = t THEN [rows[t] EXCEPT ![from] = Absent, ![to] = new]
                                ELSE rows[u]]
  BY <1>4, <1>5
<1>7. \A u \in Tables : \A q \in Pks :
        rows'[u][q] = IF u = t /\ q = to THEN new
                      ELSE IF u = t /\ q \in gone THEN Absent ELSE rows[u][q]
  BY <1>2, <1>3, <1>5, <1>6
<1>8. Constrained(rows)'
  <2>1. /\ fks \in Schemas /\ fks' = fks /\ Constrained(rows)
        /\ new # Absent => Fits(t, to, new, gone)
    BY <1>4 DEF ConstraintsOK
  <2> QED BY <1>7, <2>1, PutConstrained
<1> QED BY <1>1, <1>8, RowsConstrained

LEMMA InsertRowConstrained ==
  ASSUME IInv, ConstraintsOK, InsertRow
  PROVE  ConstraintsOK'
<1>1. fks' = fks /\ stmt' = NoStmt /\ moving' = NoMove /\ fks \in Schemas
  BY DEF InsertRow, Ended, IInv
<1>2. Constrained(rows)'
  <2>1. CASE Skipped
    <3>1. rows' = rows
      BY <2>1 DEF InsertRow
    <3> QED BY <1>1, <3>1, SameFks DEF ConstraintsOK, Constrained
  <2>2. CASE ~Skipped
    <3>1. PICK t \in Tables, p \in Pks, r \in Rows(stmt.table) :
            t = stmt.table /\ p = stmt.pk /\ r = stmt.row /\ r \in Rows(t)
      BY DEF InsertRow, AtRow, IInv, ControlOK, StatementOK
    <3>2. rows' = [rows EXCEPT ![t][p] = r] /\ InsertAllowed
      BY <2>2, <3>1 DEF InsertRow
    <3>3. \A u \in Tables : \A q \in Pks :
            rows'[u][q] = IF u = t /\ q = p THEN r ELSE rows[u][q]
      <4>1. PICK x \in Rows(t) \cup {Absent} : x = r
        BY <3>1
      <4>2. rows' = [rows EXCEPT ![t][p] = x] /\ RowsOK(rows)
        BY <3>2, <4>1 DEF IInv
      <4>3. \A u \in Tables : \A q \in Pks :
              rows'[u][q] = IF u = t /\ q = p THEN x ELSE rows[u][q]
        BY <1>1, <4>2, PutFacts
      <4> QED BY <4>1, <4>3
    <3>4. PICK gone \in SUBSET Pks : gone = {}
      OBVIOUS
    <3>5. \A u \in Tables : \A q \in Pks :
            rows'[u][q] = IF u = t /\ q = p THEN r
                          ELSE IF u = t /\ q \in gone THEN Absent ELSE rows[u][q]
      BY <3>3, <3>4
    <3>6. ASSUME NEW i \in ColsOf(t)
          PROVE  /\ r[i] \in fks[i].check
                 /\ fks[i].unique /\ r[i] # NULL =>
                      \A q \in Pks : rows[t][q] # Absent => rows[t][q][i] # r[i]
      <4>1. r[i] \in fks[i].check /\ ~Taken(i, r[i], NULL)
        BY <3>1, <3>2 DEF InsertAllowed
      <4>2. i \in Cols /\ fks[i].table = t /\ r[i] \in Vals
        BY <3>1 DEF ColsOf, Rows
      <4>3. NULL \notin Pks
        BY ValFacts
      <4> QED BY <1>1, <4>1, <4>2, <4>3, TakenFacts DEF IInv
    <3>7. Fits(t, p, r, gone)
      BY <3>6 DEF Fits
    <3> QED BY <1>1, <3>5, <3>7, PutConstrained DEF ConstraintsOK
  <2> QED BY <2>1, <2>2
<1> QED BY <1>1, <1>2 DEF ConstraintsOK, Idle

LEMMA NextConstrained ==
  ASSUME Supported, IInv, ConstraintsOK, [Next]_vars
  PROVE  ConstraintsOK'
<1>1. CASE UNCHANGED vars
  BY <1>1, SameConstrained DEF vars
<1>2. ASSUME NEW s, BeginDelete(s) \/ BeginUpdate(s) \/ BeginInsert(s) PROVE ConstraintsOK'
  BY <1>2, BeginConstrained DEF BeginDelete, BeginUpdate, BeginInsert
<1>3. ASSUME NEW p \in Pks, SkipRow(p) \/ DeleteTarget(p) \/ UpdateRow(p) \/ RefuseUpdate(p)
      PROVE  ConstraintsOK'
  <2>1. CASE SkipRow(p) \/ DeleteTarget(p)
    BY <2>1, SameConstrained DEF SkipRow, DeleteTarget
  <2>2. CASE UpdateRow(p)
    BY <2>2, UpdateRowConstrained
  <2>3. CASE RefuseUpdate(p)
    BY <2>3, FailConstrained DEF RefuseUpdate, Target, AtRow
  <2> QED BY <1>3, <2>1, <2>2, <2>3
<1>4. ASSUME NEW i \in Cols, \/ SkipFk(i) \/ CascadeDelete(i) \/ CascadeSet(i)
                             \/ RefuseDelete(i) \/ CascadeMove(i) \/ RefuseMove(i)
      PROVE  ConstraintsOK'
  <2>1. CASE SkipFk(i) \/ CascadeDelete(i)
    BY <2>1, SameConstrained DEF SkipFk, CascadeDelete
  <2>2. CASE CascadeSet(i) \/ CascadeMove(i)
    BY <2>2, CascadeSetConstrained, CascadeMoveConstrained
  <2>3. CASE RefuseDelete(i)
    BY <2>3, HeadFacts, FailConstrained DEF RefuseDelete, Visiting
  <2>4. CASE RefuseMove(i)
    BY <2>4, FailConstrained DEF RefuseMove, Moving, IInv, ControlOK
  <2> QED BY <1>4, <2>1, <2>2, <2>3, <2>4
<1>5. CASE DeleteRow \/ MoveRow \/ InsertRow
  BY <1>5, DeleteRowConstrained, MoveRowConstrained, InsertRowConstrained
<1>6. CASE RefuseInsert
  BY <1>6, FailConstrained DEF RefuseInsert, AtRow
<1>7. CASE Finish
  <2>1. UNCHANGED <<fks, rows>> /\ stmt' = NoStmt /\ moving' = NoMove
    BY <1>7 DEF Finish, Ended
  <2>2. Constrained(rows)'
    BY <2>1, SameFks DEF ConstraintsOK, Constrained
  <2> QED BY <2>1, <2>2 DEF ConstraintsOK, Idle
<1> QED BY <1>1, <1>2, <1>3, <1>4, <1>5, <1>6, <1>7 DEF Next

\* At every step of every statement the referencing columns hold values their
\* NOT NULL and CHECK accept, and a UNIQUE one no value twice: what a cascade
\* writes is looked at as an INSERT of the child would be, against an index
\* that the steps before it have already changed.
THEOREM ConstraintsCorrect ==
  ASSUME Supported
  PROVE  Spec => []CascadesRespectConstraints
<1>1. Init => ConstraintsOK
  <2>1. SUFFICES ASSUME Init PROVE ConstraintsOK
    OBVIOUS
  <2>2. \A t \in Tables : \A p \in Pks : rows[t][p] = Absent
    BY <2>1 DEF Init
  <2> QED BY <2>1, <2>2 DEF Init, Idle, ConstraintsOK, Constrained
<1>2. IInv /\ ConstraintsOK /\ [Next]_vars => ConstraintsOK'
  BY NextConstrained
<1>3. IInv /\ ConstraintsOK => CascadesRespectConstraints
  <2>1. SUFFICES ASSUME IInv, ConstraintsOK PROVE CascadesRespectConstraints
    OBVIOUS
  <2>2. \A i \in Cols : fks[i].table \in Tables /\ i \in ColsOf(fks[i].table)
    BY <2>1, FkFacts DEF IInv
  <2> QED BY <2>1, <2>2 DEF ConstraintsOK, Constrained, CascadesRespectConstraints, Live
<1> QED BY <1>1, <1>2, <1>3, Invariance, PTL DEF Spec

-----------------------------------------------------------------------------
(* Exactness: the rows R of a statement in progress, against the rows O it *)
(* began with.                                                             *)

\* A DELETE has taken rows of D only, and in the others it has nulled what
\* referred to rows of D.
DeletedFrom(O, R, D) ==
  \A t \in Tables : \A p \in Pks :
    /\ R[t][p] = Absent => O[t][p] = Absent \/ <<t, p>> \in D
    /\ R[t][p] # Absent =>
         /\ O[t][p] # Absent
         /\ \A i \in ColsOf(t) : R[t][p][i] # O[t][p][i] =>
              /\ R[t][p][i] = NULL
              /\ \/ fks[i].on_delete = "SET NULL"
                 \/ fks[i].on_delete = "SET DEFAULT" /\ fks[i].default = NULL
              /\ <<fks[i].parent, O[t][p][i]>> \in D

\* What each foreign key writes when the key it references becomes to.
MovedValues(to) == [i \in Cols |-> ActionValue(i, fks[i].on_update, to)]

\* The references to key from of table mt by the foreign keys before n have
\* become what V has for each, and nothing else has changed.
FollowedBy(O, R, mt, from, V, n) ==
  \A t \in Tables : \A p \in Pks :
    /\ R[t][p] = Absent <=> O[t][p] = Absent
    /\ R[t][p] # Absent => \A i \in ColsOf(t) :
         R[t][p][i] = IF i < n /\ fks[i].parent = mt /\ O[t][p][i] = from
                        THEN V[i] ELSE O[t][p][i]

\* Of a DELETE, every target it has handled has gone or is in the worklist.
DeleteSoFar(D) ==
  /\ todo \subseteq stmt.targets /\ Queued \subseteq D
  /\ \A p \in stmt.targets \ todo :
       p \in Pks /\ rows[stmt.table][p] # Absent => <<stmt.table, p>> \in Queued
  /\ DeletedFrom(saved.rows, rows, D)

\* Of an UPDATE, the first row finds the rows as they were.
UpdateSoFar ==
  /\ todo \subseteq stmt.targets
  /\ moving = NoMove /\ todo = stmt.targets => rows = saved.rows
  /\ moving # NoMove => moving.from \in stmt.targets
  /\ moving # NoMove /\ stmt.targets = {moving.from} =>
       /\ moving.new = Assigned(stmt, saved.rows[stmt.table][moving.from])
       /\ FollowedBy(saved.rows, rows, stmt.table, moving.from,
                     MovedValues(moving.to), next)

SoFarOK ==
  /\ ~Idle /\ stmt.op = "delete" => DeleteSoFar(Doomed(stmt.table, stmt.targets))
  /\ ~Idle /\ stmt.op = "update" => UpdateSoFar

\* The doomed rows are the smallest set that takes all.
LEMMA DoomedFacts ==
  ASSUME NEW t, NEW keys
  PROVE  /\ Doomed(t, keys) \subseteq WasThere
         /\ TakesAll(Doomed(t, keys), t, keys)
         /\ \A S \in SUBSET WasThere : TakesAll(S, t, keys) => Doomed(t, keys) \subseteq S
<1>1. Doomed(t, keys) \subseteq WasThere
  BY DEF Doomed
<1>2. \A S \in SUBSET WasThere : TakesAll(S, t, keys) => Doomed(t, keys) \subseteq S
  BY DEF Doomed
<1>3. \A x \in WasThere : x[1] = t /\ x[2] \in keys => x \in Doomed(t, keys)
  BY DEF Doomed, TakesAll
<1>4. ASSUME NEW c \in WasThere, NEW d \in Doomed(t, keys), Refers(c, d)
      PROVE  c \in Doomed(t, keys)
  <2>1. ASSUME NEW S \in SUBSET WasThere, TakesAll(S, t, keys) PROVE c \in S
    <3>1. d \in S
      BY <1>2, <2>1
    <3> QED BY <1>4, <2>1, <3>1 DEF TakesAll
  <2> QED BY <2>1 DEF Doomed
<1> QED BY <1>1, <1>2, <1>3, <1>4 DEF TakesAll

\* The rows of a statement are those it began with, so what it dooms stays.
LEMMA SameDoomed ==
  ASSUME UNCHANGED <<fks, stmt, saved>>
  PROVE  Doomed(stmt.table, stmt.targets)' = Doomed(stmt.table, stmt.targets)
<1>1. WasThere' = WasThere
  BY DEF WasThere
<1>2. \A c, d : Refers(c, d)' <=> Refers(c, d)
  BY SameFks DEF Refers
<1>3. \A S : TakesAll(S, stmt.table, stmt.targets)' <=> TakesAll(S, stmt.table, stmt.targets)
  BY <1>1, <1>2 DEF TakesAll
<1> QED BY <1>1, <1>3 DEF Doomed

LEMMA SameMoved ==
  ASSUME fks' = fks, NEW to
  PROVE  MovedValues(to)' = MovedValues(to)
<1>1. Cols' = Cols
  BY SameFks
<1> QED BY <1>1 DEF MovedValues, ActionValue

LEMMA SameDeleted ==
  ASSUME fks' = fks, NEW O, NEW R, NEW D, DeletedFrom(O, R, D)
  PROVE  DeletedFrom(O, R, D)'
BY DEF DeletedFrom, ColsOf, Cols

\* A step within a DELETE that keeps to the doomed rows.
LEMMA DeleteGoesOn ==
  ASSUME SoFarOK, UNCHANGED <<fks, stmt, saved>>, stmt.op # "update",
         ASSUME NEW D, D = Doomed(stmt.table, stmt.targets), stmt.op = "delete",
                ~Idle, DeleteSoFar(D)
         PROVE  /\ todo' \subseteq stmt.targets /\ Queued' \subseteq D
                /\ \A p \in stmt.targets \ todo' : p \in Pks /\ rows'[stmt.table][p] # Absent
                     => <<stmt.table, p>> \in Queued'
                /\ DeletedFrom(saved.rows, rows', D)
  PROVE  SoFarOK'
<1>1. ASSUME ~Idle, stmt.op = "delete", NEW D, D = Doomed(stmt.table, stmt.targets)
      PROVE  DeleteSoFar(D)'
  <2>1. DeleteSoFar(D)
    BY <1>1 DEF SoFarOK
  <2>2. /\ todo' \subseteq stmt.targets /\ Queued' \subseteq D
        /\ \A p \in stmt.targets \ todo' : p \in Pks /\ rows'[stmt.table][p] # Absent
             => <<stmt.table, p>> \in Queued'
        /\ DeletedFrom(saved.rows, rows', D)
    BY <1>1, <2>1
  <2>3. DeletedFrom(saved.rows, rows, D)'
    <3>1. PICK O, R : O = saved.rows /\ R = rows'
      OBVIOUS
    <3>2. DeletedFrom(O, R, D)'
      BY <2>2, <3>1, SameDeleted
    <3> QED BY <3>1, <3>2
  <2> QED BY <2>2, <2>3 DEF DeleteSoFar
<1>2. ASSUME ~Idle', stmt'.op = "delete"
      PROVE  DeleteSoFar(Doomed(stmt.table, stmt.targets))'
  <2>1. PICK D : D = Doomed(stmt.table, stmt.targets)
    OBVIOUS
  <2>2. ~Idle /\ stmt.op = "delete"
    BY <1>2 DEF Idle
  <2>3. D = Doomed(stmt.table, stmt.targets)'
    BY <2>1, SameDoomed
  <2>4. DeleteSoFar(D)'
    BY <1>1, <2>1, <2>2
  <2> QED BY <2>3, <2>4 DEF DeleteSoFar
<1> QED BY <1>2 DEF SoFarOK

LEMMA BeginSoFar ==
  ASSUME IInv, NEW s, NEW targets, Begin(s, targets),
         s.op \in {"delete", "update"} => targets = s.targets
  PROVE  SoFarOK'
<1>1. /\ UNCHANGED <<fks, rows, queue, moving>> /\ stmt' = s /\ todo' = targets
      /\ queue = <<>> /\ moving = NoMove /\ saved'.rows = rows
  BY DEF Begin, IInv, ControlOK
<1>2. Queued' = {}
  BY <1>1 DEF Queued
<1>3. ASSUME NEW D, s.op = "delete" PROVE DeleteSoFar(D)'
  <2>1. DeletedFrom(saved.rows, rows, D)'
    BY <1>1 DEF DeletedFrom
  <2> QED BY <1>1, <1>2, <1>3, <2>1 DEF DeleteSoFar
<1>4. s.op = "delete" => DeleteSoFar(Doomed(stmt.table, stmt.targets))'
  <2>1. PICK D : D = Doomed(stmt.table, stmt.targets)'
    OBVIOUS
  <2> QED BY <1>3, <2>1 DEF DeleteSoFar
<1>5. s.op = "update" => UpdateSoFar'
  BY <1>1 DEF UpdateSoFar
<1> QED BY <1>1, <1>4, <1>5 DEF SoFarOK

\* Nothing is said of the rows when no statement is in progress.
LEMMA EndSoFar ==
  ASSUME Ended
  PROVE  SoFarOK'
BY DEF Ended, SoFarOK, Idle

\* A row that is there refers to a doomed row by ON DELETE CASCADE: as the
\* column has not been changed, it did when the statement began.
LEMMA DoomedChild ==
  ASSUME IInv, NEW t0, NEW keys, NEW D, D = Doomed(t0, keys),
         DeletedFrom(saved.rows, rows, D),
         NEW t \in Tables, NEW p \in Pks, NEW i \in ColsOf(t), NEW u, NEW k,
         rows[t][p] # Absent, fks[i].on_delete = "CASCADE", fks[i].parent = u,
         rows[t][p][i] = k, <<u, k>> \in D
  PROVE  <<t, p>> \in D
<1>1. saved.rows[t][p] # Absent /\ saved.rows[t][p][i] = k
  BY DEF DeletedFrom
<1>2. PICK x, y : x = <<t, p>> /\ y = <<u, k>>
  OBVIOUS
<1>3. x[1] = t /\ x[2] = p /\ y[1] = u /\ y[2] = k /\ x \in Tables \X Pks
  BY <1>2
<1>4. x \in WasThere
  BY <1>1, <1>3 DEF WasThere
<1>5. Refers(x, y)
  BY <1>1, <1>3 DEF Refers
<1>6. TakesAll(D, t0, keys)
  BY DoomedFacts
<1> QED BY <1>2, <1>4, <1>5, <1>6 DEF TakesAll

LEMMA SkipRowSoFar ==
  ASSUME IInv, SoFarOK, NEW p \in Pks, SkipRow(p)
  PROVE  SoFarOK'
<1>1. /\ UNCHANGED <<fks, rows, stmt, saved, queue, moving>>
      /\ todo' = todo \ {p} /\ p \in todo /\ rows[stmt.table][p] = Absent
      /\ Queued' = Queued /\ moving = NoMove /\ ~Idle
  BY DEF SkipRow, Target, AtRow, Here, Live, Queued
<1>2. CASE stmt.op # "update"
  <2>1. ASSUME NEW D, DeleteSoFar(D)
        PROVE  /\ todo' \subseteq stmt.targets /\ Queued' \subseteq D
               /\ \A q \in stmt.targets \ todo' : q \in Pks /\ rows'[stmt.table][q] # Absent
                    => <<stmt.table, q>> \in Queued'
               /\ DeletedFrom(saved.rows, rows', D)
    BY <1>1, <2>1 DEF DeleteSoFar
  <2> QED BY <1>1, <1>2, <2>1, DeleteGoesOn
<1>3. CASE stmt.op = "update"
  <2>1. UpdateSoFar
    BY <1>1, <1>3 DEF SoFarOK
  <2>2. todo' \subseteq stmt.targets /\ todo' # stmt.targets
    BY <1>1, <2>1 DEF UpdateSoFar
  <2>3. UpdateSoFar'
    BY <1>1, <2>1, <2>2 DEF UpdateSoFar
  <2> QED BY <1>1, <1>3, <2>3 DEF SoFarOK
<1> QED BY <1>2, <1>3

LEMMA DeleteTargetSoFar ==
  ASSUME IInv, SoFarOK, NEW p \in Pks, DeleteTarget(p)
  PROVE  SoFarOK'
<1>1. /\ UNCHANGED <<fks, rows, stmt, saved>>
      /\ todo' = todo \ {p} /\ p \in todo /\ rows[stmt.table][p] # Absent
      /\ queue = <<>> /\ queue' = <<<<stmt.table, p>>>>
      /\ ~Idle /\ stmt.op # "update" /\ stmt.table \in Tables
  BY DEF DeleteTarget, Target, AtRow, Here, Live, IInv, ControlOK, StatementOK
<1>2. Queued = {} /\ Queued' = {<<stmt.table, p>>}
  <2>1. Len(queue') = 1 /\ queue'[1] = <<stmt.table, p>> /\ Len(queue) = 0
    BY <1>1
  <2> QED BY <2>1 DEF Queued
<1>3. ASSUME NEW D, D = Doomed(stmt.table, stmt.targets), DeleteSoFar(D)
      PROVE  /\ todo' \subseteq stmt.targets /\ Queued' \subseteq D
             /\ \A q \in stmt.targets \ todo' : q \in Pks /\ rows'[stmt.table][q] # Absent
                  => <<stmt.table, q>> \in Queued'
             /\ DeletedFrom(saved.rows, rows', D)
  <2>1. PICK x : x = <<stmt.table, p>>
    OBVIOUS
  <2>2. x \in WasThere /\ x[1] = stmt.table /\ x[2] \in stmt.targets
    BY <1>1, <1>3, <2>1 DEF DeleteSoFar, DeletedFrom, WasThere
  <2>3. x \in D
    BY <1>3, <2>2, DoomedFacts DEF TakesAll
  <2> QED BY <1>1, <1>2, <1>3, <2>1, <2>3 DEF DeleteSoFar
<1> QED BY <1>1, <1>3, DeleteGoesOn

LEMMA SkipFkSoFar ==
  ASSUME IInv, SoFarOK, NEW i \in Cols, SkipFk(i)
  PROVE  SoFarOK'
<1>1. /\ UNCHANGED <<fks, rows, stmt, saved, todo, queue>> /\ Queued' = Queued
      /\ stmt.op # "update"
  BY HeadFacts DEF SkipFk, Visiting, Queued
<1>2. ASSUME NEW D, DeleteSoFar(D)
      PROVE  /\ todo' \subseteq stmt.targets /\ Queued' \subseteq D
             /\ \A q \in stmt.targets \ todo' : q \in Pks /\ rows'[stmt.table][q] # Absent
                  => <<stmt.table, q>> \in Queued'
             /\ DeletedFrom(saved.rows, rows', D)
  BY <1>1, <1>2 DEF DeleteSoFar
<1> QED BY <1>1, <1>2, DeleteGoesOn

LEMMA CascadeDeleteSoFar ==
  ASSUME IInv, SoFarOK, NEW i \in Cols, CascadeDelete(i)
  PROVE  SoFarOK'
<1> DEFINE u == fks[i].table
           new == {p \in DependentsOf(i) : <<u, p>> \notin visited}
<1>1. /\ UNCHANGED <<fks, rows, stmt, todo, saved>> /\ queue # <<>>
      /\ fks[i].on_delete = "CASCADE" /\ DependentsOf(i) # {}
  BY DEF CascadeDelete, Visiting
<1>2. PICK s \in Ascending(new) : queue' = queue \o [j \in DOMAIN s |-> <<u, s[j]>>]
  BY DEF CascadeDelete
<1>3. /\ u \in Tables /\ i \in ColsOf(u) /\ new \subseteq DependentsOf(i)
      /\ HeadTable \in Tables /\ HeadPk \in Pks /\ stmt.op # "update"
      /\ Head(queue) = <<HeadTable, HeadPk>> /\ Head(queue) \in Queued
      /\ fks[i].parent = HeadTable
      /\ DependentsOf(i) = {p \in Pks : rows[u][p] # Absent /\ rows[u][p][i] = HeadPk}
  BY <1>1, FkFacts, HeadFacts, ChildrenFacts DEF IInv, DependentsOf
<1>4. /\ [j \in DOMAIN s |-> <<u, s[j]>>] \in Seq(Tables \X Pks)
      /\ \A j \in 1..Len([k \in DOMAIN s |-> <<u, s[k]>>]) :
            \E p \in new : [k \in DOMAIN s |-> <<u, s[k]>>][j] = <<u, p>>
  <2>1. Cardinality(new) \in Nat /\ new \subseteq Pks
    BY <1>3, FS_Subset, FS_CardinalityType, ForeignKeysAssumption
  <2>2. DOMAIN s = 1..Cardinality(new) /\ \A j \in DOMAIN s : s[j] \in new
    BY DEF Ascending
  <2> DEFINE sq == [j \in 1..Cardinality(new) |-> <<u, s[j]>>]
  <2>3. sq = [j \in DOMAIN s |-> <<u, s[j]>>]
    BY <2>2
  <2>4. \A j \in 1..Cardinality(new) : sq[j] = <<u, s[j]>> /\ sq[j] \in Tables \X Pks
    BY <1>3, <2>1, <2>2
  <2>5. sq \in Seq(Tables \X Pks) /\ Len(sq) = Cardinality(new)
    <3>1. sq \in [1..Cardinality(new) -> Tables \X Pks]
      BY <2>4
    <3> HIDE DEF sq, new
    <3> QED BY <2>1, <3>1
  <2>6. \A j \in 1..Len(sq) : \E p \in new : sq[j] = <<u, p>>
    BY <2>2, <2>4, <2>5
  <2> HIDE DEF sq, new
  <2> QED BY <2>3, <2>5, <2>6
<1>5. /\ \A x : x \in Queued => x \in Queued'
      /\ \A x : x \in Queued' => x \in Queued \/ \E p \in new : x = <<u, p>>
  <2>1. queue \in Seq(Tables \X Pks)
    BY DEF IInv, ControlOK
  <2> HIDE DEF new
  <2>2. PICK sq \in Seq(Tables \X Pks) :
          queue' = queue \o sq /\ \A j \in 1..Len(sq) : \E p \in new : sq[j] = <<u, p>>
    BY <1>2, <1>4
  <2>3. /\ \A x : x \in Queued => x \in Queued'
        /\ \A x : x \in Queued' => x \in Queued \/ \E j \in 1..Len(sq) : x = sq[j]
    BY <2>1, <2>2, AppendFacts
  <2> QED BY <2>2, <2>3
<1>6. ASSUME NEW D, D = Doomed(stmt.table, stmt.targets), DeleteSoFar(D)
      PROVE  /\ todo' \subseteq stmt.targets /\ Queued' \subseteq D
             /\ \A q \in stmt.targets \ todo' : q \in Pks /\ rows'[stmt.table][q] # Absent
                  => <<stmt.table, q>> \in Queued'
             /\ DeletedFrom(saved.rows, rows', D)
  <2>1. \A p \in new : <<u, p>> \in D
    <3>1. <<HeadTable, HeadPk>> \in D /\ DeletedFrom(saved.rows, rows, D)
      BY <1>3, <1>6 DEF DeleteSoFar
    <3>2. \A p \in new : p \in Pks /\ rows[u][p] # Absent /\ rows[u][p][i] = HeadPk
      BY <1>3
    <3> HIDE DEF new, u
    <3> QED BY <1>1, <1>3, <1>6, <3>1, <3>2, DoomedChild
  <2> HIDE DEF new
  <2> QED BY <1>1, <1>5, <1>6, <2>1 DEF DeleteSoFar
<1> QED BY <1>1, <1>3, <1>6, DeleteGoesOn

LEMMA CascadeSetSoFar ==
  ASSUME Supported, IInv, SoFarOK, NEW i \in Cols, CascadeSet(i)
  PROVE  SoFarOK'
<1> DEFINE u == fks[i].table
<1>1. /\ UNCHANGED <<fks, stmt, todo, saved, queue>> /\ queue # <<>> /\ Queued' = Queued
      /\ DependentsOf(i) # {}
  BY DEF CascadeSet, Visiting, Queued
<1>2. PICK v : /\ v = ActionValue(i, fks[i].on_delete, NULL)
               /\ CanSet(i, DependentsOf(i), v) /\ SetColumn(i, DependentsOf(i), v)
               /\ fks[i].on_delete \in {"SET NULL", "SET DEFAULT"}
  BY DEF CascadeSet
<1>3. /\ u \in Tables /\ i \in ColsOf(u)
      /\ HeadTable \in Tables /\ HeadPk \in Pks /\ stmt.op # "update"
      /\ Head(queue) = <<HeadTable, HeadPk>> /\ Head(queue) \in Queued
      /\ fks[i].parent = HeadTable
      /\ DependentsOf(i) = {p \in Pks : rows[u][p] # Absent /\ rows[u][p][i] = HeadPk}
  BY <1>1, FkFacts, HeadFacts, ChildrenFacts DEF IInv, DependentsOf
<1>4. PICK cs \in SUBSET Pks :
        /\ CanSet(i, cs, v) /\ SetColumn(i, cs, v)
        /\ \A q \in cs : rows[u][q] # Absent /\ rows[u][q][i] = HeadPk
  BY <1>2, <1>3
<1>5. \A t \in Tables : \A q \in Pks :
        /\ rows'[t][q] # Absent <=> rows[t][q] # Absent
        /\ rows[t][q] # Absent => \A j \in ColsOf(t) :
             rows'[t][q][j] = IF j = i /\ q \in Changed(i, cs, v) THEN v ELSE rows[t][q][j]
  BY <1>1, <1>4, SetColumnFacts DEF IInv
\* A column without a DEFAULT to set is refused.
<1>6. ASSUME NEW q \in Changed(i, cs, v)
      PROVE  /\ v = NULL /\ rows[u][q][i] = HeadPk
             /\ \/ fks[i].on_delete = "SET NULL"
                \/ fks[i].on_delete = "SET DEFAULT" /\ fks[i].default = NULL
  <2>1. q \in cs /\ v \in fks[i].check /\ NoDefault \notin fks[i].check
    BY <1>4, FkFacts DEF Changed, CanSet, IInv
  <2>2. fks[i].default \in {NULL, NoDefault}
    BY DEF Supported, Cols, IInv
  <2>3. CASE fks[i].on_delete = "SET NULL"
    BY <1>2, <1>4, <2>1, <2>3 DEF ActionValue
  <2>4. CASE fks[i].on_delete = "SET DEFAULT"
    <3>1. v = fks[i].default
      BY <1>2, <2>4 DEF ActionValue
    <3> QED BY <1>4, <2>1, <2>2, <2>4, <3>1
  <2> QED BY <1>2, <2>3, <2>4
<1>7. ASSUME NEW D, D = Doomed(stmt.table, stmt.targets), DeleteSoFar(D)
      PROVE  /\ todo' \subseteq stmt.targets /\ Queued' \subseteq D
             /\ \A q \in stmt.targets \ todo' : q \in Pks /\ rows'[stmt.table][q] # Absent
                  => <<stmt.table, q>> \in Queued'
             /\ DeletedFrom(saved.rows, rows', D)
  <2>1. <<HeadTable, HeadPk>> \in D /\ DeletedFrom(saved.rows, rows, D) /\ HeadPk # NULL
    BY <1>3, <1>7, ValFacts DEF DeleteSoFar
  <2>2. stmt.table \in Tables
    BY <1>1, HeadFacts DEF IInv, ControlOK, StatementOK
  <2>3. ASSUME NEW t \in Tables, NEW q \in Pks, rows'[t][q] # Absent, NEW j \in ColsOf(t),
               rows'[t][q][j] # saved.rows[t][q][j]
        PROVE  /\ rows'[t][q][j] = NULL
               /\ \/ fks[j].on_delete = "SET NULL"
                  \/ fks[j].on_delete = "SET DEFAULT" /\ fks[j].default = NULL
               /\ <<fks[j].parent, saved.rows[t][q][j]>> \in D
    <3>1. rows[t][q] # Absent /\ (j = i => t = u)
      BY <1>5, <2>3 DEF ColsOf
    <3>2. CASE j = i /\ q \in Changed(i, cs, v)
      <4>1. rows'[t][q][j] = NULL /\ rows[t][q][j] = HeadPk
        BY <1>5, <1>6, <3>1, <3>2
      <4>2. saved.rows[t][q][j] = HeadPk
        BY <2>1, <3>1, <4>1 DEF DeletedFrom
      <4> QED BY <1>3, <1>6, <2>1, <3>2, <4>1, <4>2
    <3>3. CASE ~(j = i /\ q \in Changed(i, cs, v))
      <4>1. rows'[t][q][j] = rows[t][q][j]
        BY <1>5, <3>1, <3>3
      <4> QED BY <2>1, <2>3, <3>1, <4>1 DEF DeletedFrom
    <3> QED BY <3>2, <3>3
  <2>4. DeletedFrom(saved.rows, rows', D)
    BY <1>5, <2>1, <2>3 DEF DeletedFrom
  <2> QED BY <1>1, <1>5, <1>7, <2>2, <2>4 DEF DeleteSoFar
<1> QED BY <1>1, <1>3, <1>7, DeleteGoesOn

LEMMA DeleteRowSoFar ==
  ASSUME IInv, SoFarOK, DeleteRow
  PROVE  SoFarOK'
<1>1. UNCHANGED <<fks, stmt, todo, saved>> /\ queue # <<>> /\ queue' = Tail(queue)
  BY DEF DeleteRow
<1>2. /\ HeadTable \in Tables /\ HeadPk \in Pks /\ stmt.op # "update" /\ fks \in Schemas
      /\ Head(queue) = <<HeadTable, HeadPk>> /\ Head(queue) \in Queued
      /\ stmt.table \in Tables
  BY <1>1, HeadFacts DEF IInv, ControlOK, StatementOK
<1>3. /\ \A x : x \in Queued => x = Head(queue) \/ x \in Queued'
      /\ \A x : x \in Queued' => x \in Queued
  BY <1>1, TailFacts DEF IInv, ControlOK
<1>4. \A t \in Tables : \A q \in Pks :
        rows'[t][q] = IF t = HeadTable /\ q = HeadPk THEN Absent ELSE rows[t][q]
  <2>1. CASE HeadPk \in Live(HeadTable)
    <3>1. PICK r \in Rows(HeadTable) \cup {Absent} : r = Absent
      OBVIOUS
    <3>2. rows' = [rows EXCEPT ![HeadTable][HeadPk] = r]
      BY <2>1, <3>1 DEF DeleteRow
    <3> QED BY <1>1, <1>2, <3>1, <3>2, PutFacts DEF IInv
  <2>2. CASE HeadPk \notin Live(HeadTable)
    <3>1. rows' = rows /\ rows[HeadTable][HeadPk] = Absent
      BY <1>2, <2>2 DEF DeleteRow, Live
    <3> QED BY <3>1
  <2> QED BY <2>1, <2>2
<1>5. ASSUME NEW D, DeleteSoFar(D)
      PROVE  /\ todo' \subseteq stmt.targets /\ Queued' \subseteq D
             /\ \A q \in stmt.targets \ todo' : q \in Pks /\ rows'[stmt.table][q] # Absent
                  => <<stmt.table, q>> \in Queued'
             /\ DeletedFrom(saved.rows, rows', D)
  <2>1. <<HeadTable, HeadPk>> \in D
    BY <1>2, <1>5 DEF DeleteSoFar
  <2>2. DeletedFrom(saved.rows, rows', D)
    <3>1. PICK O, R0, R : O = saved.rows /\ R0 = rows /\ R = rows'
      OBVIOUS
    <3>2. DeletedFrom(O, R0, D)
      BY <1>5, <3>1 DEF DeleteSoFar
    <3>3. \A t \in Tables : \A q \in Pks :
            \/ R[t][q] = R0[t][q]
            \/ R[t][q] = Absent /\ <<t, q>> \in D
      BY <1>4, <2>1, <3>1
    <3>4. ASSUME NEW t \in Tables, NEW q \in Pks, R[t][q] = Absent
          PROVE  O[t][q] = Absent \/ <<t, q>> \in D
      BY <3>2, <3>3, <3>4 DEF DeletedFrom
    <3>5. \A t \in Tables : \A q \in Pks : R[t][q] # Absent => R[t][q] = R0[t][q]
      BY <3>3
    <3>6. ASSUME NEW t \in Tables, NEW q \in Pks, R[t][q] # Absent
          PROVE  /\ O[t][q] # Absent
                 /\ \A j \in ColsOf(t) : R[t][q][j] # O[t][q][j] =>
                      /\ R[t][q][j] = NULL
                      /\ \/ fks[j].on_delete = "SET NULL"
                         \/ fks[j].on_delete = "SET DEFAULT" /\ fks[j].default = NULL
                      /\ <<fks[j].parent, O[t][q][j]>> \in D
      <4>1. R[t][q] = R0[t][q] /\ R0[t][q] # Absent
        BY <3>5, <3>6
      <4> QED BY <3>2, <4>1 DEF DeletedFrom
    <3>7. DeletedFrom(O, R, D)
      BY <3>4, <3>6 DEF DeletedFrom
    <3> QED BY <3>1, <3>7
  <2>3. ASSUME NEW q \in stmt.targets \ todo', q \in Pks, rows'[stmt.table][q] # Absent
        PROVE  <<stmt.table, q>> \in Queued'
    <3>1. /\ rows[stmt.table][q] # Absent /\ q \in stmt.targets \ todo
          /\ ~(stmt.table = HeadTable /\ q = HeadPk)
      BY <1>1, <1>2, <1>4, <2>3
    <3>2. <<stmt.table, q>> \in Queued /\ <<stmt.table, q>> # Head(queue)
      BY <1>2, <1>5, <2>3, <3>1 DEF DeleteSoFar
    <3> QED BY <1>3, <3>2
  <2> QED BY <1>1, <1>3, <1>5, <2>2, <2>3 DEF DeleteSoFar
<1> QED BY <1>1, <1>2, <1>5, DeleteGoesOn

LEMMA SameFollowed ==
  ASSUME fks' = fks, NEW O, NEW R, NEW mt, NEW from, NEW V, NEW n,
         FollowedBy(O, R, mt, from, V, n)
  PROVE  FollowedBy(O, R, mt, from, V, n)'
BY DEF FollowedBy, ColsOf, Cols

LEMMA SameAssigned ==
  ASSUME fks' = fks, NEW s, NEW r
  PROVE  Assigned(s, r)' = Assigned(s, r)
BY SameFks DEF Assigned

\* A step within an UPDATE, with or without a row that moves after it.
LEMMA UpdateGoesOn ==
  ASSUME UNCHANGED <<fks, stmt, saved>>, ~Idle, stmt.op = "update",
         todo' \subseteq stmt.targets,
         moving' = NoMove => todo' # stmt.targets,
         moving' # NoMove =>
           /\ moving'.from \in stmt.targets
           /\ stmt.targets = {moving'.from} =>
                /\ moving'.new = Assigned(stmt, saved.rows[stmt.table][moving'.from])
                /\ FollowedBy(saved.rows, rows', stmt.table, moving'.from,
                              MovedValues(moving'.to), next')
  PROVE  SoFarOK'
<1>1. ASSUME moving' # NoMove, stmt.targets = {moving'.from}
      PROVE  /\ moving'.new = Assigned(stmt, saved.rows[stmt.table][moving.from])'
             /\ FollowedBy(saved.rows, rows, stmt.table, moving.from,
                           MovedValues(moving.to), next)'
  <2>1. PICK s, r, O, R, mt, from, to, V, n :
          /\ s = stmt /\ r = saved.rows[stmt.table][moving'.from] /\ O = saved.rows
          /\ R = rows' /\ mt = stmt.table /\ from = moving'.from /\ to = moving'.to
          /\ V = MovedValues(to) /\ n = next'
    OBVIOUS
  <2>2. /\ moving'.new = Assigned(s, r)
        /\ FollowedBy(O, R, mt, from, V, n)
    BY <1>1, <2>1
  <2>3. moving'.new = Assigned(s, r)' /\ FollowedBy(O, R, mt, from, V, n)'
    BY <2>2, SameAssigned, SameFollowed
  <2>4. V = MovedValues(to)'
    BY <2>1, SameMoved
  <2> QED BY <2>1, <2>3, <2>4
<1> QED BY <1>1 DEF SoFarOK, UpdateSoFar, Idle

LEMMA UpdateRowSoFar ==
  ASSUME IInv, SoFarOK, NEW p \in Pks, UpdateRow(p)
  PROVE  SoFarOK'
<1>1. /\ UNCHANGED <<fks, stmt, saved>> /\ todo' = todo \ {p} /\ p \in todo
      /\ moving = NoMove /\ ~Idle /\ stmt.op = "update"
  BY DEF UpdateRow, Target, AtRow
<1>2. todo \subseteq stmt.targets /\ (todo = stmt.targets => rows = saved.rows)
  BY <1>1 DEF SoFarOK, UpdateSoFar
<1>3. todo' \subseteq stmt.targets /\ todo' # stmt.targets /\ p \in stmt.targets
  BY <1>1, <1>2
<1>4. CASE moving' = NoMove
  BY <1>1, <1>3, <1>4, UpdateGoesOn
<1>5. CASE moving' # NoMove
  <2>1. /\ rows' = rows /\ next' = 1
        /\ moving' = [from |-> p, to |-> stmt.to[p], old |-> rows[stmt.table][p],
                      new |-> Assigned(stmt, rows[stmt.table][p])]
    BY <1>1, <1>5 DEF UpdateRow
  <2>2. moving'.from = p /\ moving'.new = Assigned(stmt, rows[stmt.table][p])
    BY <2>1
  <2>3. ASSUME stmt.targets = {p}
        PROVE  /\ moving'.new = Assigned(stmt, saved.rows[stmt.table][p])
               /\ FollowedBy(saved.rows, rows', stmt.table, p, MovedValues(moving'.to), next')
    <3>1. rows = saved.rows
      BY <1>1, <1>2, <2>3
    <3>2. \A i \in Cols : ~(i < 1)
      BY DEF Cols
    <3> QED BY <2>1, <2>2, <3>1, <3>2 DEF FollowedBy, ColsOf
  <2> QED BY <1>1, <1>3, <1>5, <2>2, <2>3, UpdateGoesOn
<1> QED BY <1>4, <1>5

\* The references by one more foreign key have followed the key.
LEMMA CascadeMoveSoFar ==
  ASSUME IInv, SoFarOK, NEW i \in Cols, CascadeMove(i)
  PROVE  SoFarOK'
<1> DEFINE u == fks[i].table
<1>1. /\ UNCHANGED <<fks, stmt, todo, moving, saved>> /\ moving # NoMove
      /\ next = i /\ next' = i + 1
  BY DEF CascadeMove, Moving
<1>2. /\ ~Idle /\ stmt.op = "update" /\ moving.from \in Pks /\ moving.from \notin todo
      /\ fks \in Schemas /\ u \in Tables /\ i \in ColsOf(u)
      /\ \A j \in Cols : (j < i + 1 <=> j < i \/ j = i) /\ ~(i < i)
  <2>1. \A j \in Cols : (j < i + 1 <=> j < i \/ j = i) /\ ~(i < i)
    BY DEF Cols
  <2>2. ~Idle /\ stmt.op = "update" /\ moving.from \in Pks /\ moving.from \notin todo
    BY <1>1 DEF IInv, ControlOK, MoveOK
  <2>3. fks \in Schemas
    BY DEF IInv
  <2> QED BY <2>1, <2>2, <2>3, FkFacts
<1>3. /\ todo \subseteq stmt.targets /\ moving.from \in stmt.targets
      /\ stmt.targets = {moving.from} =>
           /\ moving.new = Assigned(stmt, saved.rows[stmt.table][moving.from])
           /\ FollowedBy(saved.rows, rows, stmt.table, moving.from,
                         MovedValues(moving.to), i)
  BY <1>1, <1>2 DEF SoFarOK, UpdateSoFar
<1>4. Children(i, moving.from) = {p \in Pks : /\ rows[u][p] # Absent
                                              /\ rows[u][p][i] = moving.from}
  BY <1>2, ChildrenFacts DEF IInv
<1> DEFINE v == MovedValues(moving.to)[i]
\* What the step does to the rows.
<1>5. \A t \in Tables : \A q \in Pks :
        /\ rows'[t][q] = Absent <=> rows[t][q] = Absent
        /\ rows[t][q] # Absent => \A j \in ColsOf(t) :
             rows'[t][q][j] = IF j = i /\ fks[i].parent = stmt.table
                                   /\ rows[t][q][i] = moving.from
                                THEN v ELSE rows[t][q][j]
  <2>1. CASE Referrers(i) = {}
    <3>1. rows' = rows
      BY <2>1 DEF CascadeMove
    <3>2. \A t \in Tables : \A q \in Pks :
            rows[t][q] # Absent => \A j \in ColsOf(t) :
              ~(j = i /\ fks[i].parent = stmt.table /\ rows[t][q][i] = moving.from)
      BY <1>4, <2>1 DEF Referrers, ColsOf
    <3> QED BY <3>1, <3>2
  <2>2. CASE Referrers(i) # {}
    <3>1. /\ fks[i].parent = stmt.table /\ v = ActionValue(i, fks[i].on_update, moving.to)
          /\ Referrers(i) = Children(i, moving.from)
      BY <2>2 DEF Referrers, MovedValues
    <3>0. PICK w : w = v
      OBVIOUS
    <3>2. PICK cs \in SUBSET Pks :
            /\ cs = Children(i, moving.from)
            /\ CanSet(i, cs, w) /\ SetColumn(i, cs, w)
      <4>1. Children(i, moving.from) \in SUBSET Pks
        BY <1>4
      <4> QED BY <2>2, <3>0, <3>1, <4>1 DEF CascadeMove
    <3>3. \A t \in Tables : \A q \in Pks :
            /\ rows'[t][q] # Absent <=> rows[t][q] # Absent
            /\ rows[t][q] # Absent => \A j \in ColsOf(t) :
                 rows'[t][q][j] = IF j = i /\ q \in Changed(i, cs, w) THEN w
                                  ELSE rows[t][q][j]
      BY <1>1, <1>2, <3>2, SetColumnFacts DEF IInv
    <3>4. \A q \in Pks : q \in Changed(i, cs, w) <=>
            rows[u][q] # Absent /\ rows[u][q][i] = moving.from /\ rows[u][q][i] # w
      BY <1>4, <3>2 DEF Changed, Live
    <3>5. ASSUME NEW t \in Tables, NEW q \in Pks, rows[t][q] # Absent, NEW j \in ColsOf(t)
          PROVE  rows'[t][q][j] = IF j = i /\ rows[t][q][i] = moving.from
                                    THEN w ELSE rows[t][q][j]
      <4>1. j = i => t = u
        BY DEF ColsOf
      <4> QED BY <3>3, <3>4, <3>5, <4>1
    <3> QED BY <3>0, <3>1, <3>2, <3>3, <3>5
  <2> QED BY <2>1, <2>2
<1>6. ASSUME stmt.targets = {moving.from}
      PROVE  FollowedBy(saved.rows, rows', stmt.table, moving.from,
                        MovedValues(moving.to), i + 1)
  <2>1. PICK O, R, V, mt, from :
          /\ O = saved.rows /\ R = rows' /\ V = MovedValues(moving.to)
          /\ mt = stmt.table /\ from = moving.from
    OBVIOUS
  <2>2. FollowedBy(O, rows, mt, from, V, i)
    BY <1>3, <1>6, <2>1
  <2>3. ASSUME NEW t \in Tables, NEW q \in Pks, R[t][q] # Absent, NEW j \in ColsOf(t)
        PROVE  R[t][q][j] = IF j < i + 1 /\ fks[j].parent = mt /\ O[t][q][j] = from
                              THEN V[j] ELSE O[t][q][j]
    <3>1. /\ rows[t][q] # Absent /\ j \in Cols
          /\ R[t][q][j] = IF j = i /\ fks[i].parent = mt /\ rows[t][q][i] = from
                            THEN V[i] ELSE rows[t][q][j]
      BY <1>5, <2>1, <2>3 DEF ColsOf
    <3>2. rows[t][q][j] = IF j < i /\ fks[j].parent = mt /\ O[t][q][j] = from
                            THEN V[j] ELSE O[t][q][j]
      BY <2>2, <3>1 DEF FollowedBy
    <3>3. ~(i < i) /\ (j < i + 1 <=> j < i \/ j = i)
      BY <1>2, <3>1
    <3> QED BY <3>1, <3>2, <3>3
  <2>4. \A t \in Tables : \A q \in Pks : R[t][q] = Absent <=> O[t][q] = Absent
    BY <1>5, <2>1, <2>2 DEF FollowedBy
  <2>5. FollowedBy(O, R, mt, from, V, i + 1)
    BY <2>3, <2>4 DEF FollowedBy
  <2> QED BY <2>1, <2>5
<1> QED BY <1>1, <1>2, <1>3, <1>6, UpdateGoesOn

LEMMA MoveRowSoFar ==
  ASSUME IInv, SoFarOK, MoveRow
  PROVE  SoFarOK'
<1>1. /\ UNCHANGED <<fks, stmt, todo, saved>> /\ moving # NoMove /\ moving' = NoMove
  BY DEF MoveRow
<1>2. ~Idle /\ stmt.op = "update" /\ moving.from \notin todo
  BY <1>1 DEF IInv, ControlOK, MoveOK
<1>3. todo \subseteq stmt.targets /\ moving.from \in stmt.targets
  BY <1>1, <1>2 DEF SoFarOK, UpdateSoFar
<1> QED BY <1>1, <1>2, <1>3, UpdateGoesOn

LEMMA NextSoFar ==
  ASSUME Supported, IInv, SoFarOK, [Next]_vars
  PROVE  SoFarOK'
<1>1. CASE UNCHANGED vars
  <2>1. UNCHANGED <<fks, rows, stmt, todo, queue, moving, next, saved>> /\ Queued' = Queued
    BY <1>1 DEF vars, Queued
  <2>2. CASE Idle
    BY <2>1, <2>2 DEF SoFarOK, Idle
  <2>3. CASE ~Idle /\ stmt.op = "update"
    BY <2>1, <2>3, UpdateGoesOn DEF SoFarOK, UpdateSoFar, IInv, MoveOK
  <2>4. CASE stmt.op # "update"
    <3>1. ASSUME NEW D, DeleteSoFar(D)
          PROVE  /\ todo' \subseteq stmt.targets /\ Queued' \subseteq D
                 /\ \A q \in stmt.targets \ todo' : q \in Pks /\ rows'[stmt.table][q] # Absent
                      => <<stmt.table, q>> \in Queued'
                 /\ DeletedFrom(saved.rows, rows', D)
      BY <2>1, <3>1 DEF DeleteSoFar
    <3> QED BY <2>1, <2>4, <3>1, DeleteGoesOn
  <2> QED BY <2>2, <2>3, <2>4
<1>2. ASSUME NEW t \in Tables, \/ \E s \in Deletes : BeginDelete(s)
                               \/ \E s \in Updates(t) : BeginUpdate(s)
                               \/ \E s \in Inserts(t) : BeginInsert(s)
      PROVE  SoFarOK'
  <2>1. PICK s, targets : /\ Begin(s, targets)
                          /\ s.op \in {"delete", "update"} => targets = s.targets
    <3>1. ASSUME NEW s \in Inserts(t), BeginInsert(s)
          PROVE  \E targets : Begin(s, targets) /\ s.op = "insert"
      BY <3>1 DEF BeginInsert, Inserts
    <3> QED BY <1>2, <3>1 DEF BeginDelete, BeginUpdate
  <2> QED BY <2>1, BeginSoFar
<1>3. ASSUME NEW p \in Pks, SkipRow(p) \/ DeleteTarget(p) \/ UpdateRow(p) \/ RefuseUpdate(p)
      PROVE  SoFarOK'
  BY <1>3, SkipRowSoFar, DeleteTargetSoFar, UpdateRowSoFar, EndSoFar DEF RefuseUpdate, Fail
<1>4. ASSUME NEW i \in Cols, \/ SkipFk(i) \/ CascadeDelete(i) \/ CascadeSet(i)
                             \/ RefuseDelete(i) \/ CascadeMove(i) \/ RefuseMove(i)
      PROVE  SoFarOK'
  BY <1>4, SkipFkSoFar, CascadeDeleteSoFar, CascadeSetSoFar, CascadeMoveSoFar, EndSoFar
     DEF RefuseDelete, RefuseMove, Fail
<1>5. CASE DeleteRow \/ MoveRow
  BY <1>5, DeleteRowSoFar, MoveRowSoFar
<1>6. CASE InsertRow \/ RefuseInsert \/ Finish
  BY <1>6, EndSoFar DEF InsertRow, RefuseInsert, Finish, Fail
<1>7. CASE \E s \in Deletes : BeginDelete(s)
  <2>1. PICK s \in Deletes : BeginDelete(s)
    BY <1>7
  <2> QED BY <2>1, BeginSoFar DEF BeginDelete
<1> QED BY <1>1, <1>2, <1>3, <1>4, <1>5, <1>6, <1>7 DEF Next

\* The rows a DELETE has taken when its worklist is empty take all: a row left
\* would refer to one that is not there.
LEMMA GoneAreDoomed ==
  ASSUME IInv, queue = <<>>, moving = NoMove, todo = {},
         NEW D, D = Doomed(stmt.table, stmt.targets), DeleteSoFar(D)
  PROVE  \A t \in Tables : \A p \in Pks :
           <<t, p>> \in D => rows[t][p] = Absent
<1> DEFINE gone == {x \in WasThere : rows[x[1]][x[2]] = Absent}
<1>1. Queued = {} /\ Sound(rows) /\ DeletedFrom(saved.rows, rows, D)
  BY RefsAreSound DEF IInv, Queued, DeleteSoFar
<1>2. ASSUME NEW x \in WasThere, x[1] = stmt.table, x[2] \in stmt.targets
      PROVE  x \in gone
  <2>1. x[2] \in stmt.targets \ todo /\ x[2] \in Pks
    BY <1>2 DEF WasThere
  <2> QED BY <1>1, <1>2, <2>1 DEF DeleteSoFar
<1>3. ASSUME NEW c \in WasThere, NEW d \in gone, Refers(c, d)
      PROVE  c \in gone
  <2>1. PICK i \in ColsOf(c[1]) : /\ fks[i].on_delete = "CASCADE" /\ fks[i].parent = d[1]
                                  /\ saved.rows[c[1]][c[2]][i] = d[2]
    BY <1>3 DEF Refers
  <2>2. /\ c[1] \in Tables /\ c[2] \in Pks /\ d[2] \in Pks /\ d[2] # NULL
        /\ rows[d[1]][d[2]] = Absent
    BY ValFacts DEF WasThere
  <2>3. CASE rows[c[1]][c[2]] # Absent
    <3>1. rows[c[1]][c[2]][i] = d[2]
      BY <1>1, <2>1, <2>2, <2>3 DEF DeletedFrom
    <3> QED BY <1>1, <2>1, <2>2, <2>3, <3>1 DEF Sound
  <2> QED BY <2>3
<1>4. gone \in SUBSET WasThere /\ TakesAll(gone, stmt.table, stmt.targets)
  BY <1>2, <1>3 DEF TakesAll
<1>5. D \subseteq gone
  BY <1>4, DoomedFacts
<1>6. ASSUME NEW t \in Tables, NEW p \in Pks, <<t, p>> \in D
      PROVE  rows[t][p] = Absent
  <2>1. PICK x : x = <<t, p>>
    OBVIOUS
  <2> QED BY <1>5, <1>6, <2>1
<1> QED BY <1>6

LEMMA DeleteEndsExact ==
  ASSUME Supported, IInv, SoFarOK, Finish, stmt.op = "delete",
         NEW D, D = Doomed(stmt.table, stmt.targets)
  PROVE  rows = [t \in Tables |-> [p \in Pks |->
                   IF saved.rows[t][p] = Absent \/ <<t, p>> \in D THEN Absent
                   ELSE Survivor(t, saved.rows[t][p], D)]]
<1>1. /\ queue = <<>> /\ moving = NoMove /\ todo = {} /\ ~Idle /\ fks \in Schemas
      /\ RowsOK(rows) /\ RowsOK(saved.rows) /\ Sound(rows)
  BY RefsAreSound DEF Finish, AtRow, IInv, SavedOK
<1>2. DeleteSoFar(D)
  BY <1>1 DEF SoFarOK
<1>3. ASSUME NEW t \in Tables, NEW p \in Pks, <<t, p>> \in D
      PROVE  rows[t][p] = Absent
  BY <1>1, <1>2, <1>3, GoneAreDoomed
<1>4. ASSUME NEW t \in Tables, NEW p \in Pks, saved.rows[t][p] # Absent, <<t, p>> \notin D
      PROVE  rows[t][p] = Survivor(t, saved.rows[t][p], D)
  <2>1. /\ rows[t][p] # Absent
        /\ \A i \in ColsOf(t) : rows[t][p][i] # saved.rows[t][p][i] =>
             /\ rows[t][p][i] = NULL
             /\ \/ fks[i].on_delete = "SET NULL"
                \/ fks[i].on_delete = "SET DEFAULT" /\ fks[i].default = NULL
             /\ <<fks[i].parent, saved.rows[t][p][i]>> \in D
    BY <1>2, <1>4 DEF DeleteSoFar, DeletedFrom
  <2>2. rows[t][p] \in [ColsOf(t) -> Vals]
    BY <1>1, <2>1, RowFacts DEF Rows
  <2>3. ASSUME NEW i \in ColsOf(t)
        PROVE  rows[t][p][i] = IF <<fks[i].parent, saved.rows[t][p][i]>> \in D
                                 THEN ActionValue(i, fks[i].on_delete, NULL)
                                 ELSE saved.rows[t][p][i]
    <3>1. CASE <<fks[i].parent, saved.rows[t][p][i]>> \in D
      <4>1. PICK x : x = <<fks[i].parent, saved.rows[t][p][i]>>
        OBVIOUS
      <4>2. x \in Tables \X Pks
        BY <3>1, <4>1, DoomedFacts DEF WasThere
      <4>3. /\ fks[i].parent \in Tables /\ saved.rows[t][p][i] \in Pks
            /\ saved.rows[t][p][i] # NULL
        BY <4>1, <4>2, ValFacts
      <4>4. rows[fks[i].parent][saved.rows[t][p][i]] = Absent
        BY <1>3, <3>1, <4>3
      <4>5. rows[t][p][i] # saved.rows[t][p][i]
        BY <1>1, <2>1, <4>3, <4>4 DEF Sound
      <4>6. ActionValue(i, fks[i].on_delete, NULL) = NULL
        BY <2>1, <4>5 DEF ActionValue
      <4> QED BY <2>1, <3>1, <4>5, <4>6
    <3>2. CASE <<fks[i].parent, saved.rows[t][p][i]>> \notin D
      BY <2>1, <3>2
    <3> QED BY <3>1, <3>2
  <2> QED BY <2>2, <2>3 DEF Survivor
<1>5. ASSUME NEW t \in Tables, NEW p \in Pks
      PROVE  rows[t][p] = IF saved.rows[t][p] = Absent \/ <<t, p>> \in D THEN Absent
                          ELSE Survivor(t, saved.rows[t][p], D)
  <2>1. saved.rows[t][p] = Absent => rows[t][p] = Absent
    BY <1>2 DEF DeleteSoFar, DeletedFrom
  <2> QED BY <1>3, <1>4, <2>1
<1>6. /\ rows = [t \in Tables |-> rows[t]]
      /\ \A t \in Tables : rows[t] = [p \in Pks |-> rows[t][p]]
  BY <1>1 DEF RowsOK
<1> QED BY <1>5, <1>6

LEMMA MoveEndsExact ==
  ASSUME IInv, SoFarOK, MoveRow, stmt.targets = {moving.from},
         NEW V, V = MovedValues(moving.to)
  PROVE  rows' = [t \in Tables |-> [p \in Pks |->
           IF t = stmt.table /\ p = moving.from THEN Absent
           ELSE IF t = stmt.table /\ p = moving.to
             THEN [i \in ColsOf(t) |->
                     IF fks[i].parent = stmt.table
                          /\ Assigned(stmt, saved.rows[t][moving.from])[i] = moving.from
                       THEN V[i] ELSE Assigned(stmt, saved.rows[t][moving.from])[i]]
           ELSE IF saved.rows[t][p] = Absent THEN Absent
           ELSE [i \in ColsOf(t) |->
                   IF fks[i].parent = stmt.table /\ saved.rows[t][p][i] = moving.from
                     THEN V[i] ELSE saved.rows[t][p][i]]]]
<1> DEFINE Row(t, p) ==
      IF t = stmt.table /\ p = moving.from THEN Absent
      ELSE IF t = stmt.table /\ p = moving.to
        THEN [i \in ColsOf(t) |->
                IF fks[i].parent = stmt.table
                     /\ Assigned(stmt, saved.rows[t][moving.from])[i] = moving.from
                  THEN V[i] ELSE Assigned(stmt, saved.rows[t][moving.from])[i]]
      ELSE IF saved.rows[t][p] = Absent THEN Absent
      ELSE [i \in ColsOf(t) |->
              IF fks[i].parent = stmt.table /\ saved.rows[t][p][i] = moving.from
                THEN V[i] ELSE saved.rows[t][p][i]]
<1>1. /\ moving # NoMove /\ next = Len(fks) + 1
      /\ rows' = [rows EXCEPT ![stmt.table][moving.from] = Absent,
                              ![stmt.table][moving.to] = moving.new]
  BY DEF MoveRow
<1>2. PICK mt \in Tables, from \in Pks, to \in Pks, new \in Rows(stmt.table) :
        /\ mt = stmt.table /\ from = moving.from /\ to = moving.to /\ new = moving.new
        /\ new \in Rows(mt) /\ from # to
        /\ \A i \in ColsOf(mt) : fks[i].parent = mt => new[i] # from
  BY <1>1 DEF IInv, ControlOK, StatementOK, MoveOK
<1>3. PICK O : O = saved.rows
  OBVIOUS
<1>4. /\ new = Assigned(stmt, O[mt][from])
      /\ FollowedBy(O, rows, mt, from, V, Len(fks) + 1)
  <2>1. ~Idle /\ stmt.op = "update"
    BY <1>1 DEF IInv, ControlOK
  <2> QED BY <1>1, <1>2, <1>3, <2>1 DEF SoFarOK, UpdateSoFar
<1>5. /\ fks \in Schemas /\ \A t : \A i \in ColsOf(t) : i < Len(fks) + 1
      /\ rows = [t \in Tables |-> rows[t]]
      /\ \A t \in Tables : rows[t] \in [Pks -> Rows(t) \cup {Absent}]
  <2>1. \A i \in Cols : i < Len(fks) + 1
    <3>1. Len(fks) \in Nat
      BY FkFacts DEF IInv
    <3> QED BY <3>1 DEF Cols
  <2> QED BY <2>1 DEF IInv, RowsOK, ColsOf
<1>6. rows' = [t \in Tables |-> IF t = mt THEN [rows[mt] EXCEPT ![from] = Absent, ![to] = new]
                                ELSE rows[t]]
  BY <1>1, <1>2, <1>5
\* The row that moves references no key that changes.
<1>7. new = [i \in ColsOf(mt) |->
               IF fks[i].parent = mt /\ new[i] = from THEN V[i] ELSE new[i]]
  BY <1>2 DEF Rows
<1>8. ASSUME NEW t \in Tables, NEW p \in Pks, O[t][p] # Absent
      PROVE  rows[t][p] = [i \in ColsOf(t) |->
               IF fks[i].parent = mt /\ O[t][p][i] = from THEN V[i] ELSE O[t][p][i]]
  <2>1. rows[t][p] # Absent /\ rows[t][p] \in [ColsOf(t) -> Vals]
    BY <1>4, <1>5, <1>8 DEF FollowedBy, Rows
  <2>2. \A i \in ColsOf(t) : rows[t][p][i] =
          IF fks[i].parent = mt /\ O[t][p][i] = from THEN V[i] ELSE O[t][p][i]
    BY <1>4, <1>5, <2>1 DEF FollowedBy
  <2> QED BY <2>1, <2>2
<1>9. ASSUME NEW t \in Tables, NEW p \in Pks
      PROVE  rows'[t][p] = Row(t, p)
  <2>1. rows'[t][p] = IF t = mt /\ p = to THEN new
                      ELSE IF t = mt /\ p = from THEN Absent ELSE rows[t][p]
    BY <1>2, <1>5, <1>6
  <2>2. CASE t = mt /\ p = to
    <3>1. rows'[t][p] = [i \in ColsOf(t) |->
             IF fks[i].parent = mt /\ new[i] = from THEN V[i] ELSE new[i]]
      BY <1>7, <2>1, <2>2
    <3>2. new = Assigned(stmt, saved.rows[t][moving.from])
      BY <1>2, <1>3, <1>4, <2>2
    <3> QED BY <1>2, <2>2, <3>1, <3>2
  <2>3. CASE t = mt /\ p = from
    BY <1>2, <2>1, <2>3
  <2>4. CASE ~(t = mt /\ p = to) /\ ~(t = mt /\ p = from) /\ O[t][p] = Absent
    <3>1. rows'[t][p] = Absent
      BY <1>4, <2>1, <2>4 DEF FollowedBy
    <3> QED BY <1>2, <1>3, <2>4, <3>1
  <2>5. CASE ~(t = mt /\ p = to) /\ ~(t = mt /\ p = from) /\ O[t][p] # Absent
    <3>1. rows'[t][p] = [i \in ColsOf(t) |->
             IF fks[i].parent = mt /\ O[t][p][i] = from THEN V[i] ELSE O[t][p][i]]
      BY <1>8, <2>1, <2>5
    <3> QED BY <1>2, <1>3, <2>5, <3>1
  <2> QED BY <2>2, <2>3, <2>4, <2>5
<1>10. /\ rows' = [t \in Tables |-> rows'[t]]
       /\ \A t \in Tables : rows'[t] = [p \in Pks |-> rows'[t][p]]
  BY <1>5, <1>6
<1> HIDE DEF Row
<1>11. rows' = [t \in Tables |-> [p \in Pks |-> Row(t, p)]]
  BY <1>9, <1>10
<1> QED BY <1>11 DEF Row

\* A DELETE removes exactly the rows that reach its targets along ON DELETE
\* CASCADE and nulls what SET NULL and SET DEFAULT ask for in the others; a
\* key that an UPDATE changes is followed by exactly the rows that referenced
\* it: through every cycle of foreign keys, in whatever order the worklist and
\* the loop over the catalog reach the rows (sql.rs delete_with_cascade and
\* move_row_and_cascade_on_update).
THEOREM CascadesExact ==
  ASSUME Supported
  PROVE  Spec => CascadesAreExact
<1> DEFINE A == Finish /\ stmt.op = "delete" =>
             LET doomed == Doomed(stmt.table, stmt.targets)
             IN  rows = [t \in Tables |-> [p \in Pks |->
                           IF saved.rows[t][p] = Absent \/ <<t, p>> \in doomed THEN Absent
                           ELSE Survivor(t, saved.rows[t][p], doomed)]]
           B == MoveRow =>
             LET mt == stmt.table
                 followed(t, r) ==
                   [i \in ColsOf(t) |->
                      IF fks[i].parent = mt /\ r[i] = moving.from
                        THEN ActionValue(i, fks[i].on_update, moving.to) ELSE r[i]]
             IN  stmt.targets = {moving.from} =>
                   rows' = [t \in Tables |-> [p \in Pks |->
                     IF t = mt /\ p = moving.from THEN Absent
                     ELSE IF t = mt /\ p = moving.to
                       THEN followed(t, Assigned(stmt, saved.rows[t][moving.from]))
                     ELSE IF saved.rows[t][p] = Absent THEN Absent
                     ELSE followed(t, saved.rows[t][p])]]
<1>1. ASSUME IInv, SoFarOK PROVE A
  BY <1>1, DeleteEndsExact
<1>2. ASSUME IInv, SoFarOK PROVE B
  <2> SUFFICES ASSUME MoveRow, stmt.targets = {moving.from} PROVE B
    OBVIOUS
  <2>1. PICK V : V = MovedValues(moving.to)
    OBVIOUS
  <2>2. \A t : \A i \in ColsOf(t) : V[i] = ActionValue(i, fks[i].on_update, moving.to)
    BY <2>1 DEF MovedValues, ColsOf
  <2> QED BY <1>2, <2>1, <2>2, MoveEndsExact
<1>3. Init => SoFarOK
  BY DEF Init, Idle, SoFarOK
<1>4. IInv /\ SoFarOK /\ [Next]_vars => SoFarOK'
  BY NextSoFar
<1> HIDE DEF A, B
<1>5. Spec => [][A]_vars /\ [][B]_vars
  BY <1>1, <1>2, <1>3, <1>4, Invariance, PTL DEF Spec
<1>6. (DeleteIsExact <=> [][A]_vars) /\ (MoveIsExact <=> [][B]_vars)
  BY DEF DeleteIsExact, MoveIsExact, A, B
<1> QED BY <1>5, <1>6, PTL DEF CascadesAreExact
=============================================================================
