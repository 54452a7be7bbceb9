---------------------------- MODULE ForeignKeys ----------------------------
(***************************************************************************)
(* INSERT, REPLACE, UPDATE, DELETE and TRUNCATE over tables whose columns  *)
(* reference each other: what each statement does to the rows and to the   *)
(* secondary indexes, one foreign key of one row at a time.  A statement   *)
(* runs alone, but an error between two of its steps leaves the rows of    *)
(* the steps before: the batch is rolled back, unless a session or a block *)
(* with an EXCEPTION handler goes on with what is there.                   *)
(*                                                                         *)
(* A row is its primary key and the values of its referencing columns.     *)
(* Other columns are not referenced by anything and are left out; a        *)
(* composite key is one value here.  An index is the set of the pairs      *)
(* <<value, pk>> in its buckets; the index of an INT column is an ordered  *)
(* one, which has no entries for NULL.                                     *)
(***************************************************************************)
EXTENDS Integers, Sequences, FiniteSets

CONSTANTS
  Tables,
  Pks,           \* primary keys, i64
  NULL,
  Schemas,       \* the foreign keys a database may have: sequences of FkMeta
  SelfMoves,     \* how a row whose key an UPDATE changes may reference itself
  KeepPartial,   \* whether a failed statement's rows are kept
  Absent,        \* no row has this key
  NoDefault,     \* the column has no DEFAULT
  Keep,          \* SET does not assign the column
  NoStmt, NoMove

Vals == Pks \cup {NULL}

\* A referencing column, with what its table declares of it.  check has the
\* values that NOT NULL and CHECK accept; NO ACTION is RESTRICT.
FkMeta == [table : Tables, parent : Tables,
           on_delete : {"RESTRICT", "CASCADE", "SET NULL", "SET DEFAULT"},
           on_update : {"RESTRICT", "CASCADE", "SET NULL", "SET DEFAULT"},
           index : BOOLEAN, unique : BOOLEAN,
           check : SUBSET Vals, default : Vals \cup {NoDefault}]

ASSUME ForeignKeysAssumption ==
  /\ Pks \subseteq Int /\ IsFiniteSet(Pks)
  /\ NULL \notin Int /\ NoDefault \notin Vals
  /\ SelfMoves \subseteq {"kept", "assigned"} /\ KeepPartial \in BOOLEAN
  /\ \A s \in Schemas :
       /\ s \in Seq(FkMeta) /\ \A i \in 1..Len(s) : s[i].unique => s[i].index
       /\ \A C \in SUBSET (1..Len(s)) : Absent \notin [C -> Vals]

VARIABLES
  fks,       \* the foreign keys, in the order of list_tables and of columns
  rows,      \* the row of each key of each table
  index,     \* the entries of the index on each referencing column
  stmt,      \* the statement in progress
  todo,      \* the keys of its target rows that it has still to handle
  queue,     \* delete_with_cascade: the rows to delete, first the one at hand
  visited,   \*   and the rows that have ever been in the queue
  moving,    \* the change of a primary key in progress
  next,      \* the foreign key that the loop over the catalog is at
  saved      \* the rows and indexes when the statement began

vars == <<fks, rows, index, stmt, todo, queue, visited, moving, next, saved>>

Cols == 1..Len(fks)
ColsOf(t) == {i \in Cols : fks[i].table = t}
Rows(t) == [ColsOf(t) -> Vals]
Live(t) == {p \in Pks : rows[t][p] # Absent}

Idle == stmt = NoStmt

Init ==
  /\ fks \in Schemas
  /\ rows = [t \in Tables |-> [p \in Pks |-> Absent]]
  /\ index = [i \in Cols |-> {}]
  /\ stmt = NoStmt /\ todo = {}
  /\ queue = <<>> /\ visited = {} /\ moving = NoMove /\ next = 1
  /\ saved = <<>>

-----------------------------------------------------------------------------
(* Rows and indexes.                                                       *)

\* The indexes ix with, or without, the entries of row r under key p.
Indexed(ix, t, p, r) ==
  [i \in Cols |-> IF i \in ColsOf(t) /\ fks[i].index /\ r[i] # NULL
                    THEN ix[i] \cup {<<r[i], p>>} ELSE ix[i]]
Unindexed(ix, t, p, r) ==
  [i \in Cols |-> IF i \in ColsOf(t) THEN ix[i] \ {<<r[i], p>>} ELSE ix[i]]

\* check_unique_conflict: a row other than p holds v in a UNIQUE column i.
Taken(i, v, p) ==
  /\ fks[i].unique /\ v # NULL
  /\ \E q \in Pks \ {p} : <<v, q>> \in index[i]

\* check_fk_value: a row under key p may hold v in column i.
ParentExists(i, v, p) ==
  \/ v = NULL
  \/ fks[i].parent = fks[i].table /\ v = p
  \/ v \in Live(fks[i].parent)

\* find_child_pks_with_fk_value, through the index if there is one.
Children(i, v) ==
  IF fks[i].index THEN {p \in Pks : <<v, p>> \in index[i]}
  ELSE {p \in Live(fks[i].table) : rows[fks[i].table][p][i] = v}

\* cascade_set_fk_tuple for each child in cs.  All of them get the same value,
\* and a UNIQUE column has one child at most, so the first fails or none does.
\* Mutant of CanSet: CHECK and UNIQUE are not looked at again.
Changed(i, cs, v) == {p \in cs \cap Live(fks[i].table) : rows[fks[i].table][p][i] # v}
CanSetUnlessNull(i, cs, v) ==
  Changed(i, cs, v) # {} /\ v = NULL => NULL \in fks[i].check
CanSet(i, cs, v) ==
  \A p \in Changed(i, cs, v) : v \in fks[i].check /\ ~Taken(i, v, p)
SetColumn(i, cs, v) ==
  LET t == fks[i].table
      changed == Changed(i, cs, v)
  IN  /\ rows' = [rows EXCEPT ![t] =
                    [p \in Pks |-> IF p \in changed THEN [rows[t][p] EXCEPT ![i] = v]
                                   ELSE rows[t][p]]]
      /\ index' = [index EXCEPT ![i] =
                     IF ~fks[i].index THEN @
                     ELSE (@ \ {<<rows[t][p][i], p>> : p \in changed})
                          \cup (IF v = NULL THEN {} ELSE {<<v, p>> : p \in changed})]

\* What a referential action writes when the key it is about becomes v.
ActionValue(i, action, v) ==
  CASE action = "CASCADE" -> v
    [] action = "SET NULL" -> NULL
    [] action = "SET DEFAULT" -> fks[i].default

Ascending(S) ==
  {s \in [1..Cardinality(S) -> S] :
     /\ \A x \in S : \E j \in DOMAIN s : s[j] = x
     /\ \A j, k \in DOMAIN s : j < k => s[j] < s[k]}

-----------------------------------------------------------------------------
(* Statements.                                                             *)

\* DELETE, and TRUNCATE with every key.
Deletes == [op : {"delete"}, table : Tables, targets : SUBSET Pks]

\* UPDATE: to is what it makes of each key, set what it assigns to columns.
\* INSERT ... ON CONFLICT DO UPDATE is one whose targets are in conflict.
Updates(t) ==
  {s \in [op : {"update"}, table : {t}, targets : SUBSET Live(t),
          to : [Pks -> Pks], set : [ColsOf(t) -> Vals \cup {Keep}]] :
     \A p \in Pks \ s.targets : s.to[p] = p}

\* INSERT of a row, and REPLACE.
Inserts(t) ==
  [op : {"insert"}, table : {t}, pk : Pks, row : Rows(t),
   on_conflict : {"error", "nothing", "replace"}]

\* detect_conflict_pks
Conflicts(t, pk, r) ==
  {p \in Live(t) : p = pk}
    \cup {p \in Pks : \E i \in ColsOf(t) :
            fks[i].unique /\ r[i] # NULL /\ <<r[i], p>> \in index[i]}

\* A statement begins with the keys of its target rows resolved.
Begin(s, targets) ==
  /\ Idle
  /\ stmt' = s /\ todo' = targets
  /\ saved' = [rows |-> rows, index |-> index]
  /\ UNCHANGED <<fks, rows, index, queue, visited, moving, next>>

\* The row that UPDATE s makes of r.
Assigned(s, r) ==
  [i \in ColsOf(s.table) |-> IF s.set[i] = Keep THEN r[i] ELSE s.set[i]]

\* Bound: a row whose key changes references itself only as SelfMoves says: it
\* did before, or it is given its old key as its new parent.
MovesOthers(s) ==
  \A p \in s.targets : s.to[p] # p =>
    \A i \in ColsOf(s.table) : fks[i].parent = s.table =>
      /\ rows[s.table][p][i] = p => "kept" \in SelfMoves
      /\ s.set[i] = p => "assigned" \in SelfMoves

BeginDelete(s) == Begin(s, s.targets)
BeginUpdate(s) == MovesOthers(s) /\ Begin(s, s.targets)
BeginInsert(s) ==
  Begin(s, IF s.on_conflict = "replace" THEN Conflicts(s.table, s.pk, s.row) ELSE {})

AtRow == ~Idle /\ queue = <<>> /\ moving = NoMove
Target(p) == AtRow /\ p \in todo /\ \A q \in todo : p <= q
Here(p) == p \in Live(stmt.table)

\* The statement ends; the batch is committed.
Ended ==
  /\ stmt' = NoStmt /\ todo' = {} /\ saved' = <<>>
  /\ queue' = <<>> /\ visited' = {} /\ moving' = NoMove /\ next' = 1
  /\ UNCHANGED fks

\* The statement fails: the batch is rolled back.
Fail ==
  /\ Ended
  /\ IF KeepPartial THEN UNCHANGED <<rows, index>>
     ELSE rows' = saved.rows /\ index' = saved.index

Finish ==
  /\ AtRow /\ todo = {} /\ stmt.op # "insert"
  /\ Ended /\ UNCHANGED <<rows, index>>

\* A target that is no longer there, or never was, is passed over.
SkipRow(p) ==
  /\ Target(p) /\ ~Here(p)
  /\ todo' = todo \ {p}
  /\ UNCHANGED <<fks, rows, index, stmt, queue, visited, moving, next, saved>>

-----------------------------------------------------------------------------
(* DELETE, and REPLACE of the rows in conflict: delete_with_cascade.       *)

DeleteTarget(p) ==
  /\ Target(p) /\ Here(p) /\ stmt.op # "update"
  /\ todo' = todo \ {p}
  /\ queue' = <<<<stmt.table, p>>>> /\ visited' = {<<stmt.table, p>>}
  /\ next' = 1
  /\ UNCHANGED <<fks, rows, index, stmt, moving, saved>>

HeadTable == Head(queue)[1]
HeadPk == Head(queue)[2]
Visiting(i) == queue # <<>> /\ next = i /\ i \in Cols

\* Mutant of DependentsOf: a table is not looked at as a child of itself.
DependentsElsewhere(i) ==
  IF fks[i].parent = HeadTable /\ fks[i].table # HeadTable /\ HeadPk \in Live(HeadTable)
    THEN Children(i, HeadPk) ELSE {}

\* Mutant of DependentsOf: the foreign key's parent is not looked at.
DependentsOfKey(i) ==
  IF HeadPk \in Live(HeadTable) THEN Children(i, HeadPk) ELSE {}

\* The children that foreign key i gives the row at hand.
DependentsOf(i) ==
  IF fks[i].parent = HeadTable /\ HeadPk \in Live(HeadTable)
    THEN Children(i, HeadPk) ELSE {}

SkipFk(i) ==
  /\ Visiting(i) /\ DependentsOf(i) = {}
  /\ next' = next + 1
  /\ UNCHANGED <<fks, rows, index, stmt, todo, queue, visited, moving, saved>>

CascadeDelete(i) ==
  /\ Visiting(i) /\ DependentsOf(i) # {} /\ fks[i].on_delete = "CASCADE"
  /\ LET new == {p \in DependentsOf(i) : <<fks[i].table, p>> \notin visited}
     IN  /\ \E s \in Ascending(new) :
              queue' = queue \o [j \in DOMAIN s |-> <<fks[i].table, s[j]>>]
         /\ visited' = visited \cup {<<fks[i].table, p>> : p \in new}
  /\ next' = next + 1
  /\ UNCHANGED <<fks, rows, index, stmt, todo, moving, saved>>

CascadeSet(i) ==
  /\ Visiting(i) /\ DependentsOf(i) # {}
  /\ fks[i].on_delete \in {"SET NULL", "SET DEFAULT"}
  /\ LET v == ActionValue(i, fks[i].on_delete, NULL)
     IN  CanSet(i, DependentsOf(i), v) /\ SetColumn(i, DependentsOf(i), v)
  /\ next' = next + 1
  /\ UNCHANGED <<fks, stmt, todo, queue, visited, moving, saved>>

RefuseDelete(i) ==
  /\ Visiting(i) /\ DependentsOf(i) # {}
  /\ \/ fks[i].on_delete = "RESTRICT"
     \/ /\ fks[i].on_delete \in {"SET NULL", "SET DEFAULT"}
        /\ ~CanSet(i, DependentsOf(i), ActionValue(i, fks[i].on_delete, NULL))
  /\ Fail

\* Every foreign key has been looked at: the row goes, unless it has gone.
DeleteRow ==
  /\ queue # <<>> /\ next = Len(fks) + 1
  /\ IF HeadPk \in Live(HeadTable)
       THEN /\ index' = Unindexed(index, HeadTable, HeadPk, rows[HeadTable][HeadPk])
            /\ rows' = [rows EXCEPT ![HeadTable][HeadPk] = Absent]
       ELSE UNCHANGED <<rows, index>>
  /\ queue' = Tail(queue) /\ next' = 1
  /\ UNCHANGED <<fks, stmt, todo, visited, moving, saved>>

-----------------------------------------------------------------------------
(* UPDATE: apply_update_to_pk and move_row_and_cascade_on_update.          *)

UpdateAllowed(t, p, old, new) ==
  \A i \in ColsOf(t) :
    /\ new[i] \in fks[i].check
    /\ stmt.set[i] # Keep => ~Taken(i, new[i], p)
    /\ new[i] # old[i] => ParentExists(i, new[i], p)

UpdateRow(p) ==
  /\ Target(p) /\ Here(p) /\ stmt.op = "update"
  /\ LET t == stmt.table
         old == rows[t][p]
         new == Assigned(stmt, old)
     IN  /\ UpdateAllowed(t, p, old, new)
         /\ \/ /\ stmt.to[p] = p
               /\ rows' = [rows EXCEPT ![t][p] = new]
               /\ index' = Indexed(Unindexed(index, t, p, old), t, p, new)
               /\ UNCHANGED <<moving, next>>
            \/ /\ stmt.to[p] # p /\ stmt.to[p] \notin Live(t)
               /\ moving' = [from |-> p, to |-> stmt.to[p], old |-> old, new |-> new]
               /\ next' = 1
               /\ UNCHANGED <<rows, index>>
  /\ todo' = todo \ {p}
  /\ UNCHANGED <<fks, stmt, queue, visited, saved>>

RefuseUpdate(p) ==
  /\ Target(p) /\ Here(p) /\ stmt.op = "update"
  /\ LET t == stmt.table
     IN  \/ ~UpdateAllowed(t, p, rows[t][p], Assigned(stmt, rows[t][p]))
         \/ stmt.to[p] # p /\ stmt.to[p] \in Live(t)
  /\ Fail

Moving(i) == moving # NoMove /\ next = i /\ i \in Cols

\* The children of the row that is about to move.
Referrers(i) ==
  IF fks[i].parent = stmt.table THEN Children(i, moving.from) ELSE {}

\* Mutant of CascadeMove: ON DELETE's action in place of ON UPDATE's.
CascadeMoveByDelete(i) ==
  /\ Moving(i)
  /\ \/ Referrers(i) = {} /\ UNCHANGED <<rows, index>>
     \/ /\ Referrers(i) # {} /\ fks[i].on_update # "RESTRICT"
        /\ LET v == ActionValue(i, IF fks[i].on_delete = "RESTRICT" THEN "CASCADE"
                                   ELSE fks[i].on_delete, moving.to)
           IN  CanSet(i, Referrers(i), v) /\ SetColumn(i, Referrers(i), v)
  /\ next' = next + 1
  /\ UNCHANGED <<fks, stmt, todo, queue, visited, moving, saved>>

CascadeMove(i) ==
  /\ Moving(i)
  /\ \/ Referrers(i) = {} /\ UNCHANGED <<rows, index>>
     \/ /\ Referrers(i) # {} /\ fks[i].on_update # "RESTRICT"
        /\ LET v == ActionValue(i, fks[i].on_update, moving.to)
           IN  CanSet(i, Referrers(i), v) /\ SetColumn(i, Referrers(i), v)
  /\ next' = next + 1
  /\ UNCHANGED <<fks, stmt, todo, queue, visited, moving, saved>>

RefuseMove(i) ==
  /\ Moving(i) /\ Referrers(i) # {}
  /\ \/ fks[i].on_update = "RESTRICT"
     \/ /\ fks[i].on_update # "RESTRICT"
        /\ ~CanSet(i, Referrers(i), ActionValue(i, fks[i].on_update, moving.to))
  /\ Fail

\* Mutant of MoveRow: only the indexes of assigned columns follow the row.
MoveRowTouched ==
  LET t == stmt.table
      moved == Indexed(Unindexed(index, t, moving.from, moving.old),
                       t, moving.to, moving.new)
  IN  /\ moving # NoMove /\ next = Len(fks) + 1
      /\ rows' = [rows EXCEPT ![t][moving.from] = Absent, ![t][moving.to] = moving.new]
      /\ index' = [i \in Cols |-> IF i \in ColsOf(t) /\ stmt.set[i] = Keep
                                   THEN index[i] ELSE moved[i]]
      /\ moving' = NoMove /\ next' = 1
      /\ UNCHANGED <<fks, stmt, todo, queue, visited, saved>>

\* The row and its index entries, as they were and will be by what was read
\* before the cascade.
MoveRow ==
  LET t == stmt.table
  IN  /\ moving # NoMove /\ next = Len(fks) + 1
      /\ rows' = [rows EXCEPT ![t][moving.from] = Absent, ![t][moving.to] = moving.new]
      /\ index' = Indexed(Unindexed(index, t, moving.from, moving.old),
                          t, moving.to, moving.new)
      /\ moving' = NoMove /\ next' = 1
      /\ UNCHANGED <<fks, stmt, todo, queue, visited, saved>>

-----------------------------------------------------------------------------
(* INSERT: apply_insert_row_with_conflict.                                 *)

InsertAllowed ==
  /\ stmt.pk \notin Live(stmt.table)
  /\ \A i \in ColsOf(stmt.table) :
       /\ stmt.row[i] \in fks[i].check
       /\ ~Taken(i, stmt.row[i], NULL)
       /\ ParentExists(i, stmt.row[i], stmt.pk)

Skipped ==
  stmt.on_conflict = "nothing" /\ Conflicts(stmt.table, stmt.pk, stmt.row) # {}

InsertRow ==
  /\ AtRow /\ stmt.op = "insert" /\ todo = {}
  /\ IF Skipped THEN UNCHANGED <<rows, index>>
     ELSE /\ InsertAllowed
          /\ rows' = [rows EXCEPT ![stmt.table][stmt.pk] = stmt.row]
          /\ index' = Indexed(index, stmt.table, stmt.pk, stmt.row)
  /\ Ended

RefuseInsert ==
  /\ AtRow /\ stmt.op = "insert" /\ todo = {} /\ ~Skipped /\ ~InsertAllowed
  /\ Fail

-----------------------------------------------------------------------------
Next ==
  \/ \E s \in Deletes : BeginDelete(s)
  \/ \E t \in Tables : \/ \E s \in Updates(t) : BeginUpdate(s)
                       \/ \E s \in Inserts(t) : BeginInsert(s)
  \/ \E p \in Pks : SkipRow(p) \/ DeleteTarget(p) \/ UpdateRow(p) \/ RefuseUpdate(p)
  \/ \E i \in Cols : \/ SkipFk(i) \/ CascadeDelete(i) \/ CascadeSet(i)
                     \/ RefuseDelete(i) \/ CascadeMove(i) \/ RefuseMove(i)
  \/ DeleteRow \/ MoveRow \/ InsertRow \/ RefuseInsert
  \/ Finish

Spec == Init /\ [][Next]_vars

-----------------------------------------------------------------------------
(* Properties.                                                             *)

TypeOK ==
  /\ fks \in Schemas
  /\ \A t \in Tables : rows[t] \in [Pks -> Rows(t) \cup {Absent}]
  /\ index \in [Cols -> SUBSET (Pks \X Pks)]
  /\ todo \subseteq Pks
  /\ queue \in Seq(Tables \X Pks) /\ visited \subseteq Tables \X Pks
  /\ next \in 1..(Len(fks) + 1)
  /\ ~Idle => stmt.table \in Tables
  /\ moving # NoMove => /\ moving.from \in Pks /\ moving.to \in Pks
                        /\ moving.new \in Rows(stmt.table)

\* Between statements every value of a referencing column is NULL or the key
\* of a row that is there (INTEGRITY CHECK calls anything else an fk_orphan),
\* whatever was deleted, nulled and moved through cycles of foreign keys.
NoOrphans ==
  Idle => \A t \in Tables : \A p \in Live(t) : \A i \in ColsOf(t) :
            rows[t][p][i] # NULL => rows[t][p][i] \in Live(fks[i].parent)

\* At every step each index has exactly the entries of the rows that are
\* there: an entry that a cascade, a move or a delete forgets would be an
\* orphan_index_entry, or a child that the next cascade does not find.
IndexExact ==
  \A i \in Cols : fks[i].index =>
    index[i] = {<<rows[fks[i].table][p][i], p>> : p \in
                  {q \in Live(fks[i].table) : rows[fks[i].table][q][i] # NULL}}

\* No cascade writes what an INSERT or UPDATE of the child would be refused: a
\* value that NOT NULL or CHECK forbids, or one that is UNIQUE and taken.
CascadesRespectConstraints ==
  \A i \in Cols : LET t == fks[i].table IN
    /\ \A p \in Live(t) : rows[t][p][i] \in fks[i].check
    /\ fks[i].unique => \A p, q \in Live(t) :
         rows[t][p][i] = rows[t][q][i] /\ p # q => rows[t][p][i] = NULL

\* When the statement began, row c referred to row d by ON DELETE CASCADE.
WasThere == {x \in Tables \X Pks : saved.rows[x[1]][x[2]] # Absent}
Refers(c, d) ==
  \E i \in ColsOf(c[1]) : /\ fks[i].on_delete = "CASCADE" /\ fks[i].parent = d[1]
                         /\ saved.rows[c[1]][c[2]][i] = d[2]

\* The rows that a DELETE of the keys of t takes with it: those that reach them
\* along ON DELETE CASCADE, the smallest set with them and all that refer to it.
TakesAll(S, t, keys) ==
  /\ \A x \in WasThere : x[1] = t /\ x[2] \in keys => x \in S
  /\ \A c \in WasThere : \A d \in S : Refers(c, d) => c \in S
Doomed(t, keys) ==
  {x \in WasThere : \A S \in SUBSET WasThere : TakesAll(S, t, keys) => x \in S}

\* What is left of a row when the doomed rows have gone.
Survivor(t, r, doomed) ==
  [i \in ColsOf(t) |-> IF <<fks[i].parent, r[i]>> \in doomed
                         THEN ActionValue(i, fks[i].on_delete, NULL) ELSE r[i]]

\* A DELETE that succeeds removes exactly the rows that reach its targets
\* along ON DELETE CASCADE, each once, and changes the others only where SET
\* NULL or SET DEFAULT asks for it, whatever the order of the worklist.
DeleteIsExact ==
  [][ Finish /\ stmt.op = "delete" =>
        LET doomed == Doomed(stmt.table, stmt.targets)
        IN  rows = [t \in Tables |-> [p \in Pks |->
                      IF saved.rows[t][p] = Absent \/ <<t, p>> \in doomed THEN Absent
                      ELSE Survivor(t, saved.rows[t][p], doomed)]]
    ]_vars

\* A key that changes is followed by every row that referenced it, by its own
\* ON UPDATE action, and by nothing else.
MoveIsExact ==
  [][ MoveRow =>
        LET mt == stmt.table
            followed(t, r) ==
              [i \in ColsOf(t) |->
                 IF fks[i].parent = mt /\ r[i] = moving.from
                   THEN ActionValue(i, fks[i].on_update, moving.to) ELSE r[i]]
        IN  stmt.targets = {moving.from} =>
              rows' = [t \in Tables |-> [p \in Pks |->
                IF t = mt /\ p = moving.from THEN Absent
                ELSE IF t = mt /\ p = moving.to
                  THEN followed(t, Assigned(stmt, saved.rows[t][moving.from]))
                ELSE IF saved.rows[t][p] = Absent THEN Absent
                ELSE followed(t, saved.rows[t][p])]]
    ]_vars

\* Both statements that cascade change what their actions ask for and no more.
CascadesAreExact == DeleteIsExact /\ MoveIsExact
=============================================================================
