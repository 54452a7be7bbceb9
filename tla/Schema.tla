------------------------------- MODULE Schema -------------------------------
(***************************************************************************)
(* The catalog, the statements that change it, and the rows, indexes and   *)
(* constraints they must carry along.  Tables, views, triggers, procedures *)
(* and functions share one B+tree keyed by name; a row is stored by        *)
(* position, without the names or the number of its columns.  Every column *)
(* is an INT, the primary key is the column meta.pk, and a statement that  *)
(* fails is rolled back, so that only those that succeed are steps.        *)
(***************************************************************************)
EXTENDS Integers, Sequences, FiniteSets, SequencesExt, Functions

CONSTANTS
  Names,          \* of tables and of all other objects
  Columns,        \* names of columns
  Keys,           \* what a primary key can be
  Null,
  IndexNames,     \* what CREATE INDEX calls an index
  Shapes,         \* column lists of CREATE TABLE
  Additions,      \* columns of ALTER TABLE ADD COLUMN
  Quirks,         \* which statements with a known bad outcome are tried
  MaxPages,       \* bound: trees a behaviour creates
  MaxStatements   \* bound: statements of a behaviour

Values == Keys \cup {Null}

\* What Quirks can name.  README, known limits, says what each one breaks.
KnownQuirks == {"dangling", "checked", "default", "trigger"}

\* The foreign key of a column, and what declares a column.
NoFk        == [table |-> Null, column |-> Null]
ForeignKeys == {NoFk} \cup [table : Names, column : Columns]
Definitions == [name : Columns, notNull : BOOLEAN, default : Values, unique : BOOLEAN,
                fk : ForeignKeys]

ASSUME SchemaAssumption ==
  /\ Null \notin Keys \cup Names
  /\ Shapes \subseteq Seq(Definitions) \ {<<>>} /\ Additions \subseteq Definitions
  /\ Quirks \subseteq KnownQuirks
  /\ MaxPages \in Nat /\ MaxStatements \in Nat

VARIABLES
  catalog,   \* name -> the object stored under the hash of that name
  rows,      \* root page of a table -> key -> stored values, by position
  entries,   \* root page of an index -> the pairs of value and key in it
  pages,     \* root pages handed out
  held,      \* the INSERT whose BEFORE trigger runs, with the meta it read
  told,      \* history: root page of a table -> key -> column -> value
  count      \* statements so far

store == <<rows, entries, pages>>
vars  == <<catalog, store, held, told, count>>

NoObject == [kind |-> "none"]
Nobody   == [table |-> Null]

\* f with y for x, which it did not have.
Extended(f, x, y) == [z \in DOMAIN f \cup {x} |-> IF z = x THEN y ELSE f[z]]

ColumnOf(d) == [name |-> d.name, notNull |-> d.notNull, default |-> d.default, fk |-> d.fk]

IsTable(n) == catalog[n].kind = "table"
Tables     == {n \in Names : IsTable(n)}

Has(meta, c)      == \E i \in DOMAIN meta.cols : meta.cols[i].name = c
ColumnsOf(meta)   == {meta.cols[i].name : i \in DOMAIN meta.cols}
Position(meta, c) == CHOOSE i \in DOMAIN meta.cols : meta.cols[i].name = c
Column(meta, c)   == meta.cols[Position(meta, c)]

\* What a row shows under a meta: a row that is too short was written before
\* its last columns were added, and they show their DEFAULT.
DecodeRow(meta, stored) ==
  [c \in ColumnsOf(meta) |-> LET i == Position(meta, c) IN
     IF i <= Len(stored) THEN stored[i] ELSE meta.cols[i].default]

EncodeRow(meta, row) == [i \in DOMAIN meta.cols |-> row[meta.cols[i].name]]

Decoded(meta, k) == DecodeRow(meta, rows[meta.root][k])
KeysOf(meta)     == DOMAIN rows[meta.root]

Init ==
  /\ catalog = [n \in Names |-> NoObject]
  /\ rows = <<>> /\ entries = <<>> /\ pages = 0
  /\ held = Nobody /\ told = <<>> /\ count = 0

Statement ==
  /\ count < MaxStatements
  /\ count' = count + 1

\* Outside the body of a trigger, or in a body that leaves table n alone, or,
\* to rename it, the row's references to it.
Unheld(n)       == held.table # n \/ "trigger" \in Quirks
Unreferenced(n) ==
  held # Nobody => \/ \A i \in DOMAIN held.meta.cols : held.meta.cols[i].fk.table # n
                   \/ "trigger" \in Quirks

Put(n, object) == catalog' = [catalog EXCEPT ![n] = object]

OnlyCatalog == UNCHANGED <<store, held, told>>

(***************************************************************************)
(* Tables                                                                  *)
(***************************************************************************)
\* validate_fk_targets: a foreign key names the whole primary key of a
\* table, or of the table it is declared in.
FkTargetsExist(n, meta) ==
  \A i \in DOMAIN meta.cols : LET fk == meta.cols[i].fk IN
    fk # NoFk => IF fk.table = n THEN fk.column = meta.pk
                 ELSE IsTable(fk.table) /\ catalog[fk.table].pk = fk.column

\* validate_create_table
WellFormed(meta) ==
  /\ \A i, j \in DOMAIN meta.cols : meta.cols[i].name = meta.cols[j].name => i = j
  /\ Has(meta, meta.pk)
  /\ Column(meta, meta.pk).default = Null

UniqueName(n, c) == <<"uq", n, c>>

\* get_table answers for tables alone: an object of another kind under the
\* name is replaced.
Free(n) == ~IsTable(n)

\* One tree for every UNIQUE column, in the order of the columns.
Uniques(shape) == {i \in DOMAIN shape : shape[i].unique}

InOrder(U) ==
  {at \in Bijection(U, 1..Cardinality(U)) : \A i, j \in U : i < j => at[i] < at[j]}

UniqueIndexes(n, shape, root, at) ==
  {[name |-> UniqueName(n, shape[i].name), column |-> shape[i].name, unique |-> TRUE,
    root |-> root + at[i]] : i \in Uniques(shape)}

\* The trees of the UNIQUE columns come after the table's own.
CreateTable(n, shape) ==
  \E at \in InOrder(Uniques(shape)) :
    LET meta == [kind |-> "table", cols |-> [i \in DOMAIN shape |-> ColumnOf(shape[i])],
                 pk |-> shape[1].name, root |-> pages + 1, checks |-> {},
                 indexes |-> UniqueIndexes(n, shape, pages + 1, at)]
        roots == {ix.root : ix \in meta.indexes}
    IN /\ Statement
       /\ Free(n) /\ Unheld(n)
       /\ WellFormed(meta) /\ FkTargetsExist(n, meta)
       /\ pages' = pages + 1 + Cardinality(Uniques(shape))
       /\ pages' <= MaxPages
       /\ rows' = Extended(rows, meta.root, <<>>)
       /\ entries' = [r \in DOMAIN entries \cup roots |-> IF r \in roots THEN {} ELSE entries[r]]
       /\ told' = Extended(told, meta.root, <<>>)
       /\ Put(n, meta)
       /\ UNCHANGED held

\* CREATE TABLE n AS SELECT * FROM m: names and values are copied; keys,
\* constraints, defaults and indexes are not.
CreateTableAs(n, m) ==
  LET from == catalog[m]
      source == [i \in DOMAIN from.cols |-> [name |-> from.cols[i].name, notNull |-> i = 1,
                                             default |-> Null, fk |-> NoFk]]
      meta == [kind |-> "table", cols |-> source, pk |-> source[1].name, root |-> pages + 1, checks |-> {}, indexes |-> {}]
      seen == [k \in KeysOf(from) |-> Decoded(from, k)]
  IN /\ Statement
     /\ IsTable(m) /\ KeysOf(from) # {}
     /\ Free(n) /\ Unheld(n)
     /\ source[1].name = from.pk
     /\ pages < MaxPages
     /\ pages' = pages + 1
     /\ rows' = Extended(rows, meta.root, [k \in KeysOf(from) |-> EncodeRow(meta, seen[k])])
     /\ told' = Extended(told, meta.root, seen)
     /\ Put(n, meta)
     /\ UNCHANGED <<entries, held>>

Referrers(n) == {m \in Tables \ {n} : \E i \in DOMAIN catalog[m].cols : catalog[m].cols[i].fk.table = n}

\* remove_table asks neither for the kind of the object nor for foreign keys
\* that name it; the pages stay.
DropTable(n) ==
  /\ Statement
  /\ catalog[n] # NoObject
  /\ Referrers(n) = {} \/ "dangling" \in Quirks
  /\ Unheld(n)
  /\ Put(n, NoObject)
  /\ OnlyCatalog

\* Mutant of Following: foreign keys keep the old name.
FollowingNothing(meta, old, new) == meta

\* Foreign keys of other tables follow the table's name.
Following(meta, old, new) ==
  [meta EXCEPT !.cols = [i \in DOMAIN meta.cols |->
     IF meta.cols[i].fk.table = old THEN [meta.cols[i] EXCEPT !.fk.table = new] ELSE meta.cols[i]]]

SelfReferencing(n) == \E i \in DOMAIN catalog[n].cols : catalog[n].cols[i].fk.table = n

\* The statement does not look into the renamed table for keys of its own.
RenameTable(n, m) ==
  /\ Statement
  /\ IsTable(n) /\ n # m
  /\ Free(m)
  /\ Unheld(n) /\ Unheld(m) /\ Unreferenced(n)
  /\ SelfReferencing(n) => "dangling" \in Quirks
  /\ catalog' = [o \in Names |-> CASE o = m -> catalog[n]
                                   [] o = n -> NoObject
                                   [] o \in Tables \ {n, m} -> Following(catalog[o], n, m)
                                   [] OTHER -> catalog[o]]
  /\ OnlyCatalog

(***************************************************************************)
(* Columns                                                                 *)
(***************************************************************************)
Duplicated(meta, row, c) ==
  \E j, k \in KeysOf(meta) : j # k /\ row[j][c] # Null /\ row[j][c] = row[k][c]

\* Mutant of EntriesFor: rows that came before the index are left out of it.
EntriesForNone(seen, c) == {}

EntriesFor(seen, c) == {<<seen[k][c], k>> : k \in {k \in DOMAIN seen : seen[k][c] # Null}}

Seen(meta) == [k \in KeysOf(meta) |-> Decoded(meta, k)]

\* Whether the rows that are already there keep what the new column says of
\* them is not asked.
DefaultHolds(meta, d) ==
  KeysOf(meta) = {} \/ d.default = Null \/ d.fk = NoFk

\* No row is touched: decode_row finds the new column past the end of a row.
AddColumn(n, d) ==
  LET meta == [catalog[n] EXCEPT !.cols = Append(@, ColumnOf(d))]
      ix == [name |-> UniqueName(n, d.name), column |-> d.name, unique |-> TRUE, root |-> pages + 1]
  IN /\ Statement
     /\ IsTable(n) /\ Unheld(n)
     /\ d.notNull => d.default # Null
     /\ ~Has(catalog[n], d.name)
     /\ WellFormed(meta) /\ FkTargetsExist(n, meta)
     /\ d.unique /\ (\E j, k \in KeysOf(meta) : j # k) => d.default = Null
     /\ DefaultHolds(meta, d) \/ "default" \in Quirks
     /\ told' = [told EXCEPT ![meta.root] = [k \in DOMAIN @ |-> Extended(@[k], d.name, d.default)]]
     /\ IF d.unique
        THEN /\ \A i \in meta.indexes : i.name # ix.name
             /\ pages < MaxPages
             /\ pages' = pages + 1
             /\ entries' = Extended(entries, ix.root, EntriesFor(Seen(meta), d.name))
             /\ Put(n, [meta EXCEPT !.indexes = @ \cup {ix}])
        ELSE /\ UNCHANGED <<entries, pages>>
             /\ Put(n, meta)
     /\ UNCHANGED <<rows, held>>

Without(meta, c) == [meta EXCEPT !.cols = RemoveAt(@, Position(meta, c))]

\* The places where a column may still be named: its own foreign key and
\* those of other tables are looked at, CHECKs and keys of the table to
\* itself are not.
Droppable(n, c) ==
  LET meta == catalog[n] IN
  /\ Has(meta, c) /\ c # meta.pk
  /\ \A ix \in meta.indexes : ix.column # c
  /\ Column(meta, c).fk = NoFk
  /\ \A m \in Tables \ {n} : \A i \in DOMAIN catalog[m].cols :
       catalog[m].cols[i].fk.table = n => catalog[m].cols[i].fk.column # c

Unchecked(n, c) == (\A ck \in catalog[n].checks : ck.column # c) \/ "checked" \in Quirks

\* Mutant of DropColumn: the rows are left as they are, as ADD COLUMN does.
DropColumnUnwritten(n, c) ==
  LET meta == catalog[n] IN
  /\ Statement
  /\ IsTable(n) /\ Unheld(n)
  /\ Droppable(n, c) /\ Unchecked(n, c)
  /\ WellFormed(Without(meta, c))
  /\ told' = [told EXCEPT ![meta.root] = [k \in DOMAIN @ |-> Restrict(@[k], DOMAIN @[k] \ {c})]]
  /\ Put(n, Without(meta, c))
  /\ UNCHANGED <<rows, entries, pages, held>>

\* Every row is decoded by the old meta and encoded by the new one.
DropColumn(n, c) ==
  LET meta == catalog[n] IN
  /\ Statement
  /\ IsTable(n) /\ Unheld(n)
  /\ Droppable(n, c) /\ Unchecked(n, c)
  /\ WellFormed(Without(meta, c))
  /\ rows' = [rows EXCEPT ![meta.root] = [k \in DOMAIN @ |-> EncodeRow(Without(meta, c), Decoded(meta, k))]]
  /\ told' = [told EXCEPT ![meta.root] = [k \in DOMAIN @ |-> Restrict(@[k], DOMAIN @[k] \ {c})]]
  /\ Put(n, Without(meta, c))
  /\ UNCHANGED <<entries, pages, held>>

Renamed(x, old, new) == IF x = old THEN new ELSE x

\* Mutant of RenamedIn: indexes keep the old name.
RenamedInColumns(meta, c, d) ==
  [meta EXCEPT !.cols = [i \in DOMAIN @ |-> [@[i] EXCEPT !.name = Renamed(@, c, d)]],
               !.pk   = Renamed(@, c, d)]

\* The table's own columns, key and indexes, and the keys of other tables.
RenamedIn(meta, c, d) ==
  [meta EXCEPT !.cols    = [i \in DOMAIN meta.cols |-> [meta.cols[i] EXCEPT !.name = Renamed(@, c, d)]],
               !.pk      = Renamed(@, c, d),
               !.indexes = {[ix EXCEPT !.column = Renamed(@, c, d)] : ix \in meta.indexes}]

RenamedTarget(meta, n, c, d) ==
  [meta EXCEPT !.cols = [i \in DOMAIN meta.cols |->
     IF meta.cols[i].fk.table = n THEN [meta.cols[i] EXCEPT !.fk.column = Renamed(@, c, d)] ELSE meta.cols[i]]]

RenameColumn(n, c, d) ==
  LET meta == RenamedIn(catalog[n], c, d) IN
  /\ Statement
  /\ IsTable(n) /\ Unheld(n)
  /\ c # d /\ Has(catalog[n], c) /\ ~Has(catalog[n], d)
  /\ Unchecked(n, c)
  /\ SelfReferencing(n) /\ c = catalog[n].pk => "dangling" \in Quirks
  /\ WellFormed(meta)
  /\ catalog' = [o \in Names |-> CASE o = n -> meta
                                   [] o \in Tables \ {n} -> RenamedTarget(catalog[o], n, c, d)
                                   [] OTHER -> catalog[o]]
  /\ told' = [told EXCEPT ![meta.root] =
                [k \in DOMAIN @ |-> [x \in ColumnsOf(meta) |-> @[k][Renamed(x, d, c)]]]]
  /\ UNCHANGED <<store, held>>

(***************************************************************************)
(* Constraints and indexes                                                 *)
(***************************************************************************)
\* Mutant of AddCheck: the rows that are there are not looked at.
AddCheckUnseen(n, c, v) ==
  /\ Statement
  /\ IsTable(n) /\ Unheld(n)
  /\ Has(catalog[n], c)
  /\ Put(n, [catalog[n] EXCEPT !.checks = @ \cup {[column |-> c, forbids |-> v]}])
  /\ OnlyCatalog

\* CHECK (c <> v): every row that is there must pass it, NULL passes.
AddCheck(n, c, v) ==
  LET meta == catalog[n] IN
  /\ Statement
  /\ IsTable(n) /\ Unheld(n)
  /\ Has(meta, c)
  /\ \A k \in KeysOf(meta) : Decoded(meta, k)[c] # v
  /\ Put(n, [meta EXCEPT !.checks = @ \cup {[column |-> c, forbids |-> v]}])
  /\ OnlyCatalog

DropCheck(n, ck) ==
  /\ Statement
  /\ IsTable(n) /\ Unheld(n)
  /\ ck \in catalog[n].checks
  /\ Put(n, [catalog[n] EXCEPT !.checks = @ \ {ck}])
  /\ OnlyCatalog

DropUnique(n, name) ==
  /\ Statement
  /\ IsTable(n) /\ Unheld(n)
  /\ \E ix \in catalog[n].indexes : ix.name = name /\ ix.unique
  /\ Put(n, [catalog[n] EXCEPT !.indexes = {ix \in @ : ix.name # name}])
  /\ OnlyCatalog

DropForeignKey(n, c) ==
  /\ Statement
  /\ IsTable(n) /\ Unheld(n)
  /\ Has(catalog[n], c) /\ Column(catalog[n], c).fk # NoFk
  /\ Put(n, [catalog[n] EXCEPT !.cols[Position(catalog[n], c)].fk = NoFk])
  /\ OnlyCatalog

\* ALTER TABLE DROP CONSTRAINT, by what the name turns out to be.
DropConstraint(n) ==
  \/ \E c \in Columns, v \in Keys : DropCheck(n, [column |-> c, forbids |-> v])
  \/ \E name \in IndexNames \cup ({"uq"} \X Names \X Columns) : DropUnique(n, name)
  \/ \E c \in Columns : DropForeignKey(n, c)

\* Mutant of CreateIndex: the index takes the page handed out last.
CreateIndexLastPage(n, name, c, unique) ==
  LET meta == catalog[n]
      ix == [name |-> name, column |-> c, unique |-> unique, root |-> pages]
  IN /\ Statement
     /\ IsTable(n) /\ Unheld(n)
     /\ Has(meta, c)
     /\ entries' = Extended(entries, ix.root, EntriesFor(Seen(meta), c))
     /\ Put(n, [meta EXCEPT !.indexes = @ \cup {ix}])
     /\ UNCHANGED <<rows, pages, held, told>>

CreateIndex(n, name, c, unique) ==
  LET meta == catalog[n]
      ix == [name |-> name, column |-> c, unique |-> unique, root |-> pages + 1]
  IN /\ Statement
     /\ IsTable(n) /\ Unheld(n)
     /\ Has(meta, c)
     /\ \A other \in meta.indexes : other.column # c
     /\ \A m \in Tables : \A other \in catalog[m].indexes : other.name # name
     /\ unique => ~Duplicated(meta, Seen(meta), c)
     /\ pages < MaxPages
     /\ pages' = pages + 1
     /\ entries' = Extended(entries, ix.root, EntriesFor(Seen(meta), c))
     /\ Put(n, [meta EXCEPT !.indexes = @ \cup {ix}])
     /\ UNCHANGED <<rows, held, told>>

\* Two tables can have an index of one name, made by UNIQUE: the first in the
\* order of the hashes loses it.
DropIndex(name) ==
  \E n \in Tables :
    /\ Statement
    /\ Unheld(n)
    /\ \E ix \in catalog[n].indexes : ix.name = name
    /\ Put(n, [catalog[n] EXCEPT !.indexes = {ix \in @ : ix.name # name}])
    /\ OnlyCatalog

(***************************************************************************)
(* Views, triggers, procedures and functions                               *)
(***************************************************************************)
Create(n, object) ==
  /\ Statement
  /\ catalog[n] = NoObject
  /\ Put(n, object)
  /\ OnlyCatalog

Drop(n, kind) ==
  /\ Statement
  /\ catalog[n].kind = kind
  /\ Put(n, NoObject)
  /\ OnlyCatalog

CreateView(n)      == Create(n, [kind |-> "view"])
DropView(n)        == Drop(n, "view")
CreateTrigger(n, t) == IsTable(t) /\ Create(n, [kind |-> "trigger", table |-> t])
DropTrigger(n)     == Drop(n, "trigger")
CreateProcedure(n) == Create(n, [kind |-> "procedure"])
DropProcedure(n)   == Drop(n, "procedure")
CreateFunction(n)  == Create(n, [kind |-> "function"])
DropFunction(n)    == Drop(n, "function")

(***************************************************************************)
(* Rows                                                                    *)
(***************************************************************************)
\* The row an INSERT proposes: what it states, and defaults for the rest.
Proposed(meta, stated) ==
  [c \in ColumnsOf(meta) |-> IF c \in DOMAIN stated THEN stated[c] ELSE Column(meta, c).default]

ParentExists(v, fk) == IsTable(fk.table) /\ v \in KeysOf(catalog[fk.table])

\* NOT NULL, UNIQUE and foreign keys are checked for the columns set, CHECK
\* for the row.  A CHECK of a column that is gone is an error.
Admissible(meta, row, set, self) ==
  /\ \A c \in set : Column(meta, c).notNull => row[c] # Null
  /\ \A ck \in meta.checks : Has(meta, ck.column) /\ row[ck.column] # ck.forbids
  /\ \A ix \in meta.indexes : ix.unique /\ ix.column \in set /\ row[ix.column] # Null
        => \A e \in entries[ix.root] : e[1] = row[ix.column] => e[2] = self
  /\ \A c \in set : LET fk == Column(meta, c).fk IN
        fk # NoFk /\ row[c] # Null
          => \/ ParentExists(row[c], fk)
             \/ IsTable(fk.table) /\ catalog[fk.table].root = meta.root /\ row[c] = row[meta.pk]

\* An INSERT works with the meta it read when it began.
Write(meta, row) ==
  LET key == row[meta.pk] IN
  /\ key # Null /\ key \notin KeysOf(meta)
  /\ Admissible(meta, row, ColumnsOf(meta), Null)
  /\ rows' = [rows EXCEPT ![meta.root] = Extended(@, key, EncodeRow(meta, row))]
  /\ entries' = [r \in DOMAIN entries |-> entries[r] \cup
                  {<<row[ix.column], key>> : ix \in {ix \in meta.indexes : ix.root = r /\ row[ix.column] # Null}}]
  /\ told' = [told EXCEPT ![meta.root] = Extended(@, key, row)]
  /\ UNCHANGED <<catalog, pages>>

Triggered(n) == \E t \in Names : catalog[t].kind = "trigger" /\ catalog[t].table = n

Insert(n, stated) ==
  /\ Statement
  /\ IsTable(n) /\ ~Triggered(n)
  /\ DOMAIN stated \subseteq ColumnsOf(catalog[n])
  /\ Write(catalog[n], Proposed(catalog[n], stated))
  /\ UNCHANGED held

\* With a BEFORE trigger the statements of its body come between.
BeginInsert(n, stated) ==
  /\ Statement
  /\ IsTable(n) /\ Triggered(n) /\ held = Nobody
  /\ DOMAIN stated \subseteq ColumnsOf(catalog[n])
  /\ held' = [table |-> n, meta |-> catalog[n], stated |-> stated]
  /\ UNCHANGED <<catalog, store, told>>

FinishInsert ==
  /\ held # Nobody
  /\ Write(held.meta, Proposed(held.meta, held.stated))
  /\ held' = Nobody
  /\ UNCHANGED count

\* The row is refused: what the body did is rolled back with it, or caught.
RefuseInsert ==
  /\ held # Nobody
  /\ held' = Nobody
  /\ UNCHANGED <<catalog, store, told, count>>

Referenced(n, k) ==
  \E m \in Tables : \E i \in DOMAIN catalog[m].cols :
    /\ catalog[m].cols[i].fk.table = n
    /\ \E j \in KeysOf(catalog[m]) : Decoded(catalog[m], j)[catalog[m].cols[i].name] = k

\* The whole row is written again, at its full length.
Update(n, k, c, v) ==
  LET meta == catalog[n]
      old == Decoded(meta, k)
      row == [old EXCEPT ![c] = v]
  IN /\ Statement
     /\ IsTable(n) /\ k \in KeysOf(meta)
     /\ Has(meta, c) /\ c # meta.pk
     /\ Admissible(meta, row, {c}, k)
     /\ rows' = [rows EXCEPT ![meta.root][k] = EncodeRow(meta, row)]
     /\ entries' = [r \in DOMAIN entries |->
                     IF \E ix \in meta.indexes : ix.root = r /\ ix.column = c
                     THEN (entries[r] \ {<<old[c], k>>}) \cup (IF v = Null THEN {} ELSE {<<v, k>>})
                     ELSE entries[r]]
     /\ told' = [told EXCEPT ![meta.root][k] = [@ EXCEPT ![c] = v]]
     /\ UNCHANGED <<catalog, pages, held>>

\* ON DELETE is RESTRICT or NO ACTION; ForeignKeys has the other actions.
Delete(n, k) ==
  LET meta == catalog[n] IN
  /\ Statement
  /\ IsTable(n) /\ k \in KeysOf(meta)
  /\ ~Referenced(n, k)
  /\ rows' = [rows EXCEPT ![meta.root] = Restrict(@, DOMAIN @ \ {k})]
  /\ entries' = [r \in DOMAIN entries |-> IF \E ix \in meta.indexes : ix.root = r
                                          THEN {e \in entries[r] : e[2] # k} ELSE entries[r]]
  /\ told' = [told EXCEPT ![meta.root] = Restrict(@, DOMAIN @ \ {k})]
  /\ UNCHANGED <<catalog, pages, held>>

(***************************************************************************)
(* INTEGRITY CHECK                                                         *)
(***************************************************************************)
OrphanEntry(n) == \E ix \in catalog[n].indexes : \E e \in entries[ix.root] : e[2] \notin KeysOf(catalog[n])

BadKey(n, i) ==
  LET fk == catalog[n].cols[i].fk IN
  /\ fk # NoFk
  /\ \/ ~IsTable(fk.table)
     \/ \E k \in KeysOf(catalog[n]) : LET v == Decoded(catalog[n], k)[catalog[n].cols[i].name] IN
          v # Null /\ v \notin KeysOf(catalog[fk.table])

IntegrityIssues == {n \in Tables : OrphanEntry(n) \/ \E i \in DOMAIN catalog[n].cols : BadKey(n, i)}

Next ==
  \/ \E n \in Names :
       \/ \E shape \in Shapes : CreateTable(n, shape)
       \/ \E m \in Names : CreateTableAs(n, m) \/ RenameTable(n, m) \/ CreateTrigger(n, m)
       \/ DropTable(n) \/ DropConstraint(n)
       \/ \E d \in Additions : AddColumn(n, d)
       \/ \E c \in Columns : DropColumn(n, c)
       \/ \E c, d \in Columns : RenameColumn(n, c, d)
       \/ \E c \in Columns, v \in Keys : AddCheck(n, c, v)
       \/ \E x \in IndexNames, c \in Columns, u \in BOOLEAN : CreateIndex(n, x, c, u)
       \/ CreateView(n) \/ DropView(n) \/ DropTrigger(n)
       \/ CreateProcedure(n) \/ DropProcedure(n) \/ CreateFunction(n) \/ DropFunction(n)
       \/ \E C \in SUBSET Columns : \E stated \in [C -> Values] : Insert(n, stated) \/ BeginInsert(n, stated)
       \/ \E k \in Keys : Delete(n, k) \/ \E c \in Columns, v \in Values : Update(n, k, c, v)
  \/ \E name \in IndexNames \cup ({"uq"} \X Names \X Columns) : DropIndex(name)
  \/ FinishInsert \/ RefuseInsert

Spec == Init /\ [][Next]_vars

(***************************************************************************)
(* Properties                                                              *)
(***************************************************************************)
\* Objects, rows and indexes keep their types, and nothing is stored in a
\* page that was never handed out.
TypeOK ==
  /\ \A n \in Names : catalog[n].kind \in {"none", "table", "view", "trigger", "procedure", "function"}
  /\ \A n \in Tables : catalog[n].root \in DOMAIN rows /\ \A ix \in catalog[n].indexes : ix.root \in DOMAIN entries
  /\ DOMAIN rows \cup DOMAIN entries = 1..pages /\ DOMAIN rows \cap DOMAIN entries = {}
  /\ \A r \in DOMAIN rows : \A k \in DOMAIN rows[r] : k \in Keys /\ rows[r][k] \in Seq(Values)
  /\ \A r \in DOMAIN entries : entries[r] \subseteq Keys \X Keys
  /\ held = Nobody \/ held.table \in Names

\* Through any ADD, DROP and RENAME of columns and tables a row shows, under
\* every column, the value it was given, or the default the column had when
\* it was added, although rows are stored by position and are not rewritten
\* when a column is added or renamed.
RowsKeepTheirValues == \A n \in Tables : Seen(catalog[n]) = told[catalog[n].root]

\* Every index, built before or after its rows and its columns' renames, holds
\* exactly the rows' values, and a UNIQUE one no value twice.
IndexesTellRows ==
  \A n \in Tables : \A ix \in catalog[n].indexes :
    /\ entries[ix.root] = EntriesFor(Seen(catalog[n]), ix.column)
    /\ ix.unique => \A d, e \in entries[ix.root] : d[1] = e[1] => d = e

\* What the catalog names is there: the primary key, the columns of indexes
\* and CHECKs, and the table and key of every foreign key, whichever table a
\* statement changed.
CatalogNamesResolve ==
  \A n \in Tables : LET meta == catalog[n] IN
    /\ Has(meta, meta.pk)
    /\ \A ix \in meta.indexes : Has(meta, ix.column)
    /\ \A ck \in meta.checks : Has(meta, ck.column)
    /\ \A i \in DOMAIN meta.cols : meta.cols[i].fk # NoFk =>
         IsTable(meta.cols[i].fk.table) /\ catalog[meta.cols[i].fk.table].pk = meta.cols[i].fk.column

\* A CHECK holds of every row, also of those older than the CHECK and of
\* columns older than neither.
ChecksHold ==
  \A n \in Tables : \A ck \in catalog[n].checks : \A k \in KeysOf(catalog[n]) :
    Has(catalog[n], ck.column) => Decoded(catalog[n], k)[ck.column] # ck.forbids

\* INTEGRITY CHECK has nothing to report: no statement leaves an index entry
\* without its row, or a reference without its table or row.
IntegrityClean == IntegrityIssues = {}

\* CREATE and RENAME replace no object of another kind: who held a name keeps
\* it (docs/SQL_REFERENCE.md:647, docs/adr/0025-views.md:25).
NothingReplaced ==
  [][\A n \in Names : catalog[n] # NoObject /\ catalog'[n] # NoObject => catalog[n].kind = catalog'[n].kind]_vars

\* The catalog is well typed and what it names is there.
CatalogIsWhole == TypeOK /\ CatalogNamesResolve

\* What the schema asks of the rows it has: constraints declared before and after
\* them hold, and INTEGRITY CHECK agrees.
RowsObeySchema == ChecksHold /\ IntegrityClean
=============================================================================
