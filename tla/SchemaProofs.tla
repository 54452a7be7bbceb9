----------------------------- MODULE SchemaProofs -----------------------------
(***************************************************************************)
(* Proofs about Schema for every set of names, columns and keys, every     *)
(* list of columns and any number of statements: the catalog names what is *)
(* there, a row shows what it was given, an index tells the rows, and what *)
(* the schema asks of them holds.                                          *)
(***************************************************************************)
EXTENDS Schema, FiniteSetTheorems, TLAPS

\* No statement whose bad outcome is known.
Supported == Quirks = {}

-----------------------------------------------------------------------------
(* The invariant.                                                          *)

Kinds == {"none", "table", "view", "trigger", "procedure", "function"}

ColumnMetas == [name : Columns, notNull : BOOLEAN, default : Values, fk : ForeignKeys]
CheckMetas  == [column : Columns, forbids : Values]
IndexMetas  == [name : IndexNames \cup {"uq"} \X Names \X Columns, column : Columns,
                unique : BOOLEAN, root : Nat]
TableMetas  == [kind : {"table"}, cols : Seq(ColumnMetas), pk : Columns, root : Nat,
                checks : SUBSET CheckMetas, indexes : SUBSET IndexMetas]

CatalogOK ==
  /\ catalog = [n \in Names |-> catalog[n]]
  /\ \A n \in Names : catalog[n].kind \in Kinds /\ (IsTable(n) => catalog[n] \in TableMetas)

\* Every page holds a table or an index, and nothing is stored elsewhere.
StoreOK ==
  /\ pages \in Nat /\ DOMAIN told = DOMAIN rows
  /\ DOMAIN rows \cup DOMAIN entries = 1..pages /\ DOMAIN rows \cap DOMAIN entries = {}
  /\ \A r \in DOMAIN rows :
       /\ told[r] = [k \in DOMAIN rows[r] |-> told[r][k]]
       /\ \A k \in DOMAIN rows[r] : k \in Keys /\ rows[r][k] \in Seq(Values)
  /\ \A r \in DOMAIN entries : entries[r] \subseteq Keys \X Keys

NamesDiffer(meta) ==
  \A i, j \in DOMAIN meta.cols : meta.cols[i].name = meta.cols[j].name => i = j

\* What a description says of itself.
MetaOK(meta) ==
  /\ NamesDiffer(meta)
  /\ Has(meta, meta.pk)
  /\ \A ix \in meta.indexes : Has(meta, ix.column)
  /\ \A ck \in meta.checks : Has(meta, ck.column)

Distinct(seen, c) ==
  \A j, k \in DOMAIN seen : seen[j][c] # Null /\ seen[j][c] = seen[k][c] => j = k

\* A table's rows, indexes and CHECKs, by the rows R, entries E and history T
\* of the store.
TableOK(meta, R, E, T) ==
  /\ \A k \in DOMAIN R[meta.root] :
       /\ Len(R[meta.root][k]) <= Len(meta.cols)
       /\ T[meta.root][k] = DecodeRow(meta, R[meta.root][k])
       /\ T[meta.root][k][meta.pk] = k
  /\ \A ix \in meta.indexes : /\ E[ix.root] = EntriesFor(T[meta.root], ix.column)
                              /\ ix.unique => Distinct(T[meta.root], ix.column)
  /\ \A ck \in meta.checks : \A k \in DOMAIN T[meta.root] : T[meta.root][k][ck.column] # ck.forbids

\* No two tables and no two indexes share a page.
RootsOK ==
  \A n \in Tables :
    /\ catalog[n].root \in DOMAIN rows
    /\ \A ix \in catalog[n].indexes : ix.root \in DOMAIN entries
    /\ \A m \in Tables : catalog[n].root = catalog[m].root => n = m
    /\ \A m \in Tables : \A ix \in catalog[n].indexes, iy \in catalog[m].indexes :
         ix.root = iy.root => n = m /\ ix = iy

\* A foreign key names the key of a table, and a row's value in it a row there.
Resolves(fk, values) ==
  /\ fk.table \in Tables /\ catalog[fk.table].pk = fk.column
  /\ \A v \in values : v # Null => v \in DOMAIN told[catalog[fk.table].root]

ValuesOf(seen, c) == {seen[k][c] : k \in DOMAIN seen}

RefsOK ==
  \A n \in Tables : \A i \in DOMAIN catalog[n].cols :
    LET col == catalog[n].cols[i] IN
    col.fk # NoFk => Resolves(col.fk, ValuesOf(told[catalog[n].root], col.name))

\* Descriptions of one table that differ at most in the column that foreign
\* keys name.
SameTable(x, y) ==
  /\ x.root = y.root /\ x.pk = y.pk /\ x.checks = y.checks /\ x.indexes = y.indexes
  /\ Len(x.cols) = Len(y.cols)
  /\ \A i \in 1..Len(x.cols) :
       /\ x.cols[i].name = y.cols[i].name /\ x.cols[i].notNull = y.cols[i].notNull
       /\ x.cols[i].default = y.cols[i].default /\ x.cols[i].fk.table = y.cols[i].fk.table

\* The INSERT that a trigger interrupts goes on with a description that still
\* fits.
HeldOK ==
  held # Nobody =>
    /\ held.table \in Tables /\ held.meta \in TableMetas
    /\ SameTable(held.meta, catalog[held.table])
    /\ \A c \in DOMAIN held.stated : held.stated[c] \in Values

IInv ==
  /\ CatalogOK /\ StoreOK /\ RootsOK /\ RefsOK /\ HeldOK
  /\ \A n \in Tables : MetaOK(catalog[n]) /\ TableOK(catalog[n], rows, entries, told)

-----------------------------------------------------------------------------
(* Descriptions and rows.                                                  *)

LEMMA NullFacts ==
  /\ Null \notin Keys /\ Null \in Values /\ Keys \subseteq Values
  /\ \A v \in Values : v # Null => v \in Keys
  /\ \A fk \in ForeignKeys : fk.table = Null <=> fk = NoFk
  /\ \A fk \in ForeignKeys : fk # NoFk => fk.table \in Names /\ fk.column \in Columns
BY SchemaAssumption DEF Values, ForeignKeys, NoFk

LEMMA MetaFacts ==
  ASSUME NEW meta \in TableMetas
  PROVE  /\ meta.kind = "table" /\ meta.pk \in Columns /\ meta.root \in Nat
         /\ meta.cols \in Seq(ColumnMetas)
         /\ Len(meta.cols) \in Nat /\ DOMAIN meta.cols = 1..Len(meta.cols)
         /\ \A i \in DOMAIN meta.cols :
              /\ meta.cols[i] \in ColumnMetas /\ meta.cols[i].name \in Columns
              /\ meta.cols[i].default \in Values /\ meta.cols[i].fk \in ForeignKeys
         /\ \A ix \in meta.indexes :
              ix \in IndexMetas /\ ix.column \in Columns /\ ix.root \in Nat
         /\ \A ck \in meta.checks : ck \in CheckMetas /\ ck.column \in Columns
<1>1. /\ meta.kind = "table" /\ meta.pk \in Columns /\ meta.root \in Nat
      /\ meta.cols \in Seq(ColumnMetas)
      /\ meta.indexes \subseteq IndexMetas /\ meta.checks \subseteq CheckMetas
  BY DEF TableMetas
<1>2. Len(meta.cols) \in Nat /\ DOMAIN meta.cols = 1..Len(meta.cols)
  BY <1>1
<1>3. \A i \in DOMAIN meta.cols : meta.cols[i] \in ColumnMetas
  BY <1>1
<1>4. \A x \in ColumnMetas : x.name \in Columns /\ x.default \in Values /\ x.fk \in ForeignKeys
  BY DEF ColumnMetas
<1>5. \A x \in IndexMetas : x.column \in Columns /\ x.root \in Nat
  BY DEF IndexMetas
<1>6. \A x \in CheckMetas : x.column \in Columns
  BY DEF CheckMetas
<1> QED BY <1>1, <1>2, <1>3, <1>4, <1>5, <1>6

LEMMA PositionFacts ==
  ASSUME NEW meta \in TableMetas, NamesDiffer(meta)
  PROVE  /\ \A i \in DOMAIN meta.cols : /\ Position(meta, meta.cols[i].name) = i
                                        /\ meta.cols[i].name \in ColumnsOf(meta)
         /\ \A c \in ColumnsOf(meta) : /\ Position(meta, c) \in DOMAIN meta.cols
                                       /\ meta.cols[Position(meta, c)].name = c
         /\ \A c : Has(meta, c) <=> c \in ColumnsOf(meta)
<1>1. ASSUME NEW c \in ColumnsOf(meta)
      PROVE  Position(meta, c) \in DOMAIN meta.cols /\ meta.cols[Position(meta, c)].name = c
  BY DEF Position, ColumnsOf
<1>2. \A c : Has(meta, c) <=> c \in ColumnsOf(meta)
  BY DEF Has, ColumnsOf
<1>3. ASSUME NEW i \in DOMAIN meta.cols
      PROVE  /\ Position(meta, meta.cols[i].name) = i
             /\ meta.cols[i].name \in ColumnsOf(meta)
  <2>1. meta.cols[i].name \in ColumnsOf(meta)
    BY DEF ColumnsOf
  <2> QED BY <1>1, <2>1 DEF NamesDiffer
<1> QED BY <1>1, <1>2, <1>3

LEMMA DecodeFacts ==
  ASSUME NEW meta \in TableMetas, NamesDiffer(meta), NEW stored \in Seq(Values)
  PROVE  /\ DecodeRow(meta, stored) \in [ColumnsOf(meta) -> Values]
         /\ \A i \in DOMAIN meta.cols :
              DecodeRow(meta, stored)[meta.cols[i].name] =
                IF i <= Len(stored) THEN stored[i] ELSE meta.cols[i].default
<1>1. ASSUME NEW c \in ColumnsOf(meta)
      PROVE  /\ DecodeRow(meta, stored)[c] =
                  IF Position(meta, c) <= Len(stored) THEN stored[Position(meta, c)]
                  ELSE meta.cols[Position(meta, c)].default
             /\ DecodeRow(meta, stored)[c] \in Values
  <2>1. Position(meta, c) \in DOMAIN meta.cols
    BY PositionFacts
  <2>2. Position(meta, c) \in Nat \ {0} /\ meta.cols[Position(meta, c)].default \in Values
    BY <2>1, MetaFacts
  <2> QED BY <2>2 DEF DecodeRow
<1>2. DecodeRow(meta, stored) = [c \in ColumnsOf(meta) |-> DecodeRow(meta, stored)[c]]
  BY DEF DecodeRow
<1> QED BY <1>1, <1>2, PositionFacts

\* The names and defaults of the columns are all that reading a row looks at.
LEMMA DecodeSame ==
  ASSUME NEW x \in TableMetas, NEW y \in TableMetas, NamesDiffer(x), NamesDiffer(y),
         Len(x.cols) = Len(y.cols),
         \A i \in 1..Len(x.cols) : /\ x.cols[i].name = y.cols[i].name
                                   /\ x.cols[i].default = y.cols[i].default
  PROVE  /\ ColumnsOf(x) = ColumnsOf(y)
         /\ \A stored \in Seq(Values) : DecodeRow(x, stored) = DecodeRow(y, stored)
<1>1. ColumnsOf(x) = ColumnsOf(y)
  BY MetaFacts DEF ColumnsOf
<1>2. ASSUME NEW stored \in Seq(Values)
      PROVE  DecodeRow(x, stored) = DecodeRow(y, stored)
  <2>1. /\ DecodeRow(x, stored) \in [ColumnsOf(x) -> Values]
        /\ DecodeRow(y, stored) \in [ColumnsOf(x) -> Values]
    BY <1>1, DecodeFacts
  <2>2. ASSUME NEW c \in ColumnsOf(x)
        PROVE  DecodeRow(x, stored)[c] = DecodeRow(y, stored)[c]
    <3>1. PICK i \in DOMAIN x.cols : x.cols[i].name = c
      BY DEF ColumnsOf
    <3>2. i \in DOMAIN y.cols /\ y.cols[i].name = c /\ x.cols[i].default = y.cols[i].default
      BY <3>1, MetaFacts
    <3>3. DecodeRow(x, stored)[c] = IF i <= Len(stored) THEN stored[i] ELSE x.cols[i].default
      BY <3>1, DecodeFacts
    <3>4. DecodeRow(y, stored)[c] = IF i <= Len(stored) THEN stored[i] ELSE y.cols[i].default
      BY <3>2, DecodeFacts
    <3> QED BY <3>2, <3>3, <3>4
  <2> QED BY <2>1, <2>2
<1> QED BY <1>1, <1>2

\* A row that is written whole is read back.
LEMMA EncodeFacts ==
  ASSUME NEW meta \in TableMetas, NamesDiffer(meta), NEW row \in [ColumnsOf(meta) -> Values]
  PROVE  /\ EncodeRow(meta, row) \in Seq(Values)
         /\ Len(EncodeRow(meta, row)) = Len(meta.cols)
         /\ DecodeRow(meta, EncodeRow(meta, row)) = row
<1> DEFINE stored == [i \in 1..Len(meta.cols) |-> row[meta.cols[i].name]]
<1>1. /\ DOMAIN meta.cols = 1..Len(meta.cols) /\ Len(meta.cols) \in Nat
      /\ \A i \in DOMAIN meta.cols : meta.cols[i].name \in ColumnsOf(meta)
  BY MetaFacts, PositionFacts
<1>2. EncodeRow(meta, row) = stored
  BY <1>1 DEF EncodeRow
<1>3. stored \in Seq(Values) /\ Len(stored) = Len(meta.cols)
  BY <1>1
<1>4. DecodeRow(meta, stored) \in [ColumnsOf(meta) -> Values]
  BY <1>3, DecodeFacts
<1>5. ASSUME NEW c \in ColumnsOf(meta)
      PROVE  DecodeRow(meta, stored)[c] = row[c]
  <2>1. PICK i \in DOMAIN meta.cols : meta.cols[i].name = c
    BY DEF ColumnsOf
  <2>2. DecodeRow(meta, stored)[c] = IF i <= Len(stored) THEN stored[i] ELSE meta.cols[i].default
    BY <1>3, <2>1, DecodeFacts
  <2> QED BY <1>1, <1>3, <2>1, <2>2
<1> HIDE DEF stored
<1> QED BY <1>2, <1>3, <1>4, <1>5

\* What an index of a column should hold.
LEMMA EntriesFacts ==
  ASSUME NEW seen, NEW c
  PROVE  /\ \A v, k : <<v, k>> \in EntriesFor(seen, c) <=>
              k \in DOMAIN seen /\ seen[k][c] = v /\ v # Null
         /\ \A e \in EntriesFor(seen, c) : e = <<e[1], e[2]>>
BY DEF EntriesFor

LEMMA ColumnFrame ==
  ASSUME NEW s, NEW t, NEW c, NEW d, DOMAIN s = DOMAIN t,
         \A k \in DOMAIN s : s[k][c] = t[k][d]
  PROVE  /\ EntriesFor(s, c) = EntriesFor(t, d)
         /\ Distinct(s, c) <=> Distinct(t, d)
         /\ ValuesOf(s, c) = ValuesOf(t, d)
<1>1. EntriesFor(s, c) = EntriesFor(t, d)
  BY DEF EntriesFor
<1>2. Distinct(s, c) <=> Distinct(t, d)
  BY DEF Distinct
<1>3. ValuesOf(s, c) = ValuesOf(t, d)
  BY DEF ValuesOf
<1> QED BY <1>1, <1>2, <1>3

\* One more row.
LEMMA RowFrame ==
  ASSUME NEW s, NEW t, NEW k, k \notin DOMAIN s, DOMAIN t = DOMAIN s \cup {k}, NEW c,
         \A j \in DOMAIN s : t[j] = s[j]
  PROVE  /\ EntriesFor(t, c) = EntriesFor(s, c) \cup (IF t[k][c] # Null THEN {<<t[k][c], k>>} ELSE {})
         /\ Distinct(s, c) /\ (t[k][c] # Null => \A j \in DOMAIN s : s[j][c] # t[k][c])
              => Distinct(t, c)
<1>1. ASSUME NEW e
      PROVE  e \in EntriesFor(t, c) <=>
               e \in EntriesFor(s, c) \cup (IF t[k][c] # Null THEN {<<t[k][c], k>>} ELSE {})
  BY DEF EntriesFor
<1>2. ASSUME Distinct(s, c), t[k][c] # Null => \A j \in DOMAIN s : s[j][c] # t[k][c]
      PROVE  Distinct(t, c)
  BY <1>2 DEF Distinct
<1> QED BY <1>1, <1>2

\* One row changes.
LEMMA RowChange ==
  ASSUME NEW s, NEW t, NEW k \in DOMAIN s, DOMAIN t = DOMAIN s, NEW c,
         \A j \in DOMAIN s : j # k => t[j] = s[j]
  PROVE  /\ EntriesFor(t, c) = (EntriesFor(s, c) \ {<<s[k][c], k>>})
                                \cup (IF t[k][c] = Null THEN {} ELSE {<<t[k][c], k>>})
         /\ Distinct(s, c)
              /\ (t[k][c] # Null => \A j \in DOMAIN s : j # k => s[j][c] # t[k][c])
              => Distinct(t, c)
<1>1. ASSUME NEW e
      PROVE  e \in EntriesFor(t, c) <=>
               e \in (EntriesFor(s, c) \ {<<s[k][c], k>>})
                     \cup (IF t[k][c] = Null THEN {} ELSE {<<t[k][c], k>>})
  BY DEF EntriesFor
<1>2. ASSUME Distinct(s, c),
             t[k][c] # Null => \A j \in DOMAIN s : j # k => s[j][c] # t[k][c]
      PROVE  Distinct(t, c)
  BY <1>2 DEF Distinct
<1> QED BY <1>1, <1>2

\* One row goes.
LEMMA RowGone ==
  ASSUME NEW s, NEW t, NEW k, DOMAIN t = DOMAIN s \ {k}, NEW c,
         \A j \in DOMAIN t : t[j] = s[j]
  PROVE  /\ EntriesFor(t, c) = {e \in EntriesFor(s, c) : e[2] # k}
         /\ Distinct(s, c) => Distinct(t, c)
<1>1. ASSUME NEW e
      PROVE  e \in EntriesFor(t, c) <=> e \in {d \in EntriesFor(s, c) : d[2] # k}
  BY DEF EntriesFor
<1>2. Distinct(s, c) => Distinct(t, c)
  BY DEF Distinct
<1> QED BY <1>1, <1>2

LEMMA TableFrame ==
  ASSUME NEW meta, NEW R, NEW E, NEW T, NEW R1, NEW E1, NEW T1, TableOK(meta, R, E, T),
         R1[meta.root] = R[meta.root], T1[meta.root] = T[meta.root],
         \A ix \in meta.indexes : E1[ix.root] = E[ix.root]
  PROVE  TableOK(meta, R1, E1, T1)
BY DEF TableOK

\* The rows of a table are what the history tells.
LEMMA SeenFacts ==
  ASSUME IInv, NEW n \in Tables
  PROVE  LET meta == catalog[n]
             seen == told[meta.root]
         IN  /\ n \in Names /\ meta \in TableMetas /\ MetaOK(meta)
             /\ TableOK(meta, rows, entries, told)
             /\ meta.root \in DOMAIN rows /\ meta.root \in DOMAIN told
             /\ KeysOf(meta) = DOMAIN seen /\ Seen(meta) = seen
             /\ seen = [k \in DOMAIN seen |-> seen[k]]
             /\ \A k \in DOMAIN seen :
                  /\ k \in Keys /\ rows[meta.root][k] \in Seq(Values)
                  /\ Decoded(meta, k) = seen[k]
                  /\ seen[k] \in [ColumnsOf(meta) -> Values]
<1> DEFINE meta == catalog[n]
           seen == told[meta.root]
<1>1. /\ n \in Names /\ meta \in TableMetas /\ MetaOK(meta) /\ NamesDiffer(meta)
      /\ TableOK(meta, rows, entries, told)
      /\ meta.root \in DOMAIN rows /\ DOMAIN told = DOMAIN rows
  BY DEF IInv, CatalogOK, StoreOK, RootsOK, Tables, MetaOK
<1>2. /\ seen = [k \in DOMAIN rows[meta.root] |-> seen[k]]
      /\ \A k \in DOMAIN rows[meta.root] : k \in Keys /\ rows[meta.root][k] \in Seq(Values)
  BY <1>1 DEF IInv, StoreOK
<1>3. DOMAIN seen = DOMAIN rows[meta.root]
  BY <1>2
<1>4. ASSUME NEW k \in DOMAIN seen
      PROVE  Decoded(meta, k) = seen[k] /\ seen[k] \in [ColumnsOf(meta) -> Values]
  <2>1. k \in DOMAIN rows[meta.root] /\ rows[meta.root][k] \in Seq(Values)
    BY <1>2, <1>3
  <2>2. seen[k] = DecodeRow(meta, rows[meta.root][k])
    BY <1>1, <2>1 DEF TableOK
  <2>3. DecodeRow(meta, rows[meta.root][k]) \in [ColumnsOf(meta) -> Values]
    BY <1>1, <2>1, DecodeFacts
  <2> QED BY <2>2, <2>3 DEF Decoded
<1>5. Seen(meta) = seen
  BY <1>2, <1>3, <1>4 DEF Seen, KeysOf
<1> QED BY <1>1, <1>2, <1>3, <1>4, <1>5 DEF KeysOf

LEMMA TableFacts ==
  ASSUME IInv, NEW n \in Tables
  PROVE  LET meta == catalog[n]
             seen == told[meta.root]
         IN  /\ \A k \in DOMAIN seen : /\ Len(rows[meta.root][k]) <= Len(meta.cols)
                                       /\ seen[k] = DecodeRow(meta, rows[meta.root][k])
                                       /\ seen[k][meta.pk] = k
             /\ \A ix \in meta.indexes :
                  /\ ix.root \in DOMAIN entries
                  /\ \A iy \in meta.indexes : iy.root = ix.root => iy = ix
                  /\ entries[ix.root] = EntriesFor(seen, ix.column)
                  /\ ix.unique => Distinct(seen, ix.column)
             /\ \A ck \in meta.checks : \A k \in DOMAIN seen : seen[k][ck.column] # ck.forbids
<1> DEFINE meta == catalog[n]
           seen == told[meta.root]
<1>1. TableOK(meta, rows, entries, told) /\ DOMAIN seen = DOMAIN rows[meta.root]
  BY SeenFacts DEF KeysOf
<1>2. \A ix \in meta.indexes :
        /\ ix.root \in DOMAIN entries
        /\ \A iy \in meta.indexes : iy.root = ix.root => iy = ix
  BY DEF IInv, RootsOK
<1> QED BY <1>1, <1>2 DEF TableOK

LEMMA SameStore ==
  ASSUME StoreOK, UNCHANGED <<store, told>>
  PROVE  StoreOK'
BY DEF StoreOK, store

\* The INSERT in progress does not mind what happens to other tables.
LEMMA HeldFrame ==
  ASSUME HeldOK, held' = held,
         held # Nobody => catalog'[held.table] = catalog[held.table]
  PROVE  HeldOK'
BY DEF HeldOK, Tables, IsTable

-----------------------------------------------------------------------------
(* What changes a state may see.                                           *)

\* One table gets another description; the columns of its rows may change,
\* the rows themselves do not, and indexes come only in fresh pages.
LEMMA ChangeTable ==
  ASSUME IInv, NEW n \in Tables, NEW meta \in TableMetas, MetaOK(meta),
         meta.root = catalog[n].root, meta.pk = catalog[n].pk,
         catalog' = [catalog EXCEPT ![n] = meta],
         DOMAIN rows' = DOMAIN rows,
         \A r \in DOMAIN rows : r # meta.root => rows'[r] = rows[r] /\ told'[r] = told[r],
         DOMAIN told'[meta.root] = DOMAIN told[meta.root],
         DOMAIN entries \subseteq DOMAIN entries',
         \A r \in DOMAIN entries : entries'[r] = entries[r],
         \A ix \in meta.indexes : /\ ix.root \in DOMAIN entries'
                                  /\ ix.root \in DOMAIN entries => ix \in catalog[n].indexes
                                  /\ \A iy \in meta.indexes : ix.root = iy.root => ix = iy,
         StoreOK', HeldOK', TableOK(meta, rows', entries', told'),
         \A i \in DOMAIN meta.cols : meta.cols[i].fk # NoFk =>
           Resolves(meta.cols[i].fk, ValuesOf(told'[meta.root], meta.cols[i].name))
  PROVE  IInv'
<1>1. /\ n \in Names /\ catalog = [m \in Names |-> catalog[m]]
      /\ \A m \in Names : catalog[m].kind \in Kinds /\ (IsTable(m) => catalog[m] \in TableMetas)
  BY DEF IInv, CatalogOK, Tables
<1>2. /\ catalog' = [m \in Names |-> catalog'[m]] /\ catalog'[n] = meta
      /\ \A m \in Names \ {n} : catalog'[m] = catalog[m]
  BY <1>1
<1>3. meta.kind = "table" /\ catalog[n].kind = "table"
  BY MetaFacts DEF Tables, IsTable
<1>4. Tables' = Tables /\ \A m \in Names : IsTable(m)' <=> IsTable(m)
  BY <1>1, <1>2, <1>3 DEF Tables, IsTable
<1>5. CatalogOK'
  BY <1>1, <1>2, <1>3, <1>4 DEF CatalogOK, Kinds
<1>6. \A m \in Tables : catalog'[m] = IF m = n THEN meta ELSE catalog[m]
  BY <1>2 DEF Tables
<1>7. RootsOK'
  <2>1. ASSUME NEW m \in Tables
        PROVE  /\ catalog'[m].root \in DOMAIN rows'
               /\ catalog'[m].root = catalog[m].root
               /\ \A ix \in catalog'[m].indexes : ix.root \in DOMAIN entries'
    BY <1>6 DEF IInv, RootsOK
  <2>2. ASSUME NEW m \in Tables, NEW o \in Tables,
               NEW ix \in catalog'[m].indexes, NEW iy \in catalog'[o].indexes, ix.root = iy.root
        PROVE  m = o /\ ix = iy
    <3>1. CASE m = n /\ o = n
      BY <1>6, <2>2, <3>1
    <3>2. CASE ~(m = n /\ o = n)
      <4>1. ix.root \in DOMAIN entries
        BY <1>6, <2>2, <3>2 DEF IInv, RootsOK
      <4>2. ix \in catalog[m].indexes /\ iy \in catalog[o].indexes
        BY <1>6, <2>2, <4>1
      <4> QED BY <2>2, <4>2 DEF IInv, RootsOK
    <3> QED BY <3>1, <3>2
  <2>3. ASSUME NEW m \in Tables, NEW o \in Tables, catalog'[m].root = catalog'[o].root
        PROVE  m = o
    BY <2>1, <2>3 DEF IInv, RootsOK
  <2> QED BY <1>4, <2>1, <2>2, <2>3 DEF RootsOK
<1>8. ASSUME NEW m \in Tables
      PROVE  MetaOK(catalog'[m]) /\ TableOK(catalog'[m], rows', entries', told')
  <2>1. CASE m = n
    BY <1>6, <2>1
  <2>2. CASE m # n
    <3>1. catalog'[m] = catalog[m]
      BY <1>6, <2>2
    <3>2. /\ MetaOK(catalog[m]) /\ TableOK(catalog[m], rows, entries, told)
          /\ catalog[m].root \in DOMAIN rows /\ catalog[m].root # meta.root
          /\ \A ix \in catalog[m].indexes : ix.root \in DOMAIN entries
      BY <2>2 DEF IInv, RootsOK
    <3>3. TableOK(catalog[m], rows', entries', told')
      BY <3>2, TableFrame
    <3> QED BY <3>1, <3>2, <3>3
  <2> QED BY <2>1, <2>2
<1>9. ASSUME NEW m \in Tables
      PROVE  /\ DOMAIN told'[catalog'[m].root] = DOMAIN told[catalog[m].root]
             /\ m # n => told'[catalog'[m].root] = told[catalog[m].root]
             /\ catalog'[m].pk = catalog[m].pk
  BY <1>6 DEF IInv, RootsOK
<1>10. ASSUME NEW fk, NEW values, Resolves(fk, values)
       PROVE  Resolves(fk, values)'
  BY <1>4, <1>9, <1>10 DEF Resolves
<1>11. RefsOK'
  <2>1. ASSUME NEW m \in Tables, NEW i \in DOMAIN catalog'[m].cols,
               catalog'[m].cols[i].fk # NoFk
        PROVE  Resolves(catalog'[m].cols[i].fk,
                        ValuesOf(told'[catalog'[m].root], catalog'[m].cols[i].name))
    <3>1. CASE m = n
      BY <1>6, <2>1, <3>1
    <3>2. CASE m # n
      BY <1>6, <1>9, <2>1, <3>2 DEF IInv, RefsOK
    <3> QED BY <3>1, <3>2
  <2>2. ASSUME NEW m \in Tables, NEW i \in DOMAIN catalog'[m].cols,
               catalog'[m].cols[i].fk # NoFk
        PROVE  Resolves(catalog[m].cols[i].fk,
                        ValuesOf(told[catalog[m].root], catalog[m].cols[i].name))'
    BY <1>10, <2>1, <2>2 DEF Resolves, ValuesOf
  <2> QED BY <1>4, <2>2 DEF RefsOK
<1> QED BY <1>4, <1>5, <1>7, <1>8, <1>11 DEF IInv

\* The rows of one table change, with its indexes.
LEMMA ChangeRows ==
  ASSUME IInv, NEW n \in Tables, catalog' = catalog, DOMAIN rows' = DOMAIN rows,
         \A r \in DOMAIN rows : r # catalog[n].root => rows'[r] = rows[r] /\ told'[r] = told[r],
         DOMAIN entries' = DOMAIN entries,
         \A r \in DOMAIN entries :
           (\A ix \in catalog[n].indexes : ix.root # r) => entries'[r] = entries[r],
         StoreOK', HeldOK', TableOK(catalog[n], rows', entries', told'),
         \A m \in Tables : \A i \in DOMAIN catalog[m].cols :
           catalog[m].cols[i].fk # NoFk =>
             \A v \in ValuesOf(told'[catalog[m].root], catalog[m].cols[i].name) :
               v # Null => v \in DOMAIN told'[catalog[catalog[m].cols[i].fk.table].root]
  PROVE  IInv'
<1>1. Tables' = Tables
  BY DEF Tables, IsTable
<1>2. CatalogOK'
  BY DEF IInv, CatalogOK, IsTable
<1>3. RootsOK'
  BY <1>1 DEF IInv, RootsOK
<1>4. ASSUME NEW m \in Tables
      PROVE  MetaOK(catalog[m]) /\ TableOK(catalog[m], rows', entries', told')
  <2>1. CASE m = n
    BY <2>1 DEF IInv
  <2>2. CASE m # n
    <3>1. /\ TableOK(catalog[m], rows, entries, told) /\ MetaOK(catalog[m])
          /\ catalog[m].root \in DOMAIN rows /\ catalog[m].root # catalog[n].root
          /\ \A ix \in catalog[m].indexes :
               ix.root \in DOMAIN entries /\ \A iy \in catalog[n].indexes : iy.root # ix.root
      BY <2>2 DEF IInv, RootsOK
    <3>2. /\ rows'[catalog[m].root] = rows[catalog[m].root]
          /\ told'[catalog[m].root] = told[catalog[m].root]
          /\ \A ix \in catalog[m].indexes : entries'[ix.root] = entries[ix.root]
      BY <3>1
    <3> QED BY <3>1, <3>2, TableFrame
  <2> QED BY <2>1, <2>2
<1>5. RefsOK'
  <2>1. ASSUME NEW m \in Tables, NEW i \in DOMAIN catalog[m].cols, catalog[m].cols[i].fk # NoFk
        PROVE  /\ catalog[m].cols[i].fk.table \in Tables
               /\ catalog[catalog[m].cols[i].fk.table].pk = catalog[m].cols[i].fk.column
    BY <2>1 DEF IInv, RefsOK, Resolves
  <2> QED BY <1>1, <2>1 DEF RefsOK, Resolves
<1> QED BY <1>1, <1>2, <1>3, <1>4, <1>5 DEF IInv

\* Descriptions that agree as HeldOK asks read the same rows.
LEMMA SameFacts ==
  ASSUME NEW x \in TableMetas, NEW y \in TableMetas, SameTable(x, y), MetaOK(y)
  PROVE  /\ MetaOK(x) /\ x.root = y.root /\ x.pk = y.pk /\ ColumnsOf(x) = ColumnsOf(y)
         /\ x.indexes = y.indexes /\ x.checks = y.checks
         /\ Len(x.cols) = Len(y.cols) /\ DOMAIN x.cols = DOMAIN y.cols
         /\ \A i \in DOMAIN y.cols : x.cols[i].name = y.cols[i].name
         /\ \A i \in DOMAIN y.cols : y.cols[i].fk # NoFk =>
              x.cols[i].fk # NoFk /\ x.cols[i].fk.table = y.cols[i].fk.table
         /\ \A stored \in Seq(Values) : DecodeRow(x, stored) = DecodeRow(y, stored)
<1>1. /\ x.root = y.root /\ x.pk = y.pk /\ x.indexes = y.indexes /\ x.checks = y.checks
      /\ Len(x.cols) = Len(y.cols) /\ DOMAIN x.cols = DOMAIN y.cols
      /\ DOMAIN y.cols = 1..Len(x.cols)
  BY MetaFacts DEF SameTable
<1>2. \A i \in DOMAIN y.cols : /\ x.cols[i].name = y.cols[i].name
                               /\ x.cols[i].default = y.cols[i].default
                               /\ x.cols[i].fk.table = y.cols[i].fk.table
  BY <1>1 DEF SameTable
<1>3. NamesDiffer(x) /\ NamesDiffer(y)
  BY <1>1, <1>2 DEF NamesDiffer, MetaOK
<1>4. \A c : Has(x, c) <=> Has(y, c)
  BY <1>1, <1>2 DEF Has
<1>5. MetaOK(x)
  BY <1>1, <1>3, <1>4 DEF MetaOK
<1>6. ASSUME NEW i \in DOMAIN y.cols, y.cols[i].fk # NoFk
      PROVE  x.cols[i].fk # NoFk /\ x.cols[i].fk.table = y.cols[i].fk.table
  <2>1. y.cols[i].fk \in ForeignKeys /\ x.cols[i].fk \in ForeignKeys
    BY <1>1, MetaFacts
  <2> QED BY <1>2, <1>6, <2>1, NullFacts
<1>7. /\ ColumnsOf(x) = ColumnsOf(y)
      /\ \A stored \in Seq(Values) : DecodeRow(x, stored) = DecodeRow(y, stored)
  BY <1>1, <1>2, <1>3, DecodeSame
<1> QED BY <1>1, <1>2, <1>5, <1>6, <1>7

\* A row is written by a description that may be older than the table's own.
LEMMA WriteStep ==
  ASSUME IInv, NEW n \in Tables, NEW meta \in TableMetas, SameTable(meta, catalog[n]),
         NEW row \in [ColumnsOf(meta) -> Values], Write(meta, row), HeldOK'
  PROVE  IInv'
<1> DEFINE tab  == catalog[n]
           root == tab.root
           seen == told[root]
           key  == row[tab.pk]
<1>1. /\ n \in Names /\ tab \in TableMetas /\ MetaOK(tab) /\ NamesDiffer(tab)
      /\ TableOK(tab, rows, entries, told)
      /\ root \in DOMAIN rows /\ root \in DOMAIN told /\ DOMAIN told = DOMAIN rows
      /\ KeysOf(tab) = DOMAIN seen /\ DOMAIN rows[root] = DOMAIN seen
      /\ \A k \in DOMAIN seen : k \in Keys
  BY SeenFacts DEF KeysOf, MetaOK, IInv, StoreOK
<1>2. /\ MetaOK(meta) /\ NamesDiffer(meta) /\ meta.root = root /\ meta.pk = tab.pk
      /\ ColumnsOf(meta) = ColumnsOf(tab) /\ meta.indexes = tab.indexes
      /\ meta.checks = tab.checks /\ Len(meta.cols) = Len(tab.cols)
      /\ DOMAIN meta.cols = DOMAIN tab.cols
      /\ \A i \in DOMAIN tab.cols : meta.cols[i].name = tab.cols[i].name
      /\ \A i \in DOMAIN tab.cols : tab.cols[i].fk # NoFk =>
           meta.cols[i].fk # NoFk /\ meta.cols[i].fk.table = tab.cols[i].fk.table
      /\ \A stored \in Seq(Values) : DecodeRow(meta, stored) = DecodeRow(tab, stored)
  BY <1>1, SameFacts DEF MetaOK
<1>3. /\ EncodeRow(meta, row) \in Seq(Values)
      /\ Len(EncodeRow(meta, row)) = Len(tab.cols)
      /\ DecodeRow(tab, EncodeRow(meta, row)) = row
  BY <1>2, EncodeFacts
<1>4. tab.pk \in ColumnsOf(tab) /\ \A ix \in tab.indexes : ix.column \in ColumnsOf(tab)
  BY <1>1, PositionFacts DEF MetaOK
<1>5. /\ key \in Keys /\ key \notin DOMAIN seen
      /\ Admissible(meta, row, ColumnsOf(meta), Null)
      /\ rows' = [rows EXCEPT ![root] = Extended(@, key, EncodeRow(meta, row))]
      /\ told' = [told EXCEPT ![root] = Extended(@, key, row)]
      /\ entries' = [r \in DOMAIN entries |-> entries[r] \cup
           {<<row[ix.column], key>> : ix \in {ix \in tab.indexes : ix.root = r /\ row[ix.column] # Null}}]
      /\ catalog' = catalog /\ pages' = pages
  <2>1. key \in Values
    BY <1>2, <1>4
  <2> QED BY <1>1, <1>2, <2>1, NullFacts DEF Write, KeysOf
<1>6. /\ DOMAIN rows' = DOMAIN rows /\ DOMAIN told' = DOMAIN told
      /\ DOMAIN entries' = DOMAIN entries
      /\ \A r \in DOMAIN rows : r # root => rows'[r] = rows[r] /\ told'[r] = told[r]
      /\ rows'[root] = Extended(rows[root], key, EncodeRow(meta, row))
      /\ told'[root] = Extended(seen, key, row)
  BY <1>1, <1>5
<1>7. /\ DOMAIN rows'[root] = DOMAIN seen \cup {key} /\ DOMAIN told'[root] = DOMAIN seen \cup {key}
      /\ rows'[root][key] = EncodeRow(meta, row) /\ told'[root][key] = row
      /\ \A k \in DOMAIN seen : rows'[root][k] = rows[root][k] /\ told'[root][k] = seen[k]
      /\ told'[root] = [k \in DOMAIN rows'[root] |-> told'[root][k]]
  <2>1. /\ DOMAIN rows'[root] = DOMAIN rows[root] \cup {key}
        /\ rows'[root][key] = EncodeRow(meta, row)
        /\ \A k \in DOMAIN rows[root] : k # key => rows'[root][k] = rows[root][k]
    <3>1. rows'[root] = Extended(rows[root], key, EncodeRow(meta, row))
      BY <1>6
    <3> HIDE DEF root, seen, key
    <3> QED BY ONLY <3>1 DEF Extended
  <2>2. /\ DOMAIN told'[root] = DOMAIN seen \cup {key} /\ told'[root][key] = row
        /\ \A k \in DOMAIN seen : k # key => told'[root][k] = seen[k]
        /\ told'[root] = [k \in DOMAIN told'[root] |-> told'[root][k]]
    <3>1. told'[root] = Extended(seen, key, row)
      BY <1>6
    <3> HIDE DEF root, seen, key
    <3> QED BY ONLY <3>1 DEF Extended
  <2> QED BY <1>1, <1>5, <2>1, <2>2
<1>8. \A r \in DOMAIN entries :
        (\A ix \in tab.indexes : ix.root # r) => entries'[r] = entries[r]
  BY <1>5
<1>9. ASSUME NEW ix \in tab.indexes
      PROVE  /\ ix.root \in DOMAIN entries
             /\ entries'[ix.root] = entries[ix.root] \cup
                  (IF row[ix.column] # Null THEN {<<row[ix.column], key>>} ELSE {})
  <2>1. ix.root \in DOMAIN entries /\ \A iy \in tab.indexes : iy.root = ix.root => iy = ix
    BY DEF IInv, RootsOK
  <2>2. {iy \in tab.indexes : iy.root = ix.root /\ row[iy.column] # Null} =
          IF row[ix.column] # Null THEN {ix} ELSE {}
    BY <2>1
  <2>3. entries'[ix.root] = entries[ix.root] \cup
          {<<row[iy.column], key>> : iy \in {iy \in tab.indexes : iy.root = ix.root /\ row[iy.column] # Null}}
    BY <1>5, <2>1
  <2>4. {<<row[iy.column], key>> : iy \in (IF row[ix.column] # Null THEN {ix} ELSE {})} =
          IF row[ix.column] # Null THEN {<<row[ix.column], key>>} ELSE {}
    OBVIOUS
  <2> QED BY <2>1, <2>2, <2>3, <2>4
<1>10. StoreOK'
  <2>1. /\ pages' \in Nat /\ DOMAIN told' = DOMAIN rows'
        /\ DOMAIN rows' \cup DOMAIN entries' = 1..pages' /\ DOMAIN rows' \cap DOMAIN entries' = {}
    BY <1>5, <1>6 DEF IInv, StoreOK
  <2>2. ASSUME NEW r \in DOMAIN rows'
        PROVE  /\ told'[r] = [k \in DOMAIN rows'[r] |-> told'[r][k]]
               /\ \A k \in DOMAIN rows'[r] : k \in Keys /\ rows'[r][k] \in Seq(Values)
    <3>1. CASE r = root
      <4>1. \A k \in DOMAIN seen : rows[root][k] \in Seq(Values)
        BY <1>1, SeenFacts
      <4> QED BY <1>1, <1>3, <1>5, <1>7, <3>1, <4>1
    <3>2. CASE r # root
      BY <1>6, <3>2 DEF IInv, StoreOK
    <3> QED BY <3>1, <3>2
  <2>3. ASSUME NEW r \in DOMAIN entries'
        PROVE  entries'[r] \subseteq Keys \X Keys
    <3>1. entries[r] \subseteq Keys \X Keys
      BY <1>6, <2>3 DEF IInv, StoreOK
    <3>2. \A ix \in tab.indexes : row[ix.column] # Null => row[ix.column] \in Keys
      BY <1>2, <1>4, NullFacts
    <3> QED BY <1>5, <1>6, <3>1, <3>2
  <2> QED BY <2>1, <2>2, <2>3 DEF StoreOK
<1>11. TableOK(tab, rows', entries', told')
  <2>1. ASSUME NEW k \in DOMAIN rows'[root]
        PROVE  /\ Len(rows'[root][k]) <= Len(tab.cols)
               /\ told'[root][k] = DecodeRow(tab, rows'[root][k])
               /\ told'[root][k][tab.pk] = k
    <3>1. CASE k = key
      <4>1. Len(tab.cols) \in Nat
        BY <1>1, MetaFacts
      <4> QED BY <1>3, <1>7, <3>1, <4>1
    <3>2. CASE k \in DOMAIN seen
      BY <1>1, <1>7, <3>2 DEF TableOK
    <3> QED BY <1>7, <3>1, <3>2
  <2>2. ASSUME NEW ix \in tab.indexes
        PROVE  /\ entries'[ix.root] = EntriesFor(told'[root], ix.column)
               /\ ix.unique => Distinct(told'[root], ix.column)
    <3>1. /\ entries[ix.root] = EntriesFor(seen, ix.column)
          /\ ix.unique => Distinct(seen, ix.column)
      BY <1>1 DEF TableOK
    <3>2. EntriesFor(told'[root], ix.column) = EntriesFor(seen, ix.column) \cup
            (IF row[ix.column] # Null THEN {<<row[ix.column], key>>} ELSE {})
      BY <1>5, <1>7, RowFrame
    <3>3. ASSUME ix.unique, NEW k \in DOMAIN seen, row[ix.column] # Null
          PROVE  seen[k][ix.column] # row[ix.column]
      <4>1. SUFFICES ASSUME seen[k][ix.column] = row[ix.column] PROVE FALSE
        OBVIOUS
      <4>2. <<row[ix.column], k>> \in entries[ix.root]
        BY <3>1, <3>3, <4>1, EntriesFacts
      <4>3. \A e \in entries[ix.root] : e[1] = row[ix.column] => e[2] = Null
        BY <1>2, <1>4, <1>5, <3>3 DEF Admissible
      <4>4. k = Null
        BY <4>2, <4>3
      <4> QED BY <1>1, <4>4, NullFacts
    <3>4. ASSUME ix.unique PROVE Distinct(told'[root], ix.column)
      BY <1>5, <1>7, <3>1, <3>3, <3>4, RowFrame
    <3> QED BY <1>9, <3>1, <3>2, <3>4
  <2>3. ASSUME NEW ck \in tab.checks, NEW k \in DOMAIN told'[root]
        PROVE  told'[root][k][ck.column] # ck.forbids
    <3>1. CASE k = key
      BY <1>2, <1>5, <1>7, <3>1 DEF Admissible
    <3>2. CASE k \in DOMAIN seen
      BY <1>1, <1>7, <3>2 DEF TableOK
    <3> QED BY <1>7, <3>1, <3>2
  <2> QED BY <2>1, <2>2, <2>3 DEF TableOK
<1>12. ASSUME NEW m \in Tables
       PROVE  DOMAIN told[catalog[m].root] \subseteq DOMAIN told'[catalog[m].root]
  <2>1. CASE catalog[m].root = root
    BY <1>7, <2>1
  <2>2. CASE catalog[m].root # root
    BY <1>6, <2>2 DEF IInv, RootsOK
  <2> QED BY <2>1, <2>2
<1>13. ASSUME NEW m \in Tables, NEW i \in DOMAIN catalog[m].cols, catalog[m].cols[i].fk # NoFk,
              NEW k \in DOMAIN told'[catalog[m].root],
              told'[catalog[m].root][k][catalog[m].cols[i].name] # Null
       PROVE  told'[catalog[m].root][k][catalog[m].cols[i].name]
                \in DOMAIN told'[catalog[catalog[m].cols[i].fk.table].root]
  <2> DEFINE fk == catalog[m].cols[i].fk
             c  == catalog[m].cols[i].name
  <2>1. /\ fk.table \in Tables
        /\ \A v \in ValuesOf(told[catalog[m].root], c) : v # Null => v \in DOMAIN told[catalog[fk.table].root]
    BY <1>13 DEF IInv, RefsOK, Resolves
  <2>2. CASE k \in DOMAIN told[catalog[m].root] /\ told'[catalog[m].root][k] = told[catalog[m].root][k]
    <3>1. told[catalog[m].root][k][c] \in DOMAIN told[catalog[fk.table].root]
      BY <1>13, <2>1, <2>2 DEF ValuesOf
    <3> QED BY <1>12, <2>1, <2>2, <3>1
  <2>3. CASE m = n /\ k = key
    <3>1. Column(meta, c) = meta.cols[i] /\ c \in ColumnsOf(meta)
      <4>1. i \in DOMAIN meta.cols /\ meta.cols[i].name = c
        BY <1>2, <2>3
      <4> QED BY <1>2, <4>1, PositionFacts DEF Column
    <3>2. meta.cols[i].fk # NoFk /\ meta.cols[i].fk.table = fk.table
      BY <1>2, <1>13, <2>3
    <3>3. \/ row[c] \in KeysOf(catalog[fk.table])
          \/ catalog[fk.table].root = root /\ row[c] = key
      <4>1. row[c] # Null
        BY <1>7, <1>13, <2>3
      <4> QED BY <1>2, <1>5, <3>1, <3>2, <4>1 DEF Admissible, ParentExists
    <3>4. KeysOf(catalog[fk.table]) = DOMAIN told[catalog[fk.table].root]
      BY <2>1, SeenFacts
    <3> QED BY <1>7, <1>12, <2>1, <2>3, <3>3, <3>4
  <2>4. m # n => told'[catalog[m].root] = told[catalog[m].root]
    BY <1>6 DEF IInv, RootsOK
  <2>5. m = n => k = key \/ (k \in DOMAIN seen /\ told'[root][k] = seen[k])
    BY <1>7, <1>13
  <2> QED BY <1>13, <2>2, <2>3, <2>4, <2>5
<1>14. \A m \in Tables : \A i \in DOMAIN catalog[m].cols :
         catalog[m].cols[i].fk # NoFk =>
           \A v \in ValuesOf(told'[catalog[m].root], catalog[m].cols[i].name) :
             v # Null => v \in DOMAIN told'[catalog[catalog[m].cols[i].fk.table].root]
  BY <1>13 DEF ValuesOf
<1> HIDE DEF tab, root, seen, key
<1>15. /\ TableOK(catalog[n], rows', entries', told')
       /\ \A r \in DOMAIN rows : r # catalog[n].root => rows'[r] = rows[r] /\ told'[r] = told[r]
       /\ \A r \in DOMAIN entries :
            (\A ix \in catalog[n].indexes : ix.root # r) => entries'[r] = entries[r]
  BY <1>6, <1>8, <1>11 DEF tab, root
<1> QED BY <1>5, <1>6, <1>10, <1>14, <1>15, ChangeRows

LEMMA DeleteStep ==
  ASSUME IInv, NEW n \in Names, NEW k \in Keys, Delete(n, k)
  PROVE  IInv'
<1> DEFINE tab  == catalog[n]
           root == tab.root
           seen == told[root]
<1>1. n \in Tables
  BY DEF Delete, Tables
<1>2. /\ tab \in TableMetas /\ MetaOK(tab) /\ TableOK(tab, rows, entries, told)
      /\ root \in DOMAIN rows /\ root \in DOMAIN told /\ DOMAIN told = DOMAIN rows
      /\ KeysOf(tab) = DOMAIN seen /\ DOMAIN rows[root] = DOMAIN seen
  BY <1>1, SeenFacts DEF KeysOf, IInv, StoreOK
<1>3. /\ k \in DOMAIN seen /\ ~Referenced(n, k)
      /\ rows' = [rows EXCEPT ![root] = Restrict(@, DOMAIN @ \ {k})]
      /\ told' = [told EXCEPT ![root] = Restrict(@, DOMAIN @ \ {k})]
      /\ entries' = [r \in DOMAIN entries |-> IF \E ix \in tab.indexes : ix.root = r
                                              THEN {e \in entries[r] : e[2] # k} ELSE entries[r]]
      /\ catalog' = catalog /\ pages' = pages /\ held' = held
  BY <1>2 DEF Delete
<1>4. /\ DOMAIN rows' = DOMAIN rows /\ DOMAIN told' = DOMAIN told
      /\ DOMAIN entries' = DOMAIN entries
      /\ \A r \in DOMAIN rows : r # root => rows'[r] = rows[r] /\ told'[r] = told[r]
      /\ rows'[root] = Restrict(rows[root], DOMAIN rows[root] \ {k})
      /\ told'[root] = Restrict(seen, DOMAIN seen \ {k})
  BY <1>2, <1>3
<1>5. /\ DOMAIN rows'[root] = DOMAIN seen \ {k} /\ DOMAIN told'[root] = DOMAIN seen \ {k}
      /\ \A j \in DOMAIN told'[root] : rows'[root][j] = rows[root][j] /\ told'[root][j] = seen[j]
      /\ told'[root] = [j \in DOMAIN rows'[root] |-> told'[root][j]]
  BY <1>2, <1>4 DEF Restrict
<1>6. \A r \in DOMAIN entries :
        (\A ix \in tab.indexes : ix.root # r) => entries'[r] = entries[r]
  BY <1>3
<1>7. StoreOK'
  <2>1. /\ pages' \in Nat /\ DOMAIN told' = DOMAIN rows'
        /\ DOMAIN rows' \cup DOMAIN entries' = 1..pages' /\ DOMAIN rows' \cap DOMAIN entries' = {}
    BY <1>3, <1>4 DEF IInv, StoreOK
  <2>2. ASSUME NEW r \in DOMAIN rows'
        PROVE  /\ told'[r] = [j \in DOMAIN rows'[r] |-> told'[r][j]]
               /\ \A j \in DOMAIN rows'[r] : j \in Keys /\ rows'[r][j] \in Seq(Values)
    <3>1. CASE r = root
      BY <1>1, <1>5, <3>1, SeenFacts
    <3>2. CASE r # root
      BY <1>4, <3>2 DEF IInv, StoreOK
    <3> QED BY <3>1, <3>2
  <2>3. \A r \in DOMAIN entries' : entries'[r] \subseteq Keys \X Keys
    BY <1>3, <1>4 DEF IInv, StoreOK
  <2> QED BY <2>1, <2>2, <2>3 DEF StoreOK
<1>8. TableOK(tab, rows', entries', told')
  <2>1. \A j \in DOMAIN rows'[root] : /\ Len(rows'[root][j]) <= Len(tab.cols)
                                      /\ told'[root][j] = DecodeRow(tab, rows'[root][j])
                                      /\ told'[root][j][tab.pk] = j
    BY <1>2, <1>5 DEF TableOK
  <2>2. ASSUME NEW ix \in tab.indexes
        PROVE  /\ entries'[ix.root] = EntriesFor(told'[root], ix.column)
               /\ ix.unique => Distinct(told'[root], ix.column)
    <3>1. /\ entries[ix.root] = EntriesFor(seen, ix.column)
          /\ ix.unique => Distinct(seen, ix.column)
      BY <1>2 DEF TableOK
    <3>2. /\ EntriesFor(told'[root], ix.column) = {e \in EntriesFor(seen, ix.column) : e[2] # k}
          /\ Distinct(seen, ix.column) => Distinct(told'[root], ix.column)
      <4>1. /\ DOMAIN told'[root] = DOMAIN seen \ {k}
            /\ \A j \in DOMAIN told'[root] : told'[root][j] = seen[j]
        BY <1>5
      <4> HIDE DEF tab, root, seen
      <4> QED BY ONLY <4>1, RowGone
    <3>3. entries'[ix.root] = {e \in entries[ix.root] : e[2] # k}
      <4>1. ix.root \in DOMAIN entries
        BY <1>1 DEF IInv, RootsOK
      <4> QED BY <1>3, <4>1
    <3> QED BY <3>1, <3>2, <3>3
  <2>3. ASSUME NEW ck \in tab.checks, NEW j \in DOMAIN told'[root]
        PROVE  told'[root][j][ck.column] # ck.forbids
    <3>1. j \in DOMAIN seen /\ told'[root][j] = seen[j]
      BY <1>5
    <3> QED BY <1>1, <3>1, TableFacts
  <2> QED BY <2>1, <2>2, <2>3 DEF TableOK
<1>9. ASSUME NEW m \in Tables, NEW i \in DOMAIN catalog[m].cols, catalog[m].cols[i].fk # NoFk,
             NEW j \in DOMAIN told'[catalog[m].root],
             told'[catalog[m].root][j][catalog[m].cols[i].name] # Null
      PROVE  told'[catalog[m].root][j][catalog[m].cols[i].name]
               \in DOMAIN told'[catalog[catalog[m].cols[i].fk.table].root]
  <2> DEFINE fk == catalog[m].cols[i].fk
             c  == catalog[m].cols[i].name
  <2>1. /\ fk.table \in Tables
        /\ \A w \in ValuesOf(told[catalog[m].root], c) : w # Null => w \in DOMAIN told[catalog[fk.table].root]
    BY <1>9 DEF IInv, RefsOK, Resolves
  <2>2. /\ j \in DOMAIN told[catalog[m].root]
        /\ told'[catalog[m].root][j] = told[catalog[m].root][j]
    <3>1. CASE catalog[m].root = root
      BY <1>5, <1>9, <3>1
    <3>2. CASE catalog[m].root # root
      BY <1>4, <1>9, <3>2 DEF IInv, RootsOK
    <3> QED BY <3>1, <3>2
  <2>3. told[catalog[m].root][j][c] \in DOMAIN told[catalog[fk.table].root]
    BY <1>9, <2>1, <2>2 DEF ValuesOf
  <2>4. CASE fk.table = n
    <3>1. j \in KeysOf(catalog[m]) /\ Decoded(catalog[m], j) = told[catalog[m].root][j]
      BY <2>2, SeenFacts
    <3>2. told[catalog[m].root][j][c] # k
      BY <1>3, <2>4, <3>1 DEF Referenced
    <3> QED BY <1>5, <2>2, <2>3, <2>4, <3>2
  <2>5. CASE fk.table # n
    <3>1. told'[catalog[fk.table].root] = told[catalog[fk.table].root]
      BY <1>1, <1>4, <2>1, <2>5 DEF IInv, RootsOK
    <3> QED BY <2>2, <2>3, <3>1
  <2> QED BY <2>4, <2>5
<1>10. \A m \in Tables : \A i \in DOMAIN catalog[m].cols :
         catalog[m].cols[i].fk # NoFk =>
           \A v \in ValuesOf(told'[catalog[m].root], catalog[m].cols[i].name) :
             v # Null => v \in DOMAIN told'[catalog[catalog[m].cols[i].fk.table].root]
  BY <1>9 DEF ValuesOf
<1>11. HeldOK'
  BY <1>3, HeldFrame DEF IInv
<1> HIDE DEF tab, root, seen
<1>12. /\ TableOK(catalog[n], rows', entries', told')
       /\ \A r \in DOMAIN rows : r # catalog[n].root => rows'[r] = rows[r] /\ told'[r] = told[r]
       /\ \A r \in DOMAIN entries :
            (\A ix \in catalog[n].indexes : ix.root # r) => entries'[r] = entries[r]
  BY <1>4, <1>6, <1>8 DEF tab, root
<1> QED BY <1>1, <1>3, <1>4, <1>7, <1>10, <1>11, <1>12, ChangeRows

LEMMA UpdateStep ==
  ASSUME IInv, NEW n \in Names, NEW k \in Keys, NEW c \in Columns, NEW v \in Values,
         Update(n, k, c, v)
  PROVE  IInv'
<1> DEFINE tab  == catalog[n]
           root == tab.root
           seen == told[root]
           old  == seen[k]
           row  == [old EXCEPT ![c] = v]
<1>1. n \in Tables
  BY DEF Update, Tables
<1>2. /\ tab \in TableMetas /\ MetaOK(tab) /\ NamesDiffer(tab) /\ TableOK(tab, rows, entries, told)
      /\ root \in DOMAIN rows /\ root \in DOMAIN told /\ DOMAIN told = DOMAIN rows
      /\ KeysOf(tab) = DOMAIN seen /\ DOMAIN rows[root] = DOMAIN seen
      /\ \A j \in DOMAIN seen : /\ j \in Keys /\ rows[root][j] \in Seq(Values)
                                /\ Decoded(tab, j) = seen[j]
                                /\ seen[j] \in [ColumnsOf(tab) -> Values]
  BY <1>1, SeenFacts DEF KeysOf, MetaOK, IInv, StoreOK
<1>3. /\ k \in DOMAIN seen /\ c \in ColumnsOf(tab) /\ c # tab.pk
      /\ Admissible(tab, row, {c}, k)
      /\ rows' = [rows EXCEPT ![root][k] = EncodeRow(tab, row)]
      /\ told' = [told EXCEPT ![root][k] = row]
      /\ entries' = [r \in DOMAIN entries |->
                       IF \E ix \in tab.indexes : ix.root = r /\ ix.column = c
                       THEN (entries[r] \ {<<old[c], k>>}) \cup (IF v = Null THEN {} ELSE {<<v, k>>})
                       ELSE entries[r]]
      /\ catalog' = catalog /\ pages' = pages /\ held' = held
  <2>1. k \in DOMAIN seen /\ Decoded(tab, k) = old
    BY <1>2 DEF Update
  <2> QED BY <1>2, <2>1, PositionFacts DEF Update
<1>4. /\ row \in [ColumnsOf(tab) -> Values] /\ row[c] = v
      /\ \A d \in ColumnsOf(tab) : d # c => row[d] = old[d]
  BY <1>2, <1>3
<1>5. /\ EncodeRow(tab, row) \in Seq(Values)
      /\ Len(EncodeRow(tab, row)) = Len(tab.cols)
      /\ DecodeRow(tab, EncodeRow(tab, row)) = row
  BY <1>2, <1>4, EncodeFacts
<1>6. /\ DOMAIN rows' = DOMAIN rows /\ DOMAIN told' = DOMAIN told
      /\ DOMAIN entries' = DOMAIN entries
      /\ \A r \in DOMAIN rows : r # root => rows'[r] = rows[r] /\ told'[r] = told[r]
      /\ rows'[root] = [rows[root] EXCEPT ![k] = EncodeRow(tab, row)]
      /\ told'[root] = [seen EXCEPT ![k] = row]
  BY <1>2, <1>3
<1>7. /\ DOMAIN rows'[root] = DOMAIN seen /\ DOMAIN told'[root] = DOMAIN seen
      /\ rows'[root][k] = EncodeRow(tab, row) /\ told'[root][k] = row
      /\ \A j \in DOMAIN seen : j # k => rows'[root][j] = rows[root][j] /\ told'[root][j] = seen[j]
      /\ told'[root] = [j \in DOMAIN rows'[root] |-> told'[root][j]]
  BY <1>2, <1>3, <1>6
<1> HIDE DEF row
<1>8. tab.pk \in ColumnsOf(tab) /\ \A ix \in tab.indexes : ix.column \in ColumnsOf(tab)
  BY <1>2, PositionFacts DEF MetaOK
<1>9. \A r \in DOMAIN entries :
        (\A ix \in tab.indexes : ix.root # r) => entries'[r] = entries[r]
  BY <1>3
<1>10. StoreOK'
  <2>1. /\ pages' \in Nat /\ DOMAIN told' = DOMAIN rows'
        /\ DOMAIN rows' \cup DOMAIN entries' = 1..pages' /\ DOMAIN rows' \cap DOMAIN entries' = {}
    BY <1>3, <1>6 DEF IInv, StoreOK
  <2>2. ASSUME NEW r \in DOMAIN rows'
        PROVE  /\ told'[r] = [j \in DOMAIN rows'[r] |-> told'[r][j]]
               /\ \A j \in DOMAIN rows'[r] : j \in Keys /\ rows'[r][j] \in Seq(Values)
    <3>1. CASE r = root
      BY <1>2, <1>5, <1>7, <3>1
    <3>2. CASE r # root
      BY <1>6, <3>2 DEF IInv, StoreOK
    <3> QED BY <3>1, <3>2
  <2>3. \A r \in DOMAIN entries' : entries'[r] \subseteq Keys \X Keys
    <3>1. v # Null => <<v, k>> \in Keys \X Keys
      BY NullFacts
    <3> QED BY <1>3, <1>6, <3>1 DEF IInv, StoreOK
  <2> QED BY <2>1, <2>2, <2>3 DEF StoreOK
<1>11. TableOK(tab, rows', entries', told')
  <2>1. ASSUME NEW j \in DOMAIN rows'[root]
        PROVE  /\ Len(rows'[root][j]) <= Len(tab.cols)
               /\ told'[root][j] = DecodeRow(tab, rows'[root][j])
               /\ told'[root][j][tab.pk] = j
    <3>1. CASE j = k
      <4>1. Len(tab.cols) \in Nat
        BY <1>2, MetaFacts
      <4>2. row[tab.pk] = k
        BY <1>2, <1>3, <1>4, <1>8 DEF TableOK
      <4> QED BY <1>5, <1>7, <3>1, <4>1, <4>2
    <3>2. CASE j # k
      BY <1>2, <1>7, <3>2 DEF TableOK
    <3> QED BY <3>1, <3>2
  <2>2. ASSUME NEW ix \in tab.indexes
        PROVE  /\ entries'[ix.root] = EntriesFor(told'[root], ix.column)
               /\ ix.unique => Distinct(told'[root], ix.column)
    <3>1. /\ entries[ix.root] = EntriesFor(seen, ix.column)
          /\ ix.unique => Distinct(seen, ix.column)
      BY <1>2 DEF TableOK
    <3>2. ix.root \in DOMAIN entries /\ \A iy \in tab.indexes : iy.root = ix.root => iy = ix
      BY <1>1 DEF IInv, RootsOK
    <3>3. CASE ix.column = c
      <4>1. entries'[ix.root] =
              (entries[ix.root] \ {<<old[c], k>>}) \cup (IF v = Null THEN {} ELSE {<<v, k>>})
        BY <1>3, <3>2, <3>3
      <4>2. EntriesFor(told'[root], c) =
              (EntriesFor(seen, c) \ {<<old[c], k>>}) \cup (IF v = Null THEN {} ELSE {<<v, k>>})
        <5>1. EntriesFor(told'[root], c) =
                (EntriesFor(seen, c) \ {<<seen[k][c], k>>})
                \cup (IF told'[root][k][c] = Null THEN {} ELSE {<<told'[root][k][c], k>>})
          <6>1. /\ k \in DOMAIN seen /\ DOMAIN told'[root] = DOMAIN seen
                /\ \A j \in DOMAIN seen : j # k => told'[root][j] = seen[j]
            BY <1>3, <1>7
          <6> HIDE DEF root, seen
          <6> QED BY ONLY <6>1, RowChange
        <5> QED BY <1>4, <1>7, <5>1
      <4>3. ASSUME ix.unique, v # Null, NEW j \in DOMAIN seen, j # k
            PROVE  seen[j][c] # v
        <5>1. SUFFICES ASSUME seen[j][c] = v PROVE FALSE
          OBVIOUS
        <5>2. <<v, j>> \in entries[ix.root]
          BY <3>1, <3>3, <4>3, <5>1, EntriesFacts
        <5>3. \A e \in entries[ix.root] : e[1] = v => e[2] = k
          BY <1>3, <1>4, <3>3, <4>3 DEF Admissible
        <5>4. <<v, j>>[1] = v /\ <<v, j>>[2] = j
          OBVIOUS
        <5> QED BY <4>3, <5>2, <5>3, <5>4
      <4>4. ASSUME ix.unique PROVE Distinct(told'[root], c)
        <5>1. /\ k \in DOMAIN seen /\ DOMAIN told'[root] = DOMAIN seen
              /\ \A j \in DOMAIN seen : j # k => told'[root][j] = seen[j]
              /\ Distinct(seen, c)
              /\ told'[root][k][c] # Null => \A j \in DOMAIN seen : j # k => seen[j][c] # told'[root][k][c]
          BY <1>3, <1>4, <1>7, <3>1, <3>3, <4>3, <4>4
        <5> HIDE DEF root, seen
        <5> QED BY ONLY <5>1, RowChange
      <4> QED BY <3>1, <3>3, <4>1, <4>2, <4>4
    <3>4. CASE ix.column # c
      <4>1. entries'[ix.root] = entries[ix.root]
        BY <1>3, <3>2, <3>4
      <4>2. \A j \in DOMAIN seen : told'[root][j][ix.column] = seen[j][ix.column]
        BY <1>4, <1>7, <1>8, <3>4
      <4>3. /\ EntriesFor(told'[root], ix.column) = EntriesFor(seen, ix.column)
            /\ Distinct(told'[root], ix.column) <=> Distinct(seen, ix.column)
        <5>1. /\ DOMAIN told'[root] = DOMAIN seen
              /\ \A j \in DOMAIN told'[root] : told'[root][j][ix.column] = seen[j][ix.column]
          BY <1>7, <4>2
        <5> HIDE DEF root, seen
        <5> QED BY ONLY <5>1, ColumnFrame
      <4> QED BY <3>1, <4>1, <4>3
    <3> QED BY <3>3, <3>4
  <2>3. ASSUME NEW ck \in tab.checks, NEW j \in DOMAIN told'[root]
        PROVE  told'[root][j][ck.column] # ck.forbids
    <3>1. row[ck.column] # ck.forbids
      BY <1>3 DEF Admissible
    <3>2. \A i \in DOMAIN seen : seen[i][ck.column] # ck.forbids
      BY <1>1, TableFacts
    <3> QED BY <1>7, <3>1, <3>2
  <2> QED BY <2>1, <2>2, <2>3 DEF TableOK
<1>12. ASSUME NEW m \in Tables
       PROVE  DOMAIN told'[catalog[m].root] = DOMAIN told[catalog[m].root]
  <2>1. CASE catalog[m].root = root
    BY <1>7, <2>1
  <2>2. CASE catalog[m].root # root
    BY <1>6, <2>2 DEF IInv, RootsOK
  <2> QED BY <2>1, <2>2
<1>13. ASSUME NEW m \in Tables, NEW i \in DOMAIN catalog[m].cols, catalog[m].cols[i].fk # NoFk,
              NEW j \in DOMAIN told'[catalog[m].root],
              told'[catalog[m].root][j][catalog[m].cols[i].name] # Null
       PROVE  told'[catalog[m].root][j][catalog[m].cols[i].name]
                \in DOMAIN told'[catalog[catalog[m].cols[i].fk.table].root]
  <2> DEFINE fk == catalog[m].cols[i].fk
             d  == catalog[m].cols[i].name
  <2>1. /\ fk.table \in Tables
        /\ \A w \in ValuesOf(told[catalog[m].root], d) : w # Null => w \in DOMAIN told[catalog[fk.table].root]
    BY <1>13 DEF IInv, RefsOK, Resolves
  <2>2. j \in DOMAIN told[catalog[m].root]
    BY <1>12, <1>13
  <2>3. CASE told'[catalog[m].root][j][d] = told[catalog[m].root][j][d]
    <3>1. told[catalog[m].root][j][d] \in DOMAIN told[catalog[fk.table].root]
      BY <1>13, <2>1, <2>2, <2>3 DEF ValuesOf
    <3> QED BY <1>12, <2>1, <2>3, <3>1
  <2>4. CASE m = n /\ j = k /\ d = c
    <3>1. Column(tab, c) = tab.cols[i]
      BY <1>2, <2>4, PositionFacts DEF Column
    <3>2. row[c] # Null
      BY <1>7, <1>13, <2>4
    <3>3. \/ row[c] \in KeysOf(catalog[fk.table])
          \/ catalog[fk.table].root = root /\ row[c] = row[tab.pk]
      BY <1>3, <1>13, <2>4, <3>1, <3>2 DEF Admissible, ParentExists
    <3>4. row[tab.pk] = k
      BY <1>2, <1>3, <1>4, <1>8 DEF TableOK
    <3>5. KeysOf(catalog[fk.table]) = DOMAIN told[catalog[fk.table].root]
      BY <2>1, SeenFacts
    <3>6. row[c] \in DOMAIN told[catalog[fk.table].root]
      <4>1. CASE row[c] \in KeysOf(catalog[fk.table])
        BY <3>5, <4>1
      <4>2. CASE catalog[fk.table].root = root /\ row[c] = row[tab.pk]
        BY <1>3, <3>4, <4>2
      <4> QED BY <3>3, <4>1, <4>2
    <3>7. told'[catalog[m].root][j][d] = row[c]
      BY <1>7, <2>4
    <3> QED BY <1>12, <2>1, <3>6, <3>7
  <2>5. m # n => told'[catalog[m].root] = told[catalog[m].root]
    BY <1>1, <1>6 DEF IInv, RootsOK
  <2>6. m = n /\ j # k => told'[root][j] = seen[j]
    BY <1>7, <2>2
  <2>7. m = n /\ j = k /\ d # c => told'[root][j][d] = seen[j][d]
    <3>1. m = n => d \in ColumnsOf(tab)
      BY <1>2, PositionFacts
    <3> QED BY <1>4, <1>7, <3>1
  <2> QED BY <2>3, <2>4, <2>5, <2>6, <2>7
<1>14. \A m \in Tables : \A i \in DOMAIN catalog[m].cols :
         catalog[m].cols[i].fk # NoFk =>
           \A w \in ValuesOf(told'[catalog[m].root], catalog[m].cols[i].name) :
             w # Null => w \in DOMAIN told'[catalog[catalog[m].cols[i].fk.table].root]
  BY <1>13 DEF ValuesOf
<1>15. HeldOK'
  BY <1>3, HeldFrame DEF IInv
<1> HIDE DEF tab, root, seen, old
<1>16. /\ TableOK(catalog[n], rows', entries', told')
       /\ \A r \in DOMAIN rows : r # catalog[n].root => rows'[r] = rows[r] /\ told'[r] = told[r]
       /\ \A r \in DOMAIN entries :
            (\A ix \in catalog[n].indexes : ix.root # r) => entries'[r] = entries[r]
  BY <1>6, <1>9, <1>11 DEF tab, root
<1> QED BY <1>1, <1>3, <1>6, <1>10, <1>14, <1>15, <1>16, ChangeRows

\* A table loses constraints and indexes, or gains what its rows already keep.
LEMMA Redescribe ==
  ASSUME IInv, Supported, NEW n \in Tables, Unheld(n), NEW meta \in TableMetas,
         meta.root = catalog[n].root, meta.pk = catalog[n].pk,
         Len(meta.cols) = Len(catalog[n].cols),
         \A i \in DOMAIN catalog[n].cols :
           /\ meta.cols[i].name = catalog[n].cols[i].name
           /\ meta.cols[i].default = catalog[n].cols[i].default
           /\ meta.cols[i].fk = catalog[n].cols[i].fk \/ meta.cols[i].fk = NoFk,
         meta.indexes \subseteq catalog[n].indexes,
         \A ck \in meta.checks :
           /\ Has(catalog[n], ck.column)
           /\ \A k \in DOMAIN told[catalog[n].root] : told[catalog[n].root][k][ck.column] # ck.forbids,
         catalog' = [catalog EXCEPT ![n] = meta], UNCHANGED <<store, held, told>>
  PROVE  IInv'
<1> DEFINE tab  == catalog[n]
           seen == told[tab.root]
<1>1. /\ tab \in TableMetas /\ MetaOK(tab) /\ NamesDiffer(tab)
      /\ DOMAIN rows[tab.root] = DOMAIN seen
      /\ \A k \in DOMAIN seen : rows[tab.root][k] \in Seq(Values)
  BY SeenFacts DEF MetaOK, KeysOf
<1>2. DOMAIN meta.cols = DOMAIN tab.cols /\ DOMAIN tab.cols = 1..Len(meta.cols)
  BY <1>1, MetaFacts
<1>3. NamesDiffer(meta) /\ \A c : Has(meta, c) <=> Has(tab, c)
  BY <1>1, <1>2 DEF NamesDiffer, Has
<1>4. MetaOK(meta)
  BY <1>1, <1>3 DEF MetaOK
<1>5. rows' = rows /\ entries' = entries /\ pages' = pages /\ told' = told /\ held' = held
  BY DEF store
<1>6. \A stored \in Seq(Values) : DecodeRow(meta, stored) = DecodeRow(tab, stored)
  BY <1>1, <1>2, <1>3, DecodeSame
<1>7. TableOK(meta, rows', entries', told')
  <2>1. ASSUME NEW k \in DOMAIN rows[meta.root]
        PROVE  /\ Len(rows[meta.root][k]) <= Len(meta.cols)
               /\ told[meta.root][k] = DecodeRow(meta, rows[meta.root][k])
               /\ told[meta.root][k][meta.pk] = k
    <3>1. k \in DOMAIN seen /\ rows[tab.root][k] \in Seq(Values)
      BY <1>1
    <3>2. /\ Len(rows[tab.root][k]) <= Len(tab.cols)
          /\ seen[k] = DecodeRow(tab, rows[tab.root][k]) /\ seen[k][tab.pk] = k
      BY <3>1, TableFacts
    <3> QED BY <1>6, <3>1, <3>2
  <2>2. \A ix \in meta.indexes : /\ entries[ix.root] = EntriesFor(told[meta.root], ix.column)
                                 /\ ix.unique => Distinct(told[meta.root], ix.column)
    BY TableFacts
  <2> QED BY <1>5, <2>1, <2>2 DEF TableOK
<1>8. \A ix \in meta.indexes : /\ ix.root \in DOMAIN entries'
                               /\ ix.root \in DOMAIN entries => ix \in catalog[n].indexes
                               /\ \A iy \in meta.indexes : ix.root = iy.root => ix = iy
  BY <1>5, TableFacts
<1>9. HeldOK'
  <2>1. held.table # n
    BY DEF Unheld, Supported
  <2>2. held # Nobody => held.table \in Names
    BY DEF IInv, HeldOK, Tables
  <2>3. held # Nobody => catalog'[held.table] = catalog[held.table]
    BY <2>1, <2>2 DEF IInv, CatalogOK
  <2> QED BY <1>5, <2>3, HeldFrame DEF IInv
<1>10. StoreOK'
  BY SameStore DEF IInv
<1>11. \A i \in DOMAIN meta.cols : meta.cols[i].fk # NoFk =>
         Resolves(meta.cols[i].fk, ValuesOf(told'[meta.root], meta.cols[i].name))
  BY <1>2, <1>5 DEF IInv, RefsOK
<1> HIDE DEF tab, seen
<1> QED BY <1>4, <1>5, <1>7, <1>8, <1>9, <1>10, <1>11, ChangeTable

\* What the statements that only describe have in common.
LEMMA DescribeFacts ==
  ASSUME IInv, NEW n \in Names, IsTable(n)
  PROVE  LET tab == catalog[n] IN
         /\ n \in Tables /\ tab \in TableMetas
         /\ tab.indexes \in SUBSET IndexMetas /\ tab.checks \in SUBSET CheckMetas
         /\ tab.cols \in Seq(ColumnMetas)
         /\ \A ck \in tab.checks :
              /\ Has(tab, ck.column)
              /\ \A k \in DOMAIN told[tab.root] : told[tab.root][k][ck.column] # ck.forbids
<1>1. n \in Tables
  BY DEF Tables
<1>2. catalog[n] \in TableMetas /\ MetaOK(catalog[n])
  BY <1>1, SeenFacts
<1> QED BY <1>1, <1>2, TableFacts DEF TableMetas, MetaOK

LEMMA AddCheckStep ==
  ASSUME IInv, Supported, NEW n \in Names, NEW c \in Columns, NEW v \in Keys, AddCheck(n, c, v)
  PROVE  IInv'
<1> DEFINE ck   == [column |-> c, forbids |-> v]
           meta == [catalog[n] EXCEPT !.checks = @ \cup {ck}]
<1>1. /\ IsTable(n) /\ Unheld(n) /\ Has(catalog[n], c)
      /\ \A k \in KeysOf(catalog[n]) : Decoded(catalog[n], k)[c] # v
      /\ catalog' = [catalog EXCEPT ![n] = meta] /\ UNCHANGED <<store, held, told>>
  BY DEF AddCheck, Put, OnlyCatalog
<1>2. ck \in CheckMetas
  BY NullFacts DEF CheckMetas
<1>3. /\ meta \in TableMetas /\ meta.root = catalog[n].root /\ meta.pk = catalog[n].pk
      /\ meta.cols = catalog[n].cols /\ meta.indexes = catalog[n].indexes
      /\ meta.checks = catalog[n].checks \cup {ck}
  BY <1>1, <1>2, DescribeFacts DEF TableMetas
<1>4. \A k \in DOMAIN told[catalog[n].root] : told[catalog[n].root][k][c] # v
  <2>1. n \in Tables
    BY <1>1 DEF Tables
  <2>2. \A k \in DOMAIN told[catalog[n].root] :
          k \in KeysOf(catalog[n]) /\ Decoded(catalog[n], k) = told[catalog[n].root][k]
    BY <2>1, SeenFacts
  <2>3. \A k \in KeysOf(catalog[n]) : Decoded(catalog[n], k)[c] # v
    BY DEF AddCheck
  <2> QED BY <2>2, <2>3
<1>5. ck.column = c /\ ck.forbids = v
  OBVIOUS
<1> HIDE DEF meta, ck
<1>6. \A d \in meta.checks :
        /\ Has(catalog[n], d.column)
        /\ \A k \in DOMAIN told[catalog[n].root] : told[catalog[n].root][k][d.column] # d.forbids
  BY <1>1, <1>3, <1>4, <1>5, DescribeFacts
<1> QED BY <1>1, <1>3, <1>6, DescribeFacts, Redescribe

LEMMA DropConstraintStep ==
  ASSUME IInv, Supported, NEW n \in Names, DropConstraint(n)
  PROVE  IInv'
<1>1. ASSUME NEW ck, DropCheck(n, ck) PROVE IInv'
  <2> DEFINE meta == [catalog[n] EXCEPT !.checks = @ \ {ck}]
  <2>1. /\ IsTable(n) /\ Unheld(n)
        /\ catalog' = [catalog EXCEPT ![n] = meta] /\ UNCHANGED <<store, held, told>>
    BY <1>1 DEF DropCheck, Put, OnlyCatalog
  <2>2. /\ meta \in TableMetas /\ meta.root = catalog[n].root /\ meta.pk = catalog[n].pk
        /\ meta.cols = catalog[n].cols /\ meta.indexes = catalog[n].indexes
        /\ meta.checks \subseteq catalog[n].checks
    BY <2>1, DescribeFacts DEF TableMetas
  <2> HIDE DEF meta
  <2> QED BY <2>1, <2>2, DescribeFacts, Redescribe
<1>2. ASSUME NEW name, DropUnique(n, name) PROVE IInv'
  <2> DEFINE meta == [catalog[n] EXCEPT !.indexes = {ix \in @ : ix.name # name}]
  <2>1. /\ IsTable(n) /\ Unheld(n)
        /\ catalog' = [catalog EXCEPT ![n] = meta] /\ UNCHANGED <<store, held, told>>
    BY <1>2 DEF DropUnique, Put, OnlyCatalog
  <2>2. /\ meta \in TableMetas /\ meta.root = catalog[n].root /\ meta.pk = catalog[n].pk
        /\ meta.cols = catalog[n].cols /\ meta.indexes \subseteq catalog[n].indexes
        /\ meta.checks = catalog[n].checks
    BY <2>1, DescribeFacts DEF TableMetas
  <2> HIDE DEF meta
  <2> QED BY <2>1, <2>2, DescribeFacts, Redescribe
<1>3. ASSUME NEW c, DropForeignKey(n, c) PROVE IInv'
  <2> DEFINE at   == Position(catalog[n], c)
             meta == [catalog[n] EXCEPT !.cols[at].fk = NoFk]
  <2>1. /\ IsTable(n) /\ Unheld(n) /\ Has(catalog[n], c)
        /\ catalog' = [catalog EXCEPT ![n] = meta] /\ UNCHANGED <<store, held, told>>
    BY <1>3 DEF DropForeignKey, Put, OnlyCatalog
  <2>2. at \in DOMAIN catalog[n].cols
    BY <2>1 DEF Has, Position
  <2> HIDE DEF at
  <2>3. /\ meta.root = catalog[n].root /\ meta.pk = catalog[n].pk /\ meta.kind = catalog[n].kind
        /\ meta.cols = [catalog[n].cols EXCEPT ![at] = [@ EXCEPT !.fk = NoFk]]
        /\ meta.indexes = catalog[n].indexes /\ meta.checks = catalog[n].checks
    BY <2>1, DescribeFacts DEF TableMetas
  <2>4. [catalog[n].cols[at] EXCEPT !.fk = NoFk] \in ColumnMetas
    <3>1. catalog[n].cols[at] \in ColumnMetas /\ NoFk \in ForeignKeys
      BY <2>1, <2>2, DescribeFacts DEF ForeignKeys
    <3> QED BY <3>1 DEF ColumnMetas
  <2>5. meta.cols \in Seq(ColumnMetas) /\ Len(meta.cols) = Len(catalog[n].cols)
    BY <2>1, <2>2, <2>3, <2>4, DescribeFacts
  <2>6. \A i \in DOMAIN catalog[n].cols :
          /\ meta.cols[i].name = catalog[n].cols[i].name
          /\ meta.cols[i].default = catalog[n].cols[i].default
          /\ meta.cols[i].fk = catalog[n].cols[i].fk \/ meta.cols[i].fk = NoFk
    <3>1. catalog[n].cols[at] \in ColumnMetas
      BY <2>1, <2>2, DescribeFacts
    <3>2. /\ [catalog[n].cols[at] EXCEPT !.fk = NoFk].name = catalog[n].cols[at].name
          /\ [catalog[n].cols[at] EXCEPT !.fk = NoFk].default = catalog[n].cols[at].default
          /\ [catalog[n].cols[at] EXCEPT !.fk = NoFk].fk = NoFk
      BY <3>1 DEF ColumnMetas
    <3>3. /\ meta.cols[at] = [catalog[n].cols[at] EXCEPT !.fk = NoFk]
          /\ \A i \in DOMAIN catalog[n].cols : i # at => meta.cols[i] = catalog[n].cols[i]
      BY <2>2, <2>3
    <3> QED BY <3>2, <3>3
  <2>7. meta \in TableMetas
    <3>1. catalog[n] \in TableMetas
      BY <2>1, DescribeFacts
    <3>2. meta = [catalog[n] EXCEPT !.cols = meta.cols]
      BY <3>1 DEF TableMetas
    <3> HIDE DEF meta
    <3> QED BY <2>5, <3>1, <3>2 DEF TableMetas
  <2> HIDE DEF meta
  <2> QED BY <2>1, <2>3, <2>5, <2>6, <2>7, DescribeFacts, Redescribe
<1> QED BY <1>1, <1>2, <1>3 DEF DropConstraint

LEMMA DropIndexStep ==
  ASSUME IInv, Supported, NEW name, DropIndex(name)
  PROVE  IInv'
<1>1. PICK n \in Tables :
        /\ Unheld(n)
        /\ catalog' = [catalog EXCEPT ![n] = [catalog[n] EXCEPT !.indexes = {ix \in @ : ix.name # name}]]
        /\ UNCHANGED <<store, held, told>>
  BY DEF DropIndex, Put, OnlyCatalog
<1> DEFINE meta == [catalog[n] EXCEPT !.indexes = {ix \in @ : ix.name # name}]
<1>2. n \in Names /\ IsTable(n)
  BY DEF Tables
<1>3. /\ meta \in TableMetas /\ meta.root = catalog[n].root /\ meta.pk = catalog[n].pk
      /\ meta.cols = catalog[n].cols /\ meta.indexes \subseteq catalog[n].indexes
      /\ meta.checks = catalog[n].checks
  BY <1>2, DescribeFacts DEF TableMetas
<1>4. catalog' = [catalog EXCEPT ![n] = meta]
  BY <1>1
<1> HIDE DEF meta
<1>5. Unheld(n) /\ UNCHANGED <<store, held, told>>
  BY <1>1
<1> QED BY <1>2, <1>3, <1>4, <1>5, DescribeFacts, Redescribe

\* An index gets the next page.
LEMMA NewIndexPage ==
  ASSUME StoreOK, NEW E \in SUBSET (Keys \X Keys), rows' = rows, DOMAIN told' = DOMAIN told,
         \A r \in DOMAIN rows : told'[r] = [k \in DOMAIN rows[r] |-> told'[r][k]],
         pages' = pages + 1, entries' = Extended(entries, pages + 1, E)
  PROVE  /\ StoreOK' /\ pages + 1 \in Nat /\ pages + 1 \notin DOMAIN entries
         /\ DOMAIN entries' = DOMAIN entries \cup {pages + 1}
         /\ entries'[pages + 1] = E
         /\ \A r \in DOMAIN entries : entries'[r] = entries[r]
<1>1. /\ DOMAIN entries' = DOMAIN entries \cup {pages + 1} /\ entries'[pages + 1] = E
      /\ \A r \in DOMAIN entries : r # pages + 1 => entries'[r] = entries[r]
  BY DEF Extended
<1>2. /\ pages \in Nat /\ DOMAIN rows \cup DOMAIN entries = 1..pages
      /\ DOMAIN rows \cap DOMAIN entries = {} /\ DOMAIN told = DOMAIN rows
      /\ \A r \in DOMAIN rows : \A k \in DOMAIN rows[r] : k \in Keys /\ rows[r][k] \in Seq(Values)
      /\ \A r \in DOMAIN entries : entries[r] \subseteq Keys \X Keys
  BY DEF StoreOK
<1>3. pages + 1 \in Nat /\ pages + 1 \notin 1..pages /\ 1..(pages + 1) = (1..pages) \cup {pages + 1}
  BY <1>2
<1>4. \A r \in DOMAIN entries : entries'[r] = entries[r]
  BY <1>1, <1>2, <1>3
<1>5. /\ DOMAIN rows' \cup DOMAIN entries' = 1..pages' /\ DOMAIN rows' \cap DOMAIN entries' = {}
  BY <1>1, <1>2, <1>3
<1>6. \A r \in DOMAIN entries' : entries'[r] \subseteq Keys \X Keys
  BY <1>1, <1>2, <1>4
<1> QED BY <1>1, <1>2, <1>3, <1>4, <1>5, <1>6 DEF StoreOK

LEMMA EntriesType ==
  ASSUME NEW seen, NEW c, \A k \in DOMAIN seen : k \in Keys /\ seen[k][c] \in Values
  PROVE  EntriesFor(seen, c) \in SUBSET (Keys \X Keys)
BY NullFacts DEF EntriesFor

LEMMA HeldElsewhere ==
  ASSUME IInv, Supported, NEW n, Unheld(n), held' = held,
         \A m \in Names \ {n} : catalog'[m] = catalog[m]
  PROVE  HeldOK'
<1>1. held.table # n
  BY DEF Unheld, Supported
<1>2. held # Nobody => held.table \in Names
  BY DEF IInv, HeldOK, Tables
<1>3. held # Nobody => catalog'[held.table] = catalog[held.table]
  BY <1>1, <1>2
<1> QED BY <1>3, HeldFrame DEF IInv

LEMMA CreateIndexStep ==
  ASSUME IInv, Supported, NEW n \in Names, NEW name \in IndexNames, NEW c \in Columns,
         NEW u \in BOOLEAN, CreateIndex(n, name, c, u)
  PROVE  IInv'
<1> DEFINE tab  == catalog[n]
           seen == told[tab.root]
           ix   == [name |-> name, column |-> c, unique |-> u, root |-> pages + 1]
           meta == [tab EXCEPT !.indexes = @ \cup {ix}]
<1>1. /\ IsTable(n) /\ Unheld(n) /\ Has(tab, c)
      /\ u => ~Duplicated(tab, Seen(tab), c)
      /\ pages' = pages + 1
      /\ entries' = Extended(entries, pages + 1, EntriesFor(Seen(tab), c))
      /\ catalog' = [catalog EXCEPT ![n] = meta]
      /\ rows' = rows /\ held' = held /\ told' = told
  BY DEF CreateIndex, Put
<1>2. /\ n \in Tables /\ tab \in TableMetas /\ MetaOK(tab) /\ NamesDiffer(tab)
      /\ KeysOf(tab) = DOMAIN seen /\ Seen(tab) = seen
      /\ tab.root \in DOMAIN rows /\ DOMAIN rows[tab.root] = DOMAIN seen
      /\ \A k \in DOMAIN seen : /\ k \in Keys /\ rows[tab.root][k] \in Seq(Values)
                                /\ seen[k] \in [ColumnsOf(tab) -> Values]
  BY <1>1, SeenFacts DEF Tables, MetaOK, KeysOf
<1>3. c \in ColumnsOf(tab)
  BY <1>1 DEF Has, ColumnsOf
<1>4. EntriesFor(seen, c) \in SUBSET (Keys \X Keys)
  BY <1>2, <1>3, EntriesType
<1>5. /\ StoreOK' /\ pages + 1 \in Nat /\ pages + 1 \notin DOMAIN entries
      /\ DOMAIN entries' = DOMAIN entries \cup {pages + 1}
      /\ entries'[pages + 1] = EntriesFor(seen, c)
      /\ \A r \in DOMAIN entries : entries'[r] = entries[r]
  <2>1. /\ StoreOK /\ DOMAIN told' = DOMAIN told
        /\ \A r \in DOMAIN rows : told'[r] = [k \in DOMAIN rows[r] |-> told'[r][k]]
    BY <1>1 DEF IInv, StoreOK
  <2>2. entries' = Extended(entries, pages + 1, EntriesFor(seen, c))
    BY <1>1, <1>2
  <2> QED BY <1>1, <1>4, <2>1, <2>2, NewIndexPage
<1>6. ix \in IndexMetas /\ ix.root = pages + 1 /\ ix.column = c /\ ix.unique = u
  BY <1>5 DEF IndexMetas
<1>7. /\ meta \in TableMetas /\ meta.root = tab.root /\ meta.pk = tab.pk
      /\ meta.cols = tab.cols /\ meta.checks = tab.checks /\ meta.indexes = tab.indexes \cup {ix}
  BY <1>2, <1>6 DEF TableMetas
<1> HIDE DEF ix, meta
<1>8. MetaOK(meta)
  <2>1. NamesDiffer(meta) /\ \A d : Has(meta, d) <=> Has(tab, d)
    BY <1>2, <1>7 DEF NamesDiffer, Has
  <2> QED BY <1>1, <1>2, <1>6, <1>7, <2>1 DEF MetaOK
<1>9. \A jx \in meta.indexes : /\ jx.root \in DOMAIN entries'
                               /\ jx.root \in DOMAIN entries => jx \in tab.indexes
                               /\ \A iy \in meta.indexes : jx.root = iy.root => jx = iy
  <2>1. \A jx \in tab.indexes : /\ jx.root \in DOMAIN entries
                                /\ \A iy \in tab.indexes : iy.root = jx.root => iy = jx
    BY <1>2, TableFacts
  <2> QED BY <1>5, <1>6, <1>7, <2>1
<1>10. TableOK(meta, rows', entries', told')
  <2>1. \A stored \in Seq(Values) : DecodeRow(meta, stored) = DecodeRow(tab, stored)
    <3>1. NamesDiffer(meta)
      BY <1>8 DEF MetaOK
    <3> QED BY <1>2, <1>7, <3>1, DecodeSame
  <2>2. ASSUME NEW k \in DOMAIN rows[meta.root]
        PROVE  /\ Len(rows[meta.root][k]) <= Len(meta.cols)
               /\ told[meta.root][k] = DecodeRow(meta, rows[meta.root][k])
               /\ told[meta.root][k][meta.pk] = k
    <3>1. k \in DOMAIN seen /\ rows[tab.root][k] \in Seq(Values)
      BY <1>2, <1>7
    <3>2. /\ Len(rows[tab.root][k]) <= Len(tab.cols)
          /\ seen[k] = DecodeRow(tab, rows[tab.root][k]) /\ seen[k][tab.pk] = k
      BY <1>2, <3>1, TableFacts
    <3> QED BY <1>7, <2>1, <3>1, <3>2
  <2>3. ASSUME NEW jx \in meta.indexes
        PROVE  /\ entries'[jx.root] = EntriesFor(seen, jx.column)
               /\ jx.unique => Distinct(seen, jx.column)
    <3>1. CASE jx \in tab.indexes
      <4>1. /\ jx.root \in DOMAIN entries /\ entries[jx.root] = EntriesFor(seen, jx.column)
            /\ jx.unique => Distinct(seen, jx.column)
        BY <1>2, <3>1, TableFacts
      <4> QED BY <1>5, <4>1
    <3>2. CASE jx = ix
      <4>1. u => Distinct(seen, c)
        BY <1>1, <1>2 DEF Duplicated, Distinct
      <4> QED BY <1>5, <1>6, <3>2, <4>1
    <3> QED BY <1>7, <3>1, <3>2
  <2>4. \A ck \in meta.checks : \A k \in DOMAIN seen : seen[k][ck.column] # ck.forbids
    BY <1>2, <1>7, TableFacts
  <2> QED BY <1>1, <1>7, <2>2, <2>3, <2>4 DEF TableOK
<1>11. HeldOK'
  <2>1. \A m \in Names \ {n} : catalog'[m] = catalog[m]
    BY <1>1 DEF IInv, CatalogOK
  <2> QED BY <1>1, <2>1, HeldElsewhere
<1>12. \A i \in DOMAIN meta.cols : meta.cols[i].fk # NoFk =>
         Resolves(meta.cols[i].fk, ValuesOf(told'[meta.root], meta.cols[i].name))
  BY <1>1, <1>2, <1>7 DEF IInv, RefsOK
<1>13. DOMAIN entries \subseteq DOMAIN entries'
  BY <1>5
<1> HIDE DEF tab, seen
<1>14. /\ meta.root = catalog[n].root /\ meta.pk = catalog[n].pk
       /\ \A jx \in meta.indexes : /\ jx.root \in DOMAIN entries'
                                   /\ jx.root \in DOMAIN entries => jx \in catalog[n].indexes
                                   /\ \A iy \in meta.indexes : jx.root = iy.root => jx = iy
  BY <1>7, <1>9 DEF tab
<1> QED BY <1>1, <1>2, <1>5, <1>7, <1>8, <1>10, <1>11, <1>12, <1>13, <1>14, ChangeTable

\* A column that the stored rows do not have yet.
LEMMA AppendFacts ==
  ASSUME NEW tab \in TableMetas, NamesDiffer(tab), NEW d \in Definitions, ~Has(tab, d.name),
         NEW meta \in TableMetas, meta.cols = Append(tab.cols, ColumnOf(d))
  PROVE  /\ Len(meta.cols) = Len(tab.cols) + 1 /\ NamesDiffer(meta)
         /\ \A i \in DOMAIN tab.cols : i \in DOMAIN meta.cols /\ meta.cols[i] = tab.cols[i]
         /\ meta.cols[Len(meta.cols)] = ColumnOf(d)
         /\ ColumnsOf(meta) = ColumnsOf(tab) \cup {d.name}
         /\ \A c : Has(meta, c) <=> Has(tab, c) \/ c = d.name
         /\ \A stored \in Seq(Values) : Len(stored) <= Len(tab.cols) =>
              DecodeRow(meta, stored) = Extended(DecodeRow(tab, stored), d.name, d.default)
<1>1. /\ tab.cols \in Seq(ColumnMetas) /\ Len(tab.cols) \in Nat
      /\ DOMAIN tab.cols = 1..Len(tab.cols)
  BY MetaFacts
<1>2. ColumnOf(d).name = d.name /\ ColumnOf(d).default = d.default
  BY DEF ColumnOf
<1>3. /\ Len(meta.cols) = Len(tab.cols) + 1 /\ DOMAIN meta.cols = 1..(Len(tab.cols) + 1)
      /\ \A i \in 1..Len(tab.cols) : meta.cols[i] = tab.cols[i]
      /\ meta.cols[Len(tab.cols) + 1] = ColumnOf(d)
  BY <1>1
<1>4. \A i \in DOMAIN tab.cols : tab.cols[i].name # d.name
  BY DEF Has
<1>5. NamesDiffer(meta)
  BY <1>1, <1>2, <1>3, <1>4 DEF NamesDiffer
<1>6. /\ ColumnsOf(meta) = ColumnsOf(tab) \cup {d.name}
      /\ \A c : Has(meta, c) <=> Has(tab, c) \/ c = d.name
  BY <1>1, <1>2, <1>3 DEF ColumnsOf, Has
<1>7. ASSUME NEW stored \in Seq(Values), Len(stored) <= Len(tab.cols)
      PROVE  DecodeRow(meta, stored) = Extended(DecodeRow(tab, stored), d.name, d.default)
  <2> DEFINE new == Extended(DecodeRow(tab, stored), d.name, d.default)
  <2>1. DecodeRow(meta, stored) \in [ColumnsOf(meta) -> Values]
    BY <1>5, DecodeFacts
  <2>2. DecodeRow(tab, stored) \in [ColumnsOf(tab) -> Values]
    BY DecodeFacts
  <2>3. new = [c \in ColumnsOf(meta) |-> new[c]]
    BY <1>6, <2>2 DEF Extended
  <2>4. ASSUME NEW c \in ColumnsOf(meta)
        PROVE  DecodeRow(meta, stored)[c] = new[c]
    <3>1. PICK i \in DOMAIN meta.cols : meta.cols[i].name = c
      BY DEF ColumnsOf
    <3>2. DecodeRow(meta, stored)[c] = IF i <= Len(stored) THEN stored[i] ELSE meta.cols[i].default
      BY <1>5, <3>1, DecodeFacts
    <3>3. CASE i = Len(tab.cols) + 1
      <4>1. c = d.name /\ meta.cols[i].default = d.default /\ ~(i <= Len(stored))
        BY <1>1, <1>2, <1>3, <1>7, <3>1, <3>3
      <4>2. new[d.name] = d.default
        BY DEF Extended
      <4> QED BY <3>2, <4>1, <4>2
    <3>4. CASE i \in DOMAIN tab.cols
      <4>1. c = tab.cols[i].name /\ meta.cols[i].default = tab.cols[i].default
        BY <1>1, <1>3, <3>1, <3>4
      <4>2. DecodeRow(tab, stored)[c] = IF i <= Len(stored) THEN stored[i] ELSE tab.cols[i].default
        BY <3>4, <4>1, DecodeFacts
      <4>3. c \in ColumnsOf(tab) /\ c # d.name
        BY <1>4, <3>4, <4>1 DEF ColumnsOf
      <4>4. new[c] = DecodeRow(tab, stored)[c]
        BY <2>2, <4>3 DEF Extended
      <4> QED BY <3>2, <4>1, <4>2, <4>4
    <3> QED BY <1>1, <1>3, <3>1, <3>3, <3>4
  <2> HIDE DEF new
  <2>5. DecodeRow(meta, stored) = new
    BY <2>1, <2>3, <2>4
  <2> QED BY <2>5 DEF new
<1> QED BY <1>1, <1>3, <1>5, <1>6, <1>7

LEMMA AddColumnStep ==
  ASSUME IInv, Supported, NEW n \in Names, NEW d \in Definitions, AddColumn(n, d)
  PROVE  IInv'
<1> DEFINE tab  == catalog[n]
           root == tab.root
           seen == told[root]
           now  == told'[root]
           cols == Append(tab.cols, ColumnOf(d))
           with == [tab EXCEPT !.cols = cols]
           ix   == [name |-> UniqueName(n, d.name), column |-> d.name, unique |-> TRUE, root |-> pages + 1]
           meta == IF d.unique THEN [with EXCEPT !.indexes = @ \cup {ix}] ELSE with
<1>1. /\ n \in Tables /\ Unheld(n) /\ ~Has(tab, d.name)
      /\ FkTargetsExist(n, with)
      /\ d.unique /\ (\E j, k \in KeysOf(with) : j # k) => d.default = Null
      /\ DefaultHolds(with, d)
      /\ rows' = rows /\ held' = held
  BY DEF AddColumn, Tables, Supported
<1>2. /\ tab \in TableMetas /\ MetaOK(tab) /\ NamesDiffer(tab)
      /\ KeysOf(tab) = DOMAIN seen /\ seen = [k \in DOMAIN seen |-> seen[k]]
      /\ root \in DOMAIN rows /\ root \in DOMAIN told /\ DOMAIN rows[root] = DOMAIN seen
      /\ DOMAIN told = DOMAIN rows
      /\ \A k \in DOMAIN seen : /\ k \in Keys /\ rows[root][k] \in Seq(Values)
                                /\ seen[k] \in [ColumnsOf(tab) -> Values]
  BY <1>1, SeenFacts DEF MetaOK, KeysOf, IInv, StoreOK
<1>3. /\ d.name \in Columns /\ d.default \in Values /\ d.fk \in ForeignKeys
      /\ ColumnOf(d) \in ColumnMetas
      /\ ColumnOf(d).name = d.name /\ ColumnOf(d).default = d.default /\ ColumnOf(d).fk = d.fk
  BY DEF Definitions, ColumnOf, ColumnMetas
<1>4. cols \in Seq(ColumnMetas)
  BY <1>2, <1>3, MetaFacts
<1>5. /\ with \in TableMetas /\ with.root = root /\ with.pk = tab.pk /\ with.cols = cols
      /\ with.checks = tab.checks /\ with.indexes = tab.indexes
  BY <1>2, <1>4 DEF TableMetas
<1>6. /\ DOMAIN told' = DOMAIN told /\ \A r \in DOMAIN told : r # root => told'[r] = told[r]
      /\ now = [k \in DOMAIN seen |-> Extended(seen[k], d.name, d.default)]
  <2>1. told' = [told EXCEPT ![with.root] = [k \in DOMAIN @ |-> Extended(@[k], d.name, d.default)]]
    BY DEF AddColumn
  <2> HIDE DEF with
  <2> QED BY <1>2, <1>5, <2>1
<1>7. /\ DOMAIN now = DOMAIN seen
      /\ \A k \in DOMAIN seen : now[k] = Extended(seen[k], d.name, d.default)
      /\ \A r \in DOMAIN rows : told'[r] = [k \in DOMAIN rows[r] |-> told'[r][k]]
  <2>1. \A r \in DOMAIN rows : told[r] = [k \in DOMAIN rows[r] |-> told[r][k]]
    BY DEF IInv, StoreOK
  <2>2. ASSUME NEW r \in DOMAIN rows
        PROVE  told'[r] = [k \in DOMAIN rows[r] |-> told'[r][k]]
    <3>1. CASE r = root
      BY <1>2, <1>6, <3>1
    <3>2. CASE r # root
      <4>1. told'[r] = told[r]
        BY <1>2, <1>6, <3>2
      <4> QED BY <2>1, <4>1
    <3> QED BY <3>1, <3>2
  <2> QED BY <1>6, <2>2
<1>8. \A k \in DOMAIN seen : now[k][d.name] = d.default
  <2>1. ASSUME NEW k \in DOMAIN seen PROVE Extended(seen[k], d.name, d.default)[d.name] = d.default
    BY DEF Extended
  <2> QED BY <1>7, <2>1
<1>9. \A k \in DOMAIN seen : \A c \in ColumnsOf(tab) : now[k][c] = seen[k][c]
  <2>1. d.name \notin ColumnsOf(tab)
    BY <1>1 DEF Has, ColumnsOf
  <2>2. ASSUME NEW k \in DOMAIN seen, NEW c \in ColumnsOf(tab)
        PROVE  Extended(seen[k], d.name, d.default)[c] = seen[k][c]
    BY <1>2, <2>1 DEF Extended
  <2> QED BY <1>7, <2>2
<1> HIDE DEF now
<1>10. StoreOK /\ pages \in Nat
  BY DEF IInv, StoreOK
<1>11. EntriesFor(now, d.name) \in SUBSET (Keys \X Keys)
  BY <1>2, <1>3, <1>7, <1>8, EntriesType
<1>12. d.unique =>
         /\ pages' = pages + 1
         /\ entries' = Extended(entries, pages + 1, EntriesFor(now, d.name))
         /\ catalog' = [catalog EXCEPT ![n] = meta]
  <2>1. ASSUME d.unique
        PROVE  /\ pages' = pages + 1
               /\ entries' = Extended(entries, pages + 1, EntriesFor(Seen(with), d.name))
               /\ catalog' = [catalog EXCEPT ![n] = meta]
    BY <2>1 DEF AddColumn, Put
  <2>2. Seen(with) = now
    <3>1. \A k \in DOMAIN seen : DecodeRow(with, rows[root][k]) = now[k]
      <4>1. ASSUME NEW k \in DOMAIN seen
            PROVE  DecodeRow(with, rows[root][k]) = Extended(DecodeRow(tab, rows[root][k]), d.name, d.default)
        <5>1. Len(rows[root][k]) <= Len(tab.cols) /\ rows[root][k] \in Seq(Values)
          BY <1>1, <1>2, TableFacts
        <5> HIDE DEF with
        <5> QED BY <1>1, <1>2, <1>5, <5>1, AppendFacts
      <4>2. \A k \in DOMAIN seen : seen[k] = DecodeRow(tab, rows[root][k])
        BY <1>1, TableFacts
      <4> QED BY <1>7, <4>1, <4>2
    <3> HIDE DEF with
    <3>2. now = [k \in DOMAIN seen |-> now[k]]
      BY <1>6 DEF now
    <3>3. \A k \in DOMAIN seen : Decoded(with, k) = now[k]
      BY <1>5, <3>1 DEF Decoded
    <3>4. KeysOf(with) = DOMAIN seen
      BY <1>2, <1>5 DEF KeysOf
    <3> QED BY <3>2, <3>3, <3>4 DEF Seen
  <2> QED BY <2>1, <2>2
<1>13. ~d.unique => pages' = pages /\ entries' = entries /\ catalog' = [catalog EXCEPT ![n] = meta]
  BY DEF AddColumn, Put
<1>14. /\ StoreOK' /\ \A r \in DOMAIN entries : r \in DOMAIN entries' /\ entries'[r] = entries[r]
       /\ d.unique => /\ pages + 1 \in Nat /\ pages + 1 \notin DOMAIN entries
                      /\ pages + 1 \in DOMAIN entries'
                      /\ entries'[pages + 1] = EntriesFor(now, d.name)
  <2>1. CASE d.unique
    <3>1. /\ pages' = pages + 1 /\ entries' = Extended(entries, pages + 1, EntriesFor(now, d.name))
      BY <1>12, <2>1
    <3>2. /\ StoreOK' /\ pages + 1 \in Nat /\ pages + 1 \notin DOMAIN entries
          /\ DOMAIN entries' = DOMAIN entries \cup {pages + 1}
          /\ entries'[pages + 1] = EntriesFor(now, d.name)
          /\ \A r \in DOMAIN entries : entries'[r] = entries[r]
      BY <1>1, <1>6, <1>7, <1>10, <1>11, <3>1, NewIndexPage
    <3> QED BY <3>2
  <2>2. CASE ~d.unique
    <3>1. pages' = pages /\ entries' = entries
      BY <1>13, <2>2
    <3>2. StoreOK'
      BY <1>1, <1>6, <1>7, <1>10, <3>1 DEF StoreOK
    <3> QED BY <2>2, <3>1, <3>2
  <2> QED BY <2>1, <2>2
<1>15. d.unique => ix \in IndexMetas
  <2>1. UniqueName(n, d.name) \in {"uq"} \X Names \X Columns
    BY <1>3 DEF UniqueName
  <2> QED BY <1>3, <1>14, <2>1 DEF IndexMetas
<1>16. ix.root = pages + 1 /\ ix.column = d.name /\ ix.unique = TRUE
  OBVIOUS
<1>17. /\ meta \in TableMetas /\ meta.root = root /\ meta.pk = tab.pk /\ meta.cols = cols
       /\ meta.checks = tab.checks
       /\ meta.indexes = tab.indexes \cup (IF d.unique THEN {ix} ELSE {})
  <2> HIDE DEF with, ix, cols
  <2>1. CASE d.unique
    BY <1>5, <1>15, <2>1 DEF TableMetas
  <2>2. CASE ~d.unique
    BY <1>5, <2>2
  <2> QED BY <2>1, <2>2
<1>18. catalog' = [catalog EXCEPT ![n] = meta]
  BY <1>12, <1>13
<1> HIDE DEF meta, ix
<1>19. /\ Len(meta.cols) = Len(tab.cols) + 1 /\ NamesDiffer(meta)
       /\ \A i \in DOMAIN tab.cols : i \in DOMAIN meta.cols /\ meta.cols[i] = tab.cols[i]
       /\ meta.cols[Len(meta.cols)] = ColumnOf(d)
       /\ ColumnsOf(meta) = ColumnsOf(tab) \cup {d.name}
       /\ \A c : Has(meta, c) <=> Has(tab, c) \/ c = d.name
       /\ \A stored \in Seq(Values) : Len(stored) <= Len(tab.cols) =>
            DecodeRow(meta, stored) = Extended(DecodeRow(tab, stored), d.name, d.default)
  <2>1. /\ tab \in TableMetas /\ NamesDiffer(tab) /\ d \in Definitions /\ ~Has(tab, d.name)
        /\ meta \in TableMetas /\ meta.cols = Append(tab.cols, ColumnOf(d))
    BY <1>1, <1>2, <1>17
  <2> HIDE DEF tab
  <2> QED BY ONLY <2>1, AppendFacts
<1>20. MetaOK(meta)
  BY <1>2, <1>16, <1>17, <1>19 DEF MetaOK
<1>21. \A jx \in meta.indexes : /\ jx.root \in DOMAIN entries'
                                /\ jx.root \in DOMAIN entries => jx \in tab.indexes
                                /\ \A iy \in meta.indexes : jx.root = iy.root => jx = iy
  <2>1. \A jx \in tab.indexes : /\ jx.root \in DOMAIN entries
                                /\ \A iy \in tab.indexes : iy.root = jx.root => iy = jx
    BY <1>1, TableFacts
  <2> QED BY <1>14, <1>16, <1>17, <2>1
<1>22. tab.pk \in ColumnsOf(tab) /\ (\A jx \in tab.indexes : jx.column \in ColumnsOf(tab))
       /\ (\A ck \in tab.checks : ck.column \in ColumnsOf(tab))
  BY <1>2, PositionFacts DEF MetaOK
<1>23. TableOK(meta, rows', entries', told')
  <2>1. ASSUME NEW k \in DOMAIN rows[root]
        PROVE  /\ Len(rows[root][k]) <= Len(meta.cols)
               /\ now[k] = DecodeRow(meta, rows[root][k])
               /\ now[k][meta.pk] = k
    <3>1. k \in DOMAIN seen /\ rows[root][k] \in Seq(Values)
      BY <1>2
    <3>2. /\ Len(rows[root][k]) <= Len(tab.cols)
          /\ seen[k] = DecodeRow(tab, rows[root][k]) /\ seen[k][tab.pk] = k
      BY <1>1, <3>1, TableFacts
    <3>3. Len(rows[root][k]) \in Nat /\ Len(tab.cols) \in Nat
      BY <1>2, <3>1, MetaFacts
    <3>4. now[k] = DecodeRow(meta, rows[root][k])
      BY <1>7, <1>19, <3>1, <3>2
    <3>5. now[k][meta.pk] = k
      BY <1>9, <1>17, <1>22, <3>1, <3>2
    <3> QED BY <1>19, <3>2, <3>3, <3>4, <3>5
  <2>2. ASSUME NEW jx \in meta.indexes
        PROVE  /\ entries'[jx.root] = EntriesFor(now, jx.column)
               /\ jx.unique => Distinct(now, jx.column)
    <3>1. CASE jx \in tab.indexes
      <4>1. /\ jx.root \in DOMAIN entries /\ entries[jx.root] = EntriesFor(seen, jx.column)
            /\ jx.unique => Distinct(seen, jx.column)
        BY <1>1, <3>1, TableFacts
      <4>2. /\ DOMAIN now = DOMAIN seen
            /\ \A k \in DOMAIN now : now[k][jx.column] = seen[k][jx.column]
        BY <1>7, <1>9, <1>22, <3>1
      <4>3. /\ EntriesFor(now, jx.column) = EntriesFor(seen, jx.column)
            /\ Distinct(now, jx.column) <=> Distinct(seen, jx.column)
        <5> HIDE DEF seen
        <5> QED BY ONLY <4>2, ColumnFrame
      <4> QED BY <1>14, <4>1, <4>3
    <3>2. CASE jx = ix /\ d.unique
      <4>1. KeysOf(with) = DOMAIN seen
        BY <1>2, <1>5 DEF KeysOf
      <4>2. d.default = Null \/ \A j, k \in DOMAIN seen : j = k
        BY <1>1, <3>2, <4>1
      <4>3. Distinct(now, d.name)
        BY <1>7, <1>8, <4>2 DEF Distinct
      <4> QED BY <1>14, <1>16, <3>2, <4>3
    <3> QED BY <1>17, <3>1, <3>2
  <2>3. ASSUME NEW ck \in meta.checks, NEW k \in DOMAIN now
        PROVE  now[k][ck.column] # ck.forbids
    <3>1. k \in DOMAIN seen /\ now[k][ck.column] = seen[k][ck.column]
      BY <1>7, <1>9, <1>17, <1>22
    <3>2. seen[k][ck.column] # ck.forbids
      BY <1>1, <1>17, <3>1, TableFacts
    <3> QED BY <3>1, <3>2
  <2> QED BY <1>1, <1>17, <2>1, <2>2, <2>3 DEF TableOK, now
<1>24. HeldOK'
  <2>1. \A m \in Names \ {n} : catalog'[m] = catalog[m]
    BY <1>18 DEF IInv, CatalogOK
  <2> QED BY <1>1, <2>1, HeldElsewhere
<1>25. ASSUME NEW i \in DOMAIN meta.cols, meta.cols[i].fk # NoFk
       PROVE  Resolves(meta.cols[i].fk, ValuesOf(now, meta.cols[i].name))
  <2>1. CASE i \in DOMAIN tab.cols
    <3>1. meta.cols[i] = tab.cols[i] /\ tab.cols[i].name \in ColumnsOf(tab)
      BY <1>2, <1>19, <2>1, PositionFacts
    <3>2. Resolves(tab.cols[i].fk, ValuesOf(seen, tab.cols[i].name))
      BY <1>1, <1>25, <2>1, <3>1 DEF IInv, RefsOK
    <3>3. ValuesOf(now, tab.cols[i].name) = ValuesOf(seen, tab.cols[i].name)
      <4>1. /\ DOMAIN now = DOMAIN seen
            /\ \A k \in DOMAIN now : now[k][tab.cols[i].name] = seen[k][tab.cols[i].name]
        BY <1>7, <1>9, <3>1
      <4> QED BY <4>1 DEF ValuesOf
    <3> QED BY <3>1, <3>2, <3>3
  <2>2. CASE i = Len(meta.cols)
    <3>1. meta.cols[i] = ColumnOf(d) /\ d.fk # NoFk
      BY <1>3, <1>19, <1>25, <2>2
    <3>2. d.fk.table \in Tables /\ catalog[d.fk.table].pk = d.fk.column
      <4>1. i \in DOMAIN with.cols /\ with.cols[i] = ColumnOf(d)
        BY <1>5, <1>17, <3>1
      <4>2. IF d.fk.table = n THEN d.fk.column = with.pk
            ELSE IsTable(d.fk.table) /\ catalog[d.fk.table].pk = d.fk.column
        <5> HIDE DEF with
        <5> QED BY <1>1, <1>3, <3>1, <4>1 DEF FkTargetsExist
      <4>3. d.fk.table \in Names
        BY <1>3, <3>1, NullFacts
      <4> QED BY <1>1, <1>5, <4>2, <4>3 DEF Tables
    <3>3. DOMAIN seen = {} \/ d.default = Null
      <4>1. KeysOf(with) = DOMAIN seen
        BY <1>2, <1>5 DEF KeysOf
      <4> QED BY <1>1, <3>1, <4>1 DEF DefaultHolds
    <3>4. \A v \in ValuesOf(now, d.name) : v = Null
      BY <1>7, <1>8, <3>3 DEF ValuesOf
    <3> QED BY <1>3, <3>1, <3>2, <3>4 DEF Resolves
  <2>3. i \in DOMAIN tab.cols \/ i = Len(meta.cols)
    <3>1. DOMAIN tab.cols = 1..Len(tab.cols) /\ DOMAIN meta.cols = 1..Len(meta.cols) /\ Len(tab.cols) \in Nat
      BY <1>2, <1>17, MetaFacts
    <3> QED BY <1>19, <3>1
  <2> QED BY <2>1, <2>2, <2>3
<1>26. /\ DOMAIN rows' = DOMAIN rows /\ DOMAIN entries \subseteq DOMAIN entries'
       /\ \A r \in DOMAIN entries : entries'[r] = entries[r]
       /\ \A r \in DOMAIN rows : r # meta.root => rows'[r] = rows[r] /\ told'[r] = told[r]
       /\ DOMAIN told'[meta.root] = DOMAIN told[meta.root]
  BY <1>1, <1>2, <1>6, <1>7, <1>14, <1>17 DEF now
<1>27. \A i \in DOMAIN meta.cols : meta.cols[i].fk # NoFk =>
         Resolves(meta.cols[i].fk, ValuesOf(told'[meta.root], meta.cols[i].name))
  BY <1>17, <1>25 DEF now
<1> HIDE DEF tab, seen, root
<1>28. /\ meta.root = catalog[n].root /\ meta.pk = catalog[n].pk
       /\ \A jx \in meta.indexes : /\ jx.root \in DOMAIN entries'
                                   /\ jx.root \in DOMAIN entries => jx \in catalog[n].indexes
                                   /\ \A iy \in meta.indexes : jx.root = iy.root => jx = iy
  BY <1>17, <1>21 DEF tab, root
<1> QED BY <1>1, <1>14, <1>17, <1>18, <1>20, <1>23, <1>24, <1>26, <1>27, <1>28, ChangeTable

LEMMA RemoveFacts ==
  ASSUME NEW S, NEW s \in Seq(S), NEW i \in 1..Len(s)
  PROVE  /\ RemoveAt(s, i) \in Seq(S) /\ Len(RemoveAt(s, i)) = Len(s) - 1
         /\ \A j \in 1..(Len(s) - 1) : RemoveAt(s, i)[j] = IF j < i THEN s[j] ELSE s[j + 1]
<1> DEFINE a == SubSeq(s, 1, i - 1)
           b == SubSeq(s, i + 1, Len(s))
<1>1. /\ a \in Seq(S) /\ Len(a) = i - 1 /\ \A j \in 1..(i - 1) : a[j] = s[j]
  OBVIOUS
<1>2. /\ b \in Seq(S) /\ Len(b) = Len(s) - i /\ \A j \in 1..(Len(s) - i) : b[j] = s[i + j]
  OBVIOUS
<1>3. RemoveAt(s, i) = a \o b
  BY DEF RemoveAt
<1> HIDE DEF a, b
<1>4. /\ a \o b \in Seq(S) /\ Len(a \o b) = Len(s) - 1
  <2>1. a \o b \in Seq(S) /\ Len(a \o b) = Len(a) + Len(b)
    <3>1. a \in Seq(S) /\ b \in Seq(S)
      BY <1>1, <1>2
    <3> QED BY ONLY <3>1
  <2>2. Len(s) \in Nat /\ i \in Int /\ (i - 1) + (Len(s) - i) = Len(s) - 1
    OBVIOUS
  <2> QED BY <1>1, <1>2, <2>1, <2>2
<1>5. ASSUME NEW j \in 1..(Len(s) - 1)
      PROVE  (a \o b)[j] = IF j < i THEN s[j] ELSE s[j + 1]
  <2>1. CASE j < i
    BY <1>1, <1>2, <2>1
  <2>2. CASE ~(j < i)
    <3>1. (a \o b)[j] = b[j - (i - 1)]
      BY <1>1, <1>2, <2>2
    <3>2. j - (i - 1) \in 1..(Len(s) - i) /\ i + (j - (i - 1)) = j + 1
      BY <2>2
    <3> QED BY <1>2, <2>2, <3>1, <3>2
  <2> QED BY <2>1, <2>2
<1> QED BY <1>3, <1>4, <1>5

LEMMA WithoutFacts ==
  ASSUME NEW tab \in TableMetas, NamesDiffer(tab), NEW c \in ColumnsOf(tab)
  PROVE  LET meta == Without(tab, c) IN
         /\ meta \in TableMetas /\ meta.root = tab.root /\ meta.pk = tab.pk
         /\ meta.checks = tab.checks /\ meta.indexes = tab.indexes
         /\ \A i \in DOMAIN meta.cols : \E j \in DOMAIN tab.cols : meta.cols[i] = tab.cols[j]
         /\ ColumnsOf(meta) = ColumnsOf(tab) \ {c}
         /\ \A d : Has(meta, d) <=> Has(tab, d) /\ d # c
<1> DEFINE at   == Position(tab, c)
           meta == Without(tab, c)
<1>1. /\ tab.cols \in Seq(ColumnMetas) /\ Len(tab.cols) \in Nat
      /\ DOMAIN tab.cols = 1..Len(tab.cols)
  BY MetaFacts
<1>2. at \in 1..Len(tab.cols) /\ tab.cols[at].name = c
  BY <1>1, PositionFacts
<1>3. meta = [tab EXCEPT !.cols = RemoveAt(tab.cols, at)]
  BY DEF Without
<1>4. /\ RemoveAt(tab.cols, at) \in Seq(ColumnMetas)
      /\ Len(RemoveAt(tab.cols, at)) = Len(tab.cols) - 1
      /\ \A j \in 1..(Len(tab.cols) - 1) :
           RemoveAt(tab.cols, at)[j] = IF j < at THEN tab.cols[j] ELSE tab.cols[j + 1]
  BY <1>1, <1>2, RemoveFacts
<1> HIDE DEF meta
<1>5. /\ meta \in TableMetas /\ meta.root = tab.root /\ meta.pk = tab.pk
      /\ meta.checks = tab.checks /\ meta.indexes = tab.indexes
      /\ meta.cols = RemoveAt(tab.cols, at)
  BY <1>3, <1>4 DEF TableMetas
<1> HIDE DEF at
<1>6. /\ DOMAIN meta.cols = 1..(Len(tab.cols) - 1)
      /\ \A j \in 1..(Len(tab.cols) - 1) :
           meta.cols[j] = IF j < at THEN tab.cols[j] ELSE tab.cols[j + 1]
  BY <1>1, <1>4, <1>5
<1>7. \A i \in DOMAIN meta.cols : \E j \in DOMAIN tab.cols : j # at /\ meta.cols[i] = tab.cols[j]
  <2>1. ASSUME NEW i \in DOMAIN meta.cols
        PROVE  \E j \in DOMAIN tab.cols : j # at /\ meta.cols[i] = tab.cols[j]
    <3>1. CASE i < at
      <4>1. i \in DOMAIN tab.cols /\ i # at /\ meta.cols[i] = tab.cols[i]
        BY <1>1, <1>2, <1>6, <3>1
      <4> QED BY <4>1
    <3>2. CASE ~(i < at)
      <4>1. i + 1 \in DOMAIN tab.cols /\ i + 1 # at /\ meta.cols[i] = tab.cols[i + 1]
        BY <1>1, <1>2, <1>6, <3>2
      <4> QED BY <4>1
    <3> QED BY <3>1, <3>2
  <2> QED BY <2>1
<1>8. \A j \in DOMAIN tab.cols : j # at => \E i \in DOMAIN meta.cols : meta.cols[i] = tab.cols[j]
  <2>1. ASSUME NEW j \in DOMAIN tab.cols, j # at
        PROVE  \E i \in DOMAIN meta.cols : meta.cols[i] = tab.cols[j]
    <3>1. CASE j < at
      <4>1. j \in DOMAIN meta.cols /\ meta.cols[j] = tab.cols[j]
        BY <1>1, <1>2, <1>6, <3>1
      <4> QED BY <4>1
    <3>2. CASE ~(j < at)
      <4>1. j - 1 \in DOMAIN meta.cols /\ ~(j - 1 < at) /\ (j - 1) + 1 = j
        BY <1>1, <1>2, <1>6, <2>1, <3>2
      <4>2. meta.cols[j - 1] = tab.cols[j]
        BY <1>6, <4>1
      <4> QED BY <4>1, <4>2
    <3> QED BY <3>1, <3>2
  <2> QED BY <2>1
<1>9. \A d : Has(meta, d) <=> Has(tab, d) /\ d # c
  <2>1. ASSUME NEW d, Has(meta, d) PROVE Has(tab, d) /\ d # c
    <3>1. PICK i \in DOMAIN meta.cols : meta.cols[i].name = d
      BY <2>1 DEF Has
    <3>2. PICK j \in DOMAIN tab.cols : j # at /\ meta.cols[i] = tab.cols[j]
      BY <1>7
    <3>3. tab.cols[j].name = d
      BY <3>1, <3>2
    <3>4. d # c
      BY <1>1, <1>2, <3>2, <3>3 DEF NamesDiffer
    <3> QED BY <3>3, <3>4 DEF Has
  <2>2. ASSUME NEW d, Has(tab, d), d # c PROVE Has(meta, d)
    <3>1. PICK j \in DOMAIN tab.cols : tab.cols[j].name = d
      BY <2>2 DEF Has
    <3>2. j # at
      BY <1>2, <2>2, <3>1
    <3>3. PICK i \in DOMAIN meta.cols : meta.cols[i] = tab.cols[j]
      BY <1>8, <3>2
    <3>4. meta.cols[i].name = d
      BY <3>1, <3>3
    <3> QED BY <3>4 DEF Has
  <2> QED BY <2>1, <2>2
<1>10. ColumnsOf(meta) = ColumnsOf(tab) \ {c}
  <2>1. \A d : (d \in ColumnsOf(meta) <=> Has(meta, d)) /\ (d \in ColumnsOf(tab) <=> Has(tab, d))
    BY DEF ColumnsOf, Has
  <2> QED BY <1>9, <2>1
<1>11. \A i \in DOMAIN meta.cols : \E j \in DOMAIN tab.cols : meta.cols[i] = tab.cols[j]
  BY <1>7
<1> QED BY <1>5, <1>9, <1>10, <1>11 DEF meta

LEMMA DropColumnStep ==
  ASSUME IInv, Supported, NEW n \in Names, NEW c \in Columns, DropColumn(n, c)
  PROVE  IInv'
<1> DEFINE tab  == catalog[n]
           root == tab.root
           seen == told[root]
           now  == told'[root]
           meta == Without(tab, c)
<1>1. /\ n \in Tables /\ Unheld(n) /\ Has(tab, c) /\ c # tab.pk
      /\ \A ix \in tab.indexes : ix.column # c
      /\ \A ck \in tab.checks : ck.column # c
      /\ WellFormed(meta)
      /\ catalog' = [catalog EXCEPT ![n] = meta]
      /\ entries' = entries /\ pages' = pages /\ held' = held
  BY DEF DropColumn, Tables, Supported, Put, Droppable, Unchecked
<1>2. /\ tab \in TableMetas /\ MetaOK(tab) /\ NamesDiffer(tab)
      /\ KeysOf(tab) = DOMAIN seen
      /\ root \in DOMAIN rows /\ root \in DOMAIN told /\ DOMAIN rows[root] = DOMAIN seen
      /\ DOMAIN told = DOMAIN rows
      /\ \A k \in DOMAIN seen : /\ k \in Keys /\ Decoded(tab, k) = seen[k]
                                /\ seen[k] \in [ColumnsOf(tab) -> Values]
  BY <1>1, SeenFacts DEF MetaOK, KeysOf, IInv, StoreOK
<1>3. c \in ColumnsOf(tab)
  BY <1>1 DEF Has, ColumnsOf
<1>4. /\ meta \in TableMetas /\ meta.root = root /\ meta.pk = tab.pk
      /\ meta.checks = tab.checks /\ meta.indexes = tab.indexes
      /\ \A i \in DOMAIN meta.cols : \E j \in DOMAIN tab.cols : meta.cols[i] = tab.cols[j]
      /\ ColumnsOf(meta) = ColumnsOf(tab) \ {c}
      /\ \A d : Has(meta, d) <=> Has(tab, d) /\ d # c
  BY <1>2, <1>3, WithoutFacts
<1>5. NamesDiffer(meta)
  BY <1>1 DEF WellFormed, NamesDiffer
<1>6. /\ rows' = [rows EXCEPT ![root] = [k \in DOMAIN @ |-> EncodeRow(meta, Decoded(tab, k))]]
      /\ told' = [told EXCEPT ![root] = [k \in DOMAIN @ |-> Restrict(@[k], DOMAIN @[k] \ {c})]]
  BY <1>4 DEF DropColumn
<1> HIDE DEF meta
<1>7. /\ DOMAIN rows' = DOMAIN rows /\ DOMAIN told' = DOMAIN told
      /\ \A r \in DOMAIN rows : r # root => rows'[r] = rows[r] /\ told'[r] = told[r]
      /\ rows'[root] = [k \in DOMAIN rows[root] |-> EncodeRow(meta, Decoded(tab, k))]
      /\ now = [k \in DOMAIN seen |-> Restrict(seen[k], DOMAIN seen[k] \ {c})]
  BY <1>2, <1>6
<1>8. ASSUME NEW k \in DOMAIN seen
      PROVE  /\ now[k] \in [ColumnsOf(meta) -> Values]
             /\ \A d \in ColumnsOf(meta) : now[k][d] = seen[k][d]
  <2>1. now[k] = Restrict(seen[k], ColumnsOf(meta))
    <3>1. now[k] = Restrict(seen[k], DOMAIN seen[k] \ {c})
      BY <1>7
    <3>2. DOMAIN seen[k] \ {c} = ColumnsOf(meta)
      BY <1>2, <1>4
    <3> QED BY <3>1, <3>2
  <2>2. seen[k] \in [ColumnsOf(tab) -> Values] /\ ColumnsOf(meta) \subseteq ColumnsOf(tab)
    BY <1>2, <1>4
  <2> HIDE DEF now, seen
  <2> QED BY <2>1, <2>2 DEF Restrict
<1>9. DOMAIN now = DOMAIN seen /\ DOMAIN rows'[root] = DOMAIN seen
      /\ now = [k \in DOMAIN rows'[root] |-> now[k]]
  BY <1>2, <1>7
<1>10. ASSUME NEW k \in DOMAIN seen
       PROVE  rows'[root][k] = EncodeRow(meta, now[k])
  <2>1. rows'[root][k] = EncodeRow(meta, seen[k])
    BY <1>2, <1>7
  <2>2. \A i \in DOMAIN meta.cols : meta.cols[i].name \in ColumnsOf(meta)
    BY DEF ColumnsOf
  <2>3. EncodeRow(meta, seen[k]) = EncodeRow(meta, now[k])
    BY <1>8, <2>2 DEF EncodeRow
  <2> QED BY <2>1, <2>3
<1> HIDE DEF now
<1>11. ASSUME NEW k \in DOMAIN seen
       PROVE  /\ rows'[root][k] \in Seq(Values) /\ Len(rows'[root][k]) = Len(meta.cols)
              /\ DecodeRow(meta, rows'[root][k]) = now[k]
  BY <1>4, <1>5, <1>8, <1>10, EncodeFacts
<1>12. MetaOK(meta)
  BY <1>1, <1>2, <1>4, <1>5 DEF MetaOK
<1>13. StoreOK'
  <2>1. /\ pages' \in Nat /\ DOMAIN told' = DOMAIN rows'
        /\ DOMAIN rows' \cup DOMAIN entries' = 1..pages' /\ DOMAIN rows' \cap DOMAIN entries' = {}
        /\ \A r \in DOMAIN entries' : entries'[r] \subseteq Keys \X Keys
    BY <1>1, <1>7 DEF IInv, StoreOK
  <2>2. ASSUME NEW r \in DOMAIN rows'
        PROVE  /\ told'[r] = [k \in DOMAIN rows'[r] |-> told'[r][k]]
               /\ \A k \in DOMAIN rows'[r] : k \in Keys /\ rows'[r][k] \in Seq(Values)
    <3>1. CASE r = root
      BY <1>2, <1>9, <1>11, <3>1 DEF now
    <3>2. CASE r # root
      BY <1>7, <3>2 DEF IInv, StoreOK
    <3> QED BY <3>1, <3>2
  <2> QED BY <2>1, <2>2 DEF StoreOK
<1>14. \A d \in ColumnsOf(meta) : \A k \in DOMAIN now : now[k][d] = seen[k][d]
  BY <1>8, <1>9
<1>15. meta.pk \in ColumnsOf(meta) /\ (\A ix \in meta.indexes : ix.column \in ColumnsOf(meta))
       /\ (\A ck \in meta.checks : ck.column \in ColumnsOf(meta))
  BY <1>4, <1>5, <1>12, PositionFacts DEF MetaOK
<1>16. TableOK(meta, rows', entries', told')
  <2>1. ASSUME NEW k \in DOMAIN rows'[root]
        PROVE  /\ Len(rows'[root][k]) <= Len(meta.cols)
               /\ now[k] = DecodeRow(meta, rows'[root][k])
               /\ now[k][meta.pk] = k
    <3>1. k \in DOMAIN seen /\ Len(meta.cols) \in Nat
      BY <1>4, <1>9, MetaFacts
    <3>2. seen[k][tab.pk] = k
      BY <1>1, <3>1, TableFacts
    <3>3. now[k][meta.pk] = seen[k][meta.pk]
      BY <1>9, <1>14, <1>15, <3>1
    <3> QED BY <1>4, <1>11, <3>1, <3>2, <3>3
  <2>2. ASSUME NEW ix \in meta.indexes
        PROVE  /\ entries'[ix.root] = EntriesFor(now, ix.column)
               /\ ix.unique => Distinct(now, ix.column)
    <3>1. /\ entries[ix.root] = EntriesFor(seen, ix.column)
          /\ ix.unique => Distinct(seen, ix.column)
      BY <1>1, <1>4, TableFacts
    <3>2. DOMAIN now = DOMAIN seen /\ \A k \in DOMAIN now : now[k][ix.column] = seen[k][ix.column]
      BY <1>9, <1>14, <1>15
    <3>3. /\ EntriesFor(now, ix.column) = EntriesFor(seen, ix.column)
          /\ Distinct(now, ix.column) <=> Distinct(seen, ix.column)
      <4> HIDE DEF seen
      <4> QED BY ONLY <3>2, ColumnFrame
    <3> QED BY <1>1, <3>1, <3>3
  <2>3. ASSUME NEW ck \in meta.checks, NEW k \in DOMAIN now
        PROVE  now[k][ck.column] # ck.forbids
    <3>1. k \in DOMAIN seen /\ now[k][ck.column] = seen[k][ck.column]
      BY <1>9, <1>14, <1>15
    <3>2. seen[k][ck.column] # ck.forbids
      BY <1>1, <1>4, <3>1, TableFacts
    <3> QED BY <3>1, <3>2
  <2> QED BY <1>4, <2>1, <2>2, <2>3 DEF TableOK, now
<1>17. HeldOK'
  <2>1. \A m \in Names \ {n} : catalog'[m] = catalog[m]
    BY <1>1 DEF IInv, CatalogOK
  <2> QED BY <1>1, <2>1, HeldElsewhere
<1>18. ASSUME NEW i \in DOMAIN meta.cols, meta.cols[i].fk # NoFk
       PROVE  Resolves(meta.cols[i].fk, ValuesOf(now, meta.cols[i].name))
  <2>1. PICK j \in DOMAIN tab.cols : meta.cols[i] = tab.cols[j]
    BY <1>4
  <2>2. Resolves(meta.cols[i].fk, ValuesOf(seen, meta.cols[i].name))
    BY <1>1, <1>18, <2>1 DEF IInv, RefsOK
  <2>3. ValuesOf(now, meta.cols[i].name) = ValuesOf(seen, meta.cols[i].name)
    <3>1. meta.cols[i].name \in ColumnsOf(meta)
      BY DEF ColumnsOf
    <3>2. DOMAIN now = DOMAIN seen
          /\ \A k \in DOMAIN now : now[k][meta.cols[i].name] = seen[k][meta.cols[i].name]
      BY <1>9, <1>14, <3>1
    <3> QED BY <3>2 DEF ValuesOf
  <2> QED BY <2>2, <2>3
<1>19. /\ DOMAIN entries \subseteq DOMAIN entries'
       /\ \A r \in DOMAIN entries : entries'[r] = entries[r]
       /\ \A r \in DOMAIN rows : r # meta.root => rows'[r] = rows[r] /\ told'[r] = told[r]
       /\ DOMAIN told'[meta.root] = DOMAIN told[meta.root]
  BY <1>1, <1>4, <1>7, <1>9 DEF now
<1>20. \A i \in DOMAIN meta.cols : meta.cols[i].fk # NoFk =>
         Resolves(meta.cols[i].fk, ValuesOf(told'[meta.root], meta.cols[i].name))
  BY <1>4, <1>18 DEF now
<1>21. \A ix \in meta.indexes : /\ ix.root \in DOMAIN entries'
                                /\ ix.root \in DOMAIN entries => ix \in catalog[n].indexes
                                /\ \A iy \in meta.indexes : ix.root = iy.root => ix = iy
  BY <1>1, <1>4, TableFacts
<1> HIDE DEF tab, seen, root
<1>22. meta.root = catalog[n].root /\ meta.pk = catalog[n].pk
  BY <1>4 DEF tab, root
<1> QED BY <1>1, <1>4, <1>7, <1>12, <1>13, <1>16, <1>17, <1>19, <1>20, <1>21, <1>22, ChangeTable

\* A name stands for no table any more, and no other table names it.
LEMMA ForgetTable ==
  ASSUME IInv, Supported, NEW n \in Names, NEW object, object.kind \in Kinds \ {"table"},
         IsTable(n) => Unheld(n) /\ Referrers(n) = {},
         catalog' = [catalog EXCEPT ![n] = object], UNCHANGED <<store, held, told>>
  PROVE  IInv'
<1>1. /\ catalog = [m \in Names |-> catalog[m]]
      /\ \A m \in Names : catalog[m].kind \in Kinds /\ (IsTable(m) => catalog[m] \in TableMetas)
  BY DEF IInv, CatalogOK
<1>2. /\ catalog' = [m \in Names |-> catalog'[m]] /\ catalog'[n] = object
      /\ \A m \in Names \ {n} : catalog'[m] = catalog[m]
  BY <1>1
<1>3. /\ \A m \in Names : IsTable(m)' <=> IsTable(m) /\ m # n
      /\ Tables' = Tables \ {n}
  BY <1>2 DEF Tables, IsTable
<1>4. /\ rows' = rows /\ entries' = entries /\ pages' = pages /\ told' = told /\ held' = held
      /\ \A m \in Tables' : m \in Tables /\ catalog'[m] = catalog[m]
  BY <1>2, <1>3 DEF store, Tables
<1>5. CatalogOK'
  BY <1>1, <1>2, <1>3 DEF CatalogOK
<1>6. StoreOK'
  BY SameStore DEF IInv
<1>7. RootsOK'
  BY <1>3, <1>4 DEF IInv, RootsOK
<1>8. RefsOK'
  <2>1. ASSUME NEW m \in Tables', NEW i \in DOMAIN catalog[m].cols, catalog[m].cols[i].fk # NoFk
        PROVE  /\ catalog[m].cols[i].fk.table \in Tables'
               /\ catalog[catalog[m].cols[i].fk.table].pk = catalog[m].cols[i].fk.column
               /\ \A v \in ValuesOf(told[catalog[m].root], catalog[m].cols[i].name) :
                    v # Null => v \in DOMAIN told[catalog[catalog[m].cols[i].fk.table].root]
    <3>1. m \in Tables /\ m # n
      BY <1>3
    <3>2. Resolves(catalog[m].cols[i].fk, ValuesOf(told[catalog[m].root], catalog[m].cols[i].name))
      BY <2>1, <3>1 DEF IInv, RefsOK
    <3>3. catalog[m].cols[i].fk.table # n
      <4>1. SUFFICES ASSUME catalog[m].cols[i].fk.table = n PROVE FALSE
        OBVIOUS
      <4>2. m \in Referrers(n) /\ n \in Tables
        BY <3>1, <3>2, <4>1 DEF Referrers, Resolves
      <4> QED BY <4>2 DEF Tables
    <3> QED BY <1>3, <3>2, <3>3 DEF Resolves
  <2>2. ASSUME NEW m \in Tables', NEW i \in DOMAIN catalog'[m].cols, catalog'[m].cols[i].fk # NoFk
        PROVE  Resolves(catalog[m].cols[i].fk, ValuesOf(told[catalog[m].root], catalog[m].cols[i].name))'
    <3>1. catalog'[m] = catalog[m] /\ i \in DOMAIN catalog[m].cols /\ catalog[m].cols[i].fk # NoFk
      BY <1>4, <2>2
    <3>2. catalog[m].cols[i].fk.table \in Tables'
      BY <2>1, <3>1
    <3>3. catalog'[catalog[m].cols[i].fk.table] = catalog[catalog[m].cols[i].fk.table]
      BY <1>4, <3>2
    <3>4. /\ catalog[catalog[m].cols[i].fk.table].pk = catalog[m].cols[i].fk.column
          /\ \A v \in ValuesOf(told[catalog[m].root], catalog[m].cols[i].name) :
               v # Null => v \in DOMAIN told[catalog[catalog[m].cols[i].fk.table].root]
      BY <2>1, <3>1
    <3>5. told' = told
      BY <1>4
    <3> QED BY <3>1, <3>2, <3>3, <3>4, <3>5 DEF Resolves
  <2> QED BY <2>2 DEF RefsOK
<1>9. HeldOK'
  <2>1. held # Nobody => held.table \in Names /\ held.table # n
    BY DEF IInv, HeldOK, Tables, Unheld, Supported
  <2>2. held # Nobody => catalog'[held.table] = catalog[held.table]
    BY <1>2, <2>1
  <2> QED BY <1>4, <2>2, HeldFrame DEF IInv
<1>10. \A m \in Tables' : MetaOK(catalog'[m]) /\ TableOK(catalog'[m], rows', entries', told')
  BY <1>4 DEF IInv
<1> QED BY <1>5, <1>6, <1>7, <1>8, <1>9, <1>10 DEF IInv

LEMMA DropTableStep ==
  ASSUME IInv, Supported, NEW n \in Names, DropTable(n)
  PROVE  IInv'
<1>1. /\ Unheld(n) /\ Referrers(n) = {}
      /\ catalog' = [catalog EXCEPT ![n] = NoObject] /\ UNCHANGED <<store, held, told>>
  BY DEF DropTable, Supported, Put, OnlyCatalog
<1>2. NoObject.kind \in Kinds \ {"table"}
  BY DEF NoObject, Kinds
<1> QED BY <1>1, <1>2, ForgetTable

LEMMA CreateStep ==
  ASSUME IInv, Supported, NEW n \in Names, NEW object, object.kind \in Kinds \ {"table"},
         Create(n, object)
  PROVE  IInv'
<1>1. /\ ~IsTable(n)
      /\ catalog' = [catalog EXCEPT ![n] = object] /\ UNCHANGED <<store, held, told>>
  BY DEF Create, Put, OnlyCatalog, IsTable, NoObject
<1> QED BY <1>1, ForgetTable

LEMMA DropStep ==
  ASSUME IInv, Supported, NEW n \in Names, NEW kind, kind # "table", Drop(n, kind)
  PROVE  IInv'
<1>1. /\ ~IsTable(n)
      /\ catalog' = [catalog EXCEPT ![n] = NoObject] /\ UNCHANGED <<store, held, told>>
  BY DEF Drop, Put, OnlyCatalog, IsTable
<1>2. NoObject.kind \in Kinds \ {"table"}
  BY DEF NoObject, Kinds
<1> QED BY <1>1, <1>2, ForgetTable

\* A description whose columns refer elsewhere.
LEMMA RetargetFacts ==
  ASSUME NEW tab \in TableMetas, NamesDiffer(tab), NEW cols,
         cols \in Seq(ColumnMetas), Len(cols) = Len(tab.cols),
         \A i \in DOMAIN tab.cols :
           /\ cols[i].name = tab.cols[i].name
           /\ cols[i].default = tab.cols[i].default,
         NEW meta, meta = [tab EXCEPT !.cols = cols]
  PROVE  /\ meta \in TableMetas /\ meta.root = tab.root /\ meta.pk = tab.pk
         /\ meta.checks = tab.checks /\ meta.indexes = tab.indexes /\ meta.cols = cols
         /\ Len(meta.cols) = Len(tab.cols) /\ DOMAIN meta.cols = DOMAIN tab.cols
         /\ NamesDiffer(meta) /\ \A c : Has(meta, c) <=> Has(tab, c)
         /\ \A stored \in Seq(Values) : DecodeRow(meta, stored) = DecodeRow(tab, stored)
<1>1. /\ tab.cols \in Seq(ColumnMetas) /\ Len(tab.cols) \in Nat
      /\ DOMAIN tab.cols = 1..Len(tab.cols)
  BY MetaFacts
<1>2. DOMAIN cols = DOMAIN tab.cols /\ Len(cols) \in Nat
  BY <1>1
<1>3. /\ meta \in TableMetas /\ meta.root = tab.root /\ meta.pk = tab.pk
      /\ meta.checks = tab.checks /\ meta.indexes = tab.indexes /\ meta.cols = cols
  BY <1>2 DEF TableMetas
<1>4. NamesDiffer(meta) /\ \A c : Has(meta, c) <=> Has(tab, c)
  BY <1>2, <1>3 DEF NamesDiffer, Has
<1>5. \A stored \in Seq(Values) : DecodeRow(meta, stored) = DecodeRow(tab, stored)
  <2>1. \A i \in 1..Len(meta.cols) : /\ meta.cols[i].name = tab.cols[i].name
                                     /\ meta.cols[i].default = tab.cols[i].default
    BY <1>1, <1>3
  <2>2. Len(meta.cols) = Len(tab.cols)
    BY <1>3
  <2> QED BY <1>3, <1>4, <2>1, <2>2, DecodeSame
<1> QED BY <1>2, <1>3, <1>4, <1>5

Moved(fk, old, new)       == IF fk.table = old THEN [table |-> new, column |-> fk.column] ELSE fk
Recolumned(fk, n, c, d)   == IF fk.table = n THEN [table |-> n, column |-> Renamed(fk.column, c, d)] ELSE fk

LEMMA FollowingFacts ==
  ASSUME NEW tab \in TableMetas, NamesDiffer(tab), NEW old \in Names, NEW new \in Names
  PROVE  LET meta == Following(tab, old, new) IN
         /\ meta \in TableMetas /\ meta.root = tab.root /\ meta.pk = tab.pk
         /\ meta.checks = tab.checks /\ meta.indexes = tab.indexes
         /\ Len(meta.cols) = Len(tab.cols) /\ DOMAIN meta.cols = DOMAIN tab.cols
         /\ \A i \in DOMAIN tab.cols :
              /\ meta.cols[i].name = tab.cols[i].name
              /\ meta.cols[i].notNull = tab.cols[i].notNull
              /\ meta.cols[i].default = tab.cols[i].default
              /\ meta.cols[i].fk = Moved(tab.cols[i].fk, old, new)
         /\ NamesDiffer(meta) /\ \A c : Has(meta, c) <=> Has(tab, c)
         /\ \A stored \in Seq(Values) : DecodeRow(meta, stored) = DecodeRow(tab, stored)
<1> DEFINE moved(x) == IF x.fk.table = old THEN [x EXCEPT !.fk.table = new] ELSE x
           cols == [i \in DOMAIN tab.cols |-> moved(tab.cols[i])]
           meta == Following(tab, old, new)
<1>1. ASSUME NEW x \in ColumnMetas
      PROVE  /\ moved(x) \in ColumnMetas /\ moved(x).name = x.name
             /\ moved(x).notNull = x.notNull /\ moved(x).default = x.default
             /\ moved(x).fk = Moved(x.fk, old, new)
  <2>1. x.fk \in ForeignKeys
    BY DEF ColumnMetas
  <2>2. CASE x.fk.table = old
    <3>1. [x.fk EXCEPT !.table = new] = [table |-> new, column |-> x.fk.column]
      BY <2>1 DEF ForeignKeys, NoFk
    <3>2. [table |-> new, column |-> x.fk.column] \in ForeignKeys
      BY <2>1, <2>2, NullFacts, SchemaAssumption DEF ForeignKeys
    <3>3. moved(x) = [x EXCEPT !.fk = [table |-> new, column |-> x.fk.column]]
      BY <2>2, <3>1
    <3> HIDE DEF moved
    <3> QED BY <2>2, <3>2, <3>3 DEF ColumnMetas, Moved
  <2>3. CASE x.fk.table # old
    <3>1. moved(x) = x
      BY <2>3
    <3> QED BY <2>3, <3>1 DEF Moved
  <2> QED BY <2>2, <2>3
<1>2. meta = [tab EXCEPT !.cols = cols]
  BY DEF Following
<1> HIDE DEF moved, meta
<1>3. \A i \in DOMAIN tab.cols : tab.cols[i] \in ColumnMetas
  BY MetaFacts
<1>4. \A i \in DOMAIN tab.cols :
        /\ cols[i] \in ColumnMetas /\ cols[i].name = tab.cols[i].name
        /\ cols[i].notNull = tab.cols[i].notNull /\ cols[i].default = tab.cols[i].default
        /\ cols[i].fk = Moved(tab.cols[i].fk, old, new)
  BY <1>1, <1>3
<1>5. cols \in Seq(ColumnMetas) /\ Len(cols) = Len(tab.cols)
  <2>1. /\ Len(tab.cols) \in Nat /\ DOMAIN tab.cols = 1..Len(tab.cols)
    BY MetaFacts
  <2>2. /\ cols = [i \in 1..Len(tab.cols) |-> cols[i]]
        /\ \A i \in 1..Len(tab.cols) : cols[i] \in ColumnMetas
    BY <1>4, <2>1
  <2> HIDE DEF cols
  <2> QED BY <2>1, <2>2
<1> HIDE DEF cols
<1>6. /\ meta \in TableMetas /\ meta.root = tab.root /\ meta.pk = tab.pk
      /\ meta.checks = tab.checks /\ meta.indexes = tab.indexes /\ meta.cols = cols
      /\ Len(meta.cols) = Len(tab.cols) /\ DOMAIN meta.cols = DOMAIN tab.cols
      /\ NamesDiffer(meta) /\ \A c : Has(meta, c) <=> Has(tab, c)
      /\ \A stored \in Seq(Values) : DecodeRow(meta, stored) = DecodeRow(tab, stored)
  BY <1>2, <1>4, <1>5, RetargetFacts
<1> QED BY <1>4, <1>6 DEF meta

LEMMA RenamedTargetFacts ==
  ASSUME NEW tab \in TableMetas, NamesDiffer(tab), NEW n \in Names,
         NEW c \in Columns, NEW d \in Columns
  PROVE  LET meta == RenamedTarget(tab, n, c, d) IN
         /\ meta \in TableMetas /\ meta.root = tab.root /\ meta.pk = tab.pk
         /\ meta.checks = tab.checks /\ meta.indexes = tab.indexes
         /\ Len(meta.cols) = Len(tab.cols) /\ DOMAIN meta.cols = DOMAIN tab.cols
         /\ \A i \in DOMAIN tab.cols :
              /\ meta.cols[i].name = tab.cols[i].name
              /\ meta.cols[i].notNull = tab.cols[i].notNull
              /\ meta.cols[i].default = tab.cols[i].default
              /\ meta.cols[i].fk = Recolumned(tab.cols[i].fk, n, c, d)
         /\ NamesDiffer(meta) /\ \A e : Has(meta, e) <=> Has(tab, e)
         /\ \A stored \in Seq(Values) : DecodeRow(meta, stored) = DecodeRow(tab, stored)
<1> DEFINE moved(x) == IF x.fk.table = n THEN [x EXCEPT !.fk.column = Renamed(@, c, d)] ELSE x
           cols == [i \in DOMAIN tab.cols |-> moved(tab.cols[i])]
           meta == RenamedTarget(tab, n, c, d)
<1>1. ASSUME NEW x \in ColumnMetas
      PROVE  /\ moved(x) \in ColumnMetas /\ moved(x).name = x.name
             /\ moved(x).notNull = x.notNull /\ moved(x).default = x.default
             /\ moved(x).fk = Recolumned(x.fk, n, c, d)
  <2> DEFINE e == Renamed(x.fk.column, c, d)
  <2>1. x.fk \in ForeignKeys
    BY DEF ColumnMetas
  <2>2. CASE x.fk.table = n
    <3>1. x.fk.column \in Columns
      BY <2>1, <2>2, NullFacts, SchemaAssumption
    <3>2. e \in Columns
      BY <3>1 DEF Renamed
    <3> HIDE DEF e
    <3>3. [x.fk EXCEPT !.column = e] = [table |-> n, column |-> e]
      BY <2>1, <2>2 DEF ForeignKeys, NoFk
    <3>4. [table |-> n, column |-> e] \in ForeignKeys
      BY <3>2 DEF ForeignKeys
    <3>5. moved(x) = [x EXCEPT !.fk = [table |-> n, column |-> e]]
      BY <2>2, <3>3 DEF e
    <3> HIDE DEF moved
    <3>6. Recolumned(x.fk, n, c, d) = [table |-> n, column |-> e]
      BY <2>2 DEF Recolumned, e
    <3> QED BY <3>4, <3>5, <3>6 DEF ColumnMetas
  <2>3. CASE x.fk.table # n
    <3>1. moved(x) = x
      BY <2>3
    <3> QED BY <2>3, <3>1 DEF Recolumned
  <2> QED BY <2>2, <2>3
<1>2. meta = [tab EXCEPT !.cols = cols]
  BY DEF RenamedTarget
<1> HIDE DEF moved, meta
<1>3. \A i \in DOMAIN tab.cols : tab.cols[i] \in ColumnMetas
  BY MetaFacts
<1>4. \A i \in DOMAIN tab.cols :
        /\ cols[i] \in ColumnMetas /\ cols[i].name = tab.cols[i].name
        /\ cols[i].notNull = tab.cols[i].notNull /\ cols[i].default = tab.cols[i].default
        /\ cols[i].fk = Recolumned(tab.cols[i].fk, n, c, d)
  BY <1>1, <1>3
<1>5. cols \in Seq(ColumnMetas) /\ Len(cols) = Len(tab.cols)
  <2>1. /\ Len(tab.cols) \in Nat /\ DOMAIN tab.cols = 1..Len(tab.cols)
    BY MetaFacts
  <2>2. /\ cols = [i \in 1..Len(tab.cols) |-> cols[i]]
        /\ \A i \in 1..Len(tab.cols) : cols[i] \in ColumnMetas
    BY <1>4, <2>1
  <2> HIDE DEF cols
  <2> QED BY <2>1, <2>2
<1> HIDE DEF cols
<1>6. /\ meta \in TableMetas /\ meta.root = tab.root /\ meta.pk = tab.pk
      /\ meta.checks = tab.checks /\ meta.indexes = tab.indexes /\ meta.cols = cols
      /\ Len(meta.cols) = Len(tab.cols) /\ DOMAIN meta.cols = DOMAIN tab.cols
      /\ NamesDiffer(meta) /\ \A e : Has(meta, e) <=> Has(tab, e)
      /\ \A stored \in Seq(Values) : DecodeRow(meta, stored) = DecodeRow(tab, stored)
  BY <1>2, <1>4, <1>5, RetargetFacts
<1> QED BY <1>4, <1>6 DEF meta

\* Tables keep their contents under another name.
LEMMA RenameTableStep ==
  ASSUME IInv, Supported, NEW n \in Names, NEW m \in Names, RenameTable(n, m)
  PROVE  IInv'
<1>1. /\ n \in Tables /\ n # m /\ m \notin Tables /\ Unheld(n) /\ Unheld(m) /\ Unreferenced(n)
      /\ ~SelfReferencing(n)
      /\ catalog' = [o \in Names |-> CASE o = m -> catalog[n]
                                       [] o = n -> NoObject
                                       [] o \in Tables \ {n, m} -> Following(catalog[o], n, m)
                                       [] OTHER -> catalog[o]]
      /\ rows' = rows /\ entries' = entries /\ pages' = pages /\ told' = told /\ held' = held
  BY DEF RenameTable, Tables, Free, Supported, OnlyCatalog, store
<1>2. /\ catalog' = [o \in Names |-> catalog'[o]] /\ catalog'[m] = catalog[n]
      /\ catalog'[n] = NoObject
      /\ \A o \in Tables \ {n} : catalog'[o] = Following(catalog[o], n, m)
      /\ \A o \in Names \ (Tables \cup {m}) : catalog'[o] = catalog[o]
  <2>1. \A o \in Names :
          /\ o = m => catalog'[o] = catalog[n]
          /\ o = n => catalog'[o] = NoObject
          /\ o \in Tables \ {n, m} => catalog'[o] = Following(catalog[o], n, m)
          /\ o \notin Tables \cup {m} => catalog'[o] = catalog[o]
    BY <1>1
  <2>2. catalog' = [o \in Names |-> catalog'[o]]
    BY <1>1
  <2>3. Tables \subseteq Names
    BY DEF Tables
  <2> QED BY <1>1, <2>1, <2>2, <2>3
<1>3. \A o \in Tables : /\ o \in Names /\ catalog[o] \in TableMetas /\ MetaOK(catalog[o])
                        /\ NamesDiffer(catalog[o]) /\ TableOK(catalog[o], rows, entries, told)
                        /\ catalog[o].kind = "table"
  BY SeenFacts, MetaFacts DEF MetaOK
<1> DEFINE After(o) == IF o = n THEN m ELSE o
           Before(o) == IF o = m THEN n ELSE o
<1>4. ASSUME NEW o \in Tables
      PROVE  LET old == catalog[o]
                 new == catalog'[After(o)]
             IN  /\ new \in TableMetas /\ new.root = old.root /\ new.pk = old.pk
                 /\ new.checks = old.checks /\ new.indexes = old.indexes
                 /\ Len(new.cols) = Len(old.cols) /\ DOMAIN new.cols = DOMAIN old.cols
                 /\ \A i \in DOMAIN old.cols :
                      /\ new.cols[i].name = old.cols[i].name
                      /\ new.cols[i].notNull = old.cols[i].notNull
                      /\ new.cols[i].default = old.cols[i].default
                      /\ new.cols[i].fk = Moved(old.cols[i].fk, n, m)
                 /\ NamesDiffer(new) /\ \A c : Has(new, c) <=> Has(old, c)
                 /\ \A stored \in Seq(Values) : DecodeRow(new, stored) = DecodeRow(old, stored)
  <2>1. CASE o = n
    <3>1. catalog'[After(o)] = catalog[o]
      BY <1>2, <2>1
    <3>2. \A i \in DOMAIN catalog[o].cols : catalog[o].cols[i].fk = Moved(catalog[o].cols[i].fk, n, m)
      BY <1>1, <2>1 DEF SelfReferencing, Moved
    <3> HIDE DEF After
    <3> QED BY <1>3, <3>1, <3>2
  <2>2. CASE o # n
    <3> DEFINE new == catalog'[After(o)]
               fol == Following(catalog[o], n, m)
    <3>1. new = fol
      BY <1>2, <2>2
    <3> HIDE DEF new
    <3>2. catalog[o] \in TableMetas /\ NamesDiffer(catalog[o]) /\ n \in Names /\ m \in Names
      BY <1>3
    <3>3. /\ fol \in TableMetas /\ fol.root = catalog[o].root /\ fol.pk = catalog[o].pk
          /\ fol.checks = catalog[o].checks /\ fol.indexes = catalog[o].indexes
          /\ Len(fol.cols) = Len(catalog[o].cols) /\ DOMAIN fol.cols = DOMAIN catalog[o].cols
          /\ \A i \in DOMAIN catalog[o].cols :
               /\ fol.cols[i].name = catalog[o].cols[i].name
               /\ fol.cols[i].notNull = catalog[o].cols[i].notNull
               /\ fol.cols[i].default = catalog[o].cols[i].default
               /\ fol.cols[i].fk = Moved(catalog[o].cols[i].fk, n, m)
          /\ NamesDiffer(fol) /\ \A c : Has(fol, c) <=> Has(catalog[o], c)
          /\ \A stored \in Seq(Values) : DecodeRow(fol, stored) = DecodeRow(catalog[o], stored)
      BY ONLY <3>2, FollowingFacts
    <3> HIDE DEF fol
    <3>4. catalog'[After(o)] = fol
      BY <3>1 DEF new
    <3> HIDE DEF After
    <3> QED BY <3>3, <3>4
  <2> QED BY <2>1, <2>2
<1>5. Tables' = (Tables \ {n}) \cup {m}
  <2>1. ASSUME NEW o \in Names
        PROVE  catalog'[o].kind = "table" <=> o \in (Tables \ {n}) \cup {m}
    <3>1. CASE o \in Tables /\ o # n
      <4>1. catalog'[o] \in TableMetas
        BY <1>4, <3>1
      <4> QED BY <3>1, <4>1, MetaFacts
    <3>2. CASE o = m
      BY <1>2, <1>3, <1>1, <3>2
    <3>3. CASE o = n
      BY <1>1, <1>2, <3>3 DEF NoObject
    <3>4. CASE o \notin Tables /\ o # m
      BY <1>2, <3>4 DEF Tables, IsTable
    <3> QED BY <3>1, <3>2, <3>3, <3>4
  <2> QED BY <1>1, <2>1 DEF Tables, IsTable
<1>6. /\ \A o \in Tables' : Before(o) \in Tables /\ After(Before(o)) = o
      /\ \A o \in Tables : After(o) \in Tables' /\ Before(After(o)) = o
  BY <1>1, <1>5
<1> HIDE DEF After, Before
<1>7. CatalogOK'
  <2>1. ASSUME NEW o \in Names
        PROVE  catalog'[o].kind \in Kinds /\ (o \in Tables' => catalog'[o] \in TableMetas)
    <3>1. CASE o \in Tables'
      <4>1. catalog'[o] \in TableMetas
        BY <1>4, <1>6, <3>1
      <4> QED BY <4>1, MetaFacts DEF Kinds
    <3>2. CASE o \notin Tables'
      BY <1>2, <1>5, <3>2 DEF NoObject, Kinds, IInv, CatalogOK
    <3> QED BY <3>1, <3>2
  <2>2. \A o \in Names : (o \in Tables' <=> IsTable(o)')
    BY DEF Tables
  <2> QED BY <1>2, <2>1, <2>2 DEF CatalogOK
<1>8. StoreOK'
  BY <1>1 DEF IInv, StoreOK
<1>9. RootsOK'
  <2>1. ASSUME NEW o \in Tables'
        PROVE  /\ Before(o) \in Tables /\ catalog'[o].root = catalog[Before(o)].root
               /\ catalog'[o].indexes = catalog[Before(o)].indexes
    BY <1>4, <1>6
  <2>2. ASSUME NEW o \in Tables', NEW q \in Tables', Before(o) = Before(q)
        PROVE  o = q
    <3>1. After(Before(o)) = o /\ After(Before(q)) = q
      BY <1>6
    <3> QED BY <2>2, <3>1
  <2>3. ASSUME NEW o \in Tables'
        PROVE  /\ catalog'[o].root \in DOMAIN rows'
               /\ \A ix \in catalog'[o].indexes : ix.root \in DOMAIN entries'
    BY <1>1, <2>1 DEF IInv, RootsOK
  <2>4. ASSUME NEW o \in Tables', NEW q \in Tables', catalog'[o].root = catalog'[q].root
        PROVE  o = q
    BY <2>1, <2>2, <2>4 DEF IInv, RootsOK
  <2>5. ASSUME NEW o \in Tables', NEW q \in Tables',
               NEW ix \in catalog'[o].indexes, NEW iy \in catalog'[q].indexes, ix.root = iy.root
        PROVE  o = q /\ ix = iy
    BY <2>1, <2>2, <2>5 DEF IInv, RootsOK
  <2> QED BY <2>3, <2>4, <2>5 DEF RootsOK
<1>10. \A o \in Tables : \A i \in DOMAIN catalog[o].cols : catalog[o].cols[i].fk # NoFk =>
         /\ catalog[o].cols[i].fk \in ForeignKeys
         /\ Resolves(catalog[o].cols[i].fk, ValuesOf(told[catalog[o].root], catalog[o].cols[i].name))
  BY <1>3, MetaFacts DEF IInv, RefsOK
<1>11. RefsOK'
  <2>1. ASSUME NEW o \in Tables', NEW i \in DOMAIN catalog'[o].cols, catalog'[o].cols[i].fk # NoFk
        PROVE  Resolves(catalog[o].cols[i].fk, ValuesOf(told[catalog[o].root], catalog[o].cols[i].name))'
    <3> DEFINE b  == Before(o)
               fk == catalog[b].cols[i].fk
    <3>1. /\ b \in Tables /\ i \in DOMAIN catalog[b].cols /\ catalog'[o].root = catalog[b].root
          /\ catalog'[o].cols[i].name = catalog[b].cols[i].name
          /\ catalog'[o].cols[i].fk = Moved(fk, n, m)
      BY <1>4, <1>6
    <3>2. fk # NoFk
      BY <2>1, <3>1, SchemaAssumption DEF Moved, NoFk
    <3>3. /\ fk.table \in Tables /\ catalog[fk.table].pk = fk.column
          /\ \A v \in ValuesOf(told[catalog[b].root], catalog[b].cols[i].name) :
               v # Null => v \in DOMAIN told[catalog[fk.table].root]
      BY <1>10, <3>1, <3>2 DEF Resolves
    <3>4. Moved(fk, n, m).table = After(fk.table) /\ Moved(fk, n, m).column = fk.column
      BY DEF Moved, After
    <3>5. /\ After(fk.table) \in Tables' /\ catalog'[After(fk.table)].pk = catalog[fk.table].pk
          /\ catalog'[After(fk.table)].root = catalog[fk.table].root
      BY <1>4, <1>6, <3>3
    <3>6. told' = told
      BY <1>1
    <3> HIDE DEF b, fk
    <3> QED BY <3>1, <3>3, <3>4, <3>5, <3>6 DEF Resolves
  <2> QED BY <2>1 DEF RefsOK
<1>12. HeldOK'
  <2>1. SUFFICES ASSUME held # Nobody PROVE HeldOK'
    BY <1>1 DEF HeldOK
  <2> DEFINE t == held.table
             x == held.meta
  <2>2. /\ t \in Tables /\ x \in TableMetas /\ SameTable(x, catalog[t])
        /\ \A c \in DOMAIN held.stated : held.stated[c] \in Values
    BY <2>1 DEF IInv, HeldOK
  <2>3. t # n /\ t # m /\ \A i \in DOMAIN x.cols : x.cols[i].fk.table # n
    BY <1>1, <2>1 DEF Unheld, Unreferenced, Supported
  <2>4. After(t) = t /\ t \in Tables'
    BY <1>5, <2>2, <2>3 DEF After
  <2>5. DOMAIN x.cols = 1..Len(x.cols) /\ DOMAIN catalog[t].cols = 1..Len(catalog[t].cols)
    BY <1>3, <2>2, MetaFacts
  <2>6. SameTable(x, catalog'[t])
    <3>1. /\ catalog'[t].root = catalog[t].root /\ catalog'[t].pk = catalog[t].pk
          /\ catalog'[t].checks = catalog[t].checks /\ catalog'[t].indexes = catalog[t].indexes
          /\ Len(catalog'[t].cols) = Len(catalog[t].cols)
          /\ \A i \in DOMAIN catalog[t].cols :
               /\ catalog'[t].cols[i].name = catalog[t].cols[i].name
               /\ catalog'[t].cols[i].notNull = catalog[t].cols[i].notNull
               /\ catalog'[t].cols[i].default = catalog[t].cols[i].default
               /\ catalog'[t].cols[i].fk = Moved(catalog[t].cols[i].fk, n, m)
      BY <1>4, <2>2, <2>4
    <3>2. \A i \in DOMAIN catalog[t].cols : catalog'[t].cols[i].fk.table = catalog[t].cols[i].fk.table
      BY <2>2, <2>3, <2>5, <3>1 DEF SameTable, Moved
    <3> HIDE DEF t, x
    <3> QED BY <2>2, <2>5, <3>1, <3>2 DEF SameTable
  <2> QED BY <1>1, <2>2, <2>4, <2>6 DEF HeldOK
<1>13. \A o \in Tables' : MetaOK(catalog'[o]) /\ TableOK(catalog'[o], rows', entries', told')
  <2>1. ASSUME NEW o \in Tables'
        PROVE  MetaOK(catalog'[o]) /\ TableOK(catalog'[o], rows', entries', told')
    <3> DEFINE b == Before(o)
    <3>1. /\ b \in Tables /\ catalog'[o].root = catalog[b].root /\ catalog'[o].pk = catalog[b].pk
          /\ catalog'[o].checks = catalog[b].checks /\ catalog'[o].indexes = catalog[b].indexes
          /\ Len(catalog'[o].cols) = Len(catalog[b].cols)
          /\ NamesDiffer(catalog'[o]) /\ \A c : Has(catalog'[o], c) <=> Has(catalog[b], c)
          /\ \A stored \in Seq(Values) :
               DecodeRow(catalog'[o], stored) = DecodeRow(catalog[b], stored)
      BY <1>4, <1>6
    <3>2. MetaOK(catalog[b]) /\ TableOK(catalog[b], rows, entries, told)
      BY <1>3, <3>1
    <3>3. \A k \in DOMAIN rows[catalog[b].root] : rows[catalog[b].root][k] \in Seq(Values)
      BY <3>1 DEF IInv, RootsOK, StoreOK
    <3>4. MetaOK(catalog'[o])
      BY <3>1, <3>2 DEF MetaOK
    <3>5. TableOK(catalog'[o], rows, entries, told)
      BY <3>1, <3>2, <3>3 DEF TableOK
    <3> QED BY <1>1, <3>4, <3>5
  <2> QED BY <2>1
<1> QED BY <1>7, <1>8, <1>9, <1>11, <1>12, <1>13 DEF IInv

LEMMA RenamedFacts ==
  ASSUME NEW x, NEW c, NEW d
  PROVE  /\ x = c => Renamed(x, c, d) = d
         /\ x # c => Renamed(x, c, d) = x
         /\ x # d => Renamed(Renamed(x, c, d), d, c) = x
BY DEF Renamed

\* The table's own description under the new name.
LEMMA RenamedInFacts ==
  ASSUME NEW tab \in TableMetas, MetaOK(tab), NEW c \in Columns, NEW d \in Columns, ~Has(tab, d)
  PROVE  LET meta == RenamedIn(tab, c, d) IN
         /\ meta \in TableMetas /\ meta.root = tab.root /\ meta.pk = Renamed(tab.pk, c, d)
         /\ meta.checks = tab.checks
         /\ Len(meta.cols) = Len(tab.cols) /\ DOMAIN meta.cols = DOMAIN tab.cols
         /\ \A i \in DOMAIN tab.cols :
              /\ meta.cols[i].name = Renamed(tab.cols[i].name, c, d)
              /\ meta.cols[i].default = tab.cols[i].default
              /\ meta.cols[i].fk = tab.cols[i].fk
         /\ NamesDiffer(meta)
         /\ ColumnsOf(meta) = {Renamed(x, c, d) : x \in ColumnsOf(tab)}
         /\ \A jx \in meta.indexes : \E ix \in tab.indexes :
              /\ jx = [ix EXCEPT !.column = Renamed(ix.column, c, d)]
              /\ jx.column = Renamed(ix.column, c, d)
              /\ jx.root = ix.root /\ jx.unique = ix.unique
<1> DEFINE moved(x) == [x EXCEPT !.name = Renamed(@, c, d)]
           shown(ix) == [ix EXCEPT !.column = Renamed(@, c, d)]
           cols == [i \in DOMAIN tab.cols |-> moved(tab.cols[i])]
           idx  == {shown(ix) : ix \in tab.indexes}
           pk   == Renamed(tab.pk, c, d)
           meta == RenamedIn(tab, c, d)
<1>1. ASSUME NEW x \in ColumnMetas
      PROVE  /\ moved(x) \in ColumnMetas /\ moved(x).name = Renamed(x.name, c, d)
             /\ moved(x).default = x.default /\ moved(x).fk = x.fk
  <2> DEFINE e == Renamed(x.name, c, d)
  <2>1. e \in Columns
    BY DEF Renamed, ColumnMetas
  <2>2. moved(x) = [x EXCEPT !.name = e]
    OBVIOUS
  <2> HIDE DEF e, moved
  <2>3. /\ moved(x) \in ColumnMetas /\ moved(x).name = e
        /\ moved(x).default = x.default /\ moved(x).fk = x.fk
    BY <2>1, <2>2 DEF ColumnMetas
  <2> QED BY <2>3 DEF e
<1>2. ASSUME NEW ix \in IndexMetas
      PROVE  /\ shown(ix) \in IndexMetas /\ shown(ix).column = Renamed(ix.column, c, d)
             /\ shown(ix).root = ix.root /\ shown(ix).unique = ix.unique
             /\ shown(ix) = [ix EXCEPT !.column = Renamed(ix.column, c, d)]
  <2> DEFINE e == Renamed(ix.column, c, d)
  <2>1. e \in Columns
    BY DEF Renamed, IndexMetas
  <2>2. shown(ix) = [ix EXCEPT !.column = e]
    OBVIOUS
  <2> HIDE DEF e, shown
  <2>3. /\ shown(ix) \in IndexMetas /\ shown(ix).column = e
        /\ shown(ix).root = ix.root /\ shown(ix).unique = ix.unique
    BY <2>1, <2>2 DEF IndexMetas
  <2> QED BY <2>2, <2>3 DEF e
<1>3. meta = [tab EXCEPT !.cols = cols, !.pk = pk, !.indexes = idx]
  BY DEF RenamedIn
<1>4. /\ tab.pk \in Columns /\ tab.cols \in Seq(ColumnMetas) /\ Len(tab.cols) \in Nat
      /\ DOMAIN tab.cols = 1..Len(tab.cols)
      /\ \A i \in DOMAIN tab.cols : tab.cols[i] \in ColumnMetas
      /\ \A ix \in tab.indexes : ix \in IndexMetas
      /\ NamesDiffer(tab)
  BY MetaFacts DEF MetaOK
<1> HIDE DEF moved, shown, meta
<1>5. pk \in Columns
  BY <1>4 DEF Renamed
<1>6. \A i \in DOMAIN tab.cols :
        /\ cols[i] \in ColumnMetas /\ cols[i].name = Renamed(tab.cols[i].name, c, d)
        /\ cols[i].default = tab.cols[i].default /\ cols[i].fk = tab.cols[i].fk
  BY <1>1, <1>4
<1>7. cols \in Seq(ColumnMetas) /\ Len(cols) = Len(tab.cols)
  <2>1. /\ cols = [i \in 1..Len(tab.cols) |-> cols[i]]
        /\ \A i \in 1..Len(tab.cols) : cols[i] \in ColumnMetas
    BY <1>4, <1>6
  <2>2. Len(tab.cols) \in Nat
    BY <1>4
  <2> HIDE DEF cols
  <2> QED BY ONLY <2>1, <2>2
<1>8. idx \in SUBSET IndexMetas
  BY <1>2, <1>4
<1> HIDE DEF cols, idx, pk
<1>9. /\ meta \in TableMetas /\ meta.root = tab.root /\ meta.pk = pk
      /\ meta.checks = tab.checks /\ meta.cols = cols /\ meta.indexes = idx
      /\ Len(meta.cols) = Len(tab.cols) /\ DOMAIN meta.cols = DOMAIN tab.cols
  <2>1. meta.cols = cols /\ meta.pk = pk /\ meta.indexes = idx
    BY <1>3 DEF TableMetas
  <2>2. meta \in TableMetas /\ meta.root = tab.root /\ meta.checks = tab.checks
    BY <1>3, <1>5, <1>7, <1>8 DEF TableMetas
  <2> QED BY <1>4, <1>7, <2>1, <2>2
<1>10. \A i \in DOMAIN tab.cols : tab.cols[i].name # d
  BY DEF Has
<1>11. NamesDiffer(meta)
  <2>1. ASSUME NEW i \in DOMAIN tab.cols, NEW j \in DOMAIN tab.cols,
               cols[i].name = cols[j].name
        PROVE  i = j
    <3>1. tab.cols[i].name = tab.cols[j].name
      <4>1. Renamed(tab.cols[i].name, c, d) = Renamed(tab.cols[j].name, c, d)
        BY <1>6, <2>1
      <4> QED BY <1>10, <4>1 DEF Renamed
    <3> QED BY <1>4, <3>1 DEF NamesDiffer
  <2> QED BY <1>9, <2>1 DEF NamesDiffer
<1>12. ColumnsOf(meta) = {Renamed(x, c, d) : x \in ColumnsOf(tab)}
  BY <1>6, <1>9 DEF ColumnsOf
<1>13. \A jx \in meta.indexes : \E ix \in tab.indexes :
         /\ jx = [ix EXCEPT !.column = Renamed(ix.column, c, d)]
         /\ jx.column = Renamed(ix.column, c, d)
         /\ jx.root = ix.root /\ jx.unique = ix.unique
  <2>1. ASSUME NEW jx \in meta.indexes
        PROVE  \E ix \in tab.indexes :
                 /\ jx = [ix EXCEPT !.column = Renamed(ix.column, c, d)]
                 /\ jx.column = Renamed(ix.column, c, d)
                 /\ jx.root = ix.root /\ jx.unique = ix.unique
    <3>1. PICK ix \in tab.indexes : jx = shown(ix)
      BY <1>9 DEF idx
    <3>2. /\ jx.column = Renamed(ix.column, c, d) /\ jx.root = ix.root /\ jx.unique = ix.unique
          /\ jx = [ix EXCEPT !.column = Renamed(ix.column, c, d)]
      BY <1>2, <1>4, <3>1
    <3> QED BY <3>2
  <2> QED BY <2>1
<1>14. \A i \in DOMAIN tab.cols :
         /\ meta.cols[i].name = Renamed(tab.cols[i].name, c, d)
         /\ meta.cols[i].default = tab.cols[i].default /\ meta.cols[i].fk = tab.cols[i].fk
  BY <1>6, <1>9
<1> QED BY <1>9, <1>11, <1>12, <1>13, <1>14 DEF meta, pk

LEMMA RenameColumnStep ==
  ASSUME IInv, Supported, NEW n \in Names, NEW c \in Columns, NEW d \in Columns,
         RenameColumn(n, c, d)
  PROVE  IInv'
<1> DEFINE tab  == catalog[n]
           root == tab.root
           seen == told[root]
           now  == told'[root]
           meta == RenamedIn(tab, c, d)
<1>1. /\ n \in Tables /\ Unheld(n) /\ ~Has(tab, d)
      /\ \A ck \in tab.checks : ck.column # c
      /\ ~(SelfReferencing(n) /\ c = tab.pk)
      /\ rows' = rows /\ entries' = entries /\ pages' = pages /\ held' = held
  BY DEF RenameColumn, Tables, Unchecked, Supported, store
<1>2. /\ catalog' = [o \in Names |-> catalog'[o]] /\ catalog'[n] = meta
      /\ \A o \in Tables \ {n} : catalog'[o] = RenamedTarget(catalog[o], n, c, d)
      /\ \A o \in Names \ Tables : catalog'[o] = catalog[o]
  <2>1. catalog' = [o \in Names |-> CASE o = n -> meta
                                      [] o \in Tables \ {n} -> RenamedTarget(catalog[o], n, c, d)
                                      [] OTHER -> catalog[o]]
    BY DEF RenameColumn
  <2> HIDE DEF meta
  <2>2. \A o \in Names :
          /\ o = n => catalog'[o] = meta
          /\ o \in Tables \ {n} => catalog'[o] = RenamedTarget(catalog[o], n, c, d)
          /\ o \notin Tables => catalog'[o] = catalog[o]
    BY <1>1, <2>1
  <2>3. catalog' = [o \in Names |-> catalog'[o]]
    BY <2>1
  <2>4. Tables \subseteq Names
    BY DEF Tables
  <2> QED BY <2>2, <2>3, <2>4
<1>3. \A o \in Tables : /\ o \in Names /\ catalog[o] \in TableMetas /\ MetaOK(catalog[o])
                        /\ NamesDiffer(catalog[o]) /\ TableOK(catalog[o], rows, entries, told)
                        /\ catalog[o].kind = "table" /\ catalog[o].root \in DOMAIN rows
  BY SeenFacts, MetaFacts DEF MetaOK
<1>4. /\ DOMAIN seen = DOMAIN rows[root] /\ root \in DOMAIN told /\ DOMAIN told = DOMAIN rows
      /\ \A k \in DOMAIN seen : k \in Keys /\ rows[root][k] \in Seq(Values)
  BY <1>1, SeenFacts DEF KeysOf, IInv, StoreOK
<1>5. /\ meta \in TableMetas /\ meta.root = root /\ meta.pk = Renamed(tab.pk, c, d)
      /\ meta.checks = tab.checks
      /\ Len(meta.cols) = Len(tab.cols) /\ DOMAIN meta.cols = DOMAIN tab.cols
      /\ \A i \in DOMAIN tab.cols :
           /\ meta.cols[i].name = Renamed(tab.cols[i].name, c, d)
           /\ meta.cols[i].default = tab.cols[i].default
           /\ meta.cols[i].fk = tab.cols[i].fk
      /\ NamesDiffer(meta)
      /\ ColumnsOf(meta) = {Renamed(x, c, d) : x \in ColumnsOf(tab)}
      /\ \A jx \in meta.indexes : \E ix \in tab.indexes :
           /\ jx = [ix EXCEPT !.column = Renamed(ix.column, c, d)]
           /\ jx.column = Renamed(ix.column, c, d)
           /\ jx.root = ix.root /\ jx.unique = ix.unique
  <2>1. tab \in TableMetas /\ MetaOK(tab)
    BY <1>1, <1>3
  <2> HIDE DEF tab
  <2> QED BY <1>1, <2>1, RenamedInFacts DEF root
<1>6. /\ \A r \in DOMAIN told : r # root => told'[r] = told[r]
      /\ DOMAIN told' = DOMAIN told
      /\ now = [k \in DOMAIN seen |-> [x \in ColumnsOf(meta) |-> seen[k][Renamed(x, d, c)]]]
  <2>1. told' = [told EXCEPT ![meta.root] =
                   [k \in DOMAIN @ |-> [x \in ColumnsOf(meta) |-> @[k][Renamed(x, d, c)]]]]
    BY DEF RenameColumn
  <2> HIDE DEF meta
  <2> QED BY <1>4, <1>5, <2>1
<1> HIDE DEF meta
<1>7. ASSUME NEW o \in Tables \ {n}
      PROVE  LET old == catalog[o]
                 new == catalog'[o]
             IN  /\ new \in TableMetas /\ new.root = old.root /\ new.pk = old.pk
                 /\ new.checks = old.checks /\ new.indexes = old.indexes
                 /\ Len(new.cols) = Len(old.cols) /\ DOMAIN new.cols = DOMAIN old.cols
                 /\ \A i \in DOMAIN old.cols :
                      /\ new.cols[i].name = old.cols[i].name
                      /\ new.cols[i].notNull = old.cols[i].notNull
                      /\ new.cols[i].default = old.cols[i].default
                      /\ new.cols[i].fk = Recolumned(old.cols[i].fk, n, c, d)
                 /\ NamesDiffer(new) /\ \A e : Has(new, e) <=> Has(old, e)
                 /\ \A stored \in Seq(Values) : DecodeRow(new, stored) = DecodeRow(old, stored)
  <2> DEFINE tgt == RenamedTarget(catalog[o], n, c, d)
             old == catalog[o]
  <2>1. old \in TableMetas /\ NamesDiffer(old)
    BY <1>3
  <2>2. /\ tgt \in TableMetas /\ tgt.root = old.root /\ tgt.pk = old.pk
        /\ tgt.checks = old.checks /\ tgt.indexes = old.indexes
        /\ Len(tgt.cols) = Len(old.cols) /\ DOMAIN tgt.cols = DOMAIN old.cols
        /\ \A i \in DOMAIN old.cols :
             /\ tgt.cols[i].name = old.cols[i].name
             /\ tgt.cols[i].notNull = old.cols[i].notNull
             /\ tgt.cols[i].default = old.cols[i].default
             /\ tgt.cols[i].fk = Recolumned(old.cols[i].fk, n, c, d)
        /\ NamesDiffer(tgt) /\ \A e : Has(tgt, e) <=> Has(old, e)
        /\ \A stored \in Seq(Values) : DecodeRow(tgt, stored) = DecodeRow(old, stored)
    BY ONLY <2>1, n \in Names, c \in Columns, d \in Columns, RenamedTargetFacts
  <2>3. catalog'[o] = tgt
    BY <1>2
  <2> HIDE DEF tgt
  <2> QED BY <2>2, <2>3
<1>8. ASSUME NEW x \in ColumnsOf(tab), NEW k \in DOMAIN seen
      PROVE  now[k][Renamed(x, c, d)] = seen[k][x]
  <2>1. x # d
    BY <1>1 DEF Has, ColumnsOf
  <2>2. Renamed(Renamed(x, c, d), d, c) = x
    BY <2>1, RenamedFacts
  <2>3. Renamed(x, c, d) \in ColumnsOf(meta)
    BY <1>5
  <2>4. now[k] = [y \in ColumnsOf(meta) |-> seen[k][Renamed(y, d, c)]]
    BY <1>6
  <2> QED BY <2>2, <2>3, <2>4
<1>9. DOMAIN now = DOMAIN seen /\ now = [k \in DOMAIN rows[root] |-> now[k]]
  BY <1>4, <1>6
<1>10. \A k \in DOMAIN seen : /\ now[k] = [x \in ColumnsOf(meta) |-> now[k][x]]
  BY <1>6
<1> HIDE DEF now
<1>11. Tables' = Tables
  <2>1. ASSUME NEW o \in Names
        PROVE  catalog'[o].kind = "table" <=> o \in Tables
    <3>1. CASE o = n
      BY <1>1, <1>2, <1>5, <3>1, MetaFacts
    <3>2. CASE o \in Tables \ {n}
      <4>1. catalog'[o] \in TableMetas
        BY <1>7, <3>2
      <4> QED BY <3>2, <4>1, MetaFacts
    <3>3. CASE o \notin Tables
      BY <1>2, <3>3 DEF Tables, IsTable
    <3> QED BY <3>1, <3>2, <3>3
  <2> QED BY <2>1 DEF Tables, IsTable
<1>12. CatalogOK'
  <2>1. ASSUME NEW o \in Names
        PROVE  catalog'[o].kind \in Kinds /\ (o \in Tables => catalog'[o] \in TableMetas)
    <3>1. CASE o \in Tables
      <4>1. catalog'[o] \in TableMetas
        BY <1>2, <1>5, <1>7, <3>1
      <4> QED BY <4>1, MetaFacts DEF Kinds
    <3>2. CASE o \notin Tables
      BY <1>2, <3>2 DEF IInv, CatalogOK
    <3> QED BY <3>1, <3>2
  <2>2. \A o \in Names : (o \in Tables' <=> IsTable(o)')
    BY DEF Tables
  <2> QED BY <1>2, <1>11, <2>1, <2>2 DEF CatalogOK
<1>13. StoreOK'
  <2>1. /\ pages' \in Nat /\ DOMAIN told' = DOMAIN rows'
        /\ DOMAIN rows' \cup DOMAIN entries' = 1..pages' /\ DOMAIN rows' \cap DOMAIN entries' = {}
        /\ \A r \in DOMAIN entries' : entries'[r] \subseteq Keys \X Keys
        /\ \A r \in DOMAIN rows' : \A k \in DOMAIN rows'[r] : k \in Keys /\ rows'[r][k] \in Seq(Values)
    BY <1>1, <1>6 DEF IInv, StoreOK
  <2>2. ASSUME NEW r \in DOMAIN rows
        PROVE  told'[r] = [k \in DOMAIN rows[r] |-> told'[r][k]]
    <3>1. CASE r = root
      BY <1>9, <3>1 DEF now
    <3>2. CASE r # root
      BY <1>4, <1>6, <3>2 DEF IInv, StoreOK
    <3> QED BY <3>1, <3>2
  <2> QED BY <1>1, <2>1, <2>2 DEF StoreOK
<1>14. ASSUME NEW o \in Tables
       PROVE  /\ catalog'[o].root = catalog[o].root
              /\ catalog'[o].pk = IF o = n THEN Renamed(catalog[o].pk, c, d) ELSE catalog[o].pk
              /\ \A jx \in catalog'[o].indexes : \E ix \in catalog[o].indexes :
                   jx.root = ix.root /\ (o # n => jx = ix)
              /\ DOMAIN told'[catalog[o].root] = DOMAIN told[catalog[o].root]
              /\ o # n => told'[catalog[o].root] = told[catalog[o].root]
  <2>1. CASE o = n
    BY <1>2, <1>5, <1>9, <2>1 DEF now
  <2>2. CASE o # n
    <3>1. catalog[o].root # root /\ catalog[o].root \in DOMAIN told
      BY <1>1, <1>3, <1>4, <2>2 DEF IInv, RootsOK
    <3>2. /\ catalog'[o].root = catalog[o].root /\ catalog'[o].pk = catalog[o].pk
          /\ catalog'[o].indexes = catalog[o].indexes
      BY <1>7, <2>2
    <3> QED BY <1>6, <2>2, <3>1, <3>2
  <2> QED BY <2>1, <2>2
<1>15. RootsOK'
  <2>1. ASSUME NEW o \in Tables
        PROVE  /\ catalog'[o].root \in DOMAIN rows'
               /\ \A ix \in catalog'[o].indexes : ix.root \in DOMAIN entries'
    BY <1>1, <1>14 DEF IInv, RootsOK
  <2>2. ASSUME NEW o \in Tables, NEW q \in Tables, catalog'[o].root = catalog'[q].root
        PROVE  o = q
    BY <1>14, <2>2 DEF IInv, RootsOK
  <2>3. ASSUME NEW o \in Tables, NEW q \in Tables,
               NEW jx \in catalog'[o].indexes, NEW jy \in catalog'[q].indexes, jx.root = jy.root
        PROVE  o = q /\ jx = jy
    <3>1. PICK ix \in catalog[o].indexes : jx.root = ix.root /\ (o # n => jx = ix)
      BY <1>14
    <3>2. PICK iy \in catalog[q].indexes : jy.root = iy.root /\ (q # n => jy = iy)
      BY <1>14
    <3>3. o = q /\ ix = iy
      BY <2>3, <3>1, <3>2 DEF IInv, RootsOK
    <3>4. CASE o # n
      BY <3>1, <3>2, <3>3, <3>4
    <3>5. CASE o = n
      <4>1. jx \in meta.indexes /\ jy \in meta.indexes
        BY <1>2, <3>3, <3>5
      <4>2. PICK ax \in tab.indexes : /\ jx = [ax EXCEPT !.column = Renamed(ax.column, c, d)]
                                      /\ jx.root = ax.root
        BY <1>5, <4>1
      <4>3. PICK ay \in tab.indexes : /\ jy = [ay EXCEPT !.column = Renamed(ay.column, c, d)]
                                      /\ jy.root = ay.root
        BY <1>5, <4>1
      <4>4. ax = ay
        BY <1>1, <2>3, <4>2, <4>3 DEF IInv, RootsOK
      <4> QED BY <3>3, <4>2, <4>3, <4>4
    <3> QED BY <3>4, <3>5
  <2> QED BY <1>11, <2>1, <2>2, <2>3 DEF RootsOK
<1>16. \A o \in Tables : \A i \in DOMAIN catalog[o].cols : catalog[o].cols[i].fk # NoFk =>
         Resolves(catalog[o].cols[i].fk, ValuesOf(told[catalog[o].root], catalog[o].cols[i].name))
  BY DEF IInv, RefsOK
<1>17. RefsOK'
  <2>1. ASSUME NEW o \in Tables, NEW i \in DOMAIN catalog'[o].cols, catalog'[o].cols[i].fk # NoFk
        PROVE  LET new == catalog'[o].cols[i]
                   values == ValuesOf(told'[catalog'[o].root], new.name)
               IN  /\ new.fk.table \in Tables /\ catalog'[new.fk.table].pk = new.fk.column
                   /\ \A v \in values : v # Null => v \in DOMAIN told'[catalog'[new.fk.table].root]
    <3> DEFINE fk  == catalog[o].cols[i].fk
               nfk == catalog'[o].cols[i].fk
               col == catalog[o].cols[i].name
    <3>1. /\ i \in DOMAIN catalog[o].cols /\ nfk.table = fk.table
          /\ fk # NoFk
          /\ fk.table = n => nfk.column = IF o = n THEN fk.column ELSE Renamed(fk.column, c, d)
          /\ fk.table # n => nfk.column = fk.column
      <4>1. CASE o = n
        <5>1. i \in DOMAIN tab.cols /\ nfk = fk
          BY <1>2, <1>5, <4>1
        <5> QED BY <2>1, <4>1, <5>1
      <4>2. CASE o # n
        <5>1. i \in DOMAIN catalog[o].cols /\ nfk = Recolumned(fk, n, c, d)
          BY <1>7, <4>2
        <5>2. fk # NoFk
          BY <2>1, <5>1, SchemaAssumption DEF Recolumned, NoFk
        <5> QED BY <4>2, <5>1, <5>2 DEF Recolumned
      <4> QED BY <4>1, <4>2
    <3>2. /\ fk.table \in Tables /\ catalog[fk.table].pk = fk.column
          /\ \A v \in ValuesOf(told[catalog[o].root], col) : v # Null => v \in DOMAIN told[catalog[fk.table].root]
      BY <1>16, <3>1 DEF Resolves
    <3>3. catalog'[nfk.table].pk = nfk.column
      <4>1. CASE fk.table # n
        BY <1>14, <3>1, <3>2, <4>1
      <4>2. CASE fk.table = n /\ o # n
        BY <1>14, <3>1, <3>2, <4>2
      <4>3. CASE fk.table = n /\ o = n
        <5>1. SelfReferencing(n)
          BY <3>1, <4>3 DEF SelfReferencing
        <5>2. Renamed(tab.pk, c, d) = tab.pk
          BY <1>1, <5>1 DEF Renamed
        <5> QED BY <1>14, <3>1, <3>2, <4>3, <5>2
      <4> QED BY <4>1, <4>2, <4>3
    <3>4. ValuesOf(told'[catalog'[o].root], catalog'[o].cols[i].name) = ValuesOf(told[catalog[o].root], col)
      <4>1. CASE o = n
        <5>1. catalog'[o].root = root /\ catalog'[o].cols[i].name = Renamed(col, c, d)
          BY <1>2, <1>5, <3>1, <4>1
        <5>2. col \in ColumnsOf(tab)
          BY <3>1, <4>1 DEF ColumnsOf
        <5>3. DOMAIN now = DOMAIN seen /\ \A k \in DOMAIN now : now[k][Renamed(col, c, d)] = seen[k][col]
          BY <1>8, <1>9, <5>2
        <5>4. ValuesOf(now, Renamed(col, c, d)) = ValuesOf(seen, col)
          BY <5>3 DEF ValuesOf
        <5> QED BY <4>1, <5>1, <5>4 DEF now
      <4>2. CASE o # n
        <5>1. catalog'[o].root = catalog[o].root /\ catalog'[o].cols[i].name = col
          BY <1>7, <3>1, <4>2
        <5> QED BY <1>14, <4>2, <5>1
      <4> QED BY <4>1, <4>2
    <3>5. DOMAIN told'[catalog'[nfk.table].root] = DOMAIN told[catalog[fk.table].root]
      BY <1>14, <3>1, <3>2
    <3> HIDE DEF fk, col
    <3> QED BY <3>1, <3>2, <3>3, <3>4, <3>5
  <2>2. ASSUME NEW o \in Tables', NEW i \in DOMAIN catalog'[o].cols, catalog'[o].cols[i].fk # NoFk
        PROVE  Resolves(catalog[o].cols[i].fk, ValuesOf(told[catalog[o].root], catalog[o].cols[i].name))'
    BY <1>11, <2>1, <2>2 DEF Resolves
  <2> QED BY <2>2 DEF RefsOK
<1>18. HeldOK'
  <2>1. SUFFICES ASSUME held # Nobody PROVE HeldOK'
    BY <1>1 DEF HeldOK
  <2> DEFINE t == held.table
             x == held.meta
  <2>2. /\ t \in Tables /\ x \in TableMetas /\ SameTable(x, catalog[t])
        /\ \A e \in DOMAIN held.stated : held.stated[e] \in Values
    BY <2>1 DEF IInv, HeldOK
  <2>3. t # n
    BY <1>1 DEF Unheld, Supported
  <2>4. DOMAIN x.cols = 1..Len(x.cols) /\ DOMAIN catalog[t].cols = 1..Len(catalog[t].cols)
    BY <1>3, <2>2, MetaFacts
  <2>5. SameTable(x, catalog'[t])
    <3>1. /\ catalog'[t].root = catalog[t].root /\ catalog'[t].pk = catalog[t].pk
          /\ catalog'[t].checks = catalog[t].checks /\ catalog'[t].indexes = catalog[t].indexes
          /\ Len(catalog'[t].cols) = Len(catalog[t].cols)
          /\ \A i \in DOMAIN catalog[t].cols :
               /\ catalog'[t].cols[i].name = catalog[t].cols[i].name
               /\ catalog'[t].cols[i].notNull = catalog[t].cols[i].notNull
               /\ catalog'[t].cols[i].default = catalog[t].cols[i].default
               /\ catalog'[t].cols[i].fk = Recolumned(catalog[t].cols[i].fk, n, c, d)
      BY <1>7, <2>2, <2>3
    <3>2. \A fk \in ForeignKeys : Recolumned(fk, n, c, d).table = fk.table
      BY DEF Recolumned, ForeignKeys, NoFk
    <3>3. \A i \in DOMAIN catalog[t].cols : catalog[t].cols[i].fk \in ForeignKeys
      BY <1>3, <2>2, MetaFacts
    <3> HIDE DEF t, x
    <3>4. \A i \in DOMAIN catalog[t].cols : catalog'[t].cols[i].fk.table = catalog[t].cols[i].fk.table
      BY ONLY <3>1, <3>2, <3>3
    <3> QED BY <2>2, <2>4, <3>1, <3>4 DEF SameTable
  <2> QED BY <1>1, <1>11, <2>2, <2>5 DEF HeldOK
<1>19. MetaOK(meta)
  <2>1. tab.pk \in ColumnsOf(tab) /\ (\A ix \in tab.indexes : ix.column \in ColumnsOf(tab))
        /\ (\A ck \in tab.checks : ck.column \in ColumnsOf(tab))
    BY <1>1, <1>3, PositionFacts DEF MetaOK
  <2>2. \A e : e \in ColumnsOf(meta) => Has(meta, e)
    BY DEF ColumnsOf, Has
  <2>3. meta.pk \in ColumnsOf(meta) /\ \A jx \in meta.indexes : jx.column \in ColumnsOf(meta)
    BY <1>5, <2>1
  <2>4. \A ck \in meta.checks : ck.column \in ColumnsOf(meta)
    <3>1. \A ck \in tab.checks : Renamed(ck.column, c, d) = ck.column
      BY <1>1, RenamedFacts
    <3> QED BY <1>5, <2>1, <3>1
  <2> QED BY <1>5, <2>2, <2>3, <2>4 DEF MetaOK
<1>20. TableOK(meta, rows', entries', told')
  <2>1. tab.pk \in ColumnsOf(tab) /\ (\A ix \in tab.indexes : ix.column \in ColumnsOf(tab))
        /\ (\A ck \in tab.checks : ck.column \in ColumnsOf(tab) /\ Renamed(ck.column, c, d) = ck.column)
    BY <1>1, <1>3, PositionFacts, RenamedFacts DEF MetaOK
  <2>2. ASSUME NEW k \in DOMAIN rows[root]
        PROVE  /\ Len(rows[root][k]) <= Len(meta.cols)
               /\ now[k] = DecodeRow(meta, rows[root][k])
               /\ now[k][meta.pk] = k
    <3> DEFINE stored == rows[root][k]
    <3>1. /\ k \in DOMAIN seen /\ stored \in Seq(Values)
      BY <1>4
    <3>2. /\ Len(stored) <= Len(tab.cols) /\ seen[k] = DecodeRow(tab, stored) /\ seen[k][tab.pk] = k
      BY <1>1, <3>1, TableFacts
    <3> HIDE DEF stored
    <3>3. DecodeRow(meta, stored) \in [ColumnsOf(meta) -> Values]
      BY <1>5, <3>1, DecodeFacts
    <3>4. ASSUME NEW y \in ColumnsOf(meta)
          PROVE  DecodeRow(meta, stored)[y] = now[k][y]
      <4>1. PICK i \in DOMAIN meta.cols : meta.cols[i].name = y
        BY DEF ColumnsOf
      <4> DEFINE x == tab.cols[i].name
      <4>2. i \in DOMAIN tab.cols /\ y = Renamed(x, c, d) /\ meta.cols[i].default = tab.cols[i].default
        BY <1>5, <4>1
      <4>3. x \in ColumnsOf(tab)
        BY <4>2 DEF ColumnsOf
      <4>4. DecodeRow(tab, stored)[x] = IF i <= Len(stored) THEN stored[i] ELSE tab.cols[i].default
        BY <1>1, <1>3, <3>1, <4>2, DecodeFacts
      <4>5. DecodeRow(meta, stored)[y] = IF i <= Len(stored) THEN stored[i] ELSE meta.cols[i].default
        BY <1>5, <3>1, <4>1, DecodeFacts
      <4>6. now[k][y] = seen[k][x]
        BY <1>8, <3>1, <4>2, <4>3
      <4> QED BY <3>2, <4>2, <4>4, <4>5, <4>6
    <3>5. now[k] = [y \in ColumnsOf(meta) |-> now[k][y]]
      BY <1>10, <3>1
    <3>6. now[k] = DecodeRow(meta, stored)
      BY <3>3, <3>4, <3>5
    <3>7. now[k][meta.pk] = k
      BY <1>5, <1>8, <2>1, <3>1, <3>2
    <3> QED BY <1>5, <3>2, <3>6, <3>7 DEF stored
  <2>3. ASSUME NEW jx \in meta.indexes
        PROVE  /\ entries[jx.root] = EntriesFor(now, jx.column)
               /\ jx.unique => Distinct(now, jx.column)
    <3>1. PICK ix \in tab.indexes : /\ jx.column = Renamed(ix.column, c, d)
                                    /\ jx.root = ix.root /\ jx.unique = ix.unique
      BY <1>5
    <3>2. /\ entries[ix.root] = EntriesFor(seen, ix.column)
          /\ ix.unique => Distinct(seen, ix.column)
      BY <1>1, TableFacts
    <3>3. DOMAIN now = DOMAIN seen /\ \A k \in DOMAIN now : now[k][jx.column] = seen[k][ix.column]
      BY <1>8, <1>9, <2>1, <3>1
    <3>4. /\ EntriesFor(now, jx.column) = EntriesFor(seen, ix.column)
          /\ Distinct(now, jx.column) <=> Distinct(seen, ix.column)
      <4> HIDE DEF seen
      <4> QED BY ONLY <3>3, ColumnFrame
    <3> QED BY <3>1, <3>2, <3>4
  <2>4. ASSUME NEW ck \in meta.checks, NEW k \in DOMAIN now
        PROVE  now[k][ck.column] # ck.forbids
    <3>1. ck \in tab.checks /\ k \in DOMAIN seen
      BY <1>5, <1>9
    <3>2. now[k][ck.column] = seen[k][ck.column]
      BY <1>8, <2>1, <3>1
    <3>3. seen[k][ck.column] # ck.forbids
      BY <1>1, <3>1, TableFacts
    <3> QED BY <3>2, <3>3
  <2> QED BY <1>1, <1>5, <2>2, <2>3, <2>4 DEF TableOK, now
<1>21. ASSUME NEW o \in Tables
       PROVE  MetaOK(catalog'[o]) /\ TableOK(catalog'[o], rows', entries', told')
  <2>1. CASE o = n
    BY <1>2, <1>19, <1>20, <2>1
  <2>2. CASE o # n
    <3> DEFINE old == catalog[o]
               new == catalog'[o]
    <3>1. /\ new.root = old.root /\ new.pk = old.pk
          /\ new.checks = old.checks /\ new.indexes = old.indexes
          /\ Len(new.cols) = Len(old.cols)
          /\ NamesDiffer(new) /\ \A e : Has(new, e) <=> Has(old, e)
          /\ \A stored \in Seq(Values) : DecodeRow(new, stored) = DecodeRow(old, stored)
      BY <1>7, <2>2
    <3>2. MetaOK(old) /\ TableOK(old, rows, entries, told)
      BY <1>3
    <3>3. \A k \in DOMAIN rows[old.root] : rows[old.root][k] \in Seq(Values)
      BY DEF IInv, RootsOK, StoreOK
    <3>4. told'[old.root] = told[old.root]
      BY <1>14, <2>2
    <3> HIDE DEF old, new
    <3>5. MetaOK(new)
      BY <3>1, <3>2 DEF MetaOK
    <3>6. TableOK(new, rows, entries, told)
      BY <3>1, <3>2, <3>3 DEF TableOK
    <3>7. TableOK(new, rows, entries, told')
      BY <3>1, <3>4, <3>6 DEF TableOK
    <3> QED BY <1>1, <3>5, <3>7 DEF new
  <2> QED BY <2>1, <2>2
<1> QED BY <1>11, <1>12, <1>13, <1>15, <1>17, <1>18, <1>21 DEF IInv

-----------------------------------------------------------------------------
(* New tables.                                                             *)

LEMMA NewTable ==
  ASSUME IInv, Supported, NEW n \in Names, ~IsTable(n), Unheld(n), held' = held,
         NEW meta \in TableMetas, MetaOK(meta), meta.root = pages + 1,
         catalog' = [catalog EXCEPT ![n] = meta],
         NEW stored, NEW seen,
         rows' = Extended(rows, pages + 1, stored), told' = Extended(told, pages + 1, seen),
         DOMAIN entries \subseteq DOMAIN entries',
         \A r \in DOMAIN entries : entries'[r] = entries[r],
         \A ix \in meta.indexes : /\ ix.root \in DOMAIN entries' /\ ix.root \notin DOMAIN entries
                                  /\ \A iy \in meta.indexes : ix.root = iy.root => ix = iy,
         StoreOK', TableOK(meta, rows', entries', told'),
         \A i \in DOMAIN meta.cols : meta.cols[i].fk # NoFk =>
           /\ DOMAIN seen = {}
           /\ IF meta.cols[i].fk.table = n THEN meta.cols[i].fk.column = meta.pk
              ELSE /\ meta.cols[i].fk.table \in Tables
                   /\ catalog[meta.cols[i].fk.table].pk = meta.cols[i].fk.column
  PROVE  IInv'
<1>1. /\ pages + 1 \notin DOMAIN rows /\ pages + 1 \notin DOMAIN told
      /\ DOMAIN told = DOMAIN rows
  <2>1. /\ pages \in Nat /\ DOMAIN rows \subseteq 1..pages /\ DOMAIN told = DOMAIN rows
    BY DEF IInv, StoreOK
  <2> QED BY <2>1
<1>2. /\ DOMAIN rows' = DOMAIN rows \cup {pages + 1}
      /\ \A r \in DOMAIN rows : rows'[r] = rows[r]
  BY <1>1 DEF Extended
<1>3. /\ told'[pages + 1] = seen
      /\ \A r \in DOMAIN rows : told'[r] = told[r]
  BY <1>1 DEF Extended
<1>4. /\ catalog'[n] = meta /\ meta.kind = "table"
      /\ \A m \in Names : m # n => catalog'[m] = catalog[m]
      /\ catalog' = [m \in Names |-> catalog'[m]]
  BY MetaFacts DEF IInv, CatalogOK
<1>5. Tables' = Tables \cup {n} /\ n \notin Tables /\ Tables \subseteq Names
  <2>1. /\ Tables = {m \in Names : catalog[m].kind = "table"}
        /\ Tables' = {m \in Names : catalog'[m].kind = "table"}
    BY DEF Tables, IsTable
  <2>2. \A m \in Names : m # n => (catalog'[m].kind = "table" <=> catalog[m].kind = "table")
    BY <1>4
  <2> QED BY <1>4, <2>1, <2>2 DEF IsTable
<1>6. \A m \in Tables : catalog'[m] = catalog[m]
  BY <1>4, <1>5
<1>7. CatalogOK'
  <2>1. ASSUME NEW m \in Names
        PROVE  catalog'[m].kind \in Kinds /\ (IsTable(m)' => catalog'[m] \in TableMetas)
    <3>1. CASE m = n
      BY <1>4, <3>1 DEF Kinds
    <3>2. CASE m # n
      BY <1>4, <3>2 DEF IInv, CatalogOK, IsTable
    <3> QED BY <3>1, <3>2
  <2> QED BY <1>4, <2>1 DEF CatalogOK
<1>8. \A m \in Tables : /\ catalog[m].root \in DOMAIN rows /\ catalog[m].root # pages + 1
                        /\ \A ix \in catalog[m].indexes : ix.root \in DOMAIN entries
  BY <1>1 DEF IInv, RootsOK
<1>9. RootsOK'
  <2>1. ASSUME NEW o \in Tables'
        PROVE  /\ catalog'[o].root \in DOMAIN rows'
               /\ \A ix \in catalog'[o].indexes : ix.root \in DOMAIN entries'
               /\ \A m \in Tables' : catalog'[o].root = catalog'[m].root => o = m
               /\ \A m \in Tables' : \A ix \in catalog'[o].indexes, iy \in catalog'[m].indexes :
                    ix.root = iy.root => o = m /\ ix = iy
    <3>1. CASE o = n
      <4>1. catalog'[o] = meta
        BY <1>4, <3>1
      <4>2. ASSUME NEW m \in Tables
            PROVE  /\ meta.root # catalog'[m].root
                   /\ \A ix \in meta.indexes, iy \in catalog'[m].indexes : ix.root # iy.root
        BY <1>6, <1>8
      <4> QED BY <1>2, <1>5, <3>1, <4>1, <4>2
    <3>2. CASE o \in Tables
      <4>1. catalog'[o] = catalog[o]
        BY <1>6, <3>2
      <4>2. /\ catalog[o].root # meta.root
            /\ \A ix \in catalog[o].indexes, iy \in meta.indexes : ix.root # iy.root
        BY <1>8, <3>2
      <4>3. ASSUME NEW m \in Tables
            PROVE  /\ catalog[o].root = catalog'[m].root => o = m
                   /\ \A ix \in catalog[o].indexes, iy \in catalog'[m].indexes :
                        ix.root = iy.root => o = m /\ ix = iy
        BY <1>6, <3>2 DEF IInv, RootsOK
      <4> QED BY <1>2, <1>4, <1>5, <1>8, <3>2, <4>1, <4>2, <4>3
    <3> QED BY <1>5, <3>1, <3>2
  <2> QED BY <2>1 DEF RootsOK
<1>10. RefsOK'
  <2>1. ASSUME NEW o \in Tables', NEW i \in DOMAIN catalog'[o].cols, catalog'[o].cols[i].fk # NoFk
        PROVE  LET col == catalog'[o].cols[i] IN
               /\ col.fk.table \in Tables' /\ catalog'[col.fk.table].pk = col.fk.column
               /\ \A v \in ValuesOf(told'[catalog'[o].root], col.name) :
                    v # Null => v \in DOMAIN told'[catalog'[col.fk.table].root]
    <3>1. CASE o = n
      <4>1. catalog'[o] = meta /\ DOMAIN told'[meta.root] = {}
        BY <1>3, <1>4, <2>1, <3>1
      <4>2. ValuesOf(told'[meta.root], meta.cols[i].name) = {}
        BY <4>1 DEF ValuesOf
      <4> QED BY <1>4, <1>5, <1>6, <2>1, <3>1, <4>1, <4>2
    <3>2. CASE o \in Tables
      <4> DEFINE col == catalog[o].cols[i]
      <4>1. catalog'[o] = catalog[o] /\ told'[catalog[o].root] = told[catalog[o].root]
        BY <1>3, <1>6, <1>8, <3>2
      <4>2. Resolves(col.fk, ValuesOf(told[catalog[o].root], col.name))
        BY <2>1, <3>2, <4>1 DEF IInv, RefsOK
      <4>3. col.fk.table \in Tables
        BY <4>2 DEF Resolves
      <4>4. /\ catalog'[col.fk.table] = catalog[col.fk.table]
            /\ told'[catalog[col.fk.table].root] = told[catalog[col.fk.table].root]
        BY <1>3, <1>6, <1>8, <4>3
      <4>5. /\ catalog[col.fk.table].pk = col.fk.column
            /\ \A v \in ValuesOf(told[catalog[o].root], col.name) :
                 v # Null => v \in DOMAIN told[catalog[col.fk.table].root]
        BY <4>2 DEF Resolves
      <4>6. catalog'[o].cols[i] = col /\ told'[catalog'[o].root] = told[catalog[o].root]
        BY <4>1
      <4>7. col.fk.table \in Tables'
        BY <1>5, <4>3
      <4> HIDE DEF col
      <4> QED BY <4>4, <4>5, <4>6, <4>7
    <3> QED BY <1>5, <3>1, <3>2
  <2> QED BY <2>1 DEF RefsOK, Resolves
<1>11. HeldOK'
  BY <1>4, HeldElsewhere
<1>12. ASSUME NEW o \in Tables'
       PROVE  MetaOK(catalog'[o]) /\ TableOK(catalog'[o], rows', entries', told')
  <2>1. CASE o = n
    BY <1>4, <2>1
  <2>2. CASE o \in Tables
    <3>1. /\ catalog'[o] = catalog[o] /\ MetaOK(catalog[o]) /\ TableOK(catalog[o], rows, entries, told)
      BY <1>6, <2>2 DEF IInv
    <3>2. /\ rows'[catalog[o].root] = rows[catalog[o].root]
          /\ told'[catalog[o].root] = told[catalog[o].root]
          /\ \A ix \in catalog[o].indexes : entries'[ix.root] = entries[ix.root]
      BY <1>2, <1>3, <1>8, <2>2
    <3> QED BY <3>1, <3>2, TableFrame
  <2> QED BY <1>5, <2>1, <2>2
<1> QED BY <1>7, <1>9, <1>10, <1>11, <1>12 DEF IInv

LEMMA NewTablePages ==
  ASSUME StoreOK, NEW stored, NEW seen, NEW N \in Nat,
         seen = [k \in DOMAIN stored |-> seen[k]],
         \A k \in DOMAIN stored : k \in Keys /\ stored[k] \in Seq(Values),
         rows' = Extended(rows, pages + 1, stored), told' = Extended(told, pages + 1, seen),
         pages' = pages + 1 + N,
         DOMAIN entries' = DOMAIN entries \cup (pages + 2)..(pages + 1 + N),
         \A r \in DOMAIN entries : entries'[r] = entries[r],
         \A r \in (pages + 2)..(pages + 1 + N) : entries'[r] = {}
  PROVE  /\ StoreOK' /\ rows'[pages + 1] = stored /\ told'[pages + 1] = seen
         /\ \A r \in (pages + 2)..(pages + 1 + N) : r \notin DOMAIN entries
<1>1. /\ pages \in Nat /\ DOMAIN rows \cup DOMAIN entries = 1..pages
      /\ DOMAIN rows \cap DOMAIN entries = {} /\ DOMAIN told = DOMAIN rows
      /\ \A r \in DOMAIN rows :
           /\ told[r] = [k \in DOMAIN rows[r] |-> told[r][k]]
           /\ \A k \in DOMAIN rows[r] : k \in Keys /\ rows[r][k] \in Seq(Values)
      /\ \A r \in DOMAIN entries : entries[r] \subseteq Keys \X Keys
  BY DEF StoreOK
<1>2. /\ pages + 1 \notin 1..pages /\ (1..pages) \cap ((pages + 2)..(pages + 1 + N)) = {}
      /\ pages + 1 \notin (pages + 2)..(pages + 1 + N) /\ pages + 1 + N \in Nat
      /\ 1..(pages + 1 + N) = (1..pages) \cup {pages + 1} \cup (pages + 2)..(pages + 1 + N)
  BY <1>1
<1>3. pages + 1 \notin DOMAIN rows
  BY <1>1, <1>2
<1>4. /\ DOMAIN rows' = DOMAIN rows \cup {pages + 1} /\ rows'[pages + 1] = stored
      /\ \A r \in DOMAIN rows : rows'[r] = rows[r]
  BY <1>3 DEF Extended
<1>5. /\ DOMAIN told' = DOMAIN rows \cup {pages + 1} /\ told'[pages + 1] = seen
      /\ \A r \in DOMAIN rows : told'[r] = told[r]
  BY <1>1, <1>3 DEF Extended
<1>6. /\ DOMAIN rows' \cup DOMAIN entries' = 1..pages' /\ DOMAIN rows' \cap DOMAIN entries' = {}
  BY <1>1, <1>2, <1>4
<1>7. ASSUME NEW r \in DOMAIN rows'
      PROVE  /\ told'[r] = [k \in DOMAIN rows'[r] |-> told'[r][k]]
             /\ \A k \in DOMAIN rows'[r] : k \in Keys /\ rows'[r][k] \in Seq(Values)
  <2>1. CASE r = pages + 1
    BY <1>4, <1>5, <2>1
  <2>2. CASE r \in DOMAIN rows
    BY <1>1, <1>4, <1>5, <2>2
  <2> QED BY <1>4, <2>1, <2>2
<1>8. \A r \in DOMAIN entries' : entries'[r] \subseteq Keys \X Keys
  BY <1>1
<1>9. \A r \in (pages + 2)..(pages + 1 + N) : r \notin DOMAIN entries
  BY <1>1, <1>2
<1>10. pages' \in Nat /\ DOMAIN told' = DOMAIN rows'
  BY <1>2, <1>4, <1>5
<1> QED BY <1>4, <1>5, <1>6, <1>7, <1>8, <1>9, <1>10 DEF StoreOK

LEMMA CreateTableAsStep ==
  ASSUME IInv, Supported, NEW n \in Names, NEW m \in Names, CreateTableAs(n, m)
  PROVE  IInv'
<1> DEFINE from == catalog[m]
           was  == told[from.root]
           col(i) == [name |-> from.cols[i].name, notNull |-> i = 1, default |-> Null, fk |-> NoFk]
           cols == [i \in DOMAIN from.cols |-> col(i)]
           meta == [kind |-> "table", cols |-> cols, pk |-> cols[1].name,
                    root |-> pages + 1, checks |-> {}, indexes |-> {}]
           stored == [k \in KeysOf(from) |-> EncodeRow(meta, was[k])]
<1>1. /\ IsTable(m) /\ ~IsTable(n) /\ Unheld(n) /\ cols[1].name = from.pk
      /\ pages' = pages + 1 /\ entries' = entries /\ held' = held
      /\ catalog' = [catalog EXCEPT ![n] = meta]
      /\ rows' = Extended(rows, pages + 1, [k \in KeysOf(from) |-> EncodeRow(meta, Seen(from)[k])])
      /\ told' = Extended(told, pages + 1, Seen(from))
  BY DEF CreateTableAs, Free, Put, Seen
<1>2. /\ m \in Tables /\ from \in TableMetas /\ MetaOK(from) /\ NamesDiffer(from)
      /\ KeysOf(from) = DOMAIN was /\ Seen(from) = was
      /\ was = [k \in DOMAIN was |-> was[k]]
      /\ \A k \in DOMAIN was : k \in Keys /\ was[k] \in [ColumnsOf(from) -> Values]
                               /\ was[k][from.pk] = k
  <2>1. m \in Tables
    BY <1>1 DEF Tables
  <2> QED BY <2>1, SeenFacts, TableFacts DEF MetaOK
<1>3. /\ from.pk \in Columns /\ Len(from.cols) \in Nat /\ DOMAIN from.cols = 1..Len(from.cols)
      /\ \A i \in DOMAIN from.cols : from.cols[i].name \in Columns
  BY <1>2, MetaFacts
<1>4. pages + 1 \in Nat
  BY DEF IInv, StoreOK
<1>5. \A i \in DOMAIN from.cols :
        /\ cols[i] \in ColumnMetas /\ cols[i].name = from.cols[i].name /\ cols[i].fk = NoFk
  <2>1. \A i : (i = 1) \in BOOLEAN
    OBVIOUS
  <2>2. NoFk \in ForeignKeys /\ Null \in Values
    BY NullFacts DEF ForeignKeys
  <2>3. \A e \in Columns, b \in BOOLEAN :
          [name |-> e, notNull |-> b, default |-> Null, fk |-> NoFk] \in ColumnMetas
    BY <2>2 DEF ColumnMetas
  <2>4. \A i \in DOMAIN from.cols : col(i) \in ColumnMetas
    BY <1>3, <2>1, <2>3
  <2> QED BY <2>4
<1>6. cols \in Seq(ColumnMetas) /\ DOMAIN cols = DOMAIN from.cols /\ Len(cols) = Len(from.cols)
  <2>1. /\ cols = [i \in 1..Len(from.cols) |-> cols[i]] /\ Len(from.cols) \in Nat
        /\ \A i \in 1..Len(from.cols) : cols[i] \in ColumnMetas
        /\ DOMAIN from.cols = 1..Len(from.cols)
    BY <1>3, <1>5
  <2> HIDE DEF cols
  <2> QED BY ONLY <2>1
<1>7. /\ meta \in TableMetas /\ meta.cols = cols /\ meta.pk = from.pk /\ meta.root = pages + 1
      /\ meta.checks = {} /\ meta.indexes = {}
  <2> HIDE DEF cols
  <2> QED BY <1>1, <1>3, <1>4, <1>6 DEF TableMetas
<1> HIDE DEF col, cols, meta
<1>8. MetaOK(meta) /\ NamesDiffer(meta) /\ ColumnsOf(meta) = ColumnsOf(from)
  <2>1. NamesDiffer(meta)
    BY <1>2, <1>5, <1>6, <1>7 DEF NamesDiffer
  <2>2. Has(meta, meta.pk) /\ ColumnsOf(meta) = ColumnsOf(from)
    BY <1>2, <1>5, <1>6, <1>7 DEF MetaOK, Has, ColumnsOf
  <2> QED BY <1>7, <2>1, <2>2 DEF MetaOK
<1>9. \A k \in DOMAIN was :
        /\ EncodeRow(meta, was[k]) \in Seq(Values) /\ Len(EncodeRow(meta, was[k])) = Len(meta.cols)
        /\ DecodeRow(meta, EncodeRow(meta, was[k])) = was[k]
  BY <1>2, <1>7, <1>8, EncodeFacts
<1>10. rows' = Extended(rows, pages + 1, stored) /\ told' = Extended(told, pages + 1, was)
  BY <1>1, <1>2
<1>11. /\ DOMAIN stored = DOMAIN was
       /\ \A k \in DOMAIN was : stored[k] = EncodeRow(meta, was[k])
  BY <1>2
<1> HIDE DEF stored, was
<1>12. /\ StoreOK' /\ rows'[pages + 1] = stored /\ told'[pages + 1] = was
  <2>1. /\ was = [k \in DOMAIN stored |-> was[k]] /\ 0 \in Nat
        /\ \A k \in DOMAIN stored : k \in Keys /\ stored[k] \in Seq(Values)
    BY <1>2, <1>9, <1>11
  <2>2. /\ pages \in Nat /\ StoreOK
    BY DEF IInv, StoreOK
  <2>3. (pages + 2)..(pages + 1 + 0) = {} /\ pages' = pages + 1 + 0
    BY <1>1, <2>2
  <2>4. /\ DOMAIN entries' = DOMAIN entries \cup (pages + 2)..(pages + 1 + 0)
        /\ \A r \in DOMAIN entries : entries'[r] = entries[r]
        /\ \A r \in (pages + 2)..(pages + 1 + 0) : entries'[r] = {}
    BY <1>1, <2>3
  <2> QED BY <1>10, <2>1, <2>2, <2>3, <2>4, NewTablePages
<1>13. TableOK(meta, rows', entries', told')
  <2>1. Len(meta.cols) \in Nat
    BY <1>7, MetaFacts
  <2>2. \A k \in DOMAIN stored : /\ Len(stored[k]) <= Len(meta.cols)
                                 /\ was[k] = DecodeRow(meta, stored[k])
                                 /\ was[k][meta.pk] = k
    BY <1>2, <1>7, <1>9, <1>11, <2>1
  <2>3. \A k \in DOMAIN rows'[meta.root] :
          /\ Len(rows'[meta.root][k]) <= Len(meta.cols)
          /\ told'[meta.root][k] = DecodeRow(meta, rows'[meta.root][k])
          /\ told'[meta.root][k][meta.pk] = k
    BY <1>7, <1>12, <2>2
  <2>4. meta.checks = {} /\ meta.indexes = {}
    BY <1>7
  <2> QED BY <2>3, <2>4 DEF TableOK
<1>14. \A i \in DOMAIN meta.cols : meta.cols[i].fk = NoFk
  BY <1>5, <1>6, <1>7
<1>15. /\ \A i \in DOMAIN meta.cols : meta.cols[i].fk # NoFk =>
             /\ DOMAIN was = {}
             /\ IF meta.cols[i].fk.table = n THEN meta.cols[i].fk.column = meta.pk
                ELSE /\ meta.cols[i].fk.table \in Tables
                     /\ catalog[meta.cols[i].fk.table].pk = meta.cols[i].fk.column
       /\ \A ix \in meta.indexes : /\ ix.root \in DOMAIN entries' /\ ix.root \notin DOMAIN entries
                                    /\ \A iy \in meta.indexes : ix.root = iy.root => ix = iy
  BY <1>7, <1>14
<1>16. /\ IInv /\ Supported /\ ~IsTable(n) /\ Unheld(n) /\ held' = held
       /\ n \in Names /\ meta \in TableMetas /\ MetaOK(meta) /\ meta.root = pages + 1
       /\ catalog' = [catalog EXCEPT ![n] = meta]
       /\ DOMAIN entries \subseteq DOMAIN entries' /\ \A r \in DOMAIN entries : entries'[r] = entries[r]
  BY <1>1, <1>7, <1>8
<1> QED BY ONLY <1>10, <1>12, <1>13, <1>15, <1>16, NewTable

\* The indexes of the UNIQUE columns take the pages after the table's, one each.
LEMMA UniqueIndexFacts ==
  ASSUME NEW n \in Names, NEW shape \in Seq(Definitions), NEW root \in Nat,
         NEW at \in InOrder(Uniques(shape))
  PROVE  LET N   == Cardinality(Uniques(shape))
             idx == UniqueIndexes(n, shape, root, at)
         IN  /\ N \in Nat /\ idx \in SUBSET IndexMetas
             /\ {ix.root : ix \in idx} = (root + 1)..(root + N)
             /\ \A ix, iy \in idx : ix.root = iy.root => ix = iy
             /\ \A ix \in idx : ix.unique /\ \E i \in DOMAIN shape : ix.column = shape[i].name
<1> DEFINE U   == Uniques(shape)
           N   == Cardinality(U)
           idx == UniqueIndexes(n, shape, root, at)
           of(i) == [name |-> UniqueName(n, shape[i].name), column |-> shape[i].name,
                     unique |-> TRUE, root |-> root + at[i]]
<1>1. /\ U \in SUBSET (1..Len(shape)) /\ Len(shape) \in Nat /\ DOMAIN shape = 1..Len(shape)
      /\ \A i \in U : shape[i].name \in Columns
  <2>1. /\ Len(shape) \in Nat /\ DOMAIN shape = 1..Len(shape)
        /\ \A i \in DOMAIN shape : shape[i] \in Definitions
    OBVIOUS
  <2>2. \A x \in Definitions : x.name \in Columns
    BY DEF Definitions
  <2>3. U \in SUBSET (DOMAIN shape)
    BY DEF Uniques
  <2> QED BY <2>1, <2>2, <2>3
<1>2. N \in Nat
  <2>1. IsFiniteSet(1..Len(shape))
    BY <1>1, FS_Interval
  <2>2. IsFiniteSet(U)
    BY <1>1, <2>1, FS_Subset
  <2> HIDE DEF U
  <2> QED BY <2>2, FS_CardinalityType
<1>3. /\ at \in [U -> 1..N]
      /\ \A i, j \in U : at[i] = at[j] => i = j
      /\ \A r \in 1..N : \E i \in U : at[i] = r
  BY DEF InOrder, Bijection, Injection, Surjection, IsInjective
<1>4. idx = {of(i) : i \in U}
  BY DEF UniqueIndexes
<1> HIDE DEF U, N, idx
<1>5. ASSUME NEW i \in U
      PROVE  /\ of(i) \in IndexMetas /\ of(i).root = root + at[i] /\ of(i).unique
             /\ of(i).column = shape[i].name
             /\ of(i).root \in (root + 1)..(root + N)
  <2>1. at[i] \in 1..N /\ shape[i].name \in Columns
    BY <1>1, <1>3
  <2>2. UniqueName(n, shape[i].name) \in IndexNames \cup {"uq"} \X Names \X Columns
    BY <2>1 DEF UniqueName
  <2> QED BY <1>2, <2>1, <2>2 DEF IndexMetas
<1>6. \A i, j \in U : of(i).root = of(j).root => i = j
  <2>1. \A i, j \in U : at[i] \in 1..N /\ at[j] \in 1..N /\ (root + at[i] = root + at[j] => at[i] = at[j])
    BY <1>2, <1>3
  <2> QED BY <1>3, <1>5, <2>1
<1>7. ASSUME NEW r \in (root + 1)..(root + N)
      PROVE  \E i \in U : of(i).root = r
  <2>1. r - root \in 1..N
    BY <1>2
  <2>2. PICK i \in U : at[i] = r - root
    BY <1>3, <2>1
  <2> QED BY <1>5, <2>2
<1> HIDE DEF of
<1>8. {ix.root : ix \in idx} = (root + 1)..(root + N)
  BY <1>4, <1>5, <1>7
<1>9. /\ \A ix, iy \in idx : ix.root = iy.root => ix = iy
      /\ \A ix \in idx : ix.unique /\ \E i \in DOMAIN shape : ix.column = shape[i].name
      /\ idx \in SUBSET IndexMetas
  BY <1>1, <1>4, <1>5, <1>6
<1> QED BY <1>2, <1>8, <1>9 DEF N, U, idx

LEMMA CreateTableStep ==
  ASSUME IInv, Supported, NEW n \in Names, NEW shape \in Shapes, CreateTable(n, shape)
  PROVE  IInv'
<1> DEFINE cols == [i \in DOMAIN shape |-> ColumnOf(shape[i])]
           N == Cardinality(Uniques(shape))
           new == (pages + 2)..(pages + 1 + N)
<1>1. PICK at \in InOrder(Uniques(shape)) :
        LET meta == [kind |-> "table", cols |-> cols, pk |-> shape[1].name, root |-> pages + 1,
                     checks |-> {}, indexes |-> UniqueIndexes(n, shape, pages + 1, at)]
            roots == {ix.root : ix \in meta.indexes}
        IN /\ Statement
           /\ Free(n) /\ Unheld(n)
           /\ WellFormed(meta) /\ FkTargetsExist(n, meta)
           /\ pages' = pages + 1 + N
           /\ pages' <= MaxPages
           /\ rows' = Extended(rows, meta.root, <<>>)
           /\ entries' = [r \in DOMAIN entries \cup roots |-> IF r \in roots THEN {} ELSE entries[r]]
           /\ told' = Extended(told, meta.root, <<>>)
           /\ Put(n, meta)
           /\ UNCHANGED held
  BY DEF CreateTable
<1> DEFINE idx  == UniqueIndexes(n, shape, pages + 1, at)
           meta == [kind |-> "table", cols |-> cols, pk |-> shape[1].name, root |-> pages + 1,
                    checks |-> {}, indexes |-> idx]
<1>2. /\ shape \in Seq(Definitions) /\ Len(shape) \in Nat \ {0} /\ DOMAIN shape = 1..Len(shape)
      /\ \A i \in DOMAIN shape : shape[i] \in Definitions
  BY SchemaAssumption
<1>3. pages \in Nat /\ pages + 1 \in Nat /\ StoreOK
  BY DEF IInv, StoreOK
<1>4. /\ N \in Nat /\ idx \in SUBSET IndexMetas
      /\ {ix.root : ix \in idx} = new
      /\ \A ix, iy \in idx : ix.root = iy.root => ix = iy
      /\ \A ix \in idx : ix.unique /\ \E i \in DOMAIN shape : ix.column = shape[i].name
  <2>1. (pages + 1) + 1 = pages + 2
    BY <1>3
  <2> QED BY <1>2, <1>3, <2>1, UniqueIndexFacts
<1> HIDE DEF idx
<1>5. \A x \in Definitions : /\ ColumnOf(x) \in ColumnMetas /\ ColumnOf(x).name = x.name
                             /\ ColumnOf(x).fk = x.fk /\ x.name \in Columns
  BY DEF Definitions, ColumnOf, ColumnMetas
<1>6. \A i \in DOMAIN shape : cols[i] \in ColumnMetas /\ cols[i].name = shape[i].name
  BY <1>2, <1>5
<1>7. cols \in Seq(ColumnMetas) /\ DOMAIN cols = DOMAIN shape
  <2>1. /\ cols = [i \in 1..Len(shape) |-> cols[i]] /\ Len(shape) \in Nat
        /\ \A i \in 1..Len(shape) : cols[i] \in ColumnMetas
        /\ DOMAIN shape = 1..Len(shape)
    BY <1>2, <1>6
  <2> HIDE DEF cols
  <2> QED BY ONLY <2>1
<1>8. /\ meta \in TableMetas /\ meta.cols = cols /\ meta.root = pages + 1
      /\ meta.checks = {} /\ meta.indexes = idx
  <2>1. shape[1].name \in Columns
    BY <1>2, <1>5
  <2> HIDE DEF cols
  <2> QED BY <1>3, <1>4, <1>7, <2>1 DEF TableMetas
<1>9. /\ ~IsTable(n) /\ Unheld(n) /\ held' = held
      /\ WellFormed(meta) /\ FkTargetsExist(n, meta)
      /\ pages' = pages + 1 + N
      /\ rows' = Extended(rows, pages + 1, <<>>)
      /\ told' = Extended(told, pages + 1, <<>>)
      /\ entries' = [r \in DOMAIN entries \cup new |-> IF r \in new THEN {} ELSE entries[r]]
      /\ catalog' = [catalog EXCEPT ![n] = meta]
  BY <1>1, <1>4 DEF Free, Put, idx
<1> HIDE DEF cols, meta, N
<1>10. MetaOK(meta)
  <2>1. \A ix \in meta.indexes : Has(meta, ix.column)
    BY <1>4, <1>6, <1>7, <1>8 DEF Has
  <2> QED BY <1>8, <1>9, <2>1 DEF MetaOK, NamesDiffer, WellFormed
<1>11. new \cap DOMAIN entries = {}
  <2>1. DOMAIN entries \subseteq 1..pages
    BY <1>3 DEF StoreOK
  <2> QED BY <1>3, <1>4, <2>1
<1>12. /\ DOMAIN entries' = DOMAIN entries \cup new
       /\ \A r \in DOMAIN entries : entries'[r] = entries[r]
       /\ \A r \in new : entries'[r] = {}
  BY <1>9, <1>11
<1>13. StoreOK' /\ rows'[pages + 1] = <<>> /\ told'[pages + 1] = <<>>
  <2>1. DOMAIN (<<>>) = {} /\ <<>> = [k \in DOMAIN (<<>>) |-> (<<>>)[k]]
    OBVIOUS
  <2>2. \A k \in DOMAIN (<<>>) : k \in Keys /\ (<<>>)[k] \in Seq(Values)
    BY <2>1
  <2> QED BY <1>3, <1>4, <1>9, <1>12, <2>1, <2>2, NewTablePages
<1>14. TableOK(meta, rows', entries', told')
  <2>1. \A c : EntriesFor(<<>>, c) = {} /\ Distinct(<<>>, c)
    BY DEF EntriesFor, Distinct
  <2>2. \A ix \in meta.indexes : entries'[ix.root] = {}
    BY <1>4, <1>8, <1>12
  <2>3. DOMAIN rows'[meta.root] = {} /\ DOMAIN told'[meta.root] = {} /\ told'[meta.root] = <<>>
    BY <1>8, <1>13
  <2> QED BY <1>8, <2>1, <2>2, <2>3 DEF TableOK
<1>15. \A i \in DOMAIN meta.cols : meta.cols[i].fk # NoFk =>
         /\ DOMAIN (<<>>) = {}
         /\ IF meta.cols[i].fk.table = n THEN meta.cols[i].fk.column = meta.pk
            ELSE /\ meta.cols[i].fk.table \in Tables
                 /\ catalog[meta.cols[i].fk.table].pk = meta.cols[i].fk.column
  <2>1. ASSUME NEW i \in DOMAIN meta.cols, meta.cols[i].fk # NoFk
        PROVE  IF meta.cols[i].fk.table = n THEN meta.cols[i].fk.column = meta.pk
               ELSE /\ meta.cols[i].fk.table \in Tables
                    /\ catalog[meta.cols[i].fk.table].pk = meta.cols[i].fk.column
    <3>1. meta.cols[i].fk.table \in Names
      BY <1>8, <2>1, MetaFacts, NullFacts
    <3> QED BY <1>9, <2>1, <3>1 DEF FkTargetsExist, Tables
  <2>2. DOMAIN (<<>>) = {}
    OBVIOUS
  <2> QED BY <2>1, <2>2
<1>16. \A ix \in meta.indexes : /\ ix.root \in DOMAIN entries' /\ ix.root \notin DOMAIN entries
                                /\ \A iy \in meta.indexes : ix.root = iy.root => ix = iy
  BY <1>4, <1>8, <1>11, <1>12
<1>17. /\ IInv /\ Supported /\ ~IsTable(n) /\ Unheld(n) /\ held' = held
       /\ n \in Names /\ meta \in TableMetas /\ MetaOK(meta) /\ meta.root = pages + 1
       /\ catalog' = [catalog EXCEPT ![n] = meta]
       /\ rows' = Extended(rows, pages + 1, <<>>) /\ told' = Extended(told, pages + 1, <<>>)
       /\ DOMAIN entries \subseteq DOMAIN entries' /\ \A r \in DOMAIN entries : entries'[r] = entries[r]
  BY <1>8, <1>9, <1>10, <1>12
<1> QED BY ONLY <1>13, <1>14, <1>15, <1>16, <1>17, NewTable

-----------------------------------------------------------------------------
(* Inserts.                                                                *)

LEMMA ProposedFacts ==
  ASSUME NEW meta \in TableMetas, MetaOK(meta), NEW stated,
         \A c \in DOMAIN stated : stated[c] \in Values
  PROVE  Proposed(meta, stated) \in [ColumnsOf(meta) -> Values]
<1>1. ASSUME NEW c \in ColumnsOf(meta)
      PROVE  Column(meta, c).default \in Values
  <2>1. Position(meta, c) \in DOMAIN meta.cols
    BY PositionFacts DEF MetaOK
  <2> QED BY <2>1, MetaFacts DEF Column
<1> QED BY <1>1 DEF Proposed

LEMMA SameSchema ==
  ASSUME IInv, UNCHANGED <<catalog, store, told>>, HeldOK'
  PROVE  IInv'
<1>1. /\ catalog' = catalog /\ rows' = rows /\ entries' = entries /\ pages' = pages /\ told' = told
  BY DEF store
<1>2. Tables' = Tables
  BY <1>1 DEF Tables, IsTable
<1>3. CatalogOK'
  BY <1>1 DEF IInv, CatalogOK, IsTable
<1>4. StoreOK'
  BY <1>1 DEF IInv, StoreOK
<1>5. RootsOK'
  BY <1>1, <1>2 DEF IInv, RootsOK
<1>6. RefsOK'
  BY <1>1, <1>2 DEF IInv, RefsOK, Resolves
<1>7. \A n \in Tables' : MetaOK(catalog'[n]) /\ TableOK(catalog'[n], rows', entries', told')
  BY <1>1, <1>2 DEF IInv
<1> QED BY <1>3, <1>4, <1>5, <1>6, <1>7 DEF IInv

LEMMA InsertStep ==
  ASSUME IInv, NEW n \in Names, NEW C \in SUBSET Columns, NEW stated \in [C -> Values],
         Insert(n, stated)
  PROVE  IInv'
<1> DEFINE meta == catalog[n]
           row  == Proposed(meta, stated)
<1>1. IsTable(n) /\ Write(meta, row) /\ held' = held
  BY DEF Insert
<1>2. n \in Tables /\ meta \in TableMetas /\ MetaOK(meta)
  <2>1. n \in Tables
    BY <1>1 DEF Tables
  <2> QED BY <2>1, SeenFacts
<1>3. row \in [ColumnsOf(meta) -> Values]
  BY <1>2, ProposedFacts
<1>4. SameTable(meta, catalog[n])
  BY DEF SameTable
<1>5. catalog' = catalog
  BY <1>1 DEF Write
<1>6. HeldOK'
  BY <1>1, <1>5, HeldFrame DEF IInv
<1> HIDE DEF meta, row
<1> QED BY <1>1, <1>2, <1>3, <1>4, <1>6, WriteStep

LEMMA BeginInsertStep ==
  ASSUME IInv, NEW n \in Names, NEW C \in SUBSET Columns, NEW stated \in [C -> Values],
         BeginInsert(n, stated)
  PROVE  IInv'
<1>1. /\ IsTable(n) /\ held' = [table |-> n, meta |-> catalog[n], stated |-> stated]
      /\ UNCHANGED <<catalog, store, told>> /\ catalog' = catalog
  BY DEF BeginInsert
<1>2. n \in Tables /\ catalog[n] \in TableMetas /\ Tables' = Tables
  BY <1>1 DEF IInv, CatalogOK, Tables, IsTable
<1>3. SameTable(catalog[n], catalog[n])
  BY DEF SameTable
<1>4. HeldOK'
  BY <1>1, <1>2, <1>3 DEF HeldOK
<1> QED BY <1>1, <1>4, SameSchema

LEMMA FinishInsertStep ==
  ASSUME IInv, FinishInsert
  PROVE  IInv'
<1> DEFINE n    == held.table
           meta == held.meta
           row  == Proposed(meta, held.stated)
<1>1. Write(meta, row) /\ held # Nobody /\ held' = Nobody
  BY DEF FinishInsert
<1>2. /\ n \in Tables /\ meta \in TableMetas /\ SameTable(meta, catalog[n])
      /\ \A c \in DOMAIN held.stated : held.stated[c] \in Values
  BY <1>1 DEF IInv, HeldOK
<1>3. MetaOK(meta)
  <2>1. catalog[n] \in TableMetas /\ MetaOK(catalog[n])
    BY <1>2, SeenFacts
  <2> QED BY <1>2, <2>1, SameFacts
<1>4. row \in [ColumnsOf(meta) -> Values]
  BY <1>2, <1>3, ProposedFacts
<1>5. HeldOK'
  BY <1>1 DEF HeldOK
<1> HIDE DEF n, meta, row
<1> QED BY <1>1, <1>2, <1>4, <1>5, WriteStep

LEMMA RefuseInsertStep ==
  ASSUME IInv, RefuseInsert
  PROVE  IInv'
<1>1. UNCHANGED <<catalog, store, told>> /\ held' = Nobody
  BY DEF RefuseInsert
<1>2. HeldOK'
  BY <1>1 DEF HeldOK
<1> QED BY <1>1, <1>2, SameSchema

-----------------------------------------------------------------------------
(* The specification.                                                      *)

LEMMA InitInv == Init => IInv
<1> SUFFICES ASSUME Init PROVE IInv
  OBVIOUS
<1>1. /\ catalog = [n \in Names |-> NoObject] /\ rows = <<>> /\ entries = <<>> /\ pages = 0
      /\ held = Nobody /\ told = <<>>
  BY DEF Init
<1>2. \A n \in Names : catalog[n].kind = "none"
  BY <1>1 DEF NoObject
<1>3. Tables = {}
  BY <1>2 DEF Tables, IsTable
<1>4. CatalogOK
  BY <1>1, <1>2 DEF CatalogOK, Kinds, IsTable
<1>5. StoreOK
  BY <1>1 DEF StoreOK
<1> QED BY <1>1, <1>3, <1>4, <1>5 DEF IInv, RootsOK, RefsOK, HeldOK

LEMMA ObjectStep ==
  ASSUME IInv, Supported, NEW n \in Names,
         \/ \E m \in Names : CreateTrigger(n, m)
         \/ CreateView(n) \/ DropView(n) \/ DropTrigger(n)
         \/ CreateProcedure(n) \/ DropProcedure(n) \/ CreateFunction(n) \/ DropFunction(n)
  PROVE  IInv'
<1>1. CASE \E m \in Names : CreateTrigger(n, m)
  <2>1. PICK m \in Names : Create(n, [kind |-> "trigger", table |-> m])
    BY <1>1 DEF CreateTrigger
  <2>2. [kind |-> "trigger", table |-> m].kind \in Kinds \ {"table"}
    BY DEF Kinds
  <2> QED BY <2>1, <2>2, CreateStep
<1>2. ASSUME NEW kind \in Kinds \ {"table"}, Create(n, [kind |-> kind])
      PROVE  IInv'
  <2>1. [kind |-> kind].kind \in Kinds \ {"table"}
    OBVIOUS
  <2> QED BY <1>2, <2>1, CreateStep
<1>3. ASSUME NEW kind \in Kinds \ {"table"}, Drop(n, kind)
      PROVE  IInv'
  BY <1>3, DropStep
<1>4. /\ "view" \in Kinds \ {"table"} /\ "trigger" \in Kinds \ {"table"}
      /\ "procedure" \in Kinds \ {"table"} /\ "function" \in Kinds \ {"table"}
  BY DEF Kinds
<1>5. CASE CreateView(n)
  BY <1>2, <1>4, <1>5 DEF CreateView
<1>6. CASE CreateProcedure(n)
  BY <1>2, <1>4, <1>6 DEF CreateProcedure
<1>7. CASE CreateFunction(n)
  BY <1>2, <1>4, <1>7 DEF CreateFunction
<1>8. CASE DropView(n)
  BY <1>3, <1>4, <1>8 DEF DropView
<1>9. CASE DropTrigger(n)
  BY <1>3, <1>4, <1>9 DEF DropTrigger
<1>10. CASE DropProcedure(n)
  BY <1>3, <1>4, <1>10 DEF DropProcedure
<1>11. CASE DropFunction(n)
  BY <1>3, <1>4, <1>11 DEF DropFunction
<1> QED BY <1>1, <1>5, <1>6, <1>7, <1>8, <1>9, <1>10, <1>11

LEMMA StatementStep ==
  ASSUME IInv, Supported, NEW n \in Names,
         \/ \E shape \in Shapes : CreateTable(n, shape)
         \/ \E m \in Names : CreateTableAs(n, m) \/ RenameTable(n, m) \/ CreateTrigger(n, m)
         \/ DropTable(n) \/ DropConstraint(n)
         \/ \E d \in Additions : AddColumn(n, d)
         \/ \E c \in Columns : DropColumn(n, c)
         \/ \E c, d \in Columns : RenameColumn(n, c, d)
         \/ \E c \in Columns, v \in Keys : AddCheck(n, c, v)
         \/ \E x \in IndexNames, c \in Columns, u \in BOOLEAN : CreateIndex(n, x, c, u)
         \/ CreateView(n) \/ DropView(n) \/ DropTrigger(n)
         \/ CreateProcedure(n) \/ DropProcedure(n) \/ CreateFunction(n) \/ DropFunction(n)
         \/ \E C \in SUBSET Columns : \E stated \in [C -> Values] : Insert(n, stated) \/ BeginInsert(n, stated)
         \/ \E k \in Keys : Delete(n, k) \/ \E c \in Columns, v \in Values : Update(n, k, c, v)
  PROVE  IInv'
<1>1. CASE \E shape \in Shapes : CreateTable(n, shape)
  BY <1>1, CreateTableStep
<1>2. CASE \E m \in Names : CreateTableAs(n, m)
  BY <1>2, CreateTableAsStep
<1>3. CASE \E m \in Names : RenameTable(n, m)
  BY <1>3, RenameTableStep
<1>4. CASE DropTable(n)
  BY <1>4, DropTableStep
<1>5. CASE DropConstraint(n)
  BY <1>5, DropConstraintStep
<1>6. CASE \E d \in Additions : AddColumn(n, d)
  BY <1>6, AddColumnStep, SchemaAssumption
<1>7. CASE \E c \in Columns : DropColumn(n, c)
  BY <1>7, DropColumnStep
<1>8. CASE \E c, d \in Columns : RenameColumn(n, c, d)
  BY <1>8, RenameColumnStep
<1>9. CASE \E c \in Columns, v \in Keys : AddCheck(n, c, v)
  BY <1>9, AddCheckStep
<1>10. CASE \E x \in IndexNames, c \in Columns, u \in BOOLEAN : CreateIndex(n, x, c, u)
  BY <1>10, CreateIndexStep
<1>11. CASE \/ \E m \in Names : CreateTrigger(n, m)
            \/ CreateView(n) \/ DropView(n) \/ DropTrigger(n)
            \/ CreateProcedure(n) \/ DropProcedure(n) \/ CreateFunction(n) \/ DropFunction(n)
  BY <1>11, ObjectStep
<1>12. CASE \E C \in SUBSET Columns : \E stated \in [C -> Values] : Insert(n, stated) \/ BeginInsert(n, stated)
  <2>1. PICK C \in SUBSET Columns : \E stated \in [C -> Values] : Insert(n, stated) \/ BeginInsert(n, stated)
    BY <1>12
  <2>2. PICK stated \in [C -> Values] : Insert(n, stated) \/ BeginInsert(n, stated)
    BY <2>1
  <2> QED BY <2>2, InsertStep, BeginInsertStep
<1>13. CASE \E k \in Keys : Delete(n, k) \/ \E c \in Columns, v \in Values : Update(n, k, c, v)
  BY <1>13, DeleteStep, UpdateStep
<1> QED BY <1>1, <1>2, <1>3, <1>4, <1>5, <1>6, <1>7, <1>8, <1>9, <1>10, <1>11, <1>12, <1>13

LEMMA NextStep == Supported /\ IInv /\ [Next]_vars => IInv'
<1> SUFFICES ASSUME Supported, IInv, [Next]_vars PROVE IInv'
  OBVIOUS
<1>1. CASE UNCHANGED vars
  <2>1. UNCHANGED <<catalog, store, told>> /\ held' = held /\ catalog' = catalog
    BY <1>1 DEF vars
  <2>2. HeldOK'
    BY <2>1, HeldFrame DEF IInv
  <2> QED BY <2>1, <2>2, SameSchema
<1>2. CASE FinishInsert
  BY <1>2, FinishInsertStep
<1>3. CASE RefuseInsert
  BY <1>3, RefuseInsertStep
<1>4. CASE \E name \in IndexNames \cup ({"uq"} \X Names \X Columns) : DropIndex(name)
  BY <1>4, DropIndexStep
<1> QED BY <1>1, <1>2, <1>3, <1>4, StatementStep DEF Next

-----------------------------------------------------------------------------
(* What the invariant says of every behaviour.                             *)

LEMMA Invariance ==
  ASSUME Supported
  PROVE  Spec => []IInv
<1>1. Init => IInv
  BY InitInv
<1>2. IInv /\ [Next]_vars => IInv'
  BY NextStep
<1> QED BY <1>1, <1>2, PTL DEF Spec

\* A row shows under every column the value it was given, or the default the
\* column had when it was added, through any ADD, DROP and RENAME of columns
\* and tables: rows carry no names and no length of their own, and ADD and
\* RENAME rewrite none.
THEOREM RowsKept ==
  ASSUME Supported
  PROVE  Spec => []RowsKeepTheirValues
<1>1. ASSUME IInv PROVE RowsKeepTheirValues
  BY <1>1, SeenFacts DEF RowsKeepTheirValues
<1> QED BY <1>1, Invariance, PTL

\* Every index has exactly the entries of the rows, whether it was built over
\* them or they were written after it, under whatever name its column goes by
\* now, and a UNIQUE index has no value twice.
THEOREM IndexesExact ==
  ASSUME Supported
  PROVE  Spec => []IndexesTellRows
<1>1. ASSUME IInv PROVE IndexesTellRows
  <2>1. ASSUME NEW n \in Tables, NEW ix \in catalog[n].indexes
        PROVE  /\ entries[ix.root] = EntriesFor(Seen(catalog[n]), ix.column)
               /\ ix.unique => \A d, e \in entries[ix.root] : d[1] = e[1] => d = e
    <3> DEFINE seen == told[catalog[n].root]
    <3>1. /\ entries[ix.root] = EntriesFor(seen, ix.column)
          /\ ix.unique => Distinct(seen, ix.column)
      BY <1>1, <2>1, TableFacts
    <3>2. Seen(catalog[n]) = seen
      BY <1>1, <2>1, SeenFacts
    <3> HIDE DEF seen
    <3>3. ASSUME ix.unique, NEW d \in EntriesFor(seen, ix.column), NEW e \in EntriesFor(seen, ix.column),
                 d[1] = e[1]
          PROVE  d = e
      <4>1. d = <<d[1], d[2]>> /\ e = <<e[1], e[2]>>
        BY <3>3, EntriesFacts
      <4>2. /\ d[2] \in DOMAIN seen /\ seen[d[2]][ix.column] = d[1] /\ d[1] # Null
            /\ e[2] \in DOMAIN seen /\ seen[e[2]][ix.column] = e[1]
        BY <3>3, <4>1, EntriesFacts
      <4>3. d[2] = e[2]
        BY <3>1, <3>3, <4>2 DEF Distinct
      <4> QED BY <3>3, <4>1, <4>3
    <3> QED BY <3>1, <3>2, <3>3
  <2> QED BY <2>1 DEF IndexesTellRows
<1> QED BY <1>1, Invariance, PTL

\* The catalog is well typed, and whatever statement changed which table, the
\* columns its key, indexes and CHECKs name are there, as are the table and the
\* key of every foreign key.
THEOREM CatalogCorrect ==
  ASSUME Supported
  PROVE  Spec => []CatalogIsWhole
<1>1. ASSUME IInv PROVE CatalogIsWhole
  <2>1. TypeOK
    <3>1. \A n \in Names : catalog[n].kind \in {"none", "table", "view", "trigger", "procedure", "function"}
      BY <1>1 DEF IInv, CatalogOK, Kinds
    <3>2. \A n \in Tables : catalog[n].root \in DOMAIN rows /\ \A ix \in catalog[n].indexes : ix.root \in DOMAIN entries
      BY <1>1 DEF IInv, RootsOK
    <3>3. /\ DOMAIN rows \cup DOMAIN entries = 1..pages /\ DOMAIN rows \cap DOMAIN entries = {}
          /\ \A r \in DOMAIN rows : \A k \in DOMAIN rows[r] : k \in Keys /\ rows[r][k] \in Seq(Values)
          /\ \A r \in DOMAIN entries : entries[r] \subseteq Keys \X Keys
      BY <1>1 DEF IInv, StoreOK
    <3>4. held = Nobody \/ held.table \in Names
      BY <1>1 DEF IInv, HeldOK, Tables
    <3> QED BY <3>1, <3>2, <3>3, <3>4 DEF TypeOK
  <2>2. CatalogNamesResolve
    <3>1. ASSUME NEW n \in Tables, NEW i \in DOMAIN catalog[n].cols, catalog[n].cols[i].fk # NoFk
          PROVE  /\ IsTable(catalog[n].cols[i].fk.table)
                 /\ catalog[catalog[n].cols[i].fk.table].pk = catalog[n].cols[i].fk.column
      BY <1>1, <3>1 DEF IInv, RefsOK, Resolves, Tables
    <3>2. \A n \in Tables : MetaOK(catalog[n])
      BY <1>1 DEF IInv
    <3> QED BY <3>1, <3>2 DEF CatalogNamesResolve, MetaOK
  <2> QED BY <2>1, <2>2 DEF CatalogIsWhole
<1> QED BY <1>1, Invariance, PTL

\* Constraints declared before and after the rows hold of all of them, and
\* INTEGRITY CHECK finds no index entry without its row and no reference
\* without its table or row.
THEOREM SchemaObeyed ==
  ASSUME Supported
  PROVE  Spec => []RowsObeySchema
<1>1. ASSUME IInv PROVE RowsObeySchema
  <2>1. ChecksHold
    <3>1. ASSUME NEW n \in Tables, NEW ck \in catalog[n].checks, NEW k \in KeysOf(catalog[n])
          PROVE  Decoded(catalog[n], k)[ck.column] # ck.forbids
      <4>1. /\ k \in DOMAIN told[catalog[n].root]
            /\ Decoded(catalog[n], k) = told[catalog[n].root][k]
        BY <1>1, <3>1, SeenFacts
      <4> QED BY <1>1, <3>1, <4>1, TableFacts
    <3> QED BY <3>1 DEF ChecksHold
  <2>2. ASSUME NEW n \in Tables PROVE ~OrphanEntry(n)
    <3>1. ASSUME NEW ix \in catalog[n].indexes, NEW e \in entries[ix.root]
          PROVE  e[2] \in KeysOf(catalog[n])
      <4>1. e \in EntriesFor(told[catalog[n].root], ix.column)
        BY <1>1, <2>2, <3>1, TableFacts
      <4>2. e[2] \in DOMAIN told[catalog[n].root]
        BY <4>1, EntriesFacts
      <4> QED BY <1>1, <2>2, <4>2, SeenFacts
    <3> QED BY <3>1 DEF OrphanEntry
  <2>3. ASSUME NEW n \in Tables, NEW i \in DOMAIN catalog[n].cols PROVE ~BadKey(n, i)
    <3> DEFINE fk   == catalog[n].cols[i].fk
               name == catalog[n].cols[i].name
               seen == told[catalog[n].root]
    <3>1. SUFFICES ASSUME fk # NoFk, BadKey(n, i) PROVE FALSE
      BY DEF BadKey
    <3>2. Resolves(fk, ValuesOf(seen, name))
      BY <1>1, <2>3, <3>1 DEF IInv, RefsOK
    <3>3. fk.table \in Tables /\ \A v \in ValuesOf(seen, name) : v # Null => v \in KeysOf(catalog[fk.table])
      <4>1. fk.table \in Tables
        BY <3>2 DEF Resolves
      <4>2. KeysOf(catalog[fk.table]) = DOMAIN told[catalog[fk.table].root]
        BY <1>1, <4>1, SeenFacts
      <4> QED BY <3>2, <4>1, <4>2 DEF Resolves
    <3>4. PICK k \in KeysOf(catalog[n]) : LET v == Decoded(catalog[n], k)[name] IN
            v # Null /\ v \notin KeysOf(catalog[fk.table])
      BY <3>1, <3>3 DEF BadKey, Tables
    <3>5. k \in DOMAIN seen /\ Decoded(catalog[n], k) = seen[k]
      BY <1>1, <2>3, <3>4, SeenFacts
    <3>6. seen[k][name] \in ValuesOf(seen, name)
      BY <3>5 DEF ValuesOf
    <3> QED BY <3>3, <3>4, <3>5, <3>6
  <2> QED BY <2>1, <2>2, <2>3 DEF RowsObeySchema, IntegrityClean, IntegrityIssues
<1> QED BY <1>1, Invariance, PTL
===============================================================================
