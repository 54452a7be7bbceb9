---------------------------- MODULE SelectProofs ----------------------------
(***************************************************************************)
(* Proofs about Select for any tables, keys, indexes, conditions and       *)
(* statistics: the indexes hold the rows, and every plan finds the rows a  *)
(* scan of the table would find.                                           *)
(***************************************************************************)
EXTENDS Select, FiniteSetTheorems, WellFoundedInduction, TLAPS

-----------------------------------------------------------------------------
(* One table: p its primary key, r its rows, en its indexes.               *)

KeyBy(p, row) == IF Len(p) > 1 THEN KeyOf[Pair(row, p)] ELSE row[p[1]]

Entries(idx, r) == UNION {EntriesAt(idx, k, r[k]) : k \in DOMAIN r}

RowOK(t, p, k, row) ==
  row \in RowsOf(t) /\ (\A i \in DOMAIN p : row[p[i]] # Null) /\ KeyBy(p, row) = k

RowsOK(t, p, r) == \A k \in DOMAIN r : RowOK(t, p, k, r[k])

IndexOK(t, idx, r, en) ==
  /\ idx = IndexRecord(t, idx.cols)
  /\ idx.cols \in ColumnLists(t)
  /\ en[idx] = Entries(idx, r)

SizeOK(r) == IsFiniteSet(DOMAIN r) /\ Cardinality(DOMAIN r) <= MaxRows

TableOK(t, p, r, en) ==
  /\ p \in PrimaryKeys[t]
  /\ SizeOK(r)
  /\ RowsOK(t, p, r)
  /\ \A idx \in DOMAIN en : IndexOK(t, idx, r, en)

\* The inductive invariant.
IInv ==
  /\ \A t \in Tables : TableOK(t, pk[t], rows[t], entries[t]) /\ stats[t].rows \in 0..MaxRows
  /\ rows = [t \in Tables |-> rows[t]] /\ entries = [t \in Tables |-> entries[t]]
  /\ DOMAIN stats = Tables
  /\ \A t \in Tables : DOMAIN stats[t] = {"fresh", "rows"}
  /\ count \in 0..MaxStatements

\* A list of columns names one, or two that differ.
LEMMA ListShape ==
  ASSUME NEW t, NEW cols \in ColumnLists(t)
  PROVE  \/ cols = <<cols[1]>> /\ Len(cols) = 1 /\ DOMAIN cols = {1} /\ cols[1] \in Cols(t)
            /\ Range(cols) = {cols[1]}
         \/ /\ cols = <<cols[1], cols[2]>> /\ Len(cols) = 2 /\ DOMAIN cols = {1, 2}
            /\ cols[1] \in Cols(t) /\ cols[2] \in Cols(t) /\ cols[1] # cols[2]
            /\ Range(cols) = {cols[1], cols[2]}
<1>1. CASE \E c \in Cols(t) : cols = <<c>>
  <2>1. PICK c \in Cols(t) : cols = <<c>>  BY <1>1
  <2>2. Len(cols) = 1 /\ cols[1] = c /\ DOMAIN cols = {1}  BY <2>1
  <2>3. Range(cols) = {c}  BY <2>2 DEF Range
  <2> QED  BY <2>1, <2>2, <2>3
<1>2. CASE \E q \in Cols(t) \X Cols(t) : cols = q /\ q[1] # q[2]
  <2>1. PICK q \in Cols(t) \X Cols(t) : cols = q /\ q[1] # q[2]  BY <1>2
  <2>2. PICK c \in Cols(t), d \in Cols(t) : q = <<c, d>>  BY <2>1
  <2>3. Len(cols) = 2 /\ cols[1] = c /\ cols[2] = d /\ DOMAIN cols = {1, 2}  BY <2>1, <2>2
  <2>4. Range(cols) = {c, d}  BY <2>3 DEF Range
  <2> QED  BY <2>1, <2>2, <2>3, <2>4
<1> QED  BY <1>1, <1>2 DEF ColumnLists

LEMMA EntriesHave ==
  ASSUME NEW idx, NEW r, NEW x
  PROVE  x \in Entries(idx, r) <=> \E k \in DOMAIN r : x \in EntriesAt(idx, k, r[k])
BY DEF Entries

\* An entry names the key it is an entry of.
LEMMA EntryKey ==
  ASSUME NEW idx, NEW k, NEW row, NEW x \in EntriesAt(idx, k, row)
  PROVE  x[2] = k
BY DEF EntriesAt

LEMMA EntriesInsert ==
  ASSUME NEW idx, NEW r, NEW key, key \notin DOMAIN r, NEW row
  PROVE  Entries(idx, Added(r, key, row)) = Entries(idx, r) \cup EntriesAt(idx, key, row)
<1> DEFINE s == Added(r, key, row)
<1>1. DOMAIN s = DOMAIN r \cup {key} /\ s[key] = row /\ \A k \in DOMAIN r : s[k] = r[k]
  BY DEF Added
<1> HIDE DEF s
<1>2. ASSUME NEW x  PROVE x \in Entries(idx, s) <=> x \in Entries(idx, r) \/ x \in EntriesAt(idx, key, row)
  BY <1>1, EntriesHave
<1> QED  BY <1>2 DEF s

LEMMA EntriesWithout ==
  ASSUME NEW idx, NEW r, NEW gone, NEW s, DOMAIN s = DOMAIN r \ gone,
         \A k \in DOMAIN s : s[k] = r[k]
  PROVE  Entries(idx, s)
           = Entries(idx, r) \ UNION {EntriesAt(idx, k, r[k]) : k \in gone}
<1> DEFINE left == UNION {EntriesAt(idx, k, r[k]) : k \in gone}
<1>1. DOMAIN s = DOMAIN r \ gone /\ \A k \in DOMAIN s : s[k] = r[k]  OBVIOUS
<1>2. ASSUME NEW x  PROVE x \in left <=> \E k \in gone : x \in EntriesAt(idx, k, r[k])  OBVIOUS
<1> HIDE DEF left
<1>3. ASSUME NEW x, x \in Entries(idx, s)  PROVE x \in Entries(idx, r) /\ x \notin left
  <2>1. PICK k \in DOMAIN s : x \in EntriesAt(idx, k, r[k])  BY <1>1, <1>3, EntriesHave
  <2>2. x \in Entries(idx, r)  BY <1>1, <2>1, EntriesHave
  <2>3. x[2] = k  BY <2>1, EntryKey
  <2>4. \A j \in gone : x \notin EntriesAt(idx, j, r[j])  BY <2>3, <1>1, EntryKey
  <2> QED  BY <2>2, <2>4, <1>2
<1>4. ASSUME NEW x, x \in Entries(idx, r), x \notin left  PROVE x \in Entries(idx, s)
  <2>1. PICK k \in DOMAIN r : x \in EntriesAt(idx, k, r[k])  BY <1>4, EntriesHave
  <2>2. k \notin gone  BY <2>1, <1>2, <1>4
  <2> QED  BY <2>1, <2>2, <1>1, EntriesHave
<1> QED  BY <1>3, <1>4 DEF left

LEMMA EntriesUpdate ==
  ASSUME NEW idx, NEW r, NEW hit, hit \subseteq DOMAIN r, NEW n
  PROVE  Entries(idx, [k \in DOMAIN r |-> IF k \in hit THEN n[k] ELSE r[k]])
           = (Entries(idx, r) \ UNION {EntriesAt(idx, k, r[k]) : k \in hit})
               \cup UNION {EntriesAt(idx, k, n[k]) : k \in hit}
<1> DEFINE s == [k \in DOMAIN r |-> IF k \in hit THEN n[k] ELSE r[k]]
           left == UNION {EntriesAt(idx, k, r[k]) : k \in hit}
           come == UNION {EntriesAt(idx, k, n[k]) : k \in hit}
<1>1. DOMAIN s = DOMAIN r /\ \A k \in DOMAIN s : s[k] = IF k \in hit THEN n[k] ELSE r[k]  OBVIOUS
<1>2. ASSUME NEW x  PROVE /\ x \in left <=> \E k \in hit : x \in EntriesAt(idx, k, r[k])
                          /\ x \in come <=> \E k \in hit : x \in EntriesAt(idx, k, n[k])
  OBVIOUS
<1> HIDE DEF s, left, come
<1>3. ASSUME NEW x, x \in Entries(idx, s)
      PROVE (x \in Entries(idx, r) /\ x \notin left) \/ x \in come
  <2>1. PICK k \in DOMAIN s : x \in EntriesAt(idx, k, s[k])  BY <1>3, EntriesHave
  <2>2. CASE k \in hit  BY <2>1, <2>2, <1>1, <1>2
  <2>3. CASE k \notin hit
    <3>1. x \in Entries(idx, r)  BY <2>1, <2>3, <1>1, EntriesHave
    <3>2. x[2] = k  BY <2>1, EntryKey
    <3>3. \A j \in hit : x \notin EntriesAt(idx, j, r[j])  BY <3>2, <2>3, EntryKey
    <3> QED  BY <3>1, <3>3, <1>2
  <2> QED  BY <2>2, <2>3
<1>4. ASSUME NEW x, x \in Entries(idx, r), x \notin left  PROVE x \in Entries(idx, s)
  <2>1. PICK k \in DOMAIN r : x \in EntriesAt(idx, k, r[k])  BY <1>4, EntriesHave
  <2>2. k \notin hit  BY <2>1, <1>2, <1>4
  <2> QED  BY <2>1, <2>2, <1>1, EntriesHave
<1>5. ASSUME NEW x, x \in come  PROVE x \in Entries(idx, s)
  <2>1. PICK k \in hit : x \in EntriesAt(idx, k, n[k])  BY <1>5, <1>2
  <2> QED  BY <2>1, <1>1, EntriesHave
<1> QED  BY <1>3, <1>4, <1>5 DEF s, left, come

-----------------------------------------------------------------------------
(* What statements do to one table.                                        *)

LEMMA EntriesSame ==
  ASSUME NEW idx, NEW r, NEW s, DOMAIN r = DOMAIN s, \A k \in DOMAIN r : r[k] = s[k]
  PROVE  Entries(idx, r) = Entries(idx, s)
BY DEF Entries

LEMMA InsertKeeps ==
  ASSUME NEW t \in Tables, NEW p, NEW r, NEW en, TableOK(t, p, r, en), NEW key, NEW row,
         key \notin DOMAIN r, Cardinality(DOMAIN r) < MaxRows, RowOK(t, p, key, row)
  PROVE  TableOK(t, p, Added(r, key, row),
                 [idx \in DOMAIN en |-> en[idx] \cup EntriesAt(idx, key, row)])
<1> DEFINE s == Added(r, key, row)
           new == [idx \in DOMAIN en |-> en[idx] \cup EntriesAt(idx, key, row)]
<1>1. DOMAIN s = DOMAIN r \cup {key} /\ s[key] = row /\ \A k \in DOMAIN r : s[k] = r[k]
  BY DEF Added
<1>2. DOMAIN new = DOMAIN en /\ \A idx \in DOMAIN en : new[idx] = en[idx] \cup EntriesAt(idx, key, row)
  OBVIOUS
<1>3. \A idx \in DOMAIN en : Entries(idx, s) = Entries(idx, r) \cup EntriesAt(idx, key, row)
  BY EntriesInsert
<1> HIDE DEF s, new
<1>4. SizeOK(s)
  <2>1. IsFiniteSet(DOMAIN r) /\ Cardinality(DOMAIN r) \in Nat
    BY FS_CardinalityType DEF TableOK, SizeOK
  <2>2. IsFiniteSet(DOMAIN s) /\ Cardinality(DOMAIN s) = Cardinality(DOMAIN r) + 1
    BY <1>1, <2>1, FS_AddElement
  <2>3. MaxRows \in Nat  BY TableAssumption
  <2> QED  BY <2>1, <2>2, <2>3 DEF SizeOK
<1>5. RowsOK(t, p, s)  BY <1>1 DEF TableOK, RowsOK
<1>6. \A idx \in DOMAIN new : IndexOK(t, idx, s, new)  BY <1>2, <1>3 DEF TableOK, IndexOK
<1>7. p \in PrimaryKeys[t]  BY DEF TableOK
<1>8. TableOK(t, p, s, new)  BY <1>4, <1>5, <1>6, <1>7 DEF TableOK
<1> QED  BY <1>8 DEF s, new

LEMMA DeleteKeeps ==
  ASSUME NEW t \in Tables, NEW p, NEW r, NEW en, TableOK(t, p, r, en), NEW gone
  PROVE  TableOK(t, p, [k \in DOMAIN r \ gone |-> r[k]],
                 [idx \in DOMAIN en |-> en[idx] \ UNION {EntriesAt(idx, k, r[k]) : k \in gone}])
<1> DEFINE s == [k \in DOMAIN r \ gone |-> r[k]]
           left(idx) == UNION {EntriesAt(idx, k, r[k]) : k \in gone}
           new == [idx \in DOMAIN en |-> en[idx] \ left(idx)]
<1>1. DOMAIN s = DOMAIN r \ gone /\ \A k \in DOMAIN s : s[k] = r[k]  OBVIOUS
<1>2. \A idx \in DOMAIN en : Entries(idx, s) = Entries(idx, r) \ left(idx)
  <2> HIDE DEF s
  <2> QED  BY <1>1, EntriesWithout
<1> HIDE DEF s, left
<1>3. DOMAIN new = DOMAIN en /\ \A idx \in DOMAIN en : new[idx] = en[idx] \ left(idx)
  OBVIOUS
<1> HIDE DEF new
<1>4. SizeOK(s)
  <2>1. IsFiniteSet(DOMAIN r) /\ Cardinality(DOMAIN r) \in Nat /\ Cardinality(DOMAIN r) <= MaxRows
    BY FS_CardinalityType DEF TableOK, SizeOK
  <2>2. IsFiniteSet(DOMAIN s) /\ Cardinality(DOMAIN s) <= Cardinality(DOMAIN r)
    BY <1>1, <2>1, FS_Subset
  <2>3. MaxRows \in Nat /\ Cardinality(DOMAIN s) \in Nat  BY <2>2, TableAssumption, FS_CardinalityType
  <2> QED  BY <2>1, <2>2, <2>3 DEF SizeOK
<1>5. RowsOK(t, p, s)  BY <1>1 DEF TableOK, RowsOK
<1>6. \A idx \in DOMAIN new : IndexOK(t, idx, s, new)  BY <1>2, <1>3 DEF TableOK, IndexOK
<1>7. p \in PrimaryKeys[t]  BY DEF TableOK
<1>8. TableOK(t, p, s, new)  BY <1>4, <1>5, <1>6, <1>7 DEF TableOK
<1> QED  BY <1>8 DEF s, new, left

LEMMA UpdateKeeps ==
  ASSUME NEW t \in Tables, NEW p, NEW r, NEW en, TableOK(t, p, r, en),
         NEW hit, hit \subseteq DOMAIN r, NEW n, \A k \in hit : RowOK(t, p, k, n[k])
  PROVE  TableOK(t, p, [k \in DOMAIN r |-> IF k \in hit THEN n[k] ELSE r[k]],
                 [idx \in DOMAIN en |->
                    (en[idx] \ UNION {EntriesAt(idx, k, r[k]) : k \in hit})
                      \cup UNION {EntriesAt(idx, k, n[k]) : k \in hit}])
<1> DEFINE s == [k \in DOMAIN r |-> IF k \in hit THEN n[k] ELSE r[k]]
           left(idx) == UNION {EntriesAt(idx, k, r[k]) : k \in hit}
           come(idx) == UNION {EntriesAt(idx, k, n[k]) : k \in hit}
           new == [idx \in DOMAIN en |-> (en[idx] \ left(idx)) \cup come(idx)]
<1>1. DOMAIN s = DOMAIN r /\ \A k \in DOMAIN s : s[k] = IF k \in hit THEN n[k] ELSE r[k]  OBVIOUS
<1>2. \A idx \in DOMAIN en : Entries(idx, s) = (Entries(idx, r) \ left(idx)) \cup come(idx)
  BY EntriesUpdate
<1> HIDE DEF s, left, come
<1>3. DOMAIN new = DOMAIN en /\ \A idx \in DOMAIN en : new[idx] = (en[idx] \ left(idx)) \cup come(idx)
  OBVIOUS
<1> HIDE DEF new
<1>4. SizeOK(s)  BY <1>1 DEF SizeOK, TableOK
<1>5. RowsOK(t, p, s)  BY <1>1 DEF TableOK, RowsOK
<1>6. \A idx \in DOMAIN new : IndexOK(t, idx, s, new)  BY <1>2, <1>3 DEF TableOK, IndexOK
<1>7. p \in PrimaryKeys[t]  BY DEF TableOK
<1>8. TableOK(t, p, s, new)  BY <1>4, <1>5, <1>6, <1>7 DEF TableOK
<1> QED  BY <1>8 DEF s, new, left, come

LEMMA IndexRecordCols ==
  ASSUME NEW t, NEW cols
  PROVE  IndexRecord(t, cols).cols = cols /\ IndexRecord(t, cols) = IndexRecord(t, IndexRecord(t, cols).cols)
BY DEF IndexRecord

LEMMA CreateKeeps ==
  ASSUME NEW t \in Tables, NEW p, NEW r, NEW en, TableOK(t, p, r, en), NEW cols \in ColumnLists(t)
  PROVE  TableOK(t, p, r, Added(en, IndexRecord(t, cols), Entries(IndexRecord(t, cols), r)))
<1> DEFINE idx0 == IndexRecord(t, cols)
           new == Added(en, idx0, Entries(idx0, r))
<1>1. idx0.cols = cols /\ idx0 = IndexRecord(t, idx0.cols)  BY IndexRecordCols
<1> HIDE DEF idx0
<1>2. DOMAIN new = DOMAIN en \cup {idx0} /\ new[idx0] = Entries(idx0, r)
      /\ \A idx \in DOMAIN en : idx # idx0 => new[idx] = en[idx]
  BY DEF Added
<1> HIDE DEF new
<1>3. \A idx \in DOMAIN new : IndexOK(t, idx, r, new)  BY <1>1, <1>2 DEF TableOK, IndexOK
<1>4. TableOK(t, p, r, new)  BY <1>3 DEF TableOK
<1> QED  BY <1>4 DEF idx0, new

LEMMA DropKeeps ==
  ASSUME NEW t \in Tables, NEW p, NEW r, NEW en, TableOK(t, p, r, en), NEW idx
  PROVE  TableOK(t, p, r, [i \in DOMAIN en \ {idx} |-> en[i]])
BY DEF TableOK, IndexOK

\* A row whose primary key is left alone stays where it is.
LEMMA ChangedRow ==
  ASSUME NEW t \in Tables, NEW p \in PrimaryKeys[t], NEW k, NEW row, RowOK(t, p, k, row),
         NEW set \in Sets[t], set.col \notin Range(p)
  PROVE  RowOK(t, p, k, [row EXCEPT ![set.col] = set.val])
<1> DEFINE new == [row EXCEPT ![set.col] = set.val]
<1>0. PICK c, v : c = set.col /\ v = set.val  OBVIOUS
<1>1. c \in Cols(t) /\ v \in ValuesOf[<<t, c>>] /\ p \in ColumnLists(t)  BY <1>0, TableAssumption
<1>2. row \in RowsOf(t)  BY DEF RowOK
<1>3. DOMAIN row = Cols(t) /\ row \in [Cols(t) -> UNION {ValuesOf[<<t, d>>] : d \in Cols(t)}]
      /\ \A d \in Cols(t) : row[d] \in ValuesOf[<<t, d>>]
  BY <1>2 DEF RowsOf
<1>4. new[c] = v /\ \A d \in Cols(t) : d # c => new[d] = row[d]  BY <1>0, <1>1, <1>3
<1>5. new \in [Cols(t) -> UNION {ValuesOf[<<t, d>>] : d \in Cols(t)}]
  <2>1. v \in UNION {ValuesOf[<<t, d>>] : d \in Cols(t)}  BY <1>1
  <2>2. new = [row EXCEPT ![c] = v]  BY <1>0
  <2> HIDE DEF new
  <2> QED  BY <2>1, <2>2, <1>1, <1>3
<1> HIDE DEF new
<1>6. new \in RowsOf(t)  BY <1>1, <1>3, <1>4, <1>5 DEF RowsOf
<1>7. \A i \in DOMAIN p : p[i] \in Cols(t) /\ p[i] # c /\ new[p[i]] = row[p[i]]
  <2>1. \A i \in DOMAIN p : p[i] \in Range(p)  BY DEF Range
  <2>2. \A i \in DOMAIN p : p[i] \in Cols(t)  BY <1>1, ListShape
  <2> QED  BY <2>1, <2>2, <1>0, <1>4
<1>8. KeyBy(p, new) = KeyBy(p, row)
  <2>1. CASE Len(p) = 1 /\ DOMAIN p = {1}  BY <2>1, <1>7 DEF KeyBy
  <2>2. CASE Len(p) = 2 /\ DOMAIN p = {1, 2}
    <3>1. Pair(new, p) = Pair(row, p)  BY <2>2, <1>7 DEF Pair
    <3> QED  BY <3>1, <2>2 DEF KeyBy
  <2> QED  BY <2>1, <2>2, <1>1, ListShape
<1>9. RowOK(t, p, k, new)  BY <1>6, <1>7, <1>8 DEF RowOK
<1> QED  BY <1>9 DEF new

-----------------------------------------------------------------------------
(* Every step.                                                             *)

LEMMA KeyIs ==
  ASSUME NEW t, NEW row
  PROVE  KeyFor(t, row) = KeyBy(pk[t], row)
BY DEF KeyFor, KeyBy, Composite

\* A table as it is loaded.
LEMMA LoadedRows ==
  ASSUME NEW t \in Tables, pk[t] \in PrimaryKeys[t], NEW start \in StartRows[t],
         \A row \in start : HasKey(t, row)
  PROVE  SizeOK(Loaded(t, start)) /\ RowsOK(t, pk[t], Loaded(t, start))
<1> DEFINE keys == {KeyFor(t, row) : row \in start}
           r == Loaded(t, start)
<1>1. DOMAIN r = keys /\ \A k \in keys : r[k] = CHOOSE row \in start : KeyFor(t, row) = k
  BY DEF Loaded
<1>2. \A k \in keys : r[k] \in start /\ KeyFor(t, r[k]) = k
  <2> TAKE k \in keys
  <2>1. \E row \in start : KeyFor(t, row) = k  OBVIOUS
  <2> QED  BY <2>1, <1>1
<1>3. start \subseteq RowsOf(t) /\ IsFiniteSet(start) /\ Cardinality(start) <= MaxRows
      /\ MaxRows \in Nat
  BY TableAssumption
<1>4. SizeOK(r)
  <2>1. IsFiniteSet(keys) /\ Cardinality(keys) <= Cardinality(start)
    <3> DEFINE g == [row \in start |-> KeyFor(t, row)]
    <3>1. g \in Surjection(start, keys)  BY DEF Surjection
    <3> HIDE DEF g, keys
    <3> QED  BY <1>3, <3>1, FS_Surjection
  <2>2. Cardinality(keys) \in Nat /\ Cardinality(start) \in Nat  BY <2>1, <1>3, FS_CardinalityType
  <2> HIDE DEF r, keys
  <2> QED  BY <2>1, <2>2, <1>1, <1>3 DEF SizeOK
<1>5. RowsOK(t, pk[t], r)
  <2> SUFFICES ASSUME NEW k \in DOMAIN r  PROVE RowOK(t, pk[t], k, r[k])
    BY DEF RowsOK
  <2>1. r[k] \in start /\ KeyFor(t, r[k]) = k  BY <1>1, <1>2
  <2> HIDE DEF r, keys
  <2>2. HasKey(t, r[k])  BY <2>1
  <2> QED  BY <2>1, <2>2, <1>3, KeyIs DEF RowOK, HasKey
<1> QED  BY <1>4, <1>5

LEMMA InitHolds == Init => IInv
<1> SUFFICES ASSUME Init  PROVE IInv
  OBVIOUS
<1> USE DEF Init
<1>1. PICK load : /\ \A t \in Tables : load[t] \in StartRows[t] /\ \A row \in load[t] : HasKey(t, row)
                  /\ rows = [t \in Tables |-> Loaded(t, load[t])]
  OBVIOUS
<1>2. ASSUME NEW t \in Tables  PROVE TableOK(t, pk[t], rows[t], entries[t])
  <2>1. pk[t] \in PrimaryKeys[t] /\ rows[t] = Loaded(t, load[t]) /\ entries[t] = StartEntries(t)
    BY <1>1
  <2>2. SizeOK(rows[t]) /\ RowsOK(t, pk[t], rows[t])  BY <2>1, <1>1, LoadedRows
  <2>3. ASSUME NEW idx \in DOMAIN entries[t]  PROVE IndexOK(t, idx, rows[t], entries[t])
    <3>1. Composite(t) /\ idx = IndexRecord(t, <<pk[t][1]>>)
      <4>1. idx \in IF Composite(t) THEN {IndexRecord(t, <<pk[t][1]>>)} ELSE {}
        BY <2>1, <2>3 DEF StartEntries
      <4> QED  BY <4>1
    <3>2. <<pk[t][1]>> \in ColumnLists(t)
      <4>1. pk[t] \in ColumnLists(t)  BY <2>1, TableAssumption
      <4>2. pk[t][1] \in Cols(t)  BY <4>1, ListShape
      <4> QED  BY <4>2 DEF ColumnLists
    <3>3. idx.cols = <<pk[t][1]>> /\ idx = IndexRecord(t, idx.cols)  BY <3>1, IndexRecordCols
    <3>4. entries[t][idx] = Entries(idx, rows[t])  BY <2>1, <2>3 DEF StartEntries, Entries
    <3> QED  BY <3>2, <3>3, <3>4 DEF IndexOK
  <2> QED  BY <2>1, <2>2, <2>3 DEF TableOK
<1>3. 0 \in 0..MaxRows /\ 0 \in 0..MaxStatements  BY TableAssumption
<1> QED  BY <1>1, <1>2, <1>3 DEF IInv

\* A table a step leaves alone, or leaves as good as it was.
LEMMA TableStep ==
  ASSUME IInv, NEW t \in Tables, pk' = pk, stats' = stats, count' \in 0..MaxStatements,
         NEW r, NEW en, rows' = [rows EXCEPT ![t] = r], entries' = [entries EXCEPT ![t] = en],
         TableOK(t, pk[t], r, en)
  PROVE  IInv'
<1>1. rows = [u \in Tables |-> rows[u]] /\ entries = [u \in Tables |-> entries[u]]  BY DEF IInv
<1>2. rows'[t] = r /\ entries'[t] = en  BY <1>1
<1>3. \A u \in Tables : u # t => rows'[u] = rows[u] /\ entries'[u] = entries[u]  BY <1>1
<1>4. rows' = [u \in Tables |-> rows'[u]] /\ entries' = [u \in Tables |-> entries'[u]]  BY <1>1
<1>5. \A u \in Tables : TableOK(u, pk'[u], rows'[u], entries'[u])
  <2> TAKE u \in Tables
  <2>1. CASE u = t  BY <2>1, <1>2
  <2>2. CASE u # t  BY <2>2, <1>3 DEF IInv
  <2> QED  BY <2>1, <2>2
<1>6. \A u \in Tables : TableOK(u, pk[u], rows[u], entries[u])'  BY <1>5
<1> QED  BY <1>4, <1>6 DEF IInv

LEMMA InsertStep ==
  ASSUME IInv, count' \in 0..MaxStatements, NEW t \in Tables, NEW row \in RowsOf(t), Insert(t, row)
  PROVE  IInv'
<1> DEFINE key == KeyFor(t, row)
           r == Added(rows[t], key, row)
           en == [idx \in DOMAIN entries[t] |-> entries[t][idx] \cup EntriesAt(idx, key, row)]
<1>1. RowOK(t, pk[t], key, row)  BY KeyIs DEF Insert, RowOK, HasKey
<1>2. TableOK(t, pk[t], rows[t], entries[t])  BY DEF IInv
<1>3. key \notin DOMAIN rows[t] /\ Cardinality(DOMAIN rows[t]) < MaxRows  BY DEF Insert
<1>4. rows' = [rows EXCEPT ![t] = r] /\ entries' = [entries EXCEPT ![t] = en] /\ pk' = pk /\ stats' = stats
  BY DEF Insert, IInv
<1> HIDE DEF key
<1>5. TableOK(t, pk[t], r, en)  BY <1>1, <1>2, <1>3, InsertKeeps
<1> HIDE DEF r, en
<1> QED  BY <1>4, <1>5, TableStep

LEMMA DeleteStep ==
  ASSUME IInv, count' \in 0..MaxStatements, NEW t \in Tables, NEW e, NEW verdict, Delete(t, e, verdict)
  PROVE  IInv'
<1> DEFINE gone == Targets(t, e, verdict) \cap DOMAIN rows[t]
           r == [k \in DOMAIN rows[t] \ gone |-> rows[t][k]]
           en == Without(t, gone)
<1>1. TableOK(t, pk[t], rows[t], entries[t])  BY DEF IInv
<1>2. rows' = [rows EXCEPT ![t] = r] /\ entries' = [entries EXCEPT ![t] = en] /\ pk' = pk /\ stats' = stats
  BY DEF Delete, IInv
<1> HIDE DEF gone
<1>3. TableOK(t, pk[t], r, en)  BY <1>1, DeleteKeeps DEF Without
<1> HIDE DEF r, en
<1> QED  BY <1>2, <1>3, TableStep

LEMMA UpdateStep ==
  ASSUME IInv, count' \in 0..MaxStatements, NEW t \in Tables, NEW set \in Sets[t], NEW e, NEW verdict,
         Update(t, set, e, verdict)
  PROVE  IInv'
<1> DEFINE hit == Targets(t, e, verdict) \cap DOMAIN rows[t]
           n == [k \in hit |-> [rows[t][k] EXCEPT ![set.col] = set.val]]
           r == [k \in DOMAIN rows[t] |-> IF k \in hit THEN n[k] ELSE rows[t][k]]
           en == [idx \in DOMAIN entries[t] |->
                    (entries[t][idx] \ UNION {EntriesAt(idx, k, rows[t][k]) : k \in hit})
                      \cup UNION {EntriesAt(idx, k, n[k]) : k \in hit}]
<1>1. TableOK(t, pk[t], rows[t], entries[t])  BY DEF IInv
<1>2. pk' = pk /\ stats' = stats /\ set.col \notin Range(pk[t])  BY DEF Update
<1>3. rows' = [rows EXCEPT ![t] = r] /\ entries' = [entries EXCEPT ![t] = en]
  <2> DEFINE New(k) == [rows[t][k] EXCEPT ![set.col] = set.val]
             given == [idx \in DOMAIN entries[t] |-> UNION {EntriesAt(idx, k, New(k)) : k \in hit}]
  <2>1. PICK r1 : r1 = [k \in DOMAIN rows[t] |-> IF k \in hit THEN New(k) ELSE rows[t][k]]  OBVIOUS
  <2>2. PICK en1 : en1 = [idx \in DOMAIN entries[t] |-> Without(t, hit)[idx] \cup given[idx]]  OBVIOUS
  <2>3. r = r1  BY <2>1
  <2>4. en = en1
    <3>1. \A idx \in DOMAIN entries[t] : UNION {EntriesAt(idx, k, n[k]) : k \in hit} = given[idx]
      OBVIOUS
    <3>2. \A idx \in DOMAIN entries[t] :
            Without(t, hit)[idx] = entries[t][idx] \ UNION {EntriesAt(idx, k, rows[t][k]) : k \in hit}
      BY DEF Without
    <3> HIDE DEF given, hit, n
    <3> QED  BY <2>2, <3>1, <3>2
  <2>5. rows' = [rows EXCEPT ![t] = r1]  BY <2>1 DEF Update, IInv
  <2>6. entries' = [entries EXCEPT ![t] = en1]  BY <2>2 DEF Update, IInv
  <2> HIDE DEF r, en
  <2> QED  BY <2>3, <2>4, <2>5, <2>6
<1>4. hit \subseteq DOMAIN rows[t]  OBVIOUS
<1>5. \A k \in hit : n[k] = [rows[t][k] EXCEPT ![set.col] = set.val]  OBVIOUS
<1> HIDE DEF hit, n
<1>6. \A k \in hit : RowOK(t, pk[t], k, n[k])
  <2> TAKE k \in hit
  <2>0. PICK p, row : p = pk[t] /\ row = rows[t][k]  OBVIOUS
  <2>1. RowOK(t, p, k, row) /\ p \in PrimaryKeys[t] /\ set.col \notin Range(p)
    BY <1>1, <1>2, <1>4, <2>0 DEF TableOK, RowsOK
  <2>2. RowOK(t, p, k, [row EXCEPT ![set.col] = set.val])  BY ONLY <2>1, t \in Tables, set \in Sets[t], ChangedRow
  <2> QED  BY <2>0, <2>2, <1>5
<1>7. TableOK(t, pk[t], r, en)  BY <1>1, <1>4, <1>6, UpdateKeeps
<1> HIDE DEF r, en
<1> QED  BY <1>2, <1>3, <1>7, TableStep

LEMMA IndexSteps ==
  ASSUME IInv, count' \in 0..MaxStatements, NEW t \in Tables,
         (\E cols \in IndexLists[t] : CreateIndex(t, cols)) \/ \E idx \in DOMAIN entries[t] : DropIndex(t, idx)
  PROVE  IInv'
<1>1. TableOK(t, pk[t], rows[t], entries[t])  BY DEF IInv
<1>2. rows = [rows EXCEPT ![t] = rows[t]]  BY DEF IInv
<1>3. ASSUME NEW cols \in IndexLists[t], CreateIndex(t, cols)  PROVE IInv'
  <2> DEFINE idx == IndexRecord(t, cols)
             en == Added(entries[t], idx, Entries(idx, rows[t]))
  <2>1. cols \in ColumnLists(t)  BY TableAssumption
  <2>2. TableOK(t, pk[t], rows[t], en)  BY <1>1, <2>1, CreateKeeps
  <2>3. rows' = [rows EXCEPT ![t] = rows[t]] /\ entries' = [entries EXCEPT ![t] = en] /\ pk' = pk /\ stats' = stats
    BY <1>2, <1>3 DEF CreateIndex, Entries, IInv
  <2> HIDE DEF en
  <2> QED  BY <2>2, <2>3, TableStep
<1>4. ASSUME NEW idx \in DOMAIN entries[t], DropIndex(t, idx)  PROVE IInv'
  <2> DEFINE en == [i \in DOMAIN entries[t] \ {idx} |-> entries[t][i]]
  <2>1. TableOK(t, pk[t], rows[t], en)  BY <1>1, DropKeeps
  <2>2. rows' = [rows EXCEPT ![t] = rows[t]] /\ entries' = [entries EXCEPT ![t] = en] /\ pk' = pk /\ stats' = stats
    BY <1>2, <1>4 DEF DropIndex, IInv
  <2> HIDE DEF en
  <2> QED  BY <2>1, <2>2, TableStep
<1> QED  BY <1>3, <1>4

LEMMA StatsSteps ==
  ASSUME IInv, count' \in 0..MaxStatements, NEW t \in Tables, Analyze(t) \/ Age(t)
  PROVE  IInv'
<1>1. pk' = pk /\ rows' = rows /\ entries' = entries  BY DEF Analyze, Age
<1>2. DOMAIN stats = Tables /\ \A u \in Tables : stats[u].rows \in 0..MaxRows /\ DOMAIN stats[u] = {"fresh", "rows"}
  BY DEF IInv
<1>3. DOMAIN stats' = Tables /\ \A u \in Tables : stats'[u].rows \in 0..MaxRows /\ DOMAIN stats'[u] = {"fresh", "rows"}
  <2>1. CASE Analyze(t)
    <3>1. Cardinality(DOMAIN rows[t]) \in 0..MaxRows
      <4>1. IsFiniteSet(DOMAIN rows[t]) /\ Cardinality(DOMAIN rows[t]) <= MaxRows
        BY DEF IInv, TableOK, SizeOK
      <4>2. Cardinality(DOMAIN rows[t]) \in Nat /\ MaxRows \in Nat  BY <4>1, FS_CardinalityType, TableAssumption
      <4> QED  BY <4>1, <4>2
    <3>2. PICK rec : rec = [fresh |-> TRUE, rows |-> Cardinality(DOMAIN rows[t])]  OBVIOUS
    <3>3. rec.rows \in 0..MaxRows /\ DOMAIN rec = {"fresh", "rows"}  BY <3>1, <3>2
    <3>4. stats' = [stats EXCEPT ![t] = rec]  BY <2>1, <3>2 DEF Analyze
    <3> QED  BY <1>2, <3>3, <3>4
  <2>2. CASE Age(t)
    <3>1. PICK rec : rec = [stats[t] EXCEPT !.fresh = FALSE]  OBVIOUS
    <3>2. rec.rows = stats[t].rows /\ DOMAIN rec = {"fresh", "rows"}  BY <3>1, <1>2
    <3>3. stats' = [stats EXCEPT ![t] = rec]  BY <2>2, <3>1 DEF Age
    <3> QED  BY <1>2, <3>2, <3>3
  <2> QED  BY <2>1, <2>2
<1>4. \A u \in Tables : TableOK(u, pk[u], rows[u], entries[u])  BY DEF IInv
<1>5. \A u \in Tables : TableOK(u, pk[u], rows[u], entries[u])'  BY <1>1, <1>4
<1>6. rows' = [u \in Tables |-> rows'[u]] /\ entries' = [u \in Tables |-> entries'[u]]  BY <1>1 DEF IInv
<1> QED  BY <1>3, <1>5, <1>6 DEF IInv

LEMMA StepHolds == IInv /\ [Next]_vars => IInv'
<1> SUFFICES ASSUME IInv, [Next]_vars  PROVE IInv'
  OBVIOUS
<1>1. count \in 0..MaxStatements /\ MaxStatements \in Nat  BY TableAssumption DEF IInv
<1>2. ASSUME count < MaxStatements, count' = count + 1, NEW t \in Tables, Statement(t)  PROVE IInv'
  <2>0. count' \in 0..MaxStatements  BY <1>1, <1>2
  <2>1. CASE \E row \in RowsOf(t) : Insert(t, row)  BY <2>0, <2>1, InsertStep
  <2>2. CASE \E e \in Wheres[t], est \in BOOLEAN : Delete(t, e, Verdicts(t, e, est))
    BY <2>0, <2>2, DeleteStep
  <2>3. CASE \E e \in Wheres[t], set \in Sets[t], est \in BOOLEAN : Update(t, set, e, Verdicts(t, e, est))
    BY <2>0, <2>3, UpdateStep
  <2>4. CASE (\E cols \in IndexLists[t] : CreateIndex(t, cols)) \/ \E idx \in DOMAIN entries[t] : DropIndex(t, idx)
    BY <2>0, <2>4, IndexSteps
  <2>5. CASE Analyze(t)  BY <2>0, <2>5, StatsSteps
  <2> QED  BY <1>2, <2>1, <2>2, <2>3, <2>4, <2>5 DEF Statement
<1>3. ASSUME UNCHANGED count, NEW t \in Tables, Age(t)  PROVE IInv'
  BY <1>1, <1>3, StatsSteps
<1>4. CASE UNCHANGED vars  BY <1>4 DEF vars, IInv
<1> QED  BY <1>2, <1>3, <1>4 DEF Next

LEMMA InvImplies == IInv => IndexesHoldRows
<1> SUFFICES ASSUME IInv  PROVE IndexesHoldRows
  OBVIOUS
<1>1. TypeOK
  BY DEF TypeOK, IInv, TableOK, RowsOK, RowOK, HasKey
<1>2. ASSUME NEW t \in Tables
      PROVE  /\ \A k \in DOMAIN rows[t] : KeyFor(t, rows[t][k]) = k
             /\ \A idx \in DOMAIN entries[t] :
                  /\ idx = IndexRecord(t, idx.cols)
                  /\ entries[t][idx] = UNION {EntriesAt(idx, k, rows[t][k]) : k \in DOMAIN rows[t]}
  <2>1. TableOK(t, pk[t], rows[t], entries[t])  BY DEF IInv
  <2>2. \A k \in DOMAIN rows[t] : KeyFor(t, rows[t][k]) = k  BY <2>1, KeyIs DEF TableOK, RowsOK, RowOK
  <2>3. \A idx \in DOMAIN entries[t] : idx = IndexRecord(t, idx.cols) /\ entries[t][idx] = Entries(idx, rows[t])
    BY <2>1 DEF TableOK, IndexOK
  <2> QED  BY <2>2, <2>3 DEF Entries
<1> QED  BY <1>1, <1>2 DEF IndexesHoldRows

LEMMA Inductive == Spec => []IInv
<1> QED  BY InitHolds, StepHolds, PTL DEF Spec

\* For any tables, keys, column lists and statements, a row is found under its
\* key or the fingerprint of its key, and every index, made before or after
\* the rows, has exactly their entries.
THEOREM IndexesCorrect == Spec => []IndexesHoldRows
<1> QED  BY Inductive, InvImplies, PTL

-----------------------------------------------------------------------------
(* Recursion over conditions.                                              *)

LEMMA LeastNat ==
  ASSUME NEW T, T \subseteq Nat, T # {}
  PROVE  \E n \in T : \A m \in T : n <= m
<1>1. PICK n \in T : \A m \in T : ~(<<m, n>> \in OpToRel(<, Nat))
  BY NatLessThanWellFounded, WFMin
<1>2. \A m \in T : n <= m
  <2> TAKE m \in T
  <2>1. m \in Nat /\ n \in Nat  BY <1>1
  <2>2. m < n => <<m, n>> \in OpToRel(<, Nat)  BY <2>1 DEF OpToRel
  <2>3. ~(<<m, n>> \in OpToRel(<, Nat))  BY <1>1
  <2>4. ~(m < n)  BY <2>2, <2>3
  <2> QED  BY <2>1, <2>4
<1> QED  BY <1>1, <1>2

\* The parts of a condition are conditions and nest less deep.
LEMMA Parts ==
  ASSUME NEW c \in Conditions
  PROVE  /\ Depth[c] \in Nat
         /\ c.op \in {"and", "or"} => /\ c.l \in Conditions /\ Depth[c.l] < Depth[c]
                                      /\ c.r \in Conditions /\ Depth[c.r] < Depth[c]
         /\ c.op = "not" => c.e \in Conditions /\ Depth[c.e] < Depth[c]
BY ConditionAssumption DEF Connectives

\* What a recursion does with a condition, from what g says of its parts.
Row(g, c, Base, And, Or, Not) ==
  IF c.op = "and" THEN And[<<g[c.l], g[c.r]>>]
  ELSE IF c.op = "or" THEN Or[<<g[c.l], g[c.r]>>]
  ELSE IF c.op = "not" THEN Not[g[c.e]] ELSE Base[c]

Rules(V, Base, And, Or, Not) ==
  /\ Base \in [Conditions -> V] /\ Not \in [V -> V]
  /\ And \in [V \X V -> V] /\ Or \in [V \X V -> V]

Solves(g, V, Base, And, Or, Not) ==
  g \in [Conditions -> V] /\ \A c \in Conditions : g[c] = Row(g, c, Base, And, Or, Not)

\* A recursion over conditions has a solution.
LEMMA Recursion ==
  ASSUME NEW V, NEW Base, NEW And, NEW Or, NEW Not, Rules(V, Base, And, Or, Not)
  PROVE  \E g : Solves(g, V, Base, And, Or, Not)
<1>0. /\ Base \in [Conditions -> V] /\ Not \in [V -> V]
      /\ And \in [V \X V -> V] /\ Or \in [V \X V -> V]
  BY DEF Rules
<1> DEFINE R(g, c) == Row(g, c, Base, And, Or, Not)
           Is(g, n) == g \in [Conditions -> V] /\ \A c \in Conditions : Depth[c] < n => g[c] = R(g, c)
           Every(g) == [c \in Conditions |-> R(g, c)]
<1>1. ASSUME NEW g \in [Conditions -> V], NEW c \in Conditions  PROVE R(g, c) \in V
  BY <1>0, Parts DEF Row
<1>2. ASSUME NEW g, NEW h, NEW c \in Conditions,
             \A d \in Conditions : Depth[d] < Depth[c] => g[d] = h[d]
      PROVE R(g, c) = R(h, c)
  BY <1>2, Parts DEF Row
<1> HIDE DEF R
<1>3. ASSUME NEW n \in Nat, NEW g, Is(g, n)  PROVE Is(Every(g), n + 1)
  <2>1. Every(g) \in [Conditions -> V]  BY <1>1, <1>3
  <2>2. ASSUME NEW c \in Conditions, Depth[c] < n + 1  PROVE Every(g)[c] = R(Every(g), c)
    <3>1. \A d \in Conditions : Depth[d] < Depth[c] => g[d] = Every(g)[d]
      <4> TAKE d \in Conditions
      <4> HAVE Depth[d] < Depth[c]
      <4>1. Depth[d] < n  BY <2>2, Parts
      <4>2. g[d] = R(g, d)  BY <4>1, <1>3
      <4> QED  BY <4>2
    <3>2. PICK h : h = Every(g)  OBVIOUS
    <3>3. R(g, c) = R(h, c)  BY <3>1, <3>2, <1>2
    <3> QED  BY <3>2, <3>3
  <2> HIDE DEF Every
  <2> QED  BY <2>1, <2>2
<1>4. ASSUME NEW n \in Nat  PROVE \E g : Is(g, n)
  <2> DEFINE T == {m \in Nat : ~ \E g : Is(g, m)}
  <2>1. Is(Base, 0)  BY <1>0, Parts
  <2> HIDE DEF Is, Every
  <2> SUFFICES ASSUME n \in T  PROVE FALSE
    OBVIOUS
  <2>2. PICK m \in T : \A i \in T : m <= i
    <3>1. T \subseteq Nat /\ T # {}  OBVIOUS
    <3> HIDE DEF T
    <3> QED  BY <3>1, LeastNat
  <2>3. m # 0  BY <2>1
  <2>4. m - 1 \in Nat /\ m - 1 \notin T /\ (m - 1) + 1 = m
    <3>1. m \in Nat  BY <2>2
    <3>2. m - 1 \in Nat /\ (m - 1) + 1 = m /\ ~(m <= m - 1)  BY <3>1, <2>3
    <3> HIDE DEF T
    <3> QED  BY <3>2, <2>2
  <2>5. PICK g : Is(g, m - 1)  BY <2>4
  <2>6. Is(Every(g), m)  BY <2>4, <2>5, <1>3
  <2> QED  BY <2>6
<1>5. ASSUME NEW g, NEW h, NEW n \in Nat, NEW m \in Nat, Is(g, n), Is(h, m)
      PROVE  \A c \in Conditions : Depth[c] < n /\ Depth[c] < m => g[c] = h[c]
  <2> DEFINE Bad == {c \in Conditions : Depth[c] < n /\ Depth[c] < m /\ g[c] # h[c]}
             T == {Depth[c] : c \in Bad}
  <2> SUFFICES ASSUME NEW c0 \in Bad  PROVE FALSE
    OBVIOUS
  <2>1. T \subseteq Nat /\ T # {}  BY Parts
  <2>2. PICK k \in T : \A i \in T : k <= i
    <3> HIDE DEF T
    <3> QED  BY <2>1, LeastNat
  <2>3. PICK c \in Bad : Depth[c] = k  BY <2>2
  <2>4. ASSUME NEW d \in Conditions, Depth[d] < Depth[c]  PROVE g[d] = h[d]
    <3>1. Depth[d] < n /\ Depth[d] < m  BY <2>3, <2>4, Parts
    <3>2. Depth[d] \notin T
      <4>1. Depth[d] \in Nat /\ Depth[c] \in Nat /\ ~(Depth[c] <= Depth[d])  BY <2>4, Parts
      <4> HIDE DEF T
      <4> QED  BY <4>1, <2>2, <2>3
    <3> QED  BY <3>1, <3>2
  <2>5. R(g, c) = R(h, c)  BY <2>4, <1>2
  <2>6. g[c] = R(g, c) /\ h[c] = R(h, c)  BY <1>5, <2>3
  <2> QED  BY <2>3, <2>5, <2>6
<1> DEFINE best(c) == CHOOSE g : Is(g, Depth[c] + 1)
           G == [c \in Conditions |-> best(c)[c]]
<1>6. ASSUME NEW c \in Conditions  PROVE Is(best(c), Depth[c] + 1)
  <2>1. Depth[c] + 1 \in Nat  BY Parts
  <2> HIDE DEF Is
  <2> QED  BY <2>1, <1>4
<1>7. ASSUME NEW c \in Conditions  PROVE G[c] = R(G, c) /\ G[c] \in V
  <2>1. PICK g : g = best(c)  OBVIOUS
  <2>2. Is(g, Depth[c] + 1) /\ G[c] = g[c]  BY <2>1, <1>6
  <2>3. \A d \in Conditions : Depth[d] < Depth[c] => g[d] = G[d]
    <3> TAKE d \in Conditions
    <3> HAVE Depth[d] < Depth[c]
    <3>1. PICK h : h = best(d)  OBVIOUS
    <3>2. Is(h, Depth[d] + 1) /\ G[d] = h[d]  BY <3>1, <1>6
    <3>3. Depth[d] + 1 \in Nat /\ Depth[c] + 1 \in Nat /\ Depth[d] < Depth[d] + 1 /\ Depth[d] < Depth[c] + 1
      BY Parts
    <3> HIDE DEF Is, G
    <3> QED  BY <2>2, <3>2, <3>3, <1>5
  <2>4. g[c] = R(g, c)  BY <2>2, Parts
  <2> HIDE DEF G
  <2>5. R(g, c) = R(G, c)  BY <2>3, <1>2
  <2>6. g[c] \in V  BY <2>2
  <2> QED  BY <2>2, <2>4, <2>5, <2>6
<1>8. G \in [Conditions -> V]
  <2>1. G = [c \in Conditions |-> G[c]]  OBVIOUS
  <2> HIDE DEF G
  <2> QED  BY <2>1, <1>7
<1> HIDE DEF G
<1> QED  BY <1>7, <1>8 DEF R, Solves

\* The recursions of the module, unfolded once.
LEMMA EqualitiesOf ==
  ASSUME NEW e \in Conditions
  PROVE  Equalities(e) = IF e.op = "eq" THEN {<<e.col, e.val>>}
                         ELSE IF e.op = "and" THEN Joint(Equalities(e.l), Equalities(e.r)) ELSE {}
<1> DEFINE V == SUBSET {<<c.col, c.val>> : c \in Conditions}
           Base == [c \in Conditions |-> IF c.op = "eq" THEN {<<c.col, c.val>>} ELSE {}]
           And == [p \in V \X V |-> Joint(p[1], p[2])]
           Or == [p \in V \X V |-> {}]
           Not == [x \in V |-> {}]
           Body(f, c) == CASE c.op = "eq"  -> {<<c.col, c.val>>}
                           [] c.op = "and" -> Joint(f[c.l], f[c.r])
                           [] OTHER        -> {}
           fixed[c \in Conditions] == CASE c.op = "eq"  -> {<<c.col, c.val>>}
                                        [] c.op = "and" -> Joint(fixed[c.l], fixed[c.r])
                                        [] OTHER        -> {}
<1>1. Base \in [Conditions -> V]  OBVIOUS
<1>2. And \in [V \X V -> V] /\ Or \in [V \X V -> V] /\ Not \in [V -> V]
  <2>1. \A x, y \in V : Joint(x, y) \in V  BY DEF Joint
  <2>2. {} \in V  OBVIOUS
  <2> HIDE DEF V
  <2> QED  BY <2>1, <2>2
<1>3. PICK g : g \in [Conditions -> V] /\ \A c \in Conditions : g[c] = Row(g, c, Base, And, Or, Not)
  <2> HIDE DEF V, Base, And, Or, Not
  <2>1. Rules(V, Base, And, Or, Not)  BY <1>1, <1>2 DEF Rules
  <2> QED  BY <2>1, Recursion DEF Solves
<1>4. ASSUME NEW c \in Conditions  PROVE g[c] = Body(g, c)
  <2>1. g[c] = Row(g, c, Base, And, Or, Not)  BY <1>3
  <2>2. CASE c.op = "eq"  BY <2>1, <2>2 DEF Row
  <2>3. CASE c.op = "and"
    <3>1. g[c.l] \in V /\ g[c.r] \in V  BY <2>3, <1>3, Parts
    <3> HIDE DEF V
    <3>2. And[<<g[c.l], g[c.r]>>] = Joint(g[c.l], g[c.r])  BY <3>1
    <3> HIDE DEF And
    <3> QED  BY <2>1, <2>3, <3>2 DEF Row
  <2>4. CASE c.op = "or"
    <3>1. g[c.l] \in V /\ g[c.r] \in V  BY <2>4, <1>3, Parts
    <3> HIDE DEF V
    <3>2. Or[<<g[c.l], g[c.r]>>] = {}  BY <3>1
    <3> HIDE DEF Or
    <3> QED  BY <2>1, <2>4, <3>2 DEF Row
  <2>5. CASE c.op = "not"
    <3>1. g[c.e] \in V  BY <2>5, <1>3, Parts
    <3> HIDE DEF V
    <3>2. Not[g[c.e]] = {}  BY <3>1
    <3> HIDE DEF Not
    <3> QED  BY <2>1, <2>5, <3>2 DEF Row
  <2>6. CASE c.op \notin {"eq", "and", "or", "not"}  BY <2>1, <2>6 DEF Row
  <2> QED  BY <2>2, <2>3, <2>4, <2>5, <2>6
<1>5. fixed = [c \in Conditions |-> Body(fixed, c)]
  <2>1. g = [c \in Conditions |-> Body(g, c)]
    <3> HIDE DEF Body, V
    <3> QED  BY <1>3, <1>4
  <2>2. \E f : f = [c \in Conditions |-> Body(f, c)]  BY <2>1
  <2> QED  BY <2>2
<1>6. \A c \in Conditions : Equalities(c) = fixed[c]  BY DEF Equalities
<1> HIDE DEF fixed
<1>7. \A c \in Conditions : fixed[c] = Body(fixed, c)
  <2> HIDE DEF Body
  <2> QED  BY <1>5
<1> QED  BY <1>6, <1>7, Parts

LEMMA VerdictOf ==
  ASSUME NEW t, NEW row, NEW outer, NEW sub, NEW e \in Conditions
  PROVE  /\ e.op = "and" => Verdict(t, e, row, outer, sub)
                              = Both(Verdict(t, e.l, row, outer, sub), Verdict(t, e.r, row, outer, sub))
         /\ e.op \notin {"and", "or", "not"} => Verdict(t, e, row, outer, sub) = AtomVerdict(t, e, row, outer, sub)
<1> DEFINE At(c) == AtomVerdict(t, c, row, outer, sub)
           V == {At(c) : c \in Conditions} \cup {"true", "false", "null", "error"}
           Base == [c \in Conditions |-> At(c)]
           And == [p \in V \X V |-> Both(p[1], p[2])]
           Or == [p \in V \X V |-> Negated(Both(Negated(p[1]), Negated(p[2])))]
           Not == [x \in V |-> Negated(x)]
           Body(f, c) == CASE c.op = "and" -> Both(f[c.l], f[c.r])
                           [] c.op = "or"  -> Negated(Both(Negated(f[c.l]), Negated(f[c.r])))
                           [] c.op = "not" -> Negated(f[c.e])
                           [] OTHER        -> At(c)
           told[c \in Conditions] ==
             CASE c.op = "and" -> Both(told[c.l], told[c.r])
               [] c.op = "or"  -> Negated(Both(Negated(told[c.l]), Negated(told[c.r])))
               [] c.op = "not" -> Negated(told[c.e])
               [] OTHER        -> AtomVerdict(t, c, row, outer, sub)
<1>1. Base \in [Conditions -> V]
  <2> HIDE DEF At
  <2> QED  OBVIOUS
<1>2. And \in [V \X V -> V] /\ Or \in [V \X V -> V] /\ Not \in [V -> V]
  <2>1. \A x, y : Both(x, y) \in {x, y}  BY DEF Both
  <2>2. {"true", "false", "null", "error"} \subseteq V  OBVIOUS
  <2> HIDE DEF V
  <2>3. \A x \in V : Negated(x) \in V  BY <2>2 DEF Negated
  <2>4. \A x, y \in V : Both(x, y) \in V  BY <2>1
  <2>5. \A x, y \in V : Negated(Both(Negated(x), Negated(y))) \in V  BY <2>3, <2>4
  <2> QED  BY <2>3, <2>4, <2>5
<1>3. PICK g : g \in [Conditions -> V] /\ \A c \in Conditions : g[c] = Row(g, c, Base, And, Or, Not)
  <2> HIDE DEF V, Base, And, Or, Not
  <2>1. Rules(V, Base, And, Or, Not)  BY <1>1, <1>2 DEF Rules
  <2> QED  BY <2>1, Recursion DEF Solves
<1>4. ASSUME NEW c \in Conditions  PROVE g[c] = Body(g, c)
  <2>1. g[c] = Row(g, c, Base, And, Or, Not)  BY <1>3
  <2> HIDE DEF V
  <2>2. CASE c.op \in {"and", "or"}
    <3>1. g[c.l] \in V /\ g[c.r] \in V  BY <2>2, <1>3, Parts
    <3>2. /\ And[<<g[c.l], g[c.r]>>] = Both(g[c.l], g[c.r])
          /\ Or[<<g[c.l], g[c.r]>>] = Negated(Both(Negated(g[c.l]), Negated(g[c.r])))
      BY <3>1
    <3> HIDE DEF And, Or
    <3> QED  BY <2>1, <2>2, <3>2 DEF Row
  <2>3. CASE c.op = "not"
    <3>1. g[c.e] \in V  BY <2>3, <1>3, Parts
    <3>2. Not[g[c.e]] = Negated(g[c.e])  BY <3>1
    <3> HIDE DEF Not
    <3> QED  BY <2>1, <2>3, <3>2 DEF Row
  <2>4. CASE c.op \notin {"and", "or", "not"}
    <3> HIDE DEF At
    <3> QED  BY <2>1, <2>4 DEF Row
  <2> QED  BY <2>2, <2>3, <2>4
<1>5. told = [c \in Conditions |-> Body(told, c)]
  <2>1. g = [c \in Conditions |-> Body(g, c)]
    <3> HIDE DEF Body, V
    <3> QED  BY <1>3, <1>4
  <2>2. \E f : f = [c \in Conditions |-> Body(f, c)]  BY <2>1
  <2> QED  BY <2>2
<1>6. \A c \in Conditions : Verdict(t, c, row, outer, sub) = told[c]  BY DEF Verdict
<1> HIDE DEF told
<1>7. \A c \in Conditions : told[c] = Body(told, c)
  <2> HIDE DEF Body
  <2> QED  BY <1>5
<1> HIDE DEF At
<1>8. told[e] = Body(told, e)  BY <1>7
<1>9. e.op = "and" => told[e.l] = Verdict(t, e.l, row, outer, sub) /\ told[e.r] = Verdict(t, e.r, row, outer, sub)
  BY <1>6, Parts
<1>10. told[e] = Verdict(t, e, row, outer, sub)  BY <1>6
<1> QED  BY <1>8, <1>9, <1>10 DEF At

-----------------------------------------------------------------------------
(* What the equalities of a condition say of a row.                        *)

\* A property of every condition, proved from that of the conditions that
\* nest less deep.
LEMMA ConditionInduction ==
  ASSUME NEW S,
         \A c \in Conditions : (\A d \in Conditions : Depth[d] < Depth[c] => d \in S) => c \in S
  PROVE  Conditions \subseteq S
<1> DEFINE T == {Depth[c] : c \in Conditions \ S}
<1> SUFFICES ASSUME NEW c0 \in Conditions, c0 \notin S  PROVE FALSE
  OBVIOUS
<1>1. T \subseteq Nat /\ T # {}  BY Parts
<1>2. PICK n \in T : \A m \in T : n <= m
  <2> HIDE DEF T
  <2> QED  BY <1>1, LeastNat
<1>3. PICK c \in Conditions : c \notin S /\ Depth[c] = n  BY <1>2
<1>4. ASSUME NEW d \in Conditions, Depth[d] < Depth[c]  PROVE d \in S
  <2>1. Depth[d] \in Nat /\ Depth[c] \in Nat /\ ~(Depth[c] <= Depth[d])  BY <1>4, Parts
  <2>2. Depth[d] \notin T
    <3> HIDE DEF T
    <3> QED  BY <1>2, <1>3, <2>1
  <2> QED  BY <2>2
<1> QED  BY <1>3, <1>4

EqualitySet(E) ==
  /\ IsFiniteSet(E)
  /\ \A p \in E : p = <<p[1], p[2]>> /\ p[2] \in Scalars \cup {Null}
  /\ \A p, q \in E : p[1] = q[1] => p[2] = q[2]

Met(E, row) == \A p \in E : row[p[1]] # Null /\ p[2] # Null /\ row[p[1]] = p[2]

LEMMA JointSet ==
  ASSUME NEW l, NEW r, l # {} => EqualitySet(l), r # {} => EqualitySet(r), Joint(l, r) # {}
  PROVE  l # {} /\ r # {} /\ Joint(l, r) = l \cup r /\ EqualitySet(l \cup r)
<1>1. l # {} /\ r # {} /\ Joint(l, r) = l \cup r /\ ~ \E p \in l, q \in r : p[1] = q[1] /\ p[2] # q[2]
  BY DEF Joint
<1>2. IsFiniteSet(l \cup r)  BY <1>1, FS_Union DEF EqualitySet
<1> QED  BY <1>1, <1>2 DEF EqualitySet

\* What an atom says of a row.
LEMMA AtomAll ==
  ASSUME NEW t, NEW e, NEW row, NEW outer, NEW sub, e.op = "all"
  PROVE  AtomVerdict(t, e, row, outer, sub) = "true"
BY DEF AtomVerdict, PlainVerdict, WithSub

LEMMA AtomEq ==
  ASSUME NEW t, NEW e, NEW row, NEW outer, NEW sub, e.op = "eq"
  PROVE  AtomVerdict(t, e, row, outer, sub) = Equal(row[e.col], e.val)
BY DEF AtomVerdict, PlainVerdict, WithSub

LEMMA AtomBetween ==
  ASSUME NEW t, NEW e, NEW row, NEW outer, NEW sub, e.op = "between"
  PROVE  AtomVerdict(t, e, row, outer, sub) = Between(row[e.col], e.from, e.to, <<t, e.col>> \in Text)
BY DEF AtomVerdict, PlainVerdict, WithSub

LEMMA AtomRef ==
  ASSUME NEW t, NEW e, NEW row, NEW outer, NEW sub, e.op = "ref", outer # Null
  PROVE  AtomVerdict(t, e, row, outer, sub) = Equal(row[e.col], outer[e.out])
BY DEF AtomVerdict, WithSub

LEMMA AtomSub ==
  ASSUME NEW t, NEW e, NEW row, NEW outer, NEW sub, e.op \in WithSub, e.op = "scalar" \/ ~HasRef(e.sub.where)
  PROVE  AtomVerdict(t, e, row, outer, sub)
           = SubqueryVerdict(e, IF e.op = "exists" THEN Null ELSE row[e.col], sub[<<e.sub, Null>>])
BY DEF AtomVerdict, WithSub

LEMMA BothTrue ==
  ASSUME NEW x, NEW y
  PROVE  Both(x, y) = "true" <=> x = "true" /\ y = "true"
BY DEF Both

LEMMA EqualTrue ==
  ASSUME NEW x, NEW y
  PROVE  Equal(x, y) = "true" <=> x # Null /\ y # Null /\ x = y
BY DEF Equal, Told

LEMMA EqualitiesMean ==
  ASSUME NEW e \in Conditions, Equalities(e) # {}
  PROVE  /\ EqualitySet(Equalities(e))
         /\ e.op \in {"eq", "and"}
         /\ \A t, row, outer, sub : Verdict(t, e, row, outer, sub) = "true" <=> Met(Equalities(e), row)
<1> DEFINE P(c) == /\ EqualitySet(Equalities(c))
                   /\ \A t, row, outer, sub : Verdict(t, c, row, outer, sub) = "true" <=> Met(Equalities(c), row)
           S == {c \in Conditions : Equalities(c) # {} => P(c)}
<1>1. ASSUME NEW c \in Conditions, \A d \in Conditions : Depth[d] < Depth[c] => d \in S,
             Equalities(c) # {}
      PROVE P(c)
  <2>1. CASE c.op = "eq"
    <3>1. Equalities(c) = {<<c.col, c.val>>}  BY <2>1, EqualitiesOf
    <3>2. c.val \in Scalars \cup {Null}  BY <2>1, KeyAssumption
    <3>3. IsFiniteSet(Equalities(c))  BY <3>1, FS_Singleton
    <3>4. EqualitySet(Equalities(c))  BY <3>1, <3>2, <3>3 DEF EqualitySet
    <3>5. ASSUME NEW t, NEW row, NEW outer, NEW sub
          PROVE Verdict(t, c, row, outer, sub) = "true" <=> Met(Equalities(c), row)
      <4>1. Verdict(t, c, row, outer, sub) = AtomVerdict(t, c, row, outer, sub)
        <5>1. c.op \notin {"and", "or", "not"}  BY <2>1
        <5> QED  BY <5>1, VerdictOf
      <4>3. AtomVerdict(t, c, row, outer, sub) = Equal(row[c.col], c.val)  BY <2>1, AtomEq
      <4>2. Met(Equalities(c), row) <=> row[c.col] # Null /\ c.val # Null /\ row[c.col] = c.val
        BY <3>1 DEF Met
      <4> QED  BY <4>1, <4>3, <4>2, EqualTrue
    <3> QED  BY <3>4, <3>5
  <2>2. CASE c.op = "and"
    <3>1. /\ c.l \in Conditions /\ Depth[c.l] < Depth[c]
          /\ c.r \in Conditions /\ Depth[c.r] < Depth[c]
      BY <2>2, Parts
    <3>2. Equalities(c) = Joint(Equalities(c.l), Equalities(c.r))  BY <2>2, EqualitiesOf
    <3>3. (Equalities(c.l) # {} => P(c.l)) /\ (Equalities(c.r) # {} => P(c.r))  BY <1>1, <3>1
    <3>4. /\ Equalities(c.l) # {} /\ Equalities(c.r) # {}
          /\ Equalities(c) = Equalities(c.l) \cup Equalities(c.r)
          /\ EqualitySet(Equalities(c))
      <4>1. /\ Equalities(c.l) # {} => EqualitySet(Equalities(c.l))
            /\ Equalities(c.r) # {} => EqualitySet(Equalities(c.r))
        BY <3>3
      <4>2. Joint(Equalities(c.l), Equalities(c.r)) # {}  BY <1>1, <3>2
      <4>3. PICK l, r : l = Equalities(c.l) /\ r = Equalities(c.r)  OBVIOUS
      <4>4. l # {} /\ r # {} /\ Joint(l, r) = l \cup r /\ EqualitySet(l \cup r)
        BY <4>1, <4>2, <4>3, JointSet
      <4> QED  BY <3>2, <4>3, <4>4
    <3>5. ASSUME NEW t, NEW row, NEW outer, NEW sub
          PROVE Verdict(t, c, row, outer, sub) = "true" <=> Met(Equalities(c), row)
      <4>1. Verdict(t, c, row, outer, sub)
              = Both(Verdict(t, c.l, row, outer, sub), Verdict(t, c.r, row, outer, sub))
        BY <2>2, VerdictOf
      <4>2. Met(Equalities(c), row) <=> Met(Equalities(c.l), row) /\ Met(Equalities(c.r), row)
        BY <3>4 DEF Met
      <4> QED  BY <4>1, <4>2, <3>3, <3>4, BothTrue
    <3> QED  BY <3>4, <3>5
  <2> QED  BY <1>1, <2>1, <2>2, EqualitiesOf
<1>2. Conditions \subseteq S
  <2>1. \A c \in Conditions : (\A d \in Conditions : Depth[d] < Depth[c] => d \in S) => c \in S
    BY <1>1
  <2> HIDE DEF S
  <2> QED  BY <2>1, ConditionInduction
<1>3. e.op \in {"eq", "and"}  BY EqualitiesOf
<1> QED  BY <1>2, <1>3

\* The value fixed for a column is that of a row all the equalities hold of.
LEMMA FixedValue ==
  ASSUME NEW e \in Conditions, NEW c, \E p \in Equalities(e) : p[1] = c
  PROVE  /\ <<c, ValueFixed(e, c)>> \in Equalities(e)
         /\ ValueFixed(e, c) \in Scalars \cup {Null}
         /\ \A row : Met(Equalities(e), row) =>
              row[c] = ValueFixed(e, c) /\ row[c] # Null /\ ValueFixed(e, c) # Null
<1>1. EqualitySet(Equalities(e))  BY EqualitiesMean
<1>2. PICK p \in Equalities(e) : p = CHOOSE q \in Equalities(e) : q[1] = c  OBVIOUS
<1>3. p[1] = c /\ ValueFixed(e, c) = p[2]  BY <1>2 DEF ValueFixed
<1>4. p = <<p[1], p[2]>> /\ p[2] \in Scalars \cup {Null}  BY <1>1 DEF EqualitySet
<1>5. <<c, ValueFixed(e, c)>> = p  BY <1>3, <1>4
<1> QED  BY <1>3, <1>4, <1>5 DEF Met

-----------------------------------------------------------------------------
(* Plans that use the equalities: the key of a row, a composite index.     *)

\* What the invariant says of one row.
LEMMA RowIs ==
  ASSUME IInv, NEW t \in Tables, NEW k \in DOMAIN rows[t]
  PROVE  /\ \A i \in DOMAIN pk[t] : rows[t][k][pk[t][i]] # Null
         /\ KeyBy(pk[t], rows[t][k]) = k
         /\ \A c \in Cols(t) : rows[t][k][c] \in Scalars \cup {Null}
<1>1. RowOK(t, pk[t], k, rows[t][k])  BY DEF IInv, TableOK, RowsOK
<1>2. \A c \in Cols(t) : rows[t][k][c] \in ValuesOf[<<t, c>>]  BY <1>1 DEF RowOK, RowsOf
<1> QED  BY <1>1, <1>2, KeyAssumption DEF RowOK

\* The columns of a primary key, one or two.
LEMMA KeyShape ==
  ASSUME IInv, NEW t \in Tables
  PROVE  IF Composite(t) THEN /\ pk[t] = <<pk[t][1], pk[t][2]>> /\ DOMAIN pk[t] = {1, 2} /\ Len(pk[t]) = 2
                              /\ pk[t][1] \in Cols(t) /\ pk[t][2] \in Cols(t) /\ pk[t][1] # pk[t][2]
                              /\ Range(pk[t]) = {pk[t][1], pk[t][2]}
         ELSE /\ pk[t] = <<pk[t][1]>> /\ DOMAIN pk[t] = {1} /\ Len(pk[t]) = 1 /\ pk[t][1] \in Cols(t)
              /\ <<t, pk[t][1]>> \notin Text
<1>1. pk[t] \in PrimaryKeys[t] /\ pk[t] \in ColumnLists(t)  BY TableAssumption DEF IInv, TableOK
<1>2. Len(pk[t]) = 1 => <<t, pk[t][1]>> \notin Text  BY <1>1, TableAssumption
<1> QED  BY <1>1, <1>2, ListShape DEF Composite

LEMMA IndexShape ==
  ASSUME IInv, NEW t \in Tables, NEW idx \in DOMAIN entries[t]
  PROVE  /\ idx = IndexRecord(t, idx.cols) /\ idx.kind = IndexKind(t, idx.cols)
         /\ idx.cols \in ColumnLists(t)
         /\ entries[t][idx] = Entries(idx, rows[t])
BY DEF IInv, TableOK, IndexOK, IndexRecord

\* An index is asked for a value and names the rows that have it.
LEMMA LookupFinds ==
  ASSUME IInv, NEW t \in Tables, NEW idx \in DOMAIN entries[t], NEW v
  PROVE  Lookup(t, idx, v) = {k \in DOMAIN rows[t] : v \in Slots(idx, rows[t][k])}
<1>1. entries[t][idx] = Entries(idx, rows[t])  BY IndexShape
<1>2. ASSUME NEW x  PROVE x \in entries[t][idx] <=>
        \E k \in DOMAIN rows[t] : \E s \in Slots(idx, rows[t][k]) : x = <<s, k>>
  BY <1>1 DEF Entries, EntriesAt
<1>3. ASSUME NEW k  PROVE k \in Lookup(t, idx, v) <=> \E x \in entries[t][idx] : x[1] = v /\ x[2] = k
  BY DEF Lookup
<1>4. ASSUME NEW k, NEW x \in entries[t][idx], x[1] = v, x[2] = k
      PROVE  k \in DOMAIN rows[t] /\ v \in Slots(idx, rows[t][k])
  <2>1. PICK j \in DOMAIN rows[t] : \E s \in Slots(idx, rows[t][j]) : x = <<s, j>>  BY <1>2, <1>4
  <2>2. PICK s \in Slots(idx, rows[t][j]) : x = <<s, j>>  BY <2>1
  <2>3. j = k /\ s = v  BY <1>4, <2>2
  <2> QED  BY <2>2, <2>3
<1>5. ASSUME NEW k \in DOMAIN rows[t], v \in Slots(idx, rows[t][k])
      PROVE  k \in Lookup(t, idx, v)
  <2>1. PICK x : x = <<v, k>>  OBVIOUS
  <2>2. x \in entries[t][idx]  BY <1>2, <1>5, <2>1
  <2>3. x[1] = v /\ x[2] = k  BY <2>1
  <2> QED  BY <1>3, <2>2, <2>3
<1> QED  BY <1>3, <1>4, <1>5

LEMMA HoldingMeets ==
  ASSUME NEW t, NEW e \in Conditions, Equalities(e) # {}, NEW outer, NEW sub, NEW k \in DOMAIN rows[t]
  PROVE  k \in Holding(t, e, outer, sub) <=> Met(Equalities(e), rows[t][k])
<1>1. Verdict(t, e, rows[t][k], outer, sub) = "true" <=> Met(Equalities(e), rows[t][k])
  BY EqualitiesMean
<1> QED  BY <1>1 DEF Holding

\* A pair of columns with their values fixed.
LEMMA PairIsFixed ==
  ASSUME NEW e \in Conditions, NEW c, NEW d, NEW cols, cols = <<c, d>>, Encoded(e, cols)
  PROVE  /\ PairFixed(e, cols) = <<ValueFixed(e, c), ValueFixed(e, d)>>
         /\ ValueFixed(e, c) # Null /\ ValueFixed(e, d) # Null
         /\ \E p \in Equalities(e) : p[1] = c
         /\ \E p \in Equalities(e) : p[1] = d
<1>1. Range(cols) = {c, d} /\ cols[1] = c /\ cols[2] = d
  <2>1. DOMAIN cols = {1, 2} /\ cols[1] = c /\ cols[2] = d  OBVIOUS
  <2> QED  BY <2>1 DEF Range
<1>2. PairFixed(e, cols) = <<ValueFixed(e, c), ValueFixed(e, d)>>  BY <1>1 DEF PairFixed
<1>3. PICK p : p = PairFixed(e, cols)  OBVIOUS
<1>4. ValueFixed(e, c) \in Range(p) /\ ValueFixed(e, d) \in Range(p)
  <2>1. p = <<ValueFixed(e, c), ValueFixed(e, d)>>  BY <1>2, <1>3
  <2>2. DOMAIN p = {1, 2} /\ p[1] = ValueFixed(e, c) /\ p[2] = ValueFixed(e, d)  BY <2>1
  <2> QED  BY <2>2 DEF Range
<1>5. Null \notin Range(p)  BY <1>3 DEF Encoded
<1>6. \A x \in {c, d} : \E p1 \in Equalities(e) : p1[1] = x  BY <1>1 DEF Encoded, Fixed
<1> QED  BY <1>2, <1>4, <1>5, <1>6

\* The bucket of a composite index has every row the condition is true of.
LEMMA BucketHasHolding ==
  ASSUME IInv, NEW t \in Tables, NEW e \in Conditions, MatchingIndex(t, e) # {}, NEW outer, NEW sub
  PROVE  Equalities(e) # {} /\ Holding(t, e, outer, sub) \subseteq InBucket(t, e)
<1>1. PICK idx : idx = BestIndex(t, e)  OBVIOUS
<1>2. idx \in MatchingIndex(t, e)  BY <1>1 DEF BestIndex
<1>3. idx \in DOMAIN entries[t] /\ idx.kind = "composite" /\ Encoded(e, idx.cols)
  BY <1>2 DEF MatchingIndex
<1>4. idx.kind = IndexKind(t, idx.cols) /\ idx.cols \in ColumnLists(t)  BY <1>3, IndexShape
<1>5. Len(idx.cols) > 1  BY <1>3, <1>4 DEF IndexKind
<1>6. PICK c, d : c = idx.cols[1] /\ d = idx.cols[2] /\ idx.cols = <<c, d>>
  BY <1>4, <1>5, ListShape
<1>7. /\ PairFixed(e, idx.cols) = <<ValueFixed(e, c), ValueFixed(e, d)>>
      /\ \E p \in Equalities(e) : p[1] = c
      /\ \E p \in Equalities(e) : p[1] = d
  BY <1>3, <1>6, PairIsFixed
<1>8. ASSUME NEW k \in Holding(t, e, outer, sub)  PROVE k \in InBucket(t, e)
  <2>1. k \in DOMAIN rows[t]  BY <1>8 DEF Holding
  <2>2. PICK row : row = rows[t][k]  OBVIOUS
  <2>3. Met(Equalities(e), row)  BY <1>7, <1>8, <2>1, <2>2, HoldingMeets
  <2>4. row[c] = ValueFixed(e, c) /\ row[d] = ValueFixed(e, d)  BY <1>7, <2>3, FixedValue
  <2>5. Pair(row, idx.cols) = PairFixed(e, idx.cols)  BY <1>6, <1>7, <2>4 DEF Pair
  <2>6. BucketOf[PairFixed(e, idx.cols)] \in Slots(idx, row)  BY <1>3, <2>5 DEF Slots
  <2>7. k \in Lookup(t, idx, BucketOf[PairFixed(e, idx.cols)])
    BY <1>3, <2>1, <2>2, <2>6, LookupFinds
  <2> QED  BY <1>1, <2>7 DEF InBucket
<1> QED  BY <1>7, <1>8

\* Two different things are two.
LEMMA PairCounted ==
  ASSUME NEW x, NEW y, x # y
  PROVE  Cardinality({x, y}) = 2
<1>1. PICK one : one = {x}  OBVIOUS
<1>2. IsFiniteSet(one) /\ Cardinality(one) = 1 /\ y \notin one  BY ONLY <1>1, x # y, FS_Singleton
<1>3. Cardinality(one \cup {y}) = 2  BY ONLY <1>2, FS_AddElement
<1>4. {x, y} = one \cup {y}  BY ONLY <1>1
<1> QED  BY ONLY <1>3, <1>4

\* Equalities of all the columns of the key find the row by its fingerprint.
LEMMA KeyFindsHolding ==
  ASSUME IInv, NEW t \in Tables, NEW e \in Conditions, PkFast(t, e), Encoded(e, pk[t]), NEW outer, NEW sub
  PROVE  {KeyOf[PairFixed(e, pk[t])]} \cap DOMAIN rows[t] = Holding(t, e, outer, sub)
<1>1. Composite(t)  BY DEF PkFast
<1>2. PICK c, d : /\ c = pk[t][1] /\ d = pk[t][2] /\ pk[t] = <<c, d>> /\ c # d
                  /\ c \in Cols(t) /\ d \in Cols(t) /\ DOMAIN pk[t] = {1, 2} /\ Len(pk[t]) = 2
  BY <1>1, KeyShape
<1>3. PICK v, w : v = ValueFixed(e, c) /\ w = ValueFixed(e, d)  OBVIOUS
<1>4. /\ PairFixed(e, pk[t]) = <<v, w>> /\ v # Null /\ w # Null
      /\ \E p \in Equalities(e) : p[1] = c
      /\ \E p \in Equalities(e) : p[1] = d
  BY <1>2, <1>3, PairIsFixed
<1>5. /\ <<c, v>> \in Equalities(e) /\ v \in Scalars
      /\ <<d, w>> \in Equalities(e) /\ w \in Scalars
  BY <1>3, <1>4, FixedValue
<1>6. Equalities(e) = {<<c, v>>, <<d, w>>}
  <2>1. PICK E : E = Equalities(e)  OBVIOUS
  <2>2. PICK two : two = {<<c, v>>, <<d, w>>}  OBVIOUS
  <2>3. IsFiniteSet(E)  BY <1>5, <2>1, EqualitiesMean DEF EqualitySet
  <2>4. Cardinality(E) = 2  BY <1>2, <2>1 DEF PkFast
  <2>5. Cardinality(two) = 2
    <3>1. PICK x : x = <<c, v>>  OBVIOUS
    <3>2. PICK y : y = <<d, w>>  OBVIOUS
    <3>3. x # y  BY <1>2, <3>1, <3>2
    <3> QED  BY ONLY <2>2, <3>1, <3>2, <3>3, PairCounted
  <2>6. two \subseteq E  BY <1>5, <2>1, <2>2
  <2>7. two = E  BY <2>3, <2>4, <2>5, <2>6, FS_Subset
  <2> QED  BY <2>1, <2>2, <2>7
<1>7. ASSUME NEW k \in DOMAIN rows[t]
      PROVE k = KeyOf[<<v, w>>] <=> k \in Holding(t, e, outer, sub)
  <2>1. PICK row : row = rows[t][k]  OBVIOUS
  <2>2. row[c] # Null /\ row[d] # Null /\ KeyBy(pk[t], row) = k /\ row[c] \in Scalars /\ row[d] \in Scalars
    BY <1>2, <2>1, RowIs
  <2>3. k = KeyOf[<<row[c], row[d]>>]  BY <1>2, <2>2 DEF KeyBy, Pair
  <2>4. k = KeyOf[<<v, w>>] <=> <<row[c], row[d]>> = <<v, w>>
    <3>1. <<row[c], row[d]>> \in DOMAIN KeyOf /\ <<v, w>> \in DOMAIN KeyOf
      BY <1>5, <2>2, KeyAssumption
    <3> QED  BY <2>3, <3>1, KeyAssumption
  <2>5. Met(Equalities(e), row) <=> row[c] = v /\ row[d] = w  BY <1>4, <1>6, <2>2 DEF Met
  <2>6. Equalities(e) # {}  BY <1>5
  <2> QED  BY <2>1, <2>4, <2>5, <2>6, HoldingMeets
<1> QED  BY <1>4, <1>7 DEF Holding

-----------------------------------------------------------------------------
(* Plans that fetch by a value: of the key, or through an index.           *)

Finds(t, plan, keys) == plan.kind = "refused" \/ Fetched(t, plan) = keys

Hits(t, col, vals) == {k \in DOMAIN rows[t] : rows[t][k][col] # Null /\ rows[t][k][col] \in vals}

LEMMA FetchedIs ==
  ASSUME NEW t, NEW keys
  PROVE  /\ Refused.kind = "refused" /\ Fetched(t, All) = DOMAIN rows[t]
         /\ Fetched(t, Keys(keys)) = keys \cap DOMAIN rows[t]
BY DEF All, Refused, Keys, Fetched

\* What an index on one column has a row under.
LEMMA SingleIndex ==
  ASSUME IInv, NEW t \in Tables, NEW col, NEW idx \in IndexesOn(t, col)
  PROVE  /\ idx \in DOMAIN entries[t]
         /\ idx.kind = IF <<t, col>> \in Text THEN "hash" ELSE "ordered"
         /\ \A row : Slots(idx, row) = IF idx.kind = "hash" THEN {row[col]} ELSE {row[col]} \ {Null}
<1>1. idx \in DOMAIN entries[t] /\ idx.cols = <<col>>  BY DEF IndexesOn
<1>2. idx.kind = IndexKind(t, <<col>>)  BY <1>1, IndexShape
<1>3. IndexKind(t, <<col>>) = IF <<t, col>> \in Text THEN "hash" ELSE "ordered"
  BY DEF IndexKind
<1>4. idx.cols[1] = col  BY <1>1
<1>5. CASE <<t, col>> \in Text  BY <1>1, <1>2, <1>3, <1>4, <1>5 DEF Slots
<1>6. CASE <<t, col>> \notin Text  BY <1>1, <1>2, <1>3, <1>4, <1>6 DEF Slots
<1> QED  BY <1>5, <1>6

LEMMA IndexFinds ==
  ASSUME IInv, NEW t \in Tables, NEW col, IndexesOn(t, col) # {}, NEW vals,
         Null \in vals => \A idx \in IndexesOn(t, col) : idx.kind # "hash"
  PROVE  Fetched(t, LookupAll(t, col, vals)) = Hits(t, col, vals)
<1> DEFINE found == UNION {Lookup(t, idx, v) : idx \in IndexesOn(t, col), v \in vals}
<1>1. Fetched(t, LookupAll(t, col, vals)) = found \cap DOMAIN rows[t]
  <2>1. LookupAll(t, col, vals) = Keys(found)  BY DEF LookupAll
  <2> HIDE DEF found
  <2> QED  BY <2>1, FetchedIs
<1>2. ASSUME NEW k  PROVE k \in found <=> \E idx \in IndexesOn(t, col), v \in vals : k \in Lookup(t, idx, v)
  OBVIOUS
<1> HIDE DEF found
<1>3. ASSUME NEW k \in DOMAIN rows[t], NEW idx \in IndexesOn(t, col), NEW v \in vals
      PROVE k \in Lookup(t, idx, v) <=> rows[t][k][col] = v /\ v # Null
  <2>1. PICK row : row = rows[t][k]  OBVIOUS
  <2>2. k \in Lookup(t, idx, v) <=> v \in Slots(idx, row)
    <3>1. idx \in DOMAIN entries[t]  BY DEF IndexesOn
    <3>2. Lookup(t, idx, v) = {j \in DOMAIN rows[t] : v \in Slots(idx, rows[t][j])}  BY <3>1, LookupFinds
    <3> QED  BY <2>1, <3>2
  <2>3. CASE idx.kind = "hash"
    <3>1. v # Null  BY <2>3
    <3>2. Slots(idx, row) = {row[col]}  BY <2>3, SingleIndex
    <3> QED  BY <2>1, <2>2, <3>1, <3>2
  <2>4. CASE idx.kind # "hash"
    <3>1. Slots(idx, row) = {row[col]} \ {Null}  BY <2>4, SingleIndex
    <3> QED  BY <2>1, <2>2, <3>1
  <2> QED  BY <2>3, <2>4
<1>4. ASSUME NEW k \in DOMAIN rows[t]  PROVE k \in found <=> k \in Hits(t, col, vals)
  BY <1>2, <1>3 DEF Hits
<1> QED  BY <1>1, <1>4 DEF Hits

\* The rows with a value of a key of one column are the keys themselves.
LEMMA KeysFind ==
  ASSUME IInv, NEW t \in Tables, NEW col, ~Composite(t), col = pk[t][1], NEW vals
  PROVE  /\ Fetched(t, Keys(vals)) = Hits(t, col, vals)
         /\ \A k \in DOMAIN rows[t] : rows[t][k][col] = k /\ k # Null
<1>1. DOMAIN pk[t] = {1} /\ Len(pk[t]) = 1  BY KeyShape
<1>2. ASSUME NEW k \in DOMAIN rows[t]  PROVE rows[t][k][col] = k /\ k # Null
  <2>1. rows[t][k][pk[t][1]] # Null /\ KeyBy(pk[t], rows[t][k]) = k  BY <1>1, RowIs
  <2> QED  BY <1>1, <2>1 DEF KeyBy
<1>3. Fetched(t, Keys(vals)) = vals \cap DOMAIN rows[t]  BY FetchedIs
<1> QED  BY <1>2, <1>3 DEF Hits

LEMMA ByValueFinds ==
  ASSUME IInv, NEW t \in Tables, NEW col, ~(Composite(t) /\ col = pk[t][1]), NEW vals,
         Null \in vals => \A idx \in IndexesOn(t, col) : idx.kind # "hash"
  PROVE  Finds(t, ByValue(t, col, vals), Hits(t, col, vals))
<1>1. CASE vals = {}
  <2>1. ByValue(t, col, vals) = Keys({})  BY <1>1 DEF ByValue
  <2>2. Hits(t, col, vals) = {}  BY <1>1 DEF Hits
  <2>3. PICK none : none = {}  OBVIOUS
  <2>4. Fetched(t, Keys(none)) = {}  BY <2>3, FetchedIs
  <2> QED  BY <2>1, <2>2, <2>3, <2>4 DEF Finds
<1>2. CASE vals # {} /\ col = pk[t][1]
  <2>1. ByValue(t, col, vals) = IF Null \in vals THEN Refused ELSE Keys(vals)  BY <1>2 DEF ByValue
  <2> QED  BY <1>2, <2>1, KeysFind, FetchedIs DEF Finds
<1>3. CASE vals # {} /\ col # pk[t][1] /\ IndexesOn(t, col) = {}
  BY <1>3, FetchedIs DEF ByValue, Finds
<1>4. CASE vals # {} /\ col # pk[t][1] /\ IndexesOn(t, col) # {}
  <2>1. ByValue(t, col, vals) = LookupAll(t, col, vals)  BY <1>4 DEF ByValue
  <2> QED  BY <1>4, <2>1, IndexFinds DEF Finds
<1> QED  BY <1>1, <1>2, <1>3, <1>4

\* The rows an atom is true of.
LEMMA HoldingIs ==
  ASSUME NEW t, NEW e \in Conditions, e.op \notin {"and", "or", "not"}, NEW outer, NEW sub
  PROVE  Holding(t, e, outer, sub)
           = {k \in DOMAIN rows[t] : AtomVerdict(t, e, rows[t][k], outer, sub) = "true"}
<1>1. ASSUME NEW row  PROVE Verdict(t, e, row, outer, sub) = AtomVerdict(t, e, row, outer, sub)
  BY VerdictOf
<1> QED  BY <1>1 DEF Holding

LEMMA HoldingEq ==
  ASSUME NEW t, NEW e \in Conditions, e.op = "eq", NEW outer, NEW sub
  PROVE  Holding(t, e, outer, sub) = Hits(t, e.col, {e.val})
<1>1. Holding(t, e, outer, sub)
        = {k \in DOMAIN rows[t] : AtomVerdict(t, e, rows[t][k], outer, sub) = "true"}
  <2>1. ASSUME NEW row  PROVE Verdict(t, e, row, outer, sub) = AtomVerdict(t, e, row, outer, sub)
    BY VerdictOf
  <2> QED  BY <2>1 DEF Holding
<1>2. ASSUME NEW row
      PROVE AtomVerdict(t, e, row, outer, sub) = "true" <=> row[e.col] # Null /\ row[e.col] \in {e.val}
  <2>1. AtomVerdict(t, e, row, outer, sub) = Equal(row[e.col], e.val)  BY AtomEq
  <2> QED  BY <2>1, EqualTrue
<1> QED  BY <1>1, <1>2 DEF Hits

LEMMA EqualityFinds ==
  ASSUME IInv, NEW t \in Tables, NEW e \in Conditions, e.op = "eq", NEW outer, NEW sub,
         ~NullLookup(t, e, outer), SimplePk(t, e.col) \/ IndexesOn(t, e.col) # {}
  PROVE  Finds(t, EqualityPlan(t, e), Holding(t, e, outer, sub))
<1>1. Holding(t, e, outer, sub) = Hits(t, e.col, {e.val})  BY HoldingEq
<1>2. CASE SimplePk(t, e.col)
  <2>1. EqualityPlan(t, e) = IF e.val = Null THEN Refused ELSE Keys({e.val})  BY <1>2 DEF EqualityPlan
  <2>2. Fetched(t, Keys({e.val})) = Hits(t, e.col, {e.val})  BY <1>2, KeysFind DEF SimplePk
  <2> QED  BY <1>1, <2>1, <2>2, FetchedIs DEF Finds
<1>3. CASE ~SimplePk(t, e.col)
  <2>1. EqualityPlan(t, e) = LookupAll(t, e.col, {e.val})  BY <1>3 DEF EqualityPlan
  <2>2. Null \in {e.val} => \A idx \in IndexesOn(t, e.col) : idx.kind # "hash"  BY DEF NullLookup
  <2>3. Fetched(t, LookupAll(t, e.col, {e.val})) = Hits(t, e.col, {e.val})
    BY <1>3, <2>2, IndexFinds
  <2> QED  BY <1>1, <2>1, <2>3 DEF Finds
<1> QED  BY <1>2, <1>3

LEMMA HoldingRef ==
  ASSUME NEW t, NEW e \in Conditions, e.op = "ref", NEW outer, outer # Null, NEW sub
  PROVE  Holding(t, e, outer, sub) = Hits(t, e.col, {outer[e.out]})
<1>1. Holding(t, e, outer, sub)
        = {k \in DOMAIN rows[t] : AtomVerdict(t, e, rows[t][k], outer, sub) = "true"}
  <2>1. e.op \notin {"and", "or", "not"}  OBVIOUS
  <2> QED  BY <2>1, HoldingIs
<1>2. ASSUME NEW row
      PROVE AtomVerdict(t, e, row, outer, sub) = "true"
              <=> row[e.col] # Null /\ row[e.col] \in {outer[e.out]}
  <2>1. AtomVerdict(t, e, row, outer, sub) = Equal(row[e.col], outer[e.out])  BY AtomRef
  <2> QED  BY <2>1, EqualTrue
<1> QED  BY <1>1, <1>2 DEF Hits

LEMMA RefFinds ==
  ASSUME IInv, NEW t \in Tables, NEW e \in Conditions, e.op = "ref", NEW outer, NEW sub, outer # Null,
         ~NullLookup(t, e, outer), ~PkPrefix(t, e)
  PROVE  Finds(t, ByValue(t, e.col, {outer[e.out]}), Holding(t, e, outer, sub))
<1>1. Holding(t, e, outer, sub) = Hits(t, e.col, {outer[e.out]})  BY HoldingRef
<1>2. ~(Composite(t) /\ e.col = pk[t][1])  BY DEF PkPrefix
<1>3. Null \in {outer[e.out]} => \A idx \in IndexesOn(t, e.col) : idx.kind # "hash"  BY DEF NullLookup
<1> QED  BY <1>1, <1>2, <1>3, ByValueFinds

-----------------------------------------------------------------------------
(* Plans of BETWEEN and of subqueries.                                     *)

Ranged(t, col, from, to) ==
  {k \in DOMAIN rows[t] : rows[t][k][col] # Null /\ from <= rows[t][k][col] /\ rows[t][k][col] <= to}

LEMMA HoldingBetween ==
  ASSUME NEW t, NEW e \in Conditions, e.op = "between", <<t, e.col>> \notin Text, NEW outer, NEW sub
  PROVE  Holding(t, e, outer, sub) = Ranged(t, e.col, e.from, e.to)
<1>1. Holding(t, e, outer, sub)
        = {k \in DOMAIN rows[t] : AtomVerdict(t, e, rows[t][k], outer, sub) = "true"}
  <2>1. e.op \notin {"and", "or", "not"}  OBVIOUS
  <2> QED  BY <2>1, HoldingIs
<1>2. ASSUME NEW row
      PROVE AtomVerdict(t, e, row, outer, sub) = "true"
              <=> row[e.col] # Null /\ e.from <= row[e.col] /\ row[e.col] <= e.to
  <2>1. AtomVerdict(t, e, row, outer, sub) = Between(row[e.col], e.from, e.to, <<t, e.col>> \in Text)
    BY AtomBetween
  <2> QED  BY <2>1 DEF Between, Told
<1> QED  BY <1>1, <1>2 DEF Ranged

LEMMA RangeFinds ==
  ASSUME IInv, NEW t \in Tables, NEW col, NEW idx \in IndexesOn(t, col), idx.kind = "ordered", NEW from, NEW to
  PROVE  LookupRange(t, idx, from, to) = Ranged(t, col, from, to)
<1>1. idx \in DOMAIN entries[t] /\ \A row : Slots(idx, row) = {row[col]} \ {Null}  BY SingleIndex
<1>2. entries[t][idx] = Entries(idx, rows[t])  BY <1>1, IndexShape
<1>3. ASSUME NEW x  PROVE x \in entries[t][idx] <=>
        \E k \in DOMAIN rows[t] : rows[t][k][col] # Null /\ x = <<rows[t][k][col], k>>
  <2>1. x \in entries[t][idx] <=> \E k \in DOMAIN rows[t] : \E s \in Slots(idx, rows[t][k]) : x = <<s, k>>
    BY <1>2 DEF Entries, EntriesAt
  <2> QED  BY <1>1, <2>1
<1>4. ASSUME NEW k
      PROVE  k \in LookupRange(t, idx, from, to)
               <=> \E x \in entries[t][idx] : from <= x[1] /\ x[1] <= to /\ x[2] = k
  BY DEF LookupRange
<1>5. ASSUME NEW k \in LookupRange(t, idx, from, to)  PROVE k \in Ranged(t, col, from, to)
  <2>1. PICK x \in entries[t][idx] : from <= x[1] /\ x[1] <= to /\ x[2] = k  BY <1>4, <1>5
  <2>2. PICK j \in DOMAIN rows[t] : rows[t][j][col] # Null /\ x = <<rows[t][j][col], j>>  BY <1>3, <2>1
  <2>3. j = k /\ x[1] = rows[t][k][col]  BY <2>1, <2>2
  <2> QED  BY <2>1, <2>2, <2>3 DEF Ranged
<1>6. ASSUME NEW k \in Ranged(t, col, from, to)  PROVE k \in LookupRange(t, idx, from, to)
  <2>1. PICK v : v = rows[t][k][col]  OBVIOUS
  <2>2. k \in DOMAIN rows[t] /\ v # Null /\ from <= v /\ v <= to  BY <1>6, <2>1 DEF Ranged
  <2>3. PICK x : x = <<v, k>>  OBVIOUS
  <2>4. x \in entries[t][idx]  BY <1>3, <2>1, <2>2, <2>3
  <2>5. x[1] = v /\ x[2] = k  BY <2>3
  <2> QED  BY <1>4, <2>2, <2>4, <2>5
<1> QED  BY <1>5, <1>6

LEMMA BetweenFinds ==
  ASSUME IInv, NEW t \in Tables, NEW e \in Conditions, e.op = "between", NEW outer, NEW sub,
         SimplePk(t, e.col) \/ \E idx \in IndexesOn(t, e.col) : idx.kind = "ordered"
  PROVE  Finds(t, BetweenPlan(t, e), Holding(t, e, outer, sub))
<1>1. CASE SimplePk(t, e.col)
  <2>1. ~Composite(t) /\ e.col = pk[t][1] /\ <<t, e.col>> \notin Text  BY <1>1, KeyShape DEF SimplePk
  <2>2. PICK keys : keys = {k \in DOMAIN rows[t] : e.from <= k /\ k <= e.to}  OBVIOUS
  <2>3. BetweenPlan(t, e) = Keys(keys)  BY <1>1, <2>2 DEF BetweenPlan
  <2>4. Fetched(t, Keys(keys)) = keys  BY <2>2, FetchedIs
  <2>5. keys = Ranged(t, e.col, e.from, e.to)  BY <2>1, <2>2, KeysFind DEF Ranged
  <2> QED  BY <2>1, <2>3, <2>4, <2>5, HoldingBetween DEF Finds
<1>2. CASE ~SimplePk(t, e.col)
  <2>1. PICK one \in IndexesOn(t, e.col) : one.kind = "ordered"  BY <1>2
  <2>2. <<t, e.col>> \notin Text  BY <2>1, SingleIndex
  <2>3. \A idx \in IndexesOn(t, e.col) : idx.kind = "ordered"  BY <2>2, SingleIndex
  <2>4. PICK keys : keys = UNION {LookupRange(t, idx, e.from, e.to) : idx \in IndexesOn(t, e.col)}  OBVIOUS
  <2>5. BetweenPlan(t, e) = Keys(keys)  BY <1>2, <2>1, <2>4 DEF BetweenPlan
  <2>6. \A idx \in IndexesOn(t, e.col) : LookupRange(t, idx, e.from, e.to) = Ranged(t, e.col, e.from, e.to)
    BY <2>3, RangeFinds
  <2>7. keys = Ranged(t, e.col, e.from, e.to)  BY <2>1, <2>4, <2>6
  <2>8. Fetched(t, Keys(keys)) = keys  BY <2>7, FetchedIs DEF Ranged
  <2> QED  BY <2>2, <2>5, <2>7, <2>8, HoldingBetween DEF Finds
<1> QED  BY <1>1, <1>2

LEMMA ColumnOfSingle ==
  ASSUME NEW answer, Single(answer), Column(answer) # {}
  PROVE  Column(answer) = {answer.rows[1][1]}
BY DEF Single, Column

LEMMA SubqueryFinds ==
  ASSUME IInv, NEW t \in Tables, NEW e \in Conditions, e.op \in WithSub, NEW outer, NEW sub,
         e.op = "scalar" \/ ~HasRef(e.sub.where), e.op = "in" => ~e.negated, ~PkPrefix(t, e)
  PROVE  Finds(t, SubqueryPlan(t, e, sub[<<e.sub, Null>>]), Holding(t, e, outer, sub))
<1>1. PICK answer : answer = sub[<<e.sub, Null>>]  OBVIOUS
<1>2. Holding(t, e, outer, sub)
        = {k \in DOMAIN rows[t] : AtomVerdict(t, e, rows[t][k], outer, sub) = "true"}
  <2>1. e.op \notin {"and", "or", "not"}  BY DEF WithSub
  <2> QED  BY <2>1, HoldingIs
<1>3. ASSUME NEW row
      PROVE AtomVerdict(t, e, row, outer, sub)
              = SubqueryVerdict(e, IF e.op = "exists" THEN Null ELSE row[e.col], answer)
  BY <1>1, AtomSub
<1>4. CASE ~answer.ok \/ (e.op = "scalar" /\ ~Single(answer))
  <2>1. SubqueryPlan(t, e, answer) = Refused  BY <1>4 DEF SubqueryPlan
  <2> QED  BY <1>1, <2>1, FetchedIs DEF Finds
<1>5. CASE answer.ok /\ e.op = "exists"
  <2>1. SubqueryPlan(t, e, answer) = IF (answer.rows # <<>>) # e.negated THEN All ELSE Keys({})
    BY <1>5 DEF SubqueryPlan
  <2>2. ASSUME NEW row
        PROVE AtomVerdict(t, e, row, outer, sub) = Told((answer.rows # <<>>) # e.negated)
    BY <1>3, <1>5 DEF SubqueryVerdict
  <2>3. CASE (answer.rows # <<>>) # e.negated
    <3>1. \A row : AtomVerdict(t, e, row, outer, sub) = "true"  BY <2>2, <2>3 DEF Told
    <3>2. Holding(t, e, outer, sub) = DOMAIN rows[t]  BY <1>2, <3>1
    <3> QED  BY <1>1, <2>1, <2>3, <3>2, FetchedIs DEF Finds
  <2>4. CASE ~((answer.rows # <<>>) # e.negated)
    <3>1. \A row : AtomVerdict(t, e, row, outer, sub) = "false"  BY <2>2, <2>4 DEF Told
    <3>2. Holding(t, e, outer, sub) = {}  BY <1>2, <3>1
    <3>3. PICK none : none = {}  OBVIOUS
    <3>4. Fetched(t, Keys(none)) = {}  BY <3>3, FetchedIs
    <3> QED  BY <1>1, <2>1, <2>4, <3>2, <3>3, <3>4 DEF Finds
  <2> QED  BY <2>3, <2>4
<1>6. CASE answer.ok /\ e.op \in {"in", "scalar"} /\ (e.op = "scalar" => Single(answer))
  <2>1. PICK vals : vals = Column(answer) \ {Null}  OBVIOUS
  <2>2. SubqueryPlan(t, e, answer) = ByValue(t, e.col, vals)  BY <1>6, <2>1 DEF SubqueryPlan
  <2>3. ~(Composite(t) /\ e.col = pk[t][1])  BY <1>6 DEF PkPrefix
  <2>4. Finds(t, ByValue(t, e.col, vals), Hits(t, e.col, vals))  BY <2>1, <2>3, ByValueFinds
  <2>5. ASSUME NEW row
        PROVE AtomVerdict(t, e, row, outer, sub) = "true" <=> row[e.col] # Null /\ row[e.col] \in vals
    <3>1. PICK x : x = row[e.col]  OBVIOUS
    <3>2. AtomVerdict(t, e, row, outer, sub) = SubqueryVerdict(e, x, answer)  BY <1>3, <1>6, <3>1
    <3>3. CASE e.op = "in"
      <4>1. SubqueryVerdict(e, x, answer) = InSubquery(x, Column(answer), e.negated)
        BY <1>6, <3>3 DEF SubqueryVerdict
      <4>2. InSubquery(x, Column(answer), e.negated) = IF x = Null THEN "null" ELSE Told(x \in Column(answer))
        BY <3>3 DEF InSubquery
      <4> QED  BY <2>1, <3>1, <3>2, <4>1, <4>2 DEF Told
    <3>4. CASE e.op = "scalar"
      <4>1. SubqueryVerdict(e, x, answer)
              = IF Column(answer) = {} THEN "null" ELSE Equal(x, answer.rows[1][1])
        BY <1>6, <3>4 DEF SubqueryVerdict
      <4>2. CASE Column(answer) = {}  BY <2>1, <3>1, <3>2, <4>1, <4>2
      <4>3. CASE Column(answer) # {}
        <5>1. Column(answer) = {answer.rows[1][1]}  BY <1>6, <3>4, <4>3, ColumnOfSingle
        <5>2. Equal(x, answer.rows[1][1]) = "true" <=>
                x # Null /\ answer.rows[1][1] # Null /\ x = answer.rows[1][1]
          BY EqualTrue
        <5> QED  BY <2>1, <3>1, <3>2, <4>1, <4>3, <5>1, <5>2
      <4> QED  BY <4>2, <4>3
    <3> QED  BY <1>6, <3>3, <3>4
  <2>6. Holding(t, e, outer, sub) = Hits(t, e.col, vals)  BY <1>2, <2>5 DEF Hits
  <2> QED  BY <1>1, <2>2, <2>4, <2>6
<1> QED  BY <1>4, <1>5, <1>6 DEF WithSub

-----------------------------------------------------------------------------
(* Every plan.                                                             *)

\* A plan none of the shortcuts was taken for, and that nothing filters.
LEMMA PlanByOp ==
  ASSUME NEW t, NEW e \in Conditions, NEW outer, NEW est, NEW sub,
         ~PkFast(t, e), ~SkipIndex(t, e, est), ~CompositeIndexPlan(t, e), ~Filters(t, e, est)
  PROVE  /\ e.op \in {"all", "eq", "between", "ref"} \cup WithSub
         /\ e.op = "all" => Plan(t, e, outer, est, sub) = All
         /\ e.op = "eq" => /\ Plan(t, e, outer, est, sub) = EqualityPlan(t, e)
                           /\ SimplePk(t, e.col) \/ IndexesOn(t, e.col) # {}
         /\ e.op = "between" => /\ Plan(t, e, outer, est, sub) = BetweenPlan(t, e)
                                /\ \/ SimplePk(t, e.col)
                                   \/ \E idx \in IndexesOn(t, e.col) : idx.kind = "ordered"
         /\ e.op = "ref" => Plan(t, e, outer, est, sub)
                              = IF outer = Null THEN Refused ELSE ByValue(t, e.col, {outer[e.out]})
         /\ e.op \in WithSub => Plan(t, e, outer, est, sub) = SubqueryPlan(t, e, sub[<<e.sub, Null>>])
         /\ e.op = "in" => ~e.negated
         /\ e.op = "exists" => ~HasRef(e.sub.where)
<1>1. ~Correlated(e) /\ ~PostFilter(t, e, est)  BY DEF Filters
<1>2. e.op \in Atoms \cup Connectives \cup {"not"}  BY ConditionAssumption
<1>3. e.op \in {"all", "eq", "between", "ref"} \cup WithSub
  BY <1>1, <1>2 DEF PostFilter, Atoms, Connectives, WithSub
<1>4. Plan(t, e, outer, est, sub)
        = CASE e.op \in {"all", "and"} -> All
            [] e.op = "eq"      -> EqualityPlan(t, e)
            [] e.op = "between" -> BetweenPlan(t, e)
            [] e.op = "ref"     -> IF outer = Null THEN Refused ELSE ByValue(t, e.col, {outer[e.out]})
            [] OTHER            -> SubqueryPlan(t, e, sub[<<e.sub, Null>>])
  BY <1>1 DEF Plan
<1>5. CASE e.op = "all"  BY <1>3, <1>4, <1>5 DEF WithSub
<1>6. CASE e.op = "eq"  BY <1>1, <1>3, <1>4, <1>6 DEF WithSub, PostFilter
<1>7. CASE e.op = "between"  BY <1>1, <1>3, <1>4, <1>7 DEF WithSub, PostFilter
<1>8. CASE e.op = "ref"  BY <1>3, <1>4, <1>8 DEF WithSub
<1>9. CASE e.op \in WithSub
  <2>1. Plan(t, e, outer, est, sub) = SubqueryPlan(t, e, sub[<<e.sub, Null>>])
    BY <1>4, <1>9 DEF WithSub
  <2>2. e.op = "in" => ~e.negated  BY <1>1 DEF PostFilter
  <2>3. e.op = "exists" => ~HasRef(e.sub.where)  BY <1>1 DEF Correlated
  <2> QED  BY <1>3, <1>9, <2>1, <2>2, <2>3 DEF WithSub
<1> QED  BY <1>3, <1>5, <1>6, <1>7, <1>8, <1>9

LEMMA UnfilteredPlan ==
  ASSUME IInv, NEW t \in Tables, NEW e \in Conditions, NEW outer, NEW est, NEW sub,
         ~PkFast(t, e), ~SkipIndex(t, e, est), ~CompositeIndexPlan(t, e), ~Filters(t, e, est),
         ~Astray(t, e, outer)
  PROVE  Finds(t, Plan(t, e, outer, est, sub), Holding(t, e, outer, sub))
<1>1. PICK plan : plan = Plan(t, e, outer, est, sub)  OBVIOUS
<1>2. ~PkPrefix(t, e) /\ ~LooseIn(e)  BY DEF Astray
<1>3. CASE e.op = "all"
  <2>1. plan = All  BY <1>1, <1>3, PlanByOp
  <2>2. e.op \notin {"and", "or", "not"}  BY <1>3
  <2>3. Holding(t, e, outer, sub)
          = {k \in DOMAIN rows[t] : AtomVerdict(t, e, rows[t][k], outer, sub) = "true"}
    BY <2>2, HoldingIs
  <2>4. \A row : AtomVerdict(t, e, row, outer, sub) = "true"  BY <1>3, AtomAll
  <2>5. Holding(t, e, outer, sub) = DOMAIN rows[t]  BY <2>3, <2>4
  <2> QED  BY <1>1, <2>1, <2>5, FetchedIs DEF Finds
<1>4. CASE e.op = "eq"
  <2>1. plan = EqualityPlan(t, e) /\ (SimplePk(t, e.col) \/ IndexesOn(t, e.col) # {})
    BY <1>1, <1>4, PlanByOp
  <2>2. ~NullLookup(t, e, outer)  BY <1>4 DEF Astray
  <2> QED  BY <1>1, <1>4, <2>1, <2>2, EqualityFinds
<1>5. CASE e.op = "between"
  <2>1. /\ plan = BetweenPlan(t, e)
        /\ SimplePk(t, e.col) \/ \E idx \in IndexesOn(t, e.col) : idx.kind = "ordered"
    BY <1>1, <1>5, PlanByOp
  <2> QED  BY <1>1, <1>5, <2>1, BetweenFinds
<1>6. CASE e.op = "ref" /\ outer = Null
  <2>1. plan = Refused  BY <1>1, <1>6, PlanByOp
  <2> QED  BY <1>1, <2>1, FetchedIs DEF Finds
<1>7. CASE e.op = "ref" /\ outer # Null
  <2>1. plan = ByValue(t, e.col, {outer[e.out]})  BY <1>1, <1>7, PlanByOp
  <2>2. ~NullLookup(t, e, outer)  BY <1>7 DEF Astray
  <2> QED  BY <1>1, <1>2, <1>7, <2>1, <2>2, RefFinds
<1>8. CASE e.op \in WithSub
  <2>1. plan = SubqueryPlan(t, e, sub[<<e.sub, Null>>])  BY <1>1, <1>8, PlanByOp
  <2>2. e.op = "in" => ~e.negated /\ ~HasRef(e.sub.where)  BY <1>2, PlanByOp DEF LooseIn
  <2>3. e.op = "exists" => ~HasRef(e.sub.where)  BY PlanByOp
  <2>4. e.op = "scalar" \/ ~HasRef(e.sub.where)  BY <1>8, <2>2, <2>3 DEF WithSub
  <2> QED  BY <1>1, <1>2, <1>8, <2>1, <2>2, <2>4, SubqueryFinds
<1> QED  BY <1>3, <1>4, <1>5, <1>6, <1>7, <1>8, PlanByOp

\* A composite index is chosen for a condition that filters what it fetches.
LEMMA CompositeFilters ==
  ASSUME IInv, NEW t \in Tables, NEW e \in Conditions, NEW est, ~PkFast(t, e), MatchingIndex(t, e) # {}
  PROVE  Filters(t, e, est)
<1>1. PICK idx : idx \in MatchingIndex(t, e)  OBVIOUS
<1>2. idx \in DOMAIN entries[t] /\ idx.kind = "composite" /\ Encoded(e, idx.cols)
  BY <1>1 DEF MatchingIndex
<1>3. idx.kind = IndexKind(t, idx.cols) /\ idx.cols \in ColumnLists(t)  BY <1>2, IndexShape
<1>4. Len(idx.cols) > 1  BY <1>2, <1>3 DEF IndexKind
<1>5. PICK c, d : c = idx.cols[1] /\ d = idx.cols[2] /\ idx.cols = <<c, d>> /\ c # d
  BY <1>3, <1>4, ListShape
<1>6. PICK p \in Equalities(e) : p[1] = c  BY <1>2, <1>5, PairIsFixed
<1>7. PICK q \in Equalities(e) : q[1] = d  BY <1>2, <1>5, PairIsFixed
<1>8. e.op \in {"eq", "and"}  BY <1>6, EqualitiesMean
<1>9. e.op # "eq"
  <2> SUFFICES ASSUME e.op = "eq"  PROVE FALSE
    OBVIOUS
  <2>1. Equalities(e) = {<<e.col, e.val>>}  BY EqualitiesOf
  <2> QED  BY <1>5, <1>6, <1>7, <2>1
<1> QED  BY <1>8, <1>9 DEF Filters, PostFilter

LEMMA PlanRight ==
  ASSUME IInv, NEW t \in Tables, NEW e \in Conditions, NEW outer, NEW est, NEW sub
  PROVE  PlanAgrees(t, e, outer, est, sub)
<1>1. PICK plan : plan = Plan(t, e, outer, est, sub)  OBVIOUS
<1>2. PICK held : held = Holding(t, e, outer, sub)  OBVIOUS
<1> SUFFICES ASSUME ~Astray(t, e, outer)
             PROVE  \/ plan.kind = "refused"
                    \/ IF Filters(t, e, est) THEN held \subseteq Fetched(t, plan) ELSE held = Fetched(t, plan)
  BY <1>1, <1>2 DEF PlanAgrees
<1>3. held \subseteq DOMAIN rows[t]  BY <1>2 DEF Holding
<1>4. CASE PkFast(t, e)
  <2>1. Encoded(e, pk[t])  BY <1>4 DEF Astray, PartialKey
  <2>2. PICK keys : keys = {KeyOf[PairFixed(e, pk[t])]}  OBVIOUS
  <2>3. plan = Keys(keys)  BY <1>1, <1>4, <2>1, <2>2 DEF Plan
  <2>4. keys \cap DOMAIN rows[t] = held  BY <1>2, <1>4, <2>1, <2>2, KeyFindsHolding
  <2>5. Fetched(t, plan) = held  BY <2>3, <2>4, FetchedIs
  <2> QED  BY <2>5
<1>5. CASE ~PkFast(t, e) /\ SkipIndex(t, e, est)
  <2>1. plan = All  BY <1>1, <1>5 DEF Plan
  <2>2. Filters(t, e, est)  BY <1>5 DEF Filters, PostFilter, SkipIndex
  <2> QED  BY <1>3, <2>1, <2>2, FetchedIs
<1>6. CASE ~PkFast(t, e) /\ ~SkipIndex(t, e, est) /\ CompositeIndexPlan(t, e)
  <2>1. plan = Keys(InBucket(t, e))  BY <1>1, <1>6 DEF Plan
  <2>2. MatchingIndex(t, e) # {}  BY <1>6 DEF CompositeIndexPlan
  <2>3. held \subseteq InBucket(t, e)  BY <1>2, <2>2, BucketHasHolding
  <2>4. Filters(t, e, est)  BY <1>6, <2>2, CompositeFilters
  <2>5. Fetched(t, plan) = InBucket(t, e) \cap DOMAIN rows[t]  BY <2>1, FetchedIs
  <2> QED  BY <1>3, <2>3, <2>4, <2>5
<1>7. CASE /\ ~PkFast(t, e) /\ ~SkipIndex(t, e, est) /\ ~CompositeIndexPlan(t, e)
           /\ Filters(t, e, est)
  <2>1. plan = All  BY <1>1, <1>7 DEF Plan, Filters
  <2> QED  BY <1>3, <1>7, <2>1, FetchedIs
<1>8. CASE /\ ~PkFast(t, e) /\ ~SkipIndex(t, e, est) /\ ~CompositeIndexPlan(t, e)
           /\ ~Filters(t, e, est)
  <2>1. Finds(t, plan, held)  BY <1>1, <1>2, <1>8, UnfilteredPlan
  <2> QED  BY <1>8, <2>1 DEF Finds
<1> QED  BY <1>4, <1>5, <1>6, <1>7, <1>8

\* The rows of an UPDATE or a DELETE.
LEMMA TargetsRight ==
  ASSUME IInv, NEW t \in Tables, NEW e \in Conditions, NEW est
  PROVE  TargetsAre(t, e, Verdicts(t, e, est))
<1>1. PICK verdict : verdict = Verdicts(t, e, est)  OBVIOUS
<1>2. PICK sub : sub = Subs(est)  OBVIOUS
<1>3. PICK held : held = Holding(t, e, Null, sub)  OBVIOUS
<1>4. verdict = [k \in DOMAIN rows[t] |-> Verdict(t, e, rows[t][k], Null, sub)]
  BY <1>1, <1>2 DEF Verdicts
<1>5. {k \in DOMAIN rows[t] : verdict[k] = "true"} = held  BY <1>3, <1>4 DEF Holding
<1> SUFFICES ASSUME Allowed(t, e, verdict)
             PROVE  Targets(t, e, verdict) \cap DOMAIN rows[t] = held
  BY <1>1, <1>5 DEF TargetsAre
<1>6. held \subseteq DOMAIN rows[t]  BY <1>3 DEF Holding
<1>7. CASE e.op = "eq" /\ SimplePk(t, e.col)
  <2>1. Targets(t, e, verdict) = {e.val}  BY <1>7 DEF Targets
  <2>2. held = Hits(t, e.col, {e.val})  BY <1>3, <1>7, HoldingEq
  <2>3. PICK vals : vals = {e.val}  OBVIOUS
  <2>4. Fetched(t, Keys(vals)) = Hits(t, e.col, vals)  BY <1>7, KeysFind DEF SimplePk
  <2>5. Fetched(t, Keys(vals)) = vals \cap DOMAIN rows[t]  BY FetchedIs
  <2> QED  BY <2>1, <2>2, <2>3, <2>4, <2>5
<1>8. CASE ~(e.op = "eq" /\ SimplePk(t, e.col)) /\ PkFast(t, e) /\ Encoded(e, pk[t])
  <2>1. Targets(t, e, verdict) = {KeyOf[PairFixed(e, pk[t])]}  BY <1>8 DEF Targets
  <2> QED  BY <1>3, <1>8, <2>1, KeyFindsHolding
<1>9. CASE ~(e.op = "eq" /\ SimplePk(t, e.col)) /\ ~(PkFast(t, e) /\ Encoded(e, pk[t]))
  <2>1. \/ Targets(t, e, verdict) = held
        \/ MatchingIndex(t, e) # {} /\ Targets(t, e, verdict) = held \cap InBucket(t, e)
    BY <1>5, <1>9 DEF Targets
  <2>2. MatchingIndex(t, e) # {} => held \subseteq InBucket(t, e)  BY <1>3, BucketHasHolding
  <2> QED  BY <1>6, <2>1, <2>2
<1> QED  BY <1>7, <1>8, <1>9

LEMMA PlansAlwaysAgree == IInv => PlansAgree
BY PlanRight, ConditionAssumption DEF PlansAgree

LEMMA TargetsAlwaysAgree == IInv => TargetsAgree
BY TargetsRight, ConditionAssumption DEF TargetsAgree

\* Whatever the key, the index or the statistics, a plan fetches the rows a
\* scan would have kept, or more of them when a filter follows.
THEOREM PlansCorrect == Spec => []PlansAgree
BY Inductive, PlansAlwaysAgree, PTL

\* And an UPDATE or a DELETE changes the rows a scan would have found.
THEOREM TargetsCorrect == Spec => []TargetsAgree
BY Inductive, TargetsAlwaysAgree, PTL
=============================================================================
