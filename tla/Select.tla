------------------------------- MODULE Select -------------------------------
(***************************************************************************)
(* The executor of SELECT, UPDATE and DELETE over tables and their         *)
(* secondary indexes: which plan a WHERE gets, what the plan fetches and   *)
(* the filters that follow it.  A WHERE is a record: an atom or "and",     *)
(* "or", "not" of others; [op |-> "all"] is a query without WHERE.         *)
(***************************************************************************)
EXTENDS Relational

CONSTANTS ColumnsOf,     \* the columns of each table, in order
          Text,          \* <<table, column>> that is not INT
          PrimaryKeys,   \* per table, the primary keys it may be created with
          ValuesOf,      \* <<table, column>> -> what it may hold, NULL if it may
          KeyOf,         \* fingerprint of a pair of values as a row's key
          BucketOf,      \* fingerprint of a pair of values in an index
          StartRows,     \* per table, the rows it may have been loaded with
          IndexLists,    \* per table, the column lists it may be indexed on
          Depth,         \* how deep each condition nests, for all that occur
          Asks,          \* conditions asked of a table, and the table around it
          Wheres, Sets,  \* per table, conditions and assignments of UPDATE, DELETE
          MaxRows, MaxStatements

Tables     == DOMAIN ColumnsOf
Cols(t)    == Range(ColumnsOf[t])
Conditions == DOMAIN Depth
Scalars    == {p[1] : p \in DOMAIN KeyOf}   \* what a key or a bucket is made of

RowsOf(t)  == {row \in [Cols(t) -> UNION {ValuesOf[<<t, c>>] : c \in Cols(t)}] :
                 \A c \in Cols(t) : row[c] \in ValuesOf[<<t, c>>]}

\* Keys and indexes have one column, or two that differ.
ColumnLists(t) == {<<c>> : c \in Cols(t)} \cup {p \in Cols(t) \X Cols(t) : p[1] # p[2]}

Connectives == {"and", "or"}
WithSub   == {"in", "exists", "scalar"}
Atoms     == WithSub \cup {"all", "eq", "ref", "cmp", "between", "null", "list"}

ASSUME TableAssumption ==
  /\ MaxRows \in Nat /\ MaxStatements \in Nat
  /\ \A t \in Tables :
       /\ PrimaryKeys[t] # {} /\ PrimaryKeys[t] \subseteq ColumnLists(t)
       /\ \A p \in PrimaryKeys[t] : Len(p) = 1 => <<t, p[1]>> \notin Text
       /\ IndexLists[t] \subseteq ColumnLists(t)
       /\ \A set \in Sets[t] : set.col \in Cols(t) /\ set.val \in ValuesOf[<<t, set.col>>]
       /\ \A start \in StartRows[t] :
            start \subseteq RowsOf(t) /\ IsFiniteSet(start) /\ Cardinality(start) <= MaxRows

\* Fingerprints of keys do not collide; those of buckets may.
ASSUME KeyAssumption ==
  /\ DOMAIN KeyOf = Scalars \X Scalars /\ DOMAIN BucketOf = DOMAIN KeyOf
  /\ \A x, y \in DOMAIN KeyOf : KeyOf[x] = KeyOf[y] => x = y
  /\ \A t \in Tables : \A c \in Cols(t) : ValuesOf[<<t, c>>] \subseteq Scalars \cup {Null}
  /\ \A e \in Conditions : e.op = "eq" => e.val \in Scalars \cup {Null}

ASSUME ConditionAssumption ==
  /\ \A e \in Conditions :
       /\ Depth[e] \in Nat /\ e.op \in Atoms \cup Connectives \cup {"not"}
       /\ e.op \in Connectives => \A c \in {e.l, e.r} : c \in Conditions /\ Depth[c] < Depth[e]
       /\ e.op = "not" => e.e \in Conditions /\ Depth[e.e] < Depth[e]
       /\ e.op \in WithSub => e.sub.where \in Conditions /\ Depth[e.sub.where] < Depth[e]
  /\ \A ask \in Asks : ask.table \in Tables /\ ask.where \in Conditions
  /\ \A t \in Tables : Wheres[t] \subseteq Conditions

VARIABLES pk,       \* the columns of each table's primary key
          rows,     \* per table, key -> row
          entries,  \* per table, index -> {<<bucket, key>>}
          stats,    \* per table, what ANALYZE counted and how old it is
          count

vars == <<pk, rows, entries, stats, count>>

Composite(t) == Len(pk[t]) > 1
Pair(row, cols) == <<row[cols[1]], row[cols[2]]>>

KeyFor(t, row) == IF Composite(t) THEN KeyOf[Pair(row, pk[t])] ELSE row[pk[t][1]]

HasKey(t, row) == \A i \in DOMAIN pk[t] : row[pk[t][i]] # Null

Added(f, x, v) == [y \in DOMAIN f \cup {x} |-> IF y = x THEN v ELSE f[y]]

InKeyOrder(keys) == SetToSortSeq(keys, LAMBDA x, y : x < y)

---------------------------------------------------------------------------
(* Secondary indexes. An INT column has an ordered one, which holds no     *)
(* NULL; another column a hash, which does; several columns one whose      *)
(* buckets are fingerprints.                                               *)

IndexKind(t, cols) == IF Len(cols) > 1 THEN "composite"
                      ELSE IF <<t, cols[1]>> \in Text THEN "hash" ELSE "ordered"

IndexRecord(t, cols) == [cols |-> cols, kind |-> IndexKind(t, cols)]

Slots(idx, row) ==
  CASE idx.kind = "composite" -> {BucketOf[Pair(row, idx.cols)]}
    [] idx.kind = "hash"      -> {row[idx.cols[1]]}
    [] idx.kind = "ordered"   -> {row[idx.cols[1]]} \ {Null}

EntriesAt(idx, key, row) == {<<x, key>> : x \in Slots(idx, row)}

\* A composite key has no encoding for NULL.
Encodable(t, row) ==
  \A idx \in DOMAIN entries[t] :
    idx.kind = "composite" => \A i \in DOMAIN idx.cols : row[idx.cols[i]] # Null

IndexesOn(t, col) == {idx \in DOMAIN entries[t] : idx.cols = <<col>>}

Lookup(t, idx, v) == {e[2] : e \in {f \in entries[t][idx] : f[1] = v}}

LookupRange(t, idx, from, to) ==
  {e[2] : e \in {f \in entries[t][idx] : from <= f[1] /\ f[1] <= to}}

---------------------------------------------------------------------------
(* A WHERE over one row, in three values and an error.                     *)

Negated(v) == CASE v = "true" -> "false" [] v = "false" -> "true" [] OTHER -> v

Both(x, y) == IF x \in {"false", "error"} THEN x
              ELSE IF y \in {"false", "error"} THEN y
              ELSE IF x = "true" THEN y ELSE x

Told(b) == IF b THEN "true" ELSE "false"

Equal(x, y) == IF x = Null \/ y = Null THEN "null" ELSE Told(x = y)

Compare(x, op, y) ==
  IF x = Null \/ y = Null THEN "null"
  ELSE Told(CASE op = "<" -> x < y [] op = "<=" -> x <= y [] op = ">" -> x > y
              [] op = ">=" -> x >= y [] op = "<>" -> x # y)

Between(x, from, to, text) ==
  IF x = Null THEN "null" ELSE Told(~text /\ from <= x /\ x <= to)

\* Mutant of InList: a NULL in the list is a value that is not x.
InListOfKnown(x, list) ==
  IF x = Null THEN "null" ELSE Told(x \in list \ {Null})

InList(x, list) ==
  IF x = Null THEN "null" ELSE IF x \in list \ {Null} THEN "true"
  ELSE IF Null \in list THEN "null" ELSE "false"

\* IN forgets the NULLs of the subquery, NOT IN does not.
InSubquery(x, found, negated) ==
  IF x = Null THEN "null"
  ELSE IF ~negated THEN Told(x \in found)
  ELSE IF x \in found THEN "false" ELSE IF Null \in found THEN "null" ELSE "true"

HasRef(e) ==
  LET has[c \in Conditions] == CASE c.op \in Connectives -> has[c.l] \/ has[c.r]
                               [] c.op = "not"          -> has[c.e]
                               [] OTHER                 -> c.op = "ref"
  IN  has[e]

\* EXISTS over a subquery that mentions the row it is asked about.
Correlated(e) == e.op = "exists" /\ HasRef(e.sub.where)

\* The columns an AND of equalities fixes, or the empty set for any other
\* WHERE and for one that wants two values of one column.
Joint(l, r) ==
  IF l = {} \/ r = {} \/ \E p \in l, q \in r : p[1] = q[1] /\ p[2] # q[2] THEN {} ELSE l \cup r

Equalities(e) ==
  LET fixed[c \in Conditions] == CASE c.op = "eq"  -> {<<c.col, c.val>>}
                                   [] c.op = "and" -> Joint(fixed[c.l], fixed[c.r])
                                   [] OTHER        -> {}
  IN  fixed[e]

Fixed(e, cols) == \A c \in cols : \E p \in Equalities(e) : p[1] = c
ValueFixed(e, c) == (CHOOSE p \in Equalities(e) : p[1] = c)[2]
PairFixed(e, cols) == <<ValueFixed(e, cols[1]), ValueFixed(e, cols[2])>>
Encoded(e, cols) == Fixed(e, Range(cols)) /\ Null \notin Range(PairFixed(e, cols))

---------------------------------------------------------------------------
(* The plan.  est is what the estimate of the selectivity said, when there *)
(* are statistics that are not stale.                                      *)

\* Mutant of SimplePk: the first column of a composite key counts as the key.
SimplePkFirst(t, col) == col = pk[t][1]

SimplePk(t, col) == ~Composite(t) /\ col = pk[t][1]

PkFast(t, e) == Composite(t) /\ Cardinality(Equalities(e)) = Len(pk[t])

SkipIndex(t, e, est) == ~PkFast(t, e) /\ e.op # "all" /\ stats[t].fresh /\ est

\* Mutant of PostFilter: any index on the column is taken to answer BETWEEN.
PostFilterAnyIndex(t, e, est) ==
  /\ e.op # "all"
  /\ ~PkFast(t, e)
  /\ \/ SkipIndex(t, e, est)
     \/ e.op \in {"and", "or", "not", "cmp", "null", "list"}
     \/ e.op = "in" /\ e.negated
     \/ e.op \in {"eq", "between"} /\ ~SimplePk(t, e.col) /\ IndexesOn(t, e.col) = {}

\* Whether the rows fetched are filtered by the WHERE.
PostFilter(t, e, est) ==
  /\ e.op # "all"
  /\ ~PkFast(t, e)
  /\ \/ SkipIndex(t, e, est)
     \/ e.op \in {"and", "or", "not", "cmp", "null", "list"}
     \/ e.op = "in" /\ e.negated
     \/ e.op = "eq" /\ ~SimplePk(t, e.col) /\ IndexesOn(t, e.col) = {}
     \/ /\ e.op = "between" /\ ~SimplePk(t, e.col)
        /\ \A idx \in IndexesOn(t, e.col) : idx.kind # "ordered"

All        == [kind |-> "all"]
Keys(keys) == [kind |-> "keys", keys |-> keys]
Refused    == [kind |-> "refused"]

MatchingIndex(t, e) ==
  {idx \in DOMAIN entries[t] : idx.kind = "composite" /\ Encoded(e, idx.cols)}

\* The longest one; here they are all of two columns.
BestIndex(t, e) == CHOOSE idx \in MatchingIndex(t, e) : TRUE

\* A tenth of the rows counted is too many for the index.
BucketTooLarge(t, n) == stats[t].fresh /\ stats[t].rows > 0 /\ 10 * n >= stats[t].rows

InBucket(t, e) == Lookup(t, BestIndex(t, e), BucketOf[PairFixed(e, BestIndex(t, e).cols)])

CompositeIndexPlan(t, e) ==
  ~Correlated(e) /\ MatchingIndex(t, e) # {} /\ ~BucketTooLarge(t, Cardinality(InBucket(t, e)))

LookupAll(t, col, vals) == Keys(UNION {Lookup(t, idx, v) : idx \in IndexesOn(t, col), v \in vals})

\* The values come from a subquery or from the row around it. Whether the
\* primary key has other columns is not asked.
ByValue(t, col, vals) ==
  IF vals = {} THEN Keys({})
  ELSE IF col = pk[t][1] THEN IF Null \in vals THEN Refused ELSE Keys(vals)
  ELSE IF IndexesOn(t, col) = {} THEN Refused
  ELSE LookupAll(t, col, vals)

EqualityPlan(t, e) ==
  IF SimplePk(t, e.col) THEN IF e.val = Null THEN Refused ELSE Keys({e.val})
  ELSE IF IndexesOn(t, e.col) = {} THEN All
  ELSE LookupAll(t, e.col, {e.val})

BetweenPlan(t, e) ==
  IF SimplePk(t, e.col) THEN Keys({k \in DOMAIN rows[t] : e.from <= k /\ k <= e.to})
  ELSE IF \E idx \in IndexesOn(t, e.col) : idx.kind = "ordered"
    THEN Keys(UNION {LookupRange(t, idx, e.from, e.to) : idx \in IndexesOn(t, e.col)})
  ELSE All

Column(answer) == {answer.rows[i][1] : i \in DOMAIN answer.rows}
Single(answer) == DOMAIN answer.rows \subseteq {1}

SubqueryPlan(t, e, answer) ==
  IF ~answer.ok \/ (e.op = "scalar" /\ ~Single(answer)) THEN Refused
  ELSE IF e.op = "exists" THEN IF (answer.rows # <<>>) # e.negated THEN All ELSE Keys({})
  ELSE ByValue(t, e.col, Column(answer) \ {Null})

\* sub has the answer of every subquery, for every row it may be asked about.
Plan(t, e, outer, est, sub) ==
  IF PkFast(t, e) /\ Encoded(e, pk[t]) THEN Keys({KeyOf[PairFixed(e, pk[t])]})
  ELSE IF SkipIndex(t, e, est) THEN All
  ELSE IF CompositeIndexPlan(t, e) THEN Keys(InBucket(t, e))
  ELSE IF Correlated(e) \/ PostFilter(t, e, est) THEN All
  ELSE CASE e.op \in {"all", "and"} -> All
         [] e.op = "eq"      -> EqualityPlan(t, e)
         [] e.op = "between" -> BetweenPlan(t, e)
         [] e.op = "ref"     -> IF outer = Null THEN Refused ELSE ByValue(t, e.col, {outer[e.out]})
         [] OTHER            -> SubqueryPlan(t, e, sub[<<e.sub, Null>>])

\* An atom asked of one row of t, whose column it names has value x. A
\* subquery of IN and EXISTS sees the row, that of a scalar does not.
PlainVerdict(e, x, text) ==
  CASE e.op = "all"     -> "true"
    [] e.op = "eq"      -> Equal(x, e.val)
    [] e.op = "cmp"     -> Compare(x, e.rel, e.val)
    [] e.op = "between" -> Between(x, e.from, e.to, text)
    [] e.op = "null"    -> Told((x = Null) # e.negated)
    [] e.op = "list"    -> IF e.negated THEN Negated(InList(x, e.vals)) ELSE InList(x, e.vals)

SubqueryVerdict(e, x, answer) ==
  IF ~answer.ok THEN "error"
  ELSE CASE e.op = "in"     -> InSubquery(x, Column(answer), e.negated)
         [] e.op = "exists" -> Told((answer.rows # <<>>) # e.negated)
         [] e.op = "scalar" -> IF ~Single(answer) THEN "error"
                               ELSE IF Column(answer) = {} THEN "null" ELSE Equal(x, answer.rows[1][1])

\* outer is the row of the query around this one, Null when there is none.
AtomVerdict(t, e, row, outer, sub) ==
  LET x == IF e.op \in {"all", "exists"} THEN Null ELSE row[e.col] IN
  CASE e.op = "ref" -> IF outer = Null THEN "error" ELSE Equal(x, outer[e.out])
    [] e.op \in WithSub ->
         SubqueryVerdict(e, x, sub[<<e.sub, IF e.op # "scalar" /\ HasRef(e.sub.where) THEN row ELSE Null>>])
    [] OTHER -> PlainVerdict(e, x, e.op = "between" /\ <<t, e.col>> \in Text)

Verdict(t, e, row, outer, sub) ==
  LET told[c \in Conditions] ==
        CASE c.op = "and" -> Both(told[c.l], told[c.r])
          [] c.op = "or"  -> Negated(Both(Negated(told[c.l]), Negated(told[c.r])))
          [] c.op = "not" -> Negated(told[c.e])
          [] OTHER        -> AtomVerdict(t, c, row, outer, sub)
  IN  told[e]

Fetched(t, plan) == IF plan.kind = "all" THEN DOMAIN rows[t] ELSE plan.keys \cap DOMAIN rows[t]
Fetch(t, plan)   == InKeyOrder(Fetched(t, plan))

Paged(q, keys) == IF q.order = Null THEN Page(keys, q.offset, q.limit) ELSE keys

Project(items, row) == [i \in DOMAIN items |-> row[items[i]]]

Finished(q, sorted) ==
  LET out == [i \in DOMAIN sorted |-> Project(q.items, sorted[i])]
  IN  IF q.distinct THEN Dedup(out) ELSE out

\* What the rows found become. LIMIT comes before the groups unless there is
\* an ORDER BY, and DISTINCT after it.
Delivered(q, found) ==
  [ok |-> TRUE,
   rows |-> IF q.group # Null THEN Grouped(found, [q.group EXCEPT !.offset = q.offset, !.limit = q.limit])
            ELSE IF q.order = Null THEN Finished(q, found)
            ELSE Finished(q, Page(Ordered(found, q.order, q.desc), q.offset, q.limit))]

RowsAt(t, keys) == [i \in DOMAIN keys |-> rows[t][keys[i]]]

\* A correlated EXISTS filters, and so may the WHERE as a whole. Each filter
\* cuts the page out of what it keeps.
Filtered(q, keys, twice, verdict) ==
  LET kept == SelectSeq(keys, LAMBDA k : verdict[k] = "true") IN
  IF "error" \in Range(verdict) THEN [ok |-> FALSE]
  ELSE Delivered(q, RowsAt(q.from, IF twice THEN Paged(q, Paged(q, kept)) ELSE Paged(q, kept)))

\* Whether a row fetched must pass a filter, one of the two at least.
Filters(t, e, est) == Correlated(e) \/ PostFilter(t, e, est)

Answer(q, plan, outer, est, sub) ==
  IF plan.kind = "refused" THEN [ok |-> FALSE]
  ELSE IF Filters(q.from, q.where, est)
    THEN Filtered(q, Fetch(q.from, plan), Correlated(q.where) /\ PostFilter(q.from, q.where, est),
                  [k \in Range(Fetch(q.from, plan)) |-> Verdict(q.from, q.where, rows[q.from][k], outer, sub)])
  ELSE Delivered(q, RowsAt(q.from, Paged(q, Fetch(q.from, plan))))

AnswerWith(q, outer, est, sub) ==
  Answer(q, Plan(q.from, q.where, outer, est, sub), outer, est, sub)

Subqueries == {e.sub : e \in {c \in Conditions : c.op \in WithSub}}
Outers     == {Null} \cup UNION {RowsOf(t) : t \in Tables}

\* A subquery is run like any query, and may have subqueries itself.
Subs(est) ==
  LET sub[ask \in Subqueries \X Outers] == AnswerWith(ask[1], ask[2], est, sub) IN sub

Select(q, outer, est) == AnswerWith(q, outer, est, Subs(est))

---------------------------------------------------------------------------
(* The rows an UPDATE or a DELETE is about.                                *)

Verdicts(t, e, est) == [k \in DOMAIN rows[t] |-> Verdict(t, e, rows[t][k], Null, Subs(est))]

\* Mutant of Targets: the rows of a bucket are not asked the WHERE again.
TargetsUnasked(t, e, verdict) ==
  IF MatchingIndex(t, e) # {} THEN InBucket(t, e)
  ELSE {k \in DOMAIN rows[t] : verdict[k] = "true"}

Targets(t, e, verdict) ==
  LET holding == {k \in DOMAIN rows[t] : verdict[k] = "true"}
  IN  IF e.op = "eq" /\ SimplePk(t, e.col) THEN {e.val}
      ELSE IF PkFast(t, e) /\ Encoded(e, pk[t]) THEN {KeyOf[PairFixed(e, pk[t])]}
      ELSE IF MatchingIndex(t, e) # {} /\ ~BucketTooLarge(t, Cardinality(InBucket(t, e)))
        THEN holding \cap InBucket(t, e)
      ELSE holding

Allowed(t, e, verdict) ==
  ~(e.op = "eq" /\ SimplePk(t, e.col) /\ e.val = Null) /\ "error" \notin Range(verdict)

---------------------------------------------------------------------------
(* Statements.                                                             *)

\* A composite primary key comes with an index on its first column.
StartEntries(t) ==
  [idx \in IF Composite(t) THEN {IndexRecord(t, <<pk[t][1]>>)} ELSE {} |->
     UNION {EntriesAt(idx, k, rows[t][k]) : k \in DOMAIN rows[t]}]

Loaded(t, set) == [k \in {KeyFor(t, r) : r \in set} |-> CHOOSE r \in set : KeyFor(t, r) = k]

Init ==
  /\ pk \in [Tables -> UNION {PrimaryKeys[t] : t \in Tables}]
  /\ \A t \in Tables : pk[t] \in PrimaryKeys[t]
  /\ \E load \in [Tables -> UNION {StartRows[t] : t \in Tables}] :
       /\ \A t \in Tables : load[t] \in StartRows[t] /\ \A r \in load[t] : HasKey(t, r)
       /\ rows = [t \in Tables |-> Loaded(t, load[t])]
  /\ entries = [t \in Tables |-> StartEntries(t)]
  /\ stats = [t \in Tables |-> [fresh |-> FALSE, rows |-> 0]]
  /\ count = 0

Insert(t, row) ==
  LET key == KeyFor(t, row) IN
  /\ HasKey(t, row)
  /\ key \notin DOMAIN rows[t]
  /\ Cardinality(DOMAIN rows[t]) < MaxRows
  /\ Encodable(t, row)
  /\ rows' = [rows EXCEPT ![t] = Added(@, key, row)]
  /\ entries' = [entries EXCEPT ![t] = [idx \in DOMAIN @ |-> @[idx] \cup EntriesAt(idx, key, row)]]
  /\ UNCHANGED <<pk, stats>>

\* Mutant of Without: a row leaves the ordered indexes only.
WithoutOrdered(t, gone) ==
  [idx \in DOMAIN entries[t] |->
     IF idx.kind # "ordered" THEN entries[t][idx]
     ELSE entries[t][idx] \ UNION {EntriesAt(idx, k, rows[t][k]) : k \in gone}]

\* One row after the other, each out of the table and of its indexes.
Without(t, gone) ==
  [idx \in DOMAIN entries[t] |->
     entries[t][idx] \ UNION {EntriesAt(idx, k, rows[t][k]) : k \in gone}]

Delete(t, e, verdict) ==
  LET gone == Targets(t, e, verdict) \cap DOMAIN rows[t] IN
  /\ Allowed(t, e, verdict)
  /\ gone # {}
  /\ rows' = [rows EXCEPT ![t] = [k \in DOMAIN @ \ gone |-> @[k]]]
  /\ entries' = [entries EXCEPT ![t] = Without(t, gone)]
  /\ UNCHANGED <<pk, stats>>

\* set does not name a column of the primary key: such an UPDATE moves the row.
Update(t, set, e, verdict) ==
  LET hit    == Targets(t, e, verdict) \cap DOMAIN rows[t]
      New(k) == [rows[t][k] EXCEPT ![set.col] = set.val]
      given  == [idx \in DOMAIN entries[t] |-> UNION {EntriesAt(idx, k, New(k)) : k \in hit}]
  IN  /\ Allowed(t, e, verdict)
      /\ set.col \notin Range(pk[t])
      /\ hit # {}
      /\ \A k \in hit : Encodable(t, New(k))
      /\ rows' = [rows EXCEPT ![t] = [k \in DOMAIN @ |-> IF k \in hit THEN New(k) ELSE @[k]]]
      /\ entries' = [entries EXCEPT ![t] = [idx \in DOMAIN @ |-> Without(t, hit)[idx] \cup given[idx]]]
      /\ UNCHANGED <<pk, stats>>

CreateIndex(t, cols) ==
  LET idx == IndexRecord(t, cols) IN
  /\ idx \notin DOMAIN entries[t]
  /\ Len(cols) > 1 => \A k \in DOMAIN rows[t] : Null \notin Range(Pair(rows[t][k], cols))
  /\ entries' = [entries EXCEPT ![t] =
                   Added(@, idx, UNION {EntriesAt(idx, k, rows[t][k]) : k \in DOMAIN rows[t]})]
  /\ UNCHANGED <<pk, rows, stats>>

DropIndex(t, idx) ==
  /\ entries' = [entries EXCEPT ![t] = [i \in DOMAIN @ \ {idx} |-> @[i]]]
  /\ UNCHANGED <<pk, rows, stats>>

Analyze(t) ==
  /\ stats' = [stats EXCEPT ![t] = [fresh |-> TRUE, rows |-> Cardinality(DOMAIN rows[t])]]
  /\ UNCHANGED <<pk, rows, entries>>

\* Seven days later the statistics are not used any more.
Age(t) ==
  /\ stats[t].fresh
  /\ stats' = [stats EXCEPT ![t].fresh = FALSE]
  /\ UNCHANGED <<pk, rows, entries>>

Statement(t) ==
  \/ \E row \in RowsOf(t) : Insert(t, row)
  \/ \E e \in Wheres[t], est \in BOOLEAN : Delete(t, e, Verdicts(t, e, est))
  \/ \E e \in Wheres[t], set \in Sets[t], est \in BOOLEAN : Update(t, set, e, Verdicts(t, e, est))
  \/ \E cols \in IndexLists[t] : CreateIndex(t, cols)
  \/ \E idx \in DOMAIN entries[t] : DropIndex(t, idx)
  \/ Analyze(t)

Next ==
  \/ count < MaxStatements /\ count' = count + 1 /\ \E t \in Tables : Statement(t)
  \/ UNCHANGED count /\ \E t \in Tables : Age(t)

Spec == Init /\ [][Next]_vars

---------------------------------------------------------------------------
\* Rows hold what their columns may, NULL in no primary key, and statistics
\* count no more rows than a table ever had.
TypeOK ==
  /\ \A t \in Tables :
       /\ pk[t] \in PrimaryKeys[t]
       /\ \A k \in DOMAIN rows[t] : rows[t][k] \in RowsOf(t) /\ HasKey(t, rows[t][k])
       /\ stats[t].rows \in 0..MaxRows
  /\ count \in 0..MaxStatements

\* A row is found under its primary key, or its fingerprint, and an index has
\* the entries of the rows there are and no others: through every INSERT,
\* UPDATE and DELETE, whichever plan found its rows, and every CREATE INDEX.
IndexesHoldRows ==
  /\ TypeOK
  /\ \A t \in Tables :
       /\ \A k \in DOMAIN rows[t] : KeyFor(t, rows[t][k]) = k
       /\ \A idx \in DOMAIN entries[t] :
            /\ idx = IndexRecord(t, idx.cols)
            /\ entries[t][idx] = UNION {EntriesAt(idx, k, rows[t][k]) : k \in DOMAIN rows[t]}

---------------------------------------------------------------------------
(* Where a plan is known to find other rows than the WHERE is true of.     *)

\* The equalities are as many as the columns of the key, but not of the key.
PartialKey(t, e) == PkFast(t, e) /\ ~Encoded(e, pk[t])

\* A hash holds NULL, and a lookup of NULL finds it.
NullLookup(t, e, outer) ==
  /\ e.op \in {"eq", "ref"}
  /\ Null = IF e.op = "eq" THEN e.val ELSE outer[e.out]
  /\ \E idx \in IndexesOn(t, e.col) : idx.kind = "hash"

\* A value of the first column of a composite key is looked up as a key.
PkPrefix(t, e) == Composite(t) /\ e.op \in {"in", "scalar", "ref"} /\ e.col = pk[t][1]

\* The plan of IN asks its subquery without the row: left aside with these.
LooseIn(e) == e.op = "in" /\ HasRef(e.sub.where)

Astray(t, e, outer) ==
  \/ PartialKey(t, e) \/ PkPrefix(t, e) \/ LooseIn(e)
  \/ (e.op = "ref" => outer # Null) /\ NullLookup(t, e, outer)

Holding(t, e, outer, sub) ==
  {k \in DOMAIN rows[t] : Verdict(t, e, rows[t][k], outer, sub) = "true"}

PlanAgrees(t, e, outer, est, sub) ==
  LET plan == Plan(t, e, outer, est, sub)
  IN  \/ Astray(t, e, outer) \/ plan.kind = "refused"
      \/ IF Filters(t, e, est) THEN Holding(t, e, outer, sub) \subseteq Fetched(t, plan)
                               ELSE Holding(t, e, outer, sub) = Fetched(t, plan)

Around(ask) == IF ask.around = Null THEN {Null} ELSE RowsOf(ask.around)

\* A plan whose rows are filtered leaves out no row the WHERE is true of, and
\* one whose rows are not filtered fetches these rows and no others: by key,
\* by index, by the values of a subquery or of the row around it.
PlansAgree ==
  \A ask \in Asks, est \in BOOLEAN : \A outer \in Around(ask) :
    PlanAgrees(ask.table, ask.where, outer, est, Subs(est))

TargetsAre(t, e, verdict) ==
  Allowed(t, e, verdict) =>
    Targets(t, e, verdict) \cap DOMAIN rows[t] = {k \in DOMAIN rows[t] : verdict[k] = "true"}

\* UPDATE and DELETE touch the rows a scan of the table would have found.
TargetsAgree ==
  \A ask \in Asks, est \in BOOLEAN :
    ask.around = Null => TargetsAre(ask.table, ask.where, Verdicts(ask.table, ask.where, est))
=============================================================================
