----------------------------- MODULE Relational -----------------------------
(***************************************************************************)
(* What the executor does with rows it has already fetched: order, paging, *)
(* duplicates, GROUP BY with its aggregates, window functions, set         *)
(* operations and the loop of a recursive CTE.  A row is a function from   *)
(* columns to values, a value an integer or Null; sums stay within i64.    *)
(***************************************************************************)
EXTENDS Integers, Sequences, FiniteSets, SequencesExt, Functions

CONSTANTS Null, MaxIter

\* ORDER BY of a plain SELECT puts NULL first; that of a UNION puts it last.
Below(x, y)          == y # Null /\ (x = Null \/ x < y)
BelowNullsLast(x, y) == x # Null /\ (y = Null \/ x < y)

\* The standard library's stable sort.
Sorted(s, Less(_, _)) ==
  LET Before(i, j) == Less(s[i], s[j]) \/ (i < j /\ ~Less(s[j], s[i]))
      Place(i)     == 1 + Cardinality({j \in DOMAIN s : Before(j, i)})
  IN  [n \in DOMAIN s |-> s[CHOOSE i \in DOMAIN s : Place(i) = n]]

\* A descending order is the ascending one turned over, ties included.
Ordered(s, col, desc) ==
  LET up == Sorted(s, LAMBDA r, q : Below(r[col], q[col]))
  IN  IF col = Null THEN s ELSE IF desc THEN Reverse(up) ELSE up

Page(s, offset, limit) ==
  IF limit = Null \/ offset + limit > Len(s) THEN SubSeq(s, offset + 1, Len(s))
                                             ELSE SubSeq(s, offset + 1, offset + limit)

\* Keeps the first of the rows that are equal, NULL being equal to NULL.
Dedup(s) == FoldLeft(LAMBDA kept, r : IF r \in Range(kept) THEN kept ELSE Append(kept, r), <<>>, s)

Present(s) == SelectSeq(s, LAMBDA v : v # Null)
Total(s)   == FoldLeft(LAMBDA x, y : x + y, 0, s)

\* MIN and MAX keep the first value until a later one beats it.
Best(func, s) ==
  FoldLeft(LAMBDA best, v : IF best = Null \/ (IF func = "min" THEN Below(v, best) ELSE Below(best, v))
                              THEN v ELSE best, Null, s)

\* A value of an aggregate; AVG is its sum and its divisor.
Reduced(func, s) ==
  LET vals == Present(s) IN
  CASE func = "count"        -> Len(vals)
    [] func = "distinct"     -> Len(Dedup(vals))
    [] vals = <<>>           -> Null
    [] func = "sum"          -> Total(vals)
    [] func = "avg"          -> <<Total(vals), Len(vals)>>
    [] func \in {"min", "max"} -> Best(func, vals)

Mapped(rows, col) == [i \in DOMAIN rows |-> rows[i][col]]

Aggregate(func, col, rows) ==
  IF func = "count*" THEN Len(rows) ELSE Reduced(func, Mapped(rows, col))

---------------------------------------------------------------------------
(* GROUP BY. A query says which columns it groups by, which items it       *)
(* selects (a grouping column, or an aggregate of a column), what HAVING   *)
(* asks of one of the items, and the rest of a SELECT.                     *)

GroupKey(row, by) == [i \in DOMAIN by |-> row[by[i]]]

\* Groups in the order of their first row; without GROUP BY there is one
\* group even when there is no row.
Buckets(rows, by) ==
  LET keys == Dedup([i \in DOMAIN rows |-> GroupKey(rows[i], by)])
      Members(key) == SelectSeq(rows, LAMBDA r : GroupKey(r, by) = key)
  IN  IF by = <<>> /\ rows = <<>> THEN << <<>> >> ELSE [i \in DOMAIN keys |-> Members(keys[i])]

ItemOf(item, rows) ==
  IF item.func = "column" THEN Head(rows)[item.col] ELSE Aggregate(item.func, item.col, rows)

OutputRow(items, rows) == [i \in DOMAIN items |-> ItemOf(items[i], rows)]

Passes(having, out) ==
  having = Null \/ (out[having.item] # Null /\ out[having.item] > having.above)

Grouped(rows, q) ==
  LET groups == Buckets(rows, q.by)
      all    == [i \in DOMAIN groups |-> OutputRow(q.items, groups[i])]
      kept   == SelectSeq(all, LAMBDA out : Passes(q.having, out))
      once   == IF q.distinct THEN Dedup(kept) ELSE kept
  IN  Page(Ordered(once, q.order, q.desc), q.offset, q.limit)

---------------------------------------------------------------------------
(* Window functions. OVER may partition by a column and order by one.      *)

Peers(r, q, over) == over.order = Null \/ r[over.order] = q[over.order]

\* The places of a partition, in the order of its window.
Partition(rows, over, i) ==
  LET Same(j) == over.part = Null \/ rows[j][over.part] = rows[i][over.part]
      own     == SelectSeq([n \in DOMAIN rows |-> n], Same)
      Earlier(j, n) == IF over.desc THEN Below(rows[n][over.order], rows[j][over.order])
                                    ELSE Below(rows[j][over.order], rows[n][over.order])
  IN  IF over.order = Null THEN own ELSE Sorted(own, Earlier)

\* What an aggregate of a window sees at pos: all, or the rows up to it when
\* the window has an order, its later peers left out.
Frame(seq, pos, over) == IF over.order = Null THEN seq ELSE SubSeq(seq, 1, pos)

\* RANK jumps to the position of a row that is no peer of the one before,
\* DENSE_RANK adds one.
Rank(rows, seq, pos, over) ==
  LET starts == {n \in 2..pos : ~Peers(rows[seq[n - 1]], rows[seq[n]], over)}
  IN  IF starts = {} THEN 1 ELSE CHOOSE n \in starts : \A m \in starts : m <= n

DenseRank(rows, seq, pos, over) ==
  1 + Cardinality({n \in 2..pos : ~Peers(rows[seq[n - 1]], rows[seq[n]], over)})

\* Mutant of Ntile: the rows left over are spread from the wrong place.
NtileShort(len, pos, n) ==
  LET small == len \div n
      large == (len % n) * small
  IN  IF pos <= large THEN (pos - 1) \div (small + 1) + 1
                      ELSE (len % n) + (pos - 1 - large) \div (IF small = 0 THEN 1 ELSE small) + 1

\* The first len % n buckets are one row larger than the others.
Ntile(len, pos, n) ==
  LET small == len \div n
      large == (len % n) * (small + 1)
  IN  IF pos <= large THEN (pos - 1) \div (small + 1) + 1
                      ELSE (len % n) + (pos - 1 - large) \div (IF small = 0 THEN 1 ELSE small) + 1

Neighbour(rows, seq, target, col) ==
  IF target \in DOMAIN seq THEN rows[seq[target]][col] ELSE Null

WindowValue(func, col, n, rows, seq, pos, over) ==
  CASE func = "row_number"  -> pos
    [] func = "rank"        -> Rank(rows, seq, pos, over)
    [] func = "dense_rank"  -> DenseRank(rows, seq, pos, over)
    [] func = "ntile"       -> Ntile(Len(seq), pos, n)
    [] func = "lag"         -> Neighbour(rows, seq, pos - n, col)
    [] func = "lead"        -> Neighbour(rows, seq, pos + n, col)
    [] func = "first_value" -> rows[seq[1]][col]
    [] func = "last_value"  -> rows[seq[Len(seq)]][col]

WindowAggregate(func, col, rows, seq, pos, over) ==
  Aggregate(func, col, [i \in DOMAIN Frame(seq, pos, over) |-> rows[seq[i]]])

IsAggregate(func) == func \in {"count*", "count", "sum", "avg", "min", "max"}

\* One value per row, in the order of the rows.
WindowColumn(func, col, n, over, rows) ==
  [i \in DOMAIN rows |->
     LET seq == Partition(rows, over, i)
         pos == CHOOSE p \in DOMAIN seq : seq[p] = i
     IN  IF IsAggregate(func) THEN WindowAggregate(func, col, rows, seq, pos, over)
                              ELSE WindowValue(func, col, n, rows, seq, pos, over)]

\* A SELECT with windows computes them over all its rows, in key order, and
\* orders what it projects, rows that tie staying as they are.
OrderedOut(out, at, Less(_, _), desc) ==
  IF at = Null THEN out
  ELSE IF desc THEN Sorted(out, LAMBDA r, q : Less(q[at], r[at]))
  ELSE Sorted(out, LAMBDA r, q : Less(r[at], q[at]))

\* LAG, LEAD and NTILE mean nothing without an order.
Unordered(item) == item.func \in {"lag", "lead", "ntile"} /\ item.over.order = Null

WindowedRows(rows, q) ==
  LET ColumnOf(item) == IF item.func = "column" THEN Mapped(rows, item.col)
                        ELSE WindowColumn(item.func, item.col, item.n, item.over, rows)
      cols == [i \in DOMAIN q.items |-> ColumnOf(q.items[i])]
      out  == [n \in DOMAIN rows |-> [i \in DOMAIN cols |-> cols[i][n]]]
  IN  Page(OrderedOut(out, q.order, Below, q.desc), q.offset, q.limit)

\* Every call is validated before a row is read.
Windowed(rows, q) ==
  IF \E item \in Range(q.items) : Unordered(item) THEN [ok |-> FALSE]
  ELSE [ok |-> TRUE, rows |-> WindowedRows(rows, q)]

---------------------------------------------------------------------------
(* Set operations, on bags: how often each row is returned. The order in   *)
(* which they return the rows is that of a hash map.                       *)

Times(s, r)  == Cardinality({i \in DOMAIN s : s[i] = r})
Least(x, y)  == IF x < y THEN x ELSE y
OneIf(b)     == IF b THEN 1 ELSE 0

Combined(op, all, left, right) ==
  [r \in Range(left) \cup Range(right) |->
     LET l == Times(left, r)
         s == Times(right, r)
     IN  CASE op = "union"     -> IF all THEN l + s ELSE 1
           [] op = "intersect" -> IF all THEN Least(l, s) ELSE OneIf(l > 0 /\ s > 0)
           [] op = "except"    -> IF all THEN l - Least(l, s) ELSE OneIf(l > 0 /\ s = 0)]

\* ORDER BY and LIMIT of a set operation, over one listing of its bag.
SetPaged(listing, q) == Page(OrderedOut(listing, q.order, BelowNullsLast, q.desc), q.offset, q.limit)

---------------------------------------------------------------------------
(* WITH RECURSIVE: the step runs on what the last round added, until it    *)
(* adds nothing or MaxIter rounds are spent. UNION adds a row once; the    *)
(* rows of the anchor are taken as they come.                              *)

Fresh(rows, seen) ==
  FoldLeft(LAMBDA new, r : IF r \in seen \cup Range(new) THEN new ELSE Append(new, r), <<>>, rows)

Round(s, found, unionAll) ==
  LET new == IF unionAll THEN found ELSE Fresh(found, Range(s.accum))
  IN  [accum |-> s.accum \o new, delta |-> new]

Recursive(anchor, unionAll, Step(_)) ==
  LET round[n \in 0..MaxIter] == IF n = 0 THEN [accum |-> anchor, delta |-> anchor]
                                 ELSE IF round[n - 1].delta = <<>> THEN round[n - 1]
                                 ELSE Round(round[n - 1], Step(round[n - 1].delta), unionAll)
      last == round[MaxIter]
  IN  [ok |-> last.delta = <<>>, rows |-> last.accum]
=============================================================================
