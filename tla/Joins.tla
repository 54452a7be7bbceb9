-------------------------------- MODULE Joins --------------------------------
(***************************************************************************)
(* SELECT over several sources: the three join algorithms and the choice   *)
(* among them, derived tables and VALUES, and the WHERE over joined rows.  *)
(* A joined row is a function of <<alias, column>>.                        *)
(***************************************************************************)
EXTENDS Select

Qualified(alias, row) == [c \in {<<alias, col>> : col \in DOMAIN row} |-> row[c[2]]]

\* A source is a table, or the rows of a derived table or of VALUES, which
\* are materialised before the join starts.
IsVirtual(src) == "rows" \in DOMAIN src

Derived(alias, q) == [alias |-> alias, cols |-> q.items, rows |-> Select(q, Null, FALSE).rows]

SourceCols(src) == IF IsVirtual(src) THEN Range(src.cols) ELSE Cols(src.table)

VirtualRow(src, out) ==
  [c \in {<<src.alias, col>> : col \in Range(src.cols)} |->
     out[CHOOSE i \in DOMAIN src.cols : src.cols[i] = c[2]]]

Scan(src) ==
  IF IsVirtual(src)
    THEN [i \in DOMAIN src.rows |-> VirtualRow(src, src.rows[i])]
    ELSE LET keys == InKeyOrder(DOMAIN rows[src.table])
         IN  [i \in DOMAIN keys |-> Qualified(src.alias, rows[src.table][keys[i]])]

NullRow(src) == [c \in {<<src.alias, col>> : col \in SourceCols(src)} |-> Null]

\* USING names a column, NATURAL finds it: the first source before the right
\* one that has it, and the right one.
Common(left, right) == {c \in SourceCols(right) : \E i \in DOMAIN left : c \in SourceCols(left[i])}

DerivedOn(left, join) ==
  LET col   == IF join.natural THEN CHOOSE c \in Common(left, join.right) : TRUE ELSE join.using
      First == CHOOSE i \in DOMAIN left :
                 col \in SourceCols(left[i]) /\ \A j \in 1..(i - 1) : col \notin SourceCols(left[j])
  IN  [l |-> <<left[First].alias, col>>, r |-> <<join.right.alias, col>>]

On(left, join) == IF join.natural \/ join.using # Null THEN DerivedOn(left, join) ELSE join.on

Joinable(left, join) == join.natural => Cardinality(Common(left, join.right)) = 1

\* The two sides of a predicate as the index loop wants them: the one of the
\* right table, then the other.
IndexLoopPlan(left, right, on) ==
  {p \in {<<on.r, on.l>>, <<on.l, on.r>>} :
     /\ p[1][1] = right.alias
     /\ \E i \in DOMAIN left : left[i].alias = p[2][1]
     /\ p[1][2] = pk[right.table][1] \/ IndexesOn(right.table, p[1][2]) # {}}

LookupRight(right, col, v) ==
  InKeyOrder(IF col = pk[right.table][1] THEN {v} \cap DOMAIN rows[right.table]
             ELSE UNION {Lookup(right.table, idx, v) : idx \in IndexesOn(right.table, col)})

OnRight(right, l, keys) == [i \in DOMAIN keys |-> l @@ Qualified(right.alias, rows[right.table][keys[i]])]

LoopRows(join, l, hits) ==
  IF hits # <<>> THEN OnRight(join.right, l, hits)
  ELSE IF join.kind = "left" THEN <<l @@ NullRow(join.right)>> ELSE <<>>

IndexLoop(current, join, p) ==
  LET Hits(l) == IF l[p[2]] = Null THEN <<>> ELSE LookupRight(join.right, p[1][2], l[p[2]])
  IN  FlattenSeq([i \in DOMAIN current |-> LoopRows(join, current[i], Hits(current[i]))])

\* Mutant of HashMatches: NULL is a key like another.
HashMatchesNull(l, r, on) ==
  LET rk == IF on.r \in DOMAIN r THEN on.r ELSE on.l
      lk == IF on.r \in DOMAIN r THEN on.l ELSE on.r
  IN  lk \in DOMAIN l /\ l[lk] = r[rk]

\* The hash join knows which side of the predicate is the right one from the
\* right table's first row; a key that is no column of the left row finds
\* nothing.
HashMatches(l, r, on) ==
  LET rk == IF on.r \in DOMAIN r THEN on.r ELSE on.l
      lk == IF on.r \in DOMAIN r THEN on.l ELSE on.r
  IN  lk \in DOMAIN l /\ l[lk] # Null /\ l[lk] = r[rk]

HashPlan(rights, on) == rights # <<>> /\ {on.l, on.r} \cap DOMAIN rights[1] # {}

NestedMatches(l, r, on) ==
  LET both == l @@ r IN Equal(both[on.l], both[on.r]) = "true"

Matches(l, r, rights, on) ==
  IF on = Null THEN TRUE
  ELSE IF HashPlan(rights, on) THEN HashMatches(l, r, on) ELSE NestedMatches(l, r, on)

\* The hash is built on the left when the left is more than twice as long.
Swapped(current, rights, on) ==
  on # Null /\ HashPlan(rights, on) /\ Len(current) > 2 * Len(rights)

MatchedPairs(current, rights, on) ==
  LET Fit(p)     == Matches(current[p[1]], rights[p[2]], rights, on)
      ByLeft(i)  == SelectSeq([j \in DOMAIN rights |-> <<i, j>>], Fit)
      ByRight(j) == SelectSeq([i \in DOMAIN current |-> <<i, j>>], Fit)
  IN  IF Swapped(current, rights, on) THEN FlattenSeq([j \in DOMAIN rights |-> ByRight(j)])
                                      ELSE FlattenSeq([i \in DOMAIN current |-> ByLeft(i)])

LeftNulls(left) == FoldLeft(LAMBDA row, src : row @@ NullRow(src), <<>>, left)

MatchAndFill(current, left, join, rights, pairs) ==
  LET merged == [n \in DOMAIN pairs |-> current[pairs[n][1]] @@ rights[pairs[n][2]]]
      alone  == SelectSeq([i \in DOMAIN current |-> i], LAMBDA i : \A n \in DOMAIN pairs : pairs[n][1] # i)
      extra  == SelectSeq([j \in DOMAIN rights |-> j], LAMBDA j : \A n \in DOMAIN pairs : pairs[n][2] # j)
      LeftFill  == [n \in DOMAIN alone |-> current[alone[n]] @@ NullRow(join.right)]
      RightFill == [n \in DOMAIN extra |-> LeftNulls(left) @@ rights[extra[n]]]
  IN  merged \o (IF join.kind \in {"left", "full"} THEN LeftFill ELSE <<>>)
             \o (IF join.kind \in {"right", "full"} THEN RightFill ELSE <<>>)

\* left is what has been joined so far, one source after the other.
Loops(left, join, on) ==
  IF on = Null \/ IsVirtual(join.right) \/ join.kind \notin {"inner", "left"} THEN {}
  ELSE IndexLoopPlan(left, join.right, on)

ScanJoin(current, left, join, rights, on) ==
  MatchAndFill(current, left, join, rights, MatchedPairs(current, rights, on))

JoinStep(current, left, join, on) ==
  IF Loops(left, join, on) # {} THEN IndexLoop(current, join, CHOOSE p \in Loops(left, join, on) : TRUE)
                                ELSE ScanJoin(current, left, join, Scan(join.right), on)

Sources(q, n) == <<q.base>> \o [i \in 1..n |-> q.joins[i].right]

Joined(q) ==
  LET step[n \in 0..Len(q.joins)] ==
        IF n = 0 THEN Scan(q.base)
        ELSE JoinStep(step[n - 1], Sources(q, n - 1), q.joins[n], On(Sources(q, n - 1), q.joins[n]))
  IN  step[Len(q.joins)]

\* The WHERE of a join reads the joined row; a column is <<alias, column>>.
\* A subquery may not mention the row.
RECURSIVE JoinedVerdict(_, _)
JoinedVerdict(e, row) ==
  CASE e.op = "and" -> Both(JoinedVerdict(e.l, row), JoinedVerdict(e.r, row))
    [] e.op = "or"  -> Negated(Both(Negated(JoinedVerdict(e.l, row)), Negated(JoinedVerdict(e.r, row))))
    [] e.op = "not" -> Negated(JoinedVerdict(e.e, row))
    [] e.op = "in" -> SubqueryVerdict(e, row[e.col], Select(e.sub, Null, FALSE))
    [] OTHER        -> PlainVerdict(e, IF e.op = "all" THEN Null ELSE row[e.col], FALSE)

\* Here LIMIT comes last, but DISTINCT is not looked at.
DeliveredJoined(q, kept) ==
  IF q.group # Null THEN Grouped(kept, q.group)
  ELSE LET out == Page(Ordered(kept, q.order, q.desc), q.offset, q.limit)
       IN  [i \in DOMAIN out |-> Project(q.items, out[i])]

SelectJoined(q) ==
  DeliveredJoined(q, SelectSeq(Joined(q), LAMBDA row : JoinedVerdict(q.where, row) = "true"))
=============================================================================
