------------------------------ MODULE MCSelect ------------------------------
(***************************************************************************)
(* Two tables, t(k, a, b) with a simple or a composite primary key and     *)
(* u(k, a), the queries asked of every state, and what SQL says they       *)
(* answer, defined without plans, indexes or pages.                        *)
(***************************************************************************)
EXTENDS Joins

CONSTANT KnownLimits   \* the deviations the properties leave aside

MCColumnsOf   == [t |-> <<"k", "a", "b">>, u |-> <<"k", "a">>]
MCText        == {<<"t", "b">>}
MCPrimaryKeys == [t |-> {<<"k">>, <<"k", "a">>}, u |-> {<<"k">>}]

MCValuesOf == [c \in {<<t, col>> : t \in {"t", "u"}, col \in {"k", "a", "b"}} |->
                 IF c[2] = "k" THEN 1..3 ELSE {1, 2, Null}]

\* The order of the fingerprints is not that of the pairs, and a fingerprint
\* may be the value of the first column of another row.
MCKeyOf == [p \in (1..3) \X (1..3) |-> 1 + ((3 * p[1] + 2 * p[2]) % 9) + 9 * (p[1] % 2)]

MCBucketOf == [p \in (1..3) \X (1..3) |-> p[1] + p[2]]

T(k, a, b) == [k |-> k, a |-> a, b |-> b]
U(k, a)    == [k |-> k, a |-> a]

MCStartRows == [t |-> {{T(1, 2, 1), T(2, 1, 2), T(3, 1, Null)}, {T(1, Null, 1), T(2, 1, 1)},
                       {T(1, 1, 2), T(2, 2, 1), T(3, 2, 2)}},
                u |-> {{U(1, 1), U(2, 1), U(3, Null)}, {U(1, 2), U(2, 1)}, {}}]

MCIndexLists == [t |-> {<<"a">>, <<"b">>, <<"a", "b">>}, u |-> {<<"a">>}]

---------------------------------------------------------------------------
Everything      == [op |-> "all"]
Eq(c, v)        == [op |-> "eq", col |-> c, val |-> v]
Cmp(c, rel, v)  == [op |-> "cmp", col |-> c, rel |-> rel, val |-> v]
Btw(c, x, y)    == [op |-> "between", col |-> c, from |-> x, to |-> y]
IsNull(c, neg)  == [op |-> "null", col |-> c, negated |-> neg]
List(c, vs, neg) == [op |-> "list", col |-> c, vals |-> vs, negated |-> neg]
In(c, q, neg)   == [op |-> "in", col |-> c, sub |-> q, negated |-> neg]
Scalar(c, q)    == [op |-> "scalar", col |-> c, sub |-> q]
Exists(q, neg)  == [op |-> "exists", sub |-> q, negated |-> neg]
Ref(c, out)     == [op |-> "ref", col |-> c, out |-> out]
And(x, y)       == [op |-> "and", l |-> x, r |-> y]
Or(x, y)        == [op |-> "or", l |-> x, r |-> y]
Not(x)          == [op |-> "not", e |-> x]

Query(from, where, items) ==
  [from |-> from, where |-> where, items |-> items, order |-> Null, desc |-> FALSE,
   offset |-> 0, limit |-> Null, distinct |-> FALSE, group |-> Null]

MCWheres == [t |-> {Eq("k", 1), Eq("a", 1), And(Eq("a", 1), Eq("b", 2))}, u |-> {Eq("a", 1)}]
MCSets   == [t |-> {[col |-> "b", val |-> 1], [col |-> "a", val |-> 2]},
             u |-> {[col |-> "a", val |-> 2]}]

\* Conditions asked of t, and of u inside a query of t.
AskedOfT ==
  {Everything, Eq("k", 2), Eq("k", Null), Eq("a", 1), Eq("b", 1), Eq("a", Null), Eq("b", Null),
   Btw("k", 1, 2), Btw("a", 1, 1), Btw("b", 1, 2), Cmp("a", "<", 2), Cmp("b", "<>", 1),
   IsNull("a", FALSE), IsNull("b", TRUE), List("a", {1, Null}, FALSE), List("a", {2, Null}, TRUE),
   List("b", {1}, TRUE), Not(Eq("a", 1)), Or(Eq("a", 2), Eq("b", 1)), Not(And(Eq("a", 1), Eq("b", 1))),
   And(Eq("a", 1), Eq("b", 2)), And(Eq("a", 2), Eq("b", 1)), And(Eq("a", 1), Eq("a", 2)),
   And(Eq("k", 1), Eq("a", 2)), And(Eq("k", 3), Eq("b", 1)), And(Eq("a", 1), Eq("k", Null)),
   And(Eq("k", 2), And(Eq("a", 1), Eq("b", 2)))}
  \cup LET as == Query("u", Everything, <<"a">>)
           ks == Query("u", Eq("a", 1), <<"k">>)
           one == Query("u", Eq("k", 1), <<"a">>)
       IN  {In("a", as, FALSE), In("a", as, TRUE), In("k", ks, FALSE), In("b", as, FALSE),
            Scalar("a", one), Scalar("k", one), Scalar("a", as),
            Exists(ks, FALSE), Exists(ks, TRUE),
            Exists(Query("u", Ref("a", "b"), <<"k">>), FALSE),
            Exists(Query("u", Ref("k", "a"), <<"k">>), TRUE),
            And(Eq("a", 1), Exists(Query("u", Ref("k", "a"), <<"k">>), FALSE)),
            Or(In("a", as, FALSE), Eq("b", 2))}

AskedOfU == {Ref("k", "a"), Ref("a", "b"), Ref("a", "a"), And(Eq("a", 1), Ref("k", "a"))}

Ask(t, e, around) == [table |-> t, where |-> e, around |-> around]

MCAsks == {Ask("t", e, Null) : e \in AskedOfT} \cup {Ask("u", e, "t") : e \in AskedOfU}

\* The conditions that occur: those asked, their parts, and others like them.
RefsOut == [op: {"ref"}, col: {"k", "a"}, out: {"a", "b"}]

Queried == {Query("u", w, <<c>>) : w \in {Everything, Eq("a", 1), Eq("k", 1)} \cup RefsOut, c \in {"k", "a"}}

Simple == [op: {"all"}]
            \cup RefsOut
            \cup [op: {"cmp"}, col: {"a", "b"}, rel: {"<", "<>"}, val: {1, 2}]
            \cup [op: {"between"}, col: {"k", "a", "b"}, from: {1}, to: {1, 2}]
            \cup [op: {"null"}, col: {"a", "b"}, negated: BOOLEAN]
            \cup [op: {"list"}, col: {"a", "b"}, vals: SUBSET {1, 2, Null}, negated: BOOLEAN]
            \cup [op: {"in"}, col: {"k", "a", "b"}, sub: Queried, negated: BOOLEAN]
            \cup [op: {"scalar"}, col: {"k", "a"}, sub: Queried]
            \cup [op: {"exists"}, sub: Queried, negated: BOOLEAN]

Composed(eqs, simple, pairs) ==
  eqs \cup simple \cup pairs \cup [op: {"not"}, e: eqs \cup pairs]
    \cup [op: {"and"}, l: eqs, r: simple \cup pairs] \cup [op: {"or"}, l: simple, r: eqs]

RECURSIVE DepthOf(_)
DepthOf(e) == CASE e.op \in {"and", "or"} -> 1 + Max({DepthOf(e.l), DepthOf(e.r)})
                [] e.op = "not"           -> 1 + DepthOf(e.e)
                [] "sub" \in DOMAIN e     -> 1 + DepthOf(e.sub.where)
                [] OTHER                  -> 0

WithPairs(eqs) == Composed(eqs, Simple, [op: {"and", "or"}, l: eqs, r: eqs])

Occurring == WithPairs([op: {"eq"}, col: {"k", "a", "b"}, val: {1, 2, 3, Null}])

MCDepth == [e \in Occurring |-> DepthOf(e)]

Plain(e)   == Query("t", e, <<"k", "a", "b">>)
Cut(e)     == [Plain(e) EXCEPT !.offset = 1, !.limit = 1]
Sorting(e) == [Plain(e) EXCEPT !.order = "b", !.desc = TRUE]
Rising(e)  == [Plain(e) EXCEPT !.order = "a"]
Queries(e) == {Plain(e), Cut(e), Rising(e), Sorting(e), [Sorting(e) EXCEPT !.offset = 1, !.limit = 1]}

Estimates(t) == IF stats[t].fresh THEN BOOLEAN ELSE {FALSE}

---------------------------------------------------------------------------
(* What SQL says. A condition is true of a row, false of it, or neither.   *)

RECURSIVE True(_, _, _), False(_, _, _)

RowsWhere(q, outer) == {k \in DOMAIN rows[q.from] : True(q.where, rows[q.from][k], outer)}

Answers(q, outer) == {rows[q.from][k][q.items[1]] : k \in RowsWhere(q, outer)}

Inside(e, row) == Answers(e.sub, row)

Known(v) == v # Null

True(e, row, outer) ==
  CASE e.op = "all"     -> TRUE
    [] e.op = "and"     -> True(e.l, row, outer) /\ True(e.r, row, outer)
    [] e.op = "or"      -> True(e.l, row, outer) \/ True(e.r, row, outer)
    [] e.op = "not"     -> False(e.e, row, outer)
    [] e.op = "eq"      -> Known(row[e.col]) /\ row[e.col] = e.val
    [] e.op = "ref"     -> Known(row[e.col]) /\ row[e.col] = outer[e.out]
    [] e.op = "cmp"     -> /\ Known(row[e.col])
                           /\ e.rel = "<"  => row[e.col] < e.val
                           /\ e.rel = "<>" => row[e.col] # e.val
    [] e.op = "between" -> Known(row[e.col]) /\ row[e.col] \in e.from..e.to /\ e.col # "b"
    [] e.op = "null"    -> Known(row[e.col]) = e.negated
    [] e.op = "list"    -> /\ Known(row[e.col])
                           /\ IF e.negated THEN row[e.col] \notin e.vals /\ Null \notin e.vals
                                           ELSE row[e.col] \in e.vals
    [] e.op = "in"      -> /\ Known(row[e.col])
                           /\ IF e.negated THEN row[e.col] \notin Inside(e, row) /\ Null \notin Inside(e, row)
                                           ELSE row[e.col] \in Inside(e, row)
    [] e.op = "scalar"  -> Known(row[e.col]) /\ row[e.col] \in Inside(e, row)
    [] e.op = "exists"  -> (RowsWhere(e.sub, row) = {}) = e.negated

\* Asked only of what the queries put under NOT.
False(e, row, outer) ==
  CASE e.op = "and" -> False(e.l, row, outer) \/ False(e.r, row, outer)
    [] e.op = "or"  -> False(e.l, row, outer) /\ False(e.r, row, outer)
    [] e.op = "not" -> True(e.e, row, outer)
    [] e.op = "eq"  -> Known(row[e.col]) /\ Known(e.val) /\ row[e.col] # e.val

RECURSIVE HasSubquery(_)
HasSubquery(e) == CASE e.op \in {"and", "or"} -> HasSubquery(e.l) \/ HasSubquery(e.r)
                    [] e.op = "not" -> HasSubquery(e.e)
                    [] OTHER        -> "sub" \in DOMAIN e

\* A subquery may be refused, and so may a NULL where a primary key is asked.
MayRefuse(e) == HasSubquery(e) \/ (e.op = "eq" /\ e.val = Null)

---------------------------------------------------------------------------
(* Where the executor is known to answer something else.                   *)

\* EXISTS and the filter after it both cut the page out.
CutTwice(q) == Correlated(q.where) /\ q.offset > 0 /\ q.order = Null /\ stats["t"].fresh

Limits(q) ==
  {l \in {"partial_key", "null_lookup", "pk_prefix", "cut_twice"} :
     \/ l = "partial_key" /\ PartialKey("t", q.where)
     \/ l = "null_lookup" /\ NullLookup("t", q.where, Null)
     \/ l = "pk_prefix" /\ PkPrefix("t", q.where)
     \/ l = "cut_twice" /\ CutTwice(q)}

---------------------------------------------------------------------------
Expected(q) ==
  LET keys == InKeyOrder(RowsWhere(q, Null))
  IN  [i \in DOMAIN keys |-> Project(q.items, rows[q.from][keys[i]])]

SameBag(s, r) == \A x \in Range(s) \cup Range(r) : Times(s, x) = Times(r, x)

InOrder(q, out) ==
  LET at == CHOOSE i \in DOMAIN q.items : q.items[i] = q.order
  IN  \A i, j \in DOMAIN out : i < j => ~(IF q.desc THEN Below(out[i][at], out[j][at])
                                                    ELSE Below(out[j][at], out[i][at]))

\* Whatever the plan, an answer is the rows the WHERE is true of, in key order
\* or in the order asked for, and the page asked for of that sequence.
IsExact(q, answer, expected, est) ==
  IF q.order = Null THEN answer = Page(expected, q.offset, q.limit)
  ELSE IF q.limit = Null THEN InOrder(q, answer) /\ SameBag(answer, expected)
  ELSE answer = Page(Select([q EXCEPT !.offset = 0, !.limit = Null], Null, est).rows, q.offset, q.limit)

AnswerIsExact(q, answer, est) ==
  IF answer.ok THEN IsExact(q, answer.rows, Expected(q), est) ELSE MayRefuse(q.where)

AnswersAreExact ==
  \A e \in AskedOfT : \A q \in Queries(e) : \A est \in Estimates("t") :
    Limits(q) \cap KnownLimits = {} =>
      \A answer \in {Select(q, Null, est)} : AnswerIsExact(q, answer, est)

FindsTrue(e, verdict) ==
  Allowed("t", e, verdict) => Targets("t", e, verdict) \cap DOMAIN rows["t"] = RowsWhere(Plain(e), Null)

\* UPDATE and DELETE act on the rows their WHERE is true of and on no other,
\* whichever key or index they are found by.
StatementsAreExact ==
  \A e \in AskedOfT, est \in Estimates("t") :
    FindsTrue(e, Verdicts("t", e, est))

---------------------------------------------------------------------------
(* Joins.                                                                  *)

Source(alias, t) == [alias |-> alias, table |-> t]

Join(kind, right, l, r) ==
  [kind |-> kind, right |-> right, natural |-> FALSE, using |-> Null, on |-> [l |-> l, r |-> r]]

JoinQuery(base, joins, items) ==
  [base |-> base, joins |-> joins, where |-> Everything, items |-> items, order |-> Null,
   desc |-> FALSE, offset |-> 0, limit |-> Null, group |-> Null]

Kinds == {"inner", "left", "right", "full"}

TU == <<<<"t", "k">>, <<"t", "a">>, <<"u", "k">>, <<"u", "a">>>>

TwoTables(kind) ==
  {JoinQuery(Source("t", "t"), <<j>>, TU) :
     j \in {Join(kind, Source("u", "u"), <<"t", "a">>, <<"u", "k">>),
            Join(kind, Source("u", "u"), <<"u", "a">>, <<"t", "b">>),
            Join(kind, Source("u", "u"), <<"t", "b">>, <<"u", "a">>),
            [Join(kind, Source("u", "u"), Null, Null) EXCEPT !.using = "a"],
            Join(kind, Derived("u", Query("u", IsNull("a", TRUE), <<"k", "a">>)), <<"t", "a">>, <<"u", "a">>)}}

ByKeyOfT(kind) == JoinQuery(Source("u", "u"), <<Join(kind, Source("t", "t"), <<"u", "a">>, <<"t", "k">>)>>, TU)

ThreeTables(kind) ==
  {JoinQuery(Source("u", "u"), <<Join("left", Source("t", "t"), <<"u", "a">>, <<"t", "a">>), j>>,
             TU \o <<<<"x", "k">>, <<"x", "a">>>>) :
     j \in {Join(kind, Source("x", "u"), <<"t", "b">>, <<"x", "a">>),
            Join(kind, Source("x", "u"), <<"u", "k">>, <<"t", "b">>)}}

Across == [JoinQuery(Source("t", "t"), <<[Join("cross", Source("u", "u"), Null, Null) EXCEPT !.on = Null]>>, TU)
             EXCEPT !.where = And(Not(Eq(<<"t", "a">>, 1)), Cmp(<<"u", "k">>, "<", 3))]

JoinQueries == {Across} \cup UNION {{ByKeyOfT(kind)} \cup TwoTables(kind) \cup ThreeTables(kind) : kind \in Kinds}

\* The definition: every pair the condition is true of, and the rows of a
\* kept side that have no pair.
Fits(join, left, l, r) ==
  LET on == On(left, join) IN
  on = Null \/ LET both == l @@ r IN Known(both[on.l]) /\ both[on.l] = both[on.r]

Hits(join, left, l, rights) == SelectSeq(rights, LAMBDA r : Fits(join, left, l, r))

Paired(join, l, hits) ==
  IF hits = <<>> /\ join.kind \in {"left", "full"} THEN <<l @@ NullRow(join.right)>>
  ELSE [i \in DOMAIN hits |-> l @@ hits[i]]

Lone(join, left, current, rights) ==
  SelectSeq(rights, LAMBDA r : \A i \in DOMAIN current : ~Fits(join, left, current[i], r))

Behind(left, lone) == [i \in DOMAIN lone |-> LeftNulls(left) @@ lone[i]]

RefStep(current, left, join, rights) ==
  FlattenSeq([i \in DOMAIN current |-> Paired(join, current[i], Hits(join, left, current[i], rights))])
    \o (IF join.kind \in {"right", "full"} THEN Behind(left, Lone(join, left, current, rights)) ELSE <<>>)

Projected(q, true) == [i \in DOMAIN true |-> Project(q.items, true[i])]

RefJoined(q) ==
  LET step[n \in 0..Len(q.joins)] ==
        IF n = 0 THEN Scan(q.base)
        ELSE RefStep(step[n - 1], Sources(q, n - 1), q.joins[n], Scan(q.joins[n].right))
  IN  Projected(q, SelectSeq(step[Len(q.joins)], LAMBDA row : True(q.where, row, Null)))

\* The first column of a composite key on the right side is taken for the key.
JoinsByPrefix(q) ==
  \E kind \in {"inner", "left"} : q = ByKeyOfT(kind) /\ Composite("t")

\* Index loop, hash join and nested loop return the rows of the definition,
\* each as often.
JoinsAreExact ==
  \A q \in JoinQueries :
    \/ "pk_prefix" \in KnownLimits /\ JoinsByPrefix(q)
    \/ \A found \in {SelectJoined(q)}, expected \in {RefJoined(q)} : SameBag(found, expected)

---------------------------------------------------------------------------
(* Groups, windows, set operations and recursion.                          *)

Item(func, col) == [func |-> func, col |-> col]

Group(by, items) == [by |-> by, items |-> items, having |-> Null, distinct |-> FALSE,
                     order |-> Null, desc |-> FALSE, offset |-> 0, limit |-> Null]

Totals == <<Item("count*", "b"), Item("count", "b"), Item("distinct", "b"), Item("sum", "b"),
            Item("avg", "b"), Item("min", "b"), Item("max", "b")>>

Groups == {Group(<<>>, Totals), Group(<<"a">>, <<Item("column", "a")>> \o Totals),
           [Group(<<"a">>, <<Item("column", "a")>> \o Totals) EXCEPT !.having = [item |-> 5, above |-> 1]],
           [Group(<<"a">>, <<Item("column", "a")>> \o Totals) EXCEPT !.order = 1, !.desc = TRUE, !.limit = 1]}

SumOver(f, keys) == FoldFunctionOnSet(LAMBDA x, y : x + y, 0, f, keys)

\* What an item is of a set of keys of t.
ItemOfKeys(item, keys) ==
  LET b(k)  == rows["t"][k].b
      known == {k \in keys : Known(b(k))}
      vals  == {b(k) : k \in known}
      sum   == SumOver([k \in known |-> b(k)], known)
  IN  CASE item.func = "column"   -> (CHOOSE r \in {rows["t"][k] : k \in keys} : TRUE).a
        [] item.func = "count*"   -> Cardinality(keys)
        [] item.func = "count"    -> Cardinality(known)
        [] item.func = "distinct" -> Cardinality(vals)
        [] known = {}             -> Null
        [] item.func = "sum"      -> sum
        [] item.func = "avg"      -> <<sum, Cardinality(known)>>
        [] item.func = "min"      -> CHOOSE v \in vals : \A w \in vals : v <= w
        [] item.func = "max"      -> CHOOSE v \in vals : \A w \in vals : v >= w

GroupKeys(g) ==
  IF g.by = <<>> THEN {DOMAIN rows["t"]}
  ELSE {{k \in DOMAIN rows["t"] : rows["t"][k].a = v} : v \in {rows["t"][k].a : k \in DOMAIN rows["t"]}}

GroupRows(g) ==
  {out \in {[i \in DOMAIN g.items |-> ItemOfKeys(g.items[i], keys)] : keys \in GroupKeys(g)} :
     g.having = Null \/ (Known(out[g.having.item]) /\ out[g.having.item] > g.having.above)}

GroupsAnswer(g) ==
  Select([Plain(Everything) EXCEPT !.group = g, !.order = g.order, !.limit = g.limit], Null, FALSE).rows

\* A page of the groups must begin the order; without ORDER BY the page is
\* not asked for here (LimitsGroups).
GroupIsExact(g, out, all) ==
  /\ Range(out) \subseteq all
  /\ g.limit = Null => Len(out) = Cardinality(all) /\ Range(out) = all
  /\ g.limit # Null => /\ Len(out) = Least(g.limit, Cardinality(all))
                       /\ \A x \in Range(out), y \in all \ Range(out) :
                            ~(IF g.desc THEN Below(x[1], y[1]) ELSE Below(y[1], x[1]))

GroupsAreExact ==
  \A g \in Groups : \A out \in {GroupsAnswer(g)}, all \in {GroupRows(g)} : GroupIsExact(g, out, all)

\* LIMIT without ORDER BY cuts the rows before they are grouped.
LimitsGroups ==
  "early_limit" \in KnownLimits \/
    GroupsAnswer([Group(<<>>, Totals) EXCEPT !.limit = 1])[1] \in GroupRows(Group(<<>>, Totals))

Window(func, col, part, order, desc) ==
  [func |-> func, col |-> col, n |-> 1 + (IF func = "ntile" THEN 1 ELSE 0),
   over |-> [part |-> part, order |-> order, desc |-> desc]]

Overs == {<<p, o, d>> \in {Null, "a"} \X {Null, "b"} \X BOOLEAN : o = Null => ~d}

WindowedOver(items) ==
  LET keys == InKeyOrder(DOMAIN rows["t"])
  IN  Windowed([i \in DOMAIN keys |-> rows["t"][keys[i]]],
               [items |-> items, order |-> Null, desc |-> FALSE, offset |-> 0, limit |-> Null])

Neighbours(o) == <<Window("lag", "k", o[1], o[2], o[3]), Window("lead", "k", o[1], o[2], o[3])>>

Tiles(o) == <<Window("ntile", "b", o[1], o[2], o[3])>>

\* Places of a window's rows, told by the answers themselves; those that need
\* an order come last.
WindowOf(o) ==
  WindowedOver(<<Window("row_number", "b", o[1], o[2], o[3]), Window("rank", "b", o[1], o[2], o[3]),
                 Window("dense_rank", "b", o[1], o[2], o[3]), Window("first_value", "k", o[1], o[2], o[3]),
                 Window("sum", "b", o[1], o[2], o[3]),
                 Item("column", "k"), Item("column", "a"), Item("column", "b")>>
               \o IF o[2] = Null THEN <<>> ELSE Neighbours(o) \o Tiles(o))

WindowIsExact(o, out) ==
  LET Together(i, j) == o[1] = Null \/ out[i][7] = out[j][7]
      Part(i)   == {j \in DOMAIN out : Together(i, j)}
      Ahead(i, j) == o[2] # Null /\ IF o[3] THEN Below(out[i][8], out[j][8]) ELSE Below(out[j][8], out[i][8])
      Before(i) == {j \in Part(i) : Ahead(i, j)}     \* strictly before i in the order
      At(i, n)  == {j \in Part(i) : out[j][1] = n}
      Seen(i)   == {j \in Part(i) : o[2] = Null \/ out[j][1] <= out[i][1]}
      KeyAt(i, n) == IF At(i, n) = {} THEN Null ELSE out[CHOOSE j \in At(i, n) : TRUE][6]
      Bucket(i, n) == Cardinality({j \in Part(i) : out[j][11] = n})
  IN  /\ Len(out) = Cardinality(DOMAIN rows["t"])
      /\ \A i \in DOMAIN out :
           /\ {out[j][1] : j \in Part(i)} = 1..Cardinality(Part(i))
           /\ \A j \in Before(i) : out[j][1] < out[i][1]
           /\ out[i][2] = 1 + Cardinality(Before(i))
           /\ out[i][3] = 1 + Cardinality({out[j][8] : j \in Before(i)})
           /\ out[i][4] = KeyAt(i, 1)
           /\ LET known == {j \in Seen(i) : Known(out[j][8])}
              IN  out[i][5] = IF known = {} THEN Null ELSE SumOver([j \in known |-> out[j][8]], known)
           /\ o[2] # Null =>
                /\ out[i][9] = KeyAt(i, out[i][1] - 1)
                /\ out[i][10] = KeyAt(i, out[i][1] + 1)
                /\ Bucket(i, 1) - Bucket(i, 2) \in {0, 1}
                /\ \A j \in Part(i) : out[j][1] < out[i][1] => out[j][11] <= out[i][11]

\* Without ORDER BY in OVER, NTILE, LAG and LEAD are refused.
UnorderedRefused(o) ==
  o[2] = Null => /\ ~WindowedOver(Tiles(o)).ok
                 /\ \A call \in Range(Neighbours(o)) : ~WindowedOver(<<call>>).ok

Often(bag, r) == IF r \in DOMAIN bag THEN bag[r] ELSE 0

SetIsExact(left, right) ==
  LET Full(op) == Combined(op, TRUE, left, right)
      Once(op) == Combined(op, FALSE, left, right)
  IN  \A r \in Range(left) \cup Range(right) :
        /\ Often(Full("union"), r) = Times(left \o right, r)
        /\ Often(Full("intersect"), r) + Often(Full("except"), r) = Times(left, r)
        /\ Often(Full("intersect"), r) <= Times(right, r)
        /\ Often(Full("except"), r) > 0 => Times(left, r) > Times(right, r)
        /\ Often(Once("union"), r) = 1
        /\ Often(Once("intersect"), r) = OneIf(r \in Range(left) /\ r \in Range(right))
        /\ Often(Once("except"), r) = OneIf(r \notin Range(right))

SetsAreExact ==
  \A left  \in {Select(Query("t", Everything, <<"a">>), Null, FALSE).rows},
     right \in {Select(Query("u", Everything, <<"a">>), Null, FALSE).rows} : SetIsExact(left, right)

\* WITH RECURSIVE below(n) AS (VALUES (1) UNION SELECT u.k FROM below JOIN u ON below.n = u.a)
Linked(delta) ==
  SelectJoined(JoinQuery([alias |-> "below", cols |-> <<"n">>, rows |-> delta],
                         <<Join("inner", Source("u", "u"), <<"below", "n">>, <<"u", "a">>)>>,
                         <<<<"u", "k">>>>))

BelowOne(all) == Recursive(<<<<1>>>>, all, Linked)

\* The keys from which the links of u lead to 1.
Reached ==
  LET under[n \in 0..3] ==
        IF n = 0 THEN {1} ELSE under[n - 1] \cup {k \in DOMAIN rows["u"] : rows["u"][k].a \in under[n - 1]}
  IN  under[3]

Linking(k) == IF k \in DOMAIN rows["u"] THEN rows["u"][k].a ELSE Null

\* The links of u lead from 1 back to 1.
Cyclic ==
  LET walk[i \in 0..3] == IF i = 0 THEN 1 ELSE Linking(walk[i - 1]) IN \E n \in 1..3 : walk[n] = 1

RecursionAnswers(once, all, keys) ==
  /\ once.ok
  /\ SameBag(once.rows, [i \in DOMAIN keys |-> <<keys[i]>>])
  /\ all.ok = ~Cyclic
  /\ all.ok => SameBag(all.rows, once.rows)

RecursionIsExact ==
  \A once \in {BelowOne(FALSE)}, all \in {BelowOne(TRUE)} : RecursionAnswers(once, all, InKeyOrder(Reached))

\* Groups, aggregates, windows, set operations and recursive CTEs are what
\* their definitions say of the rows.
ShapesAreExact ==
  /\ GroupsAreExact
  /\ LimitsGroups
  /\ \A o \in Overs : /\ \A answer \in {WindowOf(o)} : answer.ok /\ WindowIsExact(o, answer.rows)
                      /\ UnorderedRefused(o)
  /\ SetsAreExact
  /\ RecursionIsExact
=============================================================================
