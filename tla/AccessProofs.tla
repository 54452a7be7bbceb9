---------------------------- MODULE AccessProofs ----------------------------
(***************************************************************************)
(* Proofs about Access for any number of accounts, tables, views, rows and *)
(* policies, any predicates, and behaviours of any length.                 *)
(***************************************************************************)
EXTENDS Access, WellFoundedInduction, TLAPS

-----------------------------------------------------------------------------
(* The inductive invariant.                                                *)

\* What the grants of a catalog amount to.
Rights(grnts) == UNION {{<<g[1], g[2], p>> : p \in grnts[g]} : g \in DOMAIN grnts}

\* A rollback restores a catalog as good as the present one.
SavedOK ==
  /\ saved = <<saved[1], saved[2], saved[3], saved[4], saved[5], saved[6]>>
  /\ CatalogOK(saved[1], saved[2], saved[3], saved[5])
  /\ saved[6] = Rights(saved[2])

\* The statement under way was allowed to begin, and the rows it has yet to
\* change are still those that the policies let it reach.
WorkOK ==
  /\ work # Idle => given = Nothing
  /\ work.kind = "idle" => work = Idle
  /\ work.kind = "select" =>
       work = [kind |-> "select", object |-> work.object, keys |-> work.keys, right |-> work.right, nesting |-> work.nesting]
  /\ work.kind \in {"insert", "update", "delete"} =>
       /\ work = [kind |-> work.kind, table |-> work.table, todo |-> work.todo, value |-> work.value,
                  mode |-> work.mode, returning |-> work.returning, done |-> work.done]
       /\ work.table \in Tables /\ work.todo \subseteq Keys /\ work.value \in Values
       /\ Allowed(work.table, work.kind)
  /\ work.kind \in {"update", "delete"} =>
       \A k \in work.todo : k \in DOMAIN rows[work.table]
                            /\ RlsVerdict(work.table, work.kind, rows[work.table][k]) = "true"

IInv == TypeOK /\ RightsAsTold /\ ReadsAreAdmitted /\ SavedOK /\ WorkOK

-----------------------------------------------------------------------------
(* Policies.                                                               *)

\* Some policy of a set has the least name.
LEMMA LeastPolicy ==
  ASSUME NEW ps, ps # {}, \A p \in ps : p.name \in Nat
  PROVE  \E p \in ps : \A q \in ps : p.name <= q.name
<1> DEFINE T == {p.name : p \in ps}
<1>1. T \subseteq Nat /\ T # {}  OBVIOUS
<1>2. PICK n \in T : \A m \in T : ~(<<m, n>> \in OpToRel(<, Nat))
  BY <1>1, NatLessThanWellFounded, WFMin
<1>3. \A m \in T : n <= m
  <2> TAKE m \in T
  <2>1. m \in Nat /\ n \in Nat  BY <1>1, <1>2
  <2>2. m < n => <<m, n>> \in OpToRel(<, Nat)  BY <2>1 DEF OpToRel
  <2>3. ~(<<m, n>> \in OpToRel(<, Nat))  BY <1>2
  <2>4. ~(m < n)  BY <2>2, <2>3
  <2> QED  BY <2>1, <2>4
<1>4. n \in T  BY <1>2
<1>5. PICK p \in ps : p.name = n  BY <1>4
<1>6. \A q \in ps : q.name \in T  OBVIOUS
<1> QED  BY <1>3, <1>5, <1>6

\* The first policy that decides does so with one of its two answers.
LEMMA FirstDecides ==
  ASSUME NEW ps \in SUBSET policies, NEW v, \A p \in policies : p.name \in PolicyNames, Deciding(ps, v) # {}
  PROVE  \E p \in ps : p.using[v] \in {"true", "error"} /\ AnyOf(ps, v) = p.using[v]
<1> DEFINE D == Deciding(ps, v)
           least(p) == \A q \in D : p.name <= q.name
<1>1. D \subseteq ps /\ \A p \in D : p.name \in Nat /\ p.using[v] \in {"true", "error"}
  BY AccessAssumption DEF Deciding
<1>2. \E p \in D : least(p)
  <2>1. D # {} /\ \A p \in D : p.name \in Nat  BY <1>1
  <2> HIDE DEF D
  <2>2. \E p \in D : \A q \in D : p.name <= q.name  BY <2>1, LeastPolicy
  <2> QED  BY <2>2
<1>3. (CHOOSE p \in D : least(p)) \in D  BY <1>2
<1>4. AnyOf(ps, v) = (CHOOSE p \in D : least(p)).using[v]  BY DEF AnyOf
<1> QED  BY <1>1, <1>3, <1>4

\* OR of verdicts is true when a policy is, unless it cannot be evaluated.
LEMMA AnyOfSaysTrue ==
  ASSUME NEW ps \in SUBSET policies, NEW v, \A p \in policies : p.name \in PolicyNames
  PROVE  /\ AnyOf(ps, v) = "true" => \E p \in ps : p.using[v] = "true"
         /\ (\E p \in ps : p.using[v] = "true") => AnyOf(ps, v) \in {"true", "error"}
<1>1. CASE Deciding(ps, v) = {}
  BY <1>1 DEF AnyOf, Deciding
<1>2. CASE Deciding(ps, v) # {}
  BY <1>2, FirstDecides
<1> QED  BY <1>1, <1>2

\* The policies that apply are of the catalog.
LEMMA ApplicableHere == \A t, action : Applicable(t, action) \in SUBSET policies
BY DEF Applicable, PoliciesFor

\* A row that a statement of a user reaches is one a policy says yes to.
LEMMA ReachedIsAdmitted ==
  ASSUME CatalogOK(accounts, grants, policies, rows), NEW t, NEW action, NEW v,
         RlsVerdict(t, action, v) = "true", user # Superuser, PoliciesFor(t) # {}
  PROVE  SaysYes(t, action, UsingOf, v)
<1>1. Governed(t)  BY DEF Governed
<1>2. ~RlsFails(t, action) /\ AnyOf(Applicable(t, action), v) = "true"  BY <1>1 DEF RlsVerdict
<1>3. PICK p \in Applicable(t, action) : p.using[v] = "true"
  BY <1>2, ApplicableHere, AnyOfSaysTrue DEF CatalogOK
<1>4. p.using # NoText  BY <1>1, <1>2 DEF RlsFails
<1>5. p \in policies /\ p.table = t /\ p.action \in {"all", action} /\ (p.roles = {} \/ user \in p.roles)
  BY DEF Applicable, PoliciesFor
<1> QED  BY <1>3, <1>4, <1>5 DEF SaysYes, UsingOf

\* A row that RETURNING keeps is one a policy for SELECT says yes to.
LEMMA KeptIsAdmitted ==
  ASSUME NEW t, NEW v, FilterKeeps(t, v), user # Superuser, PoliciesFor(t) # {}
  PROVE  SaysYes(t, "select", UsingOf, v)
BY DEF FilterKeeps, Governed, Applicable, PoliciesFor, SaysYes, UsingOf

\* A new row that passes WITH CHECK is one a policy says yes to.
LEMMA CheckedIsAdmitted ==
  ASSUME NEW t, NEW v, user # Superuser, PoliciesFor(t) # {}
  PROVE  /\ WithCheck(t, "insert", v) => SaysYes(t, "insert", CheckOf, v)
         /\ WithCheck(t, "update", v) => SaysYes(t, "update", NewOf, v)
BY DEF WithCheck, CheckText, Governed, Applicable, PoliciesFor, SaysYes, CheckOf, NewOf

-----------------------------------------------------------------------------
(* The catalog.                                                            *)

\* A record that is put or removed leaves a catalog of records.
LEMMA GrantsPut ==
  ASSUME CatalogOK(accounts, grants, policies, rows), NEW g \in Accounts \cup {Public}, NEW o \in Objects,
         NEW privs \in (SUBSET Privs) \ {{}}, PutGrant(g, o, privs), UNCHANGED <<accounts, policies, rows>>
  PROVE  /\ CatalogOK(accounts, grants, policies, rows)'
         /\ DOMAIN grants' = DOMAIN grants \cup {<<g, o>>}
         /\ \A x \in DOMAIN grants' : grants'[x] = IF x = <<g, o>> THEN privs ELSE grants[x]
BY DEF PutGrant, CatalogOK

\* The same for a record that is removed.
LEMMA GrantsRemoved ==
  ASSUME CatalogOK(accounts, grants, policies, rows), NEW x,
         grants' = Restrict(grants, DOMAIN grants \ {x}), UNCHANGED <<accounts, policies, rows>>
  PROVE  /\ CatalogOK(accounts, grants, policies, rows)'
         /\ DOMAIN grants' = DOMAIN grants \ {x}
         /\ \A y \in DOMAIN grants' : grants'[y] = grants[y]
<1>1. grants' = [y \in DOMAIN grants \ {x} |-> grants[y]]  BY DEF Restrict
<1> QED  BY <1>1 DEF CatalogOK

\* What a set of rights says, a triple at a time.
RightsByTriple(grnts) ==
  \A r : r \in Rights(grnts) <=>
    \E g \in Accounts \cup {Public}, o \in Objects : <<g, o>> \in DOMAIN grnts /\ \E p \in grnts[<<g, o>>] : r = <<g, o, p>>

\* The rights of records of grantees and objects are such triples.
LEMMA RightsAre ==
  \A grnts : DOMAIN grnts \subseteq (Accounts \cup {Public}) \X Objects => RightsByTriple(grnts)
<1> SUFFICES ASSUME NEW grnts, DOMAIN grnts \subseteq (Accounts \cup {Public}) \X Objects, NEW r
             PROVE  r \in Rights(grnts) <=>
                      \E g \in Accounts \cup {Public}, o \in Objects :
                        <<g, o>> \in DOMAIN grnts /\ \E p \in grnts[<<g, o>>] : r = <<g, o, p>>
  BY DEF RightsByTriple
<1>1. ASSUME r \in Rights(grnts)
      PROVE  \E g \in Accounts \cup {Public}, o \in Objects : <<g, o>> \in DOMAIN grnts /\ \E p \in grnts[<<g, o>>] : r = <<g, o, p>>
  <2>1. PICK x \in DOMAIN grnts : r \in {<<x[1], x[2], p>> : p \in grnts[x]}  BY <1>1 DEF Rights
  <2>2. PICK g \in Accounts \cup {Public}, o \in Objects : x = <<g, o>>  BY <2>1
  <2> QED  BY <2>1, <2>2
<1>2. ASSUME NEW g \in Accounts \cup {Public}, NEW o \in Objects, <<g, o>> \in DOMAIN grnts, NEW p \in grnts[<<g, o>>],
             r = <<g, o, p>>
      PROVE  r \in Rights(grnts)
  <2> DEFINE x == <<g, o>>
  <2>1. x \in DOMAIN grnts /\ r \in {<<x[1], x[2], q>> : q \in grnts[x]}  BY <1>2
  <2> HIDE DEF x
  <2> QED  BY <2>1 DEF Rights
<1> QED  BY <1>1, <1>2

\* GRANT and REVOKE leave exactly the rights granted and not revoked.
LEMMA GrantStep ==
  ASSUME CatalogOK(accounts, grants, policies, rows), RightsAsTold,
         NEW g \in Accounts \cup {Public}, NEW o \in Objects, NEW privs \in PrivLists, Grant(g, o, privs) \/ Revoke(g, o, privs)
  PROVE  CatalogOK(accounts, grants, policies, rows)' /\ RightsAsTold'
<1>0. /\ privs \in (SUBSET Privs) \ {{}}
      /\ DOMAIN grants \subseteq (Accounts \cup {Public}) \X Objects
      /\ \A x \in DOMAIN grants : grants[x] \in (SUBSET Privs) \ {{}}
      /\ GrantOf(g, o) \in SUBSET Privs /\ told = Rights(grants)
  BY AccessAssumption DEF CatalogOK, GrantOf, RightsAsTold, Rights
<1>r. RightsAsTold' <=> told' = Rights(grants')  BY DEF RightsAsTold, Rights
<1>1. CASE Grant(g, o, privs)
  <2> DEFINE all == GrantOf(g, o) \cup privs
  <2>a. all \in (SUBSET Privs) \ {{}}
    <3>1. all \in SUBSET Privs  BY <1>0
    <3>2. PICK p \in privs : TRUE  BY <1>0
    <3> QED  BY <3>1, <3>2
  <2>1. PutGrant(g, o, all) /\ UNCHANGED <<accounts, policies, rows>>  BY <1>1 DEF Grant
  <2>2. /\ CatalogOK(accounts, grants, policies, rows)'
        /\ DOMAIN grants' = DOMAIN grants \cup {<<g, o>>}
        /\ \A x \in DOMAIN grants' : grants'[x] = IF x = <<g, o>> THEN all ELSE grants[x]
    <3> HIDE DEF all
    <3> QED  BY <2>a, <2>1, GrantsPut
  <2>3. DOMAIN grants' \subseteq (Accounts \cup {Public}) \X Objects  BY <2>2 DEF CatalogOK
  <2>4. told' = Rights(grants) \cup {<<g, o, p>> : p \in privs}  BY <1>0, <1>1 DEF Grant
  <2>5. \A h \in Accounts \cup {Public}, q \in Objects : \A p :
          (<<h, q>> \in DOMAIN grants' /\ p \in grants'[<<h, q>>])
            <=> (<<h, q>> \in DOMAIN grants /\ p \in grants[<<h, q>>]) \/ (h = g /\ q = o /\ p \in privs)
    BY <2>2 DEF GrantOf
  <2>6. \A r : r \in Rights(grants') <=>
           \E h \in Accounts \cup {Public}, q \in Objects : <<h, q>> \in DOMAIN grants' /\ \E p \in grants'[<<h, q>>] : r = <<h, q, p>>
    <3>1. RightsByTriple(grants')  BY <2>3, RightsAre
    <3> QED  BY <3>1 DEF RightsByTriple
  <2>7. \A r : r \in Rights(grants) <=>
           \E h \in Accounts \cup {Public}, q \in Objects : <<h, q>> \in DOMAIN grants /\ \E p \in grants[<<h, q>>] : r = <<h, q, p>>
    <3>1. RightsByTriple(grants)  BY <1>0, RightsAre
    <3> QED  BY <3>1 DEF RightsByTriple
  <2>8. ASSUME NEW r  PROVE r \in Rights(grants') <=> r \in told'
    <3>1. r \in told' <=> r \in Rights(grants) \/ \E p \in privs : r = <<g, o, p>>  BY <2>4
    <3>2. ASSUME r \in Rights(grants')  PROVE r \in told'
      <4>0. PICK h \in Accounts \cup {Public}, q \in Objects :
              <<h, q>> \in DOMAIN grants' /\ \E p \in grants'[<<h, q>>] : r = <<h, q, p>>
        BY <2>6, <3>2
      <4>1. PICK p \in grants'[<<h, q>>] : r = <<h, q, p>>  BY <4>0
      <4> QED  BY <2>5, <2>7, <3>1, <4>0, <4>1
    <3>3. ASSUME r \in told'  PROVE r \in Rights(grants')
      <4>1. CASE r \in Rights(grants)
        <5>0. PICK h \in Accounts \cup {Public}, q \in Objects :
                <<h, q>> \in DOMAIN grants /\ \E p \in grants[<<h, q>>] : r = <<h, q, p>>
          BY <2>7, <4>1
        <5>1. PICK p \in grants[<<h, q>>] : r = <<h, q, p>>  BY <5>0
        <5> QED  BY <2>5, <2>6, <5>0, <5>1
      <4>2. CASE \E p \in privs : r = <<g, o, p>>
        BY <2>5, <2>6, <4>2
      <4> QED  BY <3>1, <3>3, <4>1, <4>2
    <3> QED  BY <3>2, <3>3
  <2>9. Rights(grants') = told'  BY <2>8
  <2> QED  BY <1>r, <2>2, <2>9
<1>2. CASE Revoke(g, o, privs)
  <2> DEFINE left == GrantOf(g, o) \ privs
  <2>a. left \in SUBSET Privs /\ (left # {} => left \in (SUBSET Privs) \ {{}})  BY <1>0
  <2>1. /\ IF left = {} THEN grants' = Restrict(grants, DOMAIN grants \ {<<g, o>>}) ELSE PutGrant(g, o, left)
        /\ UNCHANGED <<accounts, policies, rows>>
        /\ told' = Rights(grants) \ {<<g, o, p>> : p \in privs}
    BY <1>0, <1>2 DEF Revoke
  <2>2. /\ CatalogOK(accounts, grants, policies, rows)'
        /\ \A h \in Accounts \cup {Public}, q \in Objects : \A p :
             (<<h, q>> \in DOMAIN grants' /\ p \in grants'[<<h, q>>])
               <=> (<<h, q>> \in DOMAIN grants /\ p \in grants[<<h, q>>]) /\ ~(h = g /\ q = o /\ p \in privs)
    <3>1. CASE left = {}
      <4>1. /\ CatalogOK(accounts, grants, policies, rows)'
            /\ DOMAIN grants' = DOMAIN grants \ {<<g, o>>}
            /\ \A y \in DOMAIN grants' : grants'[y] = grants[y]
        BY <2>1, <3>1, GrantsRemoved
      <4>2. <<g, o>> \in DOMAIN grants => grants[<<g, o>>] \subseteq privs  BY <3>1 DEF GrantOf
      <4> QED  BY <4>1, <4>2
    <3>2. CASE left # {}
      <4>1. PutGrant(g, o, left)  BY <2>1, <3>2
      <4>2. \A p : p \in left <=> <<g, o>> \in DOMAIN grants /\ p \in grants[<<g, o>>] /\ p \notin privs  BY DEF GrantOf
      <4> HIDE DEF left
      <4>3. /\ CatalogOK(accounts, grants, policies, rows)'
            /\ DOMAIN grants' = DOMAIN grants \cup {<<g, o>>}
            /\ \A x \in DOMAIN grants' : grants'[x] = IF x = <<g, o>> THEN left ELSE grants[x]
        BY <2>a, <2>1, <3>2, <4>1, GrantsPut
      <4> QED  BY <4>2, <4>3
    <3> QED  BY <3>1, <3>2
  <2>3. DOMAIN grants' \subseteq (Accounts \cup {Public}) \X Objects  BY <2>2 DEF CatalogOK
  <2>6. \A r : r \in Rights(grants') <=>
           \E h \in Accounts \cup {Public}, q \in Objects : <<h, q>> \in DOMAIN grants' /\ \E p \in grants'[<<h, q>>] : r = <<h, q, p>>
    <3>1. RightsByTriple(grants')  BY <2>3, RightsAre
    <3> QED  BY <3>1 DEF RightsByTriple
  <2>7. \A r : r \in Rights(grants) <=>
           \E h \in Accounts \cup {Public}, q \in Objects : <<h, q>> \in DOMAIN grants /\ \E p \in grants[<<h, q>>] : r = <<h, q, p>>
    <3>1. RightsByTriple(grants)  BY <1>0, RightsAre
    <3> QED  BY <3>1 DEF RightsByTriple
  <2>8. \A r : r \in Rights(grants') <=> r \in told'
    BY <2>1, <2>2, <2>6, <2>7
  <2>9. Rights(grants') = told'  BY <2>8
  <2> QED  BY <1>r, <2>2, <2>9
<1> QED  BY <1>1, <1>2

\* A row that is written or removed leaves tables of values.
LEMMA RowsStep ==
  ASSUME CatalogOK(accounts, grants, policies, rows), NEW t \in Tables, NEW D \in SUBSET Keys, NEW f \in [D -> Values],
         rows' = [rows EXCEPT ![t] = f], UNCHANGED <<accounts, grants, policies>>
  PROVE  /\ CatalogOK(accounts, grants, policies, rows)'
         /\ rows'[t] = f /\ \A q \in Tables \ {t} : rows'[q] = rows[q]
<1>1. DOMAIN rows = Tables  BY DEF CatalogOK
<1>2. DOMAIN f = D  OBVIOUS
<1>3. rows' = [q \in Tables |-> IF q = t THEN f ELSE rows[q]]  BY <1>1
<1>4. \A q \in Tables : rows'[q] = IF q = t THEN f ELSE rows[q]  BY <1>3
<1>5. \A q \in Tables : rows'[q] = [k \in DOMAIN rows'[q] |-> rows'[q][k]]
  <2> TAKE q \in Tables
  <2>1. CASE q = t  BY <1>2, <1>4, <2>1
  <2>2. CASE q # t
    <3>1. rows[q] = [k \in DOMAIN rows[q] |-> rows[q][k]]  BY DEF CatalogOK
    <3> QED  BY <1>4, <2>2, <3>1
  <2> QED  BY <2>1, <2>2
<1>6. rows' = [q \in Tables |-> [k \in DOMAIN rows'[q] |-> rows'[q][k]]]
  BY <1>3, <1>5
<1>7. \A q \in Tables : DOMAIN rows'[q] \subseteq Keys /\ \A k \in DOMAIN rows'[q] : rows'[q][k] \in Values
  BY <1>2, <1>4 DEF CatalogOK
<1> QED  BY <1>4, <1>6, <1>7 DEF CatalogOK

\* What a row of a statement does to its table, key by key.
RowDone(k) ==
  \/ UNCHANGED rows
  \/ /\ k \in Keys
     /\ \A q \in Tables \ {work.table} : rows'[q] = rows[q]
     /\ \/ /\ InsertRow(k) \/ Upsert(k) \/ UpdateRow(k)
           /\ DOMAIN rows'[work.table] = DOMAIN rows[work.table] \cup {k}
           /\ rows'[work.table][k] = work.value
           /\ \A j \in DOMAIN rows[work.table] \ {k} : rows'[work.table][j] = rows[work.table][j]
        \/ /\ DeleteRow(k)
           /\ DOMAIN rows'[work.table] = DOMAIN rows[work.table] \ {k}
           /\ \A j \in DOMAIN rows'[work.table] : rows'[work.table][j] = rows[work.table][j]

WritesRow(k) == InsertRow(k) \/ SkipRow(k) \/ Upsert(k) \/ UpdateRow(k) \/ DeleteRow(k)

\* A row action changes at most its key, in the statement's table.
LEMMA WritesRowStep ==
  ASSUME IInv, NEW k \in Keys, WritesRow(k)
  PROVE  CatalogOK(accounts, grants, policies, rows)' /\ RowDone(k) /\ work.table \in Tables
         /\ work.kind \in {"insert", "update", "delete"} /\ k \in work.todo
         /\ \E a : Done(k, a)
<1> DEFINE t == work.table
           r == rows[t]
<1>1. work.kind \in {"insert", "update", "delete"} /\ k \in work.todo /\ \E a : Done(k, a)
  BY DEF WritesRow, InsertRow, SkipRow, Upsert, UpdateRow, DeleteRow, Writing
<1>2. t \in Tables /\ work.value \in Values  BY <1>1 DEF IInv, WorkOK
<1>3. CatalogOK(accounts, grants, policies, rows)  BY DEF IInv, TypeOK
<1>4. DOMAIN r \subseteq Keys /\ \A j \in DOMAIN r : r[j] \in Values  BY <1>2, <1>3 DEF CatalogOK
<1>5. UNCHANGED <<accounts, grants, policies>>  BY <1>1 DEF Done
<1>6. CASE InsertRow(k) \/ Upsert(k) \/ UpdateRow(k)
  <2> DEFINE f == [j \in DOMAIN r \cup {k} |-> IF j = k THEN work.value ELSE r[j]]
  <2>1. rows' = [rows EXCEPT ![t] = f]  BY <1>6 DEF InsertRow, Upsert, UpdateRow, SetRow
  <2>2. f = [j \in DOMAIN r \cup {k} |-> f[j]] /\ \A j \in DOMAIN r \cup {k} : f[j] \in Values  BY <1>2, <1>4
  <2>3. DOMAIN r \cup {k} \in SUBSET Keys  BY <1>4
  <2>4. DOMAIN f = DOMAIN r \cup {k} /\ f[k] = work.value /\ \A j \in DOMAIN r \ {k} : f[j] = r[j]  OBVIOUS
  <2> DEFINE D == DOMAIN r \cup {k}
  <2>a. D \in SUBSET Keys /\ f \in [D -> Values]  BY <2>2, <2>3
  <2> HIDE DEF f, D
  <2>5. CatalogOK(accounts, grants, policies, rows)' /\ rows'[t] = f /\ \A q \in Tables \ {t} : rows'[q] = rows[q]
    BY <1>2, <1>3, <1>5, <2>1, <2>a, RowsStep
  <2>6. RowDone(k)  BY <1>6, <2>4, <2>5 DEF RowDone
  <2> QED  BY <1>1, <1>2, <2>5, <2>6
<1>7. CASE DeleteRow(k)
  <2> DEFINE f == [j \in DOMAIN r \ {k} |-> r[j]]
  <2>1. rows' = [rows EXCEPT ![t] = f]  BY <1>7 DEF DeleteRow
  <2>2. f = [j \in DOMAIN r \ {k} |-> f[j]] /\ \A j \in DOMAIN r \ {k} : f[j] \in Values  BY <1>4
  <2>3. DOMAIN r \ {k} \in SUBSET Keys  BY <1>4
  <2>4. DOMAIN f = DOMAIN r \ {k} /\ \A j \in DOMAIN f : f[j] = r[j]  OBVIOUS
  <2> DEFINE D == DOMAIN r \ {k}
  <2>a. D \in SUBSET Keys /\ f \in [D -> Values]  BY <2>2, <2>3
  <2> HIDE DEF f, D
  <2>5. CatalogOK(accounts, grants, policies, rows)' /\ rows'[t] = f /\ \A q \in Tables \ {t} : rows'[q] = rows[q]
    BY <1>2, <1>3, <1>5, <2>1, <2>a, RowsStep
  <2>6. RowDone(k)  BY <1>7, <2>4, <2>5 DEF RowDone
  <2> QED  BY <1>1, <1>2, <2>5, <2>6
<1>8. CASE UNCHANGED rows
  <2>1. CatalogOK(accounts, grants, policies, rows)'  BY <1>3, <1>5, <1>8 DEF CatalogOK
  <2> QED  BY <1>1, <1>2, <1>8, <2>1 DEF RowDone
<1> QED  BY <1>6, <1>7, <1>8 DEF WritesRow, SkipRow

\* The shapes of the steps, by what they do with the statement under way.
Catalogs1 ==
  \/ \E a \in Accounts : CreateUser(a) \/ CreateRole(a) \/ DropUser(a) \/ DropRole(a)
  \/ \E g \in Accounts \cup {Public}, o \in Objects, privs \in PrivLists : Grant(g, o, privs) \/ Revoke(g, o, privs)
  \/ \E u \in Accounts \cup {Superuser} : SetSessionAuth(u)
  \/ \E n \in PolicyNames : (\E p \in Templates : CreatePolicy(n, p)) \/ \E t \in Tables : DropPolicy(n, t)
  \/ \E t \in Tables : Truncate(t)
  \/ Rollback

Begins ==
  \/ \E K \in SUBSET Keys, o \in Objects, right \in Tables \cup {NoText} : BeginSelect(o, K, right)
  \/ \E K \in SUBSET Keys, kind \in {"update", "delete"}, t \in Tables, v \in Values, r \in BOOLEAN : BeginChange(kind, t, K, v, r)
  \/ \E K \in SUBSET Keys, t \in Tables, v \in Values, r \in BOOLEAN, m \in {"none", "nothing", "update", "replace"} :
       BeginInsert(t, K, v, m, r)

Steps ==
  \/ Catalogs1 \/ Begins \/ ExpandView \/ Fail \/ ReadTable \/ EndWrite
  \/ \E k \in Keys : WritesRow(k)
  \/ EndBatch

\* Every step has one of these shapes; a statement that fails was under way.
LEMMA Shapes ==
  ASSUME Next
  PROVE  Steps
<1>1. (CHOOSE v \in Values : TRUE) \in Values  BY AccessAssumption
<1>2. \A K : K \in (SUBSET Keys) \ {{}} => K \in SUBSET Keys  OBVIOUS
<1>3. ASSUME NEW K \in (SUBSET Keys) \ {{}}, NEW t \in Tables, NEW v \in {CHOOSE v \in Values : TRUE}, NEW r \in BOOLEAN,
             BeginChange("delete", t, K, v, r)
      PROVE  Begins
  BY <1>1, <1>3 DEF Begins
<1>4. ASSUME NEW K \in (SUBSET Keys) \ {{}}, NEW t \in Tables, NEW v \in Values, NEW r \in BOOLEAN,
             BeginChange("update", t, K, v, r)
      PROVE  Begins
  BY <1>4 DEF Begins
<1>5. ASSUME NEW K \in (SUBSET Keys) \ {{}}, NEW t \in Tables, NEW v \in Values, NEW r \in BOOLEAN,
             NEW m \in {"none", "nothing", "update", "replace"}, BeginInsert(t, K, v, m, r)
      PROVE  Begins
  BY <1>5 DEF Begins
<1>6. ASSUME NEW K \in (SUBSET Keys) \ {{}}, NEW o \in Objects, NEW right \in Tables \cup {NoText}, BeginSelect(o, K, right)
      PROVE  Begins
  BY <1>6 DEF Begins
<1>7. RefuseView \/ FailRead \/ (\E k \in Keys : RefuseRow(k)) => Fail
  BY DEF RefuseView, FailRead, RefuseRow
<1> QED  BY <1>3, <1>4, <1>5, <1>6, <1>7 DEF Next, Steps, Catalogs1, WritesRow

\* The catalog and the tables stay as they should be, and the grants as told.
LEMMA CatalogStep ==
  ASSUME IInv, Steps
  PROVE  CatalogOK(accounts, grants, policies, rows)' /\ RightsAsTold'
<1>0. CatalogOK(accounts, grants, policies, rows) /\ RightsAsTold /\ SavedOK  BY DEF IInv, TypeOK
<1>t. UNCHANGED <<grants, told>> => RightsAsTold'  BY <1>0 DEF RightsAsTold
<1>s. UNCHANGED <<accounts, grants, policies, rows>> => CatalogOK(accounts, grants, policies, rows)'
  BY <1>0 DEF CatalogOK
<1>r. Restored => CatalogOK(accounts, grants, policies, rows)' /\ RightsAsTold'
  <2> HAVE Restored
  <2>1. accounts' = saved[1] /\ grants' = saved[2] /\ policies' = saved[3] /\ rows' = saved[5] /\ told' = saved[6]
    BY DEF Restored
  <2>2. CatalogOK(saved[1], saved[2], saved[3], saved[5]) /\ saved[6] = Rights(saved[2])  BY <1>0 DEF SavedOK
  <2>3. CatalogOK(accounts', grants', policies', rows')  BY <2>1, <2>2
  <2>4. CatalogOK(accounts, grants, policies, rows)'  BY <2>3 DEF CatalogOK
  <2>5. told' = Rights(grants')  BY <2>1, <2>2
  <2>6. RightsAsTold'  BY <2>5 DEF RightsAsTold, Rights
  <2> QED  BY <2>4, <2>6
<1>1. CASE \E a \in Accounts : CreateUser(a) \/ CreateRole(a) \/ DropUser(a) \/ DropRole(a)
  <2>1. PICK a \in Accounts : CreateUser(a) \/ CreateRole(a) \/ DropUser(a) \/ DropRole(a)  BY <1>1
  <2>2. /\ \E s \in {"none", "user", "role"} : accounts' = [accounts EXCEPT ![a] = s]
        /\ UNCHANGED <<grants, policies, rows, told>>
    BY <2>1 DEF CreateUser, CreateRole, DropUser, DropRole, OnlyAccounts
  <2>3. accounts' \in [Accounts -> {"none", "user", "role"}]  BY <1>0, <2>2 DEF CatalogOK
  <2>4. CatalogOK(accounts, grants, policies, rows)'  BY <1>0, <2>2, <2>3 DEF CatalogOK
  <2> QED  BY <1>t, <2>2, <2>4
<1>2. CASE \E g \in Accounts \cup {Public}, o \in Objects, privs \in PrivLists : Grant(g, o, privs) \/ Revoke(g, o, privs)
  BY <1>0, <1>2, GrantStep
<1>3. ASSUME NEW n \in PolicyNames, NEW p \in Templates, CreatePolicy(n, p)
      PROVE  CatalogOK(accounts, grants, policies, rows)' /\ RightsAsTold'
  <2> DEFINE q == [name |-> n, table |-> p.table, action |-> p.action, roles |-> p.roles, using |-> p.using, check |-> p.check]
  <2>1. /\ policies' = policies \cup {q} /\ q.name = n /\ q.table = p.table
        /\ \A r \in policies : ~(r.name = n /\ r.table = p.table)
        /\ UNCHANGED <<accounts, grants, rows, told>>
    BY <1>3 DEF CreatePolicy
  <2> HIDE DEF q
  <2> QED  BY <1>0, <1>t, <2>1 DEF CatalogOK
<1>4. ASSUME NEW n \in PolicyNames, NEW t \in Tables, DropPolicy(n, t)
      PROVE  CatalogOK(accounts, grants, policies, rows)' /\ RightsAsTold'
  <2>1. policies' \subseteq policies /\ UNCHANGED <<accounts, grants, rows, told>>  BY <1>4 DEF DropPolicy
  <2> QED  BY <1>0, <1>t, <2>1 DEF CatalogOK
<1>5. ASSUME NEW t \in Tables, Truncate(t)
      PROVE  CatalogOK(accounts, grants, policies, rows)' /\ RightsAsTold'
  <2> DEFINE f == <<>>
  <2>1. rows' = [rows EXCEPT ![t] = f] /\ UNCHANGED <<accounts, grants, policies, told>>  BY <1>5 DEF Truncate
  <2>2. {} \in SUBSET Keys /\ f \in [{} -> Values]  OBVIOUS
  <2> HIDE DEF f
  <2>3. CatalogOK(accounts, grants, policies, rows)'  BY <1>0, <2>1, <2>2, RowsStep
  <2> QED  BY <1>t, <2>1, <2>3
<1>6. CASE Rollback
  BY <1>6, <1>r DEF Rollback
<1>7. CASE Fail
  BY <1>7, <1>r, <1>s, <1>t DEF Fail, stored
<1>8. CASE (\E u \in Accounts \cup {Superuser} : SetSessionAuth(u)) \/ Begins \/ ExpandView \/ ReadTable \/ EndWrite \/ EndBatch
  <2>1. UNCHANGED stored
    BY <1>8 DEF SetSessionAuth, Begins, BeginSelect, BeginChange, BeginInsert, ExpandView, ReadTable, EndWrite, EndBatch
  <2> QED  BY <1>s, <1>t, <2>1 DEF stored
<1>9. ASSUME NEW k \in Keys, WritesRow(k)  PROVE CatalogOK(accounts, grants, policies, rows)' /\ RightsAsTold'
  <2>1. CatalogOK(accounts, grants, policies, rows)' /\ \E a : Done(k, a)  BY <1>9, WritesRowStep
  <2>2. UNCHANGED <<grants, told>>  BY <2>1 DEF Done
  <2> QED  BY <1>t, <2>1, <2>2
<1> QED
  BY <1>1, <1>2, <1>3, <1>4, <1>5, <1>6, <1>7, <1>8, <1>9 DEF Steps, Catalogs1

\* What a rollback would restore stays a catalog.
LEMMA SavedStep ==
  ASSUME IInv, Steps
  PROVE  SavedOK'
<1>0. SavedOK /\ CatalogOK(accounts, grants, policies, rows) /\ RightsAsTold  BY DEF IInv, TypeOK
<1>1. CASE EndBatch
  <2>1. saved' = <<accounts, grants, policies, views, rows, told>> /\ UNCHANGED stored
    BY <1>1 DEF EndBatch, stored
  <2>2. told = Rights(grants)  BY <1>0 DEF RightsAsTold, Rights
  <2> QED  BY <1>0, <2>1, <2>2 DEF SavedOK
<1>2. CASE UNCHANGED saved
  BY <1>0, <1>2 DEF SavedOK
<1>3. ASSUME NEW k \in Keys, WritesRow(k)  PROVE UNCHANGED saved
  <2>1. \E a : Done(k, a)  BY <1>3, WritesRowStep
  <2> QED  BY <2>1 DEF Done
<1>4. Catalogs1 => UNCHANGED saved
  BY DEF Catalogs1, CreateUser, CreateRole, DropUser, DropRole, OnlyAccounts, Grant, Revoke, SetSessionAuth, CreatePolicy,
         DropPolicy, Truncate, Rollback
<1>5. Begins \/ ExpandView \/ Fail \/ ReadTable \/ EndWrite => UNCHANGED saved
  BY DEF Begins, BeginSelect, BeginChange, BeginInsert, ExpandView, Fail, ReadTable, EndWrite
<1> QED  BY <1>1, <1>2, <1>3, <1>4, <1>5 DEF Steps

-----------------------------------------------------------------------------
(* The statement under way.                                                *)

\* Verdicts and rights are those of the session's user and the catalog.
LEMMA SameRules ==
  /\ UNCHANGED <<user, policies>> => \A t, action, v : RlsVerdict(t, action, v)' = RlsVerdict(t, action, v)
  /\ UNCHANGED <<user, grants>> => \A o, p : Allowed(o, p)' = Allowed(o, p)
<1>1. ASSUME UNCHANGED <<user, policies>>, NEW t, NEW action, NEW v
      PROVE  RlsVerdict(t, action, v)' = RlsVerdict(t, action, v)
  BY <1>1 DEF RlsVerdict, Governed, RlsFails, Applicable, PoliciesFor
<1>2. ASSUME UNCHANGED <<user, grants>>, NEW o, NEW p
      PROVE  Allowed(o, p)' = Allowed(o, p)
  BY <1>2 DEF Allowed, GrantOf
<1> QED  BY <1>1, <1>2

\* Between statements nothing is under way.
LEMMA IdleOK ==
  ASSUME work' = Idle
  PROVE  WorkOK' /\ work'.kind = "idle"
BY DEF Idle, WorkOK

\* A statement begins allowed, with the rows that policies let it reach.
LEMMA BeginStep ==
  ASSUME IInv, Begins
  PROVE  WorkOK' /\ work'.kind \in {"idle", "select", "insert", "update", "delete"}
<1>0. UNCHANGED <<user, policies, grants, rows>> /\ given' = Nothing
  BY DEF Begins, BeginSelect, BeginChange, BeginInsert, stored, Statement
<1>1. ASSUME NEW K, NEW o, NEW right, BeginSelect(o, K, right)
      PROVE  WorkOK' /\ work'.kind = "select"
  <2>1. work' = [kind |-> "select", object |-> o, keys |-> K, right |-> right, nesting |-> 0]  BY <1>1 DEF BeginSelect
  <2> QED  BY <1>0, <2>1 DEF WorkOK, Idle
<1>2. ASSUME NEW K \in SUBSET Keys, NEW t \in Tables, NEW v \in Values, NEW r, NEW m, BeginInsert(t, K, v, m, r)
      PROVE  WorkOK' /\ work'.kind = "insert"
  <2>1. /\ work' = [kind |-> "insert", table |-> t, todo |-> K, value |-> v, mode |-> m, returning |-> r, done |-> {}]
        /\ Allowed(t, "insert")
    BY <1>2 DEF BeginInsert
  <2>2. Allowed(t, "insert")'  BY <1>0, <2>1, SameRules
  <2>3. work'.kind = "insert" /\ work'.table = t /\ work'.todo = K /\ work'.value = v /\ work'.mode = m
        /\ work'.returning = r /\ work'.done = {}
    BY <2>1
  <2>4. Allowed(work.table, work.kind)'  BY <2>2, <2>3 DEF Allowed, GrantOf
  <2> QED  BY <1>0, <2>1, <2>3, <2>4 DEF WorkOK, Idle
<1>3. ASSUME NEW kind \in {"update", "delete"}, NEW K \in SUBSET Keys, NEW t \in Tables, NEW v \in Values, NEW r,
             BeginChange(kind, t, K, v, r)
      PROVE  WorkOK' /\ work'.kind = kind
  <2> DEFINE R == Reached(t, kind, K)
  <2>1. /\ work' = [kind |-> kind, table |-> t, todo |-> R, value |-> v, mode |-> "none", returning |-> r, done |-> {}]
        /\ Allowed(t, kind)
    BY <1>3 DEF BeginChange
  <2>2. Allowed(t, kind)'  BY <1>0, <2>1, SameRules
  <2>3. work'.kind = kind /\ work'.table = t /\ work'.todo = R /\ work'.value = v /\ work'.mode = "none"
        /\ work'.returning = r /\ work'.done = {}
    BY <2>1
  <2>4. Allowed(work.table, work.kind)'  BY <2>2, <2>3 DEF Allowed, GrantOf
  <2>5. R \subseteq Keys /\ \A k \in R : k \in DOMAIN rows[t] /\ RlsVerdict(t, kind, rows[t][k]) = "true"
    BY DEF Reached
  <2>6. \A k \in R : k \in DOMAIN rows'[t] /\ RlsVerdict(t, kind, rows[t][k])' = "true"
    <3>1. \A k \in R : RlsVerdict(t, kind, rows'[t][k]) = "true"  BY <1>0, <2>5
    <3>2. \A v2 : RlsVerdict(t, kind, v2)' = RlsVerdict(t, kind, v2)  BY <1>0, SameRules
    <3> QED  BY <1>0, <2>5, <3>1, <3>2 DEF RlsVerdict, Governed, RlsFails, Applicable, PoliciesFor
  <2> HIDE DEF R
  <2>7. \A k \in work'.todo : k \in DOMAIN rows'[work'.table] /\ RlsVerdict(work.table, work.kind, rows[work.table][k])' = "true"
    BY <2>3, <2>6 DEF RlsVerdict, Governed, RlsFails, Applicable, PoliciesFor
  <2> QED  BY <1>0, <2>1, <2>3, <2>4, <2>5, <2>7 DEF WorkOK, Idle
<1> QED  BY <1>1, <1>2, <1>3 DEF Begins

\* A row leaves the rows yet to come as they were found.
LEMMA RowKeepsWork ==
  ASSUME IInv, NEW k \in Keys, WritesRow(k)
  PROVE  WorkOK' /\ work'.kind \in {"idle", "select", "insert", "update", "delete"}
<1>0. WorkOK /\ RowDone(k) /\ work.kind \in {"insert", "update", "delete"} /\ k \in work.todo /\ work.table \in Tables
  BY WritesRowStep DEF IInv
<1>1. PICK affected : Done(k, affected)  BY WritesRowStep
<1> DEFINE left == work.todo \ {k}
           all  == work.done \cup affected
<1>2. work = [kind |-> work.kind, table |-> work.table, todo |-> work.todo, value |-> work.value,
              mode |-> work.mode, returning |-> work.returning, done |-> work.done]
  BY <1>0 DEF WorkOK
<1>3. work' = [work EXCEPT !.todo = left, !.done = all]  BY <1>1, <1>2 DEF Done
<1>4. work' = [kind |-> work.kind, table |-> work.table, todo |-> left, value |-> work.value,
               mode |-> work.mode, returning |-> work.returning, done |-> all]
  BY <1>2, <1>3
<1>5. /\ work'.kind = work.kind /\ work'.table = work.table /\ work'.todo = left /\ work'.value = work.value
      /\ work'.mode = work.mode /\ work'.returning = work.returning /\ work'.done = all
  BY <1>4
<1>6. UNCHANGED <<user, policies, grants, given>>  BY <1>1 DEF Done
<1>7. work # Idle /\ given' = Nothing  BY <1>0, <1>6 DEF WorkOK, Idle
<1>8. Allowed(work.table, work.kind)'
  <2>1. Allowed(work.table, work.kind)  BY <1>0 DEF WorkOK
  <2> QED  BY <1>5, <1>6, <2>1 DEF Allowed, GrantOf
<1>9. ASSUME work.kind \in {"update", "delete"}, NEW j \in left
      PROVE  j \in DOMAIN rows'[work'.table] /\ RlsVerdict(work.table, work.kind, rows[work.table][j])' = "true"
  <2>1. j \in DOMAIN rows[work.table] /\ RlsVerdict(work.table, work.kind, rows[work.table][j]) = "true"
    BY <1>0, <1>9 DEF WorkOK
  <2>2. j \in DOMAIN rows'[work.table] /\ rows'[work.table][j] = rows[work.table][j]
    BY <1>0, <2>1 DEF RowDone
  <2>3. RlsVerdict(work.table, work.kind, rows'[work.table][j]) = "true"  BY <2>1, <2>2
  <2> QED  BY <1>5, <1>6, <2>2, <2>3 DEF RlsVerdict, Governed, RlsFails, Applicable, PoliciesFor
<1> HIDE DEF left, all
<1>10. left \subseteq Keys  BY <1>0 DEF left, WorkOK
<1> QED  BY <1>0, <1>4, <1>5, <1>7, <1>8, <1>9, <1>10 DEF WorkOK

\* Every step leaves a statement that was allowed to begin, or none.
LEMMA StatementStep ==
  ASSUME IInv, Steps
  PROVE  /\ WorkOK' /\ work'.kind \in {"idle", "select", "insert", "update", "delete"}
         /\ user' \in Accounts \cup {Superuser}
<1>0. WorkOK /\ user \in Accounts \cup {Superuser}  BY DEF IInv, TypeOK
<1>1. CASE Begins
  <2>1. user' = user  BY <1>1 DEF Begins, BeginSelect, BeginChange, BeginInsert
  <2> QED  BY <1>0, <1>1, <2>1, BeginStep
<1>2. ASSUME NEW k \in Keys, WritesRow(k)
      PROVE  /\ WorkOK' /\ work'.kind \in {"idle", "select", "insert", "update", "delete"}
             /\ user' \in Accounts \cup {Superuser}
  <2>1. user' = user
    <3>1. PICK a : Done(k, a)  BY <1>2, WritesRowStep
    <3> QED  BY <3>1 DEF Done
  <2> QED  BY <1>0, <1>2, <2>1, RowKeepsWork
<1>3. CASE ExpandView
  <2>1. work = [kind |-> "select", object |-> work.object, keys |-> work.keys, right |-> work.right, nesting |-> work.nesting]
    BY <1>0, <1>3 DEF ExpandView, WorkOK
  <2>2. work' = [kind |-> "select", object |-> views[work.object], keys |-> work.keys, right |-> work.right,
                 nesting |-> work.nesting + 1]
    BY <1>3, <2>1 DEF ExpandView
  <2>3. work # Idle /\ UNCHANGED <<given, user>>  BY <1>3 DEF ExpandView, Idle
  <2> QED  BY <1>0, <2>2, <2>3 DEF WorkOK, Idle
<1>4. CASE Catalogs1 \/ Fail \/ ReadTable \/ EndWrite \/ EndBatch
  <2>1. work' = Idle
    BY <1>4 DEF Catalogs1, CreateUser, CreateRole, DropUser, DropRole, OnlyAccounts, Grant, Revoke, SetSessionAuth, CreatePolicy,
         DropPolicy, Truncate, Rollback, Fail, ReadTable, EndWrite, EndBatch, Statement
  <2>2. user' \in Accounts \cup {Superuser}
    BY <1>0, <1>4 DEF Catalogs1, CreateUser, CreateRole, DropUser, DropRole, OnlyAccounts, Grant, Revoke, SetSessionAuth, CreatePolicy,
         DropPolicy, Truncate, Rollback, Fail, ReadTable, EndWrite, EndBatch
  <2> QED  BY <2>1, <2>2, IdleOK
<1> QED  BY <1>1, <1>2, <1>3, <1>4 DEF Steps

\* Whatever a step gives back, the policies after it admit for its user.
LEMMA ReadsStep ==
  ASSUME IInv, Steps
  PROVE  ReadsAreAdmitted'
<1>0. WorkOK /\ CatalogOK(accounts, grants, policies, rows)  BY DEF IInv, TypeOK
<1>1. CASE given' = Nothing
  BY <1>1 DEF Nothing, ReadsAreAdmitted
<1>2. CASE ReadTable
  <2> DEFINE t == work.object
  <2>1. /\ given'.rows = {<<t, rows[t][k]>> : k \in Reached(t, "select", work.keys)}
        /\ UNCHANGED <<policies, user>>
    BY <1>2 DEF ReadTable, stored
  <2>2. SUFFICES ASSUME user # Superuser, NEW g \in given'.rows, PoliciesFor(g[1])' # {}
                 PROVE  SaysYes(g[1], "select", UsingOf, g[2])'
    BY <2>1 DEF ReadsAreAdmitted
  <2>3. PICK k \in Reached(t, "select", work.keys) : g = <<t, rows[t][k]>>  BY <2>1, <2>2
  <2>4. PoliciesFor(t) # {}  BY <2>1, <2>2, <2>3 DEF PoliciesFor
  <2>5. RlsVerdict(t, "select", rows[t][k]) = "true"  BY DEF Reached
  <2>6. SaysYes(t, "select", UsingOf, rows[t][k])  BY <1>0, <2>2, <2>4, <2>5, ReachedIsAdmitted
  <2> QED  BY <2>1, <2>3, <2>6 DEF SaysYes, UsingOf
<1>3. CASE EndWrite /\ given' # Nothing
  <2> DEFINE t == work.table
  <2>1. /\ given'.rows = {<<t, v>> : v \in {v \in work.done : FilterKeeps(t, v)}}
        /\ UNCHANGED <<policies, user>>
    BY <1>3 DEF EndWrite, stored
  <2>2. SUFFICES ASSUME user # Superuser, NEW g \in given'.rows, PoliciesFor(g[1])' # {}
                 PROVE  SaysYes(g[1], "select", UsingOf, g[2])'
    BY <2>1 DEF ReadsAreAdmitted
  <2>3. PICK v \in work.done : FilterKeeps(t, v) /\ g = <<t, v>>  BY <2>1, <2>2
  <2>4. PoliciesFor(t) # {}  BY <2>1, <2>2, <2>3 DEF PoliciesFor
  <2>6. SaysYes(t, "select", UsingOf, v)  BY <2>2, <2>3, <2>4, KeptIsAdmitted
  <2> QED  BY <2>1, <2>3, <2>6 DEF SaysYes, UsingOf
<1>4. ASSUME NEW k \in Keys, WritesRow(k)  PROVE given' = Nothing
  <2>1. PICK a : Done(k, a)  BY <1>4, WritesRowStep
  <2>2. work # Idle  BY <1>4, WritesRowStep DEF Idle
  <2> QED  BY <1>0, <2>1, <2>2 DEF Done, WorkOK
<1>5. Catalogs1 \/ Begins \/ Fail \/ EndBatch => given' = Nothing
  BY DEF Catalogs1, CreateUser, CreateRole, DropUser, DropRole, Grant, Revoke, SetSessionAuth, CreatePolicy,
         DropPolicy, Truncate, Rollback, Fail, EndBatch, Statement, Begins, BeginSelect, BeginChange, BeginInsert
<1>6. ExpandView => given' = Nothing
  BY <1>0 DEF ExpandView, WorkOK, Idle
<1> QED  BY <1>1, <1>2, <1>3, <1>4, <1>5, <1>6 DEF Steps

-----------------------------------------------------------------------------
(* The theorems.                                                           *)

\* The behaviour starts with a catalog of CREATE and GRANT statements.
LEMMA Initially == Init => IInv
<1> SUFFICES ASSUME Init  PROVE IInv
  OBVIOUS
<1>1. PICK c \in Catalogs :
        /\ accounts = c.accounts /\ grants = c.grants /\ policies = c.policies
        /\ views = c.views /\ rows = c.rows
        /\ told = Rights(c.grants)
  BY DEF Init, Rights
<1>2. CatalogOK(c.accounts, c.grants, c.policies, c.rows)  BY AccessAssumption
<1>3. CatalogOK(accounts, grants, policies, rows)  BY <1>1, <1>2
<1>4. user \in Accounts \cup {Superuser} /\ work = Idle /\ given = Nothing
      /\ saved = <<accounts, grants, policies, views, rows, told>>
  BY DEF Init, stored
<1>5. TypeOK  BY <1>3, <1>4 DEF TypeOK, Idle
<1>6. RightsAsTold  BY <1>1 DEF RightsAsTold, Rights
<1>7. ReadsAreAdmitted  BY <1>4 DEF ReadsAreAdmitted, Nothing
<1>8. SavedOK
  <2>1. /\ saved[1] = accounts /\ saved[2] = grants /\ saved[3] = policies /\ saved[4] = views
        /\ saved[5] = rows /\ saved[6] = told
    BY <1>4
  <2> QED  BY <1>1, <1>3, <1>4, <2>1 DEF SavedOK
<1>9. WorkOK  BY <1>4 DEF WorkOK, Idle
<1> QED  BY <1>5, <1>6, <1>7, <1>8, <1>9 DEF IInv

\* The invariant is kept by every step, stuttering included.
LEMMA Inductive == IInv /\ [Next]_vars => IInv'
<1> SUFFICES ASSUME IInv, [Next]_vars  PROVE IInv'
  OBVIOUS
<1>1. CASE Next
  <2>1. Steps  BY <1>1, Shapes
  <2>2. CatalogOK(accounts, grants, policies, rows)' /\ RightsAsTold'  BY <2>1, CatalogStep
  <2>3. SavedOK'  BY <2>1, SavedStep
  <2>4. /\ WorkOK' /\ work'.kind \in {"idle", "select", "insert", "update", "delete"}
        /\ user' \in Accounts \cup {Superuser}
    BY <2>1, StatementStep
  <2>5. ReadsAreAdmitted'  BY <2>1, ReadsStep
  <2>6. TypeOK'  BY <2>2, <2>4 DEF TypeOK
  <2> QED  BY <2>2, <2>3, <2>4, <2>5, <2>6 DEF IInv
<1>2. CASE UNCHANGED vars
  <2>1. UNCHANGED <<accounts, grants, policies, views, rows, told, user, work, given, saved>>  BY <1>2 DEF vars, stored
  <2>2. TypeOK'  BY <2>1 DEF IInv, TypeOK, CatalogOK
  <2>3. RightsAsTold'  BY <2>1 DEF IInv, RightsAsTold
  <2>4. ReadsAreAdmitted'  BY <2>1 DEF IInv, ReadsAreAdmitted, PoliciesFor, SaysYes, UsingOf
  <2>5. SavedOK'  BY <2>1 DEF IInv, SavedOK
  <2>6. WorkOK'
    BY <2>1 DEF IInv, WorkOK, Allowed, GrantOf, RlsVerdict, Governed, RlsFails, Applicable, PoliciesFor
  <2> QED  BY <2>2, <2>3, <2>4, <2>5, <2>6 DEF IInv
<1> QED  BY <1>1, <1>2

\* Every state of every behaviour has the invariant: catalogs are well formed,
\* rights are as told, reads are admitted, statements under way were allowed.
THEOREM Invariance == Spec => []IInv
BY Initially, Inductive, PTL DEF Spec

\* A session is given only rows that a policy of the moment admits for it, and
\* a grantee's rights are those granted and not revoked, across rollbacks
\* (do_grant, do_revoke, rls_effective_where, filter_rows_by_select_policies).
THEOREM ReadsHold == Spec => []ReadsFollowGrants
<1>1. IInv => ReadsFollowGrants  BY DEF IInv, ReadsFollowGrants
<1> QED  BY <1>1, Invariance, PTL

\* The WHERE that policies add and the filter over rows in memory keep the
\* same rows, unless a policy cannot be evaluated
\* (build_rls_where, filter_rows_by_select_policies).
THEOREM PathsHold == Spec => []PathsAgree
<1>1. ASSUME IInv  PROVE PathsAgree
  <2> SUFFICES ASSUME NEW t \in Tables, NEW v \in Values, ~RlsFails(t, "select"), RlsVerdict(t, "select", v) # "error"
               PROVE  (RlsVerdict(t, "select", v) = "true") = FilterKeeps(t, v)
    BY DEF PathsAgree
  <2> DEFINE ps == Applicable(t, "select")
  <2>1. CASE ~Governed(t)
    BY <2>1 DEF RlsVerdict, FilterKeeps
  <2>2. CASE Governed(t)
    <3>1. \A p \in ps : p.using # NoText  BY <2>2 DEF RlsFails
    <3>2. RlsVerdict(t, "select", v) = AnyOf(ps, v)  BY <2>2 DEF RlsVerdict
    <3>3. FilterKeeps(t, v) <=> \E p \in ps : p.using[v] = "true"  BY <2>2, <3>1 DEF FilterKeeps
    <3>4. /\ AnyOf(ps, v) = "true" => \E p \in ps : p.using[v] = "true"
          /\ (\E p \in ps : p.using[v] = "true") => AnyOf(ps, v) \in {"true", "error"}
      <4>1. ps \in SUBSET policies  BY ApplicableHere
      <4>2. \A p \in policies : p.name \in PolicyNames  BY <1>1 DEF IInv, TypeOK, CatalogOK
      <4> QED  BY <4>1, <4>2, AnyOfSaysTrue
    <3>5. RlsVerdict(t, "select", v) = "true" <=> FilterKeeps(t, v)
      <4> HIDE DEF ps
      <4> QED  BY <3>2, <3>3, <3>4
    <3>6. FilterKeeps(t, v) \in BOOLEAN  BY DEF FilterKeeps
    <3> QED  BY <3>5, <3>6
  <2> QED  BY <2>1, <2>2
<1> QED  BY <1>1, Invariance, PTL

\* A row action of a user changes only a row that his rights and the policies
\* let it change, to one they admit.
LEMMA RowIsAdmitted ==
  ASSUME IInv, NEW k \in Keys, WritesRow(k), NEW t \in Tables
  PROVE  ChangeIsAdmitted(t)
<1> SUFFICES ASSUME rows'[t] # rows[t], user # Superuser
             PROVE  /\ work.kind \in GrantOf(user, t) \cup GrantOf(Public, t)
                    /\ \A j \in Keys : PoliciesFor(t) # {} =>
                         /\ j \in DOMAIN rows[t] \ DOMAIN rows'[t] => SaysYes(t, "delete", UsingOf, rows[t][j])
                         /\ j \in DOMAIN rows'[t] \ DOMAIN rows[t] => SaysYes(t, "insert", CheckOf, rows'[t][j])
                         /\ j \in DOMAIN rows[t] \cap DOMAIN rows'[t] /\ rows[t][j] # rows'[t][j] =>
                              IF work.kind = "insert" THEN SaysYes(t, "insert", CheckOf, rows'[t][j])
                              ELSE SaysYes(t, "update", UsingOf, rows[t][j]) /\ SaysYes(t, "update", NewOf, rows'[t][j])
  BY DEF ChangeIsAdmitted
<1>0. /\ RowDone(k) /\ work.kind \in {"insert", "update", "delete"} /\ k \in work.todo
      /\ WorkOK /\ CatalogOK(accounts, grants, policies, rows)
  BY WritesRowStep DEF IInv, TypeOK
<1>1. t = work.table  BY <1>0 DEF RowDone
<1>2. work.kind \in GrantOf(user, t) \cup GrantOf(Public, t)
  <2>1. Allowed(t, work.kind)  BY <1>0, <1>1 DEF WorkOK
  <2> QED  BY <2>1 DEF Allowed
<1>3. ASSUME NEW j \in Keys, PoliciesFor(t) # {}
      PROVE  /\ j \in DOMAIN rows[t] \ DOMAIN rows'[t] => SaysYes(t, "delete", UsingOf, rows[t][j])
             /\ j \in DOMAIN rows'[t] \ DOMAIN rows[t] => SaysYes(t, "insert", CheckOf, rows'[t][j])
             /\ j \in DOMAIN rows[t] \cap DOMAIN rows'[t] /\ rows[t][j] # rows'[t][j] =>
                  IF work.kind = "insert" THEN SaysYes(t, "insert", CheckOf, rows'[t][j])
                  ELSE SaysYes(t, "update", UsingOf, rows[t][j]) /\ SaysYes(t, "update", NewOf, rows'[t][j])
  <2>1. CASE DeleteRow(k) /\ DOMAIN rows'[t] = DOMAIN rows[t] \ {k} /\ \A i \in DOMAIN rows'[t] : rows'[t][i] = rows[t][i]
    <3>1. work.kind = "delete"  BY <2>1 DEF DeleteRow, Writing
    <3>2. RlsVerdict(t, "delete", rows[t][k]) = "true"  BY <1>0, <1>1, <3>1 DEF WorkOK
    <3>3. SaysYes(t, "delete", UsingOf, rows[t][k])  BY <1>0, <1>3, <3>2, ReachedIsAdmitted
    <3> QED  BY <2>1, <3>3
  <2>2. CASE /\ InsertRow(k) \/ Upsert(k) \/ UpdateRow(k)
             /\ DOMAIN rows'[t] = DOMAIN rows[t] \cup {k}
             /\ rows'[t][k] = work.value
             /\ \A i \in DOMAIN rows[t] \ {k} : rows'[t][i] = rows[t][i]
    <3>1. CASE InsertRow(k) \/ Upsert(k)
      <4>1. work.kind = "insert" /\ WithCheck(t, "insert", work.value)
        BY <1>1, <3>1 DEF InsertRow, Upsert, Writing
      <4>2. SaysYes(t, "insert", CheckOf, work.value)  BY <1>3, <4>1, CheckedIsAdmitted
      <4> QED  BY <2>2, <4>1, <4>2
    <3>2. CASE UpdateRow(k)
      <4>1. work.kind = "update" /\ k \in DOMAIN rows[t] /\ WithCheck(t, "update", work.value)
        BY <1>1, <3>2 DEF UpdateRow, Writing, Taken
      <4>2. RlsVerdict(t, "update", rows[t][k]) = "true"  BY <1>0, <1>1, <4>1 DEF WorkOK
      <4>3. SaysYes(t, "update", UsingOf, rows[t][k])  BY <1>0, <1>3, <4>2, ReachedIsAdmitted
      <4>4. SaysYes(t, "update", NewOf, work.value)  BY <1>3, <4>1, CheckedIsAdmitted
      <4> QED  BY <2>2, <4>1, <4>3, <4>4
    <3> QED  BY <2>2, <3>1, <3>2
  <2> QED  BY <1>0, <1>1, <2>1, <2>2 DEF RowDone
<1> QED  BY <1>2, <1>3

\* INSERT, UPDATE and DELETE of a user change a row only with the privilege, and
\* only one that policies admit, to one that policies admit: the statement's
\* check at its begin is still good at its last row
\* (check_priv, rls_effective_where, enforce_with_check).
THEOREM ChangesHold == Spec => ChangesAreAdmitted
<1>1. ASSUME IInv, [Next]_vars  PROVE [\A t \in Tables : ChangeIsAdmitted(t)]_vars
  <2> SUFFICES ASSUME Next, NEW t \in Tables  PROVE ChangeIsAdmitted(t)
    BY <1>1
  <2>1. Steps  BY Shapes
  <2>2. ASSUME NEW k \in Keys, WritesRow(k)  PROVE ChangeIsAdmitted(t)
    BY <1>1, <2>2, RowIsAdmitted
  <2>3. CASE Begins \/ ExpandView
    <3>1. rows' = rows
      BY <2>3 DEF Begins, BeginSelect, BeginChange, BeginInsert, ExpandView, stored
    <3> QED  BY <3>1 DEF ChangeIsAdmitted
  <2>4. CASE Catalogs1 \/ Fail \/ ReadTable \/ EndWrite \/ EndBatch
    <3>1. work' = Idle
      BY <2>4 DEF Catalogs1, CreateUser, CreateRole, DropUser, DropRole, OnlyAccounts, Grant, Revoke, SetSessionAuth, CreatePolicy,
           DropPolicy, Truncate, Rollback, Fail, ReadTable, EndWrite, EndBatch, Statement
    <3> QED  BY <3>1 DEF ChangeIsAdmitted, Idle
  <2> QED  BY <2>1, <2>2, <2>3, <2>4 DEF Steps
<1> QED  BY <1>1, Invariance, PTL DEF Spec, ChangesAreAdmitted
=============================================================================
