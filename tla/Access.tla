------------------------------- MODULE Access -------------------------------
(***************************************************************************)
(* Who may do what: users, roles, grants, session authorization and        *)
(* row-level policies, and the statements they govern, a row at a time.    *)
(* Policies are asked in two ways by the code: as a WHERE that is added to *)
(* the statement, and as a filter over rows in memory.  A table has one    *)
(* column besides its key; a predicate is what it evaluates to on each     *)
(* value of that column.                                                   *)
(***************************************************************************)
EXTENDS Integers, Functions, TLC

CONSTANTS
  Accounts,        \* names of users and roles
  Public,          \* the grantee everybody is
  Superuser,       \* current_user = None
  Tables, Views,
  Keys, Values,
  Predicates,      \* what USING and WITH CHECK can say
  NoText,          \* an absent USING or WITH CHECK
  Templates,       \* policies CREATE POLICY can make, without their name
  PrivLists,       \* what GRANT and REVOKE can list
  PolicyNames,     \* numbers, in the order in which the catalog lists them
  Catalogs,        \* catalogs a behaviour can start with
  MaxViewDepth,    \* MAX_VIEW_DEPTH
  MaxStatements,   \* bound: statements of a behaviour
  MaxNesting       \* bound: views opened inside one another

Privs == {"select", "insert", "update", "delete", "truncate"}

Objects == Tables \cup Views

\* What the catalog and the tables hold, as far as access goes.
CatalogOK(accts, grnts, pols, rws) ==
  /\ accts \in [Accounts -> {"none", "user", "role"}]
  /\ grnts = [g \in DOMAIN grnts |-> grnts[g]]
  /\ DOMAIN grnts \subseteq (Accounts \cup {Public}) \X Objects
  /\ \A g \in DOMAIN grnts : grnts[g] \in (SUBSET Privs) \ {{}}
  /\ \A p \in pols : p.name \in PolicyNames
  /\ \A p, q \in pols : p.name = q.name /\ p.table = q.table => p = q
  /\ rws = [t \in Tables |-> [k \in DOMAIN rws[t] |-> rws[t][k]]]
  /\ \A t \in Tables : DOMAIN rws[t] \subseteq Keys /\ \A k \in DOMAIN rws[t] : rws[t][k] \in Values

ASSUME AccessAssumption ==
  /\ Public \notin Accounts /\ Superuser \notin Accounts \cup {Public}
  /\ Predicates \subseteq [Values -> {"true", "false", "unknown", "error"}] /\ NoText \notin Predicates
  /\ Values # {} /\ PolicyNames \subseteq Nat /\ MaxViewDepth \in Nat
  /\ PrivLists \subseteq (SUBSET Privs) \ {{}}
  /\ \A p \in Templates : p.using = NoText => p.check # NoText
  /\ \A p \in Templates : p.action = "insert" => p.using = NoText
  /\ \A c \in Catalogs : CatalogOK(c.accounts, c.grants, c.policies, c.rows)

VARIABLES
  accounts,   \* account -> "none", "user" or "role"
  grants,     \* <<grantee, object>> -> its privileges, never none
  policies,   \* the policies, each with its name and table
  views,      \* view -> the table or view it selects from
  rows,       \* table -> key -> value
  user,       \* current_user of the engine
  work,       \* the statement under way
  given,      \* history: the rows the last statement gave back
  told,       \* history: the rights granted and not revoked since
  saved,      \* all of the above that a rollback restores
  count       \* statements so far

stored == <<accounts, grants, policies, views, rows, told>>
vars   == <<stored, user, work, given, saved, count>>

Idle    == [kind |-> "idle"]
Nothing == [rows |-> {}, to |-> Superuser]

Init ==
  /\ \E c \in Catalogs :
       /\ accounts = c.accounts /\ grants = c.grants /\ policies = c.policies
       /\ views = c.views /\ rows = c.rows
       /\ told = UNION {{<<g[1], g[2], p>> : p \in c.grants[g]} : g \in DOMAIN c.grants}
  /\ user \in {Superuser} \cup {a \in Accounts : accounts[a] = "user"}
  /\ work = Idle /\ given = Nothing /\ count = 0
  /\ saved = stored

Statement ==
  /\ work = Idle
  /\ count < MaxStatements
  /\ count' = count + 1
  /\ given' = Nothing

Restored ==
  /\ accounts' = saved[1] /\ grants' = saved[2] /\ policies' = saved[3]
  /\ views' = saved[4] /\ rows' = saved[5] /\ told' = saved[6]

\* A statement that fails ends the batch, unless a handler catches it: then
\* what it has done stays.
Fail ==
  /\ work' = Idle /\ given' = Nothing
  /\ \/ UNCHANGED <<stored, user, saved, count>>
     \/ /\ Restored
        /\ user' = Superuser
        /\ UNCHANGED <<saved, count>>

\* A batch that ends is committed, and its engine goes with it.
EndBatch ==
  /\ work = Idle /\ user # Superuser
  /\ saved' = stored
  /\ user' = Superuser /\ given' = Nothing
  /\ UNCHANGED <<stored, work, count>>

\* ROLLBACK in a batch: the catalog goes back, current_user does not.
Rollback ==
  /\ Statement
  /\ Restored
  /\ UNCHANGED <<user, work, saved>>

(***************************************************************************)
(* Accounts and grants                                                     *)
(***************************************************************************)
OnlyAccounts == UNCHANGED <<grants, policies, views, rows, told, user, work, saved>>

CreateUser(a) ==
  /\ Statement
  /\ accounts[a] = "none"
  /\ accounts' = [accounts EXCEPT ![a] = "user"]
  /\ OnlyAccounts

CreateRole(a) ==
  /\ Statement
  /\ accounts[a] = "none"
  /\ accounts' = [accounts EXCEPT ![a] = "role"]
  /\ OnlyAccounts

\* The account's grants stay behind, and the session's own user can go.
DropUser(a) ==
  /\ Statement
  /\ accounts[a] = "user"
  /\ accounts' = [accounts EXCEPT ![a] = "none"]
  /\ OnlyAccounts

DropRole(a) ==
  /\ Statement
  /\ accounts[a] = "role"
  /\ accounts' = [accounts EXCEPT ![a] = "none"]
  /\ OnlyAccounts

GranteeIsValid(g) == g \in {Public} \cup {a \in Accounts : accounts[a] # "none"}

GrantOf(g, o) == IF <<g, o>> \in DOMAIN grants THEN grants[<<g, o>>] ELSE {}

PutGrant(g, o, privs) ==
  grants' = [x \in DOMAIN grants \cup {<<g, o>>} |-> IF x = <<g, o>> THEN privs ELSE grants[x]]

Grant(g, o, privs) ==
  /\ Statement
  /\ GranteeIsValid(g)
  /\ PutGrant(g, o, GrantOf(g, o) \cup privs)
  /\ told' = told \cup {<<g, o, p>> : p \in privs}
  /\ UNCHANGED <<accounts, policies, views, rows, user, work, saved>>

\* Mutant of Revoke: the record is replaced by what the statement names.
RevokeNamed(g, o, privs) ==
  /\ Statement
  /\ <<g, o>> \in DOMAIN grants
  /\ IF GrantOf(g, o) \subseteq privs
     THEN grants' = Restrict(grants, DOMAIN grants \ {<<g, o>>})
     ELSE PutGrant(g, o, privs)
  /\ told' = told \ {<<g, o, p>> : p \in privs}
  /\ UNCHANGED <<accounts, policies, views, rows, user, work, saved>>

\* Mutant of Revoke: the record stays when its last privilege goes.
RevokeKeepsRecord(g, o, privs) ==
  /\ Statement
  /\ IF <<g, o>> \in DOMAIN grants THEN PutGrant(g, o, GrantOf(g, o) \ privs) ELSE UNCHANGED grants
  /\ told' = told \ {<<g, o, p>> : p \in privs}
  /\ UNCHANGED <<accounts, policies, views, rows, user, work, saved>>

\* A record without privileges is removed; without a record nothing is done.
Revoke(g, o, privs) ==
  /\ Statement
  /\ LET left == GrantOf(g, o) \ privs IN
     IF left = {} THEN grants' = Restrict(grants, DOMAIN grants \ {<<g, o>>})
                  ELSE PutGrant(g, o, left)
  /\ told' = told \ {<<g, o, p>> : p \in privs}
  /\ UNCHANGED <<accounts, policies, views, rows, user, work, saved>>

\* With or without a password; one that does not match is an error.
SetSessionAuth(u) ==
  /\ Statement
  /\ u \in {Superuser} \cup {a \in Accounts : accounts[a] = "user"}
  /\ user' = u
  /\ UNCHANGED <<stored, work, saved>>

\* check_priv
Allowed(o, p) == user = Superuser \/ p \in GrantOf(user, o) \cup GrantOf(Public, o)

(***************************************************************************)
(* Policies                                                                *)
(***************************************************************************)
CreatePolicy(n, p) ==
  /\ Statement
  /\ \A q \in policies : ~(q.name = n /\ q.table = p.table)
  /\ policies' = policies \cup {[name |-> n, table |-> p.table, action |-> p.action, roles |-> p.roles,
                                 using |-> p.using, check |-> p.check]}
  /\ UNCHANGED <<accounts, grants, views, rows, told, user, work, saved>>

DropPolicy(n, t) ==
  /\ Statement
  /\ \E q \in policies : q.name = n /\ q.table = t
  /\ policies' = {q \in policies : ~(q.name = n /\ q.table = t)}
  /\ UNCHANGED <<accounts, grants, views, rows, told, user, work, saved>>

PoliciesFor(t) == {p \in policies : p.table = t}

Governed(t) == user # Superuser /\ PoliciesFor(t) # {}

Applicable(t, action) ==
  {p \in PoliciesFor(t) : p.action \in {"all", action} /\ (p.roles = {} \/ user \in p.roles)}

\* OR over policies in the order of their names: the first that is true or
\* cannot be evaluated decides, and none after it is looked at.
Deciding(ps, v) == {p \in ps : p.using[v] \in {"true", "error"}}
AnyOf(ps, v) ==
  IF Deciding(ps, v) # {}
  THEN (CHOOSE p \in Deciding(ps, v) : \A q \in Deciding(ps, v) : p.name <= q.name).using[v]
  ELSE IF \E p \in ps : p.using[v] = "unknown" THEN "unknown" ELSE "false"

\* build_rls_where fails on a policy that has no USING text to parse.
RlsFails(t, action) == Governed(t) /\ \E p \in Applicable(t, action) : p.using = NoText

\* Mutant of RlsVerdict: a table whose policies are for others is open.
RlsVerdictOpen(t, action, v) ==
  IF ~Governed(t) \/ Applicable(t, action) = {} THEN "true"
  ELSE IF RlsFails(t, action) THEN "error"
  ELSE AnyOf(Applicable(t, action), v)

\* What the added WHERE says of a row with value v.
RlsVerdict(t, action, v) ==
  IF ~Governed(t) THEN "true"
  ELSE IF RlsFails(t, action) THEN "error"
  ELSE AnyOf(Applicable(t, action), v)

\* The keys of K whose rows the statement reaches, and whether one of them
\* makes it fail.
Reached(t, action, K)   == {k \in K \cap DOMAIN rows[t] : RlsVerdict(t, action, rows[t][k]) = "true"}
ReachFails(t, action, K) ==
  \/ RlsFails(t, action)
  \/ \E k \in K \cap DOMAIN rows[t] : RlsVerdict(t, action, rows[t][k]) = "error"

\* filter_rows_by_select_policies: an error is not a yes.
FilterKeeps(t, v) ==
  ~Governed(t) \/ \E p \in Applicable(t, "select") : p.using # NoText /\ p.using[v] = "true"

CheckText(p, action) ==
  IF p.check # NoText THEN p.check ELSE IF action = "insert" THEN NoText ELSE p.using

\* Mutant of WithCheck: INSERT too falls back on USING.
WithCheckByUsing(t, action, v) ==
  Governed(t) => \E p \in Applicable(t, action) :
    LET text == IF p.check # NoText THEN p.check ELSE p.using IN text # NoText /\ text[v] = "true"

\* enforce_with_check
WithCheck(t, action, v) ==
  Governed(t) => \E p \in Applicable(t, action) :
    CheckText(p, action) # NoText /\ CheckText(p, action)[v] = "true"

(***************************************************************************)
(* SELECT                                                                  *)
(***************************************************************************)
\* JOIN right: its privilege is asked for, its policies are not; what it adds
\* to the rows is left out.
BeginSelect(o, K, right) ==
  /\ Statement
  /\ Allowed(o, "select")
  /\ right = NoText \/ Allowed(right, "select")
  /\ work' = [kind |-> "select", object |-> o, keys |-> K, right |-> right, nesting |-> 0]
  /\ UNCHANGED <<stored, user, saved>>

\* view_expansion_depth is raised and lowered again before the SELECT inside
\* the view begins.
ViewExpansionDepth == 0

ExpandView ==
  /\ work.kind = "select" /\ work.object \in Views
  /\ ViewExpansionDepth < MaxViewDepth
  /\ Allowed(views[work.object], "select")
  /\ work.nesting < MaxNesting
  /\ work' = [work EXCEPT !.object = views[@], !.nesting = @ + 1]
  /\ UNCHANGED <<stored, user, given, saved, count>>

RefuseView ==
  /\ work.kind = "select" /\ work.object \in Views
  /\ ViewExpansionDepth >= MaxViewDepth \/ ~Allowed(views[work.object], "select")
  /\ Fail

ReadTable ==
  LET table == work.object
      seen  == {<<table, rows[table][k]>> : k \in Reached(table, "select", work.keys)}
  IN /\ work.kind = "select" /\ table \in Tables
     /\ ~ReachFails(table, "select", work.keys)
     /\ given' = [rows |-> seen, to |-> user]
     /\ work' = Idle
     /\ UNCHANGED <<stored, user, saved, count>>

FailRead ==
  /\ work.kind = "select" /\ work.object \in Tables
  /\ ReachFails(work.object, "select", work.keys)
  /\ Fail

(***************************************************************************)
(* INSERT, UPDATE, DELETE, TRUNCATE                                        *)
(***************************************************************************)
\* The rows of VALUES, in whatever order; mode: what ON CONFLICT says, "none",
\* "nothing", "update" or "replace".
BeginInsert(t, K, v, mode, returning) ==
  /\ Statement
  /\ Allowed(t, "insert")
  /\ work' = [kind |-> "insert", table |-> t, todo |-> K, value |-> v, mode |-> mode,
              returning |-> returning, done |-> {}]
  /\ UNCHANGED <<stored, user, saved>>

\* UPDATE and DELETE find their rows before they change the first; in which
\* order is the access path's choice.
BeginChange(kind, t, K, v, returning) ==
  /\ Statement
  /\ Allowed(t, kind)
  /\ ~ReachFails(t, kind, K)
  /\ work' = [kind |-> kind, table |-> t, todo |-> Reached(t, kind, K), value |-> v,
              mode |-> "none", returning |-> returning, done |-> {}]
  /\ UNCHANGED <<stored, user, saved>>

\* The statement's next row is the one with key k.
Writing(kind, k) == work.kind = kind /\ k \in work.todo
Taken(k) == k \in DOMAIN rows[work.table]

SetRow(k, v) ==
  rows' = [rows EXCEPT ![work.table] = [j \in DOMAIN @ \cup {k} |-> IF j = k THEN v ELSE rows[work.table][j]]]

\* The row is done; affected is what RETURNING will look at.
Done(k, affected) ==
  /\ work' = [work EXCEPT !.todo = @ \ {k}, !.done = @ \cup affected]
  /\ UNCHANGED <<accounts, grants, policies, views, told, user, given, saved, count>>

InsertRow(k) ==
  /\ Writing("insert", k)
  /\ WithCheck(work.table, "insert", work.value)
  /\ ~Taken(k) \/ work.mode = "replace"
  /\ SetRow(k, work.value)
  /\ Done(k, {work.value})

SkipRow(k) ==
  /\ Writing("insert", k)
  /\ WithCheck(work.table, "insert", work.value)
  /\ Taken(k) /\ work.mode = "nothing"
  /\ UNCHANGED rows
  /\ Done(k, {})

\* ON CONFLICT DO UPDATE asks for WITH CHECK of UPDATE, and neither for the
\* privilege nor for USING.
Upsert(k) ==
  /\ Writing("insert", k)
  /\ WithCheck(work.table, "insert", work.value)
  /\ Taken(k) /\ work.mode = "update"
  /\ WithCheck(work.table, "update", work.value)
  /\ SetRow(k, work.value)
  /\ Done(k, {work.value})

UpdateRow(k) ==
  /\ Writing("update", k) /\ Taken(k)
  /\ WithCheck(work.table, "update", work.value)
  /\ SetRow(k, work.value)
  /\ Done(k, {work.value})

DeleteRow(k) ==
  /\ Writing("delete", k) /\ Taken(k)
  /\ rows' = [rows EXCEPT ![work.table] = [j \in DOMAIN @ \ {k} |-> rows[work.table][j]]]
  /\ Done(k, {rows[work.table][k]})

\* A row is refused: earlier rows of the statement are already written.
RefuseRow(k) ==
  /\ \/ Writing("insert", k) /\ ~WithCheck(work.table, "insert", work.value)
     \/ Writing("insert", k) /\ Taken(k) /\ work.mode = "none"
     \/ Writing("insert", k) /\ Taken(k) /\ work.mode = "update" /\ ~WithCheck(work.table, "update", work.value)
     \/ Writing("update", k) /\ ~WithCheck(work.table, "update", work.value)
  /\ Fail

\* Mutant of EndWrite: RETURNING gives back what was written, unfiltered.
EndWriteUnfiltered ==
  /\ work.kind \in {"insert", "update", "delete"} /\ work.todo = {}
  /\ given' = [rows |-> {<<work.table, v>> : v \in work.done}, to |-> user]
  /\ work' = Idle
  /\ UNCHANGED <<stored, user, saved, count>>

EndWrite ==
  /\ work.kind \in {"insert", "update", "delete"} /\ work.todo = {}
  /\ given' = IF work.returning
              THEN [rows |-> {<<work.table, v>> : v \in {v \in work.done : FilterKeeps(work.table, v)}}, to |-> user]
              ELSE Nothing
  /\ work' = Idle
  /\ UNCHANGED <<stored, user, saved, count>>

\* TRUNCATE asks for its privilege and for no policy.
Truncate(t) ==
  /\ Statement
  /\ Allowed(t, "truncate")
  /\ rows' = [rows EXCEPT ![t] = <<>>]
  /\ work' = Idle
  /\ UNCHANGED <<accounts, grants, policies, views, told, user, saved>>

Next ==
  \/ \E a \in Accounts : CreateUser(a) \/ CreateRole(a) \/ DropUser(a) \/ DropRole(a)
  \/ \E g \in Accounts \cup {Public}, o \in Objects, privs \in PrivLists : Grant(g, o, privs) \/ Revoke(g, o, privs)
  \/ \E u \in Accounts \cup {Superuser} : SetSessionAuth(u)
  \/ \E n \in PolicyNames : (\E p \in Templates : CreatePolicy(n, p)) \/ \E t \in Tables : DropPolicy(n, t)
  \/ \E K \in (SUBSET Keys) \ {{}} :
       \/ \E o \in Objects, right \in Tables \cup {NoText} : BeginSelect(o, K, right)
       \/ \E t \in Tables, v \in Values, r \in BOOLEAN : BeginChange("update", t, K, v, r)
       \/ \E t \in Tables, v \in Values, r \in BOOLEAN, m \in {"none", "nothing", "update", "replace"} :
            BeginInsert(t, K, v, m, r)
       \/ \E t \in Tables, v \in {CHOOSE v \in Values : TRUE}, r \in BOOLEAN : BeginChange("delete", t, K, v, r)
  \/ \E t \in Tables : Truncate(t)
  \/ ExpandView \/ RefuseView \/ ReadTable \/ FailRead
  \/ \E k \in Keys : InsertRow(k) \/ SkipRow(k) \/ Upsert(k) \/ UpdateRow(k) \/ DeleteRow(k) \/ RefuseRow(k)
  \/ EndWrite
  \/ Rollback \/ EndBatch

Spec == Init /\ [][Next]_vars

(***************************************************************************)
(* Properties                                                              *)
(***************************************************************************)
TypeOK ==
  /\ CatalogOK(accounts, grants, policies, rows)
  /\ user \in Accounts \cup {Superuser}
  /\ work.kind \in {"idle", "select", "insert", "update", "delete"}

\* After any GRANT, REVOKE, DROP and rollback a grantee has exactly the rights
\* that were granted and not revoked, whatever records they are merged in.
RightsAsTold == told = UNION {{<<g[1], g[2], p>> : p \in grants[g]} : g \in DOMAIN grants}

\* A policy of t lets the session's user do action with value v, as the
\* documentation of CREATE POLICY has it: one policy that says yes is enough.
SaysYes(t, action, text(_), v) ==
  \E p \in policies :
    /\ p.table = t /\ p.action \in {"all", action}
    /\ p.roles = {} \/ user \in p.roles
    /\ text(p) # NoText /\ text(p)[v] = "true"

UsingOf(p) == p.using
CheckOf(p) == p.check
NewOf(p)   == IF p.check = NoText THEN p.using ELSE p.check

\* Whatever the statement and its outcome, a row changes only if the user has
\* the privilege and policies admit what it was and what it becomes; a row that
\* fails leaves behind only rows that were admitted.  What it was is not asked
\* when INSERT meets it as a conflict.
ChangeIsAdmitted(t) ==
  rows'[t] # rows[t] /\ user # Superuser /\ work'.kind \in {"insert", "update", "delete"} =>
    /\ work.kind \in GrantOf(user, t) \cup GrantOf(Public, t)
    /\ \A k \in Keys : PoliciesFor(t) # {} =>
         /\ k \in DOMAIN rows[t] \ DOMAIN rows'[t] => SaysYes(t, "delete", UsingOf, rows[t][k])
         /\ k \in DOMAIN rows'[t] \ DOMAIN rows[t] => SaysYes(t, "insert", CheckOf, rows'[t][k])
         /\ k \in DOMAIN rows[t] \cap DOMAIN rows'[t] /\ rows[t][k] # rows'[t][k] =>
              IF work.kind = "insert" THEN SaysYes(t, "insert", CheckOf, rows'[t][k])
              ELSE SaysYes(t, "update", UsingOf, rows[t][k]) /\ SaysYes(t, "update", NewOf, rows'[t][k])

ChangesAreAdmitted == [][\A t \in Tables : ChangeIsAdmitted(t)]_vars

\* SELECT, through any views, and RETURNING give a user only rows that a policy
\* for SELECT admits, by the policies at the time.
ReadsAreAdmitted ==
  given.to = user /\ user # Superuser =>
    \A g \in given.rows : PoliciesFor(g[1]) # {} => SaysYes(g[1], "select", UsingOf, g[2])

\* The two ways of asking agree: unless it fails, SELECT shows a row exactly
\* if RETURNING would.
PathsAgree ==
  \A t \in Tables : \A v \in Values :
    ~RlsFails(t, "select") /\ RlsVerdict(t, "select", v) # "error"
      => (RlsVerdict(t, "select", v) = "true") = FilterKeeps(t, v)

\* Views that select from one another are given up after MAX_VIEW_DEPTH
\* (docs/SQL_REFERENCE.md:646).
NestingBounded == work.kind = "select" => work.nesting <= MaxViewDepth

\* Nobody reads what grants and policies keep from him, and those are the grants
\* that were made and not taken back.
ReadsFollowGrants == TypeOK /\ RightsAsTold /\ ReadsAreAdmitted
=============================================================================
