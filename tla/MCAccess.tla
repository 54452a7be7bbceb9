------------------------------ MODULE MCAccess ------------------------------
(* Access for TLC: a user, a role, two keys and two values, policies of every *)
(* action for everybody or for the user, and a predicate that cannot be       *)
(* evaluated; catalogs with up to two policies on a table of up to two rows.  *)
EXTENDS Access

CONSTANTS u, r, t, v, w, a, b

IsA == (a :> "true" @@ b :> "false")
IsB == (a :> "unknown" @@ b :> "true")
Bad == (a :> "error" @@ b :> "error")

MCPredicates == {IsA, IsB, Bad}

P(action, roles, using, check) == [table |-> t, action |-> action, roles |-> roles, using |-> using, check |-> check]

MCTemplates == {P("all", {}, IsA, NoText), P("all", {}, NoText, IsB), P("select", {u}, IsB, NoText),
                P("select", {}, Bad, NoText), P("insert", {u}, NoText, IsA), P("update", {}, IsA, IsB),
                P("delete", {r}, IsA, NoText), P("delete", {u}, IsB, NoText)}

MCPrivLists == {{"select"}, {"insert", "update"}, Privs}

Named == {{[name |-> 1] @@ p, [name |-> 2] @@ q} : p, q \in MCTemplates} \cup {{}}

MCAccounts == (u :> "user" @@ r :> "role")

MCGrants == {(<<u, t>> :> Privs @@ <<Public, v>> :> {"select"}), (<<u, t>> :> {"select", "insert"} @@ <<Public, t>> :> {"update"})}

MCCatalogs == [accounts : {MCAccounts}, grants : MCGrants, policies : Named, views : {(v :> t @@ w :> v)},
               rows : {(t :> (1 :> a @@ 2 :> b))}]
CyclicCatalogs == [accounts : {MCAccounts}, grants : MCGrants, policies : {{}}, views : {(v :> w @@ w :> v)},
                   rows : {(t :> <<>>)}]
=============================================================================
