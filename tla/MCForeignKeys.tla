--------------------------- MODULE MCForeignKeys ---------------------------
(***************************************************************************)
(* Two tables that reference each other and themselves, with two keys      *)
(* each: cycles of foreign keys, two ways from one row to another, indexed *)
(* and unindexed columns, UNIQUE, NOT NULL and CHECK.                      *)
(***************************************************************************)
EXTENDS ForeignKeys

CONSTANTS a, b

Fk(t, parent, del, upd, ix, uniq, chk) ==
  [table |-> t, parent |-> parent, on_delete |-> del, on_update |-> upd,
   index |-> ix, unique |-> uniq, check |-> chk, default |-> NULL]

MCPks == 1..2

\* a and b reference each other, and b itself: the cascade of a delete comes
\* back to where it began.
Cycle ==
  <<Fk(a, b, "CASCADE", "CASCADE", TRUE, FALSE, Vals),
    Fk(b, a, "SET NULL", "CASCADE", TRUE, TRUE, Vals),
    Fk(b, b, "CASCADE", "SET NULL", FALSE, FALSE, Vals)>>

\* Rows of b reference a twice, once not NULL; a is a tree.
Diamond ==
  <<Fk(a, a, "CASCADE", "CASCADE", TRUE, FALSE, Vals),
    Fk(b, a, "SET DEFAULT", "SET DEFAULT", TRUE, FALSE, Vals),
    Fk(b, a, "CASCADE", "CASCADE", TRUE, FALSE, Pks)>>

\* A cascade that CHECK may refuse, one that NOT NULL does, and RESTRICT.
Guarded ==
  <<Fk(a, b, "CASCADE", "CASCADE", TRUE, TRUE, {1, NULL}),
    Fk(b, a, "SET NULL", "SET NULL", TRUE, FALSE, Pks),
    Fk(b, b, "RESTRICT", "RESTRICT", FALSE, FALSE, Vals)>>

\* A tree whose rows may be their own parents.
Tree == <<Fk(a, a, "CASCADE", "CASCADE", TRUE, FALSE, Vals)>>

MCTree == {Tree}
MCSchemas == {Cycle, Diamond, Guarded}
=============================================================================
