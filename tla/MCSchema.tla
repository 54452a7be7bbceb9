------------------------------ MODULE MCSchema ------------------------------
(* Schema for TLC: three names, three columns, two keys; tables with a key      *)
(* alone, a plain, a unique or a referencing column, and columns that add a   *)
(* default, a uniqueness or a reference to rows already there.                *)
EXTENDS Schema

CONSTANTS p, k, a, b

Col(name, default, notNull, unique, fk) ==
  [name |-> name, notNull |-> notNull, default |-> default, unique |-> unique, fk |-> fk]

To(n) == [table |-> n, column |-> k]

MCShapes == {<<Col(k, Null, TRUE, FALSE, NoFk)>>,
             <<Col(k, Null, TRUE, FALSE, NoFk), Col(a, Null, FALSE, TRUE, NoFk)>>,
             <<Col(k, Null, TRUE, FALSE, NoFk), Col(a, Null, FALSE, FALSE, To(p))>>}

MCAdditions == {Col(b, 1, FALSE, FALSE, NoFk), Col(a, 0, TRUE, FALSE, NoFk),
                Col(b, Null, FALSE, TRUE, NoFk), Col(b, 1, FALSE, FALSE, To(p))}
=============================================================================
