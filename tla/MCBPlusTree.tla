---------------------------- MODULE MCBPlusTree ----------------------------
(***************************************************************************)
(* Model-checking instances of BPlusTree.  A leaf holds two small entries  *)
(* or one large one, and an internal node two separators, so that a few    *)
(* keys make a tree of three levels.  The third value fits no page.        *)
(***************************************************************************)
EXTENDS BPlusTree

SizeOf == [v \in Values |-> CASE v = "small" -> 1 [] v = "large" -> 2 [] v = "huge" -> 3]
=============================================================================
