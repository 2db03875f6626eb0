---------------------------- MODULE MCFlatReads ----------------------------
(* Two requests for at most two products of the entity table and one more. *)
EXTENDS FlatReads, TLC

OneTable  == <<"stock">>
MCIdLists == {<<2, 1, 2>>, <<3, 2>>}
Repeated  == {<<1, 1>>, <<2, 1>>}
MCLimits  == {0, 1}
NoLimit   == {0}
Symmetric == Permutations(Request)
=============================================================================
