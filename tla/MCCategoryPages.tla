-------------------------- MODULE MCCategoryPages --------------------------
(* The root, the default category and two below it, two without a name, of   *)
(* which the last is the one the pages are of.                               *)
EXTENDS CategoryPages, TLC

CONSTANT a

Shop == <<[parent_id |-> 0, path |-> <<1>>, name |-> NoName],
          [parent_id |-> 1, path |-> <<1, 2>>, name |-> a],
          [parent_id |-> 2, path |-> <<1, 2, 3>>, name |-> a],
          [parent_id |-> 3, path |-> <<1, 2, 3, 4>>, name |-> NoName]>>

MCName    == {a}
MCIdLists == {<<3>>}
MCUidFilters == {{{3, 9}}}
MCPageIds == {4}
Symmetric == Permutations(Request)
=============================================================================
