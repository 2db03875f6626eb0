------------------------- MODULE MCCategoryImport -------------------------
(* Two imports of paths of one or two segments. *)
EXTENDS CategoryImport, TLC

CONSTANTS i1, i2

To(product, path) == [product |-> product, path |-> path]

MCImport == {i1, i2}

\* Two paths with one leaf name, in either order of their parents, one of
\* them twice, and one that ends where another goes on.
MCAssignments ==
    i1 :> <<To("p", <<"A", "B">>), To("p", <<"B", "B">>), To("p", <<"B">>)>> @@
    i2 :> <<To("q", <<"B", "B">>), To("q", <<"A", "B">>), To("r", <<"B", "B">>)>>

NewRoot(count) == [RootCategory EXCEPT !.count = count]
Named(id, name) == [parent |-> 1, path |-> <<1, id>>, level |-> 1,
                    name |-> name, attr |-> 1, count |-> 0]

\* No category, a root alone, or both parents.
MCExisting ==
    {None, 1 :> NewRoot(0),
     1 :> NewRoot(2) @@ 2 :> Named(2, "A") @@ 3 :> Named(3, "B")}
=============================================================================
