-------------------------- MODULE MCOptionsImport --------------------------
(* Three imports of options of two products. *)
EXTENDS OptionsImport, TLC

CONSTANTS i1, i2, i3, p, q

Option(product, n) == [product |-> product, values |-> n]

MCProduct == {p, q}

\* Two chunks of two products, one product alone, and one product listed in
\* two lines.
MCListed ==
    i1 :> <<Option(p, 1), Option(q, 0), Option(q, 2)>> @@
    i2 :> <<Option(q, 2)>> @@
    i3 :> <<Option(p, 0), Option(p, 1)>>
=============================================================================
