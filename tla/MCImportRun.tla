---------------------------- MODULE MCImportRun ----------------------------
(* Two imports of two skus into two tables, and a sku only links name. *)
EXTENDS ImportRun, TLC

CONSTANTS i1, i2, a, b, c, t1, t2, v1, v2

Line(s, x, y) == [sku |-> s, cell |-> (t1 :> x @@ t2 :> y)]

\* Two new skus, one on three lines, and a line without one.  The first
\* statement for t1 leaves a value of a that the second one replaces.
FileAAB == <<Line(a, v2, v2), Line(NoSku, v1, v1), Line(a, v1, NoValue),
             Line(a, v2, NoValue), Line(b, v1, NoValue)>>
\* The same values, row by row and the other way round, so that the imports
\* can wait for each other.
FileBA == <<Line(b, v1, NoValue), Line(a, v2, NoValue)>>

MCImport == {i1, i2}
MCSku    == {a, b, c}
MCTable  == {t1, t2}
MCValue  == {v1, v2}

MCCsv       == (i1 :> FileAAB) @@ (i2 :> FileBA)
MCRefs      == (i1 :> {c}) @@ (i2 :> {})
MCBatchSize == (i1 :> 2) @@ (i2 :> 1)
=============================================================================
