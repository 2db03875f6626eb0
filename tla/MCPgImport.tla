----------------------------- MODULE MCPgImport -----------------------------
(* Two imports of two or three skus into a copied and an inserted table. *)
EXTENDS PgImport, TLC

CONSTANTS i1, i2, a, b, t1, t2, v1, v2

Line(s, x, y) == [sku |-> s, cell |-> (t1 :> x @@ t2 :> y)]

\* a is on two lines, in different statements of the table t2 only if the
\* statements have one row.
FileAAB == <<Line(a, NoValue, v1), Line(NoSku, v1, v1), Line(b, v1, v2), Line(a, v1, v2)>>
\* The second statement of two rows of t2 has a twice.
FileBAAA == <<Line(b, v2, v1), Line(a, v2, v1),
              Line(a, NoValue, v2), Line(a, NoValue, v1)>>

MCImport == {i1, i2}
MCSku    == {a, b}
MCTable  == {t1, t2}
MCValue  == {v1, v2}
CopyT1   == {t1}

MixedFiles  == (i1 :> FileAAB) @@ (i2 :> FileBAAA)
NoRefs      == (i1 :> {}) @@ (i2 :> {})
MCBatchSize == (i1 :> 2) @@ (i2 :> 2)
=============================================================================
