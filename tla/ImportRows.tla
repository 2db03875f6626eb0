---------------------------- MODULE ImportRows ----------------------------
(***************************************************************************)
(* The data of product imports: the CSV files, the rows a file yields for  *)
(* a target table, and what a multi-row                                    *)
(*   INSERT ... VALUES (...), (...) ON DUPLICATE KEY UPDATE v = VALUES(v)  *)
(* does to a table.  A table is a function from entity ids to values: the  *)
(* store and the attribute, constant for a column, are left out.           *)
(***************************************************************************)
EXTENDS Naturals, Sequences, FiniteSets

CONSTANTS
    Import,     \* the imports: one call of import_products each
    Table,      \* the target tables, one flush task each
    Sku,        \* the skus a file can name
    NoSku,      \* a blank sku cell
    Value,      \* the valid contents of a cell
    NoValue,    \* a blank cell, or one a collector drops with a warning
    Csv,        \* the rows of each import's file
    Refs,       \* skus that only its link, bundle and variation columns name
    BatchSize   \* each one's ImportOptions.batch_size (a zero is raised to one)

Row == [sku : Sku \cup {NoSku}, cell : [Table -> Value \cup {NoValue}]]

ASSUME ImportDataAssumption ==
    /\ IsFiniteSet(Sku)
    /\ Table # {}
    /\ NoSku \notin Sku
    /\ NoValue \notin Value
    /\ Csv \in [Import -> Seq(Row)]
    /\ Refs \in [Import -> SUBSET Sku]
    /\ BatchSize \in [Import -> Nat \ {0}]

\* The skus of a file's own sku column: import_products' sku_type keys.
PrimarySkus(i) == {Csv[i][n].sku : n \in DOMAIN Csv[i]} \ {NoSku}

\* Every sku an import resolves.
LookupSkus(i) == PrimarySkus(i) \cup Refs[i]

\* The lines of i's file that yield a row for table t, once the skus in the
\* domain of ids are resolved: the sku and the cell are there and valid.
Lines(i, t, ids) ==
    {n \in DOMAIN Csv[i] : /\ Csv[i][n].sku \in DOMAIN ids
                           /\ Csv[i][n].cell[t] # NoValue}

\* The entity id a line is about.
KeyOf(i, n, ids) == ids[Csv[i][n].sku]

Keys(i, L, ids) == {KeyOf(i, n, ids) : n \in L}

Last(L) == CHOOSE n \in L : \A m \in L : m <= n

\* The rows of the lines L as one multi-row upsert leaves them: of two rows
\* with one key the later one stays.
UpsertRows(i, t, L, ids) ==
    [k \in Keys(i, L, ids) |->
        Csv[i][Last({n \in L : KeyOf(i, n, ids) = k})].cell[t]]

EmptyMap == [k \in {} |-> 0]

\* f with the rows of g upserted into it.
Upsert(f, g) ==
    [k \in DOMAIN f \cup DOMAIN g |-> IF k \in DOMAIN g THEN g[k] ELSE f[k]]

\* Of the elements S still to be sent, one statement of i takes BatchSize, or
\* whatever is left: slice::chunks(batch_size.max(1)).
IsBatch(i, c, S) ==
    /\ c # {} /\ c \subseteq S
    /\ Cardinality(c) = BatchSize[i] \/ (c = S /\ Cardinality(S) < BatchSize[i])

\* Rows are sent in the order of the file.
IsNextBatch(i, c, L) ==
    /\ IsBatch(i, c, L)
    /\ \A m \in c, n \in L \ c : m < n
=============================================================================
