-------------------------- MODULE StockPriceProofs --------------------------
(***************************************************************************)
(* Theorems about the columns of a product file, for any files, skus and   *)
(* columns, and any number of imports.  Upserted, FlattenSeq, Joined and   *)
(* the folds of the gallery are recursive: each is unfolded into the       *)
(* function that its definition chooses, which is shown to exist and       *)
(* followed row by row (UpTo).                                             *)
(***************************************************************************)
EXTENDS StockPrice, FiniteSetTheorems, WellFoundedInduction, TLAPS

-----------------------------------------------------------------------------
(* The last of some lines. *)

LEMMA LeastExists ==
    ASSUME NEW T \in SUBSET Nat, T # {}
    PROVE  \E x \in T : \A y \in T : x <= y
<1>1. PICK x \in T : \A y \in T : ~ (<<y, x>> \in OpToRel(<, Nat))
  BY NatLessThanWellFounded, WFMin, Zenon
<1>2. \A y \in T : <<y, x>> \in OpToRel(<, Nat) <=> y < x
  BY Zenon DEF OpToRel
<1>3. \A y \in T : ~ (y < x)
  BY <1>1, <1>2, Zenon
<1> QED BY <1>3

\* What holds of 0 and, whenever it holds of k, of k + 1.
LEMMA UpTo ==
    ASSUME NEW G \in SUBSET Nat, 0 \in G, \A k \in G : k + 1 \in G
    PROVE  G = Nat
<1> SUFFICES ASSUME Nat \ G # {} PROVE FALSE
  OBVIOUS
<1>1. PICK x \in Nat \ G : \A y \in Nat \ G : x <= y
  BY LeastExists, Nat \ G \in SUBSET Nat
<1>2. x # 0 /\ x - 1 \in Nat
  BY <1>1
<1>3. x - 1 \in G
  BY <1>1, <1>2
<1> QED BY <1>1, <1>3

LEMMA GreatestExists ==
    ASSUME NEW n \in Nat, NEW L \in SUBSET (1 .. n), L # {}
    PROVE  \E x \in L : \A y \in L : y <= x
<1> DEFINE T == {n - m : m \in L}
<1>1. T \in SUBSET Nat /\ T # {}
  <2>1. \A m \in L : n - m \in Nat
    OBVIOUS
  <2>2. PICK m \in L : TRUE
    OBVIOUS
  <2>3. n - m \in T
    OBVIOUS
  <2> QED BY <2>1, <2>3
<1>2. PICK x \in T : \A y \in T : x <= y
  BY <1>1, LeastExists
<1>3. PICK m \in L : x = n - m
  OBVIOUS
<1>4. \A k \in L : k <= m
  BY <1>2, <1>3
<1> QED BY <1>4

\* The line whose row a flush leaves: the last one of that sku.
LEMMA LastOfExists ==
    ASSUME NEW n \in Nat, NEW list, NEW C \in SUBSET (1 .. n),
           NEW s \in SkusOf(list, C)
    PROVE  /\ LastOf(list, C, s) \in C
           /\ list[LastOf(list, C, s)].sku = s
<1> DEFINE K == {k \in C : list[k].sku = s}
<1>1. K # {} /\ K \in SUBSET (1 .. n)
  BY DEF SkusOf
<1>2. PICK x \in K : \A y \in K : y <= x
  BY <1>1, GreatestExists
<1>3. \E k \in C : list[k].sku = s /\ \A j \in C : list[j].sku = s => j <= k
  BY <1>2
<1> QED BY <1>3 DEF LastOf

-----------------------------------------------------------------------------
(* What imports have in common. *)

HistoryOK == history \in Seq(Files) /\ calls \in Seq([after : Nat, call : Calls])

\* A file has a cell for each of its lines.
LEMMA FileLines ==
    ASSUME NEW f \in Files
    PROVE  /\ f \in Seq(Line) /\ Len(f) \in Nat /\ DOMAIN f = 1 .. Len(f)
           /\ \A n \in DOMAIN f : f[n] \in Line
           /\ DOMAIN CellLines(f) = 1 .. Len(f)
           /\ \A n \in DOMAIN f : CellLines(f)[n] = [sku |-> f[n].sku, cell |-> Cells[f][n]]
BY ListColumnsAssumption DEF CellLines

LEMMA HistoryGrows ==
    ASSUME HistoryOK, [ImportNext]_allVars
    PROVE  /\ HistoryOK'
           /\ \/ /\ UNCHANGED vars
                 /\ \/ UNCHANGED <<stock, price, calls>>
                    \/ \E call \in Calls : ImportJson(call)
              \/ \E f \in Files : /\ ImportCsv(f) /\ UNCHANGED calls
                                  /\ history' = Append(history, f)
<1>1. ASSUME NEW f \in Files, ImportCsv(f)
      PROVE  HistoryOK' /\ history' = Append(history, f) /\ UNCHANGED calls
  BY <1>1 DEF HistoryOK, ImportCsv, ImportFile
<1>2. ASSUME NEW call \in Calls, ImportJson(call)
      PROVE  HistoryOK' /\ UNCHANGED vars
  <2>1. Len(history) \in Nat
    BY DEF HistoryOK
  <2>2. UNCHANGED vars /\ UNCHANGED history
    BY <1>2 DEF ImportJson, vars
  <2>3. calls' = Append(calls, [after |-> Len(history), call |-> call])
    BY <1>2 DEF ImportJson
  <2>4. [after |-> Len(history), call |-> call] \in [after : Nat, call : Calls]
    BY <2>1
  <2>5. calls' \in Seq([after : Nat, call : Calls])
    BY <2>3, <2>4 DEF HistoryOK
  <2> QED BY <2>2, <2>5 DEF HistoryOK
<1>3. CASE UNCHANGED allVars
  BY <1>3 DEF allVars, vars, HistoryOK
<1> QED BY <1>1, <1>2, <1>3 DEF ImportNext, allVars

LEMMA HistoryInvariant == ImportSpec => []HistoryOK
<1>1. ImportInit => HistoryOK
  BY DEF ImportInit, Init, HistoryOK
<1>2. HistoryOK /\ [ImportNext]_allVars => HistoryOK'
  BY HistoryGrows
<1> QED BY <1>1, <1>2, PTL DEF ImportSpec

-----------------------------------------------------------------------------
(* The skus that a warning calls unknown. *)

\* What a line refers to is looked up before it is resolved.
LEMMA ReferencesResolved ==
    ASSUME NEW f, NEW present
    PROVE  Unknown(f, Resolved(f, present)) \cap (present \cup PrimarySkus(f)) = {}
<1> SUFFICES ASSUME NEW x \in Unknown(f, Resolved(f, present)),
                    x \in present
             PROVE  FALSE
  BY DEF Unknown, Resolved
<1>1. x # Blank /\ x \notin Resolved(f, present)
  BY DEF Unknown
<1>2. PICK l \in OwnLines(f) :
        \/ x \in UNION {ToSet(l.linked[c]) : c \in ToSet(LinkColumns)}
        \/ x \in ToSet(l.children)
        \/ x \in UNION {ToSet(e.skus) : e \in {b \in ToSet(l.bundle) : b.head}}
  BY DEF Unknown
<1>3. l \in ToSet(f)
  BY DEF OwnLines
<1>4. CASE x \in UNION {ToSet(l.linked[c]) : c \in ToSet(LinkColumns)}
  <2>1. x \in LinkedSkus(f)
    BY <1>1, <1>3, <1>4 DEF LinkedSkus
  <2> QED BY <1>1, <2>1 DEF Resolved
<1>5. CASE x \in ToSet(l.children)
  <2>1. x \in ChildSkus(f)
    BY <1>1, <1>3, <1>5 DEF ChildSkus
  <2> QED BY <1>1, <2>1 DEF Resolved
<1>6. CASE x \in UNION {ToSet(e.skus) : e \in {b \in ToSet(l.bundle) : b.head}}
  <2>1. x \in UNION {ToSet(e.skus) : e \in ToSet(l.bundle)}
    BY <1>6
  <2>2. x \in SelectionSkus(f)
    BY <1>1, <1>3, <2>1 DEF SelectionSkus
  <2> QED BY <1>1, <2>2 DEF Resolved
<1> QED BY <1>2, <1>4, <1>5, <1>6

\* No warning calls a sku unknown that the database has once the import is
\* done, for any columns, files and number of imports.
THEOREM WarningsAreTrue == ImportSpec => []NoFalseUnknown
<1>1. ImportInit => NoFalseUnknown
  BY DEF ImportInit, Init, NoFalseUnknown
<1>2. NoFalseUnknown /\ [ImportNext]_allVars => NoFalseUnknown'
  <2> SUFFICES ASSUME NoFalseUnknown, [ImportNext]_allVars PROVE NoFalseUnknown'
    OBVIOUS
  <2>1. ASSUME NEW f \in Files, ImportCsv(f) PROVE NoFalseUnknown'
    <3>1. /\ warned' = Unknown(f, Resolved(f, known))
          /\ known' = known \cup PrimarySkus(f)
      BY <2>1 DEF ImportCsv, ImportFile
    <3> QED BY <3>1, ReferencesResolved DEF NoFalseUnknown
  <2>2. CASE UNCHANGED <<warned, known>>
    BY <2>2 DEF NoFalseUnknown
  <2> QED BY <2>1, <2>2 DEF ImportNext, ImportJson, allVars, vars, tables
<1> QED BY <1>1, <1>2, PTL DEF ImportSpec

-----------------------------------------------------------------------------
(* The stock table. *)

\* A row of the table after a flush is that of one of the lines flushed, or
\* the one that was there.
LEMMA FlushedRow ==
    ASSUME NEW n \in Nat, NEW table, NEW list, NEW rows,
           DOMAIN rows \in SUBSET (1 .. n),
           NEW s \in DOMAIN Flushed(table, list, rows)
    PROVE  \/ /\ s \in SkusOf(list, DOMAIN rows)
              /\ \E k \in DOMAIN rows : /\ list[k].sku = s
                                        /\ Flushed(table, list, rows)[s] = rows[k]
           \/ /\ s \in DOMAIN table /\ s \notin SkusOf(list, DOMAIN rows)
              /\ Flushed(table, list, rows)[s] = table[s]
<1> DEFINE skus == SkusOf(list, DOMAIN rows)
<1>1. /\ DOMAIN Flushed(table, list, rows) = DOMAIN table \cup skus
      /\ Flushed(table, list, rows)[s] =
           IF s \in skus THEN rows[LastOf(list, DOMAIN rows, s)] ELSE table[s]
  BY DEF Flushed
<1>2. CASE s \in skus
  <2> DEFINE k == LastOf(list, DOMAIN rows, s)
  <2>1. k \in DOMAIN rows /\ list[k].sku = s
    BY <1>2, LastOfExists
  <2> QED BY <1>1, <1>2, <2>1
<1>3. CASE s \notin skus
  BY <1>1, <1>3
<1> QED BY <1>2, <1>3

\* An element appended to a sequence is the last of the set of its elements.
LEMMA AppendToSet ==
    ASSUME NEW S, NEW q \in Seq(S), NEW e \in S
    PROVE  ToSet(Append(q, e)) = ToSet(q) \cup {e}
<1>1. /\ Len(q) \in Nat /\ DOMAIN q = 1 .. Len(q)
      /\ DOMAIN Append(q, e) = 1 .. Len(q) + 1
      /\ \A k \in 1 .. Len(q) + 1 : Append(q, e)[k] = IF k = Len(q) + 1 THEN e ELSE q[k]
  OBVIOUS
<1>2. DOMAIN Append(q, e) = DOMAIN q \cup {Len(q) + 1}
  BY <1>1
<1> QED BY <1>1, <1>2 DEF ToSet

\* What a row says comes from line l, or from item i of a REST call.
RowOfLine(row, l) ==
    \A c \in StockColumns : row[c] = IF Valid(l.cell[c]) THEN l.cell[c] ELSE DefaultStock[c]

RowOfItem(row, i) ==
    \A c \in StockColumns : row[c] = IF i.cell[c] # Blank THEN i.cell[c] ELSE JsonDefault[c]

LEMMA OneLineCsv ==
    ASSUME HistoryOK, StockRowOfOneLine, NEW f \in Files, ImportCsv(f),
           history' = Append(history, f), UNCHANGED calls
    PROVE  StockRowOfOneLine'
<1> DEFINE lines == CellLines(f)
           rows  == [n \in StockLines(lines) |-> StockItem(lines, n)]
<1>1. stock' = Flushed(stock, lines, rows)
  BY DEF ImportCsv, FlushedStock
<1>2. DOMAIN rows = StockLines(lines) /\ StockLines(lines) \in SUBSET (1 .. Len(f))
  BY FileLines DEF StockLines
<1>3. ToSet(history') = ToSet(history) \cup {f}
  BY AppendToSet DEF HistoryOK
<1>4. ASSUME NEW k \in DOMAIN rows
      PROVE  lines[k] \in ToSet(lines) /\ RowOfLine(rows[k], lines[k])
  <2>1. rows[k] = StockItem(lines, k) /\ k \in DOMAIN lines
    BY <1>2 DEF StockLines
  <2> QED BY <2>1 DEF ToSet, RowOfLine, StockItem
<1> SUFFICES ASSUME NEW s \in DOMAIN stock'
             PROVE  \/ \E g \in ToSet(history') : \E l \in ToSet(CellLines(g)) :
                         l.sku = s /\ RowOfLine(stock'[s], l)
                    \/ \E h \in ToSet(calls) : \E i \in ToSet(h.call) :
                         i.sku = s /\ RowOfItem(stock'[s], i)
  BY DEF StockRowOfOneLine, RowOfLine, RowOfItem
<1> HIDE DEF rows
<1>5. CASE \E k \in DOMAIN rows : lines[k].sku = s /\ stock'[s] = rows[k]
  BY <1>3, <1>4, <1>5
<1>6. CASE s \in DOMAIN stock /\ stock'[s] = stock[s]
  <2>1. \/ \E g \in ToSet(history) : \E l \in ToSet(CellLines(g)) :
             l.sku = s /\ RowOfLine(stock[s], l)
        \/ \E h \in ToSet(calls) : \E i \in ToSet(h.call) :
             i.sku = s /\ RowOfItem(stock[s], i)
    BY <1>6 DEF StockRowOfOneLine, RowOfLine, RowOfItem
  <2> QED BY <1>3, <1>6, <2>1
<1>7. Len(f) \in Nat /\ DOMAIN rows \in SUBSET (1 .. Len(f))
  BY <1>2, FileLines
<1> QED BY <1>1, <1>5, <1>6, <1>7, FlushedRow

LEMMA OneLineJson ==
    ASSUME HistoryOK, StockRowOfOneLine, NEW call \in Calls, ImportJson(call)
    PROVE  StockRowOfOneLine'
<1> DEFINE rows == [n \in JsonItems(call) |-> JsonItem(call, n)]
           new  == [after |-> Len(history), call |-> call]
<1>1. /\ stock' = Flushed(stock, call, rows)
      /\ calls' = Append(calls, new)
      /\ UNCHANGED history
  BY DEF ImportJson, vars
<1>2. /\ Len(call) \in Nat /\ DOMAIN call = 1 .. Len(call)
      /\ DOMAIN rows = JsonItems(call) /\ JsonItems(call) \in SUBSET (1 .. Len(call))
  BY StockPriceAssumption DEF JsonItems
<1>3. ToSet(calls') = ToSet(calls) \cup {new} /\ new.call = call
  <2> DEFINE S == [after : Nat, call : Calls]
  <2>1. new \in S /\ calls \in Seq(S)
    BY DEF HistoryOK
  <2> HIDE DEF new, S
  <2>2. ToSet(calls') = ToSet(calls) \cup {new}
    BY <1>1, <2>1, AppendToSet
  <2> QED BY <2>2 DEF new
<1>4. ASSUME NEW k \in DOMAIN rows
      PROVE  call[k] \in ToSet(call) /\ RowOfItem(rows[k], call[k])
  <2>1. rows[k] = JsonItem(call, k) /\ k \in DOMAIN call
    BY <1>2 DEF JsonItems
  <2> QED BY <2>1 DEF ToSet, RowOfItem, JsonItem
<1> SUFFICES ASSUME NEW s \in DOMAIN stock'
             PROVE  \/ \E g \in ToSet(history) : \E l \in ToSet(CellLines(g)) :
                         l.sku = s /\ RowOfLine(stock'[s], l)
                    \/ \E h \in ToSet(calls') : \E i \in ToSet(h.call) :
                         i.sku = s /\ RowOfItem(stock'[s], i)
  BY <1>1 DEF StockRowOfOneLine, RowOfLine, RowOfItem
<1> HIDE DEF rows, new
<1>5. CASE \E k \in DOMAIN rows : call[k].sku = s /\ stock'[s] = rows[k]
  BY <1>3, <1>4, <1>5
<1>6. CASE s \in DOMAIN stock /\ stock'[s] = stock[s]
  <2>1. \/ \E g \in ToSet(history) : \E l \in ToSet(CellLines(g)) :
             l.sku = s /\ RowOfLine(stock[s], l)
        \/ \E h \in ToSet(calls) : \E i \in ToSet(h.call) :
             i.sku = s /\ RowOfItem(stock[s], i)
    BY <1>6 DEF StockRowOfOneLine, RowOfLine, RowOfItem
  <2> QED BY <1>3, <1>6, <2>1
<1> QED BY <1>1, <1>2, <1>5, <1>6, FlushedRow

\* Every field of a stock row comes from one line of a file or one item of a
\* REST call, and is its column's default where that is blank or invalid, for
\* any files and calls in any order.
THEOREM StockRowsAreOfOneLine == ImportSpec => []StockRowOfOneLine
<1>1. ImportInit => StockRowOfOneLine
  BY DEF ImportInit, StockRowOfOneLine, EmptyTable
<1>2. HistoryOK /\ StockRowOfOneLine /\ [ImportNext]_allVars => StockRowOfOneLine'
  <2> SUFFICES ASSUME HistoryOK, StockRowOfOneLine, [ImportNext]_allVars
               PROVE  StockRowOfOneLine'
    OBVIOUS
  <2>1. CASE UNCHANGED vars /\ UNCHANGED <<stock, price, calls>>
    BY <2>1 DEF StockRowOfOneLine, vars
  <2> QED BY <2>1, HistoryGrows, OneLineCsv, OneLineJson
<1> QED BY <1>1, <1>2, HistoryInvariant, PTL DEF ImportSpec

\* An import leaves the stock row of a product alone, all of it, if each of
\* the product's lines has an invalid qty or is_in_stock.
THEOREM StockIsNotHalfApplied == ImportSpec => NoHalfAppliedStock
<1> DEFINE Kept ==
      history' # history =>
        \A s \in DOMAIN stock :
          (\A l \in ToSet(CellLines(Last(history'))) :
               l.sku = s => \E c \in GateColumns : l.cell[c] = Bad)
            => stock'[s] = stock[s]
<1>1. HistoryOK /\ [ImportNext]_allVars => [Kept]_allVars
  <2> SUFFICES ASSUME HistoryOK, [ImportNext]_allVars, history' # history,
                      NEW s \in DOMAIN stock,
                      \A l \in ToSet(CellLines(Last(history'))) :
                         l.sku = s => \E c \in GateColumns : l.cell[c] = Bad
               PROVE  stock'[s] = stock[s]
    OBVIOUS
  <2>1. PICK f \in Files : ImportCsv(f) /\ history' = Append(history, f)
    BY HistoryGrows DEF vars
  <2>2. Last(history') = f
    BY <2>1 DEF Last, HistoryOK
  <2> DEFINE lines == CellLines(f)
             rows  == [n \in StockLines(lines) |-> StockItem(lines, n)]
  <2>3. stock' = Flushed(stock, lines, rows)
    BY <2>1 DEF ImportCsv, FlushedStock
  <2>4. s \notin SkusOf(lines, DOMAIN rows)
    BY <2>2 DEF SkusOf, StockLines, Abandoned, ToSet
  <2> HIDE DEF rows
  <2> QED BY <2>3, <2>4 DEF Flushed
<1> HIDE DEF Kept
<1>2. ImportSpec => [][Kept]_allVars
  BY <1>1, HistoryInvariant, PTL DEF ImportSpec
<1> QED BY <1>2 DEF NoHalfAppliedStock, Kept

-----------------------------------------------------------------------------
(* Sequences one after the other. *)

IsSeq(x) == x \in Seq(ToSet(x))

LEMMA SeqHasItsElements ==
    ASSUME NEW S, NEW x \in Seq(S)
    PROVE  IsSeq(x) /\ ToSet(x) \in SUBSET S
<1>1. Len(x) \in Nat /\ DOMAIN x = 1 .. Len(x) /\ \A i \in 1 .. Len(x) : x[i] \in S
  OBVIOUS
<1>2. \A i \in 1 .. Len(x) : x[i] \in ToSet(x)
  BY <1>1 DEF ToSet
<1>3. x \in Seq(ToSet(x))
  <2> HIDE DEF ToSet
  <2> QED BY <1>1, <1>2
<1> QED BY <1>1, <1>3 DEF IsSeq, ToSet

LEMMA IsSeqFacts ==
    ASSUME NEW x, IsSeq(x)
    PROVE  /\ Len(x) \in Nat /\ DOMAIN x = 1 .. Len(x)
           /\ ToSet(x) = {x[i] : i \in 1 .. Len(x)}
           /\ \A S : ToSet(x) \in SUBSET S => x \in Seq(S)
<1>1. x \in Seq(ToSet(x))
  BY DEF IsSeq
<1>2. Len(x) \in Nat /\ DOMAIN x = 1 .. Len(x) /\ \A i \in 1 .. Len(x) : x[i] \in ToSet(x)
  BY <1>1
<1>3. ASSUME NEW S, ToSet(x) \in SUBSET S
      PROVE  x \in Seq(S)
  BY <1>1, <1>3
<1> QED BY <1>2, <1>3 DEF ToSet

LEMMA Concatenated ==
    ASSUME NEW a, NEW b, IsSeq(a), IsSeq(b)
    PROVE  /\ IsSeq(a \o b) /\ ToSet(a \o b) = ToSet(a) \cup ToSet(b)
           /\ Len(a \o b) = Len(a) + Len(b)
           /\ \A i \in 1 .. Len(a) : (a \o b)[i] = a[i]
           /\ \A i \in 1 .. Len(b) : (a \o b)[Len(a) + i] = b[i]
<1> DEFINE S == ToSet(a) \cup ToSet(b)
           c == a \o b
<1>1. a \in Seq(S) /\ b \in Seq(S)
  BY IsSeqFacts
<1>2. /\ Len(a) \in Nat /\ ToSet(a) = {a[i] : i \in 1 .. Len(a)}
      /\ Len(b) \in Nat /\ ToSet(b) = {b[i] : i \in 1 .. Len(b)}
  BY IsSeqFacts
<1> HIDE DEF S
<1>3. c \in Seq(S) /\ Len(c) = Len(a) + Len(b)
  BY <1>1
<1>4. \A i \in 1 .. Len(a) : c[i] = a[i]
  BY <1>1
<1>5. \A i \in 1 .. Len(b) : c[Len(a) + i] = b[i]
  BY <1>1
<1>6. IsSeq(c) /\ ToSet(c) = {c[i] : i \in 1 .. Len(c)}
  BY <1>3, SeqHasItsElements, IsSeqFacts
<1> HIDE DEF c
<1>7. ASSUME NEW i \in 1 .. Len(c)
      PROVE  i \in 1 .. Len(a) \/ \E j \in 1 .. Len(b) : i = Len(a) + j
  <2>1. i \in 1 .. Len(a) \/ (i - Len(a) \in 1 .. Len(b) /\ i = Len(a) + (i - Len(a)))
    BY <1>2, <1>3
  <2> QED BY <2>1
<1>8. \A i \in 1 .. Len(a) : i \in 1 .. Len(c)
  BY <1>2, <1>3
<1>9. \A i \in 1 .. Len(b) : Len(a) + i \in 1 .. Len(c)
  BY <1>2, <1>3
<1>10. ToSet(c) = ToSet(a) \cup ToSet(b)
  <2>1. ASSUME NEW e \in ToSet(c) PROVE e \in ToSet(a) \cup ToSet(b)
    <3>1. PICK i \in 1 .. Len(c) : e = c[i]
      BY <1>6
    <3>2. CASE i \in 1 .. Len(a)
      BY <1>2, <1>4, <3>1, <3>2
    <3>3. ASSUME NEW j \in 1 .. Len(b), i = Len(a) + j
          PROVE  e \in ToSet(b)
      BY <1>2, <1>5, <3>1, <3>3
    <3> QED BY <1>7, <3>2, <3>3
  <2>2. ASSUME NEW e \in ToSet(a) PROVE e \in ToSet(c)
    BY <1>2, <1>4, <1>6, <1>8
  <2>3. ASSUME NEW e \in ToSet(b) PROVE e \in ToSet(c)
    <3>1. PICK i \in 1 .. Len(b) : e = b[i]
      BY <1>2
    <3>2. e = c[Len(a) + i] /\ Len(a) + i \in 1 .. Len(c)
      BY <1>5, <1>9, <3>1
    <3> QED BY <1>6, <3>2
  <2> QED BY <2>1, <2>2, <2>3
<1> QED BY <1>3, <1>4, <1>5, <1>6, <1>10 DEF c

\* FlattenSeq, from the first of the sequences on.
IsFlat(g, seqs, n) == g = [i \in 1 .. n |-> IF i = 1 THEN seqs[i] ELSE g[i - 1] \o seqs[i]]

FlatTable(seqs) == CHOOSE g : IsFlat(g, seqs, Len(seqs))

LEMMA FlattenUnfolds ==
    ASSUME NEW seqs
    PROVE  FlattenSeq(seqs) = IF Len(seqs) = 0 THEN seqs ELSE FlatTable(seqs)[Len(seqs)]
BY DEF FlattenSeq, FlatTable, IsFlat

LEMMA FlatExists ==
    ASSUME NEW seqs, NEW n \in Nat
    PROVE  \E g : IsFlat(g, seqs, n)
<1> DEFINE G == {m \in Nat : \E g : IsFlat(g, seqs, m)}
<1>1. 0 \in G
  <2> DEFINE g == [i \in 1 .. 0 |-> 0]
  <2>1. IsFlat(g, seqs, 0)
    BY 1 .. 0 = {} DEF IsFlat
  <2> QED BY <2>1
<1>2. ASSUME NEW m \in G PROVE m + 1 \in G
  <2>1. m \in Nat
    OBVIOUS
  <2>2. PICK g : IsFlat(g, seqs, m)
    OBVIOUS
  <2> DEFINE F(i) == IF i = 1 THEN seqs[i] ELSE g[i - 1] \o seqs[i]
             h == [i \in 1 .. m + 1 |-> F(i)]
  <2>3. \A i \in 1 .. m : g[i] = F(i)
    BY <2>2 DEF IsFlat
  <2>4. ASSUME NEW i \in 1 .. m + 1
        PROVE  F(i) = IF i = 1 THEN seqs[i] ELSE h[i - 1] \o seqs[i]
    <3>1. CASE i = 1
      BY <3>1
    <3>2. CASE i # 1
      <4>1. i - 1 \in 1 .. m /\ i - 1 \in 1 .. m + 1
        BY <2>1, <3>2
      <4>2. h[i - 1] = F(i - 1)
        <5> HIDE DEF F
        <5> QED BY <4>1
      <4>3. h[i - 1] = g[i - 1]
        BY <2>3, <4>1, <4>2
      <4> QED BY <3>2, <4>3
    <3> QED BY <3>1, <3>2
  <2>5. h = [i \in 1 .. m + 1 |-> IF i = 1 THEN seqs[i] ELSE h[i - 1] \o seqs[i]]
    <3> HIDE DEF F
    <3>1. h = [i \in 1 .. m + 1 |-> F(i)]
      OBVIOUS
    <3> HIDE DEF h
    <3> QED BY <2>4, <3>1
  <2>6. IsFlat(h, seqs, m + 1)
    BY <2>5 DEF IsFlat
  <2> QED BY <2>1, <2>6
<1>3. G = Nat
  BY <1>1, <1>2, UpTo, G \in SUBSET Nat
<1> QED BY <1>3

\* What holds of the first sequence, and of any two one after the other when
\* it holds of both, holds of all of them; step by step.
LEMMA FlatSteps ==
    ASSUME NEW seqs, NEW n \in Nat, n # 0, Len(seqs) = n
    PROVE  \E g : /\ g[1] = seqs[1] /\ g[n] = FlattenSeq(seqs)
                  /\ \A i \in 1 .. n : i # 1 => g[i] = g[i - 1] \o seqs[i]
<1> DEFINE g == FlatTable(seqs)
<1>1. IsFlat(g, seqs, n)
  BY FlatExists DEF FlatTable
<1> HIDE DEF g
<1>0. \A i \in 1 .. n : g[i] = IF i = 1 THEN seqs[i] ELSE g[i - 1] \o seqs[i]
  BY <1>1 DEF IsFlat
<1>2. g[1] = seqs[1] /\ \A i \in 1 .. n : i # 1 => g[i] = g[i - 1] \o seqs[i]
  BY <1>0, 1 \in 1 .. n
<1>3. g[n] = FlattenSeq(seqs)
  BY FlattenUnfolds DEF g
<1> QED BY <1>2, <1>3

LEMMA MapIsSeq ==
    ASSUME NEW n \in Nat, NEW x, x = [i \in 1 .. n |-> x[i]]
    PROVE  IsSeq(x) /\ Len(x) = n /\ DOMAIN x = 1 .. n
<1> DEFINE S == {x[i] : i \in 1 .. n}
<1>1. \A i \in 1 .. n : x[i] \in S
  OBVIOUS
<1> HIDE DEF S
<1>2. x \in Seq(S) /\ Len(x) = n
  BY <1>1
<1> QED BY <1>2, SeqHasItsElements

LEMMA EmptyIsSeq == IsSeq(<<>>) /\ ToSet(<<>>) = {} /\ KeysOf(<<>>) = {}
BY DEF IsSeq, ToSet, KeysOf

LEMMA OneIsSeq ==
    ASSUME NEW e
    PROVE  IsSeq(<<e>>) /\ ToSet(<<e>>) = {e} /\ KeysOf(<<e>>) = {e.key}
<1>1. <<e>> \in Seq({e})
  OBVIOUS
<1>2. ToSet(<<e>>) = {e}
  BY DEF ToSet
<1> QED BY <1>1, <1>2, SeqHasItsElements DEF KeysOf

LEMMA Flattened ==
    ASSUME NEW seqs, IsSeq(seqs), \A i \in DOMAIN seqs : IsSeq(seqs[i])
    PROVE  /\ IsSeq(FlattenSeq(seqs))
           /\ ToSet(FlattenSeq(seqs)) = UNION {ToSet(seqs[i]) : i \in DOMAIN seqs}
<1> DEFINE n == Len(seqs)
<1>1. n \in Nat /\ DOMAIN seqs = 1 .. n /\ ToSet(seqs) = {seqs[i] : i \in 1 .. n}
  BY IsSeqFacts
<1>2. CASE n = 0
  <2>1. FlattenSeq(seqs) = seqs /\ DOMAIN seqs = {}
    BY <1>1, <1>2, FlattenUnfolds
  <2>2. ToSet(seqs) = {} /\ UNION {ToSet(seqs[i]) : i \in DOMAIN seqs} = {}
    BY <2>1 DEF ToSet
  <2> QED BY <2>1, <2>2
<1>3. CASE n # 0
  <2> HIDE DEF n
  <2>1. PICK g : /\ g[1] = seqs[1] /\ g[n] = FlattenSeq(seqs)
                 /\ \A i \in 1 .. n : i # 1 => g[i] = g[i - 1] \o seqs[i]
    BY <1>1, <1>3, FlatSteps DEF n
  <2> DEFINE U(m) == UNION {ToSet(seqs[i]) : i \in 1 .. m}
             G == {m \in Nat : m + 1 <= n => IsSeq(g[m + 1]) /\ ToSet(g[m + 1]) = U(m + 1)}
  <2>2. 0 \in G
    <3>1. 1 .. 1 = {1} /\ 1 \in DOMAIN seqs /\ 0 + 1 = 1
      BY <1>1, <1>3
    <3>2. U(1) = ToSet(seqs[1])
      BY <3>1
    <3> HIDE DEF U
    <3> QED BY <2>1, <3>1, <3>2
  <2>3. ASSUME NEW m \in G PROVE m + 1 \in G
    <3> DEFINE p == m + 1
               q == p + 1
    <3>0. m \in Nat
      OBVIOUS
    <3> SUFFICES ASSUME q <= n PROVE IsSeq(g[q]) /\ ToSet(g[q]) = U(q)
      OBVIOUS
    <3>1. p \in 1 .. n /\ q \in 1 .. n /\ q # 1 /\ q - 1 = p /\ 1 .. q = (1 .. p) \cup {q}
      BY <1>1, <3>0
    <3>2. IsSeq(g[p]) /\ ToSet(g[p]) = U(p)
      BY <1>1, <3>0
    <3> HIDE DEF p, q
    <3>3. g[q] = g[p] \o seqs[q]
      BY <2>1, <3>1
    <3>4. IsSeq(seqs[q])
      BY <1>1, <3>1
    <3>5. IsSeq(g[q]) /\ ToSet(g[q]) = ToSet(g[p]) \cup ToSet(seqs[q])
      BY <3>2, <3>3, <3>4, Concatenated
    <3>6. U(q) = U(p) \cup ToSet(seqs[q])
      BY <3>1
    <3> QED BY <3>2, <3>5, <3>6
  <2>4. G = Nat
    BY <2>2, <2>3, UpTo, G \in SUBSET Nat
  <2>5. n - 1 \in Nat /\ (n - 1) + 1 = n /\ n <= n
    BY <1>1, <1>3 DEF n
  <2>6. IsSeq(g[n]) /\ ToSet(g[n]) = U(n)
    BY <2>4, <2>5
  <2> QED BY <1>1, <2>1, <2>6 DEF n
<1> QED BY <1>2, <1>3

LEMMA FlattenedKeys ==
    ASSUME NEW seqs, IsSeq(seqs), \A i \in DOMAIN seqs : IsSeq(seqs[i])
    PROVE  KeysOf(FlattenSeq(seqs)) = UNION {KeysOf(seqs[i]) : i \in DOMAIN seqs}
<1>1. ToSet(FlattenSeq(seqs)) = UNION {ToSet(seqs[i]) : i \in DOMAIN seqs}
  BY Flattened
<1> QED BY <1>1 DEF KeysOf

\* What the lines of a file, or the entries of a cell, yield.
LEMMA MapFlattened ==
    ASSUME NEW n \in Nat, NEW x, x = [i \in 1 .. n |-> x[i]], \A i \in 1 .. n : IsSeq(x[i])
    PROVE  /\ IsSeq(FlattenSeq(x))
           /\ ToSet(FlattenSeq(x)) = UNION {ToSet(x[i]) : i \in 1 .. n}
           /\ KeysOf(FlattenSeq(x)) = UNION {KeysOf(x[i]) : i \in 1 .. n}
BY MapIsSeq, Flattened, FlattenedKeys

LEMMA IfIsSeq ==
    ASSUME NEW test, NEW row
    PROVE  IsSeq(If(test, row))
BY EmptyIsSeq, OneIsSeq DEF If

LEMMA LineCells ==
    ASSUME NEW f \in Files, NEW n \in DOMAIN f
    PROVE  /\ f[n] \in Line
           /\ \A c \in ToSet(LinkColumns) : IsSeq(f[n].linked[c])
           /\ IsSeq(f[n].bundle) /\ IsSeq(f[n].super) /\ IsSeq(f[n].children)
           /\ IsSeq(f[n].options) /\ IsSeq(f[n].downloads) /\ IsSeq(f[n].samples)
           /\ IsSeq(f[n].tiers) /\ IsSeq(f[n].images)
<1>1. f[n] \in Line
  BY FileLines
<1>2. /\ f[n].linked \in [ToSet(LinkColumns) -> Seq(Name)]
      /\ f[n].super \in Seq(Attribute \cup {Blank}) /\ f[n].children \in Seq(Name)
      /\ f[n].downloads \in Seq(Title) /\ f[n].samples \in Seq(Title)
      /\ f[n].images \in Seq(Title)
  BY <1>1 DEF Line
<1>3. /\ f[n].bundle \in Seq([head : BOOLEAN, skus : Seq(Name)])
      /\ f[n].options \in Seq([type : STRING, title : Title, choices : Seq(BOOLEAN)])
      /\ f[n].tiers \in Seq([valid : BOOLEAN, all : BOOLEAN, group : Nat, qty : Nat,
                             price : Nat])
  BY <1>1 DEF Line
<1> QED BY <1>1, <1>2, <1>3, SeqHasItsElements

LEMMA LinkRowsAreSeq ==
    ASSUME NEW f \in Files, NEW ids
    PROVE  IsSeq(LinkRows(f, ids))
<1> DEFINE cell(m, c) == f[m].linked[LinkColumns[c]]
           E(m, c, n) == If(Refers(f[m], cell(m, c)[n], ids),
                            Row(<<f[m].sku, cell(m, c)[n], LinkColumns[c]>>, n - 1))
           C(m, c) == [n \in DOMAIN cell(m, c) |-> E(m, c, n)]
           L(m) == [c \in DOMAIN LinkColumns |-> FlattenSeq(C(m, c))]
           x == [m \in DOMAIN f |-> IF f[m].sku = Blank THEN <<>> ELSE FlattenSeq(L(m))]
<1>1. LinkRows(f, ids) = FlattenSeq(x)
  BY DEF LinkRows, PerLine, PerEntry
<1>2. Len(f) \in Nat /\ DOMAIN f = 1 .. Len(f)
  BY FileLines
<1>3. Len(LinkColumns) \in Nat /\ DOMAIN LinkColumns = 1 .. Len(LinkColumns)
  BY ListColumnsAssumption
<1>4. ASSUME NEW m \in DOMAIN f, NEW c \in DOMAIN LinkColumns
      PROVE  IsSeq(FlattenSeq(C(m, c)))
  <2>1. IsSeq(cell(m, c))
    <3>1. LinkColumns[c] \in ToSet(LinkColumns)
      BY DEF ToSet
    <3> QED BY <3>1, LineCells
  <2>2. Len(cell(m, c)) \in Nat /\ DOMAIN cell(m, c) = 1 .. Len(cell(m, c))
    BY <2>1, IsSeqFacts
  <2>3. \A n \in DOMAIN cell(m, c) : IsSeq(E(m, c, n))
    BY IfIsSeq
  <2> HIDE DEF cell, E
  <2> QED BY <2>2, <2>3, MapFlattened
<1> HIDE DEF C
<1>5. ASSUME NEW m \in DOMAIN f
      PROVE  IsSeq(FlattenSeq(L(m)))
  BY <1>3, <1>4, MapFlattened
<1> HIDE DEF L
<1>6. IsSeq(FlattenSeq(x))
  BY <1>2, <1>5, MapFlattened, EmptyIsSeq
<1> QED BY <1>1, <1>6

LEMMA SuperLinkRowsAreSeq ==
    ASSUME NEW f \in Files, NEW ids
    PROVE  IsSeq(SuperLinkRows(f, ids))
<1> DEFINE E(m, n) == If(Refers(f[m], f[m].children[n], ids), Row(f[m].children[n], f[m].sku))
           L(m) == [n \in DOMAIN f[m].children |-> E(m, n)]
           x == [m \in DOMAIN f |-> IF f[m].sku = Blank THEN <<>> ELSE FlattenSeq(L(m))]
<1>1. SuperLinkRows(f, ids) = FlattenSeq(x)
  BY DEF SuperLinkRows, PerLine, PerEntry
<1>2. Len(f) \in Nat /\ DOMAIN f = 1 .. Len(f)
  BY FileLines
<1>3. \A m \in DOMAIN f : \A n \in DOMAIN f[m].children : IsSeq(E(m, n))
  BY IfIsSeq
<1> HIDE DEF E
<1>4. ASSUME NEW m \in DOMAIN f
      PROVE  IsSeq(FlattenSeq(L(m)))
  <2>1. IsSeq(f[m].children)
    BY LineCells
  <2>2. Len(f[m].children) \in Nat /\ DOMAIN f[m].children = 1 .. Len(f[m].children)
    BY <2>1, IsSeqFacts
  <2> QED BY <1>3, <2>2, MapFlattened
<1> HIDE DEF L
<1>5. IsSeq(FlattenSeq(x))
  BY <1>2, <1>4, MapFlattened, EmptyIsSeq
<1> QED BY <1>1, <1>5

-----------------------------------------------------------------------------
(* What a table holds once rows are upserted into it. *)

\* Row m is the last of the rows s that have key k.
IsLastAt(rows, s, k, m) == m \in s /\ rows[m].key = k /\ \A j \in s : rows[j].key = k => j <= m

LastAt(rows, s, k) == CHOOSE m : IsLastAt(rows, s, k, m)

KeysAt(rows, s) == {rows[n].key : n \in s}

\* The table once the rows s of "rows" are upserted.
With(table, rows, s) ==
    [k \in DOMAIN table \cup KeysAt(rows, s) |->
        IF k \in KeysAt(rows, s) THEN rows[LastAt(rows, s, k)].value ELSE table[k]]

OneMore(t, r) == [k \in DOMAIN t \cup {r.key} |-> IF k = r.key THEN r.value ELSE t[k]]

IsUpsertTable(g, table, rows) ==
    g = [s \in SUBSET DOMAIN rows |->
           IF s = {} THEN table ELSE OneMore(g[s \ {Max(s)}], rows[Max(s)])]

UpsertTable(table, rows) == CHOOSE g : IsUpsertTable(g, table, rows)

LEMMA UpsertUnfolds ==
    ASSUME NEW table, NEW rows
    PROVE  Upserted(table, rows) = UpsertTable(table, rows)[DOMAIN rows]
BY DEF Upserted, FoldLeft, MapThenFoldSet, UpsertTable, IsUpsertTable, OneMore

LEMMA MaxExists ==
    ASSUME NEW n \in Nat, NEW s \in SUBSET (1 .. n), s # {}
    PROVE  Max(s) \in s /\ \A x \in s : x <= Max(s)
<1>1. \E x \in s : \A y \in s : x >= y
  <2>1. PICK x \in s : \A y \in s : y <= x
    BY GreatestExists
  <2> QED BY <2>1
<1>2. Max(s) \in s /\ \A y \in s : Max(s) >= y
  BY <1>1 DEF Max
<1> QED BY <1>2

LEMMA LastAtExists ==
    ASSUME NEW n \in Nat, NEW rows, NEW s \in SUBSET (1 .. n), NEW k \in KeysAt(rows, s)
    PROVE  IsLastAt(rows, s, k, LastAt(rows, s, k))
<1> DEFINE K == {m \in s : rows[m].key = k}
<1>1. K # {} /\ K \in SUBSET (1 .. n)
  BY DEF KeysAt
<1>2. PICK x \in K : \A y \in K : y <= x
  BY <1>1, GreatestExists
<1>3. \E m : IsLastAt(rows, s, k, m)
  BY <1>2 DEF IsLastAt
<1> QED BY <1>3 DEF LastAt

\* Which row is the last one is beyond doubt.
LEMMA LastAtIs ==
    ASSUME NEW n \in Nat, NEW rows, NEW s \in SUBSET (1 .. n), NEW k,
           NEW m, IsLastAt(rows, s, k, m)
    PROVE  LastAt(rows, s, k) = m
<1> DEFINE e == LastAt(rows, s, k)
<1>1. \E x : IsLastAt(rows, s, k, x)
  OBVIOUS
<1>2. IsLastAt(rows, s, k, e)
  BY <1>1 DEF LastAt
<1> HIDE DEF e
<1>3. e <= m /\ m <= e /\ e \in Nat /\ m \in Nat
  BY <1>2 DEF IsLastAt
<1>4. e = m
  BY <1>3
<1> QED BY <1>4 DEF e

\* One more row, after the others.
LEMMA WithOneMore ==
    ASSUME NEW n \in Nat, NEW table, NEW rows, NEW s \in SUBSET (1 .. n), s # {}
    PROVE  With(table, rows, s)
             = OneMore(With(table, rows, s \ {Max(s)}), rows[Max(s)])
<1> DEFINE m == Max(s)
           r == s \ {m}
<1>1. m \in s /\ \A x \in s : x <= m
  BY MaxExists
<1> HIDE DEF m
<1>2. KeysAt(rows, s) = KeysAt(rows, r) \cup {rows[m].key}
  BY <1>1 DEF KeysAt
<1>3. LastAt(rows, s, rows[m].key) = m
  <2>1. IsLastAt(rows, s, rows[m].key, m)
    BY <1>1 DEF IsLastAt
  <2> QED BY <2>1, LastAtIs
<1>4. ASSUME NEW k \in KeysAt(rows, r), k # rows[m].key
      PROVE  LastAt(rows, s, k) = LastAt(rows, r, k)
  <2>1. IsLastAt(rows, r, k, LastAt(rows, r, k))
    BY LastAtExists, r \in SUBSET (1 .. n)
  <2>2. IsLastAt(rows, s, k, LastAt(rows, r, k))
    BY <1>4, <2>1 DEF IsLastAt
  <2> QED BY <2>2, LastAtIs
<1> DEFINE t == With(table, rows, r)
           D == DOMAIN table \cup KeysAt(rows, s)
<1>5. DOMAIN t \cup {rows[m].key} = D
  BY <1>2 DEF With
<1>6. ASSUME NEW k \in D
      PROVE  With(table, rows, s)[k] = IF k = rows[m].key THEN rows[m].value ELSE t[k]
  BY <1>2, <1>3, <1>4 DEF With
<1>7. With(table, rows, s) = [k \in D |-> With(table, rows, s)[k]]
  BY DEF With
<1>8. With(table, rows, s) = OneMore(t, rows[m])
  <2> DEFINE w == With(table, rows, s)
  <2> HIDE DEF w, t, D
  <2>1. w = [k \in D |-> IF k = rows[m].key THEN rows[m].value ELSE t[k]]
    BY <1>6, <1>7 DEF w
  <2> QED BY <1>5, <2>1 DEF OneMore, w
<1> QED BY <1>8 DEF m

\* Upserting rows in order leaves each key its last row's value.
LEMMA UpsertedIs ==
    ASSUME NEW n \in Nat, NEW table, NEW rows, DOMAIN rows = 1 .. n,
           table = [k \in DOMAIN table |-> table[k]]
    PROVE  Upserted(table, rows) = With(table, rows, DOMAIN rows)
<1> DEFINE w == [s \in SUBSET DOMAIN rows |-> With(table, rows, s)]
           g == UpsertTable(table, rows)
<1>1. With(table, rows, {}) = table
  BY DEF With, KeysAt
<1>2. IsUpsertTable(w, table, rows)
  <2>1. ASSUME NEW s \in SUBSET DOMAIN rows, s # {}
        PROVE  With(table, rows, s) = OneMore(w[s \ {Max(s)}], rows[Max(s)])
    BY <2>1, WithOneMore
  <2>2. w = [s \in SUBSET DOMAIN rows |->
               IF s = {} THEN table ELSE OneMore(w[s \ {Max(s)}], rows[Max(s)])]
    BY <1>1, <2>1
  <2> QED BY <2>2 DEF IsUpsertTable
<1>3. IsUpsertTable(g, table, rows)
  BY <1>2 DEF UpsertTable
<1> HIDE DEF g, w
<1>4. ASSUME NEW s \in SUBSET DOMAIN rows
      PROVE  g[s] = IF s = {} THEN table ELSE OneMore(g[s \ {Max(s)}], rows[Max(s)])
  BY <1>3 DEF IsUpsertTable
<1> DEFINE G == {m \in Nat : m <= n => g[1 .. m] = With(table, rows, 1 .. m)}
<1>5. 0 \in G
  <2>1. 1 .. 0 = {} /\ {} \in SUBSET DOMAIN rows
    OBVIOUS
  <2>2. g[{}] = table
    BY <1>4, <2>1
  <2> QED BY <1>1, <2>1, <2>2
<1>6. ASSUME NEW m \in G PROVE m + 1 \in G
  <2> SUFFICES ASSUME m + 1 <= n PROVE g[1 .. m + 1] = With(table, rows, 1 .. m + 1)
    OBVIOUS
  <2> DEFINE s == 1 .. m + 1
  <2>0. m \in Nat /\ m <= n
    OBVIOUS
  <2>1. m \in Nat /\ s \in SUBSET (1 .. n) /\ s # {}
    <3>1. 1 \in s
      BY <2>0
    <3>2. \A x \in s : x \in 1 .. n
      BY <2>0
    <3> QED BY <2>0, <3>1, <3>2
  <2>2. Max(s) \in s /\ \A x \in s : x <= Max(s)
    BY <2>1, MaxExists
  <2>3. Max(s) = m + 1
    BY <2>1, <2>2
  <2>4. s \ {Max(s)} = 1 .. m
    BY <2>1, <2>3
  <2>5. g[1 .. m] = With(table, rows, 1 .. m)
    BY <2>1
  <2>6. g[s] = OneMore(g[s \ {Max(s)}], rows[Max(s)])
    BY <1>4, <2>1
  <2> HIDE DEF s
  <2>7. With(table, rows, s) = OneMore(With(table, rows, s \ {Max(s)}), rows[Max(s)])
    BY <2>1, WithOneMore
  <2>8. g[s] = With(table, rows, s)
    BY <2>4, <2>5, <2>6, <2>7
  <2> QED BY <2>8 DEF s
<1>7. G = Nat
  BY <1>5, <1>6, UpTo, G \in SUBSET Nat
<1>8. g[1 .. n] = With(table, rows, 1 .. n)
  BY <1>7
<1> QED BY <1>8, UpsertUnfolds DEF g

LEMMA KeysAtAll ==
    ASSUME NEW rows
    PROVE  KeysAt(rows, DOMAIN rows) = KeysOf(rows)
BY DEF KeysAt, KeysOf, ToSet

\* Upserting the same rows again changes nothing.
LEMMA UpsertedTwice ==
    ASSUME NEW n \in Nat, NEW table, NEW rows, DOMAIN rows = 1 .. n,
           table = [k \in DOMAIN table |-> table[k]]
    PROVE  /\ Upserted(Upserted(table, rows), rows) = Upserted(table, rows)
           /\ Upserted(table, rows)
                = [k \in DOMAIN Upserted(table, rows) |-> Upserted(table, rows)[k]]
<1> DEFINE s == DOMAIN rows
           t == With(table, rows, s)
<1>1. Upserted(table, rows) = t
  BY UpsertedIs
<1>2. t = [k \in DOMAIN t |-> t[k]]
  BY DEF With
<1>3. Upserted(t, rows) = With(t, rows, s)
  <2> HIDE DEF t
  <2> QED BY <1>2, UpsertedIs
<1>4. With(t, rows, s) = t
  BY DEF With
<1> HIDE DEF t
<1> QED BY <1>1, <1>2, <1>3, <1>4

LEMMA SuperAttributeRowsAreSeq ==
    ASSUME NEW f \in Files
    PROVE  IsSeq(SuperAttributeRows(f))
<1> DEFINE E(m, n) == If(f[m].super[n] \in KnownAttribute, Row(<<f[m].sku, f[m].super[n]>>, n - 1))
           L(m) == [n \in DOMAIN f[m].super |-> E(m, n)]
           x == [m \in DOMAIN f |-> IF f[m].sku = Blank THEN <<>> ELSE FlattenSeq(L(m))]
<1>1. SuperAttributeRows(f) = FlattenSeq(x)
  BY DEF SuperAttributeRows, PerLine, PerEntry
<1>2. Len(f) \in Nat /\ DOMAIN f = 1 .. Len(f)
  BY FileLines
<1>3. \A m \in DOMAIN f : \A n \in DOMAIN f[m].super : IsSeq(E(m, n))
  BY IfIsSeq
<1> HIDE DEF E
<1>4. ASSUME NEW m \in DOMAIN f
      PROVE  IsSeq(FlattenSeq(L(m)))
  <2>1. IsSeq(f[m].super)
    BY LineCells
  <2>2. Len(f[m].super) \in Nat /\ DOMAIN f[m].super = 1 .. Len(f[m].super)
    BY <2>1, IsSeqFacts
  <2> QED BY <1>3, <2>2, MapFlattened
<1> HIDE DEF L
<1>5. IsSeq(FlattenSeq(x))
  BY <1>2, <1>4, MapFlattened, EmptyIsSeq
<1> QED BY <1>1, <1>5

LEMMA TierRowsAreSeq ==
    ASSUME NEW f \in Files
    PROVE  IsSeq(TierRows(f))
<1> DEFINE E(m, n) == If(f[m].tiers[n].valid,
                         Row(TierKey(f[m].sku, f[m].tiers[n]), f[m].tiers[n].price))
           L(m) == [n \in DOMAIN f[m].tiers |-> E(m, n)]
           x == [m \in DOMAIN f |-> IF f[m].sku = Blank THEN <<>> ELSE FlattenSeq(L(m))]
<1>1. TierRows(f) = FlattenSeq(x)
  BY DEF TierRows, PerLine, PerEntry
<1>2. Len(f) \in Nat /\ DOMAIN f = 1 .. Len(f)
  BY FileLines
<1>3. \A m \in DOMAIN f : \A n \in DOMAIN f[m].tiers : IsSeq(E(m, n))
  BY IfIsSeq
<1> HIDE DEF E
<1>4. ASSUME NEW m \in DOMAIN f
      PROVE  IsSeq(FlattenSeq(L(m)))
  <2>1. IsSeq(f[m].tiers)
    BY LineCells
  <2>2. Len(f[m].tiers) \in Nat /\ DOMAIN f[m].tiers = 1 .. Len(f[m].tiers)
    BY <2>1, IsSeqFacts
  <2> QED BY <1>3, <2>2, MapFlattened
<1> HIDE DEF L
<1>5. IsSeq(FlattenSeq(x))
  BY <1>2, <1>4, MapFlattened, EmptyIsSeq
<1> QED BY <1>1, <1>5

-----------------------------------------------------------------------------
(* The same file once more. *)

IsTable(t) == t = [k \in DOMAIN t |-> t[k]]

LEMMA ReplacedTwice ==
    ASSUME NEW table, NEW keys, NEW rows
    PROVE  Replaced(Replaced(table, keys, rows), keys, rows) = Replaced(table, keys, rows)
<1> DEFINE t == Replaced(table, keys, rows)
           J(k) == Joined(rows, k)
<1>1. t = [k \in DOMAIN table \cup keys |-> IF k \in keys THEN J(k) ELSE table[k]]
  BY DEF Replaced
<1>2. Replaced(t, keys, rows) = [k \in DOMAIN t \cup keys |-> IF k \in keys THEN J(k) ELSE t[k]]
  BY DEF Replaced
<1> HIDE DEF t, J
<1>3. DOMAIN t = DOMAIN table \cup keys /\ DOMAIN t \cup keys = DOMAIN t
  BY <1>1
<1>4. \A k \in DOMAIN t : t[k] = IF k \in keys THEN J(k) ELSE t[k]
  BY <1>1
<1>5. Replaced(t, keys, rows) = t
  BY <1>1, <1>2, <1>3, <1>4
<1> QED BY <1>5 DEF t

LEMMA UpsertedSettles ==
    ASSUME NEW table, NEW rows, IsTable(table), IsSeq(rows)
    PROVE  /\ IsTable(Upserted(table, rows))
           /\ Upserted(Upserted(table, rows), rows) = Upserted(table, rows)
<1>1. Len(rows) \in Nat /\ DOMAIN rows = 1 .. Len(rows)
  BY IsSeqFacts
<1> QED BY <1>1, UpsertedTwice DEF IsTable

\* What an import of f that resolves ids would leave as it is.
Settled(f, ids) ==
    /\ PrimarySkus(f) \subseteq known
    /\ Upserted(links, LinkRows(f, ids)) = links
    /\ Upserted(parents, SuperLinkRows(f, ids)) = parents
    /\ Upserted(supers, SuperAttributeRows(f)) = supers
    /\ Replaced(bundles, KeysOf(BundleRows(f, ids)), BundleRows(f, ids)) = bundles
    /\ Replaced(options, KeysOf(OptionRows(f)), OptionRows(f)) = options
    /\ Replaced(downloads, Touched(f), DownloadRows(f)) = downloads
    /\ Replaced(samples, Touched(f), SampleRows(f)) = samples
    /\ Upserted(tiers, TierRows(f)) = tiers

SettledInv ==
    /\ IsTable(links) /\ IsTable(parents) /\ IsTable(supers) /\ IsTable(tiers)
    /\ history # <<>> => Settled(Last(history), Resolved(Last(history), known))

\* The skus a file creates resolve to the same ids before and after.
LEMMA ResolvedAgain ==
    ASSUME NEW f, NEW present
    PROVE  Resolved(f, present \cup PrimarySkus(f)) = Resolved(f, present)
BY DEF Resolved

LEMMA ImportSettles ==
    ASSUME SettledInv, NEW f \in Files, ImportFile(f), history' = Append(history, f),
           Last(history') = f, history' # <<>>
    PROVE  SettledInv'
<1>0. PICK ids : ids = Resolved(f, known)
  OBVIOUS
<1> DEFINE bundled == BundleRows(f, ids)
           opts == OptionRows(f)
<1>1. /\ known' = known \cup PrimarySkus(f)
      /\ links' = Upserted(links, LinkRows(f, ids))
      /\ parents' = Upserted(parents, SuperLinkRows(f, ids))
      /\ supers' = Upserted(supers, SuperAttributeRows(f))
      /\ tiers' = Upserted(tiers, TierRows(f))
      /\ bundles' = Replaced(bundles, KeysOf(bundled), bundled)
      /\ options' = Replaced(options, KeysOf(opts), opts)
      /\ downloads' = Replaced(downloads, Touched(f), DownloadRows(f))
      /\ samples' = Replaced(samples, Touched(f), SampleRows(f))
  BY <1>0 DEF ImportFile
<1>2. Resolved(f, known') = ids
  BY <1>0, <1>1, ResolvedAgain
<1>3. /\ IsSeq(LinkRows(f, ids)) /\ IsSeq(SuperLinkRows(f, ids))
      /\ IsSeq(SuperAttributeRows(f)) /\ IsSeq(TierRows(f))
  BY LinkRowsAreSeq, SuperLinkRowsAreSeq, SuperAttributeRowsAreSeq, TierRowsAreSeq
<1>4. /\ IsTable(links') /\ IsTable(parents') /\ IsTable(supers') /\ IsTable(tiers')
      /\ Upserted(links', LinkRows(f, ids)) = links'
      /\ Upserted(parents', SuperLinkRows(f, ids)) = parents'
      /\ Upserted(supers', SuperAttributeRows(f)) = supers'
      /\ Upserted(tiers', TierRows(f)) = tiers'
  BY <1>1, <1>3, UpsertedSettles DEF SettledInv
<1>5. /\ Replaced(bundles', KeysOf(bundled), bundled) = bundles'
      /\ Replaced(options', KeysOf(opts), opts) = options'
      /\ Replaced(downloads', Touched(f), DownloadRows(f)) = downloads'
      /\ Replaced(samples', Touched(f), SampleRows(f)) = samples'
  <2> HIDE DEF bundled, opts
  <2> QED BY <1>1, ReplacedTwice
<1>6. PrimarySkus(f) \subseteq known'
  BY <1>1
<1> DEFINE S == Settled(Last(history), Resolved(Last(history), known))
<1>7. S'
  <2>1. Settled(f, ids)'
    BY <1>4, <1>5, <1>6 DEF Settled
  <2> QED BY <1>2, <2>1
<1> HIDE DEF S
<1> QED BY <1>4, <1>7 DEF SettledInv, S

LEMMA SettledInvariant == ImportSpec => []SettledInv
<1>1. ImportInit => SettledInv
  BY DEF ImportInit, Init, SettledInv, IsTable, EmptyTable
<1>2. HistoryOK /\ SettledInv /\ [ImportNext]_allVars => SettledInv'
  <2> SUFFICES ASSUME HistoryOK, SettledInv, [ImportNext]_allVars PROVE SettledInv'
    OBVIOUS
  <2>1. CASE UNCHANGED vars
    BY <2>1 DEF vars, tables, SettledInv, Settled
  <2>2. ASSUME NEW f \in Files, ImportCsv(f), history' = Append(history, f)
        PROVE  SettledInv'
    <3>1. Last(history') = f /\ history' # <<>>
      BY <2>2 DEF Last, HistoryOK
    <3>2. ImportFile(f)
      BY <2>2 DEF ImportCsv
    <3> QED BY <2>2, <3>1, <3>2, ImportSettles
  <2> QED BY <2>1, <2>2, HistoryGrows
<1> QED BY <1>1, <1>2, HistoryInvariant, PTL DEF ImportSpec

\* An import of the file that was imported last changes no table that is
\* upserted or replaced, for any file: the skus it names resolve to the same
\* ids, and the rows it upserts or inserts are those it finds.
THEOREM ReimportIsQuiet == ImportSpec => ReimportChangesNothing
<1> DEFINE Quiet == (history # <<>> /\ Last(history') = Last(history)) => UNCHANGED tables
<1>1. HistoryOK /\ SettledInv /\ [ImportNext]_allVars => [Quiet]_vars
  <2> SUFFICES ASSUME HistoryOK, SettledInv, [ImportNext]_allVars, vars' # vars,
                      history # <<>>, Last(history') = Last(history)
               PROVE  UNCHANGED tables
    OBVIOUS
  <2>1. PICK f \in Files : ImportCsv(f) /\ history' = Append(history, f)
    BY HistoryGrows DEF vars
  <2>2. Last(history) = f
    BY <2>1 DEF Last, HistoryOK
  <2> DEFINE ids == Resolved(f, known)
             bundled == BundleRows(f, ids)
             opts == OptionRows(f)
  <2>3. Settled(f, ids)
    BY <2>2 DEF SettledInv
  <2>4. /\ known' = known \cup PrimarySkus(f)
        /\ links' = Upserted(links, LinkRows(f, ids))
        /\ parents' = Upserted(parents, SuperLinkRows(f, ids))
        /\ supers' = Upserted(supers, SuperAttributeRows(f))
        /\ tiers' = Upserted(tiers, TierRows(f))
        /\ bundles' = Replaced(bundles, KeysOf(bundled), bundled)
        /\ options' = Replaced(options, KeysOf(opts), opts)
        /\ downloads' = Replaced(downloads, Touched(f), DownloadRows(f))
        /\ samples' = Replaced(samples, Touched(f), SampleRows(f))
    BY <2>1 DEF ImportCsv, ImportFile
  <2> HIDE DEF ids
  <2> QED BY <2>3, <2>4 DEF Settled, tables
<1> HIDE DEF Quiet
<1>2. ImportSpec => [][Quiet]_vars
  BY <1>1, HistoryInvariant, SettledInvariant, PTL DEF ImportSpec
<1> QED BY <1>2 DEF ReimportChangesNothing, Quiet

-----------------------------------------------------------------------------
(* The custom options of a product. *)

SkusOK == known \in SUBSET Sku

LEMMA OwnSkus ==
    ASSUME NEW f \in Files
    PROVE  /\ PrimarySkus(f) \in SUBSET Sku
           /\ \A n \in DOMAIN f : f[n].sku # Blank => f[n].sku \in PrimarySkus(f)
<1>1. \A n \in DOMAIN f : f[n].sku \in Name
  <2>1. \A n \in DOMAIN f : f[n] \in Line
    BY FileLines
  <2>2. \A l \in Line : l.sku \in Name
    BY DEF Line
  <2> QED BY <2>1, <2>2
<1>2. \A l \in ToSet(f) : \E n \in DOMAIN f : l = f[n]
  BY DEF ToSet
<1>3. \A n \in DOMAIN f : f[n] \in ToSet(f)
  BY DEF ToSet
<1> QED BY <1>1, <1>2, <1>3 DEF PrimarySkus, Name

LEMMA SkusInvariant == ImportSpec => []SkusOK
<1>1. ImportInit => SkusOK
  BY ListColumnsAssumption DEF ImportInit, Init, SkusOK
<1>2. HistoryOK /\ SkusOK /\ [ImportNext]_allVars => SkusOK'
  <2> SUFFICES ASSUME HistoryOK, SkusOK, [ImportNext]_allVars PROVE SkusOK'
    OBVIOUS
  <2>1. CASE UNCHANGED vars
    BY <2>1 DEF vars, tables, SkusOK
  <2>2. ASSUME NEW f \in Files, ImportCsv(f) PROVE SkusOK'
    BY <2>2, OwnSkus DEF ImportCsv, ImportFile, SkusOK
  <2> QED BY <2>1, <2>2, HistoryGrows
<1> QED BY <1>1, <1>2, HistoryInvariant, PTL DEF ImportSpec

\* Every option is of a product of the file, and counts its values.
LEMMA OptionRowsOK ==
    ASSUME NEW f \in Files
    PROVE  /\ IsSeq(OptionRows(f))
           /\ \A r \in ToSet(OptionRows(f)) : \E v : r.value = <<v>>
<1> DEFINE E(m, n) == If(IsOption(f[m].options[n]),
                         Row(f[m].sku, <<OptionValues(f[m].options[n])>>))
           L(m) == [n \in DOMAIN f[m].options |-> E(m, n)]
           x == [m \in DOMAIN f |-> IF f[m].sku = Blank THEN <<>> ELSE FlattenSeq(L(m))]
           Counts(s) == IsSeq(s) /\ \A r \in ToSet(s) : \E v : r.value = <<v>>
<1>1. OptionRows(f) = FlattenSeq(x)
  BY DEF OptionRows, PerLine, PerEntry
<1>2. Len(f) \in Nat /\ DOMAIN f = 1 .. Len(f)
  BY FileLines
<1>3. \A m \in DOMAIN f : \A n \in DOMAIN f[m].options : Counts(E(m, n))
  <2> TAKE m \in DOMAIN f
  <2> TAKE n \in DOMAIN f[m].options
  <2> DEFINE r == Row(f[m].sku, <<OptionValues(f[m].options[n])>>)
  <2>1. \E v : r.value = <<v>>
    BY DEF Row
  <2> HIDE DEF r
  <2>2. IsSeq(<<r>>) /\ ToSet(<<r>>) = {r} /\ IsSeq(<<>>) /\ ToSet(<<>>) = {}
    BY OneIsSeq, EmptyIsSeq
  <2>3. E(m, n) = <<r>> \/ E(m, n) = <<>>
    BY DEF If, r
  <2> QED BY <2>1, <2>2, <2>3
<1> HIDE DEF E
<1>4. ASSUME NEW m \in DOMAIN f
      PROVE  Counts(FlattenSeq(L(m)))
  <2>1. IsSeq(f[m].options)
    BY LineCells
  <2>2. Len(f[m].options) \in Nat /\ DOMAIN f[m].options = 1 .. Len(f[m].options)
    BY <2>1, IsSeqFacts
  <2>3. /\ IsSeq(FlattenSeq(L(m)))
        /\ ToSet(FlattenSeq(L(m))) = UNION {ToSet(L(m)[n]) : n \in 1 .. Len(f[m].options)}
    BY <1>3, <2>2, MapFlattened
  <2> QED BY <1>3, <2>2, <2>3
<1> HIDE DEF L
<1>5. /\ IsSeq(FlattenSeq(x))
      /\ ToSet(FlattenSeq(x)) = UNION {ToSet(x[m]) : m \in 1 .. Len(f)}
  BY <1>2, <1>4, MapFlattened, EmptyIsSeq
<1>6. \A m \in 1 .. Len(f) : Counts(x[m])
  BY <1>2, <1>4, EmptyIsSeq
<1> HIDE DEF x
<1> QED BY <1>1, <1>5, <1>6

LEMMA JoinedIsNotEmpty ==
    ASSUME NEW rows, IsSeq(rows), \A r \in ToSet(rows) : \E v : r.value = <<v>>,
           NEW k \in KeysOf(rows)
    PROVE  Joined(rows, k) # <<>>
<1> DEFINE x == [n \in DOMAIN rows |-> IF rows[n].key = k THEN rows[n].value ELSE <<>>]
<1>1. Joined(rows, k) = FlattenSeq(x)
  BY DEF Joined
<1>2. /\ Len(rows) \in Nat /\ DOMAIN rows = 1 .. Len(rows)
      /\ ToSet(rows) = {rows[i] : i \in 1 .. Len(rows)}
  BY IsSeqFacts
<1>3. PICK m \in 1 .. Len(rows) : rows[m].key = k
  BY <1>2 DEF KeysOf
<1>4. PICK v : x[m] = <<v>>
  BY <1>2, <1>3
<1>5. \A n \in 1 .. Len(rows) : IsSeq(x[n])
  <2> TAKE n \in 1 .. Len(rows)
  <2>1. PICK w : rows[n].value = <<w>>
    BY <1>2
  <2>2. x[n] = <<>> \/ x[n] = <<w>>
    BY <1>2, <2>1
  <2>3. IsSeq(<<w>>) /\ IsSeq(<<>>)
    BY OneIsSeq, EmptyIsSeq
  <2> HIDE DEF x
  <2> QED BY <2>2, <2>3
<1>6. v \in ToSet(x[m])
  <2>1. ToSet(<<v>>) = {v}
    BY OneIsSeq
  <2> HIDE DEF x
  <2> QED BY <1>4, <2>1
<1>7. ToSet(FlattenSeq(x)) = UNION {ToSet(x[n]) : n \in 1 .. Len(rows)}
  <2>1. x = [n \in 1 .. Len(rows) |-> x[n]]
    BY <1>2
  <2> HIDE DEF x
  <2> QED BY <1>2, <1>5, <2>1, MapFlattened
<1>8. ToSet(FlattenSeq(x)) # {}
  BY <1>6, <1>7
<1> QED BY <1>1, <1>8, EmptyIsSeq

LastIn(s) == CHOOSE n \in s : \A k \in s : k <= n

LEMMA LastInExists ==
    ASSUME NEW n \in Nat, NEW s \in SUBSET (1 .. n), s # {}
    PROVE  LastIn(s) \in s /\ \A k \in s : k <= LastIn(s)
<1>1. \E x \in s : \A y \in s : y <= x
  BY GreatestExists
<1> QED BY <1>1 DEF LastIn

LEMMA LastInIs ==
    ASSUME NEW n \in Nat, NEW s \in SUBSET (1 .. n), NEW m \in s, \A k \in s : k <= m
    PROVE  LastIn(s) = m
<1>1. LastIn(s) \in s /\ \A k \in s : k <= LastIn(s)
  BY LastInExists
<1> DEFINE e == LastIn(s)
<1> HIDE DEF e
<1>2. e \in s /\ e <= m /\ m <= e
  BY <1>1 DEF e
<1>3. e \in Nat /\ m \in Nat
  BY <1>2
<1> QED BY <1>2, <1>3 DEF e

LEMMA AppendFacts ==
    ASSUME HistoryOK, NEW f \in Files, history' = Append(history, f)
    PROVE  /\ Len(history) \in Nat /\ DOMAIN history = 1 .. Len(history)
           /\ DOMAIN history' = 1 .. Len(history) + 1
           /\ history'[Len(history) + 1] = f
           /\ \A n \in DOMAIN history : history'[n] = history[n] /\ history[n] \in Files
BY DEF HistoryOK

\* The files so far that have a valid custom option for p.
Listing(p) == {n \in DOMAIN history : p \in KeysOf(OptionRows(history[n]))}

OptionsInv ==
    \A p \in Sku :
        IF Listing(p) = {} THEN p \notin DOMAIN options
        ELSE /\ p \in DOMAIN options
             /\ options[p] = Joined(OptionRows(history[LastIn(Listing(p))]), p)

LEMMA OptionsStep ==
    ASSUME HistoryOK, OptionsInv, NEW f \in Files, ImportFile(f),
           history' = Append(history, f)
    PROVE  OptionsInv'
<1> DEFINE n == Len(history)
           rows == OptionRows(f)
           keys == KeysOf(rows)
<1>1. options' = [k \in DOMAIN options \cup keys |->
                    IF k \in keys THEN Joined(rows, k) ELSE options[k]]
  BY DEF ImportFile, Replaced
<1>2. /\ n \in Nat /\ DOMAIN history = 1 .. n /\ DOMAIN history' = 1 .. n + 1
      /\ history'[n + 1] = f
      /\ \A m \in 1 .. n : history'[m] = history[m]
  BY AppendFacts
<1> HIDE DEF n
<1> SUFFICES ASSUME NEW p \in Sku
             PROVE  IF Listing(p)' = {} THEN p \notin DOMAIN options'
                    ELSE /\ p \in DOMAIN options'
                         /\ options'[p] = Joined(OptionRows(history'[LastIn(Listing(p)')]), p)
  BY DEF OptionsInv
<1>3. Listing(p)' = IF p \in keys THEN Listing(p) \cup {n + 1} ELSE Listing(p)
  <2>1. Listing(p)' = {m \in 1 .. n + 1 : p \in KeysOf(OptionRows(history'[m]))}
    BY <1>2 DEF Listing
  <2>2. Listing(p) = {m \in 1 .. n : p \in KeysOf(OptionRows(history[m]))}
    BY <1>2 DEF Listing
  <2> QED BY <1>2, <2>1, <2>2
<1>4. Listing(p) \in SUBSET (1 .. n)
  BY <1>2 DEF Listing
<1> DEFINE o == Listing(p)
           w == Listing(p)'
<1>5. CASE p \in keys
  <2> HIDE DEF o, w
  <2>1. w \in SUBSET (1 .. n + 1) /\ n + 1 \in w /\ \A k \in w : k <= n + 1
    BY <1>2, <1>3, <1>4, <1>5 DEF o, w
  <2>2. n + 1 \in Nat
    BY <1>2
  <2>3. LastIn(w) = n + 1
    BY <2>1, <2>2, LastInIs
  <2>4. w # {}
    BY <2>1
  <2>5. options'[p] = Joined(rows, p) /\ p \in DOMAIN options'
    BY <1>1, <1>5
  <2> QED BY <1>2, <2>3, <2>4, <2>5 DEF w
<1>6. CASE p \notin keys
  <2>1. w = o
    BY <1>3, <1>6
  <2>2. IF o = {} THEN p \notin DOMAIN options
        ELSE /\ p \in DOMAIN options
             /\ options[p] = Joined(OptionRows(history[LastIn(o)]), p)
    BY DEF OptionsInv
  <2>3. o # {} => history'[LastIn(o)] = history[LastIn(o)]
    BY <1>2, <1>4, LastInExists
  <2>4. (p \in DOMAIN options' <=> p \in DOMAIN options)
        /\ (p \in DOMAIN options => options'[p] = options[p])
    BY <1>1, <1>6
  <2> HIDE DEF o, w
  <2> QED BY <2>1, <2>2, <2>3, <2>4 DEF w
<1> QED BY <1>5, <1>6

LEMMA OptionsInvariant == ImportSpec => []OptionsInv
<1>1. ImportInit => OptionsInv
  <2> SUFFICES ASSUME ImportInit PROVE OptionsInv
    OBVIOUS
  <2>1. history = <<>> /\ DOMAIN options = {}
    BY DEF ImportInit, Init, EmptyTable
  <2> QED BY <2>1 DEF OptionsInv, Listing
<1>2. HistoryOK /\ OptionsInv /\ [ImportNext]_allVars => OptionsInv'
  <2> SUFFICES ASSUME HistoryOK, OptionsInv, [ImportNext]_allVars PROVE OptionsInv'
    OBVIOUS
  <2>1. CASE UNCHANGED vars
    <3>1. options' = options /\ history' = history
      BY <2>1 DEF vars, tables
    <3> QED BY <3>1 DEF OptionsInv, Listing
  <2>2. ASSUME NEW f \in Files, ImportCsv(f), history' = Append(history, f)
        PROVE  OptionsInv'
    <3>1. ImportFile(f)
      BY <2>2 DEF ImportCsv
    <3> QED BY <2>2, <3>1, OptionsStep
  <2> QED BY <2>1, <2>2, HistoryGrows
<1> QED BY <1>1, <1>2, HistoryInvariant, PTL DEF ImportSpec

\* A product's custom options are those of the last file that had valid ones
\* for it, whatever the files and their number: no file's options are merged
\* with another's, and those of one file's lines all are.
THEOREM OptionsAreOfLastFile == ImportSpec => []OptionsOfLastFile
<1>1. HistoryOK /\ SkusOK /\ OptionsInv => OptionsOfLastFile
  <2> SUFFICES ASSUME HistoryOK, SkusOK, OptionsInv, NEW p \in known
               PROVE  LET o == LastListed(p, OptionRows) IN
                      IF o = <<>> THEN p \notin DOMAIN options ELSE options[p] = o
    BY DEF OptionsOfLastFile
  <2> DEFINE s == Listing(p)
             rows == OptionRows(history[LastIn(s)])
  <2>1. LastListed(p, OptionRows) = IF s = {} THEN <<>> ELSE Joined(rows, p)
    BY DEF LastListed, Listing, LastIn
  <2>2. IF s = {} THEN p \notin DOMAIN options ELSE options[p] = Joined(rows, p)
    BY DEF SkusOK, OptionsInv
  <2>3. s # {} => Joined(rows, p) # <<>>
    <3> SUFFICES ASSUME s # {} PROVE Joined(rows, p) # <<>>
      OBVIOUS
    <3>1. Len(history) \in Nat /\ DOMAIN history = 1 .. Len(history)
          /\ \A n \in DOMAIN history : history[n] \in Files
      BY DEF HistoryOK
    <3>2. s \in SUBSET (1 .. Len(history))
      BY <3>1 DEF Listing
    <3>3. LastIn(s) \in s
      BY <3>1, <3>2, LastInExists
    <3>4. history[LastIn(s)] \in Files /\ p \in KeysOf(rows)
      BY <3>1, <3>3 DEF Listing
    <3>5. IsSeq(rows) /\ \A r \in ToSet(rows) : \E v : r.value = <<v>>
      BY <3>4, OptionRowsOK
    <3> HIDE DEF rows
    <3> QED BY <3>4, <3>5, JoinedIsNotEmpty
  <2> HIDE DEF s, rows
  <2> QED BY <2>1, <2>2, <2>3
<1> QED BY <1>1, HistoryInvariant, SkusInvariant, OptionsInvariant, PTL

-----------------------------------------------------------------------------
(* The parent of a product: the last row of a file that names it as a child. *)

\* The last row with key k has value v.
LastHas(rows, k, v) ==
    \E i \in 1 .. Len(rows) :
        /\ rows[i].key = k /\ rows[i].value = v
        /\ \A j \in 1 .. Len(rows) : rows[j].key = k => j <= i

LEMMA ConcatenatedLast ==
    ASSUME NEW a, NEW b, IsSeq(a), IsSeq(b), NEW k, NEW v,
           LastHas(b, k, v) \/ (LastHas(a, k, v) /\ k \notin KeysOf(b))
    PROVE  LastHas(a \o b, k, v)
<1> DEFINE c == a \o b
<1>1. /\ Len(c) = Len(a) + Len(b)
      /\ \A i \in 1 .. Len(a) : c[i] = a[i]
      /\ \A i \in 1 .. Len(b) : c[Len(a) + i] = b[i]
  BY Concatenated
<1> HIDE DEF c
<1>2. Len(a) \in Nat /\ Len(b) \in Nat /\ ToSet(b) = {b[i] : i \in 1 .. Len(b)}
  BY IsSeqFacts
<1>3. ASSUME NEW j \in 1 .. Len(c)
      PROVE  j \in 1 .. Len(a) \/ \E i \in 1 .. Len(b) : j = Len(a) + i
  <2>1. j \in 1 .. Len(a) \/ (j - Len(a) \in 1 .. Len(b) /\ j = Len(a) + (j - Len(a)))
    BY <1>1, <1>2
  <2> QED BY <2>1
<1>4. CASE LastHas(b, k, v)
  <2>1. PICK e \in 1 .. Len(b) :
               /\ b[e].key = k /\ b[e].value = v
               /\ \A j \in 1 .. Len(b) : b[j].key = k => j <= e
    BY <1>4 DEF LastHas
  <2>2. Len(a) + e \in 1 .. Len(c)
    BY <1>1, <1>2
  <2>3. ASSUME NEW j \in 1 .. Len(c), c[j].key = k
        PROVE  j <= Len(a) + e
    <3>1. CASE j \in 1 .. Len(a)
      BY <1>2, <3>1
    <3>2. ASSUME NEW i \in 1 .. Len(b), j = Len(a) + i PROVE j <= Len(a) + e
      <4>1. b[i].key = k
        BY <1>1, <2>3, <3>2
      <4>2. i <= e
        BY <2>1, <4>1
      <4> QED BY <1>2, <3>2, <4>2
    <3> QED BY <1>3, <3>1, <3>2
  <2>4. c[Len(a) + e] = b[e]
    BY <1>1
  <2>5. LastHas(c, k, v)
    BY <2>1, <2>2, <2>3, <2>4 DEF LastHas
  <2> QED BY <2>5 DEF c
<1>5. CASE LastHas(a, k, v) /\ k \notin KeysOf(b)
  <2>1. PICK e \in 1 .. Len(a) :
               /\ a[e].key = k /\ a[e].value = v
               /\ \A j \in 1 .. Len(a) : a[j].key = k => j <= e
    BY <1>5 DEF LastHas
  <2>2. e \in 1 .. Len(c) /\ c[e] = a[e]
    BY <1>1, <1>2
  <2>3. ASSUME NEW j \in 1 .. Len(c), c[j].key = k
        PROVE  j <= e
    <3>1. CASE j \in 1 .. Len(a)
      BY <1>1, <2>1, <2>3, <3>1
    <3>2. ASSUME NEW i \in 1 .. Len(b), j = Len(a) + i PROVE FALSE
      <4>1. b[i].key = k
        BY <1>1, <2>3, <3>2
      <4> QED BY <1>2, <1>5, <4>1 DEF KeysOf
    <3> QED BY <1>3, <3>1, <3>2
  <2>4. LastHas(c, k, v)
    BY <2>1, <2>2, <2>3 DEF LastHas
  <2> QED BY <2>4 DEF c
<1> QED BY <1>4, <1>5

LEMMA FlattenedLast ==
    ASSUME NEW seqs, IsSeq(seqs), \A i \in DOMAIN seqs : IsSeq(seqs[i]),
           NEW j \in DOMAIN seqs, NEW k, NEW v, LastHas(seqs[j], k, v),
           \A i \in DOMAIN seqs : i > j => k \notin KeysOf(seqs[i])
    PROVE  LastHas(FlattenSeq(seqs), k, v)
<1> DEFINE n == Len(seqs)
<1>1. n \in Nat /\ DOMAIN seqs = 1 .. n
  BY IsSeqFacts
<1> HIDE DEF n
<1>2. n # 0 /\ j \in 1 .. n
  BY <1>1
<1>3. PICK g : /\ g[1] = seqs[1] /\ g[n] = FlattenSeq(seqs)
               /\ \A i \in 1 .. n : i # 1 => g[i] = g[i - 1] \o seqs[i]
  BY <1>1, <1>2, FlatSteps DEF n
<1> DEFINE OK(m) == IsSeq(g[m]) /\ (j <= m => LastHas(g[m], k, v))
           G == {m \in Nat : m + 1 <= n => OK(m + 1)}
<1>4. 0 \in G
  <2>1. OK(1)
    BY <1>1, <1>2, <1>3
  <2> HIDE DEF OK
  <2> QED BY <2>1
<1>5. ASSUME NEW m \in G PROVE m + 1 \in G
  <2> DEFINE p == m + 1
             q == p + 1
  <2>0. m \in Nat
    OBVIOUS
  <2> SUFFICES ASSUME q <= n PROVE OK(q)
    OBVIOUS
  <2>1. p \in 1 .. n /\ q \in 1 .. n /\ q # 1 /\ q - 1 = p
    BY <1>1, <2>0
  <2>2. OK(p)
    BY <1>1, <2>0
  <2>3. j <= q => j = q \/ (j <= p /\ q > j)
    BY <1>1, <2>0
  <2> HIDE DEF p, q
  <2>4. g[q] = g[p] \o seqs[q]
    BY <1>3, <2>1
  <2>5. IsSeq(seqs[q]) /\ IsSeq(g[p])
    BY <1>1, <2>1, <2>2
  <2>6. IsSeq(g[q])
    BY <2>4, <2>5, Concatenated
  <2>7. CASE j = q
    <3>1. LastHas(seqs[q], k, v)
      BY <2>7
    <3>2. LastHas(g[p] \o seqs[q], k, v)
      BY <2>5, <3>1, ConcatenatedLast
    <3> QED BY <2>4, <2>6, <3>2
  <2>8. CASE j <= p /\ q > j
    <3>1. LastHas(g[p], k, v) /\ k \notin KeysOf(seqs[q])
      BY <1>1, <2>1, <2>2, <2>8
    <3>2. LastHas(g[p] \o seqs[q], k, v)
      BY <2>5, <3>1, ConcatenatedLast
    <3> QED BY <2>4, <2>6, <3>2
  <2>9. CASE ~ (j <= q)
    BY <2>6, <2>9
  <2> QED BY <2>3, <2>7, <2>8, <2>9
<1>6. G = Nat
  BY <1>4, <1>5, UpTo, G \in SUBSET Nat
<1>7. n - 1 \in Nat /\ (n - 1) + 1 = n /\ j <= n /\ n <= n
  BY <1>1, <1>2
<1>8. OK(n)
  BY <1>6, <1>7
<1> QED BY <1>3, <1>7, <1>8

\* Table t is "table" with the last of the rows of each key.
IsUpserted(t, table, rows) ==
    /\ DOMAIN t = DOMAIN table \cup KeysOf(rows)
    /\ \A k \in DOMAIN table \ KeysOf(rows) : t[k] = table[k]
    /\ \A k, v : LastHas(rows, k, v) => t[k] = v

LEMMA UpsertedLast ==
    ASSUME NEW table, IsTable(table), NEW rows, IsSeq(rows)
    PROVE  IsUpserted(Upserted(table, rows), table, rows)
<1> DEFINE s == DOMAIN rows
<1>1. PICK n \in Nat : n = Len(rows) /\ s = 1 .. n
  BY IsSeqFacts
<1>2. Upserted(table, rows) = With(table, rows, s)
  BY <1>1, UpsertedIs DEF IsTable
<1>3. KeysAt(rows, s) = KeysOf(rows)
  BY KeysAtAll
<1> HIDE DEF s
<1>4. ASSUME NEW k, NEW v, LastHas(rows, k, v)
      PROVE  With(table, rows, s)[k] = v
  <2>1. PICK e \in s : rows[e].value = v /\ IsLastAt(rows, s, k, e)
    BY <1>1, <1>4 DEF LastHas, IsLastAt
  <2>2. s \in SUBSET (1 .. n)
    BY <1>1
  <2>3. LastAt(rows, s, k) = e
    BY <2>1, <2>2, LastAtIs
  <2>4. k \in KeysAt(rows, s)
    BY <2>1 DEF KeysAt, IsLastAt
  <2> QED BY <2>1, <2>3, <2>4 DEF With
<1>5. IsUpserted(With(table, rows, s), table, rows)
  BY <1>3, <1>4 DEF With, IsUpserted
<1> QED BY <1>2, <1>5

\* The lines of f that name c as a child.
Parenting(f, c) ==
    {m \in DOMAIN f : f[m].sku \notin {Blank, c} /\ c \in ToSet(f[m].children)}

\* The rows of a line that name c all have the line's sku.
LEMMA ChildRows ==
    ASSUME NEW f \in Files, NEW ids, NEW m \in DOMAIN f, NEW c \in Sku,
           NEW s, s = FlattenSeq([n \in DOMAIN f[m].children |->
                          If(Refers(f[m], f[m].children[n], ids),
                             Row(f[m].children[n], f[m].sku))])
    PROVE  /\ IsSeq(s)
           /\ c \in KeysOf(s) <=> (c \in ToSet(f[m].children) /\ c # f[m].sku /\ c \in ids)
           /\ c \in KeysOf(s) => LastHas(s, c, f[m].sku)
<1> DEFINE cell == f[m].children
           E(n) == If(Refers(f[m], cell[n], ids), Row(cell[n], f[m].sku))
           x == [n \in DOMAIN cell |-> E(n)]
<1>1. s = FlattenSeq(x)
  OBVIOUS
<1>2. IsSeq(cell)
  BY LineCells
<1> HIDE DEF cell
<1>3. Len(cell) \in Nat /\ DOMAIN cell = 1 .. Len(cell) /\ ToSet(cell) = {cell[n] : n \in 1 .. Len(cell)}
  BY <1>2, IsSeqFacts
<1>4. \A n \in 1 .. Len(cell) : IsSeq(E(n))
  BY IfIsSeq
<1>5. ASSUME NEW n \in 1 .. Len(cell)
      PROVE  \A r \in ToSet(E(n)) : r.value = f[m].sku
  <2> DEFINE r == Row(cell[n], f[m].sku)
  <2>1. r.value = f[m].sku
    BY DEF Row
  <2>2. E(n) = <<r>> \/ E(n) = <<>>
    BY DEF If
  <2> HIDE DEF r, E
  <2>3. ToSet(<<r>>) = {r} /\ ToSet(<<>>) = {}
    BY OneIsSeq, EmptyIsSeq
  <2> QED BY <2>1, <2>2, <2>3
<1>6. ASSUME NEW n \in 1 .. Len(cell)
      PROVE  c \in KeysOf(E(n)) <=> (c = cell[n] /\ c # f[m].sku /\ c \in ids)
  <2> DEFINE r == Row(cell[n], f[m].sku)
  <2>1. r.key = cell[n]
    BY DEF Row
  <2>2. c # Blank
    BY ListColumnsAssumption
  <2>3. E(n) = IF Refers(f[m], cell[n], ids) THEN <<r>> ELSE <<>>
    BY DEF If
  <2> HIDE DEF r, E
  <2>4. KeysOf(<<r>>) = {r.key} /\ KeysOf(<<>>) = {}
    BY OneIsSeq, EmptyIsSeq
  <2>5. CASE Refers(f[m], cell[n], ids)
    BY <2>1, <2>2, <2>3, <2>4, <2>5 DEF Refers
  <2>6. CASE ~ Refers(f[m], cell[n], ids)
    BY <2>1, <2>2, <2>3, <2>4, <2>6 DEF Refers
  <2> QED BY <2>5, <2>6
<1> HIDE DEF E
<1>7. x = [n \in 1 .. Len(cell) |-> x[n]] /\ \A n \in 1 .. Len(cell) : x[n] = E(n)
  BY <1>3
<1> HIDE DEF x
<1>8. /\ IsSeq(s)
      /\ ToSet(s) = UNION {ToSet(E(n)) : n \in 1 .. Len(cell)}
      /\ KeysOf(s) = UNION {KeysOf(E(n)) : n \in 1 .. Len(cell)}
  <2>0. \A n \in 1 .. Len(cell) : IsSeq(x[n])
    BY <1>4, <1>7
  <2>1. /\ IsSeq(FlattenSeq(x))
        /\ ToSet(FlattenSeq(x)) = UNION {ToSet(x[n]) : n \in 1 .. Len(cell)}
        /\ KeysOf(FlattenSeq(x)) = UNION {KeysOf(x[n]) : n \in 1 .. Len(cell)}
    BY <1>3, <1>7, <2>0, MapFlattened
  <2> QED BY <1>1, <1>7, <2>1
<1>9. c \in KeysOf(s) <=> (c \in ToSet(cell) /\ c # f[m].sku /\ c \in ids)
  BY <1>3, <1>6, <1>8
<1>10. ASSUME c \in KeysOf(s)
       PROVE  LastHas(s, c, f[m].sku)
  <2>1. /\ Len(s) \in Nat /\ DOMAIN s = 1 .. Len(s)
        /\ ToSet(s) = {s[i] : i \in 1 .. Len(s)}
    BY <1>8, IsSeqFacts
  <2> DEFINE K == {i \in 1 .. Len(s) : s[i].key = c}
  <2>2. K # {} /\ K \in SUBSET (1 .. Len(s))
    BY <1>10, <2>1 DEF KeysOf
  <2>3. PICK e \in K : \A i \in K : i <= e
    BY <2>1, <2>2, GreatestExists
  <2>4. s[e].value = f[m].sku
    <3>1. s[e] \in ToSet(s)
      BY <2>1
    <3>2. PICK n \in 1 .. Len(cell) : s[e] \in ToSet(E(n))
      BY <1>8, <3>1
    <3> QED BY <1>5, <3>2
  <2> QED BY <2>3, <2>4 DEF LastHas
<1> QED BY <1>8, <1>9, <1>10 DEF cell

LEMMA ParentRows ==
    ASSUME NEW f \in Files, NEW ids, NEW c \in Sku
    PROVE  /\ c \in KeysOf(SuperLinkRows(f, ids)) <=> (Parenting(f, c) # {} /\ c \in ids)
           /\ c \in KeysOf(SuperLinkRows(f, ids)) =>
                LastHas(SuperLinkRows(f, ids), c, f[LastIn(Parenting(f, c))].sku)
<1> DEFINE B(m) == FlattenSeq([n \in DOMAIN f[m].children |->
                          If(Refers(f[m], f[m].children[n], ids),
                             Row(f[m].children[n], f[m].sku))])
           x == [m \in DOMAIN f |-> IF f[m].sku = Blank THEN <<>> ELSE B(m)]
           P == Parenting(f, c)
<1>1. SuperLinkRows(f, ids) = FlattenSeq(x)
  BY DEF SuperLinkRows, PerLine, PerEntry
<1>2. Len(f) \in Nat /\ DOMAIN f = 1 .. Len(f)
  BY FileLines
<1>3. ASSUME NEW m \in DOMAIN f
      PROVE  /\ IsSeq(B(m))
             /\ c \in KeysOf(B(m)) <=> (c \in ToSet(f[m].children) /\ c # f[m].sku /\ c \in ids)
             /\ c \in KeysOf(B(m)) => LastHas(B(m), c, f[m].sku)
  <2> DEFINE s == B(m)
  <2>1. s = B(m)
    OBVIOUS
  <2> HIDE DEF s
  <2>2. /\ IsSeq(s)
        /\ c \in KeysOf(s) <=> (c \in ToSet(f[m].children) /\ c # f[m].sku /\ c \in ids)
        /\ c \in KeysOf(s) => LastHas(s, c, f[m].sku)
    BY <2>1, ChildRows
  <2> QED BY <2>2 DEF s
<1> HIDE DEF B
<1>4. \A m \in DOMAIN f : x[m] = IF f[m].sku = Blank THEN <<>> ELSE B(m)
  OBVIOUS
<1>5. x = [m \in 1 .. Len(f) |-> x[m]] /\ DOMAIN x = 1 .. Len(f)
  BY <1>2
<1> HIDE DEF x
<1>6. ASSUME NEW m \in DOMAIN f
      PROVE  /\ IsSeq(x[m])
             /\ c \in KeysOf(x[m]) <=> (m \in P /\ c \in ids)
             /\ c \in KeysOf(x[m]) => LastHas(x[m], c, f[m].sku)
  <2>1. CASE f[m].sku = Blank
    BY <1>4, <2>1, EmptyIsSeq DEF Parenting
  <2>2. CASE f[m].sku # Blank
    BY <1>3, <1>4, <2>2 DEF Parenting
  <2> QED BY <2>1, <2>2
<1>7. KeysOf(FlattenSeq(x)) = UNION {KeysOf(x[m]) : m \in 1 .. Len(f)}
  BY <1>2, <1>5, <1>6, MapFlattened
<1>8. P \in SUBSET (1 .. Len(f))
  BY <1>2 DEF Parenting
<1>9. c \in KeysOf(FlattenSeq(x)) <=> (P # {} /\ c \in ids)
  BY <1>2, <1>6, <1>7, <1>8
<1>10. ASSUME P # {}, c \in ids
       PROVE  LastHas(FlattenSeq(x), c, f[LastIn(P)].sku)
  <2> DEFINE e == LastIn(P)
  <2>1. e \in P /\ \A i \in P : i <= e
    BY <1>2, <1>8, <1>10, LastInExists
  <2> HIDE DEF e, P
  <2>2. e \in 1 .. Len(f) /\ LastHas(x[e], c, f[e].sku)
    BY <1>2, <1>6, <1>8, <1>10, <2>1
  <2>3. \A i \in 1 .. Len(f) : i > e => c \notin KeysOf(x[i])
    BY <1>2, <1>6, <2>1, <2>2
  <2>4. IsSeq(x) /\ DOMAIN x = 1 .. Len(f)
    BY <1>2, <1>5, MapIsSeq
  <2>5. \A i \in DOMAIN x : IsSeq(x[i])
    BY <1>2, <1>6, <2>4
  <2>6. LastHas(FlattenSeq(x), c, f[e].sku)
    BY <2>2, <2>3, <2>4, <2>5, FlattenedLast
  <2> QED BY <2>6 DEF e
<1> HIDE DEF P
<1>11. c \in KeysOf(FlattenSeq(x)) => LastHas(FlattenSeq(x), c, f[LastIn(P)].sku)
  BY <1>9, <1>10
<1> QED BY <1>1, <1>9, <1>11 DEF P

\* The database has the products from before and those the files created.
KnownInv ==
    known = Existing \cup UNION {PrimarySkus(history[m]) : m \in DOMAIN history}

\* Product c is there once the first n of some files are imported.
WasThere(h, c, n) == c \in Existing \/ \E m \in 1 .. n : c \in PrimarySkus(h[m])

\* The lines of the files h that gave child c a parent while both existed.
Giving(h, c) ==
    {g \in UNION {{n} \X DOMAIN h[n] : n \in DOMAIN h} :
        /\ h[g[1]][g[2]].sku \notin {Blank, c}
        /\ c \in ToSet(h[g[1]][g[2]].children)
        /\ \/ c \in Existing
           \/ \E m \in 1 .. g[1] : c \in PrimarySkus(h[m])}

IsLastGiving(g, s) ==
    g \in s /\ \A h \in s : h[1] < g[1] \/ (h[1] = g[1] /\ h[2] <= g[2])

ParentsInv ==
    \A c \in Sku :
        IF Giving(history, c) = {} THEN c \notin DOMAIN parents
        ELSE /\ c \in DOMAIN parents
             /\ \E g : /\ IsLastGiving(g, Giving(history, c))
                       /\ parents[c] = history[g[1]][g[2]].sku

LEMMA GivingIs ==
    ASSUME NEW h, NEW c
    PROVE  \A g : g \in Giving(h, c) <=>
             \E n \in DOMAIN h : \E m \in Parenting(h[n], c) :
                g = <<n, m>> /\ WasThere(h, c, n)
<1>1. ASSUME NEW g \in Giving(h, c)
      PROVE  \E n \in DOMAIN h : \E m \in Parenting(h[n], c) :
                g = <<n, m>> /\ WasThere(h, c, n)
  <2>1. PICK n \in DOMAIN h : g \in {n} \X DOMAIN h[n]
    BY DEF Giving
  <2>2. PICK m \in DOMAIN h[n] : g = <<n, m>>
    BY <2>1
  <2>3. g[1] = n /\ g[2] = m
    BY <2>2
  <2> QED BY <2>2, <2>3 DEF Giving, Parenting, WasThere
<1>2. ASSUME NEW n \in DOMAIN h, NEW m \in Parenting(h[n], c), WasThere(h, c, n)
      PROVE  <<n, m>> \in Giving(h, c)
  <2> DEFINE g == <<n, m>>
  <2>1. g[1] = n /\ g[2] = m /\ g \in {n} \X DOMAIN h[n]
    BY DEF Parenting
  <2> HIDE DEF g
  <2>2. g \in Giving(h, c)
    BY <1>2, <2>1 DEF Giving, Parenting, WasThere
  <2> QED BY <2>2 DEF g
<1> QED BY <1>1, <1>2

LEMMA KnownInvariant == ImportSpec => []KnownInv
<1>1. ImportInit => KnownInv
  BY DEF ImportInit, Init, KnownInv
<1>2. HistoryOK /\ KnownInv /\ [ImportNext]_allVars => KnownInv'
  <2> SUFFICES ASSUME HistoryOK, KnownInv, [ImportNext]_allVars PROVE KnownInv'
    OBVIOUS
  <2>1. CASE UNCHANGED vars
    <3>1. known' = known /\ history' = history
      BY <2>1 DEF vars, tables
    <3> QED BY <3>1 DEF KnownInv
  <2>2. ASSUME NEW f \in Files, ImportCsv(f), history' = Append(history, f)
        PROVE  KnownInv'
    <3> DEFINE n == Len(history)
    <3>1. known' = known \cup PrimarySkus(f)
      BY <2>2 DEF ImportCsv, ImportFile
    <3>2. /\ n \in Nat /\ DOMAIN history = 1 .. n /\ DOMAIN history' = 1 .. n + 1
          /\ history'[n + 1] = f
          /\ \A m \in 1 .. n : history'[m] = history[m]
      BY <2>2, AppendFacts
    <3> HIDE DEF n
    <3>3. 1 .. n + 1 = (1 .. n) \cup {n + 1}
      BY <3>2
    <3>4. {PrimarySkus(history'[m]) : m \in 1 .. n + 1}
            = {PrimarySkus(history[m]) : m \in 1 .. n} \cup {PrimarySkus(f)}
      BY <3>2, <3>3
    <3> QED BY <3>1, <3>2, <3>4 DEF KnownInv
  <2> QED BY <2>1, <2>2, HistoryGrows
<1> QED BY <1>1, <1>2, HistoryInvariant, PTL DEF ImportSpec

\* A child that a line names resolves if it is there, or is created, by then.
LEMMA ChildResolves ==
    ASSUME NEW f \in Files, NEW c \in Sku, Parenting(f, c) # {}, NEW present
    PROVE  c \in Resolved(f, present) <=> c \in present \cup PrimarySkus(f)
<1>1. PICK m \in DOMAIN f : c \in ToSet(f[m].children)
  BY DEF Parenting
<1>2. f[m] \in ToSet(f) /\ c # Blank
  BY ListColumnsAssumption DEF ToSet
<1>3. c \in ChildSkus(f)
  BY <1>1, <1>2 DEF ChildSkus
<1> QED BY <1>3 DEF Resolved

LEMMA ParentsStep ==
    ASSUME HistoryOK, KnownInv, KnownInv', SettledInv, ParentsInv, NEW f \in Files,
           ImportFile(f), history' = Append(history, f)
    PROVE  ParentsInv'
<1>0. PICK ids : ids = Resolved(f, known)
  OBVIOUS
<1> DEFINE n == Len(history)
           rows == SuperLinkRows(f, ids)
<1>1. parents' = Upserted(parents, rows) /\ known' = known \cup PrimarySkus(f)
  BY <1>0 DEF ImportFile
<1>2. /\ n \in Nat /\ DOMAIN history = 1 .. n /\ DOMAIN history' = 1 .. n + 1
      /\ history'[n + 1] = f
      /\ \A m \in 1 .. n : history'[m] = history[m]
  BY AppendFacts
<1> HIDE DEF n
<1>3. /\ DOMAIN parents' = DOMAIN parents \cup KeysOf(rows)
      /\ \A k \in DOMAIN parents \ KeysOf(rows) : parents'[k] = parents[k]
      /\ \A k, v : LastHas(rows, k, v) => parents'[k] = v
  <2>1. IsSeq(rows) /\ IsTable(parents)
    BY SuperLinkRowsAreSeq DEF SettledInv
  <2> HIDE DEF rows
  <2>2. IsUpserted(parents', parents, rows)
    BY <1>1, <2>1, UpsertedLast
  <2> QED BY <2>2 DEF IsUpserted
<1> SUFFICES ASSUME NEW c \in Sku
             PROVE  IF Giving(history', c) = {} THEN c \notin DOMAIN parents'
                    ELSE /\ c \in DOMAIN parents'
                         /\ \E g : /\ IsLastGiving(g, Giving(history', c))
                                   /\ parents'[c] = history'[g[1]][g[2]].sku
  BY DEF ParentsInv, IsLastGiving
<1> DEFINE P == Parenting(f, c)
<1>4. /\ c \in KeysOf(rows) <=> (P # {} /\ c \in ids)
      /\ c \in KeysOf(rows) => LastHas(rows, c, f[LastIn(P)].sku)
  BY ParentRows
<1>5. WasThere(history', c, n + 1) <=> c \in known'
  BY <1>2 DEF WasThere, KnownInv
<1>6. P # {} => (c \in ids <=> c \in known')
  BY <1>0, <1>1, ChildResolves
<1> HIDE DEF P, rows
<1>7. c \in KeysOf(rows) <=> (P # {} /\ WasThere(history', c, n + 1))
  BY <1>4, <1>5, <1>6
<1>8. \A i \in 1 .. n : WasThere(history', c, i) <=> WasThere(history, c, i)
  BY <1>2 DEF WasThere
<1>9. \A g : g \in Giving(history, c) <=>
        \E i \in 1 .. n : \E m \in Parenting(history[i], c) :
           g = <<i, m>> /\ WasThere(history, c, i)
  BY <1>2, GivingIs
<1>10. \A g : g \in Giving(history', c) <=>
         \E i \in 1 .. n + 1 : \E m \in Parenting(history'[i], c) :
            g = <<i, m>> /\ WasThere(history', c, i)
  BY <1>2, GivingIs
<1>11. \A g : g \in Giving(history', c) <=>
         g \in Giving(history, c) \/ \E m \in P : g = <<n + 1, m>> /\ WasThere(history', c, n + 1)
  <2>1. 1 .. n + 1 = (1 .. n) \cup {n + 1}
    BY <1>2
  <2> QED BY <1>2, <1>8, <1>9, <1>10, <2>1 DEF P
<1>12. CASE c \in KeysOf(rows)
  <2> DEFINE e == LastIn(P)
             g == <<n + 1, e>>
  <2>1. P # {} /\ WasThere(history', c, n + 1) /\ LastHas(rows, c, f[e].sku)
    BY <1>4, <1>7, <1>12
  <2>2. e \in P /\ \A m \in P : m <= e
    <3>1. Len(f) \in Nat /\ P \in SUBSET (1 .. Len(f))
      BY FileLines DEF P, Parenting
    <3> QED BY <2>1, <3>1, LastInExists
  <2> HIDE DEF e
  <2>3. g \in Giving(history', c) /\ g[1] = n + 1 /\ g[2] = e
    BY <1>11, <2>1, <2>2
  <2>4. ASSUME NEW h \in Giving(history', c)
        PROVE  h[1] < n + 1 \/ (h[1] = n + 1 /\ h[2] <= e)
    <3>1. CASE h \in Giving(history, c)
      <4>1. PICK i \in 1 .. n : h[1] = i
        BY <1>9, <3>1
      <4> QED BY <1>2, <4>1
    <3>2. ASSUME NEW m \in P, h = <<n + 1, m>>
          PROVE  h[1] = n + 1 /\ h[2] <= e
      BY <2>2, <3>2
    <3> QED BY <1>11, <3>1, <3>2
  <2>5. parents'[c] = f[e].sku /\ c \in DOMAIN parents'
    BY <1>3, <1>12, <2>1
  <2> HIDE DEF g
  <2>6. IsLastGiving(g, Giving(history', c))
    BY <2>3, <2>4 DEF IsLastGiving
  <2>7. parents'[c] = history'[g[1]][g[2]].sku
    BY <1>2, <2>3, <2>5
  <2> QED BY <2>3, <2>5, <2>6, <2>7
<1>13. CASE c \notin KeysOf(rows)
  <2>1. Giving(history', c) = Giving(history, c)
    <3>1. \A g : g \in Giving(history', c) <=> g \in Giving(history, c)
      BY <1>7, <1>11, <1>13
    <3> QED BY <3>1
  <2>2. c \in DOMAIN parents' <=> c \in DOMAIN parents
    BY <1>3, <1>13
  <2>3. c \in DOMAIN parents => parents'[c] = parents[c]
    BY <1>3, <1>13
  <2>4. \A g \in Giving(history, c) : history'[g[1]] = history[g[1]]
    BY <1>2, <1>9
  <2>5. IF Giving(history, c) = {} THEN c \notin DOMAIN parents
        ELSE /\ c \in DOMAIN parents
             /\ \E g : /\ IsLastGiving(g, Giving(history, c))
                       /\ parents[c] = history[g[1]][g[2]].sku
    BY DEF ParentsInv
  <2>6. CASE Giving(history, c) = {}
    BY <2>1, <2>2, <2>5, <2>6
  <2>7. CASE Giving(history, c) # {}
    <3>1. PICK g : IsLastGiving(g, Giving(history, c)) /\ parents[c] = history[g[1]][g[2]].sku
      BY <2>5, <2>7
    <3>2. g \in Giving(history, c)
      BY <3>1 DEF IsLastGiving
    <3>3. parents'[c] = history'[g[1]][g[2]].sku /\ c \in DOMAIN parents'
      BY <2>2, <2>3, <2>4, <2>5, <2>7, <3>1, <3>2
    <3> QED BY <2>1, <2>7, <3>1, <3>3
  <2> QED BY <2>6, <2>7
<1> QED BY <1>12, <1>13

LEMMA ParentsInvariant == ImportSpec => []ParentsInv
<1>1. ImportInit => ParentsInv
  <2> SUFFICES ASSUME ImportInit PROVE ParentsInv
    OBVIOUS
  <2>1. history = <<>> /\ DOMAIN parents = {}
    BY DEF ImportInit, Init, EmptyTable
  <2>2. \A c : Giving(history, c) = {}
    BY <2>1, GivingIs
  <2> QED BY <2>1, <2>2 DEF ParentsInv
<1>2. HistoryOK /\ KnownInv /\ KnownInv' /\ SettledInv /\ ParentsInv /\ [ImportNext]_allVars
        => ParentsInv'
  <2> SUFFICES ASSUME HistoryOK, KnownInv, KnownInv', SettledInv, ParentsInv,
                      [ImportNext]_allVars
               PROVE  ParentsInv'
    OBVIOUS
  <2>1. CASE UNCHANGED vars
    <3>1. parents' = parents /\ history' = history
      BY <2>1 DEF vars, tables
    <3> QED BY <3>1 DEF ParentsInv, Giving, IsLastGiving
  <2>2. ASSUME NEW f \in Files, ImportCsv(f), history' = Append(history, f)
        PROVE  ParentsInv'
    <3>1. ImportFile(f)
      BY <2>2 DEF ImportCsv
    <3> QED BY <2>2, <3>1, ParentsStep
  <2> QED BY <2>1, <2>2, HistoryGrows
<1> QED BY <1>1, <1>2, HistoryInvariant, KnownInvariant, SettledInvariant, PTL DEF ImportSpec

\* A child's parent is the last one a file gave it while both existed, for
\* any files: the parent of the last such line of the last such file.
THEOREM ParentsAreLastGiven == ImportSpec => []LastParentWins
<1>0. ASSUME HistoryOK, NEW c, NEW g \in Giving(history, c)
      PROVE  g[1] \in Nat /\ g[2] \in Nat
  <2>1. PICK n \in DOMAIN history : \E m \in Parenting(history[n], c) : g = <<n, m>>
    BY <1>0, GivingIs
  <2>2. n \in Nat /\ history[n] \in Files
    BY <1>0 DEF HistoryOK
  <2>3. PICK m \in Parenting(history[n], c) : g = <<n, m>>
    BY <2>1
  <2>4. m \in Nat
    BY <2>2, FileLines DEF Parenting
  <2> QED BY <2>2, <2>3, <2>4
<1>1. HistoryOK /\ SkusOK /\ ParentsInv => LastParentWins
  <2> SUFFICES ASSUME HistoryOK, SkusOK, ParentsInv, NEW c \in known
               PROVE  IF Giving(history, c) = {} THEN c \notin DOMAIN parents
                      ELSE LET g == CHOOSE g \in Giving(history, c) : \A h \in Giving(history, c) :
                                      h[1] < g[1] \/ (h[1] = g[1] /\ h[2] <= g[2]) IN
                           c \in DOMAIN parents /\ parents[c] = history[g[1]][g[2]].sku
    BY DEF LastParentWins, Giving
  <2> DEFINE s == Giving(history, c)
             last == CHOOSE g \in s : \A h \in s :
                       h[1] < g[1] \/ (h[1] = g[1] /\ h[2] <= g[2])
  <2>1. IF s = {} THEN c \notin DOMAIN parents
        ELSE /\ c \in DOMAIN parents
             /\ \E g : IsLastGiving(g, s) /\ parents[c] = history[g[1]][g[2]].sku
    BY DEF SkusOK, ParentsInv
  <2>2. CASE s # {}
    <3>1. PICK g : IsLastGiving(g, s) /\ parents[c] = history[g[1]][g[2]].sku
      BY <2>1, <2>2
    <3> HIDE DEF s
    <3>2. IsLastGiving(last, s)
      BY <3>1 DEF IsLastGiving
    <3> HIDE DEF last
    <3>5. g[1] \in Nat /\ g[2] \in Nat /\ last[1] \in Nat /\ last[2] \in Nat
      BY <1>0, <3>1, <3>2 DEF IsLastGiving, s
    <3>3. \/ last[1] < g[1] \/ (last[1] = g[1] /\ last[2] <= g[2])
      BY <3>1, <3>2 DEF IsLastGiving
    <3>4. \/ g[1] < last[1] \/ (last[1] = g[1] /\ g[2] <= last[2])
      BY <3>1, <3>2 DEF IsLastGiving
    <3>6. last[1] = g[1] /\ last[2] = g[2]
      BY <3>3, <3>4, <3>5
    <3>7. c \in DOMAIN parents /\ parents[c] = history[last[1]][last[2]].sku
      BY <2>1, <2>2, <3>1, <3>6
    <3> QED BY <2>2, <3>7 DEF last, s
  <2>3. CASE s = {}
    BY <2>1, <2>3
  <2> QED BY <2>2, <2>3
<1> QED BY <1>1, HistoryInvariant, SkusInvariant, ParentsInvariant, PTL


-----------------------------------------------------------------------------
(* The gallery: two folds, one that drops the images a product has twice,  *)
(* one that inserts what is left chunk by chunk.                           *)

NotTwice(seen, r) == IF Contains(seen, r) THEN seen ELSE Append(seen, r)

FoldStep(kind, acc, x) == IF kind = "once" THEN NotTwice(acc, x) ELSE Inserted(acc, x)

\* g is the recursive function that such a fold is, of sequences of length n.
IsFold(g, kind, base, seq, n) ==
    g = [s \in SUBSET (1 .. n) |->
           IF s = {} THEN base ELSE FoldStep(kind, g[s \ {Max(s)}], seq[Max(s)])]

LEMMA FoldExists ==
    ASSUME NEW kind, NEW base, NEW seq, NEW n \in Nat
    PROVE  \E g : IsFold(g, kind, base, seq, n)
<1> DEFINE G == {m \in Nat : \E g : IsFold(g, kind, base, seq, m)}
<1>1. 0 \in G
  <2> DEFINE g == [s \in SUBSET (1 .. 0) |-> base]
  <2>1. \A s \in SUBSET (1 .. 0) : s = {}
    OBVIOUS
  <2>2. IsFold(g, kind, base, seq, 0)
    BY <2>1 DEF IsFold
  <2> QED BY <2>2
<1>2. ASSUME NEW m \in G PROVE m + 1 \in G
  <2>1. m \in Nat
    OBVIOUS
  <2>2. PICK g : IsFold(g, kind, base, seq, m)
    OBVIOUS
  <2> DEFINE F(s) == IF s = {} THEN base ELSE FoldStep(kind, g[s \ {Max(s)}], seq[Max(s)])
             h == [s \in SUBSET (1 .. m + 1) |-> F(s)]
  <2>3. ASSUME NEW s \in SUBSET (1 .. m) PROVE g[s] = F(s)
    BY <2>2 DEF IsFold
  <2>4. ASSUME NEW s \in SUBSET (1 .. m + 1), s # {}
        PROVE  /\ s \ {Max(s)} \in SUBSET (1 .. m)
               /\ s \ {Max(s)} \in SUBSET (1 .. m + 1)
    <3>1. m + 1 \in Nat
      BY <2>1
    <3>2. Max(s) \in s /\ \A x \in s : x <= Max(s)
      BY <2>4, <3>1, MaxExists
    <3> DEFINE top == Max(s)
    <3> HIDE DEF top
    <3>3. top \in 1 .. m + 1 /\ \A x \in s : x \in 1 .. m + 1 /\ x <= top
      BY <3>2 DEF top
    <3>4. \A x \in s \ {top} : x \in 1 .. m
      BY <2>1, <3>3
    <3> QED BY <3>4 DEF top
  <2>5. ASSUME NEW s \in SUBSET (1 .. m + 1)
        PROVE  F(s) = IF s = {} THEN base ELSE FoldStep(kind, h[s \ {Max(s)}], seq[Max(s)])
    <3>1. CASE s = {}
      BY <3>1
    <3>2. CASE s # {}
      <4> DEFINE t == s \ {Max(s)}
      <4>1. t \in SUBSET (1 .. m) /\ t \in SUBSET (1 .. m + 1)
        BY <2>4, <3>2
      <4> HIDE DEF t
      <4>2. h[t] = F(t)
        <5> HIDE DEF F
        <5> QED BY <4>1
      <4>3. h[t] = g[t]
        BY <2>3, <4>1, <4>2
      <4> HIDE DEF h
      <4> QED BY <3>2, <4>3 DEF t
    <3> QED BY <3>1, <3>2
  <2>6. h = [s \in SUBSET (1 .. m + 1) |->
               IF s = {} THEN base ELSE FoldStep(kind, h[s \ {Max(s)}], seq[Max(s)])]
    <3> HIDE DEF F
    <3>1. h = [s \in SUBSET (1 .. m + 1) |-> F(s)]
      OBVIOUS
    <3> HIDE DEF h
    <3> QED BY <2>5, <3>1
  <2>7. IsFold(h, kind, base, seq, m + 1)
    BY <2>6 DEF IsFold
  <2> QED BY <2>1, <2>7
<1>3. G = Nat
  BY <1>1, <1>2, UpTo, G \in SUBSET Nat
<1> QED BY <1>3

FoldTable(kind, base, seq, n) == CHOOSE g : IsFold(g, kind, base, seq, n)

\* From the first element on.
LEMMA FoldSteps ==
    ASSUME NEW kind, NEW base, NEW seq, NEW n \in Nat, NEW g, IsFold(g, kind, base, seq, n)
    PROVE  \A m \in 1 .. n : g[1 .. m] = FoldStep(kind, g[1 .. m - 1], seq[m])
<1>1. \A s \in SUBSET (1 .. n) :
        g[s] = IF s = {} THEN base ELSE FoldStep(kind, g[s \ {Max(s)}], seq[Max(s)])
  BY DEF IsFold
<1>2. ASSUME NEW m \in 1 .. n
      PROVE  g[1 .. m] = FoldStep(kind, g[1 .. m - 1], seq[m])
  <2> DEFINE s == 1 .. m
  <2>1. s \in SUBSET (1 .. n) /\ s # {} /\ m \in s
    <3>1. \A x \in s : x \in 1 .. n
      OBVIOUS
    <3> QED BY <3>1
  <2>2. Max(s) \in s /\ \A x \in s : x <= Max(s)
    BY <2>1, MaxExists
  <2>3. Max(s) = m
    BY <2>1, <2>2
  <2>4. s \ {Max(s)} = 1 .. m - 1
    BY <2>3
  <2>5. g[s] = FoldStep(kind, g[s \ {Max(s)}], seq[Max(s)])
    BY <1>1, <2>1
  <2> QED BY <2>3, <2>4, <2>5
<1> QED BY <1>2

IsOnce(g, raw, D) ==
    g = [s \in SUBSET D |->
           IF s = {} THEN <<>> ELSE NotTwice(g[s \ {Max(s)}], raw[Max(s)])]

\* The images that the lines of a file name, before what is there twice goes.
NamedImages(f) ==
    PerLine(f, LAMBDA line : PerEntry(line.images, LAMBDA n :
        If(line.images[n] # Blank, Row(line.sku, line.images[n]))))

LEMMA OnceSteps ==
    ASSUME NEW f, NEW n \in Nat, DOMAIN NamedImages(f) = 1 .. n
    PROVE  \E g : /\ g[{}] = <<>>
                  /\ \A m \in 1 .. n : g[1 .. m] = NotTwice(g[1 .. m - 1], NamedImages(f)[m])
                  /\ GalleryRows(f) = g[1 .. n]
<1> DEFINE raw == NamedImages(f)
           g == CHOOSE g : IsOnce(g, raw, DOMAIN raw)
<1>1. PICK k : IsFold(k, "once", <<>>, raw, n)
  BY FoldExists
<1>2. IsOnce(k, raw, DOMAIN raw)
  BY <1>1 DEF IsFold, IsOnce, FoldStep
<1>3. IsOnce(g, raw, DOMAIN raw)
  BY <1>2
<1>4. GalleryRows(f) = g[DOMAIN raw]
  BY DEF GalleryRows, NamedImages, PerLine, PerEntry, FoldLeft, MapThenFoldSet, IsOnce, NotTwice
<1> HIDE DEF g
<1>5. IsFold(g, "once", <<>>, raw, n)
  BY <1>3 DEF IsFold, IsOnce, FoldStep
<1> HIDE DEF raw
<1>6. \A m \in 1 .. n : g[1 .. m] = NotTwice(g[1 .. m - 1], raw[m])
  BY <1>5, FoldSteps DEF FoldStep
<1>7. g[{}] = <<>>
  BY <1>3, {} \in SUBSET DOMAIN raw DEF IsOnce
<1>8. DOMAIN raw = 1 .. n
  BY DEF raw
<1> QED BY <1>4, <1>6, <1>7, <1>8 DEF raw

IsInserts(g, base, chunks, D) ==
    g = [s \in SUBSET D |->
           IF s = {} THEN base ELSE Inserted(g[s \ {Max(s)}], chunks[Max(s)])]

InsertTable(base, chunks) == CHOOSE g : IsInserts(g, base, chunks, DOMAIN chunks)

LEMMA FlushUnfolds ==
    ASSUME NEW rows
    PROVE  FlushedGallery(rows)
             = InsertTable([pool |-> pool, linked |-> linked], Chunks(rows))[DOMAIN Chunks(rows)]
BY DEF FlushedGallery, FoldLeft, MapThenFoldSet, InsertTable, IsInserts

LEMMA InsertSteps ==
    ASSUME NEW base, NEW chunks, NEW n \in Nat, DOMAIN chunks = 1 .. n,
           NEW g, g = InsertTable(base, chunks)
    PROVE  /\ g[{}] = base
           /\ \A m \in 1 .. n : g[1 .. m] = Inserted(g[1 .. m - 1], chunks[m])
<1>1. PICK k : IsFold(k, "insert", base, chunks, n)
  BY FoldExists
<1>2. IsInserts(k, base, chunks, DOMAIN chunks)
  BY <1>1 DEF IsFold, IsInserts, FoldStep
<1>3. IsInserts(g, base, chunks, DOMAIN chunks)
  BY <1>2 DEF InsertTable
<1>5. IsFold(g, "insert", base, chunks, n)
  BY <1>3 DEF IsFold, IsInserts, FoldStep
<1>6. \A m \in 1 .. n : g[1 .. m] = Inserted(g[1 .. m - 1], chunks[m])
  BY <1>5, FoldSteps DEF FoldStep
<1>7. g[{}] = base
  BY <1>3, {} \in SUBSET DOMAIN chunks DEF IsInserts
<1> QED BY <1>6, <1>7

Distinct(s) == \A a, b \in 1 .. Len(s) : s[a] = s[b] => a = b

LEMMA AppendToDistinct ==
    ASSUME NEW s, IsSeq(s), Distinct(s), NEW x, x \notin ToSet(s)
    PROVE  /\ IsSeq(Append(s, x)) /\ ToSet(Append(s, x)) = ToSet(s) \cup {x}
           /\ Distinct(Append(s, x))
<1> DEFINE S == ToSet(s) \cup {x}
           t == Append(s, x)
<1>1. s \in Seq(S) /\ x \in S /\ Len(s) \in Nat /\ ToSet(s) = {s[i] : i \in 1 .. Len(s)}
  BY IsSeqFacts
<1> HIDE DEF S
<1>2. /\ t \in Seq(S) /\ Len(t) = Len(s) + 1 /\ t[Len(s) + 1] = x
      /\ \A i \in 1 .. Len(s) : t[i] = s[i]
  BY <1>1
<1>3. ToSet(t) = ToSet(s) \cup {x}
  BY <1>1, AppendToSet
<1>4. IsSeq(t)
  BY <1>2, SeqHasItsElements
<1> HIDE DEF t
<1>5. \A i \in 1 .. Len(t) : i \in 1 .. Len(s) \/ i = Len(s) + 1
  BY <1>1, <1>2
<1>6. \A i \in 1 .. Len(s) : s[i] # x
  BY <1>1
<1>7. Distinct(t)
  BY <1>2, <1>5, <1>6 DEF Distinct
<1> QED BY <1>3, <1>4, <1>7 DEF t

LEMMA OnceIs ==
    ASSUME NEW f, IsSeq(NamedImages(f))
    PROVE  /\ IsSeq(GalleryRows(f)) /\ Distinct(GalleryRows(f))
           /\ ToSet(GalleryRows(f)) = ToSet(NamedImages(f))
<1> DEFINE raw == NamedImages(f)
           n == Len(raw)
           S(m) == {raw[i] : i \in 1 .. m}
<1>1. n \in Nat /\ DOMAIN raw = 1 .. n /\ ToSet(raw) = S(n)
  BY IsSeqFacts
<1>2. PICK g : /\ g[{}] = <<>>
               /\ \A m \in 1 .. n : g[1 .. m] = NotTwice(g[1 .. m - 1], raw[m])
               /\ GalleryRows(f) = g[1 .. n]
  BY <1>1, OnceSteps
<1> HIDE DEF raw, n
<1> DEFINE Good(s, m) == IsSeq(s) /\ Distinct(s) /\ ToSet(s) = S(m)
           G == {m \in Nat : m <= n => Good(g[1 .. m], m)}
<1>3. 0 \in G
  <2>1. 1 .. 0 = {} /\ S(0) = {} /\ Len(<<>>) = 0
    OBVIOUS
  <2>2. Distinct(<<>>)
    BY <2>1 DEF Distinct
  <2>3. Good(<<>>, 0)
    BY <2>1, <2>2, EmptyIsSeq
  <2> HIDE DEF Good
  <2> QED BY <1>2, <2>1, <2>3
<1>4. ASSUME NEW m \in G PROVE m + 1 \in G
  <2> DEFINE k == m + 1
             s == g[1 .. m]
             x == raw[k]
  <2>0. m \in Nat
    OBVIOUS
  <2> SUFFICES ASSUME k <= n PROVE Good(g[1 .. k], k)
    OBVIOUS
  <2>1. k \in 1 .. n /\ k - 1 = m /\ m <= n /\ 1 .. k = (1 .. m) \cup {k}
    BY <1>1, <2>0
  <2>2. IsSeq(s) /\ Distinct(s) /\ ToSet(s) = S(m)
    BY <2>1
  <2> HIDE DEF s, k
  <2>3. g[1 .. k] = NotTwice(s, x)
    BY <1>2, <2>1 DEF s
  <2>4. S(k) = S(m) \cup {x}
    BY <2>1
  <2> HIDE DEF x, S
  <2>5. Contains(s, x) <=> x \in ToSet(s)
    BY <2>2, IsSeqFacts DEF Contains
  <2>6. CASE x \in ToSet(s)
    BY <2>2, <2>3, <2>4, <2>5, <2>6 DEF NotTwice
  <2>7. CASE x \notin ToSet(s)
    BY <2>2, <2>3, <2>4, <2>5, <2>7, AppendToDistinct DEF NotTwice
  <2> QED BY <2>6, <2>7
<1>5. G = Nat
  BY <1>3, <1>4, UpTo, G \in SUBSET Nat
<1>6. Good(g[1 .. n], n)
  BY <1>1, <1>5
<1> QED BY <1>1, <1>2, <1>6 DEF raw

\* The images of a file: each of the line's products with each of its images.
LEMMA NamedImagesAre ==
    ASSUME NEW f \in Files
    PROVE  /\ IsSeq(NamedImages(f))
           /\ ToSet(NamedImages(f)) =
                UNION {{Row(line.sku, i) : i \in ToSet(line.images) \ {Blank}} :
                         line \in OwnLines(f)}
<1> DEFINE E(m, n) == If(f[m].images[n] # Blank, Row(f[m].sku, f[m].images[n]))
           L(m) == [n \in DOMAIN f[m].images |-> E(m, n)]
           x == [m \in DOMAIN f |-> IF f[m].sku = Blank THEN <<>> ELSE FlattenSeq(L(m))]
           A(line) == {Row(line.sku, i) : i \in ToSet(line.images) \ {Blank}}
<1>1. NamedImages(f) = FlattenSeq(x)
  BY DEF NamedImages, PerLine, PerEntry
<1>2. Len(f) \in Nat /\ DOMAIN f = 1 .. Len(f)
  BY FileLines
<1>3. \A m \in DOMAIN f : \A n \in DOMAIN f[m].images :
        /\ IsSeq(E(m, n))
        /\ ToSet(E(m, n)) = IF f[m].images[n] = Blank THEN {}
                            ELSE {Row(f[m].sku, f[m].images[n])}
  BY IfIsSeq, OneIsSeq, EmptyIsSeq DEF If
<1> HIDE DEF E
<1>4. ASSUME NEW m \in DOMAIN f
      PROVE  IsSeq(FlattenSeq(L(m))) /\ ToSet(FlattenSeq(L(m))) = A(f[m])
  <2>1. IsSeq(f[m].images)
    BY LineCells
  <2>2. Len(f[m].images) \in Nat /\ DOMAIN f[m].images = 1 .. Len(f[m].images)
    BY <2>1, IsSeqFacts
  <2>3. /\ IsSeq(FlattenSeq(L(m)))
        /\ ToSet(FlattenSeq(L(m))) = UNION {ToSet(L(m)[n]) : n \in 1 .. Len(f[m].images)}
    BY <1>3, <2>2, MapFlattened
  <2>4. \A n \in DOMAIN f[m].images : L(m)[n] = E(m, n)
    OBVIOUS
  <2>5. ToSet(f[m].images) = {f[m].images[n] : n \in DOMAIN f[m].images}
    BY DEF ToSet
  <2> HIDE DEF L
  <2>6. ASSUME NEW e
        PROVE  e \in ToSet(FlattenSeq(L(m))) <=> e \in A(f[m])
    <3>1. e \in ToSet(FlattenSeq(L(m))) <=>
            \E n \in DOMAIN f[m].images : e \in ToSet(E(m, n))
      BY <2>2, <2>3, <2>4
    <3>2. e \in A(f[m]) <=> \E n \in DOMAIN f[m].images :
            f[m].images[n] # Blank /\ e = Row(f[m].sku, f[m].images[n])
      BY <2>5
    <3> QED BY <1>3, <3>1, <3>2
  <2> HIDE DEF A
  <2>7. ToSet(FlattenSeq(L(m))) = A(f[m])
    BY <2>6
  <2> QED BY <2>3, <2>7
<1> HIDE DEF L
<1>5. /\ IsSeq(FlattenSeq(x))
      /\ ToSet(FlattenSeq(x)) = UNION {ToSet(x[m]) : m \in 1 .. Len(f)}
  BY <1>2, <1>4, MapFlattened, EmptyIsSeq
<1>6. \A m \in 1 .. Len(f) : ToSet(x[m]) = IF f[m].sku = Blank THEN {} ELSE A(f[m])
  BY <1>2, <1>4, EmptyIsSeq
<1> HIDE DEF x, A
<1>7. OwnLines(f) = {f[m] : m \in {k \in 1 .. Len(f) : f[k].sku # Blank}}
  BY <1>2 DEF OwnLines, ToSet
<1>8. UNION {ToSet(x[m]) : m \in 1 .. Len(f)} = UNION {A(line) : line \in OwnLines(f)}
  BY <1>6, <1>7
<1> QED BY <1>1, <1>5, <1>8 DEF A

\* Chunks cut a list in pieces: the first m hold the first Upto(n, m) of n rows.
Upto(n, m) == IF m * BatchSize < n THEN m * BatchSize ELSE n

LEMMA ChunkBounds ==
    ASSUME NEW n \in Nat, NEW c, c = (n + BatchSize - 1) \div BatchSize
    PROVE  /\ c \in Nat /\ Upto(n, 0) = 0 /\ Upto(n, c) = n
           /\ \A m \in 1 .. c : /\ Upto(n, m - 1) = (m - 1) * BatchSize
                                /\ Upto(n, m - 1) \in Nat /\ Upto(n, m) \in Nat
                                /\ Upto(n, m - 1) <= Upto(n, m) /\ Upto(n, m) <= n
<1> DEFINE d == BatchSize
           k == n + d - 1
<1>1. d \in Nat /\ d > 0 /\ k \in Nat
  BY ListColumnsAssumption
<1> HIDE DEF k, d
<1>2. k \div d \in Nat /\ (k % d) \in 0 .. d - 1 /\ k = (k \div d) * d + (k % d)
  BY <1>1, Z3
<1>3. c = k \div d
  BY DEF k, d
<1> DEFINE rest == k % d
           most == c * d
<1>4. c \in Nat /\ rest \in 0 .. d - 1 /\ k = most + rest
  BY <1>2, <1>3
<1>5. most \in Nat
  BY <1>1, <1>4
<1> HIDE DEF rest
<1>6. k = n + d - 1
  BY DEF k
<1>7. n <= most /\ most < n + d
  <2> HIDE DEF most
  <2> QED BY <1>1, <1>4, <1>5, <1>6
<1>8. ASSUME NEW m \in 1 .. c
      PROVE  (m - 1) * d \in Nat /\ m * d = (m - 1) * d + d /\ (m - 1) * d < n
  <2>1. PICK p \in Nat : m = p + 1 /\ m - 1 = p
    <3>1. m - 1 \in Nat /\ m = (m - 1) + 1
      BY <1>4
    <3> QED BY <3>1
  <2>2. PICK q \in Nat : c = p + 1 + q
    <3>1. c - m \in Nat /\ c = p + 1 + (c - m)
      BY <1>4, <2>1
    <3> QED BY <3>1
  <2>3. m * d = p * d + d /\ p * d \in Nat /\ q * d \in Nat
    BY <1>1, <2>1
  <2>4. most = p * d + d + q * d
    BY <1>1, <2>2
  <2> DEFINE a == p * d
             b == q * d
  <2>5. m * d = a + d /\ a \in Nat /\ b \in Nat /\ most = a + d + b
    BY <2>3, <2>4
  <2> HIDE DEF a, b, most
  <2>6. a < n
    BY <1>1, <1>5, <1>7, <2>5
  <2> QED BY <2>1, <2>5, <2>6 DEF a
<1>9. Upto(n, 0) = 0
  <2>1. 0 * d = 0
    BY <1>1
  <2> QED BY <2>1 DEF Upto, d
<1>10. Upto(n, c) = n
  <2>1. ~ (c * d < n)
    <3> HIDE DEF most
    <3>1. ~ (most < n)
      BY <1>5, <1>7
    <3> QED BY <3>1 DEF most
  <2> QED BY <2>1 DEF Upto, d
<1>11. ASSUME NEW m \in 1 .. c
       PROVE  /\ Upto(n, m - 1) = (m - 1) * d
              /\ Upto(n, m - 1) \in Nat /\ Upto(n, m) \in Nat
              /\ Upto(n, m - 1) <= Upto(n, m) /\ Upto(n, m) <= n
  <2> DEFINE a == (m - 1) * d
             b == m * d
  <2>1. a \in Nat /\ b = a + d /\ a < n
    BY <1>8
  <2>2. Upto(n, m - 1) = IF a < n THEN a ELSE n
    BY DEF Upto, d
  <2>3. Upto(n, m) = IF b < n THEN b ELSE n
    BY DEF Upto, d
  <2> HIDE DEF a, b
  <2>4. /\ Upto(n, m - 1) = a
        /\ Upto(n, m - 1) \in Nat /\ Upto(n, m) \in Nat
        /\ Upto(n, m - 1) <= Upto(n, m) /\ Upto(n, m) <= n
    BY <1>1, <2>1, <2>2, <2>3
  <2> QED BY <2>4 DEF a
<1> QED BY <1>4, <1>9, <1>10, <1>11 DEF d

\* The first n rows are in the pool, after what was there, and linked to it.
HasRows(st, rows, n) ==
    /\ IsSeq(st.pool) /\ Len(st.pool) = Len(pool) + n
    /\ \A i \in 1 .. Len(pool) : st.pool[i] = pool[i]
    /\ \A i \in 1 .. n : st.pool[Len(pool) + i] = rows[i].value
    /\ st.linked = linked \cup {<<rows[i].key, Len(pool) + i>> : i \in 1 .. n}

LEMMA SubSeqFacts ==
    ASSUME NEW rows, IsSeq(rows), NEW t \in Nat, NEW u \in Nat, t <= u, u <= Len(rows)
    PROVE  LET s == SubSeq(rows, t + 1, u) IN
           /\ IsSeq(s) /\ Len(s) = u - t /\ DOMAIN s = 1 .. u - t
           /\ \A i \in 1 .. u - t : s[i] = rows[t + i]
<1> DEFINE S == ToSet(rows)
           s == SubSeq(rows, t + 1, u)
<1>1. rows \in Seq(S) /\ Len(rows) \in Nat
  BY IsSeqFacts
<1> HIDE DEF S
<1>2. /\ s \in Seq(S) /\ Len(s) = u - t
      /\ \A i \in 1 .. u - t : s[i] = rows[(t + 1) + i - 1]
  BY <1>1
<1>3. \A i \in 1 .. u - t : (t + 1) + i - 1 = t + i
  OBVIOUS
<1> HIDE DEF s
<1>4. IsSeq(s) /\ DOMAIN s = 1 .. u - t
  BY <1>2, SeqHasItsElements, IsSeqFacts
<1> QED BY <1>2, <1>3, <1>4 DEF s

LEMMA InsertedMore ==
    ASSUME IsSeq(pool), NEW rows, IsSeq(rows), NEW t \in Nat, NEW u \in Nat,
           t <= u, u <= Len(rows), NEW st, HasRows(st, rows, t)
    PROVE  HasRows(Inserted(st, SubSeq(rows, t + 1, u)), rows, u)
<1> DEFINE chunk == SubSeq(rows, t + 1, u)
           l == Len(pool)
           new == Inserted(st, chunk)
           values == [n \in DOMAIN chunk |-> chunk[n].value]
<1>1. /\ IsSeq(chunk) /\ DOMAIN chunk = 1 .. u - t /\ u - t \in Nat
      /\ \A i \in 1 .. u - t : chunk[i] = rows[t + i]
  BY SubSeqFacts
<1>2. l \in Nat
  BY IsSeqFacts
<1> HIDE DEF chunk
<1>3. /\ new.pool = st.pool \o values
      /\ new.linked = st.linked \cup
           {<<chunk[n].key, ValueId(Len(st.pool) + 1, n)>> : n \in DOMAIN chunk}
  BY DEF Inserted
<1> HIDE DEF new, l
<1>4. /\ IsSeq(st.pool) /\ Len(st.pool) = l + t
      /\ \A i \in 1 .. l : st.pool[i] = pool[i]
      /\ \A i \in 1 .. t : st.pool[l + i] = rows[i].value
      /\ st.linked = linked \cup {<<rows[i].key, l + i>> : i \in 1 .. t}
  BY DEF HasRows, l
<1>5. /\ values = [i \in 1 .. u - t |-> values[i]]
      /\ \A i \in 1 .. u - t : values[i] = rows[t + i].value
  BY <1>1
<1> HIDE DEF values
<1>6. IsSeq(values) /\ Len(values) = u - t
  BY <1>1, <1>5, MapIsSeq
<1>7. /\ IsSeq(new.pool) /\ Len(new.pool) = l + t + (u - t)
      /\ \A i \in 1 .. l + t : new.pool[i] = st.pool[i]
      /\ \A i \in 1 .. u - t : new.pool[l + t + i] = values[i]
  <2>0. IsSeq(st.pool) /\ IsSeq(values)
    BY <1>4, <1>6
  <2>1. /\ IsSeq(st.pool \o values)
        /\ Len(st.pool \o values) = Len(st.pool) + Len(values)
        /\ \A i \in 1 .. Len(st.pool) : (st.pool \o values)[i] = st.pool[i]
        /\ \A i \in 1 .. Len(values) : (st.pool \o values)[Len(st.pool) + i] = values[i]
    BY <2>0, Concatenated
  <2> QED BY <1>3, <1>4, <1>6, <2>1
<1>8. Len(new.pool) = l + u
  BY <1>2, <1>7
<1>9. \A i \in 1 .. l : new.pool[i] = pool[i]
  <2>1. \A i \in 1 .. l : i \in 1 .. l + t
    BY <1>2
  <2> QED BY <1>4, <1>7, <2>1
<1>10. ASSUME NEW i \in 1 .. u PROVE new.pool[l + i] = rows[i].value
  <2>1. CASE i <= t
    <3>1. i \in 1 .. t /\ l + i \in 1 .. l + t
      BY <1>2, <2>1
    <3> QED BY <1>4, <1>7, <3>1
  <2>2. CASE ~ (i <= t)
    <3>1. PICK j \in 1 .. u - t : i = t + j /\ l + i = l + t + j
      <4>1. i - t \in 1 .. u - t /\ i = t + (i - t) /\ l + i = l + t + (i - t)
        BY <1>2, <2>2
      <4> QED BY <4>1
    <3> QED BY <1>5, <1>7, <3>1
  <2> QED BY <2>1, <2>2
<1>11. new.linked = linked \cup {<<rows[i].key, l + i>> : i \in 1 .. u}
  <2> DEFINE at(i) == <<rows[i].key, l + i>>
  <2>1. \A n \in 1 .. u - t : /\ <<chunk[n].key, ValueId(Len(st.pool) + 1, n)>> = at(t + n)
                              /\ t + n \in 1 .. u
    <3> TAKE n \in 1 .. u - t
    <3>1. ValueId(Len(st.pool) + 1, n) = l + (t + n) /\ t + n \in 1 .. u
      BY <1>2, <1>4 DEF ValueId
    <3> QED BY <1>1, <3>1
  <2>2. \A i \in 1 .. u : i \in 1 .. t \/ \E n \in 1 .. u - t : i = t + n
    <3> TAKE i \in 1 .. u
    <3>1. i \in 1 .. t \/ (i - t \in 1 .. u - t /\ i = t + (i - t))
      OBVIOUS
    <3> QED BY <3>1
  <2>3. \A i \in 1 .. t : i \in 1 .. u
    OBVIOUS
  <2>4. new.linked = linked \cup {at(i) : i \in 1 .. t} \cup {at(t + n) : n \in 1 .. u - t}
    <3>1. {<<chunk[n].key, ValueId(Len(st.pool) + 1, n)>> : n \in DOMAIN chunk}
            = {at(t + n) : n \in 1 .. u - t}
      BY <1>1, <2>1
    <3> QED BY <1>3, <1>4, <3>1
  <2> HIDE DEF at
  <2>5. {at(i) : i \in 1 .. u} = {at(i) : i \in 1 .. t} \cup {at(t + n) : n \in 1 .. u - t}
    BY <2>1, <2>2, <2>3
  <2>6. new.linked = linked \cup {at(i) : i \in 1 .. u}
    BY <2>4, <2>5
  <2> QED BY <2>6 DEF at
<1> QED BY <1>7, <1>8, <1>9, <1>10, <1>11 DEF HasRows, new, l, chunk

LEMMA FlushedIs ==
    ASSUME IsSeq(pool), NEW rows, IsSeq(rows)
    PROVE  HasRows(FlushedGallery(rows), rows, Len(rows))
<1> DEFINE n == Len(rows)
           chunks == Chunks(rows)
           c == (n + BatchSize - 1) \div BatchSize
           start == [pool |-> pool, linked |-> linked]
           g == InsertTable(start, chunks)
<1>1. n \in Nat
  BY IsSeqFacts
<1>2. /\ c \in Nat /\ Upto(n, 0) = 0 /\ Upto(n, c) = n
      /\ \A m \in 1 .. c : /\ Upto(n, m - 1) = (m - 1) * BatchSize
                           /\ Upto(n, m - 1) \in Nat /\ Upto(n, m) \in Nat
                           /\ Upto(n, m - 1) <= Upto(n, m) /\ Upto(n, m) <= n
  BY <1>1, ChunkBounds
<1>3. /\ DOMAIN chunks = 1 .. c
      /\ \A m \in 1 .. c : chunks[m] = SubSeq(rows, (m - 1) * BatchSize + 1, Upto(n, m))
  BY DEF Chunks, Upto
<1>4. FlushedGallery(rows) = g[1 .. c]
  BY <1>3, FlushUnfolds
<1> HIDE DEF chunks, c
<1>5. g[{}] = start /\ \A m \in 1 .. c : g[1 .. m] = Inserted(g[1 .. m - 1], chunks[m])
  <2>1. g = InsertTable(start, chunks)
    OBVIOUS
  <2> HIDE DEF g, start
  <2>2. c \in Nat /\ DOMAIN chunks = 1 .. c
    BY <1>2, <1>3
  <2> QED BY <2>1, <2>2, InsertSteps
<1> HIDE DEF g
<1> DEFINE G == {m \in Nat : m <= c => HasRows(g[1 .. m], rows, Upto(n, m))}
<1>6. 0 \in G
  <2>1. 1 .. 0 = {} /\ Len(pool) + 0 = Len(pool)
    BY IsSeqFacts
  <2>2. start.pool = pool /\ start.linked = linked
    OBVIOUS
  <2> HIDE DEF start
  <2>3. HasRows(start, rows, 0)
    BY <2>1, <2>2 DEF HasRows
  <2> QED BY <1>2, <1>5, <2>1, <2>3
<1>7. ASSUME NEW m \in G PROVE m + 1 \in G
  <2> DEFINE k == m + 1
  <2>0. m \in Nat
    OBVIOUS
  <2> SUFFICES ASSUME k <= c PROVE HasRows(g[1 .. k], rows, Upto(n, k))
    OBVIOUS
  <2>1. k \in 1 .. c /\ k - 1 = m /\ m <= c
    BY <1>2, <2>0
  <2>2. HasRows(g[1 .. m], rows, Upto(n, m))
    BY <2>1
  <2> HIDE DEF k, n
  <2>3. /\ Upto(n, m) = m * BatchSize
        /\ Upto(n, m) \in Nat /\ Upto(n, k) \in Nat
        /\ Upto(n, m) <= Upto(n, k) /\ Upto(n, k) <= n
    BY <1>2, <2>1
  <2>4. g[1 .. k] = Inserted(g[1 .. m], SubSeq(rows, Upto(n, m) + 1, Upto(n, k)))
    BY <1>3, <1>5, <2>1, <2>3
  <2>5. HasRows(Inserted(g[1 .. m], SubSeq(rows, Upto(n, m) + 1, Upto(n, k))), rows, Upto(n, k))
    BY <2>2, <2>3, InsertedMore DEF n
  <2> QED BY <2>4, <2>5
<1>8. G = Nat
  BY <1>6, <1>7, UpTo, G \in SUBSET Nat
<1>9. HasRows(g[1 .. c], rows, Upto(n, c))
  BY <1>2, <1>8
<1> QED BY <1>2, <1>4, <1>9

\* File f names image i for product p.
Names(f, p, i) == \E line \in OwnLines(f) : line.sku = p /\ i \in ToSet(line.images)

Owned(p, i)  == {k \in linked : k[1] = p /\ pool[k[2]] = i}
Naming(p, i) == {n \in DOMAIN history : Names(history[n], p, i)}

\* Every image is linked once, and once more whenever a file names it.
GalleryInv ==
    /\ IsSeq(pool) /\ \A v \in 1 .. Len(pool) : pool[v] # Blank
    /\ \A k \in linked : k[2] \in 1 .. Len(pool)
    /\ \A v \in 1 .. Len(pool) : \E k \in linked : k[2] = v
    /\ \A k, l \in linked : k[2] = l[2] => k = l
    /\ \A p, i : i # Blank =>
         /\ IsFiniteSet(Owned(p, i)) /\ IsFiniteSet(Naming(p, i))
         /\ Cardinality(Owned(p, i)) = Cardinality(Naming(p, i))

\* What an import leaves in the gallery.
LEMMA GalleryGrows ==
    ASSUME GalleryInv, NEW f \in Files, ImportFile(f)
    PROVE  \E rows :
             /\ IsSeq(rows) /\ Distinct(rows)
             /\ \A p, i : i # Blank => (Row(p, i) \in ToSet(rows) <=> Names(f, p, i))
             /\ \A n \in 1 .. Len(rows) : \E p, i : i # Blank /\ rows[n] = Row(p, i)
             /\ IsSeq(pool') /\ Len(pool') = Len(pool) + Len(rows)
             /\ \A v \in 1 .. Len(pool) : pool'[v] = pool[v]
             /\ \A n \in 1 .. Len(rows) : pool'[Len(pool) + n] = rows[n].value
             /\ linked' = linked \cup {<<rows[n].key, Len(pool) + n>> : n \in 1 .. Len(rows)}
<1> DEFINE rows == GalleryRows(f)
           st == FlushedGallery(rows)
<1>1. /\ IsSeq(NamedImages(f))
      /\ ToSet(NamedImages(f)) =
           UNION {{Row(line.sku, i) : i \in ToSet(line.images) \ {Blank}} :
                    line \in OwnLines(f)}
  BY NamedImagesAre
<1>2. IsSeq(rows) /\ Distinct(rows) /\ ToSet(rows) = ToSet(NamedImages(f))
  BY <1>1, OnceIs
<1>3. pool' = st.pool /\ linked' = st.linked
  BY DEF ImportFile
<1> HIDE DEF rows
<1>4. IsSeq(pool)
  BY DEF GalleryInv
<1>5. HasRows(st, rows, Len(rows))
  BY <1>2, <1>4, FlushedIs
<1> HIDE DEF st
<1>6. \A e : e \in ToSet(rows) <=>
               \E line \in OwnLines(f) : \E i \in ToSet(line.images) :
                 i # Blank /\ e = Row(line.sku, i)
  <2> DEFINE A(line) == {Row(line.sku, i) : i \in ToSet(line.images) \ {Blank}}
  <2>1. \A line, e : e \in A(line) <=>
          \E i \in ToSet(line.images) : i # Blank /\ e = Row(line.sku, i)
    OBVIOUS
  <2>2. ToSet(rows) = UNION {A(line) : line \in OwnLines(f)}
    BY <1>1, <1>2
  <2> HIDE DEF A
  <2>3. \A e : e \in ToSet(rows) <=> \E line \in OwnLines(f) : e \in A(line)
    BY <2>2
  <2> SUFFICES ASSUME NEW e
               PROVE  e \in ToSet(rows) <=>
                        \E line \in OwnLines(f) : \E i \in ToSet(line.images) :
                          i # Blank /\ e = Row(line.sku, i)
    OBVIOUS
  <2> DEFINE B(line) == \E i \in ToSet(line.images) : i # Blank /\ e = Row(line.sku, i)
  <2>4. \A line : e \in A(line) <=> B(line)
    BY <2>1
  <2> HIDE DEF B
  <2>5. e \in ToSet(rows) <=> \E line \in OwnLines(f) : B(line)
    BY <2>3, <2>4
  <2> QED BY <2>5 DEF B
<1>7. \A p, i : i # Blank => (Row(p, i) \in ToSet(rows) <=> Names(f, p, i))
  <2>1. \A p, q, i, j : Row(p, i) = Row(q, j) => p = q /\ i = j
    BY DEF Row
  <2> QED BY <1>6, <2>1 DEF Names
<1>8. \A n \in 1 .. Len(rows) : \E p, i : i # Blank /\ rows[n] = Row(p, i)
  <2>1. \A n \in 1 .. Len(rows) : rows[n] \in ToSet(rows)
    BY <1>2, IsSeqFacts
  <2> QED BY <1>6, <2>1
<1>9. /\ IsSeq(pool') /\ Len(pool') = Len(pool) + Len(rows)
      /\ \A v \in 1 .. Len(pool) : pool'[v] = pool[v]
      /\ \A n \in 1 .. Len(rows) : pool'[Len(pool) + n] = rows[n].value
      /\ linked' = linked \cup {<<rows[n].key, Len(pool) + n>> : n \in 1 .. Len(rows)}
  BY <1>3, <1>5 DEF HasRows
<1> QED BY <1>2, <1>7, <1>8, <1>9

LEMMA GalleryStep ==
    ASSUME HistoryOK, GalleryInv, NEW f \in Files, ImportFile(f), history' = Append(history, f)
    PROVE  GalleryInv'
<1>1. PICK rows :
        /\ IsSeq(rows) /\ Distinct(rows)
        /\ \A p, i : i # Blank => (Row(p, i) \in ToSet(rows) <=> Names(f, p, i))
        /\ \A n \in 1 .. Len(rows) : \E p, i : i # Blank /\ rows[n] = Row(p, i)
        /\ IsSeq(pool') /\ Len(pool') = Len(pool) + Len(rows)
        /\ \A v \in 1 .. Len(pool) : pool'[v] = pool[v]
        /\ \A n \in 1 .. Len(rows) : pool'[Len(pool) + n] = rows[n].value
        /\ linked' = linked \cup {<<rows[n].key, Len(pool) + n>> : n \in 1 .. Len(rows)}
  BY GalleryGrows
<1> DEFINE l == Len(pool)
           r == Len(rows)
           at(n) == <<rows[n].key, l + n>>
<1>2. l \in Nat /\ r \in Nat /\ ToSet(rows) = {rows[n] : n \in 1 .. r}
  BY <1>1, IsSeqFacts DEF GalleryInv
<1>3. /\ \A k \in linked : k[2] \in 1 .. l
      /\ \A v \in 1 .. l : \E k \in linked : k[2] = v
      /\ \A j, k \in linked : j[2] = k[2] => j = k
      /\ \A v \in 1 .. l : pool[v] # Blank
  BY DEF GalleryInv
<1>4. /\ linked' = linked \cup {at(n) : n \in 1 .. r} /\ Len(pool') = l + r
      /\ \A v \in 1 .. l : pool'[v] = pool[v]
      /\ \A n \in 1 .. r : pool'[l + n] = rows[n].value
  BY <1>1
<1>5. \A n \in 1 .. r : at(n)[1] = rows[n].key /\ at(n)[2] = l + n
  OBVIOUS
<1> HIDE DEF l, r, at
<1>6. /\ \A v \in 1 .. l + r : v \in 1 .. l \/ \E n \in 1 .. r : v = l + n
      /\ \A v \in 1 .. l : v \in 1 .. l + r
      /\ \A n \in 1 .. r : l + n \in 1 .. l + r /\ l + n \notin 1 .. l
      /\ \A m, n \in 1 .. r : l + m = l + n => m = n
  <2>1. ASSUME NEW v \in 1 .. l + r PROVE v \in 1 .. l \/ \E n \in 1 .. r : v = l + n
    <3>1. v \in 1 .. l \/ (v - l \in 1 .. r /\ v = l + (v - l))
      BY <1>2
    <3> QED BY <3>1
  <2>2. /\ \A v \in 1 .. l : v \in 1 .. l + r
        /\ \A n \in 1 .. r : l + n \in 1 .. l + r /\ l + n \notin 1 .. l
        /\ \A m, n \in 1 .. r : l + m = l + n => m = n
    BY <1>2
  <2> QED BY <2>1, <2>2
<1>7. \A k \in linked' : k \in linked \/ \E n \in 1 .. r : k = at(n)
  BY <1>4
<1>8. \A k \in linked' : k[2] \in 1 .. l + r
  BY <1>3, <1>5, <1>6, <1>7
<1>9. \A v \in 1 .. l + r : \E k \in linked' : k[2] = v
  <2> SUFFICES ASSUME NEW v \in 1 .. l + r PROVE \E k \in linked' : k[2] = v
    OBVIOUS
  <2>1. linked \subseteq linked' /\ \A n \in 1 .. r : at(n) \in linked'
    BY <1>4
  <2>2. CASE v \in 1 .. l
    <3>1. PICK k \in linked : k[2] = v
      BY <1>3, <2>2
    <3> QED BY <2>1, <3>1
  <2>3. ASSUME NEW n \in 1 .. r, v = l + n PROVE \E k \in linked' : k[2] = v
    BY <1>5, <2>1, <2>3
  <2> QED BY <1>6, <2>2, <2>3
<1>10. \A j, k \in linked' : j[2] = k[2] => j = k
  BY <1>3, <1>5, <1>6, <1>7
<1>11. \A v \in 1 .. l + r : pool'[v] # Blank
  <2>1. \A n \in 1 .. r : rows[n].value # Blank
    <3>1. \A n \in 1 .. r : \E p, i : i # Blank /\ rows[n] = Row(p, i)
      BY <1>1 DEF r
    <3>2. \A p, i : Row(p, i).value = i
      BY DEF Row
    <3> QED BY <3>1, <3>2
  <2> QED BY <1>3, <1>4, <1>6, <2>1
<1>12. ASSUME NEW p, NEW i, i # Blank
       PROVE  /\ IsFiniteSet(Owned(p, i)') /\ IsFiniteSet(Naming(p, i)')
              /\ Cardinality(Owned(p, i)') = Cardinality(Naming(p, i)')
  <2> DEFINE O == Owned(p, i)
             N == Naming(p, i)
             m == Len(history) + 1
  <2>1. IsFiniteSet(O) /\ IsFiniteSet(N) /\ Cardinality(O) = Cardinality(N)
    BY <1>12 DEF GalleryInv
  <2>2. /\ m \notin N /\ m \in Nat
        /\ Naming(p, i)' = IF Names(f, p, i) THEN N \cup {m} ELSE N
    <3>1. /\ Len(history) \in Nat /\ DOMAIN history = 1 .. Len(history)
          /\ DOMAIN history' = 1 .. Len(history) + 1
          /\ history'[Len(history) + 1] = f
          /\ \A n \in DOMAIN history : history'[n] = history[n]
      BY AppendFacts
    <3>2. \A n \in DOMAIN history' : n \in DOMAIN history \/ n = m
      BY <3>1
    <3>3. m \notin DOMAIN history /\ m \in DOMAIN history' /\ DOMAIN history \subseteq DOMAIN history'
      BY <3>1
    <3>4. Naming(p, i)' = {n \in DOMAIN history' : Names(history'[n], p, i)}
      BY DEF Naming, Names, OwnLines
    <3>5. history'[m] = f
      BY <3>1
    <3> HIDE DEF m
    <3> QED BY <3>1, <3>2, <3>3, <3>4, <3>5 DEF Naming, m
  <2>3. Owned(p, i)' = O \cup {at(n) : n \in {n \in 1 .. r : rows[n] = Row(p, i)}}
    <3>1. \A k \in linked : k \in Owned(p, i)' <=> k \in O
      BY <1>3, <1>4 DEF Owned
    <3>2. \A n \in 1 .. r : at(n) \in Owned(p, i)' <=> rows[n] = Row(p, i)
      <4> TAKE n \in 1 .. r
      <4>1. PICK q, j : rows[n] = Row(q, j)
        BY <1>1 DEF r
      <4>2. rows[n] = Row(p, i) <=> rows[n].key = p /\ rows[n].value = i
        BY <4>1 DEF Row
      <4>3. at(n) \in linked' /\ at(n)[1] = rows[n].key /\ pool'[at(n)[2]] = rows[n].value
        BY <1>4, <1>5
      <4> QED BY <4>2, <4>3 DEF Owned
    <3>3. Owned(p, i)' \subseteq linked' /\ O \subseteq linked
      BY DEF Owned
    <3>4. \A k \in Owned(p, i)' : k \in linked \/ \E n \in 1 .. r : k = at(n)
      BY <1>7, <3>3
    <3> DEFINE P == Owned(p, i)'
    <3> HIDE DEF O, P
    <3>5. \A k \in linked : k \in P <=> k \in O
      BY <3>1 DEF P
    <3>6. \A n \in 1 .. r : at(n) \in P <=> rows[n] = Row(p, i)
      BY <3>2 DEF P
    <3>7. P = O \cup {at(n) : n \in {n \in 1 .. r : rows[n] = Row(p, i)}}
      BY <3>3, <3>4, <3>5, <3>6 DEF P
    <3> QED BY <3>7 DEF P
  <2>4. CASE Names(f, p, i)
    <3>1. PICK n \in 1 .. r : rows[n] = Row(p, i)
      BY <1>1, <1>2, <1>12, <2>4
    <3>2. {n2 \in 1 .. r : rows[n2] = Row(p, i)} = {n}
      BY <1>1, <3>1 DEF Distinct, r
    <3>3. Owned(p, i)' = O \cup {at(n)}
      BY <2>3, <3>2
    <3>4. at(n) \notin O
      BY <1>3, <1>5, <1>6 DEF Owned
    <3>5. Naming(p, i)' = N \cup {m}
      BY <2>2, <2>4
    <3> DEFINE k == at(n)
    <3> HIDE DEF O, N, m, k
    <3>6. k \notin O /\ m \notin N
      BY <2>2, <3>4 DEF k
    <3>7. IsFiniteSet(O \cup {k}) /\ Cardinality(O \cup {k}) = Cardinality(O) + 1
      BY <2>1, <3>6, FS_AddElement
    <3>8. IsFiniteSet(N \cup {m}) /\ Cardinality(N \cup {m}) = Cardinality(N) + 1
      BY <2>1, <3>6, FS_AddElement
    <3>9. Owned(p, i)' = O \cup {k}
      BY <3>3 DEF k
    <3> QED BY <2>1, <3>5, <3>7, <3>8, <3>9
  <2>5. CASE ~ Names(f, p, i)
    <3>1. Row(p, i) \notin ToSet(rows)
      BY <1>1, <1>12, <2>5
    <3>2. {n \in 1 .. r : rows[n] = Row(p, i)} = {}
      BY <1>2, <3>1
    <3>3. Owned(p, i)' = O
      BY <2>3, <3>2
    <3> QED BY <2>1, <2>2, <2>5, <3>3
  <2> QED BY <2>4, <2>5
<1>13. IsSeq(pool')
  BY <1>1
<1>14. Len(pool') = l + r
  BY <1>4
<1> QED BY <1>8, <1>9, <1>10, <1>11, <1>12, <1>13, <1>14 DEF GalleryInv

LEMMA GalleryInvariant == ImportSpec => []GalleryInv
<1>1. ImportInit => GalleryInv
  <2> SUFFICES ASSUME ImportInit PROVE GalleryInv
    OBVIOUS
  <2>1. pool = <<>> /\ linked = {} /\ history = <<>>
    BY DEF ImportInit, Init
  <2>2. Len(pool) = 0 /\ 1 .. 0 = {} /\ DOMAIN history = {}
    BY <2>1
  <2>3. \A p, i : Owned(p, i) = {} /\ Naming(p, i) = {}
    BY <2>1, <2>2 DEF Owned, Naming
  <2> QED BY <2>1, <2>2, <2>3, EmptyIsSeq, FS_EmptySet DEF GalleryInv
<1>2. HistoryOK /\ GalleryInv /\ [ImportNext]_allVars => GalleryInv'
  <2> SUFFICES ASSUME HistoryOK, GalleryInv, [ImportNext]_allVars PROVE GalleryInv'
    OBVIOUS
  <2>1. CASE UNCHANGED vars
    <3>1. pool' = pool /\ linked' = linked /\ history' = history
      BY <2>1 DEF vars, gallery
    <3>2. \A p, i : Owned(p, i)' = Owned(p, i) /\ Naming(p, i)' = Naming(p, i)
      BY <3>1 DEF Owned, Naming, Names, OwnLines
    <3> QED BY <3>1, <3>2 DEF GalleryInv
  <2>2. ASSUME NEW f \in Files, ImportCsv(f), history' = Append(history, f)
        PROVE  GalleryInv'
    <3>1. ImportFile(f)
      BY <2>2 DEF ImportCsv
    <3> QED BY <2>2, <3>1, GalleryStep
  <2> QED BY <2>1, <2>2, HistoryGrows
<1> QED BY <1>1, <1>2, HistoryInvariant, PTL DEF ImportSpec

\* Every row of the image pool is linked to one product, and a product to as
\* many rows of an image as there were imports whose file named it, for any
\* files and any size of the chunks that the value_ids are worked out for
\* (flush_gallery, crates/import/src/gallery.rs).
THEOREM ImagesAreLinkedOnce == ImportSpec => []ImagesAreLinked
<1>1. GalleryInv => ImagesAreLinked
  <2> SUFFICES ASSUME GalleryInv PROVE ImagesAreLinked
    OBVIOUS
  <2> DEFINE n == Len(pool)
             S == 1 .. n
  <2>1. n \in Nat /\ DOMAIN pool = S
    BY IsSeqFacts DEF GalleryInv
  <2>2. {k[2] : k \in linked} = DOMAIN pool
    BY <2>1 DEF GalleryInv
  <2>3. Cardinality(linked) = n
    <3> DEFINE b == [v \in S |-> CHOOSE k \in linked : k[2] = v]
    <3>1. \A v \in S : b[v] \in linked /\ b[v][2] = v
      BY DEF GalleryInv
    <3>2. \A k \in linked : k[2] \in S /\ b[k[2]] = k
      BY <3>1 DEF GalleryInv
    <3>3. b \in [S -> linked]
      BY <3>1
    <3> HIDE DEF b, S
    <3>4. ExistsBijection(S, linked)
      <4>1. DOMAIN b = S
        BY <3>3
      <4>2. \A u, v \in S : b[u] = b[v] => u = v
        BY <3>1
      <4>3. \A k \in linked : \E v \in S : b[v] = k
        BY <3>2
      <4> QED BY <3>3, <4>1, <4>2, <4>3, Zenon DEF ExistsBijection, Bijection, Injection,
                                                   Surjection, IsInjective
    <3> HIDE DEF n
    <3> QED BY <2>1, <3>4, FS_CountingElements DEF S
  <2>4. ASSUME NEW p \in known, NEW i \in ToSet(pool)
        PROVE  Cardinality({k \in linked : k[1] = p /\ pool[k[2]] = i})
                 = Cardinality({m \in DOMAIN history :
                      \E line \in OwnLines(history[m]) : line.sku = p /\ i \in ToSet(line.images)})
    <3>1. i # Blank
      BY <2>1 DEF GalleryInv, ToSet
    <3>2. Cardinality(Owned(p, i)) = Cardinality(Naming(p, i))
      BY <3>1 DEF GalleryInv
    <3> QED BY <3>2 DEF Owned, Naming, Names
  <2> QED BY <2>2, <2>3, <2>4 DEF ImagesAreLinked
<1> QED BY <1>1, GalleryInvariant, PTL
=============================================================================
