----------------------------- MODULE StockPrice -----------------------------
(***************************************************************************)
(* The stock and price columns of a product CSV (crates/import:            *)
(* stock_bucket.rs, price_bucket.rs, flush.rs), which an import collects   *)
(* beside the columns of ListColumns, and the stock items of a REST call   *)
(* (crates/api-rest/src/stock.rs), which write the same table.             *)
(***************************************************************************)
EXTENDS ListColumns

CONSTANTS
    Cells,      \* of each file, the stock and price cells of its lines
    Calls,      \* the bodies of REST calls: sequences of items
    Bad,        \* a cell that does not parse
    Null,       \* SQL NULL
    MaxCalls    \* bound: REST calls

GateColumns  == {"qty", "is_in_stock"}
StockColumns == GateColumns \cup {"manage_stock", "min_qty", "min_sale_qty", "max_sale_qty"}
PriceColumns == {"price_index", "final_price", "min_price", "max_price", "tier_price"}
PriceFields  == (PriceColumns \ {"price_index"}) \cup {"price"}

Cell == Nat \cup {Blank, Bad}
Item == [sku : Name, cell : [StockColumns -> Nat \cup {Blank}]]

ASSUME StockPriceAssumption ==
    /\ {Blank, Bad, Null} \cap Nat = {} /\ Cardinality({Blank, Bad, Null}) = 3
    /\ Cells \in [Files -> Seq([StockColumns \cup PriceColumns -> Cell])]
    /\ \A f \in Files : Len(Cells[f]) = Len(f)
    /\ Calls \subseteq Seq(Item)
    /\ MaxCalls \in Nat

VARIABLES
    stock,      \* cataloginventory_stock_item: product -> column -> value
    price,      \* catalog_product_index_price: product -> field -> value
    calls       \* the REST calls so far: [after, call], after so many imports

allVars == <<vars, stock, price, calls>>

\* A file's lines as records of a sku and its cells.
CellLines(f) == [n \in DOMAIN f |-> [sku |-> f[n].sku, cell |-> Cells[f][n]]]

Valid(cell) == cell \notin {Blank, Bad}

-----------------------------------------------------------------------------
(* stock_bucket.rs *)

DefaultStock == [c \in StockColumns |-> IF c \in {"is_in_stock", "manage_stock"} THEN 1 ELSE 0]

\* Mutant: only an invalid qty abandons the line.
AbandonedByQty(line) == line.cell["qty"] = Bad

\* An invalid qty or is_in_stock abandons the line's stock fields.
Abandoned(line) == \E c \in GateColumns : line.cell[c] = Bad

Populated(line) == \E c \in GateColumns : Valid(line.cell[c])

StockLines(f) ==
    {n \in DOMAIN f : f[n].sku # Blank /\ ~Abandoned(f[n]) /\ Populated(f[n])}

\* Mutant: the item is made once, not once a line.
StockItemCarriedOver(f, n) ==
    [c \in StockColumns |->
        LET set == {k \in 1 .. n : Valid(f[k].cell[c])} IN
        IF set = {} THEN DefaultStock[c]
        ELSE f[CHOOSE k \in set : \A j \in set : j <= k].cell[c]]

\* Any other field that is blank or invalid is left at its default.
StockItem(f, n) ==
    [c \in StockColumns |-> IF Valid(f[n].cell[c]) THEN f[n].cell[c] ELSE DefaultStock[c]]

-----------------------------------------------------------------------------
(* price_bucket.rs *)

\* An invalid price_index abandons the line; it or final_price makes a row.
PriceLines(f) ==
    {n \in DOMAIN f :
        /\ f[n].sku # Blank /\ f[n].cell["price_index"] # Bad
        /\ Valid(f[n].cell["price_index"]) \/ Valid(f[n].cell["final_price"])}

\* price_index seeds all but the tier price.
Seed(line) ==
    [c \in PriceFields |->
        IF c # "tier_price" /\ Valid(line.cell["price_index"])
        THEN line.cell["price_index"] ELSE 0]

PriceItem(line) ==
    [c \in PriceFields |->
        IF c # "price" /\ Valid(line.cell[c]) THEN line.cell[c] ELSE Seed(line)[c]]

-----------------------------------------------------------------------------
(* api-rest/src/stock.rs *)

JsonDefault ==
    [DefaultStock EXCEPT !["qty"] = Null, !["min_sale_qty"] = 1]

\* The items of products that exist; the others are skipped, with a warning.
JsonItems(call) == {n \in DOMAIN call : call[n].sku # Blank /\ call[n].sku \in known}

JsonItem(call, n) ==
    [c \in StockColumns |->
        IF call[n].cell[c] # Blank THEN call[n].cell[c] ELSE JsonDefault[c]]

-----------------------------------------------------------------------------
LastOf(list, chosen, s) ==
    CHOOSE n \in chosen : list[n].sku = s /\ \A k \in chosen : list[k].sku = s => k <= n

SkusOf(list, chosen) == {list[n].sku : n \in chosen}

\* flush_stock, flush_price: "rows" has a row for some of the lines of "list",
\* and all columns of a row of the table are overwritten.
Flushed(table, list, rows) ==
    LET skus == SkusOf(list, DOMAIN rows) IN
    [s \in DOMAIN table \cup skus |->
        IF s \in skus THEN rows[LastOf(list, DOMAIN rows, s)] ELSE table[s]]

FlushedStock(lines) ==
    Flushed(stock, lines, [n \in StockLines(lines) |-> StockItem(lines, n)])

ImportInit == Init /\ stock = EmptyTable /\ price = EmptyTable /\ calls = <<>>

\* One import_products, all of its columns.
ImportCsv(f) ==
    LET lines == CellLines(f) IN
    /\ ImportFile(f)
    /\ stock' = FlushedStock(lines)
    /\ price' = Flushed(price, lines, [n \in PriceLines(lines) |-> PriceItem(lines[n])])
    /\ UNCHANGED calls

ImportJson(call) ==
    /\ Len(calls) < MaxCalls
    /\ call # <<>>
    /\ stock' = Flushed(stock, call, [n \in JsonItems(call) |-> JsonItem(call, n)])
    /\ calls' = Append(calls, [after |-> Len(history), call |-> call])
    /\ UNCHANGED <<vars, price>>

ImportNext == (\E f \in Files : ImportCsv(f)) \/ (\E call \in Calls : ImportJson(call))

ImportSpec == ImportInit /\ [][ImportNext]_allVars
-----------------------------------------------------------------------------
(* Properties. *)

\* What the fields of a stock row say comes from one line or one item: no
\* field is left over from another line, nor from the row it overwrites.
StockRowOfOneLine ==
    \A s \in DOMAIN stock :
        \/ \E f \in ToSet(history) : \E l \in ToSet(CellLines(f)) :
             l.sku = s /\ \A c \in StockColumns :
               stock[s][c] = IF Valid(l.cell[c]) THEN l.cell[c] ELSE DefaultStock[c]
        \/ \E h \in ToSet(calls) : \E i \in ToSet(h.call) :
             i.sku = s /\ \A c \in StockColumns :
               stock[s][c] = IF i.cell[c] # Blank THEN i.cell[c] ELSE JsonDefault[c]

\* A half-applied stock update is worse than none: an import keeps the whole
\* stock row of a product none of whose lines has both gate columns right.
NoHalfAppliedStock ==
    [][history' # history =>
         \A s \in DOMAIN stock :
           (\A l \in ToSet(CellLines(Last(history'))) :
                l.sku = s => \E c \in GateColumns : l.cell[c] = Bad)
             => stock'[s] = stock[s]]_allVars

\* stock_bucket.rs:36-38: an invalid min_qty, min_sale_qty or max_sale_qty is
\* not written as zero, which "would look like real data, not an error".
NoZeroForUnparseable ==
    [][history' # history =>
         \A s \in DOMAIN stock : \A c \in StockColumns \ GateColumns :
           LET own == {l \in ToSet(CellLines(Last(history'))) : l.sku = s} IN
           (stock[s][c] # 0 /\ own # {} /\ \A l \in own : l.cell[c] = Bad)
             => stock'[s][c] # 0]_allVars
=============================================================================
