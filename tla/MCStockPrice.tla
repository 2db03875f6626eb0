---- MODULE MCStockPrice ----
(* Six files and two calls about two new products, one that was there      *)
(* before, and a sku that no file has: each list column has entries that   *)
(* repeat, refer to their own line, to a later line, or to nothing, and    *)
(* each stock and price column is given, blank or bad somewhere.           *)
EXTENDS StockPrice

MCSku == {"a", "b", "old", "ghost"}
MCExisting == {"old"}
MCLinkColumns == <<"related", "grouped">>
MCAttribute == {"color", "nope"}
MCKnownAttribute == {"color"}

Plain(sku) ==
    [sku |-> sku, linked |-> [c \in ToSet(LinkColumns) |-> <<>>],
     bundle |-> <<>>, super |-> <<>>, children |-> <<>>, options |-> <<>>,
     downloads |-> <<>>, samples |-> <<>>, tiers |-> <<>>, images |-> <<>>]

Linked(r, g)    == [c \in ToSet(LinkColumns) |-> IF c = "related" THEN r ELSE g]
Choice(h, s)    == [head |-> h, skus |-> s]
Option(t, c)   == [type |-> t, title |-> "o", choices |-> c]
Tier(a, g, p)   == [valid |-> TRUE, all |-> a, group |-> g, qty |-> 1, price |-> p]
BadTier         == [valid |-> FALSE, all |-> FALSE, group |-> 1, qty |-> 1, price |-> 9]

Links == <<[Plain("a") EXCEPT !.linked = Linked(<<"b", Blank, "ghost", "a">>, <<"old">>),
                              !.children = <<"b", "ghost">>],
           [Plain("b") EXCEPT !.linked = Linked(<<"a", "a">>, <<>>)],
           [Plain(Blank) EXCEPT !.linked = Linked(<<"b">>, <<"ghost">>)]>>
Grouped == <<[Plain("old") EXCEPT !.linked = Linked(<<"a">>, <<"a", "b">>),
                                  !.children = <<"b", "old", "a">>,
                                  !.super = <<"nope", "color">>]>>
Bundles == <<[Plain("a") EXCEPT
                !.bundle = <<Choice(FALSE, <<"ghost">>), Choice(TRUE, <<"b", "old", "a">>),
                             Choice(TRUE, <<"ghost">>)>>,
                !.children = <<"b">>],
             [Plain("a") EXCEPT !.bundle = <<Choice(TRUE, <<"old">>)>>,
                                !.super = <<"color">>]>>
Options == <<[Plain("a") EXCEPT
                !.options = <<Option("field", <<>>), Option("drop_down", <<FALSE, TRUE>>)>>,
                !.downloads = <<"one", Untitled>>, !.samples = <<Blank>>],
             [Plain("a") EXCEPT !.options = <<Option("radio", <<TRUE, TRUE>>)>>,
                                !.images = <<"i", Blank, "j", "i">>]>>
Empties == <<[Plain("a") EXCEPT
                !.options = <<Option("drop_down", <<FALSE>>), Option("shape", <<>>),
                            [Option("field", <<>>) EXCEPT !.title = Untitled]>>,
                !.samples = <<"clip", "clip">>, !.images = <<"i">>],
             [Plain("b") EXCEPT !.options = <<Option("field", <<>>)>>,
                                !.downloads = <<Untitled>>, !.images = <<"k", "i">>]>>
Tiers == <<[Plain("b") EXCEPT
              !.tiers = <<Tier(TRUE, 0, 1), Tier(FALSE, 0, 2), BadTier, Tier(FALSE, 1, 3)>>],
           [Plain("b") EXCEPT !.tiers = <<Tier(FALSE, 1, 4)>>, !.children = <<"a">>],
           [Plain("old") EXCEPT !.children = <<"a">>]>>

MCFiles == {Links, Grouped, Bundles, Options, Empties, Tiers}

\* The stock and price cells that f gives, the others being blank.
Only(columns, f) == [c \in columns |-> IF c \in DOMAIN f THEN f[c] ELSE Blank]
CellsOf(f)       == Only(StockColumns \cup PriceColumns, f)
ItemOf(s, f)     == [sku |-> s, cell |-> Only(StockColumns, f)]

MCCells == [f \in MCFiles |->
    CASE f = Links   -> <<CellsOf([qty |-> 7, min_qty |-> 2, price_index |-> 10, final_price |-> 8]),
                          CellsOf([qty |-> 1, is_in_stock |-> 1]), CellsOf([qty |-> 9])>>
      [] f = Grouped -> <<CellsOf([qty |-> 5, min_qty |-> 2, manage_stock |-> 0])>>
      [] f = Bundles -> <<CellsOf([qty |-> 3, min_sale_qty |-> 4, max_price |-> 4]),
                          CellsOf([is_in_stock |-> 0, final_price |-> 6, min_price |-> Bad])>>
      [] f = Options -> <<CellsOf([price_index |-> 3, tier_price |-> 2, final_price |-> Bad,
                                   manage_stock |-> 0]), CellsOf([max_price |-> 4])>>
      [] f = Empties -> <<CellsOf([qty |-> 6, min_qty |-> Bad, max_sale_qty |-> Bad]),
                          CellsOf([qty |-> 8, is_in_stock |-> Bad, price_index |-> Bad])>>
      [] f = Tiers   -> <<CellsOf([qty |-> Bad, is_in_stock |-> 1, final_price |-> Bad]),
                          CellsOf([min_qty |-> 3]), CellsOf([min_sale_qty |-> 2])>>]

MCCalls == {<<ItemOf("a", [qty |-> 4]), ItemOf("ghost", [qty |-> 1]),
              ItemOf(Blank, [qty |-> 2])>>,
            <<ItemOf("b", [is_in_stock |-> 0, max_sale_qty |-> 9]),
              ItemOf("old", [manage_stock |-> 0])>>}
====
