---------------------------- MODULE MCStorefront ----------------------------
(* Two requests, two products that begin in one category, and two sources. *)
EXTENDS Storefront

CONSTANTS r1, r2

MCRequest == {r1, r2}

Decimal(code, value, store) == [code |-> code, store |-> store, value |-> value]
Index(group, price, final) == [group |-> group, website |-> 1, price |-> price, final |-> final]

Base(sku, price) ==
    [row |-> sku, varchar |-> {"n"}, decimal |-> {Decimal("price", price, 0)},
     stock |-> {}, index |-> {}, links |-> {1}]

MCFirstDb ==
    {<<[Base("A", 5) EXCEPT !["index"] = {Index(1, 1, 1)}],
       [Base("B", 7) EXCEPT !["stock"] = {[stock |-> 1, qty |-> 1, in_stock |-> TRUE]}],
       [[p \in Part |-> {}] EXCEPT !["row"] = NoSku]>>}

\* Product 1 goes, is priced anew, or leaves the category; product 2 takes
\* the sku of product 1, or a new product does.
MCContents ==
    [x \in Id \X Part |->
        CASE x = <<1, "row">> -> {NoSku}
          [] x = <<1, "decimal">> -> {{Decimal("price", 6, 0), Decimal("price", NoPrice, 1),
                                       Decimal("special_price", 4, 0)}}
          [] x = <<1, "index">> -> {{Index(0, 3, 2), Index(1, 1, 1)}}
          [] x = <<1, "links">> -> {{}}
          [] x = <<2, "row">> -> {"A"}
          [] x = <<3, "row">> -> {"A"}
          [] OTHER -> {}]

Web(kind, ids, categories, text, page) ==
    [NoQuery EXCEPT !.kind = kind, !.ids = ids, !.categories = categories, !.text = text,
                    !.page = page, !.size = 1]
Gql(kind, store, skus, categories) ==
    [NoQuery EXCEPT !.kind = kind, !.api = "graphql", !.store = store, !.skus = skus,
                    !.categories = categories, !.size = 1]
Rest(kind, ids, text, size) ==
    [NoQuery EXCEPT !.kind = kind, !.api = "rest", !.ids = ids, !.text = text, !.size = size]

MCViewQuery ==
    {Web("grid", <<>>, {{1}}, NoText, 1), Web("search", <<>>, {}, "n", 2),
     Web("page", <<1>>, {}, NoText, 1),
     Gql("product", 0, {{"B"}}, {}), Gql("magentoProducts", 0, {}, {{1}}),
     Rest("flatIds", <<2, 1, 2, 9>>, NoText, 0), Rest("get", <<1>>, NoText, 0),
     Rest("list", <<>>, NoText, 1), Rest("delete", <<1>>, NoText, 0),
     Rest("put", <<2>>, "A", 0), Rest("post", <<>>, "A", 0),
     Rest("both", <<>>, "A", 0)}

MCSrc == {<<"s">>, <<"s", "1">>}
MCNoSrc == <<"">>

\* The second picture is still to come.
MCFirstSource == {<<"s">> :> 1 @@ <<"s", "1">> :> 0}

Picture(src, w, h, kind) == [src |-> src, w |-> w, h |-> h, kind |-> kind, quality |-> 0]

\* Two types of one picture, and one of another whose file is the first's.
MCImageQuery ==
    {Picture(<<"s">>, 1, 2, <<"3", "jpeg">>), Picture(<<"s">>, 1, 2, <<"png">>),
     Picture(<<"s", "1">>, 2, 3, <<"jpeg">>)}

MCBlocks == <<2, 1>> @@ 0 :> 1

Symmetry == Permutations(MCRequest)
=============================================================================
