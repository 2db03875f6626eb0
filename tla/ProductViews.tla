---------------------------- MODULE ProductViews ----------------------------
(***************************************************************************)
(* What the server shows of products: the category grid, the search and    *)
(* the product page (crates/web), the product queries of crates/api-graphql*)
(* and crates/api-rest, and the price and stock of crates/api-realtime,    *)
(* while imports, REST calls and the shop write to the database.           *)
(* A handler makes several SELECTs, each in a snapshot of its own, and the *)
(* three APIs keep a FlatCache each.  FlatReads has the protocol of the    *)
(* cache in full; here the probes of one fetch are one step, and so are    *)
(* its SELECTs, each of which takes the database of a moment of its own.   *)
(***************************************************************************)
EXTENDS Requests, Paging, Listings, FiniteSets, TLC

CONSTANTS
    MaxId,          \* bound: the products there are
    Contents,       \* what can be written, by product and table
    FirstDb,        \* the databases to begin with
    ViewQuery,      \* the queries that are asked
    NoSku,          \* no entity row
    NoText,         \* no name, or no search text
    Unparsable,     \* a category id that is no number
    MaxWrite        \* bound: writes to the database

Id == 1 .. MaxId
Part == {"row", "varchar", "decimal", "stock", "index", "links"}
PartOrder == <<"row", "varchar", "decimal", "stock", "index", "links">>

NoPrice == 0        \* NULL, or no such row
NoStock == [stock |-> 0, qty |-> 0, in_stock |-> FALSE]
NoIndex == [group |-> 0, website |-> 0, price |-> NoPrice, final |-> NoPrice]
DefaultStockId == 1
Guest == 0          \* GUEST_CUSTOMER_GROUP_ID

\* entity::product: what the tables hold of one product.  row is the sku.
Columns(p, x) ==
    /\ p = "decimal" => \A v \in x : DOMAIN v = {"code", "store", "value"} /\ v.value \in Nat
    /\ p = "stock" => \A s \in x : DOMAIN s = DOMAIN NoStock
    /\ p = "index" => \A i \in x : DOMAIN i = DOMAIN NoIndex

Row(x) == DOMAIN x = Part /\ \A p \in Part : Columns(p, x[p])

NoQuery == [kind |-> "none", api |-> "web", store |-> 0, ids |-> <<>>, skus |-> {},
            categories |-> {}, text |-> NoText, page |-> 1, size |-> 0]

\* The queries of GraphQL; no sku that is asked for stands for no entity row.
GraphqlKinds == {"products", "product", "magentoProducts"}

Query(q) ==
    /\ DOMAIN q = DOMAIN NoQuery
    /\ q.ids \in Seq(Nat) /\ q.page \in Nat /\ q.size \in Nat
    /\ q.api = "graphql" <=> q.kind \in GraphqlKinds
    /\ \A S \in q.skus : NoSku \notin S

ASSUME ViewAssumption ==
    /\ MaxId \in Nat /\ MaxWrite \in Nat
    /\ DOMAIN Contents = Id \X Part
    /\ \A id \in Id, p \in Part : \A x \in Contents[<<id, p>>] : Columns(p, x)
    /\ \A d \in FirstDb : DOMAIN d = Id /\ \A id \in Id : Row(d[id])
    /\ \A q \in ViewQuery : Query(q)

VARIABLES
    log,        \* the states of the database; the last is the current one
    booted,     \* the moment the server last started
    cacheOn,    \* product_flat_cache_enabled
    caches,     \* the FlatCaches: <<api, store, id>> -> flattened product
    view        \* each request

viewVars == <<log, booted, cacheOn, caches, view>>

Now == Len(log)
Db  == log[Now]

NoCache == [k \in {} |-> NoIndex]

NoRequest ==
    [pc |-> "idle", q |-> NoQuery,
     boot |-> 0, since |-> 0, until |-> 0,  \* history: the server's start,
                                        \* its own first moment and its last
     ids |-> <<>>, listed |-> 0,        \* the ids it found, and when
     probed |-> 0,                      \* when it looked into the cache
     missing |-> {}, rows |-> NoCache,  \* what it reads, and has read
     results |-> NoCache, hits |-> {},  \* what it got, and what was cached
     steps |-> {}, carrier |-> 0, price |-> NoPrice, stock |-> NoStock,
     lost |-> FALSE, status |-> 0]

ViewInit ==
    /\ log \in {<<d>> : d \in FirstDb}
    /\ booted = 1
    /\ cacheOn \in BOOLEAN
    /\ caches = NoCache
    /\ view = [r \in Request |-> NoRequest]

ViewEnded == {"idle", "ok", "failed", "gone"}

ListKinds == {"flat", "products", "product", "magentoProducts"}
PageKinds == {"grid", "search"}

ViewTypeOK ==
    /\ \A k \in 1 .. Now : DOMAIN log[k] = Id /\ \A id \in Id : Row(log[k][id])
    /\ Now \in 1 .. MaxWrite + 1 /\ booted \in 1 .. Now
    /\ cacheOn \in BOOLEAN
    /\ \A k \in DOMAIN caches : k[3] \in Id /\ caches[k].id = k[3]
    /\ \A r \in Request :
         /\ view[r].pc \in ViewEnded \cup {"list", "find", "probe", "read", "put", "join", "write"}
         /\ view[r].q \in ViewQuery \cup {NoQuery}
         /\ view[r].since \in 0 .. Now /\ view[r].until \in 0 .. Now
         /\ view[r].missing \subseteq Id /\ view[r].hits \subseteq DOMAIN view[r].results
         /\ view[r].status \in {0, 200, 201, 204, 404, 500}

-----------------------------------------------------------------------------
(* Writers. *)

View(r, new) == view' = [view EXCEPT ![r] = new]

\* The answer is ready: what it was made of is dropped.
Over(v, status) ==
    [v EXCEPT !.pc = "ok", !.until = Now, !.status = status, !.listed = 0, !.probed = 0,
              !.rows = NoCache, !.carrier = 0]

\* There is none.
Broken(status) == [NoRequest EXCEPT !.pc = "failed", !.status = status]

Exists(d, id) == id \in Id /\ d[id]["row"] # NoSku

Written(new) ==
    /\ Now <= MaxWrite
    /\ log' = Append(log, new)

\* AUTO_INCREMENT: an id above all there ever were.
IsNextId(id) ==
    /\ \A k \in 1 .. Now : \A j \in id .. MaxId : ~Exists(log[k], j)
    /\ \A j \in 1 .. id - 1 : \E k \in 1 .. Now : \E i \in j .. id - 1 : Exists(log[k], i)

\* An import or the shop writes the rows of one table.
Change(id, p, x) ==
    /\ x # Db[id][p]
    /\ p = "row" => IF Exists(Db, id) THEN TRUE ELSE IsNextId(id)
    /\ Written([Db EXCEPT ![id][p] = x])
    /\ UNCHANGED <<booted, cacheOn, caches, view>>

\* POST /products: product_db::create.
RestCreate(r) ==
    /\ view[r].pc = "write" /\ view[r].q.kind = "post"
    /\ \E id \in Id :
         /\ IsNextId(id)
         /\ Written([Db EXCEPT ![id]["row"] = view[r].q.text])
    /\ View(r, [view[r] EXCEPT !.pc = "ok", !.until = Now + 1, !.status = 201])
    /\ UNCHANGED <<booted, cacheOn, caches>>

\* PUT /products/{id}: MySQL reports the rows matched, changed or not.
RestUpdate(r) ==
    /\ view[r].pc = "write" /\ view[r].q.kind = "put"
    /\ LET id == view[r].q.ids[1] IN
       IF Exists(Db, id)
       THEN /\ Written([Db EXCEPT ![id]["row"] = view[r].q.text])
            /\ View(r, [view[r] EXCEPT !.pc = "ok", !.until = Now + 1, !.status = 200])
       ELSE View(r, Over(view[r], 404)) /\ UNCHANGED log
    /\ UNCHANGED <<booted, cacheOn, caches>>

\* DELETE /products/{id}; the other tables follow where keys cascade.
RestDelete(r) ==
    /\ view[r].pc = "write" /\ view[r].q.kind = "delete"
    /\ LET id == view[r].q.ids[1] IN
       IF Exists(Db, id)
       THEN /\ \E cascade \in BOOLEAN :
                 Written([Db EXCEPT ![id] = [p \in Part |->
                            IF p = "row" THEN NoSku
                            ELSE IF cascade THEN {} ELSE @[p]]])
            /\ View(r, [view[r] EXCEPT !.pc = "ok", !.until = Now + 1, !.status = 204])
       ELSE View(r, Over(view[r], 404)) /\ UNCHANGED log
    /\ UNCHANGED <<booted, cacheOn, caches>>

-----------------------------------------------------------------------------
(* Finding the ids. *)

FirstStep(q) ==
    CASE q.kind \in {"post", "put", "delete"} -> "write"
      [] q.kind \in {"price", "stock", "both"} -> "join"
      [] q.kind \in {"flatIds", "page"} -> "probe"
      [] OTHER -> "list"

\* The queries of a realtime request that can run now.
FirstSelects(q) == (IF q.kind \in {"price", "both"} THEN {"lookup"} ELSE {})
              \cup (IF q.kind \in {"stock", "both"} THEN {"stock"} ELSE {})

AskView(r, q) ==
    /\ view[r].pc = "idle"
    /\ View(r, [view[r] EXCEPT !.pc = FirstStep(q), !.q = q, !.since = Now,
                               !.boot = booted, !.ids = q.ids, !.steps = FirstSelects(q)])
    /\ UNCHANGED <<log, booted, cacheOn, caches>>

\* ORDER BY entity_id.
InOrder(ids) == Kept([n \in Id |-> n], ids)

\* The ids were found; where there are none nothing is fetched.
Found(r, ids) ==
    View(r, [view[r] EXCEPT !.pc = IF ids = <<>> THEN "put" ELSE "probe",
                            !.ids = ids, !.listed = Now])

\* Mutant: the pages of a grid count from 0.
GridPageFromZero(ids, q) ==
    LET p == Paginate(Len(ids), q.page, q.size) IN
    GridSlice(ids, [p EXCEPT !.page = @ + 1])

GridPage(ids, q) == GridSlice(ids, Paginate(Len(ids), q.page, q.size))

\* catalog_category_product: also those whose product is gone.
Linked(d, q) == {id \in Id : \A C \in q.categories : d[id]["links"] \cap C # {}}

\* web::category::show: product_ids_in_category, cut to the page.  For the
\* category itself, and for the menus of all pages, see CategoryPages.
ListCategory(r) ==
    /\ view[r].pc = "list" /\ view[r].q.kind = "grid"
    /\ Found(r, GridPage(InOrder(Linked(Db, view[r].q)), view[r].q))
    /\ UNCHANGED <<log, booted, cacheOn, caches>>

\* search_ids: the sku or a name, in whatever store, is like the text.
Hits(d, text) == {id \in Id : Exists(d, id) /\ (d[id]["row"] = text \/ text \in d[id]["varchar"])}

\* web::search::show.
ListSearch(r) ==
    /\ view[r].pc = "list" /\ view[r].q.kind = "search"
    /\ Found(r, IF view[r].q.text = NoText THEN <<>>
                ELSE GridPage(InOrder(Hits(Db, view[r].q.text)), view[r].q))
    /\ UNCHANGED <<log, booted, cacheOn, caches>>

\* find_all; only GET /products and /products/flat have a limit.
Limited(ids, limit) == SubSeq(ids, 1, IF limit = 0 THEN Len(ids) ELSE AtMost(Len(ids), limit))

\* Mutant: the page size of a GraphQL query is the limit of its SELECT.
LimitToPage(q) == q.size

Limit(q) == IF q.api = "rest" THEN q.size ELSE 0

AllIds(q) == Limited(InOrder({id \in Id : Exists(Db, id)}), Limit(q))

\* GET /products/flat, and the product queries of GraphQL: fetch_flat_list.
ListFlat(r) ==
    /\ view[r].pc = "list" /\ view[r].q.kind \in ListKinds
    /\ Found(r, AllIds(view[r].q))
    /\ UNCHANGED <<log, booted, cacheOn, caches>>

\* GET /products, which needs nothing more.
FindAll(r) ==
    /\ view[r].pc = "list" /\ view[r].q.kind = "list"
    /\ View(r, [Over(view[r], 200) EXCEPT !.ids = AllIds(view[r].q)])
    /\ UNCHANGED <<log, booted, cacheOn, caches>>

\* GET /products/{id}.
FindById(r) ==
    /\ view[r].pc = "list" /\ view[r].q.kind = "get"
    /\ View(r, IF Exists(Db, view[r].q.ids[1])
               THEN Over(view[r], 200)
               ELSE Over(view[r], 404))
    /\ UNCHANGED <<log, booted, cacheOn, caches>>

-----------------------------------------------------------------------------
(* Fetching the products. *)

Elems(s) == {s[n] : n \in DOMAIN s}

\* flat_by_ids and the pages use the cache even when it is off.
ForceBypass(q) == q.kind \in ListKinds /\ ~cacheOn

Bypass(q) == ForceBypass(q) \/ (q.kind \in ListKinds /\ Limit(q) > 0)

\* FlatCache::get.  Each API and each store has a cache; the store is 0 but
\* for GraphQL.
Cached(q, id) == ~Bypass(q) /\ <<q.api, q.store, id>> \in DOMAIN caches

\* The cache is asked for one id after the other.
Probe(r) ==
    /\ view[r].pc = "probe"
    /\ LET q   == view[r].q
           hit == {id \in Elems(view[r].ids) : Cached(q, id)}
           out == (Elems(view[r].ids) \ hit) \cap Id IN
       View(r, [view[r] EXCEPT !.pc = IF out = {} THEN "put" ELSE "read", !.probed = Now,
                               !.results = [id \in hit |-> caches[<<q.api, q.store, id>>]],
                               !.hits = hit, !.missing = out])
    /\ UNCHANGED <<log, booted, cacheOn, caches>>

\* The moments of batch_flatten's SELECTs, one table after another.  The
\* entity rows come with the list, or are selected by id.
Moments(v) ==
    {at \in [Part -> v.since .. Now] :
        /\ IF v.q.kind \in ListKinds THEN at["row"] = v.listed ELSE at["row"] >= v.probed
        /\ \A n \in 2 .. Len(PartOrder) :
             at[PartOrder[n]] >= v.probed /\ at[PartOrder[n]] >= at[PartOrder[n - 1]]}

Read(r) ==
    /\ view[r].pc = "read"
    /\ \E at \in Moments(view[r]) :
         LET found == {id \in view[r].missing : Exists(log[at["row"]], id)} IN
         View(r, [view[r] EXCEPT !.pc = "put", !.missing = found,
                    !.rows = [id \in found |-> [p \in Part |-> log[at[p]][id][p]]]])
    /\ UNCHANGED <<log, booted, cacheOn, caches>>

OrElse(S, x) == IF S = {} THEN {x} ELSE S

\* Mutant: any customer group's price is the guest's.
AnyIndex(rows) == OrElse(rows, NoIndex)

\* The index price of the guest: the first row of the group, in any website.
GuestIndex(rows) == OrElse({p \in rows : p.group = Guest}, NoIndex)

\* flatten_product.  Of the values of several stores, and of the rows of
\* several stocks, one wins: the SELECTs have no order.
Flattened(id, x) ==
    {[id |-> id, sku |-> x["row"], name |-> n, price |-> v, stock |-> s,
      prices |-> x["index"], guest |-> g, links |-> x["links"]] :
        n \in OrElse(x["varchar"], NoText),
        v \in OrElse({d.value : d \in {d \in x["decimal"] : d.code = "price"}}, NoPrice),
        s \in OrElse(x["stock"], NoStock),
        g \in GuestIndex(x["index"])}

\* FlatCache::put of a flattened product, and into the answer.
Put(r) ==
    /\ view[r].pc = "put"
    /\ \E id \in view[r].missing : \E flat \in Flattened(id, view[r].rows[id]) :
         /\ View(r, [view[r] EXCEPT !.missing = @ \ {id}, !.rows = [i \in DOMAIN @ \ {id} |-> @[i]],
                                  !.results = With(@, id, flat)])
         /\ caches' = IF Bypass(view[r].q) THEN caches
                      ELSE With(caches, <<view[r].q.api, view[r].q.store, id>>, flat)
    /\ UNCHANGED <<log, booted, cacheOn>>

\* A product page is not found, and a category id may be no number.
Answer(r) ==
    /\ view[r].pc = "put" /\ view[r].missing = {}
    /\ View(r, IF view[r].q.kind = "page" /\ view[r].results = NoCache
               THEN Over(view[r], 404)
               ELSE IF view[r].q.kind = "products" /\ {Unparsable} \in view[r].q.categories
               THEN Broken(200)
               ELSE Over(view[r], 200))
    /\ UNCHANGED <<log, booted, cacheOn, caches>>

\* A SELECT fails, or the client goes away.  The pages show an empty grid.
ViewFails(r) ==
    /\ view[r].pc \in {"list", "read", "join", "write"}
    /\ View(r, IF view[r].pc = "read" /\ view[r].q.kind \in PageKinds
               THEN [Over(view[r], 200) EXCEPT !.results = NoCache, !.hits = {}, !.lost = TRUE]
               ELSE Broken(IF view[r].q.kind = "get" THEN 404 ELSE 500))
    /\ UNCHANGED <<log, booted, cacheOn, caches>>

-----------------------------------------------------------------------------
(* What the answer shows. *)

\* The filters of products and magentoProducts; each is {} or the one given.
Filtered(q, flat) ==
    /\ \A S \in q.skus : flat.sku \in S
    /\ \A C \in q.categories : flat.links \cap C # {}

\* product: the sku or the url_key, for which the text stands.
LookedUp(q, flat) ==
    \/ \E S \in q.skus : flat.sku \in S
    \/ q.text # NoText /\ flat.name = q.text

\* The ids an answer shows, in the order in which they were found.
Shown(r) ==
    LET v == view[r]
        filtered == {id \in DOMAIN v.results : Filtered(v.q, v.results[id])}
        lookedUp == {id \in DOMAIN v.results : LookedUp(v.q, v.results[id])} IN
    CASE v.q.kind \in {"products", "magentoProducts"} ->
           QuerySlice(Kept(v.ids, filtered), v.q.size, v.q.page)
      [] v.q.kind = "product" ->
           LET found == Kept(v.ids, lookedUp) IN SubSeq(found, 1, AtMost(1, Len(found)))
      [] OTHER -> Kept(v.ids, DOMAIN v.results)

OrPrice(a, b) == IF a # NoPrice THEN a ELSE b

\* A tile of a grid.
Tile(flat) == [id |-> flat.id, sku |-> flat.sku, price |-> flat.price]

\* The product page: the price of the product itself, those of every customer
\* group and website, and out of stock where there is no stock row.
ProductPage(flat) ==
    [id |-> flat.id, sku |-> flat.sku, price |-> flat.price, prices |-> flat.prices,
     in_stock |-> flat.stock.in_stock]

\* Product::from_flat: the guest's prices, or the product's own price (nothing
\* has a final_price of its own).
FromFlat(flat) ==
    [id |-> flat.id, sku |-> flat.sku, price |-> OrPrice(flat.guest.price, flat.price),
     final_price |-> flat.guest.final, in_stock |-> flat.stock.in_stock]

\* MagentoProduct::from_flat.
MagentoFromFlat(flat) ==
    LET p == FromFlat(flat)
        final == OrPrice(p.final_price, p.price) IN
    [id |-> p.id, sku |-> p.sku, price |-> p.price, final_price |-> final,
     in_stock |-> p.in_stock,
     amount_off |-> IF final < p.price THEN p.price - final ELSE 0]

-----------------------------------------------------------------------------
(* The realtime endpoints. *)

\* The first SELECT of lowest_price_by_sku; a sku may be there twice.
LookupSku(r) ==
    /\ view[r].pc = "join" /\ "lookup" \in view[r].steps
    /\ LET carriers == {id \in Id : Db[id]["row"] = view[r].q.text} IN
       \E id \in OrElse(carriers, 0) :
          View(r, [view[r] EXCEPT !.carrier = id,
                     !.steps = (@ \ {"lookup"}) \cup (IF id = 0 THEN {} ELSE {"decimals"})])
    /\ UNCHANGED <<log, booted, cacheOn, caches>>

\* price and special_price of all stores.
Prices(d, id) == {v.value : v \in {v \in d[id]["decimal"] : v.code \in {"price", "special_price"}}}

\* Mutant: NULL counts as a price of 0.
LowestWithNull(S) == IF S = {} THEN NoPrice ELSE CHOOSE x \in S : \A y \in S : x <= y

Lowest(S) ==
    IF S \subseteq {NoPrice} THEN NoPrice
    ELSE CHOOSE x \in S \ {NoPrice} : \A y \in S \ {NoPrice} : x <= y

\* The second SELECT, by the id.
SelectDecimals(r) ==
    /\ view[r].pc = "join" /\ "decimals" \in view[r].steps
    /\ View(r, [view[r] EXCEPT !.price = Lowest(Prices(Db, view[r].carrier)),
                               !.steps = @ \ {"decimals"}])
    /\ UNCHANGED <<log, booted, cacheOn, caches>>

\* stock_by_sku: one SELECT joins the product and its stock.
StockOf(d, sku) ==
    {s \in UNION {d[id]["stock"] : id \in {id \in Id : d[id]["row"] = sku}} :
        s.stock = DefaultStockId}

SelectStock(r) ==
    /\ view[r].pc = "join" /\ "stock" \in view[r].steps
    /\ \E s \in OrElse(StockOf(Db, view[r].q.text), NoStock) :
         View(r, [view[r] EXCEPT !.stock = s, !.steps = @ \ {"stock"}])
    /\ UNCHANGED <<log, booted, cacheOn, caches>>

\* price_inventory has null for what is not there; the others are not found.
JoinEnds(r) ==
    /\ view[r].pc = "join" /\ view[r].steps = {}
    /\ View(r, Over(view[r],
                    IF \/ view[r].q.kind = "price" /\ view[r].price = NoPrice
                       \/ view[r].q.kind = "stock" /\ view[r].stock = NoStock
                    THEN 404 ELSE 200))
    /\ UNCHANGED <<log, booted, cacheOn, caches>>

-----------------------------------------------------------------------------
\* The server stops and starts anew: main builds new caches.
ViewCrash ==
    /\ caches' = NoCache
    /\ booted' = Now
    /\ view' = [r \in Request |-> IF view[r].pc \in ViewEnded THEN view[r]
                                  ELSE [NoRequest EXCEPT !.pc = "gone"]]
    /\ UNCHANGED <<log, cacheOn>>

ViewStep(r) ==
    \/ ListCategory(r) \/ ListSearch(r) \/ ListFlat(r) \/ FindAll(r) \/ FindById(r)
    \/ Probe(r) \/ Read(r) \/ Put(r) \/ Answer(r) \/ ViewFails(r)
    \/ LookupSku(r) \/ SelectDecimals(r) \/ SelectStock(r) \/ JoinEnds(r)
    \/ RestCreate(r) \/ RestUpdate(r) \/ RestDelete(r)

ViewNext ==
    \/ \E r \in Request : ViewStep(r) \/ \E q \in ViewQuery : AskView(r, q)
    \/ \E id \in Id, p \in Part : \E x \in Contents[<<id, p>>] : Change(id, p, x)
    \/ ViewCrash

ViewSpec == ViewInit /\ [][ViewNext]_viewVars

-----------------------------------------------------------------------------
(* Properties. *)

Answered(r) == view[r].pc = "ok" /\ view[r].status = 200

\* The moments an answer's product can be of: those of the request, or if it
\* was cached those since the server started.
MomentsOf(r, id) ==
    LET v == view[r] IN (IF id \in v.hits THEN v.boot ELSE v.since) .. v.until

\* What is shown of a product is that product's: the sku it had at a moment,
\* the price it had in some store, and in stock only if a stock row was.  The
\* pages list the group prices as they were at one moment; GraphQL quotes both
\* prices of one index row of the guest's or, where it has none, the product's
\* own, and keeps to the category asked for.  Nothing is of another product or another
\* customer group, and nothing is older than the request, or than the server
\* where the cache has it, whatever was written and whoever filled the cache.
QuotesAreTheProducts ==
    \A r \in Request : Answered(r) => \A id \in Elems(Shown(r)) :
      LET flat == view[r].results[id]
          q == view[r].q
          M == MomentsOf(r, id)
          guest(k) == OrElse({p \in log[k][id]["index"] : p.group = Guest}, NoIndex)
          own(k) == OrElse({v.value : v \in {v \in log[k][id]["decimal"] : v.code = "price"}},
                           NoPrice)
          stocked == \E k \in M : \E s \in log[k][id]["stock"] : s.in_stock IN
      /\ flat.id = id
      /\ q.kind \in PageKinds =>
           LET x == Tile(flat) IN
           /\ \E k \in M : log[k][id]["row"] = x.sku
           /\ \E k \in M : x.price \in own(k)
      /\ q.kind = "page" =>
           LET x == ProductPage(flat) IN
           /\ \E k \in M : log[k][id]["row"] = x.sku
           /\ \E k \in M : x.price \in own(k)
           /\ \E k \in M : x.prices = log[k][id]["index"]
           /\ x.in_stock => stocked
      /\ q.api = "graphql" =>
           LET x == IF q.kind = "magentoProducts" THEN MagentoFromFlat(flat) ELSE FromFlat(flat) IN
           /\ \E k \in M : log[k][id]["row"] = x.sku
           /\ \E k \in M : \E p \in guest(k) :
                /\ x.price = p.price \/ (p.price = NoPrice /\ \E j \in M : x.price \in own(j))
                /\ x.final_price = p.final \/ (p.final = NoPrice /\ x.final_price = x.price)
           /\ x.in_stock => stocked
           /\ q.kind # "product" =>
                \A C \in q.categories : \E k \in M : log[k][id]["links"] \cap C # {}

\* A lookup that answers nothing missed no product that carried the sku all
\* the while, unless the cache gave it an older sku.
LookupFinds ==
    \A r \in Request : Answered(r) /\ view[r].q.kind = "product" /\ Shown(r) = <<>> =>
        \A S \in view[r].q.skus, id \in Id \ view[r].hits :
            \E k \in view[r].since .. view[r].until : log[k][id]["row"] \notin S

Matching(q, d) == IF q.kind = "grid" THEN Linked(d, q)
                  ELSE IF q.text = NoText THEN {} ELSE Hits(d, q.text)

\* A grid shows, in order, products of one page of the category or the search
\* as it was at one moment of the request, and of these every product that
\* existed all the while: none of the next page moves up when one goes.
GridKeepsItsPage ==
    \A r \in Request : Answered(r) /\ view[r].q.kind \in PageKinds /\ ~view[r].lost =>
      \E k \in view[r].since .. view[r].until :
        LET q     == view[r].q
            all   == Matching(q, log[k])
            limit == AtLeast(1, q.size)
            page(id) == CeilDiv(Cardinality({j \in all : j <= id}), limit)
            shown == AtLeast(1, AtMost(q.page, CeilDiv(Cardinality(all), limit)))
            mine  == {id \in all : page(id) = shown} IN
        /\ Elems(Shown(r)) \subseteq mine
        /\ \A id \in mine \ Elems(Shown(r)) :
             \E m \in view[r].since .. view[r].until : ~Exists(log[m], id)
        /\ \A m, n \in DOMAIN Shown(r) : m < n => Shown(r)[m] < Shown(r)[n]

\* A realtime price is the lowest there is, NULLs aside, of a product that
\* carried the sku at a moment of the request, as it was then or later in the
\* request, and a stock is that of such a product at one moment; the two
\* queries of a joint answer may have met different products.  A price is
\* missing only if at some moment nothing carried the sku, or what carried it
\* had none.
RealtimeIsRecent ==
    \A r \in Request : view[r].pc = "ok" /\ view[r].q.kind \in {"price", "stock", "both"} =>
        LET v == view[r]
            M == v.since .. v.until
            sku == v.q.text
            carriers(k) == {id \in Id : log[k][id]["row"] = sku} IN
        /\ v.q.kind # "stock" => \E j, k \in M : j <= k /\
             \/ v.price = NoPrice /\ carriers(j) = {}
             \/ \E id \in carriers(j) :
                  LET there == Prices(log[k], id) \ {NoPrice} IN
                  IF there = {} THEN v.price = NoPrice
                  ELSE v.price \in there /\ \A x \in there : v.price <= x
        /\ v.q.kind # "price" =>
             \E k \in M : v.stock \in OrElse(StockOf(log[k], sku), NoStock)
=============================================================================
