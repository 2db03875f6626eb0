--------------------------- MODULE CategoryPages ---------------------------
(***************************************************************************)
(* How categories are read: the flat cache of categories                   *)
(* (crates/repository/src/category_db.rs), of which REST, GraphQL and the  *)
(* storefront have one each, their requests for lists, ids and the tree,   *)
(* and the storefront's pages (crates/web) with their breadcrumbs and the  *)
(* navigation menu, rendered once and kept for a while.  Every query sees  *)
(* the database of its own moment; imports and the shop's administration   *)
(* change it between the queries.                                          *)
(***************************************************************************)
EXTENDS Listings, SequencesExt, FiniteSets

CONSTANTS
    Request,        \* the requests the server handles, each once
    Name,           \* the names of categories
    NoName,         \* no row in catalog_category_entity_varchar
    NoMenu,         \* the menu was not rendered yet
    Existing,       \* the categories of the database when the server starts
    IdLists,        \* the id lists a REST request can ask for
    UidFilters,     \* the filters of magentoCategories: {}, or {the ids named}
    PageIds,        \* the categories whose pages, and products, are asked for
    CategoryTreeTtl,\* CATEGORY_TREE_TTL
    MaxId,          \* bound: categories ever created
    MaxWrite,       \* bound: changes of the categories
    MaxTime         \* bound: ticks of the clock

Id == 1 .. MaxId

ASSUME CategoryPagesAssumption ==
    /\ DOMAIN Existing \subseteq Id
    /\ Existing \in [DOMAIN Existing ->
                      [parent_id : Nat, path : Seq(Nat), name : Name \cup {NoName}]]
    /\ IdLists \subseteq Seq(Nat)
    /\ \A f \in UidFilters : f \subseteq SUBSET Nat
    /\ PageIds \subseteq Nat
    /\ {MaxId, MaxWrite, MaxTime} \subseteq Nat
    /\ CategoryTreeTtl \in Nat \ {0}

\* What the imports leave (CategoryImport, PathsExtendTheParents): the path of
\* a category extends that of its parent by its own id.  There is one root; its
\* path is its id, or 1 though no category has that id, if the import that was
\* to create it was first rolled back.
ASSUME ExistingAssumption ==
    /\ \A id \in DOMAIN Existing :
         LET row == Existing[id] IN
         IF row.parent_id = 0
         THEN row.path = <<id>> \/ (row.path = <<1>> /\ 1 \notin DOMAIN Existing)
         ELSE /\ row.parent_id \in DOMAIN Existing
              /\ row.path = Append(Existing[row.parent_id].path, id)
    /\ \A a, b \in DOMAIN Existing :
         Existing[a].parent_id = 0 /\ Existing[b].parent_id = 0 => a = b

VARIABLES
    versions,   \* the categories of the database, now and (history) before
    since,      \* history: when each version was written
    cache,      \* the FlatCaches: <<api, id>> -> flattened category
    nav,        \* nav_html: the menu, when it was stored
    now,        \* Instant::now()
    req         \* the requests

vars == <<versions, since, cache, nav, now, req>>

Categories == Last(versions)

\* split_static_and_attributes: the columns of the entity stay on top, the
\* attributes are nested.
Flattened(id, row, name) ==
    [entity_id |-> id, parent_id |-> row.parent_id, path |-> row.path,
     attributes |-> IF name = NoName THEN <<>> ELSE [name |-> name]]

Row(category) == [parent_id |-> category.parent_id, path |-> category.path]
Rows(categories) == [id \in DOMAIN categories |-> Row(categories[id])]

\* ORDER BY entity_id.
InOrder(ids) == Kept([n \in Id |-> n], ids)

NameNow(id) == IF id \in DOMAIN Categories THEN Categories[id].name ELSE NoName

Nothing == [id \in {} |-> 0]
With(f, id, x) == [k \in DOMAIN f \cup {id} |-> IF k = id THEN x ELSE f[k]]
Without(f, id) == [k \in DOMAIN f \ {id} |-> f[k]]

Ended == {"ok", "not_found", "failed"}
Pages == {"home", "product", "category"}

\* api, kind: the handler; uids: its filter; ids: what it answers, in order;
\* queue: ids it has yet to fetch; held: rows it has read but not put into the
\* cache; found: the flattened categories of its answer; menu: what it shows
\* or sends.  History: from, the version the database was at when a list was
\* asked for; menuFrom, the version the menu's rows were read in; menuRead and
\* menuAt, when its rows were read and it was rendered; answeredAt, when it
\* was sent.
Idle == [api |-> "web", kind |-> "none", uids |-> {}, pc |-> "idle", ids |-> <<>>,
         queue |-> <<>>, held |-> Nothing, found |-> Nothing, menu |-> NoMenu, from |-> 1,
         menuFrom |-> 1, menuRead |-> 0, menuAt |-> 0, answeredAt |-> 0]

Init ==
    /\ versions = <<Existing>>
    /\ since = <<0>>
    /\ cache = Nothing
    /\ nav = NoMenu
    /\ now = 0
    /\ req = [r \in Request |-> Idle]

-----------------------------------------------------------------------------
(* The database. *)

Written(categories) ==
    /\ Len(versions) <= MaxWrite
    /\ versions' = Append(versions, categories)
    /\ since' = Append(since, now)
    /\ UNCHANGED <<cache, nav, now, req>>

\* An import commits a new category, its name with it.
Create ==
    \E parent \in DOMAIN Categories, name \in Name :
      LET id == 1 + Max(UNION {DOMAIN versions[v] : v \in DOMAIN versions}) IN
      /\ id <= MaxId
      /\ Written(With(Categories, id,
           [parent_id |-> parent, path |-> Append(Categories[parent].path, id),
            name |-> name]))

\* The administration renames a category, or deletes it and those below it.
Rename ==
    \E id \in DOMAIN Categories, name \in Name :
      /\ Categories[id].name # name
      /\ Written([Categories EXCEPT ![id].name = name])

Delete ==
    \E id \in DOMAIN Categories :
      Written([k \in {k \in DOMAIN Categories :
                        id \notin ToSet(Categories[k].path)} |-> Categories[k]])

Tick == now < MaxTime /\ now' = now + 1 /\ UNCHANGED <<versions, since, cache, nav, req>>

-----------------------------------------------------------------------------
(* Fetching by id, and the list. *)

\* A request that is at "from" goes on as "new".
Step(r, from, new) ==
    /\ req[r].pc = from
    /\ req' = [req EXCEPT ![r] = new]

At(r, pc) == [req[r] EXCEPT !.pc = pc]

Start(r, api, kind, pc, ids, uids) ==
    /\ Step(r, "idle", [Idle EXCEPT !.api = api, !.kind = kind, !.pc = pc, !.ids = ids,
                          !.queue = ids, !.uids = uids,
                          !.from = IF kind = "list" THEN Len(versions) ELSE 1])
    /\ UNCHANGED <<versions, since, cache, nav, now>>

\* REST: /categories, /category/{ids}/flat, /category/{id}, /category/tree.
StartList(r)     == Start(r, "rest", "list", "rows", <<>>, {})
StartByIds(r)    == \E ids \in IdLists : Start(r, "rest", "ids", "probe", ids, {})
StartOne(r)      == \E id \in PageIds : Start(r, "rest", "one", "probe", <<id>>, {})
StartTree(r)     == Start(r, "rest", "tree", "menu_rows", <<>>, {})

\* len_for_store # 0.
AnyCached(api) == \E id \in Id : <<api, id>> \in DOMAIN cache

\* /category/cache: the list, unless nothing was ever fetched.
StartCacheAll(r) ==
    IF AnyCached("rest")
    THEN StartList(r)
    ELSE Start(r, "rest", "list", "not_found", <<>>, {})

\* GraphQL: categories and magentoCategories; category.  categoryTree is
\* StartTree in another shape.
StartCategories(r) == \E f \in UidFilters : Start(r, "graphql", "list", "rows", <<>>, f)
StartCategoryById(r) == \E id \in PageIds : Start(r, "graphql", "one", "probe", <<id>>, {})

\* The pages; of a product page, from the last of its categories on.
StartHome(r)     == Start(r, "web", "home", "menu", <<>>, {})
StartCategory(r) == \E id \in PageIds : Start(r, "web", "category", "probe", <<id>>, {})
StartProduct(r)  == \E id \in PageIds : Start(r, "web", "product", "path", <<id>>, {})

\* find_all of fetch_flat_list, ORDER BY entity_id.
ReadRows(r) ==
    LET ids == InOrder(DOMAIN Categories) IN
    /\ Step(r, "rows", [At(r, "probe") EXCEPT !.ids = ids, !.queue = ids,
                                              !.held = Rows(Categories)])
    /\ UNCHANGED <<versions, since, cache, nav, now>>

\* FlatCache::get.
Cached(r, id) == <<req[r].api, id>> \in DOMAIN cache

\* Mutant: the answer is what was missing.
ProbeHitDropped(r) ==
    LET id == Head(req[r].queue) IN
    /\ req[r].queue # <<>> /\ Cached(r, id)
    /\ Step(r, "probe", [req[r] EXCEPT !.queue = Tail(@), !.held = Without(@, id)])
    /\ UNCHANGED <<versions, since, cache, nav, now>>

\* The next id is asked for.  A list goes on with what it misses held;
\* what is fetched by id is read at once.
ProbeHit(r) ==
    LET id == Head(req[r].queue) IN
    /\ req[r].queue # <<>> /\ Cached(r, id)
    /\ Step(r, "probe", [req[r] EXCEPT !.queue = Tail(@),
                            !.held = Without(@, id),
                            !.found = With(@, id, cache[<<req[r].api, id>>])])
    /\ UNCHANGED <<versions, since, cache, nav, now>>

ProbeMiss(r) ==
    /\ req[r].queue # <<>> /\ ~Cached(r, Head(req[r].queue))
    /\ Step(r, "probe", IF req[r].kind = "list"
                        THEN [req[r] EXCEPT !.queue = Tail(@)]
                        ELSE At(r, "row"))
    /\ UNCHANGED <<versions, since, cache, nav, now>>

\* find_by_id: a category that is not there is left out of a list of ids and
\* of the breadcrumbs, and there is no page of it.
ReadRow(r) ==
    LET id == Head(req[r].queue) IN
    /\ Step(r, "row",
         CASE id \in DOMAIN Categories ->
                [At(r, "attributes") EXCEPT !.held = With(@, id, Row(Categories[id]))]
           [] id \notin DOMAIN Categories /\ req[r].kind \notin {"category", "one"} ->
                [At(r, "probe") EXCEPT !.queue = Tail(@)]
           [] OTHER -> At(r, "not_found"))
    /\ UNCHANGED <<versions, since, cache, nav, now>>

\* batch_flatten: the attributes of the rows held, as they are now.
ReadAttributes(r) ==
    LET held == req[r].held IN
    /\ Step(r, "attributes", [At(r, "put") EXCEPT !.held =
              [id \in DOMAIN held |-> Flattened(id, held[id], NameNow(id))]])
    /\ UNCHANGED <<versions, since, cache, nav, now>>

\* Mutant: the cache is filled by position, not by id.
PutByPosition(r, id) ==
    LET flat == req[r].held[id]
        left == Without(req[r].held, id)
    IN
    /\ id \in DOMAIN req[r].held
    /\ Step(r, "put", [At(r, IF left = Nothing THEN "probe" ELSE "put") EXCEPT
              !.held = left,
              !.found = With(@, id, flat),
              !.queue = IF @ = <<>> THEN @ ELSE Tail(@)])
    /\ cache' = With(cache, <<req[r].api, Cardinality(DOMAIN cache) + 1>>, flat)
    /\ UNCHANGED <<versions, since, nav, now>>

Put(r, id) ==
    LET flat == req[r].held[id]
        left == Without(req[r].held, id)
    IN
    /\ id \in DOMAIN req[r].held
    /\ Step(r, "put", [At(r, IF left = Nothing THEN "probe" ELSE "put") EXCEPT
              !.held = left,
              !.found = With(@, id, flat),
              !.queue = IF @ = <<>> THEN @ ELSE Tail(@)])
    /\ cache' = With(cache, <<req[r].api, id>>, flat)
    /\ UNCHANGED <<versions, since, nav, now>>

\* Nothing is left to probe: the list has to read what it missed.
Probed(r) ==
    /\ req[r].queue = <<>>
    /\ Step(r, "probe",
         CASE req[r].held # Nothing -> At(r, "attributes")
           [] req[r].held = Nothing /\ req[r].kind = "category" -> At(r, "products")
           [] req[r].held = Nothing /\ req[r].kind = "product" -> At(r, "menu")
           [] OTHER -> At(r, "ok"))
    /\ UNCHANGED <<versions, since, cache, nav, now>>

\* The filter of magentoCategories; a uid that decodes to nothing names none.
Matches(r, id) == \A uids \in req[r].uids : id \in uids

\* What a request for categories is answered, in order.
Answer(r) == Kept(req[r].ids, {id \in DOMAIN req[r].found : Matches(r, id)})

-----------------------------------------------------------------------------
(* Breadcrumbs. *)

\* Mutant: the default category is not excluded.
BreadcrumbExcludedRoot == {0, 1}

BreadcrumbExcludedIds == {0, 1, 2}

\* find_by_id of the product's last category, and its path.
FindPath(r) ==
    LET last == Head(req[r].ids)
        path == IF last \in DOMAIN Categories THEN Categories[last].path ELSE <<>>
        ids  == Kept(path, Nat \ BreadcrumbExcludedIds)
    IN
    /\ Step(r, "path", [At(r, "probe") EXCEPT !.ids = ids, !.queue = ids])
    /\ UNCHANGED <<versions, since, cache, nav, now>>

\* product_ids_in_category and the products of the page, as in FlatReads.
ReadProducts(r) ==
    /\ Step(r, "products", At(r, "menu"))
    /\ UNCHANGED <<versions, since, cache, nav, now>>

\* Value::get of a flattened category's name, else the id: what a crumb and
\* a category page's title show.
Shown(flat) == IF "name" \in DOMAIN flat THEN flat.name ELSE flat.entity_id

\* What a crumb of the name nested below "attributes" is.
NameOf(flat) ==
    IF "name" \in DOMAIN flat.attributes THEN flat.attributes.name ELSE NoName

-----------------------------------------------------------------------------
(* The menu. *)

\* build_node, as the list of the nodes in the order they are rendered, each
\* with its depth: every category under its parent, siblings by entity_id.
\* build[n] has what is below each node at a depth of levels - n.
Built(rows, names, root_parent_id) ==
    LET nodes == {root_parent_id} \cup DOMAIN rows
        levels == Cardinality(DOMAIN rows)
        children == [id \in nodes |-> InOrder({c \in DOMAIN rows : rows[c].parent_id = id})]
        node(id, depth) ==
            [entity_id |-> id, depth |-> depth, path |-> rows[id].path, name |-> names[id]]
        below(id, depth, deeper) ==
            FlattenSeq([k \in DOMAIN children[id] |->
                <<node(children[id][k], depth)>> \o deeper[children[id][k]]])
        build[n \in 0 .. levels] ==
            IF n = 0 THEN [id \in nodes |-> <<>>]
            ELSE [id \in nodes |-> below(id, levels - n, build[n - 1])]
    IN build[levels][root_parent_id]

\* What the menus show of a category.
Label(node) == IF node.name = NoName THEN node.path ELSE node.name

\* render_category_tree, and render_top_nav of the same tree.
Rendered(tree) ==
    [n \in DOMAIN tree |-> [entity_id |-> tree[n].entity_id, depth |-> tree[n].depth,
                            label |-> Label(tree[n])]]

\* Mutant: the fragment is never too old.
FreshForever == nav # NoMenu

\* The fragment can be used again.
Fresh == nav # NoMenu /\ now - nav.at < CategoryTreeTtl

\* The rest of the page is settled, and dropped here.
Settled(r, pc) == [At(r, pc) EXCEPT !.ids = <<>>, !.found = Nothing]

\* nav_fragments: what was rendered is used again, or rendered anew.
MenuCached(r) ==
    /\ Fresh
    /\ Step(r, "menu", [Settled(r, "ok") EXCEPT !.menu = nav.tree, !.answeredAt = now,
                          !.menuFrom = nav.from, !.menuRead = nav.read,
                          !.menuAt = nav.at])
    /\ UNCHANGED <<versions, since, cache, nav, now>>

MenuMissing(r) ==
    /\ ~Fresh
    /\ Step(r, "menu", Settled(r, "menu_rows"))
    /\ UNCHANGED <<versions, since, cache, nav, now>>

\* build_tree reads all rows, then all attributes.
ReadMenuRows(r) ==
    /\ Step(r, "menu_rows", [At(r, "menu_names") EXCEPT !.held = Rows(Categories),
                               !.menuFrom = Len(versions), !.menuRead = now])
    /\ UNCHANGED <<versions, since, cache, nav, now>>

\* Mutant: the rows are read again for the names, and joined to the old ones.
ReadMenuRowsAgain(r) ==
    LET rows == req[r].held
        both == [id \in DOMAIN rows \cup DOMAIN Categories |->
                   IF id \in DOMAIN rows THEN rows[id] ELSE Row(Categories[id])]
    IN
    /\ Step(r, "menu_names", [At(r, "render") EXCEPT !.held = Nothing,
              !.menu = Built(both, [id \in DOMAIN both |-> NameNow(id)], 0)])
    /\ UNCHANGED <<versions, since, cache, nav, now>>

ReadMenuNames(r) ==
    LET rows == req[r].held IN
    /\ Step(r, "menu_names", [At(r, "render") EXCEPT !.held = Nothing,
              !.menu = Built(rows, [id \in DOMAIN rows |-> NameNow(id)], 0)])
    /\ UNCHANGED <<versions, since, cache, nav, now>>

\* REST and GraphQL answer the tree; a page stores what it rendered, whatever
\* another page stored meanwhile.
SendTree(r) ==
    /\ req[r].kind = "tree"
    /\ Step(r, "render", [At(r, "ok") EXCEPT !.answeredAt = now, !.menuAt = now])
    /\ UNCHANGED <<versions, since, cache, nav, now>>

StoreMenu(r) ==
    /\ req[r].kind \in Pages
    /\ Step(r, "render", [At(r, "ok") EXCEPT !.menu = Rendered(@), !.answeredAt = now,
                                             !.menuAt = now])
    /\ nav' = [tree |-> Rendered(req[r].menu), at |-> now, from |-> req[r].menuFrom,
               read |-> req[r].menuRead]
    /\ UNCHANGED <<versions, since, cache, now>>

-----------------------------------------------------------------------------
(* Failing queries. *)

\* The whole request fails ...
RequestFails(r) ==
    /\ \/ req[r].kind \in {"list", "ids", "one", "category"}
          /\ req[r].pc \in {"rows", "row", "attributes"}
       \/ req[r].kind = "tree" /\ req[r].pc \in {"menu_rows", "menu_names"}
       \/ req[r].pc = "products"
    /\ Step(r, req[r].pc, [At(r, "failed") EXCEPT !.held = Nothing])
    /\ UNCHANGED <<versions, since, cache, nav, now>>

\* ... but a product page goes without the crumb or the breadcrumbs,
CrumbFails(r) ==
    /\ req[r].kind = "product"
    /\ \/ Step(r, "path", [At(r, "menu") EXCEPT !.ids = <<>>, !.queue = <<>>])
       \/ \E pc \in {"row", "attributes"} :
            Step(r, pc, [At(r, "probe") EXCEPT !.queue = Tail(@), !.held = Nothing])
    /\ UNCHANGED <<versions, since, cache, nav, now>>

\* and any page without its menu.
MenuFails(r) ==
    /\ req[r].kind \in Pages
    /\ \E pc \in {"menu_rows", "menu_names"} :
         Step(r, pc, [At(r, "ok") EXCEPT !.held = Nothing, !.menu = NoMenu,
                                         !.answeredAt = now])
    /\ UNCHANGED <<versions, since, cache, nav, now>>

-----------------------------------------------------------------------------
Handle(r) ==
    \/ ReadRows(r) \/ ProbeHit(r) \/ ProbeMiss(r) \/ ReadRow(r) \/ ReadAttributes(r)
    \/ (\E id \in Id : Put(r, id)) \/ Probed(r) \/ FindPath(r) \/ ReadProducts(r)
    \/ MenuCached(r) \/ MenuMissing(r) \/ ReadMenuRows(r) \/ ReadMenuNames(r)
    \/ SendTree(r) \/ StoreMenu(r)
    \/ RequestFails(r) \/ CrumbFails(r) \/ MenuFails(r)

Begin(r) == \/ StartList(r) \/ StartByIds(r) \/ StartOne(r) \/ StartTree(r)
            \/ StartCacheAll(r) \/ StartCategories(r) \/ StartCategoryById(r)
            \/ StartHome(r) \/ StartCategory(r) \/ StartProduct(r)

\* What is written before the first request might as well have been there,
\* and only menus have an age.
Begun == \E r \in Request : req[r].kind # "none"
MenuBegun == \E r \in Request : req[r].kind \in Pages

\* Requests of different APIs share nothing but the database: it is enough to
\* look at those of one.
OneApi == \A r, s \in Request :
              "none" \in {req[r].kind, req[s].kind} \/ req[r].api = req[s].api

Next == \/ Begun /\ (Create \/ Rename \/ Delete)
        \/ MenuBegun /\ Tick
        \/ \E r \in Request : (Begin(r) /\ OneApi') \/ Handle(r)

Spec == Init /\ [][Next]_vars

-----------------------------------------------------------------------------
(* Properties. *)

FlatOf(id) == [entity_id : {id}, parent_id : Nat, path : Seq(Nat),
               attributes : {<<>>} \cup [{"name"} -> Name]]

Entry == [entity_id : Id, depth : Nat, label : Name \cup Seq(Nat)]
Node  == [entity_id : Id, depth : Nat, path : Seq(Nat), name : Name \cup {NoName}]
Menu  == {NoMenu} \cup Seq(Entry) \cup Seq(Node)

\* The shape of the database, of the caches and of the requests of
\* category_db.rs, web/state.rs and the handlers.
TypeOK ==
    /\ DOMAIN Categories \subseteq Id
    /\ \A id \in DOMAIN Categories :
         Categories[id] \in [parent_id : Nat, path : Seq(Nat), name : Name \cup {NoName}]
    /\ DOMAIN since = DOMAIN versions
    /\ \A k \in DOMAIN cache : k[2] \in Id /\ cache[k] \in FlatOf(k[2])
    /\ nav # NoMenu => nav.tree \in Menu /\ nav.at \in 0 .. now
    /\ now \in 0 .. MaxTime
    /\ \A r \in Request :
         /\ req[r].kind \in Pages \cup {"none", "list", "ids", "one", "tree"}
         /\ req[r].pc \in Ended \cup {"idle", "rows", "probe", "row", "attributes",
              "put", "path", "products", "menu", "menu_rows", "menu_names", "render"}
         /\ IsSuffix(req[r].queue, req[r].ids)
         /\ \A id \in DOMAIN req[r].found : id \in Id /\ req[r].found[id] \in FlatOf(id)
         /\ req[r].menu \in Menu

\* A list holds every category there was at one moment of the request, or of
\* these the ones its filter names, once and in order, whatever was cached,
\* deleted or created around it (fetch_flat_list, category_db.rs 106-131).
ListsAreComplete ==
    \A r \in Request :
      req[r].kind = "list" /\ req[r].pc = "ok" =>
        \E v \in req[r].from .. Len(versions) :
          Answer(r) = InOrder({id \in DOMAIN versions[v] : Matches(r, id)})

\* Under an id the cache has the row that category had once, and the name it
\* had then or later: one category's, though two queries read them (lines
\* 68-104).
CacheNamesItsCategory ==
    \A k \in DOMAIN cache :
      \E v \in DOMAIN versions :
        LET id == k[2] IN
        /\ id \in DOMAIN versions[v]
        /\ cache[k].entity_id = id
        /\ cache[k].parent_id = versions[v][id].parent_id
        /\ cache[k].path = versions[v][id].path
        /\ \E w \in v .. Len(versions) :
             NameOf(cache[k]) =
               IF id \in DOMAIN versions[w] THEN versions[w][id].name ELSE NoName

PathBefore(p, q) ==
    \/ Len(p) < Len(q) /\ IsPrefix(p, q)
    \/ \E n \in DOMAIN p \cap DOMAIN q :
         p[n] < q[n] /\ \A k \in 1 .. n - 1 : p[k] = q[k]

\* The menu and the tree are those of one state of the table, however it
\* changed while they were built: every category once, below its ancestors
\* (the order of the paths), as deep as its path is long, and under a name it
\* had since (build_tree, category_db.rs 164-195).
MenuIsOneState ==
    \A r \in Request :
      LET menu  == req[r].menu
          state == versions[req[r].menuFrom]
      IN
      req[r].pc = "ok" /\ menu # NoMenu =>
        /\ {menu[n].entity_id : n \in DOMAIN menu} = DOMAIN state
        /\ \A m, n \in DOMAIN menu : m < n =>
             PathBefore(state[menu[m].entity_id].path, state[menu[n].entity_id].path)
        /\ \A n \in DOMAIN menu :
             LET id    == menu[n].entity_id
                 label == IF req[r].kind = "tree" THEN Label(menu[n]) ELSE menu[n].label IN
             /\ menu[n].depth = Len(state[id].path) - 1
             /\ \/ label = state[id].path
                \/ \E w \in req[r].menuFrom .. Len(versions) :
                     id \in DOMAIN versions[w] /\ label = versions[w][id].name

\* A page shows no menu that was out of date for as long as CATEGORY_TREE_TTL
\* and the time it took to build it, even if a slow page stored its menu over
\* a newer one (nav_html, web/state.rs 71-81).
MenuIsRecent ==
    \A r \in Request :
      LET from == req[r].menuFrom IN
      /\ req[r].kind \in Pages /\ req[r].pc = "ok" /\ req[r].menu # NoMenu
      /\ from < Len(versions)
      => req[r].answeredAt <
           since[from + 1] + CategoryTreeTtl + (req[r].menuAt - req[r].menuRead)

\* The breadcrumbs of a product page lead down one path, from crumbs read at
\* different times, and show neither the roots nor the default category
\* (build_breadcrumbs, web/product.rs 99-124).
CrumbsFollowPath ==
    \A r \in Request :
      req[r].kind = "product" /\ req[r].pc = "menu" =>
        LET crumbs == [n \in DOMAIN Answer(r) |-> req[r].found[Answer(r)[n]]] IN
        /\ \A n \in DOMAIN crumbs : crumbs[n].entity_id \notin {0, 1, 2}
        /\ \A m, n \in DOMAIN crumbs :
             m < n => IsStrictPrefix(crumbs[m].path, crumbs[n].path)

\* product.rs 95-97: a breadcrumb resolves "each segment's display name".
CrumbsAreNames ==
    \A r \in Request :
      req[r].kind = "product" /\ req[r].pc = "menu" =>
        \A n \in DOMAIN Answer(r) :
          LET flat == req[r].found[Answer(r)[n]] IN
          NameOf(flat) # NoName => Shown(flat) = NameOf(flat)
=============================================================================
