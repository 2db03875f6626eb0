----------------------------- MODULE FlatReads -----------------------------
(***************************************************************************)
(* crates/repository: fetching flattened products through the in-process   *)
(* FlatCache.  A request probes the cache id by id, reads what it misses   *)
(* with one SELECT per table and chunk of ids, each in a snapshot of its   *)
(* own, and puts the flattened products into the cache.  REST handlers     *)
(* and imports write to the database meanwhile; nobody invalidates.        *)
(* Categories are fetched by the same protocol with fewer tables.          *)
(***************************************************************************)
EXTENDS Naturals, Sequences, FiniteSets

CONSTANTS
    Request,        \* the requests a server handles, each once
    Tables,         \* the tables batch_flatten reads, in its order
    IdLists,        \* the id lists a request can ask for
    Limits,         \* the limits of a list request; 0 is none
    CacheEnabled,   \* PRODUCT_FLAT_CACHE is not "off"
    BatchSize,      \* BATCH_SIZE, the ids of one SELECT
    MaxId,          \* bound: products ever created
    MaxWrite        \* bound: writes to the database

Id   == 1 .. MaxId
Part == {"row"} \cup {Tables[n] : n \in DOMAIN Tables}
Parts == <<"row">> \o Tables

\* Versions stand for contents; each write makes a new one.  0: no rows.
Version == 0 .. MaxWrite

ASSUME FlatReadsAssumption ==
    /\ Tables \in Seq(STRING) \ {<<>>}
    /\ "row" \notin {Tables[n] : n \in DOMAIN Tables}
    /\ IdLists \subseteq Seq(Nat)
    /\ Limits \subseteq Nat
    /\ CacheEnabled \in BOOLEAN
    /\ BatchSize \in Nat \ {0}
    /\ MaxId \in Nat
    /\ MaxWrite \in Nat

VARIABLES
    rows,       \* the database: what each table holds of each product
    clock,      \* the last version written
    lastId,     \* the last id handed out
    cache,      \* FlatCache of one store: id -> flattened product
    pc,         \* where each request is
    asked,      \* the ids of its answer, in order
    bypass,     \* bypass_cache
    listing,    \* the requests for a list
    limit,      \* the limit of a list request
    queue,      \* ids it has yet to probe the cache for
    stage,      \* the index in Parts of the table it reads
    todo,       \* ids it has yet to read of that table
    flat,       \* the products it has read
    results,    \* the products of its answer
    hits,       \* history: the ids it found in the cache
    seen        \* history: the versions of each part during the request

db      == <<rows, clock, lastId>>
plan    == <<asked, bypass, listing, limit>>
work    == <<queue, stage, todo, flat>>
answer  == <<results, hits>>
request == <<plan, work, answer>>
vars    == <<rows, clock, lastId, cache, pc, asked, bypass, listing, limit,
             queue, stage, todo, flat, results, hits, seen>>

Ended == {"idle", "ok", "failed"}     \* not at work

Flat == [Part -> Version]
NoProduct == [id \in {} |-> [p \in Part |-> 0]]

TypeOK ==
    /\ rows \in [Part -> [Id -> Version]]
    /\ clock \in Version
    /\ lastId \in 0 .. MaxId
    /\ DOMAIN cache \subseteq Id /\ cache \in [DOMAIN cache -> Flat]
    /\ pc \in [Request -> Ended \cup {"find", "probe", "read", "put"}]
    /\ stage \in [Request -> 1 .. Len(Parts)]
    /\ asked \in [Request -> Seq(Nat)]
    /\ queue \in [Request -> Seq(Nat)]
    /\ todo \in [Request -> SUBSET Nat]
    /\ DOMAIN flat = Request /\ DOMAIN results = Request
    /\ \A r \in Request :
         /\ flat[r] \in [DOMAIN flat[r] -> Flat] /\ DOMAIN flat[r] \subseteq Id
         /\ results[r] \in [DOMAIN results[r] -> Flat]
         /\ DOMAIN results[r] \subseteq Id
    /\ hits \in [Request -> SUBSET Id]
    /\ bypass \in [Request -> BOOLEAN]
    /\ listing \subseteq Request
    /\ limit \in [Request -> Limits \cup {0}]
    /\ seen \in [Request -> [Part -> [Id -> SUBSET Version]]]

Init ==
    /\ rows = [p \in Part |-> [id \in Id |-> 0]]
    /\ clock = 0
    /\ lastId = 0
    /\ cache = NoProduct
    /\ pc = [r \in Request |-> "idle"]
    /\ asked = [r \in Request |-> <<>>]
    /\ bypass = [r \in Request |-> FALSE]
    /\ listing = {}
    /\ limit = [r \in Request |-> 0]
    /\ queue = [r \in Request |-> <<>>]
    /\ stage = [r \in Request |-> 1]
    /\ todo = [r \in Request |-> {}]
    /\ flat = [r \in Request |-> NoProduct]
    /\ results = [r \in Request |-> NoProduct]
    /\ hits = [r \in Request |-> {}]
    /\ seen = [r \in Request |-> [p \in Part |-> [id \in Id |-> {}]]]

-----------------------------------------------------------------------------
(* Writers. *)

Exists(id) == rows["row"][id] # 0

\* The database becomes new.
Written(new) ==
    /\ clock < MaxWrite
    /\ rows' = new
    /\ clock' = clock + 1
    /\ seen' = [r \in Request |-> [p \in Part |-> [id \in Id |->
                  seen[r][p][id] \cup
                  (IF pc[r] \in Ended THEN {} ELSE {new[p][id]})]]]
    /\ UNCHANGED <<cache, pc, request>>

\* POST /products, or an import: the next id.
Create ==
    /\ lastId < MaxId
    /\ lastId' = lastId + 1
    /\ Written([rows EXCEPT !["row"][lastId + 1] = clock + 1])

\* PUT /products/{id}, or an import that replaces a product's rows, even of a
\* product deleted since the import looked its sku up.
Write(p, id) ==
    /\ id <= lastId
    /\ p = "row" => Exists(id)
    /\ Written([rows EXCEPT ![p][id] = clock + 1])
    /\ UNCHANGED lastId

\* DELETE /products/{id} deletes the entity row.  The rows of the other
\* tables go only where the schema has cascading foreign keys.
Delete(id) ==
    /\ Exists(id)
    /\ \E cascade \in BOOLEAN :
         Written([p \in Part |-> [rows[p] EXCEPT
                    ![id] = IF p = "row" \/ cascade THEN 0 ELSE @]])
    /\ UNCHANGED lastId

-----------------------------------------------------------------------------
(* Requests. *)

SeenNow(r) ==
    seen' = [seen EXCEPT ![r] = [p \in Part |-> [id \in Id |-> {rows[p][id]}]]]

Goto(r, place) == pc' = [pc EXCEPT ![r] = place]

\* Mutant: a page with a limit uses the cache.
BypassesWhenOff(lim) == ~CacheEnabled

\* A page with a limit bypasses the cache, so as not to poison it.
Bypasses(lim) == ~CacheEnabled \/ lim > 0

\* fetch_flat_list.
StartList(r, lim) ==
    /\ pc[r] = "idle" /\ Goto(r, "find") /\ SeenNow(r)
    /\ listing' = listing \cup {r}
    /\ limit' = [limit EXCEPT ![r] = lim]
    /\ bypass' = [bypass EXCEPT ![r] = Bypasses(lim)]
    /\ UNCHANGED <<db, cache, asked, work, answer>>

\* fetch_flat_by_ids; fetch_flat_by_id is the same with one id.
StartByIds(r, ids) ==
    /\ pc[r] = "idle" /\ Goto(r, "probe") /\ SeenNow(r)
    /\ asked' = [asked EXCEPT ![r] = ids]
    /\ queue' = [queue EXCEPT ![r] = ids]
    /\ UNCHANGED <<db, cache, bypass, listing, limit, stage, todo, flat, answer>>

Elems(s) == {s[n] : n \in DOMAIN s}

\* The ids of the products there are, in order, cut off at the limit.
IsListed(ids, lim) ==
    LET left == {id \in Id : Exists(id)} \ Elems(ids) IN
    /\ \A m, n \in DOMAIN ids : m < n => ids[m] < ids[n]
    /\ lim > 0 => Len(ids) <= lim
    /\ left # {} => lim > 0 /\ Len(ids) = lim /\ \A id \in left, n \in DOMAIN ids : ids[n] < id

\* find_all: the entity rows of the list.
FindAll(r) ==
    /\ pc[r] = "find" /\ Goto(r, "probe")
    /\ \E n \in 0 .. MaxId : \E ids \in [1 .. n -> {id \in Id : Exists(id)}] :
         /\ IsListed(ids, limit[r])
         /\ asked' = [asked EXCEPT ![r] = ids]
         /\ queue' = [queue EXCEPT ![r] = ids]
         /\ flat' = [flat EXCEPT ![r] =
                       [id \in Elems(ids) |->
                          [p \in Part |-> IF p = "row" THEN rows[p][id] ELSE 0]]]
    /\ stage' = [stage EXCEPT ![r] = 2]
    /\ UNCHANGED <<db, cache, bypass, listing, limit, todo, answer, seen>>

\* HashMap::insert.
With(f, id, x) == [k \in DOMAIN f \cup {id} |-> IF k = id THEN x ELSE f[k]]

\* FlatCache::get of the next id; a duplicate is missed only once.
Probe(r) ==
    /\ pc[r] = "probe" /\ queue[r] # <<>>
    /\ LET id == Head(queue[r]) IN
       IF ~bypass[r] /\ id \in DOMAIN cache
       THEN /\ results' = [results EXCEPT ![r] =
                  With(@, id, cache[id])]
            /\ hits' = [hits EXCEPT ![r] = @ \cup {id}]
            /\ UNCHANGED todo
       ELSE /\ todo' = [todo EXCEPT ![r] = @ \cup {id}]
            /\ UNCHANGED <<answer>>
    /\ queue' = [queue EXCEPT ![r] = Tail(@)]
    /\ UNCHANGED <<db, cache, pc, plan, stage, flat, seen>>

\* Everything was cached, or something has to be read.
Probed(r) ==
    /\ pc[r] = "probe" /\ queue[r] = <<>>
    /\ Goto(r, IF todo[r] = {} THEN "ok" ELSE "read")
    /\ flat' = [flat EXCEPT ![r] = [id \in DOMAIN @ \cap todo[r] |-> @[id]]]
    /\ UNCHANGED <<db, cache, plan, queue, stage, todo, answer, seen>>

\* Of the ids left one SELECT ... WHERE id IN (...) takes BatchSize, or all.
IsChunk(c, ids) ==
    /\ c # {} /\ c \subseteq ids
    /\ Cardinality(c) = BatchSize \/ (c = ids /\ Cardinality(ids) < BatchSize)

\* The products with what one SELECT of table p tells about the ids c.  The
\* entity rows tell which products there are.
Joined(f, p, c) ==
    LET found == IF p = "row" THEN {id \in c \cap Id : Exists(id)} ELSE {} IN
    [id \in DOMAIN f \cup found |->
        [q \in Part |-> IF q = p /\ id \in c THEN rows[p][id]
                        ELSE IF id \in DOMAIN f THEN f[id][q] ELSE 0]]

\* Mutant: each chunk's rows replace those of the chunk before.
ReadLastChunkOnly(r) ==
    /\ pc[r] = "read" /\ todo[r] # {}
    /\ \E c \in SUBSET todo[r] :
         /\ IsChunk(c, todo[r])
         /\ flat' = [flat EXCEPT ![r] = Joined(NoProduct, Parts[stage[r]], c)]
         /\ todo' = [todo EXCEPT ![r] = @ \ c]
    /\ UNCHANGED <<db, cache, pc, plan, queue, stage, answer, seen>>

Read(r) ==
    /\ pc[r] = "read" /\ todo[r] # {}
    /\ \E c \in SUBSET todo[r] :
         /\ IsChunk(c, todo[r])
         /\ flat' = [flat EXCEPT ![r] = Joined(@, Parts[stage[r]], c)]
         /\ todo' = [todo EXCEPT ![r] = @ \ c]
    /\ UNCHANGED <<db, cache, pc, plan, queue, stage, answer, seen>>

\* The next table, for the products found.
NextTable(r) ==
    /\ pc[r] = "read" /\ todo[r] = {} /\ stage[r] < Len(Parts)
    /\ stage' = [stage EXCEPT ![r] = @ + 1]
    /\ todo' = [todo EXCEPT ![r] = DOMAIN flat[r]]
    /\ UNCHANGED <<db, cache, pc, plan, queue, flat, answer, seen>>

AllRead(r) ==
    /\ pc[r] = "read" /\ todo[r] = {} /\ stage[r] = Len(Parts)
    /\ todo' = [todo EXCEPT ![r] = DOMAIN flat[r]]
    /\ Goto(r, "put")
    /\ UNCHANGED <<db, cache, plan, queue, stage, flat, answer, seen>>

\* Mutant: pairs the products with the flattened ones by position.
PutByPosition(r) ==
    /\ pc[r] = "put"
    /\ \E id \in todo[r], k \in DOMAIN flat[r] :
         /\ cache' = IF bypass[r] THEN cache ELSE With(cache, id, flat[r][k])
         /\ results' = [results EXCEPT ![r] = With(@, id, flat[r][k])]
         /\ hits' = [hits EXCEPT ![r] = @ \ {id}]
         /\ todo' = [todo EXCEPT ![r] = @ \ {id}]
    /\ UNCHANGED <<db, pc, plan, queue, stage, flat, seen>>

\* FlatCache::put of one of the products read, in any order.
Put(r) ==
    /\ pc[r] = "put"
    /\ \E id \in todo[r] :
         /\ cache' = IF bypass[r] THEN cache ELSE With(cache, id, flat[r][id])
         /\ results' = [results EXCEPT ![r] = With(@, id, flat[r][id])]
         /\ hits' = [hits EXCEPT ![r] = @ \ {id}]
         /\ todo' = [todo EXCEPT ![r] = @ \ {id}]
    /\ UNCHANGED <<db, pc, plan, queue, stage, flat, seen>>

Answer(r) ==
    /\ pc[r] = "put" /\ todo[r] = {}
    /\ Goto(r, "ok")
    /\ UNCHANGED <<db, cache, request, seen>>

\* A query fails, or the client goes away at an await.
Fails(r) ==
    /\ pc[r] \in {"find", "read"}
    /\ Goto(r, "failed")
    /\ UNCHANGED <<db, cache, request, seen>>

Serve(r) == \/ FindAll(r) \/ Probe(r) \/ Probed(r) \/ Read(r) \/ NextTable(r)
            \/ AllRead(r) \/ Put(r) \/ Answer(r)

Next ==
    \/ Create
    \/ \E id \in Id : Delete(id) \/ \E p \in Part : Write(p, id)
    \/ \E r \in Request :
         \/ \E lim \in Limits : StartList(r, lim)
         \/ \E ids \in IdLists : StartByIds(r, ids)
         \/ Serve(r) \/ Fails(r)

Spec == Init /\ [][Next]_vars

-----------------------------------------------------------------------------
(* Properties. *)

\* What a part of a product was at some moment of the request.
IsCurrent(r, id, x) == \A p \in Part : x[p] \in seen[r][p][id]

\* Each part of an answered product was current at some moment of the
\* request, unless the product came from the cache.  A request that bypasses
\* the cache, as every page with a limit does, is never told older news,
\* however other requests fill the cache meanwhile.
AnswersAreCurrent ==
    \A r \in Request : pc[r] = "ok" =>
        /\ r \in listing /\ limit[r] > 0 => hits[r] = {}
        /\ \A id \in DOMAIN results[r] \ hits[r] : IsCurrent(r, id, results[r][id])

\* A product that exists from the start of a request to its end is in the
\* answer if it was asked for, whatever is cached, created or deleted
\* meanwhile; a list has every product that does, and none that never did,
\* unless its limit cuts it off.
AnswersAreComplete ==
    \A r \in Request : pc[r] = "ok" =>
        LET alive == {id \in Id : 0 \notin seen[r]["row"][id]}
            dead  == {id \in Id : seen[r]["row"][id] = {0}} IN
        /\ alive \cap Elems(asked[r]) \subseteq DOMAIN results[r]
        /\ r \in listing =>
             /\ (limit[r] > 0 /\ Len(asked[r]) = limit[r]) \/ alive \subseteq Elems(asked[r])
             /\ DOMAIN results[r] \cap dead = {}

\* What the cache holds of a product was committed for that very product,
\* and every part of it was current during one and the same request.
CacheNamesItsProduct ==
    \A id \in DOMAIN cache : \E r \in Request :
        cache[id]["row"] # 0 /\ IsCurrent(r, id, cache[id])

\* README.md says that PRODUCT_FLAT_CACHE "off" bypasses the in-process cache
\* of flattened products entirely: no answer comes from it.  fetch_flat_by_ids
\* uses the cache all the same.
OffBypassesTheCache ==
    ~CacheEnabled => \A r \in Request : hits[r] = {}
=============================================================================
