-------------------------- MODULE FlatReadsProofs --------------------------
(***************************************************************************)
(* FlatReads keeps its promises for any requests, tables, lists of ids and *)
(* limits.  The inductive invariant says of each request what it has left  *)
(* to probe, to read and to answer, and which parts of the products it has *)
(* read were there during the request.                                     *)
(***************************************************************************)
EXTENDS FlatReads, TLAPS

\* The products that exist from the start of a request on.
Alive(r) == {id \in Id : 0 \notin seen[r]["row"][id]}

AtWork(r) == pc[r] \notin Ended

\* What a request at work has seen includes what there is now.
SeenInv(r) ==
    /\ pc[r] = "idle" => \A p \in Part, id \in Id : seen[r][p][id] = {}
    /\ AtWork(r) => \A p \in Part, id \in Id : rows[p][id] \in seen[r][p][id]

\* What a request begins with, and when it bypasses the cache.
PlanInv(r) ==
    /\ pc[r] = "idle" => r \notin listing /\ bypass[r] = FALSE
    /\ pc[r] \in {"idle", "find"} =>
         /\ asked[r] = <<>> /\ queue[r] = <<>> /\ todo[r] = {} /\ stage[r] = 1
         /\ DOMAIN flat[r] = {} /\ DOMAIN results[r] = {} /\ hits[r] = {}
    /\ r \in listing /\ limit[r] > 0 => bypass[r]
    /\ bypass[r] => hits[r] = {}

\* A request is about the ids it asked for, and a list asked for every
\* product that exists all the while, or for as many as its limit.
AskedInv(r) ==
    /\ Elems(queue[r]) \cup todo[r] \cup DOMAIN flat[r] \cup DOMAIN results[r]
         \subseteq Elems(asked[r])
    /\ r \in listing /\ pc[r] \in {"probe", "read", "put", "ok"} =>
         /\ \A id \in Elems(asked[r]) : id \in Id /\ \E v \in seen[r]["row"][id] : v # 0
         /\ \/ limit[r] > 0 /\ Len(asked[r]) = limit[r]
            \/ Alive(r) \subseteq Elems(asked[r])

\* The n-th part of the product id has been read.
HasRead(r, id, n) ==
    \/ n < stage[r]
    \/ pc[r] = "read" /\ n = stage[r] /\ id \notin todo[r]
    \/ pc[r] = "put"

\* What has been read was there during the request.
FlatInv(r) ==
    /\ \A id \in DOMAIN flat[r] : flat[r][id]["row"] # 0
    /\ pc[r] \in {"probe", "read", "put"} =>
         \A id \in DOMAIN flat[r], n \in DOMAIN Parts :
            HasRead(r, id, n) => flat[r][id][Parts[n]] \in seen[r][Parts[n]][id]
    /\ pc[r] = "probe" =>
         \/ stage[r] = 1 /\ DOMAIN flat[r] = {}
         \/ stage[r] = 2 /\ DOMAIN flat[r] = Elems(asked[r])
    /\ pc[r] = "read" /\ stage[r] = 1 => DOMAIN flat[r] \cap todo[r] = {}
    /\ pc[r] = "put" => todo[r] \subseteq DOMAIN flat[r]

\* A product that exists all the while is not lost on its way to the answer.
KeptInv(r) ==
    \A id \in Alive(r) \cap Elems(asked[r]) :
        /\ pc[r] = "probe" => id \in Elems(queue[r]) \cup todo[r] \cup DOMAIN results[r]
        /\ pc[r] = "read" => \/ id \in DOMAIN results[r] \cup DOMAIN flat[r]
                             \/ stage[r] = 1 /\ id \in todo[r]
        /\ pc[r] = "put" => id \in DOMAIN results[r] \cup todo[r]
        /\ pc[r] = "ok" => id \in DOMAIN results[r]

ResultsInv(r) == \A id \in DOMAIN results[r] \ hits[r] : IsCurrent(r, id, results[r][id])

RequestInv(r) ==
    /\ SeenInv(r) /\ PlanInv(r) /\ AskedInv(r) /\ FlatInv(r) /\ KeptInv(r) /\ ResultsInv(r)

FlatReadsInv == TypeOK /\ (\A r \in Request : RequestInv(r)) /\ CacheNamesItsProduct

-----------------------------------------------------------------------------
(* The operators. *)

LEMMA Prepended ==
    ASSUME NEW S, NEW x \in S, NEW s \in Seq(S)
    PROVE  /\ <<x>> \o s \in Seq(S) /\ Len(<<x>> \o s) = Len(s) + 1
           /\ (<<x>> \o s)[1] = x
           /\ \A n \in 2 .. Len(<<x>> \o s) : (<<x>> \o s)[n] = s[n - 1]
OBVIOUS

LEMMA PartsCover ==
    /\ Len(Parts) \in Nat \ {0} /\ DOMAIN Parts = 1 .. Len(Parts)
    /\ \A n \in DOMAIN Parts : Parts[n] \in Part
    /\ \A p \in Part : \E n \in DOMAIN Parts : Parts[n] = p
    /\ \A n \in DOMAIN Parts : Parts[n] = "row" <=> n = 1
<1>1. /\ Tables \in Seq(Part) /\ Len(Tables) \in Nat
      /\ DOMAIN Tables = 1 .. Len(Tables)
      /\ \A n \in DOMAIN Tables : Tables[n] # "row"
  BY FlatReadsAssumption DEF Part
<1>2. /\ Parts \in Seq(Part) /\ Len(Parts) = Len(Tables) + 1
      /\ Parts[1] = "row"
      /\ \A n \in 2 .. Len(Parts) : Parts[n] = Tables[n - 1]
  <2>1. "row" \in Part
    BY DEF Part
  <2>2. /\ <<"row">> \o Tables \in Seq(Part)
        /\ Len(<<"row">> \o Tables) = Len(Tables) + 1
        /\ (<<"row">> \o Tables)[1] = "row"
        /\ \A n \in 2 .. Len(<<"row">> \o Tables) : (<<"row">> \o Tables)[n] = Tables[n - 1]
    BY <1>1, <2>1, Prepended, Zenon
  <2> QED BY <2>2, Zenon DEF Parts
<1>3. \A n \in DOMAIN Tables : n + 1 \in 2 .. Len(Parts) /\ Parts[n + 1] = Tables[n]
  BY <1>1, <1>2
<1>4. DOMAIN Parts = 1 .. Len(Parts) /\ Len(Parts) \in Nat \ {0}
  BY <1>1, <1>2
<1>5. \A n \in 2 .. Len(Parts) : n - 1 \in DOMAIN Tables
  BY <1>1, <1>2
<1>6. ASSUME NEW n \in DOMAIN Parts
      PROVE  Parts[n] \in Part /\ (Parts[n] = "row" <=> n = 1)
  <2>1. CASE n = 1
    BY <1>2, <2>1 DEF Part
  <2>2. CASE n \in 2 .. Len(Parts)
    BY <1>1, <1>2, <1>5, <2>2 DEF Part
  <2> QED BY <1>4, <2>1, <2>2
<1>7. ASSUME NEW p \in Part
      PROVE  \E n \in DOMAIN Parts : Parts[n] = p
  <2>1. CASE p = "row"
    BY <1>2, <1>4, <2>1
  <2>2. CASE \E n \in DOMAIN Tables : p = Tables[n]
    BY <1>2, <1>3, <1>4, <2>2
  <2> QED BY <1>7, <2>1, <2>2 DEF Part
<1> QED BY <1>2, <1>4, <1>6, <1>7

LEMMA SecondPart == 2 \in 1 .. Len(Parts)
<1>1. Tables \in Seq(Part) /\ Len(Tables) \in Nat \ {0}
  BY FlatReadsAssumption DEF Part
<1>2. "row" \in Part
  BY DEF Part
<1>3. Len(<<"row">> \o Tables) = Len(Tables) + 1
  BY <1>1, <1>2, Prepended, Zenon
<1>4. Len(Parts) = Len(Tables) + 1
  BY <1>3, Zenon DEF Parts
<1> QED BY <1>1, <1>4

LEMMA ElemsOfTail ==
    ASSUME NEW S, NEW s \in Seq(S), s # <<>>
    PROVE  /\ Head(s) \in S /\ Tail(s) \in Seq(S)
           /\ Elems(s) = {Head(s)} \cup Elems(Tail(s))
<1>1. /\ Len(s) \in Nat \ {0} /\ DOMAIN s = 1 .. Len(s)
      /\ Head(s) = s[1] /\ Tail(s) \in Seq(S)
      /\ DOMAIN Tail(s) = 1 .. Len(s) - 1
      /\ \A n \in 1 .. Len(s) - 1 : Tail(s)[n] = s[n + 1]
  OBVIOUS
<1>2. \A n \in 2 .. Len(s) : n - 1 \in 1 .. Len(s) - 1 /\ Tail(s)[n - 1] = s[n]
  BY <1>1
<1>3. \A n \in 1 .. Len(s) - 1 : n + 1 \in 1 .. Len(s)
  BY <1>1
<1>4. \A x : x \in Elems(s) <=> \E n \in 1 .. Len(s) : x = s[n]
  BY <1>1 DEF Elems
<1>5. \A x : x \in Elems(Tail(s)) <=> \E n \in 1 .. Len(s) - 1 : x = s[n + 1]
  BY <1>1 DEF Elems
<1>6. ASSUME NEW x \in Elems(s), x # s[1]
      PROVE  x \in Elems(Tail(s))
  <2>1. PICK n \in 1 .. Len(s) : x = s[n]
    BY <1>4
  <2>2. n \in 2 .. Len(s)
    BY <1>1, <1>6, <2>1
  <2> QED BY <1>1, <1>2, <2>1, <2>2 DEF Elems
<1>7. ASSUME NEW x \in Elems(Tail(s))
      PROVE  x \in Elems(s)
  BY <1>3, <1>4, <1>5
<1>8. s[1] \in Elems(s) /\ s[1] \in S
  BY <1>1 DEF Elems
<1> QED BY <1>1, <1>6, <1>7, <1>8
-----------------------------------------------------------------------------
(* Types. *)

LEMMA WrittenType ==
    ASSUME TypeOK, NEW new \in [Part -> [Id -> Version]], Written(new),
           lastId' \in 0 .. MaxId
    PROVE  TypeOK'
<1>1. clock' \in Version
  BY FlatReadsAssumption DEF TypeOK, Written, Version
<1>2. seen' \in [Request -> [Part -> [Id -> SUBSET Version]]]
  <2>1. \A r \in Request, p \in Part, id \in Id :
          seen[r][p][id] \cup (IF pc[r] \in Ended THEN {} ELSE {new[p][id]}) \in SUBSET Version
    BY DEF TypeOK
  <2> QED BY <2>1 DEF Written
<1>3. /\ rows' = new
      /\ UNCHANGED <<cache, pc, asked, bypass, listing, limit, queue, stage, todo, flat,
                     results, hits>>
  BY DEF Written, request, plan, work, answer
<1> QED BY <1>1, <1>2, <1>3 DEF TypeOK

LEMMA WriterStep ==
    ASSUME TypeOK, \/ Create
                   \/ \E id \in Id : Delete(id) \/ \E p \in Part : Write(p, id)
    PROVE  /\ \E new \in [Part -> [Id -> Version]] : Written(new)
           /\ lastId' \in 0 .. MaxId
<1>1. "row" \in Part /\ lastId \in 0 .. MaxId /\ MaxId \in Nat
  BY FlatReadsAssumption DEF Part, TypeOK
<1>2. rows \in [Part -> [Id -> Version]]
  BY DEF TypeOK
<1>3. clock < MaxWrite => clock + 1 \in Version
  BY FlatReadsAssumption DEF TypeOK, Version
<1>4. 0 \in Version
  BY FlatReadsAssumption DEF Version
<1>5. CASE Create
  <2>1. [rows EXCEPT !["row"][lastId + 1] = clock + 1] \in [Part -> [Id -> Version]]
    BY <1>1, <1>2, <1>3, <1>5 DEF Create, Written
  <2>2. lastId' \in 0 .. MaxId
    BY <1>1, <1>5 DEF Create
  <2> QED BY <1>5, <2>1, <2>2 DEF Create
<1>6. ASSUME NEW id \in Id, NEW p \in Part, Write(p, id)
      PROVE  /\ \E new \in [Part -> [Id -> Version]] : Written(new)
             /\ lastId' \in 0 .. MaxId
  <2>1. [rows EXCEPT ![p][id] = clock + 1] \in [Part -> [Id -> Version]]
    BY <1>2, <1>3, <1>6 DEF Write, Written
  <2> QED BY <1>1, <1>6, <2>1 DEF Write
<1>7. ASSUME NEW id \in Id, Delete(id)
      PROVE  /\ \E new \in [Part -> [Id -> Version]] : Written(new)
             /\ lastId' \in 0 .. MaxId
  <2>1. PICK cascade \in BOOLEAN :
          Written([p \in Part |-> [rows[p] EXCEPT
                     ![id] = IF p = "row" \/ cascade THEN 0 ELSE @]])
    BY <1>7 DEF Delete
  <2>2. [p \in Part |-> [rows[p] EXCEPT ![id] = IF p = "row" \/ cascade THEN 0 ELSE @]]
          \in [Part -> [Id -> Version]]
    BY <1>2, <1>4
  <2> QED BY <1>1, <1>7, <2>1, <2>2 DEF Delete
<1> QED BY <1>5, <1>6, <1>7

-----------------------------------------------------------------------------
(* What one step leaves alone. *)

\* The step is not one of the request r.
Untouched(r) ==
    /\ pc'[r] = pc[r] /\ asked'[r] = asked[r] /\ bypass'[r] = bypass[r]
    /\ (r \in listing' <=> r \in listing) /\ limit'[r] = limit[r]
    /\ queue'[r] = queue[r] /\ stage'[r] = stage[r] /\ todo'[r] = todo[r]
    /\ flat'[r] = flat[r] /\ results'[r] = results[r] /\ hits'[r] = hits[r]
    /\ seen'[r] = seen[r]

LEMMA UntouchedKeeps ==
    ASSUME NEW r \in Request, Untouched(r), UNCHANGED rows, RequestInv(r)
    PROVE  RequestInv(r)'
<1> USE DEF RequestInv, Untouched
<1>1. SeenInv(r)'
  BY DEF SeenInv, AtWork
<1>2. PlanInv(r)'
  BY DEF PlanInv
<1>3. Alive(r)' = Alive(r)
  BY DEF Alive
<1>4. AskedInv(r)'
  BY <1>3 DEF AskedInv
<1>5. FlatInv(r)'
  BY DEF FlatInv, HasRead
<1>6. KeptInv(r)'
  BY <1>3 DEF KeptInv
<1>7. ResultsInv(r)'
  BY DEF ResultsInv, IsCurrent
<1> QED BY <1>1, <1>2, <1>4, <1>5, <1>6, <1>7

\* What a request has seen it does not forget.
SeenGrows == \A r \in Request, p \in Part, id \in Id : seen[r][p][id] \subseteq seen'[r][p][id]

LEMMA CacheKept ==
    ASSUME TypeOK, CacheNamesItsProduct, SeenGrows, UNCHANGED cache
    PROVE  CacheNamesItsProduct'
<1> SUFFICES ASSUME NEW id \in DOMAIN cache
             PROVE  \E r \in Request : cache[id]["row"] # 0 /\ IsCurrent(r, id, cache[id])'
  BY DEF CacheNamesItsProduct
<1>1. PICK r \in Request : cache[id]["row"] # 0 /\ IsCurrent(r, id, cache[id])
  BY DEF CacheNamesItsProduct
<1>2. id \in Id
  BY DEF TypeOK
<1> QED BY <1>1, <1>2 DEF IsCurrent, SeenGrows

\* A write is seen by the requests at work and changes nothing they have.
LEMMA WrittenKeeps ==
    ASSUME TypeOK, NEW new \in [Part -> [Id -> Version]], Written(new)
    PROVE  /\ SeenGrows
           /\ \A r \in Request : RequestInv(r) => RequestInv(r)'
<1>1. /\ rows' = new
      /\ UNCHANGED <<cache, pc, asked, bypass, listing, limit, queue, stage, todo, flat,
                     results, hits>>
  BY DEF Written, request, plan, work, answer
<1>2. \A r \in Request, p \in Part, id \in Id :
        seen'[r][p][id] = seen[r][p][id]
                            \cup (IF pc[r] \in Ended THEN {} ELSE {new[p][id]})
  BY DEF Written
<1>3. SeenGrows
  BY <1>2 DEF SeenGrows
<1>4. ASSUME NEW r \in Request, RequestInv(r)
      PROVE  RequestInv(r)'
  <2> USE <1>4 DEF RequestInv
  <2>1. SeenInv(r)'
    BY <1>1, <1>2 DEF SeenInv, AtWork, Ended
  <2>2. PlanInv(r)'
    BY <1>1 DEF PlanInv
  <2>3. "row" \in Part
    BY DEF Part
  <2>4. Alive(r)' \subseteq Alive(r)
    BY <1>3, <2>3 DEF Alive, SeenGrows
  <2>5. AskedInv(r)'
    BY <1>1, <1>3, <2>3, <2>4 DEF AskedInv, SeenGrows
  <2>6. FlatInv(r)'
    <3>1. \A id \in DOMAIN flat[r], n \in DOMAIN Parts : id \in Id /\ Parts[n] \in Part
      BY PartsCover DEF TypeOK
    <3> QED BY <1>1, <1>3, <3>1 DEF FlatInv, HasRead, SeenGrows
  <2>7. KeptInv(r)'
    BY <1>1, <2>4 DEF KeptInv
  <2>8. ResultsInv(r)'
    <3>1. \A id \in DOMAIN results[r] : id \in Id
      BY DEF TypeOK
    <3> QED BY <1>1, <1>3, <3>1 DEF ResultsInv, IsCurrent, SeenGrows
  <2> QED BY <2>1, <2>2, <2>5, <2>6, <2>7, <2>8
<1> QED BY <1>3, <1>4

-----------------------------------------------------------------------------
(* Starting. *)

LEMMA StartListKeeps ==
    ASSUME FlatReadsInv, NEW r \in Request, NEW lim \in Limits, StartList(r, lim)
    PROVE  TypeOK' /\ SeenGrows /\ RequestInv(r)' /\ \A q \in Request \ {r} : Untouched(q)
<1> USE DEF FlatReadsInv
<1>1. /\ pc[r] = "idle" /\ pc' = [pc EXCEPT ![r] = "find"]
      /\ seen' = [seen EXCEPT ![r] = [p \in Part |-> [id \in Id |-> {rows[p][id]}]]]
      /\ listing' = listing \cup {r} /\ limit' = [limit EXCEPT ![r] = lim]
      /\ bypass' = [bypass EXCEPT ![r] = Bypasses(lim)]
      /\ UNCHANGED <<rows, clock, lastId, cache, asked, queue, stage, todo, flat, results,
                     hits>>
  BY DEF StartList, Goto, SeenNow, db, work, answer
<1>2. Bypasses(lim) \in BOOLEAN /\ (lim > 0 => Bypasses(lim))
  BY FlatReadsAssumption DEF Bypasses
<1>3. TypeOK'
  <2>1. [p \in Part |-> [id \in Id |-> {rows[p][id]}]] \in [Part -> [Id -> SUBSET Version]]
    BY DEF TypeOK
  <2>2. seen' \in [Request -> [Part -> [Id -> SUBSET Version]]]
    BY <1>1, <2>1 DEF TypeOK
  <2>3. bypass' \in [Request -> BOOLEAN]
    BY <1>1, <1>2, Zenon DEF TypeOK
  <2> QED BY <1>1, <2>2, <2>3 DEF TypeOK
<1>4. \A q \in Request \ {r} : Untouched(q)
  <2>1. \A q \in Request \ {r} : bypass'[q] = bypass[q]
    BY <1>1, Zenon DEF TypeOK
  <2> QED BY <1>1, <2>1 DEF Untouched, TypeOK
<1>5. SeenInv(r) /\ PlanInv(r)
  BY DEF RequestInv
<1>6. seen'[r] = [p \in Part |-> [id \in Id |-> {rows[p][id]}]]
  BY <1>1 DEF TypeOK
<1>7. SeenGrows
  BY <1>1, <1>5, <1>6 DEF SeenGrows, SeenInv, TypeOK
<1>8. /\ pc'[r] = "find" /\ bypass'[r] = Bypasses(lim) /\ r \in listing'
      /\ limit'[r] = lim
  <2>1. bypass'[r] = Bypasses(lim)
    BY <1>1, Zenon DEF TypeOK
  <2> QED BY <1>1, <2>1 DEF TypeOK
<1>9. /\ asked'[r] = <<>> /\ queue'[r] = <<>> /\ todo'[r] = {} /\ stage'[r] = 1
      /\ DOMAIN flat'[r] = {} /\ DOMAIN results'[r] = {} /\ hits'[r] = {}
  BY <1>1, <1>5 DEF PlanInv
<1>10. SeenInv(r)'
  BY <1>1, <1>6, <1>8 DEF SeenInv, AtWork, Ended
<1>11. PlanInv(r)'
  BY <1>2, <1>8, <1>9 DEF PlanInv
<1>12. AskedInv(r)'
  BY <1>8, <1>9 DEF AskedInv, Elems
<1>13. FlatInv(r)' /\ KeptInv(r)' /\ ResultsInv(r)'
  BY <1>8, <1>9 DEF FlatInv, KeptInv, ResultsInv
<1> QED BY <1>3, <1>4, <1>7, <1>10, <1>11, <1>12, <1>13 DEF RequestInv

LEMMA StartByIdsKeeps ==
    ASSUME FlatReadsInv, NEW r \in Request, NEW ids \in IdLists, StartByIds(r, ids)
    PROVE  TypeOK' /\ SeenGrows /\ RequestInv(r)' /\ \A q \in Request \ {r} : Untouched(q)
<1> USE DEF FlatReadsInv
<1>1. /\ pc[r] = "idle" /\ pc' = [pc EXCEPT ![r] = "probe"]
      /\ seen' = [seen EXCEPT ![r] = [p \in Part |-> [id \in Id |-> {rows[p][id]}]]]
      /\ asked' = [asked EXCEPT ![r] = ids] /\ queue' = [queue EXCEPT ![r] = ids]
      /\ UNCHANGED <<rows, clock, lastId, cache, bypass, listing, limit, stage, todo, flat,
                     results, hits>>
  BY DEF StartByIds, Goto, SeenNow, db, answer
<1>2. ids \in Seq(Nat)
  BY FlatReadsAssumption
<1>3. TypeOK'
  <2>1. [p \in Part |-> [id \in Id |-> {rows[p][id]}]] \in [Part -> [Id -> SUBSET Version]]
    BY DEF TypeOK
  <2>2. seen' \in [Request -> [Part -> [Id -> SUBSET Version]]]
    BY <1>1, <2>1 DEF TypeOK
  <2> QED BY <1>1, <1>2, <2>2 DEF TypeOK
<1>4. \A q \in Request \ {r} : Untouched(q)
  BY <1>1 DEF Untouched, TypeOK
<1>5. SeenInv(r) /\ PlanInv(r)
  BY DEF RequestInv
<1>6. seen'[r] = [p \in Part |-> [id \in Id |-> {rows[p][id]}]]
  BY <1>1 DEF TypeOK
<1>7. SeenGrows
  BY <1>1, <1>5, <1>6 DEF SeenGrows, SeenInv, TypeOK
<1>8. /\ pc'[r] = "probe" /\ r \notin listing' /\ bypass'[r] = FALSE
      /\ asked'[r] = ids /\ queue'[r] = ids /\ todo'[r] = {} /\ stage'[r] = 1
      /\ DOMAIN flat'[r] = {} /\ DOMAIN results'[r] = {} /\ hits'[r] = {}
  <2>1. bypass'[r] = FALSE
    BY <1>1, <1>5, Zenon DEF PlanInv
  <2> QED BY <1>1, <1>5, <2>1 DEF PlanInv, TypeOK
<1>9. SeenInv(r)'
  BY <1>1, <1>6, <1>8 DEF SeenInv, AtWork, Ended
<1>10. PlanInv(r)'
  BY <1>8 DEF PlanInv
<1>11. AskedInv(r)'
  BY <1>8 DEF AskedInv, Elems
<1>12. FlatInv(r)' /\ KeptInv(r)' /\ ResultsInv(r)'
  BY <1>8 DEF FlatInv, KeptInv, ResultsInv
<1> QED BY <1>3, <1>4, <1>7, <1>9, <1>10, <1>11, <1>12 DEF RequestInv

LEMMA FindAllKeeps ==
    ASSUME FlatReadsInv, NEW r \in Request, FindAll(r)
    PROVE  TypeOK' /\ RequestInv(r)' /\ \A q \in Request \ {r} : Untouched(q)
<1> USE DEF FlatReadsInv
<1> DEFINE Held(ids) == [id \in Elems(ids) |->
                           [p \in Part |-> IF p = "row" THEN rows[p][id] ELSE 0]]
<1>1. PICK n \in 0 .. MaxId : \E ids \in [1 .. n -> {id \in Id : Exists(id)}] :
        /\ IsListed(ids, limit[r])
        /\ asked' = [asked EXCEPT ![r] = ids] /\ queue' = [queue EXCEPT ![r] = ids]
        /\ flat' = [flat EXCEPT ![r] = Held(ids)]
  BY DEF FindAll
<1>2. PICK ids \in [1 .. n -> {id \in Id : Exists(id)}] :
        /\ IsListed(ids, limit[r])
        /\ asked' = [asked EXCEPT ![r] = ids] /\ queue' = [queue EXCEPT ![r] = ids]
        /\ flat' = [flat EXCEPT ![r] = Held(ids)]
  BY <1>1
<1>3. /\ pc[r] = "find" /\ pc' = [pc EXCEPT ![r] = "probe"]
      /\ stage' = [stage EXCEPT ![r] = 2]
      /\ UNCHANGED <<rows, clock, lastId, cache, bypass, listing, limit, todo, results, hits,
                     seen>>
  BY DEF FindAll, Goto, db, answer
<1>4. /\ Elems(ids) \subseteq Id /\ \A id \in Elems(ids) : rows["row"][id] # 0
      /\ "row" \in Part /\ ids \in Seq(Nat)
  <2>1. Id \subseteq Nat /\ n \in Nat
    BY FlatReadsAssumption DEF Id
  <2>2. DOMAIN ids = 1 .. n
    BY <1>2
  <2>3. \A k \in DOMAIN ids : ids[k] \in Id /\ rows["row"][ids[k]] # 0
    BY <1>2, <2>2 DEF Exists
  <2>4. ids \in [1 .. n -> Nat]
    BY <1>2, <2>1
  <2>5. ids \in Seq(Nat)
    BY <2>1, <2>4
  <2> QED BY <2>3, <2>5 DEF Elems, Part
<1>5. 2 \in 1 .. Len(Parts)
  BY SecondPart
<1>6. /\ pc'[r] = "probe" /\ stage'[r] = 2 /\ asked'[r] = ids /\ queue'[r] = ids
      /\ flat'[r] = Held(ids)
  BY <1>2, <1>3 DEF TypeOK
<1>7. TypeOK'
  <2>1. Held(ids) \in [Elems(ids) -> Flat]
    <3>1. 0 \in Version
      BY FlatReadsAssumption DEF Version
    <3> QED BY <1>4, <3>1 DEF Flat, TypeOK
  <2>2. flat'[r] \in [DOMAIN flat'[r] -> Flat] /\ DOMAIN flat'[r] \subseteq Id
    BY <1>4, <1>6, <2>1
  <2>3. \A q \in Request \ {r} : flat'[q] = flat[q]
    BY <1>2 DEF TypeOK
  <2>4. DOMAIN flat' = Request
    BY <1>2 DEF TypeOK
  <2>5. \A q \in Request : flat'[q] \in [DOMAIN flat'[q] -> Flat] /\ DOMAIN flat'[q] \subseteq Id
    BY <2>2, <2>3 DEF TypeOK
  <2>6. /\ asked' \in [Request -> Seq(Nat)] /\ queue' \in [Request -> Seq(Nat)]
    BY <1>2, <1>4 DEF TypeOK
  <2>7. /\ pc' \in [Request -> Ended \cup {"find", "probe", "read", "put"}]
        /\ stage' \in [Request -> 1 .. Len(Parts)]
    BY <1>3, <1>5 DEF TypeOK
  <2> QED BY <1>3, <2>4, <2>5, <2>6, <2>7 DEF TypeOK
<1>8. \A q \in Request \ {r} : Untouched(q)
  <2>1. \A q \in Request \ {r} : flat'[q] = flat[q] /\ asked'[q] = asked[q] /\ queue'[q] = queue[q]
    BY <1>2 DEF TypeOK
  <2> QED BY <1>3, <2>1 DEF Untouched, TypeOK
<1>9. SeenInv(r) /\ PlanInv(r)
  BY DEF RequestInv
<1>10. \A p \in Part, id \in Id : rows[p][id] \in seen[r][p][id]
  BY <1>3, <1>9 DEF SeenInv, AtWork, Ended
<1>11. todo[r] = {} /\ DOMAIN results[r] = {} /\ hits[r] = {}
  BY <1>3, <1>9 DEF PlanInv
<1>12. SeenInv(r)'
  BY <1>3, <1>6, <1>10 DEF SeenInv
<1>13. PlanInv(r)'
  BY <1>3, <1>6, <1>9 DEF PlanInv
<1>14. AskedInv(r)'
  <2>1. (limit[r] > 0 /\ Len(ids) = limit[r]) \/ Alive(r) \subseteq Elems(ids)
    <3>1. \A id \in Alive(r) : id \in Id /\ Exists(id)
      BY <1>4, <1>10 DEF Alive, Exists
    <3> QED BY <1>2, <3>1 DEF IsListed
  <2>2. Alive(r)' = Alive(r)
    BY <1>3 DEF Alive
  <2>3. DOMAIN flat'[r] = Elems(ids)
    BY <1>6
  <2>4. \A id \in Elems(ids) : id \in Id /\ \E v \in seen[r]["row"][id] : v # 0
    BY <1>4, <1>10
  <2> QED BY <1>3, <1>6, <1>11, <2>1, <2>2, <2>3, <2>4 DEF AskedInv
<1>15. FlatInv(r)'
  <2>1. DOMAIN flat'[r] = Elems(ids)
    BY <1>6
  <2>2. \A id \in Elems(ids) : flat'[r][id]["row"] = rows["row"][id]
    BY <1>4, <1>6
  <2>3. ASSUME NEW id \in DOMAIN flat'[r], NEW k \in DOMAIN Parts, HasRead(r, id, k)'
        PROVE  flat'[r][id][Parts[k]] \in seen[r][Parts[k]][id]
    <3>1. k = 1 /\ Parts[k] = "row"
      BY <1>6, <2>3, PartsCover DEF HasRead
    <3> QED BY <1>4, <1>10, <2>1, <2>2, <3>1
  <2> QED BY <1>3, <1>4, <1>6, <2>1, <2>2, <2>3 DEF FlatInv
<1>16. KeptInv(r)'
  BY <1>6 DEF KeptInv
<1>17. ResultsInv(r)'
  BY <1>3, <1>11 DEF ResultsInv
<1> QED BY <1>7, <1>8, <1>12, <1>13, <1>14, <1>15, <1>16, <1>17 DEF RequestInv

-----------------------------------------------------------------------------
(* Probing. *)

LEMMA ProbeKeeps ==
    ASSUME FlatReadsInv, NEW r \in Request, Probe(r)
    PROVE  TypeOK' /\ RequestInv(r)' /\ \A q \in Request \ {r} : Untouched(q)
<1> USE DEF FlatReadsInv
<1> DEFINE id == Head(queue[r])
<1>1. /\ pc[r] = "probe" /\ queue[r] # <<>> /\ queue' = [queue EXCEPT ![r] = Tail(@)]
      /\ UNCHANGED <<rows, clock, lastId, cache, pc, asked, bypass, listing, limit, stage,
                     flat, seen>>
  BY DEF Probe, db, plan
<1>2. /\ id \in Nat /\ Tail(queue[r]) \in Seq(Nat)
      /\ Elems(queue[r]) = {id} \cup Elems(Tail(queue[r]))
  <2>1. queue[r] \in Seq(Nat)
    BY DEF TypeOK
  <2> QED BY <1>1, <2>1, ElemsOfTail
<1>3. /\ queue' \in [Request -> Seq(Nat)] /\ queue'[r] = Tail(queue[r])
      /\ \A q \in Request \ {r} : queue'[q] = queue[q]
  BY <1>1, <1>2 DEF TypeOK
<1>4. /\ SeenInv(r) /\ PlanInv(r) /\ AskedInv(r) /\ FlatInv(r) /\ KeptInv(r) /\ ResultsInv(r)
  BY DEF RequestInv
<1>5. Alive(r)' = Alive(r)
  BY <1>1 DEF Alive
<1>6. SeenInv(r)'
  BY <1>1, <1>4 DEF SeenInv, AtWork
<1>7. FlatInv(r)'
  BY <1>1, <1>4 DEF FlatInv, HasRead
<1>8. CASE /\ ~bypass[r] /\ id \in DOMAIN cache
           /\ results' = [results EXCEPT ![r] = With(results[r], id, cache[id])]
           /\ hits' = [hits EXCEPT ![r] = @ \cup {id}]
           /\ UNCHANGED todo
  <2>1. id \in Id /\ cache[id] \in Flat
    BY <1>8 DEF TypeOK
  <2>2. /\ DOMAIN With(results[r], id, cache[id]) = DOMAIN results[r] \cup {id}
        /\ With(results[r], id, cache[id])
             \in [DOMAIN With(results[r], id, cache[id]) -> Flat]
        /\ \A k \in DOMAIN results[r] \ {id} :
             With(results[r], id, cache[id])[k] = results[r][k]
    <3>1. results[r] \in [DOMAIN results[r] -> Flat]
      BY DEF TypeOK
    <3> QED BY <2>1, <3>1 DEF With
  <2>3. /\ results'[r] = With(results[r], id, cache[id])
        /\ DOMAIN results' = Request
        /\ \A q \in Request \ {r} : results'[q] = results[q]
    BY <1>8 DEF TypeOK
  <2>4. /\ hits' \in [Request -> SUBSET Id] /\ hits'[r] = hits[r] \cup {id}
        /\ \A q \in Request \ {r} : hits'[q] = hits[q]
    BY <1>8, <2>1 DEF TypeOK
  <2>5. TypeOK'
    <3>1. /\ results'[r] \in [DOMAIN results'[r] -> Flat] /\ DOMAIN results'[r] \subseteq Id
      BY <2>1, <2>2, <2>3 DEF TypeOK
    <3>2. \A q \in Request : /\ results'[q] \in [DOMAIN results'[q] -> Flat]
                             /\ DOMAIN results'[q] \subseteq Id
      BY <2>3, <3>1 DEF TypeOK
    <3> QED BY <1>1, <1>3, <1>8, <2>3, <2>4, <3>2 DEF TypeOK
  <2>6. \A q \in Request \ {r} : Untouched(q)
    BY <1>1, <1>3, <1>8, <2>3, <2>4 DEF Untouched
  <2>7. PlanInv(r)'
    BY <1>1, <1>4, <1>8 DEF PlanInv
  <2>8. AskedInv(r)'
    BY <1>1, <1>2, <1>3, <1>4, <1>5, <1>8, <2>2, <2>3 DEF AskedInv
  <2>9. KeptInv(r)'
    BY <1>1, <1>2, <1>3, <1>4, <1>5, <1>8, <2>2, <2>3 DEF KeptInv
  <2>10. ResultsInv(r)'
    BY <1>1, <1>4, <2>2, <2>3, <2>4 DEF ResultsInv, IsCurrent
  <2> QED BY <1>6, <1>7, <2>5, <2>6, <2>7, <2>8, <2>9, <2>10 DEF RequestInv
<1>9. CASE /\ todo' = [todo EXCEPT ![r] = @ \cup {id}]
           /\ UNCHANGED <<results, hits>>
  <2>1. /\ todo' \in [Request -> SUBSET Nat] /\ todo'[r] = todo[r] \cup {id}
        /\ \A q \in Request \ {r} : todo'[q] = todo[q]
    BY <1>2, <1>9 DEF TypeOK
  <2>2. TypeOK'
    BY <1>1, <1>3, <1>9, <2>1 DEF TypeOK
  <2>3. \A q \in Request \ {r} : Untouched(q)
    BY <1>1, <1>3, <1>9, <2>1 DEF Untouched
  <2>4. PlanInv(r)' /\ ResultsInv(r)'
    BY <1>1, <1>4, <1>9 DEF PlanInv, ResultsInv, IsCurrent
  <2>5. AskedInv(r)'
    BY <1>1, <1>2, <1>3, <1>4, <1>5, <1>9, <2>1 DEF AskedInv
  <2>6. KeptInv(r)'
    BY <1>1, <1>2, <1>3, <1>4, <1>5, <1>9, <2>1 DEF KeptInv
  <2> QED BY <1>6, <1>7, <2>2, <2>3, <2>4, <2>5, <2>6 DEF RequestInv
<1> QED BY <1>8, <1>9 DEF Probe, answer

LEMMA ProbedKeeps ==
    ASSUME FlatReadsInv, NEW r \in Request, Probed(r)
    PROVE  TypeOK' /\ RequestInv(r)' /\ \A q \in Request \ {r} : Untouched(q)
<1> USE DEF FlatReadsInv
<1> DEFINE left == [id \in DOMAIN flat[r] \cap todo[r] |-> flat[r][id]]
<1>1. /\ pc[r] = "probe" /\ queue[r] = <<>>
      /\ pc' = [pc EXCEPT ![r] = IF todo[r] = {} THEN "ok" ELSE "read"]
      /\ flat' = [flat EXCEPT ![r] = left]
      /\ UNCHANGED <<rows, clock, lastId, cache, asked, bypass, listing, limit, queue, stage,
                     todo, results, hits, seen>>
  BY DEF Probed, Goto, db, plan, answer
<1>2. /\ DOMAIN flat' = Request /\ flat'[r] = left
      /\ \A q \in Request \ {r} : flat'[q] = flat[q]
  BY <1>1 DEF TypeOK
<1>3. DOMAIN flat'[r] = DOMAIN flat[r] \cap todo[r] /\ \A id \in DOMAIN flat'[r] : flat'[r][id] = flat[r][id]
  BY <1>2
<1>4. /\ pc' \in [Request -> Ended \cup {"find", "probe", "read", "put"}]
      /\ pc'[r] = IF todo[r] = {} THEN "ok" ELSE "read"
      /\ \A q \in Request \ {r} : pc'[q] = pc[q]
  BY <1>1 DEF TypeOK, Ended
<1>5. TypeOK'
  <2>1. flat'[r] \in [DOMAIN flat'[r] -> Flat] /\ DOMAIN flat'[r] \subseteq Id
    BY <1>2 DEF TypeOK
  <2>2. \A q \in Request : flat'[q] \in [DOMAIN flat'[q] -> Flat] /\ DOMAIN flat'[q] \subseteq Id
    BY <1>2, <2>1 DEF TypeOK
  <2> QED BY <1>1, <1>2, <1>4, <2>2 DEF TypeOK
<1>6. \A q \in Request \ {r} : Untouched(q)
  BY <1>1, <1>2, <1>4 DEF Untouched
<1>7. /\ SeenInv(r) /\ PlanInv(r) /\ AskedInv(r) /\ FlatInv(r) /\ KeptInv(r) /\ ResultsInv(r)
  BY DEF RequestInv
<1>8. Alive(r)' = Alive(r)
  BY <1>1 DEF Alive
<1>9. SeenInv(r)' /\ PlanInv(r)' /\ ResultsInv(r)'
  BY <1>1, <1>4, <1>7 DEF SeenInv, PlanInv, ResultsInv, IsCurrent, AtWork, Ended
<1>10. AskedInv(r)'
  BY <1>1, <1>3, <1>4, <1>7, <1>8 DEF AskedInv
<1>11. FlatInv(r)'
  <2>1. \A id \in DOMAIN flat'[r], n \in DOMAIN Parts : HasRead(r, id, n)' => HasRead(r, id, n)
    BY <1>1, <1>3, <1>4 DEF HasRead
  <2>2. \A id \in DOMAIN flat'[r], n \in DOMAIN Parts :
          HasRead(r, id, n)' => flat'[r][id][Parts[n]] \in seen[r][Parts[n]][id]
    BY <1>1, <1>3, <1>7, <2>1 DEF FlatInv
  <2>3. \A id \in DOMAIN flat'[r] : flat'[r][id]["row"] # 0
    BY <1>3, <1>7 DEF FlatInv
  <2>4. pc'[r] # "probe" /\ pc'[r] # "put"
    BY <1>4
  <2>5. pc'[r] = "read" /\ stage'[r] = 1 => DOMAIN flat'[r] \cap todo'[r] = {}
    BY <1>1, <1>3, <1>7 DEF FlatInv
  <2>6. seen' = seen
    BY <1>1
  <2> QED BY <2>2, <2>3, <2>4, <2>5, <2>6 DEF FlatInv
<1>12. KeptInv(r)'
  <2>1. Elems(queue[r]) = {}
    BY <1>1 DEF Elems
  <2> QED BY <1>1, <1>3, <1>4, <1>7, <1>8, <2>1 DEF KeptInv, FlatInv
<1> QED BY <1>5, <1>6, <1>9, <1>10, <1>11, <1>12 DEF RequestInv

-----------------------------------------------------------------------------
(* Reading. *)

LEMMA ReadKeeps ==
    ASSUME FlatReadsInv, NEW r \in Request, Read(r)
    PROVE  TypeOK' /\ RequestInv(r)' /\ \A q \in Request \ {r} : Untouched(q)
<1> USE DEF FlatReadsInv
<1>1. PICK c \in SUBSET todo[r] :
        /\ flat' = [flat EXCEPT ![r] = Joined(flat[r], Parts[stage[r]], c)]
        /\ todo' = [todo EXCEPT ![r] = @ \ c]
  BY DEF Read
<1>2. /\ pc[r] = "read"
      /\ UNCHANGED <<rows, clock, lastId, cache, pc, asked, bypass, listing, limit, queue,
                     stage, results, hits, seen>>
  BY DEF Read, db, plan, answer
<1> DEFINE p == Parts[stage[r]]
           found == IF p = "row" THEN {id \in c \cap Id : Exists(id)} ELSE {}
<1>3. /\ stage[r] \in DOMAIN Parts /\ p \in Part /\ (p = "row" <=> stage[r] = 1)
      /\ \A n \in DOMAIN Parts : /\ Parts[n] \in Part /\ n \in Nat
                                 /\ (Parts[n] = "row" <=> n = 1)
  <2>1. stage[r] \in DOMAIN Parts
    BY PartsCover DEF TypeOK
  <2> QED BY <2>1, PartsCover
<1>4. /\ SeenInv(r) /\ PlanInv(r) /\ AskedInv(r) /\ FlatInv(r) /\ KeptInv(r) /\ ResultsInv(r)
  BY DEF RequestInv
<1>5. /\ \A q \in Part, id \in Id : rows[q][id] \in seen[r][q][id]
      /\ "row" \in Part /\ DOMAIN flat[r] \subseteq Id /\ found \subseteq c \cap Id
  BY <1>2, <1>4 DEF SeenInv, AtWork, Ended, Part, TypeOK
<1>6. /\ DOMAIN flat' = Request /\ flat'[r] = Joined(flat[r], p, c)
      /\ \A q \in Request \ {r} : flat'[q] = flat[q]
  BY <1>1 DEF TypeOK
<1>7. /\ todo' \in [Request -> SUBSET Nat] /\ todo'[r] = todo[r] \ c
      /\ \A q \in Request \ {r} : todo'[q] = todo[q]
  BY <1>1 DEF TypeOK
<1>8. /\ DOMAIN flat'[r] = DOMAIN flat[r] \cup found
      /\ \A id \in DOMAIN flat[r] \cup found, q \in Part :
           flat'[r][id][q] = IF q = p /\ id \in c THEN rows[p][id]
                             ELSE IF id \in DOMAIN flat[r] THEN flat[r][id][q] ELSE 0
  BY <1>6 DEF Joined
<1>9. TypeOK'
  <2>1. \A id \in DOMAIN flat[r] \cup found, q \in Part :
          (IF q = p /\ id \in c THEN rows[p][id]
           ELSE IF id \in DOMAIN flat[r] THEN flat[r][id][q] ELSE 0) \in Version
    <3>1. 0 \in Version
      BY FlatReadsAssumption DEF Version
    <3>2. \A id \in DOMAIN flat[r] \cup found : rows[p][id] \in Version
      BY <1>3, <1>5 DEF TypeOK
    <3>3. \A id \in DOMAIN flat[r], q \in Part : flat[r][id][q] \in Version
      BY DEF TypeOK, Flat
    <3> QED BY <3>1, <3>2, <3>3
  <2>2. Joined(flat[r], p, c) \in [DOMAIN flat[r] \cup found -> Flat]
    BY <2>1 DEF Joined, Flat
  <2>3. flat'[r] \in [DOMAIN flat'[r] -> Flat] /\ DOMAIN flat'[r] \subseteq Id
    BY <1>5, <1>6, <1>8, <2>2
  <2>4. \A q \in Request : flat'[q] \in [DOMAIN flat'[q] -> Flat] /\ DOMAIN flat'[q] \subseteq Id
    BY <1>6, <2>3 DEF TypeOK
  <2> QED BY <1>2, <1>6, <1>7, <2>4 DEF TypeOK
<1>10. \A q \in Request \ {r} : Untouched(q)
  BY <1>2, <1>6, <1>7 DEF Untouched
<1>11. Alive(r)' = Alive(r)
  BY <1>2 DEF Alive
<1>12. SeenInv(r)' /\ PlanInv(r)' /\ ResultsInv(r)'
  BY <1>2, <1>4 DEF SeenInv, PlanInv, ResultsInv, IsCurrent, AtWork, Ended
<1>13. AskedInv(r)'
  BY <1>2, <1>4, <1>5, <1>7, <1>8, <1>11 DEF AskedInv
<1>14. FlatInv(r)'
  <2>1. stage[r] = 1 => DOMAIN flat[r] \cap todo[r] = {}
    BY <1>2, <1>4 DEF FlatInv
  <2>2. ASSUME NEW id \in DOMAIN flat'[r]
        PROVE  flat'[r][id]["row"] # 0
    <3>1. CASE id \in DOMAIN flat[r]
      <4>1. ~(p = "row" /\ id \in c)
        BY <1>3, <2>1, <3>1
      <4> QED BY <1>4, <1>5, <1>8, <3>1, <4>1 DEF FlatInv
    <3>2. CASE id \in found
      <4>1. p = "row" /\ id \in c /\ Exists(id)
        BY <3>2
      <4> QED BY <1>5, <1>8, <3>2, <4>1 DEF Exists
    <3> QED BY <1>8, <2>2, <3>1, <3>2
  <2>3. ASSUME NEW id \in DOMAIN flat'[r], NEW n \in DOMAIN Parts, HasRead(r, id, n)'
        PROVE  flat'[r][id][Parts[n]] \in seen[r][Parts[n]][id]
    <3>1. id \in DOMAIN flat[r] \cup found /\ id \in Id /\ Parts[n] \in Part
      BY <1>3, <1>5, <1>8
    <3>2. n < stage[r] \/ (n = stage[r] /\ id \notin todo[r] \ c)
      BY <1>2, <1>7, <2>3 DEF HasRead
    <3>3. CASE Parts[n] = p /\ id \in c
      BY <1>5, <1>8, <3>1, <3>3
    <3>4. CASE ~(Parts[n] = p /\ id \in c) /\ id \in DOMAIN flat[r]
      <4>1. HasRead(r, id, n)
        BY <1>2, <3>2, <3>4 DEF HasRead
      <4>2. flat[r][id][Parts[n]] \in seen[r][Parts[n]][id]
        BY <1>2, <1>4, <3>4, <4>1 DEF FlatInv
      <4> QED BY <1>8, <3>1, <3>4, <4>2
    <3>5. CASE ~(Parts[n] = p /\ id \in c) /\ id \in found
      <4>1. stage[r] = 1 /\ id \in c
        BY <1>3, <3>5
      <4>2. n \in 1 .. Len(Parts) /\ Len(Parts) \in Nat
        BY PartsCover
      <4>3. n = 1
        BY <3>2, <4>1, <4>2
      <4> QED BY <3>5, <4>1, <4>3
    <3> QED BY <3>1, <3>3, <3>4, <3>5
  <2>4. stage[r] = 1 => DOMAIN flat'[r] \cap todo'[r] = {}
    BY <1>5, <1>7, <1>8, <2>1
  <2>5. pc'[r] = "read" /\ stage' = stage /\ seen' = seen
    BY <1>2
  <2> QED BY <2>2, <2>3, <2>4, <2>5 DEF FlatInv
<1>15. KeptInv(r)'
  <2>1. ASSUME NEW id \in Alive(r) \cap Elems(asked[r])
        PROVE  \/ id \in DOMAIN results[r] \cup DOMAIN flat'[r]
               \/ stage[r] = 1 /\ id \in todo'[r]
    <3>1. id \in Id /\ Exists(id)
      BY <1>5 DEF Alive, Exists
    <3>2. \/ id \in DOMAIN results[r] \cup DOMAIN flat[r]
          \/ stage[r] = 1 /\ id \in todo[r]
      BY <1>2, <1>4 DEF KeptInv
    <3>3. stage[r] = 1 /\ id \in c => id \in found
      BY <1>3, <3>1
    <3> QED BY <1>7, <1>8, <3>2, <3>3
  <2> QED BY <1>2, <1>11, <2>1 DEF KeptInv
<1> QED BY <1>9, <1>10, <1>12, <1>13, <1>14, <1>15 DEF RequestInv

LEMMA NextTableKeeps ==
    ASSUME FlatReadsInv, NEW r \in Request, NextTable(r)
    PROVE  TypeOK' /\ RequestInv(r)' /\ \A q \in Request \ {r} : Untouched(q)
<1> USE DEF FlatReadsInv
<1>1. /\ pc[r] = "read" /\ todo[r] = {} /\ stage[r] < Len(Parts)
      /\ stage' = [stage EXCEPT ![r] = @ + 1]
      /\ todo' = [todo EXCEPT ![r] = DOMAIN flat[r]]
      /\ UNCHANGED <<rows, clock, lastId, cache, pc, asked, bypass, listing, limit, queue,
                     flat, results, hits, seen>>
  BY DEF NextTable, db, plan, answer
<1>2. /\ DOMAIN flat[r] \subseteq Nat /\ stage[r] \in 1 .. Len(Parts)
      /\ stage[r] \in Nat \ {0} /\ stage[r] + 1 \in 1 .. Len(Parts)
  <2>1. Id \subseteq Nat /\ Len(Parts) \in Nat
    BY FlatReadsAssumption, PartsCover DEF Id
  <2> QED BY <1>1, <2>1 DEF TypeOK
<1>3. /\ stage'[r] = stage[r] + 1 /\ todo'[r] = DOMAIN flat[r]
      /\ \A q \in Request \ {r} : stage'[q] = stage[q] /\ todo'[q] = todo[q]
  BY <1>1 DEF TypeOK
<1>4. TypeOK'
  <2>1. stage' \in [Request -> 1 .. Len(Parts)] /\ todo' \in [Request -> SUBSET Nat]
    BY <1>1, <1>2 DEF TypeOK
  <2> QED BY <1>1, <2>1 DEF TypeOK
<1>5. \A q \in Request \ {r} : Untouched(q)
  BY <1>1, <1>3 DEF Untouched
<1>6. /\ SeenInv(r) /\ PlanInv(r) /\ AskedInv(r) /\ FlatInv(r) /\ KeptInv(r) /\ ResultsInv(r)
  BY DEF RequestInv
<1>7. Alive(r)' = Alive(r)
  BY <1>1 DEF Alive
<1>8. SeenInv(r)' /\ PlanInv(r)' /\ ResultsInv(r)'
  BY <1>1, <1>6 DEF SeenInv, PlanInv, ResultsInv, IsCurrent, AtWork, Ended
<1>9. AskedInv(r)'
  BY <1>1, <1>3, <1>6, <1>7 DEF AskedInv
<1>10. FlatInv(r)'
  <2>1. \A id \in DOMAIN flat[r], n \in DOMAIN Parts : HasRead(r, id, n)' => HasRead(r, id, n)
    <3>1. \A n \in DOMAIN Parts : n < stage[r] + 1 => n < stage[r] \/ n = stage[r]
      BY <1>2, PartsCover
    <3> QED BY <1>1, <1>3, <3>1 DEF HasRead
  <2>2. stage'[r] # 1
    BY <1>2, <1>3
  <2> QED BY <1>1, <1>6, <2>1, <2>2 DEF FlatInv
<1>11. KeptInv(r)'
  BY <1>1, <1>6, <1>7 DEF KeptInv
<1> QED BY <1>4, <1>5, <1>8, <1>9, <1>10, <1>11 DEF RequestInv

LEMMA AllReadKeeps ==
    ASSUME FlatReadsInv, NEW r \in Request, AllRead(r)
    PROVE  TypeOK' /\ RequestInv(r)' /\ \A q \in Request \ {r} : Untouched(q)
<1> USE DEF FlatReadsInv
<1>1. /\ pc[r] = "read" /\ todo[r] = {} /\ stage[r] = Len(Parts)
      /\ pc' = [pc EXCEPT ![r] = "put"]
      /\ todo' = [todo EXCEPT ![r] = DOMAIN flat[r]]
      /\ UNCHANGED <<rows, clock, lastId, cache, asked, bypass, listing, limit, queue, stage,
                     flat, results, hits, seen>>
  BY DEF AllRead, Goto, db, plan, answer
<1>2. DOMAIN flat[r] \subseteq Nat
  BY FlatReadsAssumption DEF TypeOK, Id
<1>3. /\ pc'[r] = "put" /\ todo'[r] = DOMAIN flat[r]
      /\ \A q \in Request \ {r} : pc'[q] = pc[q] /\ todo'[q] = todo[q]
  BY <1>1 DEF TypeOK
<1>4. TypeOK'
  <2>1. /\ pc' \in [Request -> Ended \cup {"find", "probe", "read", "put"}]
        /\ todo' \in [Request -> SUBSET Nat]
    BY <1>1, <1>2 DEF TypeOK
  <2> QED BY <1>1, <2>1 DEF TypeOK
<1>5. \A q \in Request \ {r} : Untouched(q)
  BY <1>1, <1>3 DEF Untouched
<1>6. /\ SeenInv(r) /\ PlanInv(r) /\ AskedInv(r) /\ FlatInv(r) /\ KeptInv(r) /\ ResultsInv(r)
  BY DEF RequestInv
<1>7. Alive(r)' = Alive(r)
  BY <1>1 DEF Alive
<1>8. SeenInv(r)' /\ PlanInv(r)' /\ ResultsInv(r)'
  BY <1>1, <1>3, <1>6 DEF SeenInv, PlanInv, ResultsInv, IsCurrent, AtWork, Ended
<1>9. AskedInv(r)'
  BY <1>1, <1>3, <1>6, <1>7 DEF AskedInv
<1>10. FlatInv(r)'
  <2>1. \A id \in DOMAIN flat[r], n \in DOMAIN Parts : HasRead(r, id, n)
    <3>1. \A n \in DOMAIN Parts : n < stage[r] \/ n = stage[r]
      BY <1>1, PartsCover
    <3> QED BY <1>1, <3>1 DEF HasRead
  <2> QED BY <1>1, <1>3, <1>6, <2>1 DEF FlatInv
<1>11. KeptInv(r)'
  BY <1>1, <1>3, <1>6, <1>7 DEF KeptInv
<1> QED BY <1>4, <1>5, <1>8, <1>9, <1>10, <1>11 DEF RequestInv

-----------------------------------------------------------------------------
(* Answering. *)

LEMMA PutKeeps ==
    ASSUME FlatReadsInv, NEW r \in Request, Put(r)
    PROVE  /\ TypeOK' /\ RequestInv(r)' /\ \A q \in Request \ {r} : Untouched(q)
           /\ CacheNamesItsProduct'
<1> USE DEF FlatReadsInv
<1>1. PICK id \in todo[r] :
        /\ cache' = IF bypass[r] THEN cache ELSE With(cache, id, flat[r][id])
        /\ results' = [results EXCEPT ![r] = With(results[r], id, flat[r][id])]
        /\ hits' = [hits EXCEPT ![r] = @ \ {id}]
        /\ todo' = [todo EXCEPT ![r] = @ \ {id}]
  BY DEF Put
<1>2. /\ pc[r] = "put"
      /\ UNCHANGED <<rows, clock, lastId, pc, asked, bypass, listing, limit, queue, stage,
                     flat, seen>>
  BY DEF Put, db, plan
<1>3. /\ SeenInv(r) /\ PlanInv(r) /\ AskedInv(r) /\ FlatInv(r) /\ KeptInv(r) /\ ResultsInv(r)
  BY DEF RequestInv
<1>4. id \in DOMAIN flat[r] /\ id \in Id /\ flat[r][id] \in Flat /\ flat[r][id]["row"] # 0
  BY <1>2, <1>3 DEF FlatInv, TypeOK
<1>5. IsCurrent(r, id, flat[r][id])
  <2>1. ASSUME NEW p \in Part
        PROVE  flat[r][id][p] \in seen[r][p][id]
    <3>1. PICK n \in DOMAIN Parts : Parts[n] = p
      BY PartsCover
    <3> QED BY <1>2, <1>3, <1>4, <3>1 DEF FlatInv, HasRead
  <2> QED BY <2>1 DEF IsCurrent
<1>6. /\ DOMAIN results' = Request /\ results'[r] = With(results[r], id, flat[r][id])
      /\ \A q \in Request \ {r} : results'[q] = results[q]
  BY <1>1 DEF TypeOK
<1>7. /\ DOMAIN results'[r] = DOMAIN results[r] \cup {id}
      /\ \A k \in DOMAIN results'[r] :
           results'[r][k] = IF k = id THEN flat[r][id] ELSE results[r][k]
  BY <1>6 DEF With
<1>8. /\ hits' \in [Request -> SUBSET Id] /\ hits'[r] = hits[r] \ {id}
      /\ \A q \in Request \ {r} : hits'[q] = hits[q]
  BY <1>1 DEF TypeOK
<1>9. /\ todo' \in [Request -> SUBSET Nat] /\ todo'[r] = todo[r] \ {id}
      /\ \A q \in Request \ {r} : todo'[q] = todo[q]
  BY <1>1 DEF TypeOK
<1>10. /\ DOMAIN cache' \subseteq DOMAIN cache \cup {id}
       /\ cache' \in [DOMAIN cache' -> Flat]
       /\ \A k \in DOMAIN cache' : \/ k \in DOMAIN cache /\ cache'[k] = cache[k]
                                   \/ k = id /\ cache'[k] = flat[r][id]
  <2>1. CASE bypass[r]
    BY <1>1, <2>1 DEF TypeOK
  <2>2. CASE ~bypass[r]
    <3>1. cache' = With(cache, id, flat[r][id])
      BY <1>1, <2>2
    <3>2. cache \in [DOMAIN cache -> Flat]
      BY DEF TypeOK
    <3> QED BY <1>4, <3>1, <3>2 DEF With
  <2> QED BY <2>1, <2>2
<1>11. TypeOK'
  <2>1. results'[r] \in [DOMAIN results'[r] -> Flat] /\ DOMAIN results'[r] \subseteq Id
    <3>1. results[r] \in [DOMAIN results[r] -> Flat] /\ DOMAIN results[r] \subseteq Id
      BY DEF TypeOK
    <3> QED BY <1>4, <1>6, <3>1 DEF With
  <2>2. \A q \in Request : /\ results'[q] \in [DOMAIN results'[q] -> Flat]
                           /\ DOMAIN results'[q] \subseteq Id
    BY <1>6, <2>1 DEF TypeOK
  <2>3. DOMAIN cache' \subseteq Id /\ cache' \in [DOMAIN cache' -> Flat]
    BY <1>4, <1>10 DEF TypeOK
  <2> QED BY <1>2, <1>6, <1>8, <1>9, <2>2, <2>3 DEF TypeOK
<1>12. \A q \in Request \ {r} : Untouched(q)
  BY <1>2, <1>6, <1>8, <1>9 DEF Untouched
<1>13. Alive(r)' = Alive(r)
  BY <1>2 DEF Alive
<1>14. SeenInv(r)'
  BY <1>2, <1>3 DEF SeenInv, AtWork, Ended
<1>15. PlanInv(r)'
  BY <1>2, <1>3, <1>8 DEF PlanInv
<1>16. AskedInv(r)'
  BY <1>2, <1>3, <1>7, <1>9, <1>13 DEF AskedInv
<1>17. FlatInv(r)'
  <2>1. \A k \in DOMAIN flat[r], n \in DOMAIN Parts : HasRead(r, k, n)' => HasRead(r, k, n)
    BY <1>2 DEF HasRead
  <2> QED BY <1>2, <1>3, <1>9, <2>1 DEF FlatInv
<1>18. KeptInv(r)'
  BY <1>2, <1>3, <1>7, <1>9, <1>13 DEF KeptInv
<1>19. ResultsInv(r)'
  BY <1>2, <1>3, <1>5, <1>7, <1>8 DEF ResultsInv, IsCurrent
<1>20. CacheNamesItsProduct'
  <2> SUFFICES ASSUME NEW k \in DOMAIN cache'
               PROVE  \E q \in Request : cache'[k]["row"] # 0 /\ IsCurrent(q, k, cache[k])'
    BY DEF CacheNamesItsProduct
  <2>1. CASE k \in DOMAIN cache /\ cache'[k] = cache[k]
    <3>1. PICK q \in Request : cache[k]["row"] # 0 /\ IsCurrent(q, k, cache[k])
      BY <2>1 DEF CacheNamesItsProduct
    <3> QED BY <1>2, <2>1, <3>1 DEF IsCurrent
  <2>2. CASE k = id /\ cache'[k] = flat[r][id]
    BY <1>2, <1>4, <1>5, <2>2 DEF IsCurrent
  <2> QED BY <1>10, <2>1, <2>2
<1> QED BY <1>11, <1>12, <1>14, <1>15, <1>16, <1>17, <1>18, <1>19, <1>20 DEF RequestInv

LEMMA EndKeeps ==
    ASSUME FlatReadsInv, NEW r \in Request, Answer(r) \/ Fails(r)
    PROVE  TypeOK' /\ RequestInv(r)' /\ \A q \in Request \ {r} : Untouched(q)
<1> USE DEF FlatReadsInv
<1>1. /\ \/ pc[r] = "put" /\ todo[r] = {} /\ pc' = [pc EXCEPT ![r] = "ok"]
         \/ pc[r] \in {"find", "read"} /\ pc' = [pc EXCEPT ![r] = "failed"]
      /\ UNCHANGED <<rows, clock, lastId, cache, asked, bypass, listing, limit, queue, stage,
                     todo, flat, results, hits, seen>>
  BY DEF Answer, Fails, Goto, db, request, plan, work, answer
<1>2. /\ \/ pc[r] = "put" /\ todo[r] = {} /\ pc'[r] = "ok"
         \/ pc'[r] = "failed"
      /\ pc' \in [Request -> Ended \cup {"find", "probe", "read", "put"}]
      /\ \A q \in Request \ {r} : pc'[q] = pc[q]
  BY <1>1 DEF TypeOK, Ended
<1>3. TypeOK'
  BY <1>1, <1>2 DEF TypeOK
<1>4. \A q \in Request \ {r} : Untouched(q)
  BY <1>1, <1>2 DEF Untouched
<1>5. /\ SeenInv(r) /\ PlanInv(r) /\ AskedInv(r) /\ FlatInv(r) /\ KeptInv(r) /\ ResultsInv(r)
  BY DEF RequestInv
<1>6. Alive(r)' = Alive(r)
  BY <1>1 DEF Alive
<1>7. SeenInv(r)' /\ PlanInv(r)' /\ ResultsInv(r)'
  BY <1>1, <1>2, <1>5 DEF SeenInv, PlanInv, ResultsInv, IsCurrent, AtWork, Ended
<1>8. AskedInv(r)'
  BY <1>1, <1>2, <1>5, <1>6 DEF AskedInv
<1>9. FlatInv(r)'
  BY <1>1, <1>2, <1>5 DEF FlatInv
<1>10. KeptInv(r)'
  BY <1>1, <1>2, <1>5, <1>6 DEF KeptInv
<1> QED BY <1>3, <1>4, <1>7, <1>8, <1>9, <1>10 DEF RequestInv

-----------------------------------------------------------------------------
(* The invariant. *)

LEMMA InitInv == Init => FlatReadsInv
<1> SUFFICES ASSUME Init
             PROVE  FlatReadsInv
  OBVIOUS
<1> USE DEF Init
<1>1. DOMAIN NoProduct = {} /\ NoProduct \in [{} -> Flat]
  BY DEF NoProduct
<1>2. 0 \in Version /\ 0 \in 0 .. MaxId /\ 1 \in 1 .. Len(Parts)
  BY FlatReadsAssumption, SecondPart, PartsCover DEF Version
<1>3. TypeOK
  <2>1. rows \in [Part -> [Id -> Version]]
    BY <1>2
  <2>2. seen \in [Request -> [Part -> [Id -> SUBSET Version]]]
    OBVIOUS
  <2>3. \A r \in Request : flat[r] = NoProduct /\ results[r] = NoProduct
    OBVIOUS
  <2>4. <<>> \in Seq(Nat)
    OBVIOUS
  <2> QED BY <1>1, <1>2, <2>1, <2>2, <2>3, <2>4 DEF TypeOK, Ended
<1>4. ASSUME NEW r \in Request
      PROVE  RequestInv(r)
  <2>1. DOMAIN flat[r] = {} /\ DOMAIN results[r] = {} /\ pc[r] = "idle" /\ hits[r] = {}
    BY <1>1
  <2>2. SeenInv(r) /\ PlanInv(r)
    BY <1>1, <2>1 DEF SeenInv, PlanInv, AtWork, Ended
  <2>3. AskedInv(r)
    BY <2>1 DEF AskedInv, Elems
  <2>4. FlatInv(r) /\ KeptInv(r) /\ ResultsInv(r)
    BY <2>1 DEF FlatInv, KeptInv, ResultsInv
  <2> QED BY <2>2, <2>3, <2>4 DEF RequestInv
<1>5. CacheNamesItsProduct
  BY <1>1 DEF CacheNamesItsProduct
<1> QED BY <1>3, <1>4, <1>5 DEF FlatReadsInv

\* What a step of one request keeps, all requests and the cache keep.
LEMMA StepKeeps ==
    ASSUME FlatReadsInv, NEW r \in Request, TypeOK', RequestInv(r)',
           \A q \in Request \ {r} : Untouched(q), UNCHANGED rows,
           CacheNamesItsProduct'
    PROVE  FlatReadsInv'
<1>1. \A q \in Request : RequestInv(q)'
  BY UntouchedKeeps DEF FlatReadsInv
<1> QED BY <1>1 DEF FlatReadsInv

LEMMA NextInv == FlatReadsInv /\ [Next]_vars => FlatReadsInv'
<1> SUFFICES ASSUME FlatReadsInv, [Next]_vars
             PROVE  FlatReadsInv'
  OBVIOUS
<1>1. TypeOK /\ CacheNamesItsProduct
  BY DEF FlatReadsInv
<1>2. ASSUME Create \/ \E id \in Id : Delete(id) \/ \E p \in Part : Write(p, id)
      PROVE  FlatReadsInv'
  <2>1. /\ \E new \in [Part -> [Id -> Version]] : Written(new)
        /\ lastId' \in 0 .. MaxId
    BY <1>1, <1>2, WriterStep
  <2>2. PICK new \in [Part -> [Id -> Version]] : Written(new)
    BY <2>1
  <2>3. TypeOK'
    BY <1>1, <2>1, <2>2, WrittenType
  <2>4. SeenGrows /\ \A r \in Request : RequestInv(r)'
    BY <1>1, <2>2, WrittenKeeps DEF FlatReadsInv
  <2>5. CacheNamesItsProduct'
    BY <1>1, <2>2, <2>4, CacheKept DEF Written
  <2> QED BY <2>3, <2>4, <2>5 DEF FlatReadsInv
<1>3. ASSUME NEW r \in Request, \E lim \in Limits : StartList(r, lim)
      PROVE  FlatReadsInv'
  <2>1. TypeOK' /\ SeenGrows /\ RequestInv(r)' /\ \A q \in Request \ {r} : Untouched(q)
    BY <1>3, StartListKeeps
  <2>2. UNCHANGED <<rows, cache>>
    BY <1>3 DEF StartList, db
  <2>3. CacheNamesItsProduct'
    BY <1>1, <2>1, <2>2, CacheKept
  <2> QED BY <2>1, <2>2, <2>3, StepKeeps
<1>4. ASSUME NEW r \in Request, \E ids \in IdLists : StartByIds(r, ids)
      PROVE  FlatReadsInv'
  <2>1. TypeOK' /\ SeenGrows /\ RequestInv(r)' /\ \A q \in Request \ {r} : Untouched(q)
    BY <1>4, StartByIdsKeeps
  <2>2. UNCHANGED <<rows, cache>>
    BY <1>4 DEF StartByIds, db
  <2>3. CacheNamesItsProduct'
    BY <1>1, <2>1, <2>2, CacheKept
  <2> QED BY <2>1, <2>2, <2>3, StepKeeps
<1>5. ASSUME NEW r \in Request, Put(r)
      PROVE  FlatReadsInv'
  <2>1. rows' = rows
    BY <1>5 DEF Put, db
  <2> QED BY <1>5, <2>1, PutKeeps, StepKeeps
<1>6. ASSUME NEW r \in Request,
             \/ FindAll(r) \/ Probe(r) \/ Probed(r) \/ Read(r) \/ NextTable(r) \/ AllRead(r)
             \/ Answer(r) \/ Fails(r)
      PROVE  FlatReadsInv'
  <2>1. TypeOK' /\ RequestInv(r)' /\ \A q \in Request \ {r} : Untouched(q)
    BY <1>6, FindAllKeeps, ProbeKeeps, ProbedKeeps, ReadKeeps, NextTableKeeps, AllReadKeeps,
       EndKeeps
  <2>2. UNCHANGED <<rows, cache, seen>>
    BY <1>6 DEF FindAll, Probe, Probed, Read, NextTable, AllRead, Answer, Fails, db
  <2>3. CacheNamesItsProduct'
    BY <1>1, <2>2, CacheKept DEF SeenGrows
  <2> QED BY <2>1, <2>2, <2>3, StepKeeps
<1>7. ASSUME UNCHANGED vars
      PROVE  FlatReadsInv'
  <2>1. UNCHANGED rows /\ SeenGrows /\ \A r \in Request : Untouched(r)
    BY <1>7 DEF vars, SeenGrows, Untouched
  <2>2. TypeOK'
    BY <1>1, <1>7 DEF vars, TypeOK
  <2>3. CacheNamesItsProduct'
    BY <1>1, <1>7, <2>1, CacheKept DEF vars
  <2>4. \A r \in Request : RequestInv(r)'
    BY <2>1, UntouchedKeeps DEF FlatReadsInv
  <2> QED BY <2>2, <2>3, <2>4 DEF FlatReadsInv
<1> QED BY <1>2, <1>3, <1>4, <1>5, <1>6, <1>7 DEF Next, Serve

LEMMA InvHolds == Spec => []FlatReadsInv
BY InitInv, NextInv, PTL DEF Spec

-----------------------------------------------------------------------------
(* The theorems. *)

\* The variables of FlatReads keep their types.
THEOREM FlatReadsTypes == Spec => []TypeOK
<1>1. FlatReadsInv => TypeOK
  BY DEF FlatReadsInv
<1> QED BY <1>1, InvHolds, PTL

\* Whatever the requests, the writers and the failures do, each part of an
\* answered product that did not come from the FlatCache was in the database
\* at some moment of the request, and a page with a limit takes nothing from
\* the cache.
THEOREM AnswersCurrent == Spec => []AnswersAreCurrent
<1>1. FlatReadsInv => AnswersAreCurrent
  BY DEF FlatReadsInv, RequestInv, ResultsInv, PlanInv, AnswersAreCurrent
<1> QED BY <1>1, InvHolds, PTL

\* No product that exists from the start of a request to its end is lost
\* between the probes of the cache, the chunks of ids and the tables, however
\* long the lists are and however few ids a SELECT takes; and a list names no
\* product that never existed during the request.
THEOREM AnswersComplete == Spec => []AnswersAreComplete
<1>1. ASSUME FlatReadsInv, NEW r \in Request, pc[r] = "ok"
      PROVE  /\ Alive(r) \cap Elems(asked[r]) \subseteq DOMAIN results[r]
             /\ r \in listing =>
                  /\ \/ limit[r] > 0 /\ Len(asked[r]) = limit[r]
                     \/ Alive(r) \subseteq Elems(asked[r])
                  /\ DOMAIN results[r] \cap {id \in Id : seen[r]["row"][id] = {0}} = {}
  BY <1>1 DEF FlatReadsInv, RequestInv, KeptInv, AskedInv
<1>2. FlatReadsInv => AnswersAreComplete
  BY <1>1 DEF AnswersAreComplete, Alive
<1> QED BY <1>2, InvHolds, PTL

\* However many requests put products into the cache at once, and in whatever
\* order, an entry is a product that existed, under its own id, put together
\* of parts that were all in the database during one and the same request.
THEOREM CacheIsRight == Spec => []CacheNamesItsProduct
<1>1. FlatReadsInv => CacheNamesItsProduct
  BY DEF FlatReadsInv
<1> QED BY <1>1, InvHolds, PTL
=============================================================================
