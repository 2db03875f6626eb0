-------------------------- MODULE ImportRunProofs --------------------------
EXTENDS ImportRun, FiniteSetTheorems, WellFoundedInduction, TLAPS

LEMMA LeastExists ==
    ASSUME NEW T \in SUBSET Nat, T # {}
    PROVE  \E x \in T : \A y \in T : x <= y
<1>1. PICK x \in T : \A y \in T : ~ (<<y, x>> \in OpToRel(<, Nat))
  BY NatLessThanWellFounded, WFMin, Zenon
<1>2. \A y \in T : <<y, x>> \in OpToRel(<, Nat) <=> y < x
  BY Zenon DEF OpToRel
<1>3. \A y \in T : ~ (y < x)
  BY <1>1, <1>2, Zenon
<1> QED BY <1>3

\* A set of numbers with an upper bound has a last element.
LEMMA LastExists ==
    ASSUME NEW n \in Nat, NEW L \in SUBSET (1 .. n), L # {}
    PROVE  Last(L) \in L /\ \A m \in L : m <= Last(L)
<1> DEFINE T == {n - m : m \in L}
<1>1. T \in SUBSET Nat /\ T # {}
  <2>1. \A m \in L : n - m \in Nat
    OBVIOUS
  <2>2. PICK m \in L : TRUE
    OBVIOUS
  <2>3. n - m \in T
    OBVIOUS
  <2> QED BY <2>1, <2>3
<1>2. PICK x \in T : \A y \in T : x <= y
  BY <1>1, LeastExists
<1>4. PICK m \in L : x = n - m
  OBVIOUS
<1>5. \A k \in L : k <= m
  BY <1>2, <1>4
<1> QED BY <1>4, <1>5 DEF Last
-----------------------------------------------------------------------------
(* The operators of ImportRows. *)

LEMMA UpsertType ==
    \A S, f, g :
        f \in [DOMAIN f -> S] /\ g \in [DOMAIN g -> S] =>
            /\ DOMAIN Upsert(f, g) = DOMAIN f \cup DOMAIN g
            /\ Upsert(f, g) \in [DOMAIN Upsert(f, g) -> S]
BY DEF Upsert

LEMMA CsvType ==
    ASSUME NEW i \in Import
    PROVE  /\ Csv[i] \in Seq(Row)
           /\ Len(Csv[i]) \in Nat
           /\ DOMAIN Csv[i] = 1 .. Len(Csv[i])
           /\ \A n \in DOMAIN Csv[i] : Csv[i][n] \in Row
BY ImportDataAssumption

LEMMA SkuSets ==
    ASSUME NEW i \in Import
    PROVE  /\ PrimarySkus(i) \in SUBSET Sku
           /\ LookupSkus(i) \in SUBSET Sku
           /\ PrimarySkus(i) \subseteq LookupSkus(i)
<1>1. PrimarySkus(i) \in SUBSET Sku
  BY CsvType DEF PrimarySkus, Row
<1>2. Refs[i] \in SUBSET Sku
  BY ImportDataAssumption
<1> QED BY <1>1, <1>2 DEF LookupSkus

LEMMA CardinalityOfSkus ==
    ASSUME NEW c \in SUBSET Sku
    PROVE  Cardinality(c) \in Nat
BY ImportDataAssumption, FS_Subset, FS_CardinalityType

\* The rows of a set of lines are well-typed: each key has a last line.
LEMMA UpsertRowsType ==
    ASSUME NEW i \in Import, NEW t \in Table, NEW m, NEW L \in SUBSET Lines(i, t, m)
    PROVE  /\ DOMAIN UpsertRows(i, t, L, m) = Keys(i, L, m)
           /\ UpsertRows(i, t, L, m) \in [Keys(i, L, m) -> Value]
<1>1. SUFFICES ASSUME NEW k \in Keys(i, L, m)
      PROVE  Csv[i][Last({n \in L : KeyOf(i, n, m) = k})].cell[t] \in Value
  BY DEF UpsertRows
<1> DEFINE K == {n \in L : KeyOf(i, n, m) = k}
<1>2. L \in SUBSET (1 .. Len(Csv[i]))
  BY CsvType DEF Lines
<1>3. K # {} /\ K \in SUBSET (1 .. Len(Csv[i]))
  BY <1>2 DEF Keys
<1>4. Last(K) \in L
  BY <1>3, LastExists, CsvType
<1>5. Csv[i][Last(K)] \in Row /\ Csv[i][Last(K)].cell[t] # NoValue
  BY <1>4, CsvType DEF Lines
<1> QED BY <1>5 DEF Row
-----------------------------------------------------------------------------
(* Type correctness. *)

LEMMA PrepareType ==
    ASSUME TypeOK, NEW i \in Import, Prepare(i) \/ PrepareFails(i)
    PROVE  TypeOK'
<1> USE DEF db, prep, tasks
<1>1. CASE Start(i)
  BY <1>1, SkuSets DEF TypeOK, Start, Running, Preparing
<1>2. CASE LookupChunk(i)
  <2>1. PICK c \in SUBSET pending[i] :
          /\ \E f \in [{s \in c : \E id \in DOMAIN entity : entity[id] = s}
                         -> DOMAIN entity] :
               ids' = [ids EXCEPT ![i] = Upsert(@, f)]
          /\ pending' = [pending EXCEPT ![i] = @ \ c]
    BY <1>2 DEF LookupChunk
  <2> DEFINE found == {s \in c : \E id \in DOMAIN entity : entity[id] = s}
  <2>2. PICK f \in [found -> DOMAIN entity] : ids' = [ids EXCEPT ![i] = Upsert(@, f)]
    BY <2>1
  <2>3. f \in [DOMAIN f -> Nat] /\ DOMAIN f \subseteq LookupSkus(i)
    <3>1. DOMAIN entity \subseteq 1 .. nextId - 1 /\ nextId \in Nat \ {0}
      BY DEF TypeOK
    <3>2. pending[i] \subseteq LookupSkus(i)
      BY DEF TypeOK
    <3> QED BY <3>1, <3>2
  <2>4. /\ DOMAIN Upsert(ids[i], f) \subseteq LookupSkus(i)
        /\ Upsert(ids[i], f) \in [DOMAIN Upsert(ids[i], f) -> Nat]
    <3>1. ids[i] \in [DOMAIN ids[i] -> Nat] /\ DOMAIN ids[i] \subseteq LookupSkus(i)
      BY DEF TypeOK
    <3> HIDE DEF found
    <3>2. /\ DOMAIN Upsert(ids[i], f) = DOMAIN ids[i] \cup DOMAIN f
          /\ Upsert(ids[i], f) \in [DOMAIN Upsert(ids[i], f) -> Nat]
      BY <2>3, <3>1, UpsertType, Zenon
    <3> QED BY <2>3, <3>1, <3>2
  <2> QED BY <1>2, <2>1, <2>2, <2>4 DEF TypeOK, LookupChunk
<1>3. CASE LookupDone(i)
  <2>1. /\ PrimarySkus(i) \ DOMAIN ids[i] \in SUBSET Sku
        /\ PrimarySkus(i) \ DOMAIN ids[i] \subseteq LookupSkus(i)
        /\ PrimarySkus(i) \cap DOMAIN ids[i] \in SUBSET Sku
    BY SkuSets
  <2>2. /\ Cardinality(PrimarySkus(i) \ DOMAIN ids[i]) \in Nat
        /\ Cardinality(PrimarySkus(i) \cap DOMAIN ids[i]) \in Nat
    BY <2>1, CardinalityOfSkus
  <2> QED BY <1>3, <2>1, <2>2 DEF TypeOK, LookupDone, Running, Preparing
<1>4. CASE InsertChunk(i)
  <2>0. PICK c \in SUBSET pending[i] :
          /\ \E q \in RowOrders(c) :
               /\ entity' = Upsert(entity,
                    [id \in nextId .. nextId + Cardinality(c) - 1 |-> q[id - nextId + 1]])
               /\ ids' = [ids EXCEPT ![i] = Upsert(@,
                    [s \in c |-> RowId(nextId, CHOOSE p \in DOMAIN q : q[p] = s)])]
          /\ nextId' = nextId + Cardinality(c)
          /\ pending' = [pending EXCEPT ![i] = @ \ c]
    BY <1>4 DEF InsertChunk
  <2>1. PICK q \in RowOrders(c) :
          /\ entity' = Upsert(entity,
               [id \in nextId .. nextId + Cardinality(c) - 1 |-> q[id - nextId + 1]])
          /\ ids' = [ids EXCEPT ![i] = Upsert(@,
               [s \in c |-> RowId(nextId, CHOOSE p \in DOMAIN q : q[p] = s)])]
    BY <2>0
  <2>2. /\ Cardinality(c) \in Nat
        /\ q \in [1 .. Cardinality(c) -> c]
        /\ \A s \in c : \E p \in DOMAIN q : q[p] = s
    BY CardinalityOfSkus
       DEF TypeOK, RowOrders, Bijection, Injection, Surjection
  <2> DEFINE rows == [id \in nextId .. nextId + Cardinality(c) - 1 |-> q[id - nextId + 1]]
             new  == [s \in c |-> RowId(nextId, CHOOSE p \in DOMAIN q : q[p] = s)]
  <2>3. rows \in [DOMAIN rows -> Sku] /\ DOMAIN rows = nextId .. nextId + Cardinality(c) - 1
    BY <2>2 DEF TypeOK
  <2>4. new \in [DOMAIN new -> Nat] /\ DOMAIN new = c
    BY <2>2 DEF TypeOK, RowId
  <2>5. /\ DOMAIN Upsert(ids[i], new) \subseteq LookupSkus(i)
        /\ Upsert(ids[i], new) \in [DOMAIN Upsert(ids[i], new) -> Nat]
    <3>1. /\ ids[i] \in [DOMAIN ids[i] -> Nat] /\ DOMAIN ids[i] \subseteq LookupSkus(i)
          /\ c \subseteq LookupSkus(i)
      BY DEF TypeOK
    <3> HIDE DEF new
    <3>2. /\ DOMAIN Upsert(ids[i], new) = DOMAIN ids[i] \cup DOMAIN new
          /\ Upsert(ids[i], new) \in [DOMAIN Upsert(ids[i], new) -> Nat]
      BY <2>4, <3>1, UpsertType, Zenon
    <3> QED BY <2>4, <3>1, <3>2
  <2>6. /\ DOMAIN entity' \subseteq 1 .. nextId' - 1
        /\ entity' \in [DOMAIN entity' -> Sku]
        /\ nextId' \in Nat \ {0}
    <3>1. /\ entity \in [DOMAIN entity -> Sku] /\ DOMAIN entity \subseteq 1 .. nextId - 1
          /\ nextId \in Nat \ {0}
      BY DEF TypeOK
    <3>2. entity' = Upsert(entity, rows)
      BY <2>1
    <3> HIDE DEF rows
    <3>3. /\ DOMAIN Upsert(entity, rows) = DOMAIN entity \cup DOMAIN rows
          /\ Upsert(entity, rows) \in [DOMAIN Upsert(entity, rows) -> Sku]
      BY <2>3, <3>1, UpsertType, Zenon
    <3>4. DOMAIN entity' = DOMAIN entity \cup DOMAIN rows
      BY <3>2, <3>3
    <3>5. nextId' = nextId + Cardinality(c)
      BY <2>0
    <3>6. DOMAIN entity' \subseteq 1 .. nextId' - 1
      BY <2>2, <2>3, <3>1, <3>4, <3>5
    <3> QED BY <2>2, <3>1, <3>2, <3>3, <3>5, <3>6
  <2> QED BY <1>4, <2>0, <2>1, <2>5, <2>6 DEF TypeOK, InsertChunk
<1>5. CASE InsertTaken(i)
  <2>1. PICK c \in SUBSET pending[i] : nextId' = nextId + Cardinality(c)
    BY <1>5 DEF InsertTaken
  <2>2. Cardinality(c) \in Nat
    BY CardinalityOfSkus DEF TypeOK
  <2> QED BY <1>5, <2>1, <2>2 DEF TypeOK, InsertTaken, Running, Preparing
<1>6. CASE Collect(i)
  BY <1>6 DEF TypeOK, Collect, Running, Preparing, Holding
<1>7. CASE PrepareFails(i)
  BY <1>7 DEF TypeOK, PrepareFails, Running, Preparing
<1> QED BY <1>1, <1>2, <1>3, <1>4, <1>5, <1>6, <1>7 DEF Prepare

LEMMA FlushType ==
    ASSUME TypeOK, NEW i \in Import, NEW t \in Table,
           \/ Flush(i, t) \/ Ending(i, t)
           \/ TaskFails(i, t) \/ CommitUnacknowledged(i, t)
    PROVE  TypeOK'
<1> USE DEF db, prep, tasks
<1>1. CASE Begin(i, t)
  BY <1>1 DEF TypeOK, Begin, SetTask, Holding
<1>2. CASE SendChunk(i, t)
  <2>1. PICK c \in SUBSET Unsent(i, t) :
          /\ staged' = [staged EXCEPT ![i][t] = Upsert(@, UpsertRows(i, t, c, ids[i]))]
          /\ sent' = [sent EXCEPT ![i][t] = @ \cup c]
    BY <1>2 DEF SendChunk
  <2> DEFINE rows == UpsertRows(i, t, c, ids[i])
  <2>2. c \in SUBSET Lines(i, t, ids[i]) /\ c \subseteq Nat
    BY CsvType DEF Unsent, Lines
  <2>3. rows \in [DOMAIN rows -> Value]
    BY <2>2, UpsertRowsType
  <2>4. staged[i][t] \in [DOMAIN staged[i][t] -> Value]
    BY DEF TypeOK
  <2> HIDE DEF rows
  <2>5. Upsert(staged[i][t], rows) \in [DOMAIN Upsert(staged[i][t], rows) -> Value]
    BY <2>3, <2>4, UpsertType, Zenon
  <2>6. staged' = [staged EXCEPT ![i][t] = Upsert(staged[i][t], rows)]
    BY <2>1 DEF rows, TypeOK
  <2> QED BY <1>2, <2>1, <2>2, <2>5, <2>6 DEF TypeOK, SendChunk
<1>3. CASE SendCommit(i, t)
  BY <1>3 DEF TypeOK, SendCommit, SetTask, Holding
<1>4. CASE Publish(i, t) /\ \E s \in {"ok", "err", "gone"} : SetTask(i, t, s)
  <2>1. /\ table[t] \in [DOMAIN table[t] -> Value]
        /\ staged[i][t] \in [DOMAIN staged[i][t] -> Value]
    BY DEF TypeOK
  <2>2. Upsert(table[t], staged[i][t]) \in [DOMAIN Upsert(table[t], staged[i][t]) -> Value]
    BY <2>1, UpsertType, Zenon
  <2>3. /\ DOMAIN table' = Table
        /\ \A u \in Table : table'[u] = IF u = t THEN Upsert(table[t], staged[i][t])
                                                 ELSE table[u]
    BY <1>4 DEF TypeOK, Publish
  <2>4. \A u \in Table : table'[u] \in [DOMAIN table'[u] -> Value]
    BY <2>2, <2>3 DEF TypeOK
  <2>5. task' \in [Import -> [Table ->
                    Holding \cup {"none", "idle", "ok", "err", "gone"}]]
    BY <1>4 DEF TypeOK, SetTask
  <2>6. applied' \in [Import -> SUBSET Table]
    BY <1>4 DEF TypeOK, Publish
  <2> QED BY <1>4, <2>3, <2>4, <2>5, <2>6 DEF TypeOK, Publish
<1>5. CASE \E s \in {"err", "gone"} : RollBack(i, t, s)
  BY <1>5 DEF TypeOK, RollBack, SetTask, EmptyMap
<1> QED
  BY <1>1, <1>2, <1>3, <1>4, <1>5
     DEF Flush, Ending, Committed, LockRefused, TaskFails, CommitUnacknowledged,
         AbortTask, LateCommit

\* The type invariant of ImportRun, for any imports, files and batch size.
THEOREM TypeCorrect == Spec => []TypeOK
<1>1. Init => TypeOK
  BY SkuSets DEF Init, TypeOK, EmptyMap, Running, Preparing, Holding
<1>2. TypeOK /\ [Next]_vars => TypeOK'
  <2> SUFFICES ASSUME TypeOK, [Next]_vars PROVE TypeOK'
    OBVIOUS
  <2>1. ASSUME NEW i \in Import, Prepare(i) \/ PrepareFails(i) PROVE TypeOK'
    BY <2>1, PrepareType
  <2>2. ASSUME NEW i \in Import, JoinAll(i) \/ JoinError(i) \/ Crash(i) PROVE TypeOK'
    BY <2>2 DEF TypeOK, JoinAll, JoinError, Crash, db, prep, tasks, Running
  <2>3. ASSUME NEW i \in Import, NEW t \in Table,
               \/ Flush(i, t) \/ Ending(i, t)
               \/ TaskFails(i, t) \/ CommitUnacknowledged(i, t)
        PROVE  TypeOK'
    BY <2>3, FlushType
  <2>4. CASE UNCHANGED vars
    BY <2>4 DEF TypeOK, vars
  <2> QED BY <2>1, <2>2, <2>3, <2>4 DEF Next, Fault
<1> QED BY <1>1, <1>2, PTL DEF Spec

-----------------------------------------------------------------------------
(* sku_to_id is right and no row is orphaned.                              *)
(* The rows of a transaction not yet committed are part of the invariant:  *)
(* they are what a COMMIT adds to a table.                                 *)

StagedKnown ==
    \A i \in Import, t \in Table : DOMAIN staged[i][t] \subseteq DOMAIN entity

RowsInv == TypeOK /\ IdsNameTheirSku /\ StagedKnown /\ NoOrphanRow

\* What an INSERT of new entities means for the entities and for sku_to_id.
LEMMA InsertedRows ==
    ASSUME TypeOK, NEW i \in Import, InsertChunk(i)
    PROVE  /\ DOMAIN entity \subseteq DOMAIN entity'
           /\ \A id \in DOMAIN entity : entity'[id] = entity[id]
           /\ DOMAIN ids' = Import
           /\ \A j \in Import \ {i} : ids'[j] = ids[j]
           /\ \A s \in DOMAIN ids'[i] :
                \/ s \in DOMAIN ids[i] /\ ids'[i][s] = ids[i][s]
                \/ ids'[i][s] \in DOMAIN entity' /\ entity'[ids'[i][s]] = s
<1>1. PICK c \in SUBSET pending[i] :
        \E q \in RowOrders(c) :
           /\ entity' = Upsert(entity,
                [id \in nextId .. nextId + Cardinality(c) - 1 |-> q[id - nextId + 1]])
           /\ ids' = [ids EXCEPT ![i] = Upsert(@,
                [s \in c |-> RowId(nextId, CHOOSE p \in DOMAIN q : q[p] = s)])]
  BY DEF InsertChunk
<1>2. PICK q \in RowOrders(c) :
        /\ entity' = Upsert(entity,
             [id \in nextId .. nextId + Cardinality(c) - 1 |-> q[id - nextId + 1]])
        /\ ids' = [ids EXCEPT ![i] = Upsert(@,
             [s \in c |-> RowId(nextId, CHOOSE p \in DOMAIN q : q[p] = s)])]
  BY <1>1
<1>3. /\ Cardinality(c) \in Nat
      /\ q \in [1 .. Cardinality(c) -> c]
      /\ \A s \in c : \E p \in DOMAIN q : q[p] = s
      /\ nextId \in Nat \ {0} /\ DOMAIN entity \subseteq 1 .. nextId - 1
      /\ DOMAIN ids = Import
  BY CardinalityOfSkus
     DEF TypeOK, RowOrders, Bijection, Injection, Surjection
<1> DEFINE rows  == nextId .. nextId + Cardinality(c) - 1
           at(s) == CHOOSE p \in DOMAIN q : q[p] = s
<1>4. /\ DOMAIN entity' = DOMAIN entity \cup rows
      /\ \A id \in DOMAIN entity' :
           entity'[id] = IF id \in rows THEN q[id - nextId + 1] ELSE entity[id]
  BY <1>2 DEF Upsert
<1>5. /\ DOMAIN ids' = Import
      /\ \A j \in Import \ {i} : ids'[j] = ids[j]
      /\ DOMAIN ids'[i] = DOMAIN ids[i] \cup c
      /\ \A s \in DOMAIN ids'[i] :
           ids'[i][s] = IF s \in c THEN nextId + at(s) - 1 ELSE ids[i][s]
  BY <1>2, <1>3 DEF Upsert, RowId
<1>6. \A s \in c : at(s) \in 1 .. Cardinality(c) /\ q[at(s)] = s
  BY <1>3
<1>7. \A s \in c : ids'[i][s] \in rows /\ entity'[ids'[i][s]] = s
  <2> TAKE s \in c
  <2>1. ids'[i][s] = nextId + at(s) - 1
    BY <1>5
  <2>2. at(s) \in 1 .. Cardinality(c) /\ q[at(s)] = s
    BY <1>6
  <2> HIDE DEF at
  <2>3. ids'[i][s] \in rows /\ ids'[i][s] - nextId + 1 = at(s)
    BY <1>3, <2>1, <2>2
  <2> QED BY <1>4, <2>2, <2>3
<1>8. \A id \in DOMAIN entity : id \notin rows
  BY <1>3
<1> HIDE DEF rows, at
<1> QED BY <1>4, <1>5, <1>7, <1>8

LEMMA RowsInvPrepare ==
    ASSUME RowsInv, TypeOK', NEW i \in Import, Prepare(i) \/ PrepareFails(i)
    PROVE  RowsInv'
<1> USE DEF db, prep, tasks
<1>1. CASE LookupChunk(i)
  <2>1. PICK c \in SUBSET pending[i] :
          \E f \in [{s \in c : \E id \in DOMAIN entity : entity[id] = s}
                      -> DOMAIN entity] :
            /\ \A s \in {x \in c : \E id \in DOMAIN entity : entity[id] = x} :
                 entity[f[s]] = s
            /\ ids' = [ids EXCEPT ![i] = Upsert(@, f)]
    BY <1>1 DEF LookupChunk
  <2> DEFINE found == {s \in c : \E id \in DOMAIN entity : entity[id] = s}
  <2>2. PICK f \in [found -> DOMAIN entity] :
          /\ \A s \in found : entity[f[s]] = s
          /\ ids' = [ids EXCEPT ![i] = Upsert(@, f)]
    BY <2>1
  <2> HIDE DEF found
  <2>3. \A j \in Import : \A s \in DOMAIN ids'[j] :
          \/ s \in DOMAIN ids[j] /\ ids'[j][s] = ids[j][s]
          \/ ids'[j][s] \in DOMAIN entity /\ entity[ids'[j][s]] = s
    BY <2>2 DEF RowsInv, TypeOK, Upsert
  <2>4. IdsNameTheirSku'
    BY <1>1, <2>3 DEF RowsInv, IdsNameTheirSku, LookupChunk
  <2> QED BY <1>1, <2>4 DEF RowsInv, StagedKnown, NoOrphanRow, LookupChunk
<1>2. CASE InsertChunk(i)
  <2>1. IdsNameTheirSku'
    BY InsertedRows, <1>2 DEF RowsInv, IdsNameTheirSku
  <2>2. staged' = staged /\ table' = table
    BY <1>2 DEF InsertChunk
  <2>3. DOMAIN entity \subseteq DOMAIN entity'
    BY InsertedRows, <1>2 DEF RowsInv
  <2> QED BY <2>1, <2>2, <2>3 DEF RowsInv, StagedKnown, NoOrphanRow
<1>3. CASE \/ Start(i) \/ LookupDone(i) \/ InsertTaken(i) \/ Collect(i)
           \/ PrepareFails(i)
  <2>1. UNCHANGED <<entity, ids, staged, table>>
    BY <1>3 DEF Start, LookupDone, InsertTaken, Collect, PrepareFails
  <2> QED BY <2>1 DEF RowsInv, IdsNameTheirSku, StagedKnown, NoOrphanRow
<1> QED BY <1>1, <1>2, <1>3 DEF Prepare

LEMMA RowsInvFlush ==
    ASSUME RowsInv, TypeOK', NEW i \in Import, NEW t \in Table,
           \/ Flush(i, t) \/ Ending(i, t)
           \/ TaskFails(i, t) \/ CommitUnacknowledged(i, t)
    PROVE  RowsInv'
<1> USE DEF db, prep, tasks
<1>1. CASE SendChunk(i, t)
  <2>1. PICK c \in SUBSET Unsent(i, t) :
          staged' = [staged EXCEPT ![i][t] = Upsert(@, UpsertRows(i, t, c, ids[i]))]
    BY <1>1 DEF SendChunk
  <2>2. DOMAIN UpsertRows(i, t, c, ids[i]) \subseteq DOMAIN entity
    BY DEF UpsertRows, Keys, KeyOf, Unsent, Lines, RowsInv, IdsNameTheirSku
  <2>3. \A j \in Import, u \in Table :
          DOMAIN staged'[j][u] \subseteq
            DOMAIN staged[j][u] \cup DOMAIN UpsertRows(i, t, c, ids[i])
    BY <2>1 DEF Upsert, RowsInv, TypeOK
  <2>4. UNCHANGED <<entity, ids, table>>
    BY <1>1 DEF SendChunk
  <2> QED BY <2>2, <2>3, <2>4 DEF RowsInv, IdsNameTheirSku, StagedKnown, NoOrphanRow
<1>2. CASE Publish(i, t)
  <2>1. \A u \in Table :
          DOMAIN table'[u] \subseteq DOMAIN table[u] \cup DOMAIN staged[i][t]
    BY <1>2 DEF Publish, Upsert, RowsInv, TypeOK
  <2>2. UNCHANGED <<entity, ids, staged>>
    BY <1>2 DEF Publish
  <2> QED BY <2>1, <2>2 DEF RowsInv, IdsNameTheirSku, StagedKnown, NoOrphanRow
<1>3. CASE \E s \in {"err", "gone"} : RollBack(i, t, s)
  <2>1. \A j \in Import, u \in Table : DOMAIN staged'[j][u] \subseteq DOMAIN staged[j][u]
    BY <1>3 DEF RollBack, EmptyMap, RowsInv, TypeOK
  <2>2. UNCHANGED <<entity, ids, table>>
    BY <1>3 DEF RollBack
  <2> QED BY <2>1, <2>2 DEF RowsInv, IdsNameTheirSku, StagedKnown, NoOrphanRow
<1>4. CASE Begin(i, t) \/ SendCommit(i, t)
  <2>1. UNCHANGED <<entity, ids, staged, table>>
    BY <1>4 DEF Begin, SendCommit
  <2> QED BY <2>1 DEF RowsInv, IdsNameTheirSku, StagedKnown, NoOrphanRow
<1> QED
  BY <1>1, <1>2, <1>3, <1>4
     DEF Flush, Ending, Committed, LockRefused, TaskFails, CommitUnacknowledged,
         AbortTask, LateCommit

LEMMA RowsInvariant == Spec => []RowsInv
<1>1. Init => TypeOK /\ RowsInv
  <2>1. Init => TypeOK
    BY SkuSets DEF Init, TypeOK, EmptyMap, Running, Preparing, Holding
  <2> QED BY <2>1 DEF Init, RowsInv, IdsNameTheirSku, StagedKnown, NoOrphanRow, EmptyMap
<1>2. TypeOK' /\ RowsInv /\ [Next]_vars => RowsInv'
  <2> SUFFICES ASSUME TypeOK', RowsInv, [Next]_vars PROVE RowsInv'
    OBVIOUS
  <2>1. ASSUME NEW i \in Import, Prepare(i) \/ PrepareFails(i) PROVE RowsInv'
    BY <2>1, RowsInvPrepare
  <2>2. ASSUME NEW i \in Import, NEW t \in Table,
               \/ Flush(i, t) \/ Ending(i, t)
               \/ TaskFails(i, t) \/ CommitUnacknowledged(i, t)
        PROVE  RowsInv'
    BY <2>2, RowsInvFlush
  <2>3. ASSUME NEW i \in Import, JoinAll(i) \/ JoinError(i) \/ Crash(i) PROVE RowsInv'
    <3>1. UNCHANGED <<entity, ids, staged, table>>
      BY <2>3 DEF JoinAll, JoinError, Crash, db, prep, tasks
    <3> QED BY <3>1 DEF RowsInv, IdsNameTheirSku, StagedKnown, NoOrphanRow
  <2>4. CASE UNCHANGED vars
    BY <2>4 DEF vars, RowsInv, IdsNameTheirSku, StagedKnown, NoOrphanRow
  <2> QED BY <2>1, <2>2, <2>3, <2>4 DEF Next, Fault
<1> QED BY <1>1, <1>2, TypeCorrect, PTL DEF Spec

\* Every id in an import's sku_to_id is that of an entity with that sku, for
\* any number of imports, any batch size and any order of the rows inserted.
THEOREM IdsAreRight == Spec => []IdsNameTheirSku
BY RowsInvariant, PTL DEF RowsInv

\* No target table ever has a row of an entity that does not exist.
THEOREM NoRowIsOrphaned == Spec => []NoOrphanRow
BY RowsInvariant, PTL DEF RowsInv

-----------------------------------------------------------------------------
(* ImportRun implements TableImport, for every value of the constants.     *)

(* Sending a table's rows in several statements is as good as sending them *)
(* in one, provided the later statements have the later lines.             *)

LEMMA LastOfLater ==
    ASSUME NEW n \in Nat, NEW A \in SUBSET (1 .. n), NEW B \in SUBSET (1 .. n),
           B # {}, \A x \in A, y \in B : x < y
    PROVE  Last(A \cup B) = Last(B)
<1>0. A \subseteq Int /\ B \subseteq Int
  OBVIOUS
<1>1. Last(B) \in B /\ \A m \in B : m <= Last(B)
  BY LastExists
<1>2. Last(A \cup B) \in A \cup B /\ \A m \in A \cup B : m <= Last(A \cup B)
  BY LastExists, A \cup B \in SUBSET (1 .. n), A \cup B # {}
<1>3. Last(B) <= Last(A \cup B)
  <2>1. Last(B) \in A \cup B
    BY <1>1
  <2> QED BY <2>1, <1>2, Zenon
<1>4. Last(A \cup B) \notin A
  <2> SUFFICES ASSUME Last(A \cup B) \in A PROVE FALSE
    OBVIOUS
  <2>1. Last(A \cup B) < Last(B)
    BY <1>1, Zenon
  <2>2. Last(B) \in Int /\ Last(A \cup B) \in Int
    BY <1>0, <1>1, Zenon
  <2>3. \A x, y \in Int : ~ (x < y /\ y <= x)
    OBVIOUS
  <2> QED BY <1>3, <2>1, <2>2, <2>3, Zenon
<1>5. Last(A \cup B) \in B
  BY <1>2, <1>4
<1>6. Last(A \cup B) <= Last(B)
  BY <1>1, <1>5, Zenon
<1>7. Last(B) \in Int /\ Last(A \cup B) \in Int
  BY <1>0, <1>1, <1>5, Zenon
<1>8. \A x, y \in Int : x <= y /\ y <= x => x = y
  OBVIOUS
<1> QED BY <1>3, <1>6, <1>7, <1>8, Zenon

LEMMA UpsertInOrder ==
    ASSUME NEW i \in Import, NEW t \in Table, NEW m,
           NEW A \in SUBSET Lines(i, t, m), NEW B \in SUBSET Lines(i, t, m),
           \A x \in A, y \in B : x < y
    PROVE  Upsert(UpsertRows(i, t, A, m), UpsertRows(i, t, B, m))
             = UpsertRows(i, t, A \cup B, m)
<1> DEFINE of(L, k) == {n \in L : KeyOf(i, n, m) = k}
<1>1. Keys(i, A \cup B, m) = Keys(i, A, m) \cup Keys(i, B, m)
  BY DEF Keys
<1>2. /\ Len(Csv[i]) \in Nat
      /\ A \in SUBSET (1 .. Len(Csv[i])) /\ B \in SUBSET (1 .. Len(Csv[i]))
  BY CsvType DEF Lines
<1>3. ASSUME NEW k \in Keys(i, B, m)
      PROVE  Last(of(A \cup B, k)) = Last(of(B, k))
  <2>1. of(A \cup B, k) = of(A, k) \cup of(B, k)
    OBVIOUS
  <2>2. of(B, k) # {}
    BY DEF Keys
  <2>3. /\ of(A, k) \in SUBSET (1 .. Len(Csv[i]))
        /\ of(B, k) \in SUBSET (1 .. Len(Csv[i]))
        /\ \A x \in of(A, k), y \in of(B, k) : x < y
    BY <1>2
  <2> HIDE DEF of
  <2>4. Last(of(A, k) \cup of(B, k)) = Last(of(B, k))
    BY <1>2, <2>2, <2>3, LastOfLater, Zenon
  <2> QED BY <2>1, <2>4
<1>4. ASSUME NEW k \in Keys(i, A, m), k \notin Keys(i, B, m)
      PROVE  of(A \cup B, k) = of(A, k)
  BY <1>4 DEF Keys
<1>5. UpsertRows(i, t, A \cup B, m) =
        [k \in Keys(i, A, m) \cup Keys(i, B, m) |-> Csv[i][Last(of(A \cup B, k))].cell[t]]
  BY <1>1 DEF UpsertRows
<1>6. Upsert(UpsertRows(i, t, A, m), UpsertRows(i, t, B, m)) =
        [k \in Keys(i, A, m) \cup Keys(i, B, m) |->
           IF k \in Keys(i, B, m) THEN Csv[i][Last(of(B, k))].cell[t]
                                  ELSE Csv[i][Last(of(A, k))].cell[t]]
  BY DEF Upsert, UpsertRows
<1> HIDE DEF of
<1> QED BY <1>3, <1>4, <1>5, <1>6
-----------------------------------------------------------------------------
(* The inductive invariant of the refinement. *)

\* An import's tasks start together, once its skus are resolved.
TasksStart ==
    \A i \in Import :
        /\ phase[i] \in Preparing \cup {"idle"} => \A t \in Table : task[i][t] = "none"
        /\ phase[i] \in {"flush", "ok"} => \A t \in Table : task[i][t] # "none"
        /\ \/ \A t \in Table : task[i][t] # "none"
           \/ \A t \in Table : /\ task[i][t] = "none" /\ sent[i][t] = {}
                               /\ staged[i][t] = EmptyMap /\ t \notin applied[i]

\* No sku of a file gets lost between the lookup and the last insert.
SkusResolved ==
    \A i \in Import :
        /\ phase[i] = "insert" => PrimarySkus(i) \subseteq DOMAIN ids[i] \cup pending[i]
        /\ HasResolved(i) => PrimarySkus(i) \subseteq DOMAIN ids[i]

\* A transaction has sent the rows of the table's first lines, and they are
\* what it will publish.
SentRows ==
    \A i \in Import, t \in Table :
        /\ sent[i][t] \subseteq Lines(i, t, ids[i])
        /\ \A m \in sent[i][t], n \in Unsent(i, t) : m < n
        /\ staged[i][t] = UpsertRows(i, t, sent[i][t], ids[i])
        /\ task[i][t] = "committing" => sent[i][t] = Lines(i, t, ids[i])

\* A table is published by the COMMIT of its task and at no other time.
PublishedOnce ==
    \A i \in Import, t \in Table :
        /\ task[i][t] \in Holding \cup {"idle"} =>
             Lines(i, t, ids[i]) # {} /\ t \notin applied[i]
        /\ t \in applied[i] => Lines(i, t, ids[i]) # {}
        /\ task[i][t] = "ok" => t \in applied[i] \/ Lines(i, t, ids[i]) = {}

TasksInv == TypeOK /\ TasksStart /\ SkusResolved /\ SentRows /\ PublishedOnce

LEMMA NoLinesNoRows ==
    ASSUME NEW i, NEW t, NEW m
    PROVE  UpsertRows(i, t, {}, m) = EmptyMap
BY DEF UpsertRows, Keys, EmptyMap

\* While an import prepares it has no tasks, so its sku_to_id may change.
LEMMA PreparingStep ==
    ASSUME TasksInv, NEW i \in Import,
           phase[i] \in Preparing \cup {"idle"},
           phase'[i] \in Preparing \cup {"idle", "failed"},
           UNCHANGED <<task, sent, staged, applied>>,
           \A j \in Import \ {i} : /\ phase'[j] = phase[j]
                                   /\ ids'[j] = ids[j]
                                   /\ pending'[j] = pending[j],
           phase'[i] = "insert" => PrimarySkus(i) \subseteq DOMAIN ids'[i] \cup pending'[i]
    PROVE  TasksStart' /\ SkusResolved' /\ SentRows' /\ PublishedOnce'
<1>1. \A t \in Table : /\ task[i][t] = "none" /\ sent[i][t] = {}
                       /\ staged[i][t] = EmptyMap /\ t \notin applied[i]
  BY ImportDataAssumption DEF TasksInv, TasksStart
<1>2. TasksStart'
  BY <1>1 DEF TasksInv, TasksStart, Preparing
<1>3. SkusResolved'
  BY <1>1 DEF TasksInv, SkusResolved, HasResolved
<1>4. SentRows'
  <2> SUFFICES ASSUME NEW j \in Import, NEW t \in Table
               PROVE  /\ sent'[j][t] \subseteq Lines(j, t, ids'[j])
                      /\ \A m \in sent'[j][t], n \in Lines(j, t, ids'[j]) \ sent'[j][t] : m < n
                      /\ staged'[j][t] = UpsertRows(j, t, sent'[j][t], ids'[j])
                      /\ task'[j][t] = "committing" => sent'[j][t] = Lines(j, t, ids'[j])
    BY DEF SentRows, Unsent
  <2>1. CASE j = i
    <3>1. /\ sent'[j][t] = {} /\ staged'[j][t] = EmptyMap
          /\ task'[j][t] = "none"
      BY <1>1, <2>1
    <3>2. UpsertRows(j, t, {}, ids'[j]) = EmptyMap
      BY NoLinesNoRows, Zenon
    <3> QED BY <3>1, <3>2
  <2>2. CASE j # i
    <3>1. ids'[j] = ids[j]
      BY <2>2
    <3> QED BY <3>1 DEF TasksInv, SentRows, Unsent
  <2> QED BY <2>1, <2>2
<1>5. PublishedOnce'
  <2> SUFFICES ASSUME NEW j \in Import, NEW t \in Table
               PROVE  /\ task[j][t] \in Holding \cup {"idle"} =>
                           Lines(j, t, ids'[j]) # {} /\ t \notin applied[j]
                      /\ t \in applied[j] => Lines(j, t, ids'[j]) # {}
                      /\ task[j][t] = "ok" => t \in applied[j] \/ Lines(j, t, ids'[j]) = {}
    BY DEF PublishedOnce
  <2>1. CASE j = i
    BY <1>1, <2>1 DEF Holding
  <2>2. CASE j # i
    <3>1. ids'[j] = ids[j]
      BY <2>2
    <3> QED BY <3>1 DEF TasksInv, PublishedOnce
  <2> QED BY <2>1, <2>2
<1> QED BY <1>2, <1>3, <1>4, <1>5

LEMMA TasksInvPrepare ==
    ASSUME TasksInv, TypeOK', NEW i \in Import, Prepare(i) \/ PrepareFails(i)
    PROVE  TasksInv'
<1> USE DEF db, prep, tasks
<1> DEFINE Goal == TasksStart' /\ SkusResolved' /\ SentRows' /\ PublishedOnce'
<1>1. CASE Start(i) \/ InsertTaken(i) \/ PrepareFails(i)
  <2>1. /\ phase[i] \in Preparing \cup {"idle"}
        /\ phase'[i] \in {"lookup", "failed"}
        /\ UNCHANGED <<task, sent, staged, applied, ids>>
        /\ \A j \in Import \ {i} : phase'[j] = phase[j] /\ pending'[j] = pending[j]
    BY <1>1 DEF Start, InsertTaken, PrepareFails, Preparing, TasksInv, TypeOK
  <2> QED BY <2>1, PreparingStep DEF Preparing, TasksInv
<1>2. CASE LookupChunk(i)
  <2>1. /\ phase[i] = "lookup"
        /\ UNCHANGED <<phase, task, sent, staged, applied>>
        /\ \A j \in Import \ {i} : ids'[j] = ids[j] /\ pending'[j] = pending[j]
    BY <1>2 DEF LookupChunk, TasksInv, TypeOK
  <2> QED BY <2>1, PreparingStep DEF Preparing, TasksInv
<1>3. CASE LookupDone(i)
  <2>1. /\ phase[i] = "lookup" /\ phase'[i] = "insert"
        /\ pending'[i] = PrimarySkus(i) \ DOMAIN ids[i]
        /\ UNCHANGED <<task, sent, staged, applied, ids>>
        /\ \A j \in Import \ {i} : phase'[j] = phase[j] /\ pending'[j] = pending[j]
    BY <1>3 DEF LookupDone, TasksInv, TypeOK
  <2>2. PrimarySkus(i) \subseteq DOMAIN ids'[i] \cup pending'[i]
    BY <2>1
  <2> QED BY <2>1, <2>2, PreparingStep DEF Preparing, TasksInv
<1>4. CASE InsertChunk(i)
  <2>1. PICK c \in SUBSET pending[i] :
          /\ \E q \in RowOrders(c) :
               ids' = [ids EXCEPT ![i] = Upsert(@,
                         [s \in c |-> RowId(nextId, CHOOSE p \in DOMAIN q : q[p] = s)])]
          /\ pending' = [pending EXCEPT ![i] = @ \ c]
    BY <1>4 DEF InsertChunk
  <2>2. /\ phase[i] = "insert"
        /\ UNCHANGED <<phase, task, sent, staged, applied>>
        /\ \A j \in Import \ {i} : ids'[j] = ids[j] /\ pending'[j] = pending[j]
    BY <1>4, <2>1 DEF InsertChunk, TasksInv, TypeOK
  <2>3. DOMAIN ids'[i] = DOMAIN ids[i] \cup c /\ pending'[i] = pending[i] \ c
    BY <2>1 DEF TasksInv, TypeOK, Upsert
  <2>4. PrimarySkus(i) \subseteq DOMAIN ids'[i] \cup pending'[i]
    BY <2>2, <2>3 DEF TasksInv, SkusResolved
  <2> QED BY <2>2, <2>4, PreparingStep DEF Preparing, TasksInv
<1>5. CASE Collect(i)
  <2>1. \A t \in Table : /\ task[i][t] = "none" /\ sent[i][t] = {}
                         /\ staged[i][t] = EmptyMap /\ t \notin applied[i]
    BY <1>5, ImportDataAssumption DEF TasksInv, TasksStart, Collect, Preparing
  <2>2. /\ phase[i] = "insert" /\ pending[i] = {}
        /\ UNCHANGED <<pending, ids, sent, staged, applied>>
        /\ phase'[i] = "flush"
        /\ \A t \in Table : task'[i][t] = IF Lines(i, t, ids[i]) = {} THEN "ok" ELSE "idle"
        /\ \A j \in Import \ {i} : phase'[j] = phase[j] /\ task'[j] = task[j]
    BY <1>5 DEF Collect, TasksInv, TypeOK
  <2>3. TasksStart'
    BY <2>1, <2>2 DEF TasksInv, TasksStart, Preparing
  <2>4. SkusResolved'
    BY <2>2 DEF TasksInv, SkusResolved, HasResolved
  <2>5. SentRows'
    BY <2>2 DEF TasksInv, SentRows, Unsent
  <2>6. PublishedOnce'
    BY <2>1, <2>2 DEF TasksInv, PublishedOnce, Holding
  <2> QED BY <2>3, <2>4, <2>5, <2>6 DEF TasksInv
<1> QED BY <1>1, <1>2, <1>3, <1>4, <1>5 DEF Prepare

\* A step of one task that leaves what it has sent, or has it all rolled back.
LEMMA TaskStep ==
    ASSUME TasksInv, NEW i \in Import, NEW t \in Table,
           NEW s \in Holding \cup {"ok", "err", "gone"},
           SetTask(i, t, s), UNCHANGED <<phase, pending, ids>>,
           task[i][t] # "none"
    PROVE  /\ task'[i][t] = s
           /\ \A j \in Import, u \in Table : <<j, u>> # <<i, t>> => task'[j][u] = task[j][u]
           /\ \A j \in Import, u \in Table : task'[j][u] = "none" <=> task[j][u] = "none"
           /\ \A u \in Table : task[i][u] # "none"
           /\ SkusResolved'
<1>1. \A u \in Table : task[i][u] # "none"
  BY DEF TasksInv, TasksStart
<1>2. /\ task'[i][t] = s
      /\ \A j \in Import, u \in Table : <<j, u>> # <<i, t>> => task'[j][u] = task[j][u]
  BY DEF SetTask, TasksInv, TypeOK
<1>3. \A j \in Import, u \in Table : task'[j][u] = "none" <=> task[j][u] = "none"
  BY <1>1, <1>2 DEF Holding
<1>4. SkusResolved'
  BY <1>3 DEF TasksInv, SkusResolved, HasResolved
<1> QED BY <1>1, <1>2, <1>3, <1>4

LEMMA TasksInvSendChunk ==
    ASSUME TasksInv, TypeOK', NEW i \in Import, NEW t \in Table, SendChunk(i, t)
    PROVE  TasksInv'
<1>1. PICK c \in SUBSET Unsent(i, t) :
        /\ IsNextBatch(i, c, Unsent(i, t))
        /\ staged' = [staged EXCEPT ![i][t] = Upsert(@, UpsertRows(i, t, c, ids[i]))]
        /\ sent' = [sent EXCEPT ![i][t] = @ \cup c]
  BY DEF SendChunk
<1>2. /\ task[i][t] = "open" /\ phase[i] = "flush"
      /\ UNCHANGED <<phase, task, pending, ids, applied>>
  BY DEF SendChunk, prep
<1>3. /\ sent'[i][t] = sent[i][t] \cup c
      /\ staged'[i][t] = Upsert(staged[i][t], UpsertRows(i, t, c, ids[i]))
      /\ \A j \in Import, u \in Table : <<j, u>> # <<i, t>> =>
           sent'[j][u] = sent[j][u] /\ staged'[j][u] = staged[j][u]
  BY <1>1 DEF TasksInv, TypeOK
<1>4. /\ sent[i][t] \in SUBSET Lines(i, t, ids[i])
      /\ c \in SUBSET Lines(i, t, ids[i])
      /\ \A x \in sent[i][t], y \in c : x < y
      /\ staged[i][t] = UpsertRows(i, t, sent[i][t], ids[i])
  BY <1>1 DEF TasksInv, SentRows, Unsent
<1>5. staged'[i][t] = UpsertRows(i, t, sent'[i][t], ids[i])
  <2>1. Upsert(UpsertRows(i, t, sent[i][t], ids[i]), UpsertRows(i, t, c, ids[i]))
          = UpsertRows(i, t, sent[i][t] \cup c, ids[i])
    BY <1>4, UpsertInOrder
  <2> QED BY <1>3, <1>4, <2>1
<1>6. \A m \in sent'[i][t], n \in Lines(i, t, ids[i]) \ sent'[i][t] : m < n
  <2>1. \A m \in sent[i][t], n \in Lines(i, t, ids[i]) \ sent[i][t] : m < n
    BY DEF TasksInv, SentRows, Unsent
  <2>2. \A m \in c, n \in (Lines(i, t, ids[i]) \ sent[i][t]) \ c : m < n
    BY <1>1 DEF IsNextBatch, Unsent
  <2> QED BY <1>3, <2>1, <2>2
<1>7. SentRows'
  <2> SUFFICES ASSUME NEW j \in Import, NEW u \in Table
               PROVE  /\ sent'[j][u] \subseteq Lines(j, u, ids[j])
                      /\ \A m \in sent'[j][u], n \in Lines(j, u, ids[j]) \ sent'[j][u] : m < n
                      /\ staged'[j][u] = UpsertRows(j, u, sent'[j][u], ids[j])
                      /\ task[j][u] = "committing" => sent'[j][u] = Lines(j, u, ids[j])
    BY <1>2 DEF SentRows, Unsent
  <2>1. CASE j = i /\ u = t
    BY <1>2, <1>3, <1>4, <1>5, <1>6, <2>1
  <2>2. CASE ~ (j = i /\ u = t)
    BY <1>3, <2>2 DEF TasksInv, SentRows, Unsent
  <2> QED BY <2>1, <2>2
<1>8. TasksStart'
  <2>1. \A u \in Table : task[i][u] # "none"
    BY <1>2 DEF TasksInv, TasksStart
  <2> QED BY <1>2, <1>3, <2>1 DEF TasksInv, TasksStart
<1>9. SkusResolved' /\ PublishedOnce'
  BY <1>2 DEF TasksInv, SkusResolved, HasResolved, PublishedOnce
<1> QED BY <1>7, <1>8, <1>9 DEF TasksInv

LEMMA TasksInvTask ==
    ASSUME TasksInv, TypeOK', NEW i \in Import, NEW t \in Table,
           \/ Begin(i, t) \/ SendCommit(i, t)
           \/ \E s \in {"ok", "err", "gone"} : SetTask(i, t, s) /\ Publish(i, t)
           \/ \E s \in {"err", "gone"} : RollBack(i, t, s) /\ task[i][t] \in Holding \cup {"idle"}
    PROVE  TasksInv'
<1> USE DEF prep
<1>1. CASE Begin(i, t) \/ SendCommit(i, t)
  <2>1. PICK s \in Holding : SetTask(i, t, s) /\ (s = "committing" => Unsent(i, t) = {})
    BY <1>1 DEF Begin, SendCommit, Holding
  <2>2. /\ task[i][t] \in Holding \cup {"idle"}
        /\ UNCHANGED <<phase, pending, ids, sent, staged, applied>>
    BY <1>1 DEF Begin, SendCommit, Holding
  <2>3. /\ task'[i][t] = s
        /\ \A j \in Import, u \in Table : <<j, u>> # <<i, t>> => task'[j][u] = task[j][u]
        /\ \A j \in Import, u \in Table : task'[j][u] = "none" <=> task[j][u] = "none"
        /\ SkusResolved'
    BY <2>1, <2>2, TaskStep DEF Holding
  <2>4. TasksStart'
    BY <2>2, <2>3 DEF TasksInv, TasksStart
  <2>5. SentRows'
    <3>1. s = "committing" => sent[i][t] = Lines(i, t, ids[i])
      BY <2>1 DEF TasksInv, SentRows, Unsent
    <3>2. \A j \in Import, u \in Table :
            task'[j][u] = "committing" => sent[j][u] = Lines(j, u, ids[j])
      BY <2>3, <3>1 DEF TasksInv, SentRows
    <3> QED BY <2>2, <3>2 DEF TasksInv, SentRows, Unsent
  <2>6. PublishedOnce'
    BY <2>2, <2>3 DEF TasksInv, PublishedOnce, Holding
  <2> QED BY <2>3, <2>4, <2>5, <2>6 DEF TasksInv
<1>2. CASE \E s \in {"ok", "err", "gone"} : SetTask(i, t, s) /\ Publish(i, t)
  <2>1. PICK s \in {"ok", "err", "gone"} : SetTask(i, t, s)
    BY <1>2
  <2>2. /\ task[i][t] = "committing"
        /\ UNCHANGED <<phase, pending, ids, sent, staged>>
        /\ applied'[i] = applied[i] \cup {t}
        /\ \A j \in Import \ {i} : applied'[j] = applied[j]
    BY <1>2 DEF Publish, TasksInv, TypeOK
  <2>3. /\ task'[i][t] = s
        /\ \A j \in Import, u \in Table : <<j, u>> # <<i, t>> => task'[j][u] = task[j][u]
        /\ \A j \in Import, u \in Table : task'[j][u] = "none" <=> task[j][u] = "none"
        /\ \A u \in Table : task[i][u] # "none"
        /\ SkusResolved'
    BY <2>1, <2>2, TaskStep DEF Holding
  <2>4. TasksStart'
    BY <2>2, <2>3 DEF TasksInv, TasksStart
  <2>5. SentRows'
    BY <2>2, <2>3 DEF TasksInv, SentRows, Unsent
  <2>6. PublishedOnce'
    BY <2>2, <2>3 DEF TasksInv, PublishedOnce, Holding
  <2> QED BY <2>3, <2>4, <2>5, <2>6 DEF TasksInv
<1>3. CASE \E s \in {"err", "gone"} :
             RollBack(i, t, s) /\ task[i][t] \in Holding \cup {"idle"}
  <2>1. PICK s \in {"err", "gone"} : SetTask(i, t, s)
    BY <1>3 DEF RollBack
  <2>2. /\ task[i][t] \in Holding \cup {"idle"}
        /\ UNCHANGED <<phase, pending, ids, applied>>
        /\ sent'[i][t] = {} /\ staged'[i][t] = EmptyMap
        /\ \A j \in Import, u \in Table : <<j, u>> # <<i, t>> =>
             sent'[j][u] = sent[j][u] /\ staged'[j][u] = staged[j][u]
    BY <1>3 DEF RollBack, TasksInv, TypeOK
  <2>3. /\ task'[i][t] = s
        /\ \A j \in Import, u \in Table : <<j, u>> # <<i, t>> => task'[j][u] = task[j][u]
        /\ \A j \in Import, u \in Table : task'[j][u] = "none" <=> task[j][u] = "none"
        /\ \A u \in Table : task[i][u] # "none"
        /\ SkusResolved'
    BY <2>1, <2>2, TaskStep DEF Holding
  <2>4. TasksStart'
    BY <2>2, <2>3 DEF TasksInv, TasksStart
  <2>5. SentRows'
    <3>1. UpsertRows(i, t, {}, ids[i]) = EmptyMap
      BY NoLinesNoRows, Zenon
    <3> SUFFICES ASSUME NEW j \in Import, NEW u \in Table
                 PROVE  /\ sent'[j][u] \subseteq Lines(j, u, ids[j])
                        /\ \A m \in sent'[j][u], n \in Lines(j, u, ids[j]) \ sent'[j][u] : m < n
                        /\ staged'[j][u] = UpsertRows(j, u, sent'[j][u], ids[j])
                        /\ task'[j][u] = "committing" => sent'[j][u] = Lines(j, u, ids[j])
      BY <2>2 DEF SentRows, Unsent
    <3>2. CASE j = i /\ u = t
      BY <2>1, <2>2, <2>3, <3>1, <3>2
    <3>3. CASE ~ (j = i /\ u = t)
      BY <2>2, <2>3, <3>3 DEF TasksInv, SentRows, Unsent
    <3> QED BY <3>2, <3>3
  <2>6. PublishedOnce'
    BY <2>2, <2>3 DEF TasksInv, PublishedOnce, Holding
  <2> QED BY <2>3, <2>4, <2>5, <2>6 DEF TasksInv
<1> QED BY <1>1, <1>2, <1>3

LEMMA TasksInvariant == Spec => []TasksInv
<1>1. Init => TasksInv
  <2> SUFFICES ASSUME Init PROVE TasksInv
    OBVIOUS
  <2>1. TypeOK
    BY SkuSets DEF Init, TypeOK, EmptyMap, Running, Preparing, Holding
  <2>2. SentRows
    <3>1. \A i \in Import, t \in Table : UpsertRows(i, t, {}, ids[i]) = EmptyMap
      BY NoLinesNoRows, Zenon
    <3> QED BY <3>1 DEF Init, SentRows
  <2>3. TasksStart /\ SkusResolved /\ PublishedOnce
    BY DEF Init, TasksStart, SkusResolved, PublishedOnce, HasResolved, Holding
  <2> QED BY <2>1, <2>2, <2>3 DEF TasksInv
<1>2. TypeOK' /\ TasksInv /\ [Next]_vars => TasksInv'
  <2> SUFFICES ASSUME TypeOK', TasksInv, [Next]_vars PROVE TasksInv'
    OBVIOUS
  <2>1. ASSUME NEW i \in Import, Prepare(i) \/ PrepareFails(i) PROVE TasksInv'
    BY <2>1, TasksInvPrepare
  <2>2. ASSUME NEW i \in Import, NEW t \in Table,
               \/ Flush(i, t) \/ Ending(i, t)
               \/ TaskFails(i, t) \/ CommitUnacknowledged(i, t)
        PROVE  TasksInv'
    BY <2>2, TasksInvSendChunk, TasksInvTask
       DEF Flush, Ending, Committed, LockRefused, TaskFails, CommitUnacknowledged,
           AbortTask, LateCommit, Holding
  <2>3. ASSUME NEW i \in Import, JoinAll(i) \/ JoinError(i) \/ Crash(i) PROVE TasksInv'
    <3>1. /\ UNCHANGED <<task, sent, staged, applied, ids, pending>>
          /\ phase[i] = "flush" /\ phase'[i] \in {"ok", "failed"}
          /\ \A j \in Import \ {i} : phase'[j] = phase[j]
      BY <2>3 DEF JoinAll, JoinError, Crash, prep, tasks, TasksInv, TypeOK
    <3>2. TasksStart'
      BY <3>1 DEF TasksInv, TasksStart, Preparing
    <3>3. SkusResolved'
      BY <3>1 DEF TasksInv, SkusResolved, HasResolved
    <3>4. SentRows'
      BY <3>1 DEF TasksInv, SentRows, Unsent
    <3>5. PublishedOnce'
      BY <3>1 DEF TasksInv, PublishedOnce
    <3> QED BY <3>2, <3>3, <3>4, <3>5 DEF TasksInv
  <2>4. CASE UNCHANGED vars
    BY <2>4 DEF vars, TasksInv, TasksStart, SkusResolved, HasResolved, SentRows,
                Unsent, PublishedOnce
  <2> QED BY <2>1, <2>2, <2>3, <2>4 DEF Next, Fault
<1> QED BY <1>1, <1>2, TypeCorrect, PTL DEF Spec

-----------------------------------------------------------------------------
(* The refinement. *)

LEMMA SameRows ==
    /\ \A i, t, m : Abstract!Lines(i, t, m) = Lines(i, t, m)
    /\ \A i, t, L, m : Abstract!UpsertRows(i, t, L, m) = UpsertRows(i, t, L, m)
    /\ \A f, g : Abstract!Upsert(f, g) = Upsert(f, g)
    /\ \A i : Abstract!PrimarySkus(i) = PrimarySkus(i)
    /\ \A i : Abstract!LookupSkus(i) = LookupSkus(i)
    /\ Abstract!EmptyMap = EmptyMap
BY DEF Abstract!Lines, Lines, Abstract!UpsertRows, UpsertRows, Abstract!Upsert, Upsert,
       Abstract!PrimarySkus, PrimarySkus, Abstract!LookupSkus, LookupSkus,
       Abstract!EmptyMap, EmptyMap, Abstract!Keys, Keys, Abstract!KeyOf, KeyOf,
       Abstract!Last, Last

\* The steps that the abstract specification does not see.
LEMMA Stutters ==
    ASSUME UNCHANGED <<table, applied>>,
           \A j \in Import : /\ HasResolved(j)' <=> HasResolved(j)
                             /\ HasResolved(j) => ids'[j] = ids[j]
                             /\ \/ phase'[j] = phase[j]
                                \/ {phase[j], phase'[j]} \cap {"ok", "failed"} = {}
    PROVE  UNCHANGED Abstract!vars
<1>1. idsBar' = idsBar
  BY DEF idsBar, EmptyMap
<1>2. resolvedBar' = resolvedBar
  BY DEF resolvedBar
<1>3. outcomeBar' = outcomeBar
  BY DEF outcomeBar
<1> QED BY <1>1, <1>2, <1>3 DEF Abstract!vars

\* An import that fails does so for the abstract specification too.
LEMMA Fails ==
    ASSUME TasksInv, NEW i \in Import, phase[i] \notin {"ok", "failed"},
           phase' = [phase EXCEPT ![i] = "failed"],
           UNCHANGED <<task, ids, table, applied>>
    PROVE  Abstract!Fail(i)
<1>1. idsBar' = idsBar /\ resolvedBar' = resolvedBar
  BY DEF idsBar, resolvedBar, HasResolved, EmptyMap
<1>2. outcomeBar[i] = "running" /\ outcomeBar' = [outcomeBar EXCEPT ![i] = "failed"]
  BY DEF outcomeBar, TasksInv, TypeOK
<1> QED BY <1>1, <1>2 DEF Abstract!Fail

LEMMA PrepareRefines ==
    ASSUME TasksInv, NEW i \in Import, Prepare(i) \/ PrepareFails(i)
    PROVE  Abstract!Next \/ UNCHANGED Abstract!vars
<1> USE DEF prep, tasks, db
<1>1. CASE Start(i) \/ LookupChunk(i) \/ LookupDone(i) \/ InsertChunk(i)
  <2>1. /\ phase[i] \in Preparing \cup {"idle"}
        /\ phase'[i] \in Preparing
        /\ UNCHANGED <<task, table, applied>>
        /\ \A j \in Import \ {i} : phase'[j] = phase[j] /\ ids'[j] = ids[j]
    BY <1>1 DEF Start, LookupChunk, LookupDone, InsertChunk, Preparing, TasksInv, TypeOK
  <2>2. ~ HasResolved(i)
    BY <2>1 DEF TasksInv, TasksStart, HasResolved
  <2>3. \A j \in Import : HasResolved(j)' <=> HasResolved(j)
    BY <2>1 DEF HasResolved
  <2>4. {phase[i], phase'[i]} \cap {"ok", "failed"} = {}
    BY <2>1 DEF Preparing
  <2> QED BY <2>1, <2>2, <2>3, <2>4, Stutters
<1>2. CASE Collect(i)
  <2>1. /\ phase[i] = "insert" /\ pending[i] = {}
        /\ phase' = [phase EXCEPT ![i] = "flush"]
        /\ UNCHANGED <<ids, table, applied>>
        /\ \A t \in Table : task'[i][t] # "none"
        /\ \A j \in Import \ {i} : task'[j] = task[j]
    BY <1>2 DEF Collect, TasksInv, TypeOK
  <2>2. /\ ~ HasResolved(i) /\ HasResolved(i)'
        /\ \A j \in Import \ {i} : HasResolved(j)' <=> HasResolved(j)
    BY <2>1, ImportDataAssumption DEF TasksInv, TasksStart, HasResolved, Preparing
  <2>3. outcomeBar[i] = "running" /\ outcomeBar' = outcomeBar
    BY <2>1 DEF outcomeBar, TasksInv, TypeOK
  <2>4. i \notin resolvedBar /\ resolvedBar' = resolvedBar \cup {i}
    BY <2>2 DEF resolvedBar
  <2>5. idsBar'[i] = ids[i] /\ idsBar' = [idsBar EXCEPT ![i] = idsBar'[i]]
    BY <2>1, <2>2 DEF idsBar, EmptyMap
  <2>6. /\ PrimarySkus(i) \subseteq DOMAIN ids[i]
        /\ DOMAIN ids[i] \subseteq LookupSkus(i)
        /\ ids[i] \in [DOMAIN ids[i] -> Nat]
    BY <2>1 DEF TasksInv, SkusResolved, TypeOK
  <2>7. Abstract!Resolve(i)
    BY <2>1, <2>3, <2>4, <2>5, <2>6, SameRows DEF Abstract!Resolve
  <2> QED BY <2>7 DEF Abstract!Next
<1>3. CASE InsertTaken(i) \/ PrepareFails(i)
  <2>1. Abstract!Fail(i)
    BY <1>3, Fails DEF InsertTaken, PrepareFails, Preparing
  <2> QED BY <2>1 DEF Abstract!Next
<1> QED BY <1>1, <1>2, <1>3 DEF Prepare

LEMMA PublishRefines ==
    ASSUME TasksInv, NEW i \in Import, NEW t \in Table,
           NEW s \in {"ok", "err", "gone"}, SetTask(i, t, s), Publish(i, t),
           phase[i] # "ok"
    PROVE  Abstract!Next
<1>1. /\ task[i][t] = "committing"
      /\ UNCHANGED <<phase, ids>>
      /\ table' = [table EXCEPT ![t] = Upsert(@, staged[i][t])]
      /\ applied' = [applied EXCEPT ![i] = @ \cup {t}]
  BY DEF Publish, prep
<1>2. \A j \in Import, u \in Table : task'[j][u] = "none" <=> task[j][u] = "none"
  BY <1>1, TaskStep DEF Publish, prep
<1>3. \A j \in Import : HasResolved(j)' <=> HasResolved(j)
  BY <1>2 DEF HasResolved
<1>4. idsBar' = idsBar /\ resolvedBar' = resolvedBar /\ outcomeBar' = outcomeBar
  BY <1>1, <1>3 DEF idsBar, resolvedBar, outcomeBar, EmptyMap
<1>5. i \in resolvedBar /\ idsBar[i] = ids[i] /\ outcomeBar[i] # "ok"
  BY <1>1 DEF resolvedBar, idsBar, HasResolved, outcomeBar
<1>6. /\ Lines(i, t, ids[i]) # {} /\ t \notin applied[i]
      /\ staged[i][t] = UpsertRows(i, t, Lines(i, t, ids[i]), ids[i])
  BY <1>1 DEF TasksInv, PublishedOnce, SentRows, Holding
<1>7. t \in Abstract!Targets(i) \ applied[i]
  BY <1>5, <1>6, SameRows DEF Abstract!Targets
<1>8. table' = [table EXCEPT ![t] =
        Abstract!Upsert(@, Abstract!UpsertRows(i, t, Abstract!Lines(i, t, idsBar[i]), idsBar[i]))]
  BY <1>1, <1>5, <1>6, SameRows
<1>9. Abstract!Apply(i, t)
  BY <1>1, <1>4, <1>5, <1>7, <1>8 DEF Abstract!Apply
<1> QED BY <1>9 DEF Abstract!Next

LEMMA TaskRefines ==
    ASSUME TasksInv, NEW i \in Import, NEW t \in Table,
           \/ Flush(i, t) \/ Ending(i, t)
           \/ TaskFails(i, t) \/ CommitUnacknowledged(i, t)
    PROVE  Abstract!Next \/ UNCHANGED Abstract!vars
<1>1. CASE \E s \in {"ok", "err", "gone"} : SetTask(i, t, s) /\ Publish(i, t) /\ phase[i] # "ok"
  BY <1>1, PublishRefines
<1>2. CASE \E s \in Holding \cup {"err", "gone"} :
             SetTask(i, t, s) /\ UNCHANGED <<phase, pending, ids, table, applied>>
                              /\ task[i][t] \in Holding \cup {"idle"}
  <2>1. PICK s \in Holding \cup {"err", "gone"} : SetTask(i, t, s)
    BY <1>2
  <2>2. \A j \in Import, u \in Table : task'[j][u] = "none" <=> task[j][u] = "none"
    BY <1>2, <2>1, TaskStep DEF Holding
  <2>3. \A j \in Import : HasResolved(j)' <=> HasResolved(j)
    BY <2>2 DEF HasResolved
  <2> QED BY <1>2, <2>3, Stutters
<1>3. CASE SendChunk(i, t)
  <2>1. UNCHANGED <<phase, task, ids, table, applied>>
    BY <1>3 DEF SendChunk, prep
  <2>2. \A j \in Import : HasResolved(j)' <=> HasResolved(j)
    BY <2>1 DEF HasResolved
  <2> QED BY <2>1, <2>2, Stutters
<1> QED
  BY <1>1, <1>2, <1>3
     DEF Flush, Ending, Begin, SendCommit, Committed, LockRefused, TaskFails,
         CommitUnacknowledged, AbortTask, LateCommit, RollBack, Holding, prep

LEMMA JoinRefines ==
    ASSUME TasksInv, NEW i \in Import, JoinAll(i) \/ JoinError(i) \/ Crash(i)
    PROVE  Abstract!Next
<1> USE DEF prep, tasks, db
<1>1. CASE JoinAll(i)
  <2>1. /\ phase[i] = "flush" /\ \A t \in Table : task[i][t] = "ok"
        /\ phase' = [phase EXCEPT ![i] = "ok"]
        /\ UNCHANGED <<task, ids, table, applied>>
    BY <1>1 DEF JoinAll
  <2>2. idsBar' = idsBar /\ resolvedBar' = resolvedBar
    BY <2>1 DEF idsBar, resolvedBar, HasResolved, EmptyMap
  <2>3. outcomeBar[i] = "running" /\ outcomeBar' = [outcomeBar EXCEPT ![i] = "ok"]
    BY <2>1 DEF outcomeBar, TasksInv, TypeOK
  <2>4. i \in resolvedBar /\ idsBar[i] = ids[i]
    BY <2>1, ImportDataAssumption DEF resolvedBar, idsBar, HasResolved
  <2>5. \A t \in Table : t \in applied[i] <=> Lines(i, t, ids[i]) # {}
    BY <2>1 DEF TasksInv, PublishedOnce
  <2>6. applied[i] = Abstract!Targets(i)
    BY <2>4, <2>5, SameRows DEF Abstract!Targets, TasksInv, TypeOK
  <2>7. Abstract!Succeed(i)
    BY <2>1, <2>2, <2>3, <2>4, <2>6 DEF Abstract!Succeed
  <2> QED BY <2>7 DEF Abstract!Next
<1>2. CASE JoinError(i) \/ Crash(i)
  <2>1. Abstract!Fail(i)
    BY <1>2, Fails DEF JoinError, Crash
  <2> QED BY <2>1 DEF Abstract!Next
<1> QED BY <1>1, <1>2

\* Whatever fails or crashes and however imports interleave, each table is
\* updated in one indivisible step with the last value the file has for each
\* entity, and success means all tables were: ImportRun implements TableImport.
THEOREM Refinement == Spec => ImplementsTableImport
<1>1. Init => Abstract!Init
  <2> SUFFICES ASSUME Init PROVE Abstract!Init
    OBVIOUS
  <2>1. \A i \in Import : ~ HasResolved(i)
    BY DEF Init, HasResolved
  <2>2. /\ idsBar = [i \in Import |-> EmptyMap]
        /\ resolvedBar = {}
        /\ outcomeBar = [i \in Import |-> "running"]
    BY <2>1 DEF Init, idsBar, resolvedBar, outcomeBar
  <2> QED BY <2>2, SameRows DEF Init, Abstract!Init
<1>2. TasksInv /\ [Next]_vars => [Abstract!Next]_(Abstract!vars)
  <2> SUFFICES ASSUME TasksInv, [Next]_vars
               PROVE  Abstract!Next \/ UNCHANGED Abstract!vars
    OBVIOUS
  <2>1. CASE UNCHANGED vars
    <3>1. \A j \in Import : HasResolved(j)' <=> HasResolved(j)
      BY <2>1 DEF vars, HasResolved
    <3> QED BY <2>1, <3>1, Stutters DEF vars
  <2> QED BY <2>1, PrepareRefines, TaskRefines, JoinRefines DEF Next, Fault
<1> QED BY <1>1, <1>2, TasksInvariant, PTL DEF Spec, ImplementsTableImport, Abstract!Spec

-----------------------------------------------------------------------------
(* Imports that agree converge.  Every row of a table is the final line of *)
(* some import that has published the table, and an import's rows, once    *)
(* published, stay: a later one replaces their values only.                *)

LandedRows ==
    \A t \in Table :
        /\ \A k \in DOMAIN table[t] :
             \E j \in Import :
                /\ t \in applied[j]
                /\ \E m \in FinalLines(j, t) : /\ KeyOf(j, m, ids[j]) = k
                                               /\ table[t][k] = Csv[j][m].cell[t]
        /\ \A i \in Import : t \in applied[i] =>
             Keys(i, Lines(i, t, ids[i]), ids[i]) \subseteq DOMAIN table[t]

SuccessIsComplete ==
    \A i \in Import : phase[i] = "ok" => \A t \in Table : task[i][t] = "ok"

\* What a transaction publishes for an entity is its last line's cell.
LEMMA PublishedAreFinal ==
    ASSUME IdsNameTheirSku, NEW i \in Import, NEW t \in Table,
           NEW k \in Keys(i, Lines(i, t, ids[i]), ids[i])
    PROVE  \E m \in FinalLines(i, t) :
              /\ KeyOf(i, m, ids[i]) = k
              /\ UpsertRows(i, t, Lines(i, t, ids[i]), ids[i])[k] = Csv[i][m].cell[t]
<1> DEFINE L == Lines(i, t, ids[i])
           K == {n \in L : KeyOf(i, n, ids[i]) = k}
<1>1. K # {} /\ K \in SUBSET (1 .. Len(Csv[i])) /\ Len(Csv[i]) \in Nat
  BY CsvType DEF Keys, Lines
<1>2. Last(K) \in K /\ \A m \in K : m <= Last(K)
  BY <1>1, LastExists
<1>3. UpsertRows(i, t, L, ids[i])[k] = Csv[i][Last(K)].cell[t]
  BY DEF UpsertRows
<1>4. ASSUME NEW m \in L, Csv[i][m].sku = Csv[i][Last(K)].sku
      PROVE  m <= Last(K)
  BY <1>2, <1>4 DEF KeyOf
<1>5. Last(K) \in FinalLines(i, t)
  BY <1>2, <1>4 DEF FinalLines
<1> QED BY <1>2, <1>3, <1>5

\* No step changes what a published import's skus resolve to.
LEMMA LandedStay ==
    ASSUME LandedRows, UNCHANGED <<table, applied>>,
           \A j \in Import : applied[j] # {} => ids'[j] = ids[j]
    PROVE  LandedRows'
<1>1. ASSUME NEW t \in Table, NEW k \in DOMAIN table[t]
      PROVE  \E j \in Import :
                /\ t \in applied'[j]
                /\ \E m \in FinalLines(j, t)' : /\ KeyOf(j, m, ids'[j]) = k
                                                /\ table'[t][k] = Csv[j][m].cell[t]
  <2>1. PICK j \in Import :
          /\ t \in applied[j]
          /\ \E m \in FinalLines(j, t) : /\ KeyOf(j, m, ids[j]) = k
                                         /\ table[t][k] = Csv[j][m].cell[t]
    BY DEF LandedRows
  <2>2. ids'[j] = ids[j]
    BY <2>1
  <2>3. FinalLines(j, t)' = FinalLines(j, t)
    BY <2>2 DEF FinalLines
  <2> QED BY <2>1, <2>2, <2>3
<1>2. ASSUME NEW t \in Table, NEW i \in Import, t \in applied'[i]
      PROVE  Keys(i, Lines(i, t, ids'[i]), ids'[i]) \subseteq DOMAIN table'[t]
  <2>1. ids'[i] = ids[i] /\ t \in applied[i]
    BY <1>2
  <2> QED BY <2>1 DEF LandedRows
<1> QED BY <1>1, <1>2 DEF LandedRows

LEMMA LandedPublish ==
    ASSUME TasksInv, IdsNameTheirSku, LandedRows,
           NEW i \in Import, NEW t \in Table, Publish(i, t)
    PROVE  LandedRows'
<1> DEFINE L == Lines(i, t, ids[i])
<1>1. /\ UNCHANGED ids
      /\ staged[i][t] = UpsertRows(i, t, L, ids[i])
      /\ DOMAIN staged[i][t] = Keys(i, L, ids[i])
  BY UpsertRowsType DEF Publish, prep, TasksInv, SentRows
<1>2. /\ DOMAIN table' = Table
      /\ table'[t] = Upsert(table[t], staged[i][t])
      /\ \A u \in Table \ {t} : table'[u] = table[u]
      /\ applied'[i] = applied[i] \cup {t}
      /\ \A j \in Import \ {i} : applied'[j] = applied[j]
  BY DEF Publish, TasksInv, TypeOK
<1>3. /\ DOMAIN table'[t] = DOMAIN table[t] \cup Keys(i, L, ids[i])
      /\ \A k \in DOMAIN table'[t] :
           table'[t][k] = IF k \in Keys(i, L, ids[i]) THEN staged[i][t][k] ELSE table[t][k]
  BY <1>1, <1>2 DEF Upsert
<1>4. \A j \in Import, u \in Table : FinalLines(j, u)' = FinalLines(j, u)
  BY <1>1 DEF FinalLines
<1> HIDE DEF L
<1>5. ASSUME NEW u \in Table, NEW k \in DOMAIN table'[u]
      PROVE  \E j \in Import :
                /\ u \in applied'[j]
                /\ \E m \in FinalLines(j, u)' : /\ KeyOf(j, m, ids'[j]) = k
                                                /\ table'[u][k] = Csv[j][m].cell[u]
  <2>1. CASE u = t /\ k \in Keys(i, L, ids[i])
    <3>1. \E m \in FinalLines(i, t) :
              /\ KeyOf(i, m, ids[i]) = k
              /\ staged[i][t][k] = Csv[i][m].cell[t]
      BY <1>1, <2>1, PublishedAreFinal DEF L
    <3>2. table'[t][k] = staged[i][t][k]
      BY <1>3, <2>1
    <3> QED BY <1>1, <1>2, <1>4, <2>1, <3>1, <3>2
  <2>2. CASE ~ (u = t /\ k \in Keys(i, L, ids[i]))
    <3>1. k \in DOMAIN table[u] /\ table'[u][k] = table[u][k]
      BY <1>2, <1>3, <2>2
    <3>2. PICK j \in Import :
            /\ u \in applied[j]
            /\ \E m \in FinalLines(j, u) : /\ KeyOf(j, m, ids[j]) = k
                                           /\ table[u][k] = Csv[j][m].cell[u]
      BY <3>1 DEF LandedRows
    <3>3. u \in applied'[j]
      BY <1>2, <3>2
    <3> QED BY <1>1, <1>4, <3>1, <3>2, <3>3
  <2> QED BY <2>1, <2>2
<1>6. ASSUME NEW u \in Table, NEW j \in Import, u \in applied'[j]
      PROVE  Keys(j, Lines(j, u, ids'[j]), ids'[j]) \subseteq DOMAIN table'[u]
  <2>1. CASE j = i /\ u = t
    BY <1>1, <1>3, <2>1 DEF L
  <2>2. CASE ~ (j = i /\ u = t)
    <3>1. u \in applied[j]
      BY <1>2, <1>6, <2>2
    <3>2. Keys(j, Lines(j, u, ids[j]), ids[j]) \subseteq DOMAIN table[u]
      BY <3>1 DEF LandedRows
    <3> QED BY <1>1, <1>2, <1>3, <3>2
  <2> QED BY <2>1, <2>2
<1> QED BY <1>5, <1>6 DEF LandedRows

LEMMA LandedStep ==
    ASSUME RowsInv, TasksInv, LandedRows, [Next]_vars
    PROVE  LandedRows'
<1> USE DEF db, prep, tasks
<1>1. ASSUME NEW i \in Import, Prepare(i) \/ PrepareFails(i) PROVE LandedRows'
  <2>1. /\ phase[i] \in Preparing \cup {"idle"}
        /\ UNCHANGED <<table, applied>>
        /\ \A j \in Import \ {i} : ids'[j] = ids[j]
    BY <1>1 DEF Prepare, Start, LookupChunk, LookupDone, InsertChunk, InsertTaken,
                Collect, PrepareFails, Preparing, TasksInv, TypeOK
  <2>2. applied[i] = {}
    BY <2>1, ImportDataAssumption DEF TasksInv, TasksStart, TypeOK
  <2> QED BY <2>1, <2>2, LandedStay
<1>2. ASSUME NEW i \in Import, NEW t \in Table, Publish(i, t) PROVE LandedRows'
  BY <1>2, LandedPublish DEF RowsInv
<1>3. CASE UNCHANGED <<ids, table, applied>>
  BY <1>3, LandedStay
<1>4. ASSUME NEW i \in Import, NEW t \in Table,
             \/ Flush(i, t) \/ Ending(i, t)
             \/ TaskFails(i, t) \/ CommitUnacknowledged(i, t)
      PROVE  LandedRows'
  BY <1>2, <1>3, <1>4
     DEF Flush, Ending, Begin, SendChunk, SendCommit, Committed, LockRefused, TaskFails,
         CommitUnacknowledged, AbortTask, LateCommit, RollBack
<1>5. ASSUME NEW i \in Import, JoinAll(i) \/ JoinError(i) \/ Crash(i)
      PROVE  LandedRows'
  BY <1>3, <1>5 DEF JoinAll, JoinError, Crash
<1>6. CASE UNCHANGED vars
  BY <1>3, <1>6 DEF vars
<1> QED BY <1>1, <1>4, <1>5, <1>6 DEF Next, Fault

LEMMA SuccessStep ==
    ASSUME TypeOK, SuccessIsComplete, TasksInv, [Next]_vars
    PROVE  SuccessIsComplete'
<1> USE DEF db, prep, tasks
<1>1. ASSUME NEW i \in Import, Prepare(i) \/ PrepareFails(i) PROVE SuccessIsComplete'
  <2>1. phase[i] \in Preparing \cup {"idle"} /\ phase'[i] # "ok"
    BY <1>1 DEF Prepare, Start, LookupChunk, LookupDone, InsertChunk, InsertTaken,
                Collect, PrepareFails, Preparing, TypeOK
  <2>2. \A j \in Import \ {i} : phase'[j] = phase[j] /\ task'[j] = task[j]
    BY <1>1 DEF Prepare, Start, LookupChunk, LookupDone, InsertChunk, InsertTaken,
                Collect, PrepareFails, TypeOK
  <2> QED BY <2>1, <2>2 DEF SuccessIsComplete
<1>2. ASSUME NEW i \in Import, NEW t \in Table,
             \/ Flush(i, t) \/ Ending(i, t)
             \/ TaskFails(i, t) \/ CommitUnacknowledged(i, t)
      PROVE  SuccessIsComplete'
  <2>1. /\ phase' = phase
        /\ \A j \in Import, u \in Table : task'[j][u] # task[j][u] => phase[j] # "ok"
    <3>1. CASE SendChunk(i, t)
      BY <3>1 DEF SendChunk
    <3>2. CASE \E s \in Holding \cup {"ok", "err", "gone"} :
                  SetTask(i, t, s) /\ phase' = phase /\ phase[i] # "ok"
      BY <3>2 DEF SetTask, TypeOK
    <3> QED BY <1>2, <3>1, <3>2
         DEF Flush, Ending, Begin, SendCommit, Committed, LockRefused, TaskFails,
             CommitUnacknowledged, AbortTask, LateCommit, RollBack, Publish, Holding
  <2> QED BY <2>1 DEF SuccessIsComplete
<1>3. ASSUME NEW i \in Import, JoinAll(i) \/ JoinError(i) \/ Crash(i)
      PROVE  SuccessIsComplete'
  BY <1>3 DEF JoinAll, JoinError, Crash, SuccessIsComplete, TypeOK
<1>4. CASE UNCHANGED vars
  BY <1>4 DEF vars, SuccessIsComplete
<1> QED BY <1>1, <1>2, <1>3, <1>4 DEF Next, Fault

\* An import that reports success leaves its file's last value for every
\* entity in the tables, whatever other imports did before, after or at the
\* same time and however they ended, provided those that touched a table meant
\* no other value for a sku of this file.
THEOREM ImportsConverge == Spec => []AgreeingImportsConverge
<1>1. Init => LandedRows /\ SuccessIsComplete
  BY DEF Init, LandedRows, SuccessIsComplete, EmptyMap
<1>2. /\ RowsInv /\ TasksInv /\ LandedRows /\ SuccessIsComplete /\ [Next]_vars
      => LandedRows' /\ SuccessIsComplete'
  BY LandedStep, SuccessStep DEF RowsInv
<1>3. RowsInv /\ TasksInv /\ LandedRows /\ SuccessIsComplete => AgreeingImportsConverge
  <2> SUFFICES
        ASSUME RowsInv, TasksInv, LandedRows, SuccessIsComplete,
               NEW i \in Import, NEW t \in Table, phase[i] = "ok",
               \A j \in Import : t \in applied[j] =>
                 \A n \in FinalLines(i, t), m \in FinalLines(j, t) :
                    Csv[i][n].sku = Csv[j][m].sku => Csv[i][n].cell[t] = Csv[j][m].cell[t],
               NEW n \in FinalLines(i, t)
        PROVE  /\ KeyOf(i, n, ids[i]) \in DOMAIN table[t]
               /\ table[t][KeyOf(i, n, ids[i])] = Csv[i][n].cell[t]
    BY DEF AgreeingImportsConverge
  <2> DEFINE k == KeyOf(i, n, ids[i])
  <2>1. n \in Lines(i, t, ids[i])
    BY DEF FinalLines
  <2>2. t \in applied[i]
    BY <2>1 DEF SuccessIsComplete, TasksInv, PublishedOnce
  <2>3. k \in DOMAIN table[t]
    BY <2>1, <2>2 DEF LandedRows, Keys
  <2>4. PICK j \in Import :
          /\ t \in applied[j]
          /\ \E m \in FinalLines(j, t) : /\ KeyOf(j, m, ids[j]) = k
                                         /\ table[t][k] = Csv[j][m].cell[t]
    BY <2>3 DEF LandedRows
  <2>5. PICK m \in FinalLines(j, t) : /\ KeyOf(j, m, ids[j]) = k
                                      /\ table[t][k] = Csv[j][m].cell[t]
    BY <2>4
  <2>6. entity[k] = Csv[i][n].sku
    BY <2>1 DEF KeyOf, Lines, RowsInv, IdsNameTheirSku
  <2>7. entity[KeyOf(j, m, ids[j])] = Csv[j][m].sku
    BY DEF KeyOf, FinalLines, Lines, RowsInv, IdsNameTheirSku
  <2> HIDE DEF k
  <2>8. Csv[i][n].cell[t] = Csv[j][m].cell[t]
    BY <2>4, <2>5, <2>6, <2>7
  <2> QED BY <2>3, <2>5, <2>8 DEF k
<1> QED BY <1>1, <1>2, <1>3, RowsInvariant, TasksInvariant, PTL DEF Spec

-----------------------------------------------------------------------------
(* The sum of a function's values, as SumFunction computes it: taking the  *)
(* arguments one by one.                                                   *)

Pick(s) == CHOOSE x \in s : TRUE

IsSumTable(g, f, D) ==
    g = [s \in D |-> IF s = {} THEN 0 ELSE f[Pick(s)] + g[s \ {Pick(s)}]]

SumTable(f, S) == CHOOSE g : IsSumTable(g, f, SUBSET S)

LEMMA SumUnfolds ==
    ASSUME NEW f
    PROVE  SumFunction(f) = SumTable(f, DOMAIN f)[DOMAIN f]
BY DEF SumFunction, SumFunctionOnSet, FoldFunctionOnSet, MapThenFoldSet, SumTable,
       IsSumTable, Pick

\* What holds of 0 and, whenever it holds of k, of k + 1.
LEMMA UpTo ==
    ASSUME NEW G \in SUBSET Nat, 0 \in G, \A k \in G : k + 1 \in G
    PROVE  G = Nat
<1> SUFFICES ASSUME Nat \ G # {} PROVE FALSE
  OBVIOUS
<1>1. PICK x \in Nat \ G : \A y \in Nat \ G : x <= y
  BY LeastExists, Nat \ G \in SUBSET Nat
<1>2. x # 0 /\ x - 1 \in Nat
  BY <1>1
<1>3. x - 1 \in G
  BY <1>1, <1>2
<1> QED BY <1>1, <1>3

LEMMA PickOne ==
    ASSUME NEW s, IsFiniteSet(s), s # {}
    PROVE  /\ Pick(s) \in s
           /\ IsFiniteSet(s \ {Pick(s)})
           /\ Cardinality(s \ {Pick(s)}) = Cardinality(s) - 1
           /\ Cardinality(s) \in Nat \ {0}
<1>1. Pick(s) \in s
  BY DEF Pick
<1> QED BY <1>1, FS_RemoveElement, FS_EmptySet, FS_CardinalityType

\* The subsets of S of up to k elements.
UpToSize(S, k) == {s \in SUBSET S : Cardinality(s) <= k}

LEMMA SmallSets ==
    ASSUME NEW S, IsFiniteSet(S)
    PROVE  /\ UpToSize(S, 0) = {{}}
           /\ \A k \in Nat : /\ {} \in UpToSize(S, k)
                             /\ UpToSize(S, k) \subseteq UpToSize(S, k + 1)
                             /\ UpToSize(S, k) \subseteq SUBSET S
           /\ \A k \in Nat : \A s \in UpToSize(S, k + 1) :
                s # {} => Pick(s) \in S /\ s \ {Pick(s)} \in UpToSize(S, k)
           /\ Cardinality(S) \in Nat
           /\ UpToSize(S, Cardinality(S)) = SUBSET S
<1>1. \A s \in SUBSET S : IsFiniteSet(s) /\ Cardinality(s) \in Nat
  BY FS_Subset, FS_CardinalityType
<1>2. Cardinality({}) = 0 /\ \A s \in SUBSET S : Cardinality(s) = 0 => s = {}
  BY <1>1, FS_EmptySet
<1>3. UpToSize(S, 0) = {{}}
  BY <1>1, <1>2 DEF UpToSize
<1>4. ASSUME NEW k \in Nat, NEW s \in UpToSize(S, k + 1), s # {}
      PROVE  Pick(s) \in S /\ s \ {Pick(s)} \in UpToSize(S, k)
  <2>1. s \in SUBSET S /\ IsFiniteSet(s) /\ Cardinality(s) <= k + 1
    BY <1>1 DEF UpToSize
  <2>2. /\ Pick(s) \in s
        /\ Cardinality(s \ {Pick(s)}) = Cardinality(s) - 1
        /\ Cardinality(s) \in Nat
    BY <1>4, <2>1, PickOne
  <2>3. Cardinality(s \ {Pick(s)}) <= k
    BY <2>1, <2>2
  <2> QED BY <2>1, <2>2, <2>3 DEF UpToSize
<1>5. Cardinality(S) \in Nat /\ \A s \in SUBSET S : Cardinality(s) <= Cardinality(S)
  BY FS_Subset, FS_CardinalityType
<1>6. \A k \in Nat : /\ {} \in UpToSize(S, k)
                     /\ UpToSize(S, k) \subseteq UpToSize(S, k + 1)
                     /\ UpToSize(S, k) \subseteq SUBSET S
  BY <1>1, <1>2 DEF UpToSize
<1>7. UpToSize(S, Cardinality(S)) = SUBSET S
  BY <1>5 DEF UpToSize
<1> QED BY <1>3, <1>4, <1>5, <1>6, <1>7

LEMMA SumTableExtends ==
    ASSUME NEW S, IsFiniteSet(S), NEW f \in [S -> Nat], NEW k \in Nat,
           NEW g \in [UpToSize(S, k) -> Nat], IsSumTable(g, f, UpToSize(S, k))
    PROVE  \E h \in [UpToSize(S, k + 1) -> Nat] : IsSumTable(h, f, UpToSize(S, k + 1))
<1> DEFINE D == UpToSize(S, k)
           E == UpToSize(S, k + 1)
           h == [s \in E |-> IF s = {} THEN 0 ELSE f[Pick(s)] + g[s \ {Pick(s)}]]
<1>1. \A s \in E : s # {} => Pick(s) \in S /\ s \ {Pick(s)} \in D
  BY SmallSets
<1>2. D \subseteq E
  BY SmallSets
<1> HIDE DEF D, E
<1>3. h \in [E -> Nat]
  BY <1>1 DEF D
<1>4. \A s \in D : h[s] = g[s]
  <2>1. g = [s \in D |-> IF s = {} THEN 0 ELSE f[Pick(s)] + g[s \ {Pick(s)}]]
    BY DEF IsSumTable, D
  <2>2. \A s \in D : g[s] = IF s = {} THEN 0 ELSE f[Pick(s)] + g[s \ {Pick(s)}]
    BY <2>1
  <2> QED BY <1>2, <2>2
<1>5. h = [s \in E |-> IF s = {} THEN 0 ELSE f[Pick(s)] + h[s \ {Pick(s)}]]
  <2>1. \A s \in E : s # {} => h[s \ {Pick(s)}] = g[s \ {Pick(s)}]
    BY <1>1, <1>4
  <2> QED BY <2>1
<1>6. IsSumTable(h, f, E)
  BY <1>5 DEF IsSumTable
<1> HIDE DEF h
<1> QED BY <1>3, <1>6 DEF E

LEMMA SumTableExists ==
    ASSUME NEW S, IsFiniteSet(S), NEW f \in [S -> Nat]
    PROVE  /\ SumTable(f, S) \in [SUBSET S -> Nat]
           /\ SumTable(f, S)[{}] = 0
           /\ \A s \in SUBSET S : s # {} =>
                SumTable(f, S)[s] = f[Pick(s)] + SumTable(f, S)[s \ {Pick(s)}]
<1> DEFINE G == {k \in Nat : \E g \in [UpToSize(S, k) -> Nat] :
                                IsSumTable(g, f, UpToSize(S, k))}
<1>1. 0 \in G
  <2> DEFINE g == [s \in {{}} |-> 0]
  <2>1. g \in [{{}} -> Nat]
    OBVIOUS
  <2>2. IsSumTable(g, f, {{}})
    BY DEF IsSumTable
  <2>3. UpToSize(S, 0) = {{}}
    BY SmallSets
  <2> HIDE DEF g
  <2>4. \E h \in [UpToSize(S, 0) -> Nat] : IsSumTable(h, f, UpToSize(S, 0))
    BY <2>1, <2>2, <2>3
  <2> QED BY <2>4
<1>2. ASSUME NEW k \in G PROVE k + 1 \in G
  <2>1. PICK g \in [UpToSize(S, k) -> Nat] : IsSumTable(g, f, UpToSize(S, k))
    OBVIOUS
  <2>2. \E h \in [UpToSize(S, k + 1) -> Nat] : IsSumTable(h, f, UpToSize(S, k + 1))
    BY <2>1, SumTableExtends
  <2> QED BY <2>2
<1>3. G = Nat
  BY <1>1, <1>2, UpTo, G \in SUBSET Nat
<1>4. Cardinality(S) \in G /\ UpToSize(S, Cardinality(S)) = SUBSET S
  BY <1>3, SmallSets
<1>5. PICK g0 \in [SUBSET S -> Nat] : IsSumTable(g0, f, SUBSET S)
  BY <1>4
<1> DEFINE g == SumTable(f, S)
<1>6. IsSumTable(g, f, SUBSET S)
  BY <1>5 DEF SumTable
<1> HIDE DEF g
<1>7. g = [s \in SUBSET S |-> IF s = {} THEN 0 ELSE f[Pick(s)] + g[s \ {Pick(s)}]]
  BY <1>6 DEF IsSumTable
<1>8. /\ g[{}] = 0
      /\ \A s \in SUBSET S : s # {} => g[s] = f[Pick(s)] + g[s \ {Pick(s)}]
  BY <1>7
<1> DEFINE H == {k \in Nat : \A s \in UpToSize(S, k) : g[s] \in Nat}
<1>9. 0 \in H
  <2>1. UpToSize(S, 0) = {{}} /\ g[{}] = 0
    BY <1>8, SmallSets
  <2>2. ASSUME NEW s \in UpToSize(S, 0) PROVE g[s] \in Nat
    <3>1. s = {}
      BY <2>1
    <3>2. g[s] = 0
      BY <2>1, <3>1, Zenon
    <3> QED BY <3>2
  <2> QED BY <2>2
<1>10. ASSUME NEW k \in H PROVE k + 1 \in H
  <2> SUFFICES ASSUME NEW s \in UpToSize(S, k + 1) PROVE g[s] \in Nat
    OBVIOUS
  <2>1. CASE s = {}
    BY <1>8, <2>1
  <2>2. CASE s # {}
    <3>1. Pick(s) \in S /\ s \ {Pick(s)} \in UpToSize(S, k)
      BY <2>2, SmallSets
    <3>2. s \in SUBSET S
      BY DEF UpToSize
    <3>3. g[s \ {Pick(s)}] \in Nat /\ f[Pick(s)] \in Nat
      BY <3>1
    <3>4. g[s] = f[Pick(s)] + g[s \ {Pick(s)}]
      BY <1>8, <2>2, <3>2
    <3> QED BY <3>3, <3>4
  <2> QED BY <2>1, <2>2
<1>11. H = Nat
  BY <1>9, <1>10, UpTo, H \in SUBSET Nat
<1>12. \A s \in SUBSET S : g[s] \in Nat
  BY <1>4, <1>11
<1>13. g \in [SUBSET S -> Nat]
  BY <1>7, <1>12
<1> QED BY <1>8, <1>13 DEF g

\* Two functions that differ in i only have sums that differ by as much.
LEMMA SumOfChanged ==
    ASSUME NEW S, IsFiniteSet(S), NEW f \in [S -> Nat], NEW h \in [S -> Nat],
           NEW i \in S, \A x \in S \ {i} : h[x] = f[x]
    PROVE  /\ SumFunction(f) \in Nat /\ SumFunction(h) \in Nat
           /\ SumFunction(h) + f[i] = SumFunction(f) + h[i]
<1> DEFINE F == SumTable(f, S)
           H == SumTable(h, S)
           Off(s) == IF i \in s THEN H[s] + f[i] = F[s] + h[i] ELSE H[s] = F[s]
           G == {k \in Nat : \A s \in UpToSize(S, k) : Off(s)}
<1>1. /\ F \in [SUBSET S -> Nat] /\ F[{}] = 0
      /\ \A s \in SUBSET S : s # {} => F[s] = f[Pick(s)] + F[s \ {Pick(s)}]
  BY SumTableExists
<1>2. /\ H \in [SUBSET S -> Nat] /\ H[{}] = 0
      /\ \A s \in SUBSET S : s # {} => H[s] = h[Pick(s)] + H[s \ {Pick(s)}]
  BY SumTableExists
<1>3. SumFunction(f) = F[S] /\ SumFunction(h) = H[S]
  <2>1. DOMAIN f = S /\ DOMAIN h = S
    OBVIOUS
  <2> QED BY <2>1, SumUnfolds
<1> HIDE DEF F, H
<1>4. 0 \in G
  <2>1. \A s \in UpToSize(S, 0) : s = {}
    BY SmallSets
  <2> QED BY <1>1, <1>2, <2>1
<1>5. ASSUME NEW k \in G PROVE k + 1 \in G
  <2> SUFFICES ASSUME NEW s \in UpToSize(S, k + 1) PROVE Off(s)
    OBVIOUS
  <2>1. CASE s = {}
    BY <1>1, <1>2, <2>1
  <2>2. CASE s # {}
    <3> DEFINE x == Pick(s)
               r == s \ {x}
    <3>1. x \in S /\ r \in UpToSize(S, k)
      BY <2>2, SmallSets
    <3>2. s \in SUBSET S /\ r \in SUBSET S /\ x \in s
      BY <2>2 DEF UpToSize, Pick
    <3>3. F[s] = f[x] + F[r] /\ H[s] = h[x] + H[r]
      BY <1>1, <1>2, <2>2, <3>2
    <3>4. Off(r)
      BY <3>1
    <3>5. /\ f[x] \in Nat /\ h[x] \in Nat /\ f[i] \in Nat /\ h[i] \in Nat
          /\ F[r] \in Nat /\ H[r] \in Nat
      BY <1>1, <1>2, <3>1, <3>2
    <3>6. CASE x = i
      <4>1. i \in s /\ i \notin r
        BY <3>2, <3>6
      <4> HIDE DEF x, r
      <4> QED BY <3>3, <3>4, <3>5, <3>6, <4>1
    <3>7. CASE x # i
      <4>1. h[x] = f[x] /\ (i \in s <=> i \in r)
        BY <3>1, <3>2, <3>7
      <4> HIDE DEF x, r
      <4> QED BY <3>3, <3>4, <3>5, <4>1
    <3> QED BY <3>6, <3>7
  <2> QED BY <2>1, <2>2
<1>6. G = Nat
  BY <1>4, <1>5, UpTo, G \in SUBSET Nat
<1>7. S \in UpToSize(S, Cardinality(S)) /\ Cardinality(S) \in Nat
  BY SmallSets
<1>8. Off(S)
  BY <1>6, <1>7
<1> QED BY <1>1, <1>2, <1>3, <1>8

LEMMA SumOfZeros ==
    ASSUME NEW S, IsFiniteSet(S), NEW f \in [S -> Nat], \A x \in S : f[x] = 0
    PROVE  SumFunction(f) = 0
<1> DEFINE F == SumTable(f, S)
           G == {k \in Nat : \A s \in UpToSize(S, k) : F[s] = 0}
<1>1. /\ F \in [SUBSET S -> Nat] /\ F[{}] = 0
      /\ \A s \in SUBSET S : s # {} => F[s] = f[Pick(s)] + F[s \ {Pick(s)}]
  BY SumTableExists
<1>2. SumFunction(f) = F[S]
  <2>1. DOMAIN f = S
    OBVIOUS
  <2> QED BY <2>1, SumUnfolds
<1> HIDE DEF F
<1>3. 0 \in G
  <2>1. \A s \in UpToSize(S, 0) : s = {}
    BY SmallSets
  <2> QED BY <1>1, <2>1
<1>4. ASSUME NEW k \in G PROVE k + 1 \in G
  <2> SUFFICES ASSUME NEW s \in UpToSize(S, k + 1) PROVE F[s] = 0
    OBVIOUS
  <2>1. CASE s = {}
    BY <1>1, <2>1
  <2>2. CASE s # {}
    <3>1. Pick(s) \in S /\ s \ {Pick(s)} \in UpToSize(S, k)
      BY <2>2, SmallSets
    <3>2. s \in SUBSET S
      BY DEF UpToSize
    <3>3. F[s \ {Pick(s)}] = 0
      BY <3>1
    <3> QED BY <1>1, <2>2, <3>1, <3>2, <3>3
  <2> QED BY <2>1, <2>2
<1>5. G = Nat
  BY <1>3, <1>4, UpTo, G \in SUBSET Nat
<1>6. S \in UpToSize(S, Cardinality(S)) /\ Cardinality(S) \in Nat
  BY SmallSets
<1> QED BY <1>2, <1>5, <1>6

\* A function that is nowhere greater has no greater sum.
LEMMA SumOfLess ==
    ASSUME NEW S, IsFiniteSet(S), NEW f \in [S -> Nat], NEW h \in [S -> Nat],
           \A x \in S : f[x] <= h[x]
    PROVE  /\ SumFunction(f) \in Nat /\ SumFunction(h) \in Nat
           /\ SumFunction(f) <= SumFunction(h)
<1> DEFINE F == SumTable(f, S)
           H == SumTable(h, S)
           G == {k \in Nat : \A s \in UpToSize(S, k) : F[s] <= H[s]}
<1>1. /\ F \in [SUBSET S -> Nat] /\ F[{}] = 0
      /\ \A s \in SUBSET S : s # {} => F[s] = f[Pick(s)] + F[s \ {Pick(s)}]
  BY SumTableExists
<1>2. /\ H \in [SUBSET S -> Nat] /\ H[{}] = 0
      /\ \A s \in SUBSET S : s # {} => H[s] = h[Pick(s)] + H[s \ {Pick(s)}]
  BY SumTableExists
<1>3. SumFunction(f) = F[S] /\ SumFunction(h) = H[S]
  <2>1. DOMAIN f = S /\ DOMAIN h = S
    OBVIOUS
  <2> QED BY <2>1, SumUnfolds
<1> HIDE DEF F, H
<1>4. 0 \in G
  <2>1. \A s \in UpToSize(S, 0) : s = {}
    BY SmallSets
  <2>2. F[{}] <= H[{}]
    BY <1>1, <1>2
  <2>3. \A s \in UpToSize(S, 0) : F[s] <= H[s]
    BY <2>1, <2>2
  <2> QED BY <2>3
<1>5. ASSUME NEW k \in G PROVE k + 1 \in G
  <2> SUFFICES ASSUME NEW s \in UpToSize(S, k + 1) PROVE F[s] <= H[s]
    OBVIOUS
  <2>1. CASE s = {}
    BY <1>1, <1>2, <2>1
  <2>2. CASE s # {}
    <3> DEFINE x == Pick(s)
               r == s \ {x}
    <3>1. x \in S /\ r \in UpToSize(S, k)
      BY <2>2, SmallSets
    <3>2. s \in SUBSET S /\ r \in SUBSET S
      BY DEF UpToSize
    <3>3. F[s] = f[x] + F[r] /\ H[s] = h[x] + H[r]
      BY <1>1, <1>2, <2>2, <3>2
    <3>4. F[r] <= H[r] /\ f[x] <= h[x]
      BY <3>1
    <3>5. f[x] \in Nat /\ h[x] \in Nat /\ F[r] \in Nat /\ H[r] \in Nat
      BY <1>1, <1>2, <3>1, <3>2
    <3> HIDE DEF x, r
    <3> QED BY <3>3, <3>4, <3>5
  <2> QED BY <2>1, <2>2
<1>6. G = Nat
  BY <1>4, <1>5, UpTo, G \in SUBSET Nat
<1>7. S \in UpToSize(S, Cardinality(S)) /\ Cardinality(S) \in Nat
  BY SmallSets
<1>8. F[S] <= H[S]
  BY <1>6, <1>7
<1> QED BY <1>1, <1>2, <1>3, <1>8
-----------------------------------------------------------------------------
(* The counts of ImportResult.  Between its counting and its last insert   *)
(* an import's created is ahead of the entities it has made by the skus it *)
(* has still to insert; a failed import has left entities that nobody      *)
(* counts.                                                                 *)

\* The entities an import has made, unless it has failed.
claimed ==
    [i \in Import |-> IF phase[i] = "failed" THEN 0
                      ELSE IF phase[i] = "insert" THEN created[i] - Cardinality(pending[i])
                      ELSE created[i]]

CountsInv ==
    /\ \A i \in Import :
         /\ phase[i] \in {"idle", "lookup"} => created[i] = 0
         /\ phase[i] = "insert" => Cardinality(pending[i]) <= created[i]
         /\ phase[i] \in {"insert", "flush", "ok"} =>
              created[i] + updated[i] = Cardinality(PrimarySkus(i))
    /\ SumFunction(claimed) <= Cardinality(DOMAIN entity)
    /\ (\A i \in Import : phase[i] # "failed") =>
         SumFunction(claimed) = Cardinality(DOMAIN entity)

LEMMA ClaimedType ==
    ASSUME TypeOK, \A i \in Import : phase[i] = "insert" => Cardinality(pending[i]) <= created[i]
    PROVE  claimed \in [Import -> Nat]
<1>1. \A i \in Import : Cardinality(pending[i]) \in Nat /\ created[i] \in Nat
  BY CardinalityOfSkus DEF TypeOK
<1> QED BY <1>1 DEF claimed

\* There are finitely many entities.
LEMMA EntityCount ==
    ASSUME TypeOK
    PROVE  IsFiniteSet(DOMAIN entity) /\ Cardinality(DOMAIN entity) \in Nat
<1>1. nextId - 1 \in Int /\ 1 \in Int /\ DOMAIN entity \subseteq 1 .. nextId - 1
  BY DEF TypeOK
<1>2. IsFiniteSet(1 .. nextId - 1)
  BY <1>1, FS_Interval
<1> QED BY <1>1, <1>2, FS_Subset, FS_CardinalityType

\* A step of one import that inserts n entities, or fails.
LEMMA CountsStep ==
    ASSUME TypeOK, TypeOK', CountsInv, NEW i \in Import, NEW n \in Nat,
           \A j \in Import \ {i} : /\ phase'[j] = phase[j] /\ pending'[j] = pending[j]
                                   /\ created'[j] = created[j] /\ updated'[j] = updated[j],
           phase[i] = "failed" => phase'[i] = "failed",
           phase'[i] \in {"idle", "lookup"} => created'[i] = 0,
           phase'[i] = "insert" => Cardinality(pending'[i]) <= created'[i],
           phase'[i] \in {"insert", "flush", "ok"} =>
              created'[i] + updated'[i] = Cardinality(PrimarySkus(i)),
           phase'[i] = "failed" => entity' = entity,
           phase'[i] # "failed" =>
              /\ claimed'[i] = claimed[i] + n
              /\ Cardinality(DOMAIN entity') = Cardinality(DOMAIN entity) + n
    PROVE  CountsInv'
<1>1. \A j \in Import :
        /\ phase'[j] \in {"idle", "lookup"} => created'[j] = 0
        /\ phase'[j] = "insert" => Cardinality(pending'[j]) <= created'[j]
        /\ phase'[j] \in {"insert", "flush", "ok"} =>
             created'[j] + updated'[j] = Cardinality(PrimarySkus(j))
  BY DEF CountsInv
<1>2. claimed \in [Import -> Nat]
  BY ClaimedType DEF CountsInv
<1>3. claimed' \in [Import -> Nat]
  <2>1. \A j \in Import : Cardinality(pending'[j]) \in Nat /\ created'[j] \in Nat
    BY CardinalityOfSkus DEF TypeOK
  <2> QED BY <1>1, <2>1 DEF claimed
<1>4. \A j \in Import \ {i} : claimed'[j] = claimed[j]
  BY DEF claimed
<1>5. /\ SumFunction(claimed) \in Nat /\ SumFunction(claimed') \in Nat
      /\ SumFunction(claimed') + claimed[i] = SumFunction(claimed) + claimed'[i]
  <2>1. \A f, h \in [Import -> Nat] :
          (\A j \in Import \ {i} : h[j] = f[j]) =>
            /\ SumFunction(f) \in Nat /\ SumFunction(h) \in Nat
            /\ SumFunction(h) + f[i] = SumFunction(f) + h[i]
    BY ImportRunAssumption, SumOfChanged
  <2> HIDE DEF claimed
  <2> QED BY <1>2, <1>3, <1>4, <2>1
<1>6. claimed[i] \in Nat /\ Cardinality(DOMAIN entity) \in Nat
  BY <1>2, EntityCount
<1>7. CASE phase'[i] = "failed"
  <2>1. claimed'[i] = 0
    BY <1>7 DEF claimed
  <2>2. SumFunction(claimed) <= Cardinality(DOMAIN entity)
    BY DEF CountsInv
  <2>3. SumFunction(claimed') <= Cardinality(DOMAIN entity')
    <3>1. entity' = entity
      BY <1>7
    <3> HIDE DEF claimed
    <3> QED BY <1>5, <1>6, <2>1, <2>2, <3>1
  <2> QED BY <1>1, <1>7, <2>3 DEF CountsInv
<1>8. CASE phase'[i] # "failed"
  <2>1. /\ claimed'[i] = claimed[i] + n
        /\ Cardinality(DOMAIN entity') = Cardinality(DOMAIN entity) + n
    BY <1>8
  <2>2. /\ SumFunction(claimed) <= Cardinality(DOMAIN entity)
        /\ (\A j \in Import : phase[j] # "failed") =>
              SumFunction(claimed) = Cardinality(DOMAIN entity)
    BY DEF CountsInv
  <2>3. SumFunction(claimed') = SumFunction(claimed) + n
    BY <1>5, <1>6, <2>1
  <2>4. (\A j \in Import : phase'[j] # "failed") => \A j \in Import : phase[j] # "failed"
    OBVIOUS
  <2>5. /\ SumFunction(claimed') <= Cardinality(DOMAIN entity')
        /\ (\A j \in Import : phase[j] # "failed") =>
              SumFunction(claimed') = Cardinality(DOMAIN entity')
    BY <1>5, <1>6, <2>1, <2>2, <2>3
  <2> QED BY <1>1, <2>4, <2>5 DEF CountsInv
<1> QED BY <1>7, <1>8

LEMMA CountsPrepare ==
    ASSUME TypeOK, TypeOK', CountsInv, NEW i \in Import, Prepare(i) \/ PrepareFails(i)
    PROVE  CountsInv'
<1> USE DEF db, prep, tasks
<1>0. /\ Cardinality(pending[i]) \in Nat /\ created[i] \in Nat /\ nextId \in Nat
      /\ PrimarySkus(i) \in SUBSET Sku /\ IsFiniteSet(PrimarySkus(i))
      /\ 0 \in Nat
  BY CardinalityOfSkus, SkuSets, ImportDataAssumption, FS_Subset DEF TypeOK
<1>a. /\ phase[i] # "failed" => claimed[i] =
           IF phase[i] = "insert" THEN created[i] - Cardinality(pending[i]) ELSE created[i]
      /\ phase'[i] # "failed" => claimed'[i] =
           IF phase'[i] = "insert" THEN created'[i] - Cardinality(pending'[i]) ELSE created'[i]
  BY DEF claimed
<1>b. Cardinality(DOMAIN entity) \in Nat /\ IsFiniteSet(DOMAIN entity)
  BY EntityCount
<1>c. entity' = entity => Cardinality(DOMAIN entity') = Cardinality(DOMAIN entity) + 0
  BY <1>b
<1>1. CASE Start(i) \/ LookupChunk(i)
  <2>1. /\ UNCHANGED <<entity, nextId, created, updated>>
        /\ phase[i] \in {"idle", "lookup"} /\ phase'[i] = "lookup"
        /\ \A j \in Import \ {i} : phase'[j] = phase[j] /\ pending'[j] = pending[j]
    BY <1>1 DEF Start, LookupChunk, TypeOK
  <2>2. created[i] = 0 /\ claimed'[i] = claimed[i] + 0
    BY <1>0, <1>a, <2>1 DEF CountsInv
  <2> QED BY <1>0, <1>c, <2>1, <2>2, CountsStep
<1>2. CASE LookupDone(i)
  <2> DEFINE D == DOMAIN ids[i]
  <2>1. /\ UNCHANGED <<entity, nextId>>
        /\ phase[i] = "lookup" /\ phase'[i] = "insert"
        /\ pending'[i] = PrimarySkus(i) \ D
        /\ created'[i] = Cardinality(PrimarySkus(i) \ D)
        /\ updated'[i] = Cardinality(PrimarySkus(i) \cap D)
        /\ \A j \in Import \ {i} : /\ phase'[j] = phase[j] /\ pending'[j] = pending[j]
                                   /\ created'[j] = created[j] /\ updated'[j] = updated[j]
    BY <1>2 DEF LookupDone, TypeOK
  <2> HIDE DEF D
  <2>2. /\ Cardinality(PrimarySkus(i) \ D) \in Nat
        /\ Cardinality(PrimarySkus(i) \cap D) \in Nat
        /\ Cardinality(PrimarySkus(i)) \in Nat
        /\ Cardinality(PrimarySkus(i) \ D)
             = Cardinality(PrimarySkus(i)) - Cardinality(PrimarySkus(i) \cap D)
    BY <1>0, FS_Difference, FS_Intersection, FS_CardinalityType
  <2>3. created'[i] + updated'[i] = Cardinality(PrimarySkus(i))
    BY <2>1, <2>2
  <2>4. Cardinality(pending'[i]) <= created'[i]
    BY <2>1, <2>2
  <2>5. claimed'[i] = claimed[i] + 0
    <3>1. claimed[i] = 0
      BY <1>a, <2>1 DEF CountsInv
    <3>2. Cardinality(pending'[i]) = created'[i] /\ created'[i] \in Nat
      BY <2>1, <2>2
    <3>3. claimed'[i] = created'[i] - created'[i]
      BY <1>a, <2>1, <3>2
    <3>4. \A k \in Nat : k - k = 0
      OBVIOUS
    <3>5. claimed'[i] = 0
      BY <3>2, <3>3, <3>4
    <3>6. 0 + 0 = 0
      OBVIOUS
    <3> QED BY <3>1, <3>5, <3>6
  <2>6. /\ Cardinality(DOMAIN entity') = Cardinality(DOMAIN entity) + 0
        /\ phase'[i] \notin {"idle", "lookup", "failed"} /\ phase[i] # "failed"
    BY <1>c, <2>1
  <2>7. \A j \in Import \ {i} : /\ phase'[j] = phase[j] /\ pending'[j] = pending[j]
                                /\ created'[j] = created[j] /\ updated'[j] = updated[j]
    BY <2>1
  <2> QED BY <1>0, <2>3, <2>4, <2>5, <2>6, <2>7, CountsStep
<1>3. CASE InsertChunk(i)
  <2>1. PICK c \in SUBSET pending[i] :
          /\ \E q \in RowOrders(c) :
               entity' = Upsert(entity,
                 [id \in nextId .. nextId + Cardinality(c) - 1 |-> q[id - nextId + 1]])
          /\ nextId' = nextId + Cardinality(c)
          /\ pending' = [pending EXCEPT ![i] = @ \ c]
    BY <1>3 DEF InsertChunk
  <2>2. /\ phase[i] = "insert" /\ UNCHANGED <<phase, created, updated>>
        /\ pending'[i] = pending[i] \ c
        /\ \A j \in Import \ {i} : pending'[j] = pending[j]
    BY <1>3, <2>1 DEF InsertChunk, TypeOK
  <2>3. DOMAIN entity' = DOMAIN entity \cup (nextId .. nextId + Cardinality(c) - 1)
    BY <2>1 DEF Upsert
  <2>4. /\ Cardinality(c) \in Nat /\ Cardinality(pending[i] \ c) \in Nat
        /\ Cardinality(pending[i] \ c) = Cardinality(pending[i]) - Cardinality(c)
    <3>1. IsFiniteSet(pending[i]) /\ c \subseteq pending[i]
      BY ImportDataAssumption, FS_Subset DEF TypeOK
    <3>2. pending[i] \cap c = c
      BY <3>1
    <3> QED BY <3>1, <3>2, FS_Difference, FS_Subset, FS_CardinalityType
  <2>5. /\ Cardinality(pending'[i]) <= created'[i]
        /\ created'[i] + updated'[i] = Cardinality(PrimarySkus(i))
    BY <1>0, <2>2, <2>4 DEF CountsInv
  <2>6. claimed'[i] = claimed[i] + Cardinality(c)
    <3>1. /\ claimed[i] = created[i] - Cardinality(pending[i])
          /\ claimed'[i] = created[i] - Cardinality(pending[i] \ c)
      BY <1>a, <2>2
    <3> QED BY <1>0, <2>4, <3>1
  <2>7. Cardinality(DOMAIN entity') = Cardinality(DOMAIN entity) + Cardinality(c)
    <3> DEFINE new == nextId .. nextId + Cardinality(c) - 1
    <3>1. nextId \in Nat \ {0} /\ DOMAIN entity \subseteq 1 .. nextId - 1
      BY DEF TypeOK
    <3>2. DOMAIN entity \cap new = {}
      BY <2>4, <3>1
    <3>3. IsFiniteSet(new) /\ Cardinality(new) = Cardinality(c)
      <4> DEFINE last == nextId + Cardinality(c) - 1
      <4>1. nextId \in Int /\ last \in Int
        BY <2>4, <3>1
      <4>2. ASSUME NEW a \in Int, NEW b \in Int
            PROVE  IsFiniteSet(a .. b) /\ Cardinality(a .. b) = IF a > b THEN 0 ELSE b - a + 1
        BY FS_Interval
      <4>3. last - nextId + 1 = Cardinality(c) /\ (nextId > last => Cardinality(c) = 0)
        BY <2>4, <3>1
      <4>4. new = nextId .. last
        OBVIOUS
      <4> HIDE DEF last, new
      <4>5. IsFiniteSet(new) /\ Cardinality(new) = IF nextId > last THEN 0 ELSE last - nextId + 1
        BY <4>1, <4>2, <4>4
      <4> QED BY <4>3, <4>5
    <3> HIDE DEF new
    <3>4. Cardinality(DOMAIN entity \cup new) = Cardinality(DOMAIN entity) + Cardinality(new)
      <4>1. Cardinality(DOMAIN entity \cup new)
              = Cardinality(DOMAIN entity) + Cardinality(new) - Cardinality(DOMAIN entity \cap new)
        BY <1>b, <3>3, FS_Union
      <4>2. Cardinality(DOMAIN entity \cap new) = 0
        BY <3>2, FS_EmptySet
      <4> QED BY <1>b, <2>4, <3>3, <4>1, <4>2
    <3> QED BY <2>3, <3>3, <3>4 DEF new
  <2> QED BY <2>1, <2>2, <2>4, <2>5, <2>6, <2>7, CountsStep
<1>4. CASE InsertTaken(i) \/ PrepareFails(i)
  <2>1. /\ phase'[i] = "failed" /\ UNCHANGED <<entity, pending, created, updated>>
        /\ \A j \in Import \ {i} : phase'[j] = phase[j]
    BY <1>4 DEF InsertTaken, PrepareFails, TypeOK
  <2> QED BY <1>0, <2>1, CountsStep
<1>5. CASE Collect(i)
  <2>1. /\ phase[i] = "insert" /\ phase'[i] = "flush" /\ pending[i] = {}
        /\ UNCHANGED <<entity, nextId, pending, created, updated>>
        /\ \A j \in Import \ {i} : phase'[j] = phase[j]
    BY <1>5 DEF Collect, TypeOK
  <2>2. created'[i] + updated'[i] = Cardinality(PrimarySkus(i))
    BY <2>1 DEF CountsInv
  <2>3. claimed'[i] = claimed[i] + 0
    BY <1>0, <1>a, <2>1, FS_EmptySet
  <2> QED BY <1>0, <1>c, <2>1, <2>2, <2>3, CountsStep
<1> QED BY <1>1, <1>2, <1>3, <1>4, <1>5 DEF Prepare

LEMMA CountsJoin ==
    ASSUME TypeOK, TypeOK', CountsInv, NEW i \in Import,
           JoinAll(i) \/ JoinError(i) \/ Crash(i)
    PROVE  CountsInv'
<1>1. /\ phase[i] = "flush" /\ phase'[i] \in {"ok", "failed"}
      /\ UNCHANGED <<entity, nextId, pending, created, updated>>
      /\ \A j \in Import \ {i} : phase'[j] = phase[j]
  BY DEF JoinAll, JoinError, Crash, db, prep, tasks, TypeOK
<1>2. created'[i] + updated'[i] = Cardinality(PrimarySkus(i))
  BY <1>1 DEF CountsInv
<1>3. phase'[i] # "failed" => claimed'[i] = claimed[i] + 0
  BY <1>1 DEF claimed, TypeOK
<1>4. 0 \in Nat /\ Cardinality(DOMAIN entity') = Cardinality(DOMAIN entity) + 0
  BY <1>1, EntityCount
<1> QED BY <1>1, <1>2, <1>3, <1>4, CountsStep

LEMMA CountsInvariant == Spec => []CountsInv
<1>1. Init => CountsInv
  <2> SUFFICES ASSUME Init PROVE CountsInv
    OBVIOUS
  <2>1. claimed \in [Import -> Nat] /\ \A i \in Import : claimed[i] = 0
    BY DEF Init, claimed
  <2>2. SumFunction(claimed) = 0
    <3> HIDE DEF claimed
    <3> QED BY <2>1, SumOfZeros, ImportRunAssumption
  <2>3. Cardinality(DOMAIN entity) = 0
    BY FS_EmptySet DEF Init, EmptyMap
  <2> QED BY <2>2, <2>3 DEF Init, CountsInv
<1>2. TypeOK /\ TypeOK' /\ CountsInv /\ [Next]_vars => CountsInv'
  <2> SUFFICES ASSUME TypeOK, TypeOK', CountsInv, [Next]_vars PROVE CountsInv'
    OBVIOUS
  <2>1. CASE UNCHANGED <<entity, nextId, phase, pending, created, updated>>
    <3>1. claimed' = claimed
      BY <2>1 DEF claimed
    <3> QED BY <2>1, <3>1 DEF CountsInv
  <2>2. ASSUME NEW i \in Import, NEW t \in Table,
               \/ Flush(i, t) \/ Ending(i, t)
               \/ TaskFails(i, t) \/ CommitUnacknowledged(i, t)
        PROVE  CountsInv'
    BY <2>1, <2>2
       DEF Flush, Ending, Begin, SendChunk, SendCommit, Committed, LockRefused, TaskFails,
           CommitUnacknowledged, AbortTask, LateCommit, RollBack, Publish, db, prep
  <2>3. CASE UNCHANGED vars
    BY <2>1, <2>3 DEF vars
  <2> QED BY <2>2, <2>3, CountsPrepare, CountsJoin DEF Next, Fault
<1> QED BY <1>1, <1>2, TypeCorrect, PTL DEF Spec

\* Those of the imports that succeed report no more created products than
\* there are entities, whatever fails beside them, and no fewer once all have
\* succeeded; each has counted each sku of its file once.
THEOREM CountsAddUp == Spec => []CreatedAddsUp
<1>1. TypeOK /\ CountsInv => CreatedAddsUp
  <2> SUFFICES ASSUME TypeOK, CountsInv PROVE CreatedAddsUp
    OBVIOUS
  <2>1. claimed \in [Import -> Nat]
    BY ClaimedType DEF CountsInv
  <2>2. reported \in [Import -> Nat]
    BY DEF reported, TypeOK
  <2>3. \A i \in Import : reported[i] <= claimed[i]
    <3> SUFFICES ASSUME NEW i \in Import PROVE reported[i] <= claimed[i]
      OBVIOUS
    <3>1. claimed[i] \in Nat /\ created[i] \in Nat
      BY <2>1 DEF TypeOK
    <3>2. reported[i] = IF phase[i] = "ok" THEN created[i] ELSE 0
      BY DEF reported
    <3>3. phase[i] = "ok" => claimed[i] = created[i]
      BY DEF claimed
    <3> QED BY <3>1, <3>2, <3>3
  <2>4. /\ SumFunction(reported) \in Nat /\ SumFunction(claimed) \in Nat
        /\ SumFunction(reported) <= SumFunction(claimed)
    <3>1. \A f, h \in [Import -> Nat] :
            (\A i \in Import : f[i] <= h[i]) =>
              /\ SumFunction(f) \in Nat /\ SumFunction(h) \in Nat
              /\ SumFunction(f) <= SumFunction(h)
      BY ImportRunAssumption, SumOfLess
    <3> HIDE DEF claimed, reported
    <3> QED BY <2>1, <2>2, <2>3, <3>1
  <2>5. SumFunction(claimed) <= Cardinality(DOMAIN entity)
    BY DEF CountsInv
  <2>6. SumFunction(reported) <= Cardinality(DOMAIN entity)
    BY <2>4, <2>5, EntityCount
  <2>7. (\A i \in Import : phase[i] = "ok") => SumFunction(reported) = Cardinality(DOMAIN entity)
    <3> SUFFICES ASSUME \A i \in Import : phase[i] = "ok"
                 PROVE  SumFunction(reported) = Cardinality(DOMAIN entity)
      OBVIOUS
    <3>1. reported = claimed
      BY DEF reported, claimed
    <3>2. SumFunction(claimed) = Cardinality(DOMAIN entity)
      BY DEF CountsInv
    <3> QED BY <3>1, <3>2
  <2>8. \A i \in Import : phase[i] = "ok" =>
           created[i] + updated[i] = Cardinality(PrimarySkus(i))
    BY DEF CountsInv
  <2> QED BY <2>6, <2>7, <2>8 DEF CreatedAddsUp
<1> QED BY <1>1, TypeCorrect, CountsInvariant, PTL
==============================================================================
