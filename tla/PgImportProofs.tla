--------------------------- MODULE PgImportProofs ---------------------------
(* sku_to_id is right in PgImport, and PgImport implements TableImport, for *)
(* every value of the constants.                                           *)
EXTENDS PgImport, FiniteSetTheorems, WellFoundedInduction, TLAPS

LEMMA SkuSets ==
    ASSUME NEW i \in Import
    PROVE  /\ PrimarySkus(i) \in SUBSET Sku
           /\ LookupSkus(i) = PrimarySkus(i)
           /\ DOMAIN Csv[i] \subseteq Nat
<1>1. /\ Csv[i] \in Seq(Row) /\ DOMAIN Csv[i] = 1 .. Len(Csv[i])
      /\ \A n \in DOMAIN Csv[i] : Csv[i][n] \in Row
  BY ImportDataAssumption
<1>2. PrimarySkus(i) \in SUBSET Sku
  BY <1>1 DEF PrimarySkus, Row
<1>3. LookupSkus(i) = PrimarySkus(i)
  BY PgImportAssumption DEF LookupSkus
<1> QED BY <1>1, <1>2, <1>3

LEMMA UpsertType ==
    \A S, f, g :
        f \in [DOMAIN f -> S] /\ g \in [DOMAIN g -> S] =>
            /\ DOMAIN Upsert(f, g) = DOMAIN f \cup DOMAIN g
            /\ Upsert(f, g) \in [DOMAIN Upsert(f, g) -> S]
BY DEF Upsert

-----------------------------------------------------------------------------
(* A set of numbers with an upper bound has a last element. *)

LEMMA LeastExists ==
    ASSUME NEW T \in SUBSET Nat, T # {}
    PROVE  \E x \in T : \A y \in T : x <= y
<1>1. PICK x \in T : \A y \in T : ~ (<<y, x>> \in OpToRel(<, Nat))
  BY NatLessThanWellFounded, WFMin, Zenon
<1>2. \A y \in T : <<y, x>> \in OpToRel(<, Nat) <=> y < x
  BY Zenon DEF OpToRel
<1>3. \A y \in T : ~ (y < x)
  BY <1>1, <1>2, Zenon
<1> QED BY <1>3

LEMMA LastExists ==
    ASSUME NEW n \in Nat, NEW L \in SUBSET (1 .. n), L # {}
    PROVE  Last(L) \in L
<1> DEFINE T == {n - m : m \in L}
<1>1. T \in SUBSET Nat /\ T # {}
  <2>1. \A m \in L : n - m \in Nat
    OBVIOUS
  <2>2. PICK m \in L : n - m \in T
    OBVIOUS
  <2> QED BY <2>1, <2>2
<1>2. PICK x \in T : \A y \in T : x <= y
  BY <1>1, LeastExists
<1>3. PICK m \in L : x = n - m
  OBVIOUS
<1>4. \A k \in L : k <= m
  BY <1>2, <1>3
<1> QED BY <1>4 DEF Last

\* The rows of a set of lines are well-typed: each key has a last line.
LEMMA UpsertRowsType ==
    ASSUME NEW i \in Import, NEW t \in Table, NEW m, NEW L \in SUBSET Lines(i, t, m)
    PROVE  UpsertRows(i, t, L, m) \in [DOMAIN UpsertRows(i, t, L, m) -> Value]
<1>1. SUFFICES ASSUME NEW k \in Keys(i, L, m)
      PROVE  Csv[i][Last({n \in L : KeyOf(i, n, m) = k})].cell[t] \in Value
  BY DEF UpsertRows
<1> DEFINE K == {n \in L : KeyOf(i, n, m) = k}
<1>2. /\ Csv[i] \in Seq(Row) /\ DOMAIN Csv[i] = 1 .. Len(Csv[i])
      /\ Len(Csv[i]) \in Nat
      /\ \A n \in DOMAIN Csv[i] : Csv[i][n] \in Row
  BY ImportDataAssumption
<1>3. K # {} /\ K \in SUBSET (1 .. Len(Csv[i]))
  BY <1>2 DEF Keys, Lines
<1>4. Last(K) \in L
  BY <1>2, <1>3, LastExists
<1>5. Csv[i][Last(K)] \in Row /\ Csv[i][Last(K)].cell[t] # NoValue
  BY <1>2, <1>4 DEF Lines
<1> QED BY <1>5 DEF Row
-----------------------------------------------------------------------------
(* What resolving skus does to the entities and to sku_to_id. *)

\* The id of s is as before, or that of the entity s.
KeptOrNamed(j, s) ==
    \/ s \in DOMAIN ids[j] /\ ids'[j][s] = ids[j][s]
    \/ ids'[j][s] \in DOMAIN entity' /\ entity'[ids'[j][s]] = s

LEMMA LookedUp ==
    ASSUME TypeOK, NEW i \in Import, LookupChunk(i)
    PROVE  /\ UNCHANGED <<entity, nextId>>
           /\ DOMAIN ids' = Import
           /\ \A j \in Import \ {i} : ids'[j] = ids[j] /\ pending'[j] = pending[j]
           /\ \A s \in DOMAIN ids'[i] : KeptOrNamed(i, s)
           /\ DOMAIN ids'[i] \subseteq DOMAIN ids[i] \cup pending[i]
           /\ \E c \in SUBSET pending[i] : pending' = [pending EXCEPT ![i] = @ \ c]
<1>1. PICK c \in SUBSET pending[i] :
        /\ ids' = [ids EXCEPT ![i] = Upsert(@, BySku(EntitiesOf(c)))]
        /\ pending' = [pending EXCEPT ![i] = @ \ c]
  BY DEF LookupChunk
<1> DEFINE g == BySku(EntitiesOf(c))
<1>2. \A s \in DOMAIN g : g[s] \in DOMAIN entity /\ entity[g[s]] = s /\ s \in c
  BY DEF BySku, EntitiesOf
<1>3. /\ DOMAIN ids'[i] = DOMAIN ids[i] \cup DOMAIN g
      /\ \A s \in DOMAIN ids'[i] :
           ids'[i][s] = IF s \in DOMAIN g THEN g[s] ELSE ids[i][s]
  BY <1>1 DEF TypeOK, Upsert
<1> HIDE DEF g
<1>4. UNCHANGED <<entity, nextId>>
  BY DEF LookupChunk, db
<1>5. \A s \in DOMAIN ids'[i] : KeptOrNamed(i, s)
  BY <1>2, <1>3, <1>4 DEF KeptOrNamed
<1>6. /\ DOMAIN ids' = Import
      /\ \A j \in Import \ {i} : ids'[j] = ids[j] /\ pending'[j] = pending[j]
  BY <1>1 DEF TypeOK
<1> QED BY <1>1, <1>2, <1>3, <1>4, <1>5, <1>6

LEMMA InsertedRows ==
    ASSUME TypeOK, NEW i \in Import, InsertChunk(i)
    PROVE  /\ nextId' \in Nat \ {0}
           /\ DOMAIN entity' \subseteq 1 .. nextId' - 1
           /\ entity' \in [DOMAIN entity' -> Sku]
           /\ \A k, n \in DOMAIN entity' : entity'[k] = entity'[n] => k = n
           /\ DOMAIN entity \subseteq DOMAIN entity'
           /\ \A id \in DOMAIN entity : entity'[id] = entity[id]
           /\ DOMAIN ids' = Import
           /\ \A j \in Import \ {i} : ids'[j] = ids[j] /\ pending'[j] = pending[j]
           /\ \A s \in DOMAIN ids'[i] : KeptOrNamed(i, s)
           /\ \E c \in SUBSET pending[i] :
                /\ DOMAIN ids'[i] = DOMAIN ids[i] \cup c
                /\ pending' = [pending EXCEPT ![i] = @ \ c]
<1>1. PICK c \in SUBSET pending[i] :
        /\ EntitiesOf(c) = {}
        /\ \E f \in Inserted(c) :
             /\ entity' = Upsert(entity,
                  [id \in {f[s] : s \in c} |-> CHOOSE s \in c : f[s] = id])
             /\ ids' = [ids EXCEPT ![i] = Upsert(@, Returned(f))]
        /\ nextId' = nextId + Cardinality(c)
        /\ pending' = [pending EXCEPT ![i] = @ \ c]
  BY DEF InsertChunk
<1>2. PICK f \in Inserted(c) :
        /\ entity' = Upsert(entity,
             [id \in {f[s] : s \in c} |-> CHOOSE s \in c : f[s] = id])
        /\ ids' = [ids EXCEPT ![i] = Upsert(@, f)]
  BY <1>1 DEF Returned
<1>3. c \in SUBSET Sku /\ Cardinality(c) \in Nat
  <2>1. c \in SUBSET Sku
    BY DEF TypeOK
  <2> QED BY <2>1, ImportDataAssumption, FS_Subset, FS_CardinalityType
<1>4. /\ f \in [c -> nextId .. nextId + Cardinality(c) - 1]
      /\ \A s, r \in c : f[s] = f[r] => s = r
  BY DEF Inserted
<1>5. /\ nextId \in Nat \ {0} /\ DOMAIN entity \subseteq 1 .. nextId - 1
      /\ entity \in [DOMAIN entity -> Sku]
      /\ \A k, n \in DOMAIN entity : entity[k] = entity[n] => k = n
  BY DEF TypeOK
<1> DEFINE rows == {f[s] : s \in c}
<1>6. /\ DOMAIN entity' = DOMAIN entity \cup rows
      /\ \A id \in DOMAIN entity' :
           entity'[id] = IF id \in rows THEN CHOOSE s \in c : f[s] = id ELSE entity[id]
  BY <1>2 DEF Upsert
<1>7. \A s \in c : f[s] \in rows /\ entity'[f[s]] = s
  <2> TAKE s \in c
  <2>1. f[s] \in rows
    OBVIOUS
  <2>2. \A r \in c : f[r] = f[s] <=> r = s
    BY <1>4
  <2>3. (CHOOSE r \in c : f[r] = f[s]) = s
    BY <2>2
  <2> QED BY <1>6, <2>1, <2>3
<1>8. \A id \in rows : id \in nextId .. nextId + Cardinality(c) - 1 /\ id \notin DOMAIN entity
  BY <1>3, <1>4, <1>5
<1>9. \A id \in rows : entity'[id] \in c /\ f[entity'[id]] = id
  BY <1>7
<1>10. /\ DOMAIN ids' = Import
       /\ \A j \in Import \ {i} : ids'[j] = ids[j] /\ pending'[j] = pending[j]
       /\ DOMAIN ids'[i] = DOMAIN ids[i] \cup c
       /\ \A s \in DOMAIN ids'[i] : ids'[i][s] = IF s \in c THEN f[s] ELSE ids[i][s]
  BY <1>1, <1>2, <1>4 DEF TypeOK, Upsert
<1> HIDE DEF rows
<1>11. \A id \in DOMAIN entity : id \in DOMAIN entity' /\ entity'[id] = entity[id]
  BY <1>6, <1>8
<1>12. /\ nextId' \in Nat \ {0} /\ DOMAIN entity' \subseteq 1 .. nextId' - 1
  <2>1. nextId' = nextId + Cardinality(c)
    BY <1>1
  <2>2. \A id \in DOMAIN entity' : id \in 1 .. nextId + Cardinality(c) - 1
    BY <1>3, <1>5, <1>6, <1>8
  <2> QED BY <1>3, <1>5, <2>1, <2>2
<1>13. \A id \in DOMAIN entity' : entity'[id] \in Sku
  BY <1>3, <1>5, <1>6, <1>9, <1>11
<1>14. entity' \in [DOMAIN entity' -> Sku]
  BY <1>2, <1>13 DEF Upsert
<1>15. \A k, n \in DOMAIN entity' : entity'[k] = entity'[n] => k = n
  <2>1. \A id \in DOMAIN entity : entity[id] \notin c
    BY <1>1 DEF EntitiesOf
  <2> QED BY <1>5, <1>6, <1>9, <1>11, <2>1
<1>16. \A s \in DOMAIN ids'[i] : KeptOrNamed(i, s)
  BY <1>6, <1>7, <1>10 DEF KeptOrNamed
<1> QED BY <1>1, <1>10, <1>11, <1>12, <1>14, <1>15, <1>16

-----------------------------------------------------------------------------
(* Types, and what sku_to_id says. *)

RowsInv == TypeOK /\ IdsNameTheirSku

\* A resolving step keeps the types of sku_to_id and what it says.
LEMMA IdsStep ==
    ASSUME RowsInv, NEW i \in Import,
           nextId' \in Nat \ {0},
           DOMAIN entity' \subseteq 1 .. nextId' - 1,
           DOMAIN entity \subseteq DOMAIN entity',
           \A id \in DOMAIN entity : entity'[id] = entity[id],
           DOMAIN ids' = Import,
           ids'[i] \in [DOMAIN ids'[i] -> {ids'[i][s] : s \in DOMAIN ids'[i]}],
           \A j \in Import \ {i} : ids'[j] = ids[j],
           \A s \in DOMAIN ids'[i] : KeptOrNamed(i, s),
           DOMAIN ids'[i] \subseteq DOMAIN ids[i] \cup pending[i]
    PROVE  /\ \A j \in Import : /\ DOMAIN ids'[j] \subseteq PrimarySkus(j)
                                /\ ids'[j] \in [DOMAIN ids'[j] -> Nat]
           /\ IdsNameTheirSku'
<1>1. \A j \in Import : \A s \in DOMAIN ids'[j] :
        ids'[j][s] \in DOMAIN entity' /\ entity'[ids'[j][s]] = s
  BY DEF RowsInv, IdsNameTheirSku, KeptOrNamed
<1>2. \A s \in DOMAIN ids'[i] : ids'[i][s] \in Nat
  BY <1>1
<1>3. ids'[i] \in [DOMAIN ids'[i] -> Nat]
  BY <1>2
<1>4. \A j \in Import : /\ DOMAIN ids'[j] \subseteq PrimarySkus(j)
                        /\ ids'[j] \in [DOMAIN ids'[j] -> Nat]
  BY <1>3 DEF RowsInv, TypeOK
<1> QED BY <1>1, <1>4 DEF IdsNameTheirSku

LEMMA RowsInvPrepare ==
    ASSUME RowsInv, NEW i \in Import, Prepare(i) \/ PrepareFails(i)
    PROVE  RowsInv'
<1> USE DEF db, prep, tasks
<1>1. CASE Start(i)
  BY <1>1, SkuSets DEF RowsInv, TypeOK, IdsNameTheirSku, Start, Running, Preparing
<1>2. CASE LookupChunk(i)
  <2>1. PICK c \in SUBSET pending[i] : pending' = [pending EXCEPT ![i] = @ \ c]
    BY <1>2, LookedUp DEF RowsInv
  <2>2. ids'[i] \in [DOMAIN ids'[i] -> {ids'[i][s] : s \in DOMAIN ids'[i]}]
    BY <1>2 DEF LookupChunk, Upsert, RowsInv, TypeOK
  <2>3. /\ \A j \in Import : /\ DOMAIN ids'[j] \subseteq PrimarySkus(j)
                             /\ ids'[j] \in [DOMAIN ids'[j] -> Nat]
        /\ IdsNameTheirSku'
    <3>1. /\ UNCHANGED <<entity, nextId>>
          /\ DOMAIN ids' = Import
          /\ \A j \in Import \ {i} : ids'[j] = ids[j]
          /\ \A s \in DOMAIN ids'[i] : KeptOrNamed(i, s)
          /\ DOMAIN ids'[i] \subseteq DOMAIN ids[i] \cup pending[i]
      BY <1>2, LookedUp DEF RowsInv
    <3>2. nextId \in Nat \ {0} /\ DOMAIN entity \subseteq 1 .. nextId - 1
      BY DEF RowsInv, TypeOK
    <3> QED BY <2>2, <3>1, <3>2, IdsStep
  <2> QED BY <1>2, <2>1, <2>3, LookedUp DEF RowsInv, TypeOK, LookupChunk
<1>3. CASE LookupDone(i)
  BY <1>3, SkuSets DEF RowsInv, TypeOK, IdsNameTheirSku, LookupDone, Running, Preparing
<1>4. CASE InsertChunk(i)
  <2>1. PICK c \in SUBSET pending[i] :
          /\ DOMAIN ids'[i] = DOMAIN ids[i] \cup c
          /\ pending' = [pending EXCEPT ![i] = @ \ c]
    BY <1>4, InsertedRows DEF RowsInv
  <2>2. ids'[i] \in [DOMAIN ids'[i] -> {ids'[i][s] : s \in DOMAIN ids'[i]}]
    BY <1>4 DEF InsertChunk, Upsert, RowsInv, TypeOK
  <2>3. /\ \A j \in Import : /\ DOMAIN ids'[j] \subseteq PrimarySkus(j)
                             /\ ids'[j] \in [DOMAIN ids'[j] -> Nat]
        /\ IdsNameTheirSku'
    BY <1>4, <2>1, <2>2, InsertedRows, IdsStep DEF RowsInv
  <2> QED BY <1>4, <2>1, <2>3, InsertedRows DEF RowsInv, TypeOK, InsertChunk
<1>5. CASE InsertTaken(i)
  <2>1. PICK c \in SUBSET pending[i] : nextId' = nextId + Cardinality(c)
    BY <1>5 DEF InsertTaken
  <2>2. c \in SUBSET Sku
    BY DEF RowsInv, TypeOK
  <2>3. Cardinality(c) \in Nat
    BY <2>2, ImportDataAssumption, FS_Subset, FS_CardinalityType
  <2> QED BY <1>5, <2>1, <2>3
          DEF RowsInv, TypeOK, IdsNameTheirSku, InsertTaken, Running, Preparing
<1>6. CASE Collect(i)
  BY <1>6 DEF RowsInv, TypeOK, IdsNameTheirSku, Collect, Running, Preparing, Holding
<1>7. CASE PrepareFails(i)
  BY <1>7 DEF RowsInv, TypeOK, IdsNameTheirSku, PrepareFails, Running, Preparing
<1> QED BY <1>1, <1>2, <1>3, <1>4, <1>5, <1>6, <1>7 DEF Prepare

-----------------------------------------------------------------------------
(* The inductive invariant of the refinement. *)

\* An import's tasks start together, once its skus are resolved.
TasksStart ==
    \A i \in Import :
        /\ phase[i] \in Preparing \cup {"idle"} => \A t \in Table : task[i][t] = "none"
        /\ phase[i] \in {"flush", "ok"} => \A t \in Table : task[i][t] # "none"
        /\ \/ \A t \in Table : task[i][t] # "none"
           \/ \A t \in Table : /\ task[i][t] = "none" /\ sent[i][t] = {}
                               /\ t \notin applied[i]

\* No sku of a file gets lost between the lookup and the last insert.
SkusResolved ==
    \A i \in Import :
        /\ phase[i] = "insert" => PrimarySkus(i) \subseteq DOMAIN ids[i] \cup pending[i]
        /\ HasResolved(i) => PrimarySkus(i) \subseteq DOMAIN ids[i]

\* A transaction sends rows of the file, and all of them before its COMMIT.
SentRows ==
    \A i \in Import, t \in Table :
        /\ sent[i][t] \subseteq Lines(i, t, ids[i])
        /\ task[i][t] = "committing" => sent[i][t] = Lines(i, t, ids[i])

\* A table is published by the COMMIT of its task and at no other time.
PublishedOnce ==
    \A i \in Import, t \in Table :
        /\ task[i][t] \in Holding \cup {"idle"} =>
             Lines(i, t, ids[i]) # {} /\ t \notin applied[i]
        /\ t \in applied[i] => Lines(i, t, ids[i]) # {}
        /\ task[i][t] = "ok" => t \in applied[i] \/ Lines(i, t, ids[i]) = {}

TasksInv == TasksStart /\ SkusResolved /\ SentRows /\ PublishedOnce

IInv == RowsInv /\ TasksInv

LEMMA FlushType ==
    ASSUME IInv, NEW i \in Import, NEW t \in Table,
           \/ Flush(i, t) \/ Ending(i, t)
           \/ TaskFails(i, t) \/ CommitUnacknowledged(i, t)
    PROVE  TypeOK'
<1> USE DEF db, prep, tasks, IInv, RowsInv
<1>1. CASE Begin(i, t)
  BY <1>1 DEF TypeOK, Begin, SetTask, Holding
<1>2. CASE SendCommit(i, t)
  BY <1>2 DEF TypeOK, SendCommit, SetTask, Holding
<1>3. CASE CopyIn(i, t)
  BY <1>3 DEF TypeOK, CopyIn
<1>4. CASE SendRows(i, t)
  <2>1. PICK c \in SUBSET Unsent(i, t) : sent' = [sent EXCEPT ![i][t] = @ \cup c]
    BY <1>4 DEF SendRows
  <2>2. c \subseteq Nat
    BY SkuSets DEF Unsent, Lines
  <2>3. UNCHANGED <<db, table, phase, prep, task, copied, applied>>
    BY <1>4 DEF SendRows
  <2> QED BY <2>1, <2>2, <2>3 DEF TypeOK
<1>5. CASE Publish(i, t) /\ \E s \in {"ok", "err", "gone"} : SetTask(i, t, s)
  <2> DEFINE rows == UpsertRows(i, t, sent[i][t], ids[i])
  <2>1. rows \in [DOMAIN rows -> Value]
    BY UpsertRowsType DEF TasksInv, SentRows
  <2>2. table[t] \in [DOMAIN table[t] -> Value]
    BY DEF TypeOK
  <2> HIDE DEF rows
  <2>3. Upsert(table[t], rows) \in [DOMAIN Upsert(table[t], rows) -> Value]
    BY <2>1, <2>2, UpsertType, Zenon
  <2>4. /\ DOMAIN table' = Table
        /\ \A u \in Table : table'[u] = IF u = t THEN Upsert(table[t], rows)
                                                 ELSE table[u]
    BY <1>5 DEF TypeOK, Publish, Written, rows
  <2>5. \A u \in Table : table'[u] \in [DOMAIN table'[u] -> Value]
    BY <2>3, <2>4 DEF TypeOK
  <2>6. task' \in [Import -> [Table ->
                    Holding \cup {"none", "idle", "ok", "err", "repeated", "gone"}]]
    BY <1>5 DEF TypeOK, SetTask
  <2>7. applied' \in [Import -> SUBSET Table]
    BY <1>5 DEF TypeOK, Publish
  <2> QED BY <1>5, <2>4, <2>5, <2>6, <2>7 DEF TypeOK, Publish
<1>6. CASE \E s \in {"err", "repeated", "gone"} : RollBack(i, t, s)
  BY <1>6 DEF TypeOK, RollBack, SetTask
<1> QED
  BY <1>1, <1>2, <1>3, <1>4, <1>5, <1>6
     DEF Flush, Ending, Committed, RowRepeated, LockRefused, TaskFails,
         CommitUnacknowledged, AbortTask, LateCommit

\* While an import prepares it has no tasks, so its sku_to_id may change.
LEMMA PreparingStep ==
    ASSUME TasksInv, NEW i \in Import,
           phase[i] \in Preparing \cup {"idle"},
           phase'[i] \in Preparing \cup {"idle", "failed"},
           UNCHANGED <<task, sent, applied>>,
           \A j \in Import \ {i} : /\ phase'[j] = phase[j]
                                   /\ ids'[j] = ids[j]
                                   /\ pending'[j] = pending[j],
           phase'[i] = "insert" => PrimarySkus(i) \subseteq DOMAIN ids'[i] \cup pending'[i]
    PROVE  TasksInv'
<1>1. \A t \in Table : task[i][t] = "none" /\ sent[i][t] = {} /\ t \notin applied[i]
  BY ImportDataAssumption DEF TasksInv, TasksStart
<1>2. TasksStart'
  BY <1>1 DEF TasksInv, TasksStart, Preparing
<1>3. SkusResolved'
  BY <1>1 DEF TasksInv, SkusResolved, HasResolved
<1>4. SentRows'
  <2> SUFFICES ASSUME NEW j \in Import, NEW t \in Table
               PROVE  /\ sent[j][t] \subseteq Lines(j, t, ids'[j])
                      /\ task[j][t] = "committing" => sent[j][t] = Lines(j, t, ids'[j])
    BY DEF SentRows
  <2>1. CASE j = i
    BY <1>1, <2>1
  <2>2. CASE j # i
    <3>1. ids'[j] = ids[j]
      BY <2>2
    <3> QED BY <3>1 DEF TasksInv, SentRows
  <2> QED BY <2>1, <2>2
<1>5. PublishedOnce'
  <2> SUFFICES ASSUME NEW j \in Import, NEW t \in Table
               PROVE  /\ task[j][t] \in Holding \cup {"idle"} =>
                           Lines(j, t, ids'[j]) # {} /\ t \notin applied[j]
                      /\ t \in applied[j] => Lines(j, t, ids'[j]) # {}
                      /\ task[j][t] = "ok" => t \in applied[j] \/ Lines(j, t, ids'[j]) = {}
    BY DEF PublishedOnce
  <2>1. CASE j = i
    BY <1>1, <2>1 DEF Holding
  <2>2. CASE j # i
    <3>1. ids'[j] = ids[j]
      BY <2>2
    <3> QED BY <3>1 DEF TasksInv, PublishedOnce
  <2> QED BY <2>1, <2>2
<1> QED BY <1>2, <1>3, <1>4, <1>5 DEF TasksInv

LEMMA TasksInvPrepare ==
    ASSUME IInv, NEW i \in Import, Prepare(i) \/ PrepareFails(i)
    PROVE  TasksInv'
<1> USE DEF db, prep, tasks, IInv, RowsInv
<1>1. CASE Start(i) \/ InsertTaken(i) \/ PrepareFails(i)
  <2>1. /\ phase[i] \in Preparing \cup {"idle"}
        /\ phase'[i] \in {"lookup", "failed"}
        /\ UNCHANGED <<task, sent, applied, ids>>
        /\ \A j \in Import \ {i} : phase'[j] = phase[j] /\ pending'[j] = pending[j]
    BY <1>1 DEF Start, InsertTaken, PrepareFails, Preparing, TypeOK
  <2> QED BY <2>1, PreparingStep DEF Preparing
<1>2. CASE LookupChunk(i)
  <2>1. phase[i] = "lookup" /\ UNCHANGED <<phase, task, sent, applied>>
    BY <1>2 DEF LookupChunk
  <2> QED BY <1>2, <2>1, LookedUp, PreparingStep DEF Preparing
<1>3. CASE LookupDone(i)
  <2>1. /\ phase[i] = "lookup" /\ phase'[i] = "insert"
        /\ pending'[i] = PrimarySkus(i) \ DOMAIN ids[i]
        /\ UNCHANGED <<task, sent, applied, ids>>
        /\ \A j \in Import \ {i} : phase'[j] = phase[j] /\ pending'[j] = pending[j]
    BY <1>3 DEF LookupDone, TypeOK
  <2>2. PrimarySkus(i) \subseteq DOMAIN ids'[i] \cup pending'[i]
    BY <2>1
  <2> QED BY <2>1, <2>2, PreparingStep DEF Preparing
<1>4. CASE InsertChunk(i)
  <2>1. phase[i] = "insert" /\ UNCHANGED <<phase, task, sent, applied>>
    BY <1>4 DEF InsertChunk
  <2>2. PICK c \in SUBSET pending[i] :
          /\ DOMAIN ids'[i] = DOMAIN ids[i] \cup c
          /\ pending' = [pending EXCEPT ![i] = @ \ c]
    BY <1>4, InsertedRows
  <2>3. PrimarySkus(i) \subseteq DOMAIN ids'[i] \cup pending'[i]
    BY <2>1, <2>2 DEF TasksInv, SkusResolved, TypeOK
  <2>4. \A j \in Import \ {i} : ids'[j] = ids[j] /\ pending'[j] = pending[j]
    BY <1>4, InsertedRows
  <2> QED BY <2>1, <2>3, <2>4, PreparingStep DEF Preparing
<1>5. CASE Collect(i)
  <2>1. \A t \in Table : task[i][t] = "none" /\ sent[i][t] = {} /\ t \notin applied[i]
    BY <1>5, ImportDataAssumption DEF TasksInv, TasksStart, Collect, Preparing
  <2>2. /\ phase[i] = "insert" /\ pending[i] = {}
        /\ UNCHANGED <<pending, ids, sent, applied>>
        /\ phase'[i] = "flush"
        /\ \A t \in Table : task'[i][t] = IF Lines(i, t, ids[i]) = {} THEN "ok" ELSE "idle"
        /\ \A j \in Import \ {i} : phase'[j] = phase[j] /\ task'[j] = task[j]
    BY <1>5 DEF Collect, TypeOK
  <2>3. TasksStart'
    BY <2>1, <2>2 DEF TasksInv, TasksStart, Preparing
  <2>4. SkusResolved'
    BY <2>2 DEF TasksInv, SkusResolved, HasResolved
  <2>5. SentRows'
    BY <2>2 DEF TasksInv, SentRows
  <2>6. PublishedOnce'
    BY <2>1, <2>2 DEF TasksInv, PublishedOnce, Holding
  <2> QED BY <2>3, <2>4, <2>5, <2>6 DEF TasksInv
<1> QED BY <1>1, <1>2, <1>3, <1>4, <1>5 DEF Prepare

\* A step of one task.
LEMMA TaskStep ==
    ASSUME IInv, NEW i \in Import, NEW t \in Table,
           NEW s \in Holding \cup {"ok", "err", "repeated", "gone"},
           SetTask(i, t, s), UNCHANGED <<phase, pending, ids>>,
           task[i][t] # "none"
    PROVE  /\ task'[i][t] = s
           /\ \A j \in Import, u \in Table : <<j, u>> # <<i, t>> => task'[j][u] = task[j][u]
           /\ \A j \in Import, u \in Table : task'[j][u] = "none" <=> task[j][u] = "none"
           /\ \A j \in Import : HasResolved(j)' <=> HasResolved(j)
           /\ \A u \in Table : task[i][u] # "none"
           /\ SkusResolved'
<1>1. \A u \in Table : task[i][u] # "none"
  BY DEF IInv, TasksInv, TasksStart
<1>2. /\ task'[i][t] = s
      /\ \A j \in Import, u \in Table : <<j, u>> # <<i, t>> => task'[j][u] = task[j][u]
  BY DEF SetTask, IInv, RowsInv, TypeOK
<1>3. \A j \in Import, u \in Table : task'[j][u] = "none" <=> task[j][u] = "none"
  BY <1>1, <1>2 DEF Holding
<1>4. \A j \in Import : HasResolved(j)' <=> HasResolved(j)
  BY <1>3 DEF HasResolved
<1>5. SkusResolved'
  BY <1>4 DEF IInv, TasksInv, SkusResolved
<1> QED BY <1>1, <1>2, <1>3, <1>4, <1>5

LEMMA TasksInvFlush ==
    ASSUME IInv, NEW i \in Import, NEW t \in Table,
           \/ Flush(i, t) \/ Ending(i, t)
           \/ TaskFails(i, t) \/ CommitUnacknowledged(i, t)
    PROVE  TasksInv'
<1> USE DEF db, prep, tasks
<1>1. CASE CopyIn(i, t)
  BY <1>1 DEF CopyIn, IInv, TasksInv, TasksStart, SkusResolved, HasResolved, SentRows,
              PublishedOnce
<1>2. CASE SendRows(i, t)
  <2>1. PICK c \in SUBSET Unsent(i, t) :
          IsStatement(i, t, c) /\ sent' = [sent EXCEPT ![i][t] = @ \cup c]
    BY <1>2 DEF SendRows
  <2>2. /\ UNCHANGED <<phase, pending, ids, task, applied>>
        /\ task[i][t] = "open"
        /\ sent'[i][t] = sent[i][t] \cup c
        /\ \A j \in Import, u \in Table : <<j, u>> # <<i, t>> => sent'[j][u] = sent[j][u]
    BY <1>2, <2>1 DEF SendRows, IsStatement, Flushing, IInv, RowsInv, TypeOK
  <2>3. TasksStart'
    BY <2>2 DEF IInv, TasksInv, TasksStart
  <2>4. SentRows'
    BY <2>2 DEF IInv, TasksInv, SentRows, Unsent
  <2>5. SkusResolved' /\ PublishedOnce'
    BY <2>2 DEF IInv, TasksInv, SkusResolved, HasResolved, PublishedOnce
  <2> QED BY <2>3, <2>4, <2>5 DEF TasksInv
<1>3. CASE Begin(i, t) \/ SendCommit(i, t)
  <2>1. PICK s \in Holding : SetTask(i, t, s)
                            /\ (s = "committing" => Unsent(i, t) = {})
    BY <1>3 DEF Begin, SendCommit, Holding
  <2>2. /\ task[i][t] \in Holding \cup {"idle"}
        /\ UNCHANGED <<phase, pending, ids, sent, applied>>
    BY <1>3 DEF Begin, SendCommit, Flushing, Holding
  <2>3. /\ task'[i][t] = s
        /\ \A j \in Import, u \in Table : <<j, u>> # <<i, t>> => task'[j][u] = task[j][u]
        /\ \A j \in Import, u \in Table : task'[j][u] = "none" <=> task[j][u] = "none"
        /\ SkusResolved'
    BY <2>1, <2>2, TaskStep DEF Holding
  <2>4. TasksStart'
    BY <2>2, <2>3 DEF IInv, TasksInv, TasksStart
  <2>5. SentRows'
    BY <2>1, <2>2, <2>3 DEF IInv, TasksInv, SentRows, Unsent
  <2>6. PublishedOnce'
    BY <2>2, <2>3 DEF IInv, TasksInv, PublishedOnce, Holding
  <2> QED BY <2>3, <2>4, <2>5, <2>6 DEF TasksInv
<1>4. CASE \E s \in {"ok", "err", "gone"} : SetTask(i, t, s) /\ Publish(i, t)
  <2>1. PICK s \in {"ok", "err", "gone"} : SetTask(i, t, s)
    BY <1>4
  <2>2. /\ task[i][t] = "committing"
        /\ UNCHANGED <<phase, pending, ids, sent>>
        /\ applied'[i] = applied[i] \cup {t}
        /\ \A j \in Import \ {i} : applied'[j] = applied[j]
    BY <1>4 DEF Publish, IInv, RowsInv, TypeOK
  <2>3. /\ task'[i][t] = s
        /\ \A j \in Import, u \in Table : <<j, u>> # <<i, t>> => task'[j][u] = task[j][u]
        /\ \A j \in Import, u \in Table : task'[j][u] = "none" <=> task[j][u] = "none"
        /\ \A u \in Table : task[i][u] # "none"
        /\ SkusResolved'
    BY <2>1, <2>2, TaskStep
  <2>4. TasksStart'
    BY <2>2, <2>3 DEF IInv, TasksInv, TasksStart
  <2>5. SentRows'
    BY <2>2, <2>3 DEF IInv, TasksInv, SentRows
  <2>6. PublishedOnce'
    BY <2>2, <2>3 DEF IInv, TasksInv, PublishedOnce, Holding
  <2> QED BY <2>3, <2>4, <2>5, <2>6 DEF TasksInv
<1>5. CASE \E s \in {"err", "repeated", "gone"} :
             RollBack(i, t, s) /\ task[i][t] \in Holding \cup {"idle"}
  <2>1. PICK s \in {"err", "repeated", "gone"} : SetTask(i, t, s)
    BY <1>5 DEF RollBack
  <2>2. /\ task[i][t] \in Holding \cup {"idle"}
        /\ UNCHANGED <<phase, pending, ids, applied>>
        /\ sent'[i][t] = {}
        /\ \A j \in Import, u \in Table : <<j, u>> # <<i, t>> => sent'[j][u] = sent[j][u]
    BY <1>5 DEF RollBack, IInv, RowsInv, TypeOK
  <2>3. /\ task'[i][t] = s
        /\ \A j \in Import, u \in Table : <<j, u>> # <<i, t>> => task'[j][u] = task[j][u]
        /\ \A j \in Import, u \in Table : task'[j][u] = "none" <=> task[j][u] = "none"
        /\ \A u \in Table : task[i][u] # "none"
        /\ SkusResolved'
    BY <2>1, <2>2, TaskStep DEF Holding
  <2>4. TasksStart'
    BY <2>2, <2>3 DEF IInv, TasksInv, TasksStart
  <2>5. SentRows'
    BY <2>1, <2>2, <2>3 DEF IInv, TasksInv, SentRows
  <2>6. PublishedOnce'
    BY <2>1, <2>2, <2>3 DEF IInv, TasksInv, PublishedOnce, Holding
  <2> QED BY <2>3, <2>4, <2>5, <2>6 DEF TasksInv
<1> QED
  BY <1>1, <1>2, <1>3, <1>4, <1>5
     DEF Flush, Ending, Committed, RowRepeated, LockRefused, IsStatement, Flushing,
         TaskFails, CommitUnacknowledged, AbortTask, LateCommit, Holding

LEMMA JoinKeeps ==
    ASSUME IInv, NEW i \in Import, JoinAll(i) \/ JoinError(i) \/ Crash(i)
    PROVE  IInv'
<1> USE DEF db, prep, tasks, IInv, RowsInv
<1>1. /\ UNCHANGED <<entity, nextId, table, task, copied, sent, applied, ids, pending>>
      /\ phase[i] = "flush" /\ phase'[i] \in {"ok", "failed"}
      /\ phase' \in [Import -> Running \cup {"idle", "ok", "failed"}]
      /\ \A j \in Import \ {i} : phase'[j] = phase[j]
  BY DEF JoinAll, JoinError, Crash, TypeOK
<1>2. RowsInv'
  BY <1>1 DEF TypeOK, IdsNameTheirSku
<1>3. TasksStart'
  BY <1>1 DEF TasksInv, TasksStart, Preparing
<1>4. SkusResolved' /\ SentRows' /\ PublishedOnce'
  BY <1>1 DEF TasksInv, SkusResolved, HasResolved, SentRows, PublishedOnce
<1> QED BY <1>2, <1>3, <1>4 DEF TasksInv

LEMMA Invariance == Spec => []IInv
<1>1. Init => IInv
  <2> SUFFICES ASSUME Init PROVE IInv
    OBVIOUS
  <2>1. TypeOK
    BY SkuSets DEF Init, TypeOK, EmptyMap, Running, Preparing, Holding
  <2>2. IdsNameTheirSku
    BY DEF Init, IdsNameTheirSku, EmptyMap
  <2>3. TasksInv
    BY DEF Init, TasksInv, TasksStart, SkusResolved, SentRows, PublishedOnce,
           HasResolved, Holding
  <2> QED BY <2>1, <2>2, <2>3 DEF IInv, RowsInv
<1>2. IInv /\ [Next]_vars => IInv'
  <2> SUFFICES ASSUME IInv, [Next]_vars PROVE IInv'
    OBVIOUS
  <2>1. ASSUME NEW i \in Import, Prepare(i) \/ PrepareFails(i) PROVE IInv'
    BY <2>1, RowsInvPrepare, TasksInvPrepare DEF IInv
  <2>2. ASSUME NEW i \in Import, NEW t \in Table,
               \/ Flush(i, t) \/ Ending(i, t)
               \/ TaskFails(i, t) \/ CommitUnacknowledged(i, t)
        PROVE  IInv'
    <3>1. UNCHANGED <<entity, ids>>
      BY <2>2 DEF Flush, Ending, Begin, CopyIn, SendRows, SendCommit, Committed, Publish,
                  RowRepeated, LockRefused, TaskFails, CommitUnacknowledged, AbortTask,
                  LateCommit, RollBack, db, prep
    <3>2. IdsNameTheirSku'
      BY <3>1 DEF IInv, RowsInv, IdsNameTheirSku
    <3> QED BY <2>2, <3>2, FlushType, TasksInvFlush DEF IInv, RowsInv
  <2>3. ASSUME NEW i \in Import, JoinAll(i) \/ JoinError(i) \/ Crash(i) PROVE IInv'
    BY <2>3, JoinKeeps
  <2>4. CASE UNCHANGED vars
    <3>1. RowsInv'
      BY <2>4 DEF vars, IInv, RowsInv, TypeOK, IdsNameTheirSku
    <3>2. TasksInv'
      BY <2>4 DEF vars, IInv, TasksInv, TasksStart, SkusResolved, HasResolved,
                  SentRows, PublishedOnce
    <3> QED BY <3>1, <3>2 DEF IInv
  <2> QED BY <2>1, <2>2, <2>3, <2>4 DEF Next, Fault
<1> QED BY <1>1, <1>2, PTL DEF Spec

\* An id that RETURNING or a SELECT has given for a sku is that of the entity
\* with that very sku, for any number of imports and any order of the rows.
THEOREM PgIdsAreRight == Spec => [](TypeOK /\ IdsNameTheirSku)
<1>1. IInv => TypeOK /\ IdsNameTheirSku
  BY DEF IInv, RowsInv
<1> QED BY <1>1, Invariance, PTL

-----------------------------------------------------------------------------
(* The refinement. *)

LEMMA SameRows ==
    /\ \A i, t, m : Abstract!Lines(i, t, m) = Lines(i, t, m)
    /\ \A i, t, L, m : Abstract!UpsertRows(i, t, L, m) = UpsertRows(i, t, L, m)
    /\ \A f, g : Abstract!Upsert(f, g) = Upsert(f, g)
    /\ \A i : Abstract!PrimarySkus(i) = PrimarySkus(i)
    /\ \A i : Abstract!LookupSkus(i) = LookupSkus(i)
    /\ Abstract!EmptyMap = EmptyMap
BY DEF Abstract!Lines, Lines, Abstract!UpsertRows, UpsertRows, Abstract!Upsert, Upsert,
       Abstract!PrimarySkus, PrimarySkus, Abstract!LookupSkus, LookupSkus,
       Abstract!EmptyMap, EmptyMap, Abstract!Keys, Keys, Abstract!KeyOf, KeyOf,
       Abstract!Last, Last

\* The steps that the abstract specification does not see.
LEMMA Stutters ==
    ASSUME UNCHANGED <<table, applied>>,
           \A j \in Import : /\ HasResolved(j)' <=> HasResolved(j)
                             /\ HasResolved(j) => ids'[j] = ids[j]
                             /\ \/ phase'[j] = phase[j]
                                \/ {phase[j], phase'[j]} \cap {"ok", "failed"} = {}
    PROVE  UNCHANGED Abstract!vars
<1>1. idsBar' = idsBar
  BY DEF idsBar, EmptyMap
<1>2. resolvedBar' = resolvedBar
  BY DEF resolvedBar
<1>3. outcomeBar' = outcomeBar
  BY DEF outcomeBar
<1> QED BY <1>1, <1>2, <1>3 DEF Abstract!vars

\* An import that fails does so for the abstract specification too.
LEMMA Fails ==
    ASSUME IInv, NEW i \in Import, phase[i] \notin {"ok", "failed"},
           phase' = [phase EXCEPT ![i] = "failed"],
           UNCHANGED <<task, ids, table, applied>>
    PROVE  Abstract!Fail(i)
<1>1. idsBar' = idsBar /\ resolvedBar' = resolvedBar
  BY DEF idsBar, resolvedBar, HasResolved, EmptyMap
<1>2. outcomeBar[i] = "running" /\ outcomeBar' = [outcomeBar EXCEPT ![i] = "failed"]
  BY DEF outcomeBar, IInv, RowsInv, TypeOK
<1> QED BY <1>1, <1>2 DEF Abstract!Fail

LEMMA PrepareRefines ==
    ASSUME IInv, NEW i \in Import, Prepare(i) \/ PrepareFails(i)
    PROVE  Abstract!Next \/ UNCHANGED Abstract!vars
<1> USE DEF prep, tasks, db
<1>1. CASE Start(i) \/ LookupChunk(i) \/ LookupDone(i) \/ InsertChunk(i)
  <2>1. /\ phase[i] \in Preparing \cup {"idle"}
        /\ phase'[i] \in Preparing
        /\ UNCHANGED <<task, table, applied>>
        /\ \A j \in Import \ {i} : phase'[j] = phase[j] /\ ids'[j] = ids[j]
    BY <1>1 DEF Start, LookupChunk, LookupDone, InsertChunk, Preparing, IInv, RowsInv, TypeOK
  <2>2. ~ HasResolved(i)
    BY <2>1 DEF IInv, TasksInv, TasksStart, HasResolved
  <2>3. \A j \in Import : HasResolved(j)' <=> HasResolved(j)
    BY <2>1 DEF HasResolved
  <2>4. {phase[i], phase'[i]} \cap {"ok", "failed"} = {}
    BY <2>1 DEF Preparing
  <2> QED BY <2>1, <2>2, <2>3, <2>4, Stutters
<1>2. CASE Collect(i)
  <2>1. /\ phase[i] = "insert" /\ pending[i] = {}
        /\ phase' = [phase EXCEPT ![i] = "flush"]
        /\ UNCHANGED <<ids, table, applied>>
        /\ \A t \in Table : task'[i][t] # "none"
        /\ \A j \in Import \ {i} : task'[j] = task[j]
    BY <1>2 DEF Collect, IInv, RowsInv, TypeOK
  <2>2. /\ ~ HasResolved(i) /\ HasResolved(i)'
        /\ \A j \in Import \ {i} : HasResolved(j)' <=> HasResolved(j)
    BY <2>1, ImportDataAssumption DEF IInv, TasksInv, TasksStart, HasResolved, Preparing
  <2>3. outcomeBar[i] = "running" /\ outcomeBar' = outcomeBar
    BY <2>1 DEF outcomeBar, IInv, RowsInv, TypeOK
  <2>4. i \notin resolvedBar /\ resolvedBar' = resolvedBar \cup {i}
    BY <2>2 DEF resolvedBar
  <2>5. idsBar'[i] = ids[i] /\ idsBar' = [idsBar EXCEPT ![i] = idsBar'[i]]
    BY <2>1, <2>2 DEF idsBar, EmptyMap
  <2>6. /\ PrimarySkus(i) \subseteq DOMAIN ids[i]
        /\ DOMAIN ids[i] \subseteq LookupSkus(i)
        /\ ids[i] \in [DOMAIN ids[i] -> Nat]
    BY <2>1, SkuSets DEF IInv, RowsInv, TasksInv, SkusResolved, TypeOK
  <2>7. Abstract!Resolve(i)
    BY <2>1, <2>3, <2>4, <2>5, <2>6, SameRows DEF Abstract!Resolve
  <2> QED BY <2>7 DEF Abstract!Next
<1>3. CASE InsertTaken(i) \/ PrepareFails(i)
  <2>1. Abstract!Fail(i)
    BY <1>3, Fails DEF InsertTaken, PrepareFails, Preparing
  <2> QED BY <2>1 DEF Abstract!Next
<1> QED BY <1>1, <1>2, <1>3 DEF Prepare

\* A COMMIT is the one step in which the abstract table changes.
LEMMA PublishRefines ==
    ASSUME IInv, NEW i \in Import, NEW t \in Table,
           NEW s \in {"ok", "err", "gone"}, SetTask(i, t, s), Publish(i, t),
           phase[i] # "ok"
    PROVE  Abstract!Next
<1>1. /\ task[i][t] = "committing"
      /\ UNCHANGED <<phase, pending, ids>>
      /\ table' = [table EXCEPT ![t] = Upsert(table[t], UpsertRows(i, t, sent[i][t], ids[i]))]
      /\ applied' = [applied EXCEPT ![i] = @ \cup {t}]
  BY DEF Publish, Written, prep
<1>2. \A j \in Import : HasResolved(j)' <=> HasResolved(j)
  BY <1>1, TaskStep
<1>3. idsBar' = idsBar /\ resolvedBar' = resolvedBar /\ outcomeBar' = outcomeBar
  BY <1>1, <1>2 DEF idsBar, resolvedBar, outcomeBar, EmptyMap
<1>4. i \in resolvedBar /\ idsBar[i] = ids[i] /\ outcomeBar[i] # "ok"
  BY <1>1 DEF resolvedBar, idsBar, HasResolved, outcomeBar
<1>5. /\ Lines(i, t, ids[i]) # {} /\ t \notin applied[i]
      /\ sent[i][t] = Lines(i, t, ids[i])
  BY <1>1 DEF IInv, TasksInv, PublishedOnce, SentRows, Holding
<1>6. t \in Abstract!Targets(i) \ applied[i]
  BY <1>4, <1>5, SameRows DEF Abstract!Targets
<1>7. table' = [table EXCEPT ![t] =
        Abstract!Upsert(@, Abstract!UpsertRows(i, t, Abstract!Lines(i, t, idsBar[i]), idsBar[i]))]
  BY <1>1, <1>4, <1>5, SameRows
<1>8. Abstract!Apply(i, t)
  BY <1>1, <1>3, <1>4, <1>6, <1>7 DEF Abstract!Apply
<1> QED BY <1>8 DEF Abstract!Next

LEMMA TaskRefines ==
    ASSUME IInv, NEW i \in Import, NEW t \in Table,
           \/ Flush(i, t) \/ Ending(i, t)
           \/ TaskFails(i, t) \/ CommitUnacknowledged(i, t)
    PROVE  Abstract!Next \/ UNCHANGED Abstract!vars
<1> USE DEF prep, db
<1>1. CASE \E s \in {"ok", "err", "gone"} : SetTask(i, t, s) /\ Publish(i, t) /\ phase[i] # "ok"
  BY <1>1, PublishRefines
<1>2. CASE \E s \in Holding \cup {"err", "repeated", "gone"} :
             SetTask(i, t, s) /\ UNCHANGED <<phase, pending, ids, table, applied>>
                              /\ task[i][t] \in Holding \cup {"idle"}
  <2>1. PICK s \in Holding \cup {"err", "repeated", "gone"} : SetTask(i, t, s)
    BY <1>2
  <2>2. \A j \in Import : HasResolved(j)' <=> HasResolved(j)
    BY <1>2, <2>1, TaskStep DEF Holding
  <2> QED BY <1>2, <2>2, Stutters
<1>3. CASE CopyIn(i, t) \/ SendRows(i, t)
  <2>1. UNCHANGED <<phase, task, ids, table, applied>>
    BY <1>3 DEF CopyIn, SendRows
  <2>2. \A j \in Import : HasResolved(j)' <=> HasResolved(j)
    BY <2>1 DEF HasResolved
  <2> QED BY <2>1, <2>2, Stutters
<1> QED
  BY <1>1, <1>2, <1>3
     DEF Flush, Ending, Begin, SendCommit, Committed, RowRepeated, LockRefused,
         IsStatement, Flushing, TaskFails, CommitUnacknowledged, AbortTask, LateCommit,
         RollBack, Holding

LEMMA JoinRefines ==
    ASSUME IInv, NEW i \in Import, JoinAll(i) \/ JoinError(i) \/ Crash(i)
    PROVE  Abstract!Next
<1> USE DEF prep, tasks, db
<1>1. CASE JoinAll(i)
  <2>1. /\ phase[i] = "flush" /\ \A t \in Table : task[i][t] = "ok"
        /\ phase' = [phase EXCEPT ![i] = "ok"]
        /\ UNCHANGED <<task, ids, table, applied>>
    BY <1>1 DEF JoinAll
  <2>2. idsBar' = idsBar /\ resolvedBar' = resolvedBar
    BY <2>1 DEF idsBar, resolvedBar, HasResolved, EmptyMap
  <2>3. outcomeBar[i] = "running" /\ outcomeBar' = [outcomeBar EXCEPT ![i] = "ok"]
    BY <2>1 DEF outcomeBar, IInv, RowsInv, TypeOK
  <2>4. i \in resolvedBar /\ idsBar[i] = ids[i]
    BY <2>1, ImportDataAssumption DEF resolvedBar, idsBar, HasResolved
  <2>5. \A t \in Table : t \in applied[i] <=> Lines(i, t, ids[i]) # {}
    BY <2>1 DEF IInv, TasksInv, PublishedOnce
  <2>6. applied[i] = Abstract!Targets(i)
    BY <2>4, <2>5, SameRows DEF Abstract!Targets, IInv, RowsInv, TypeOK
  <2>7. Abstract!Succeed(i)
    BY <2>1, <2>2, <2>3, <2>4, <2>6 DEF Abstract!Succeed
  <2> QED BY <2>7 DEF Abstract!Next
<1>2. CASE JoinError(i) \/ Crash(i)
  <2>1. Abstract!Fail(i)
    BY <1>2, Fails DEF JoinError, Crash
  <2> QED BY <2>1 DEF Abstract!Next
<1> QED BY <1>1, <1>2

\* Whether a table is copied or sent in chunks, whatever the server refuses and
\* however imports interleave, each table is updated in one indivisible step
\* and success means all tables were: PgImport implements TableImport.
THEOREM PgRefinement == Spec => ImplementsTableImport
<1>1. Init => Abstract!Init
  <2> SUFFICES ASSUME Init PROVE Abstract!Init
    OBVIOUS
  <2>1. \A i \in Import : ~ HasResolved(i)
    BY DEF Init, HasResolved
  <2>2. /\ idsBar = [i \in Import |-> EmptyMap]
        /\ resolvedBar = {}
        /\ outcomeBar = [i \in Import |-> "running"]
    BY <2>1 DEF Init, idsBar, resolvedBar, outcomeBar
  <2> QED BY <2>2, SameRows DEF Init, Abstract!Init
<1>2. IInv /\ [Next]_vars => [Abstract!Next]_(Abstract!vars)
  <2> SUFFICES ASSUME IInv, [Next]_vars
               PROVE  Abstract!Next \/ UNCHANGED Abstract!vars
    OBVIOUS
  <2>1. CASE UNCHANGED vars
    <3>1. \A j \in Import : HasResolved(j)' <=> HasResolved(j)
      BY <2>1 DEF vars, HasResolved
    <3> QED BY <2>1, <3>1, Stutters DEF vars
  <2> QED BY <2>1, PrepareRefines, TaskRefines, JoinRefines DEF Next, Fault
<1> QED BY <1>1, <1>2, Invariance, PTL DEF Spec, ImplementsTableImport, Abstract!Spec
=============================================================================
