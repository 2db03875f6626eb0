----------------------------- MODULE ImportRun -----------------------------
(***************************************************************************)
(* crates/import: several calls of import_products against one MySQL       *)
(* database, each in a process of its own.  An import resolves skus in     *)
(* chunks, inserts the missing entities in auto-committed chunks, collects *)
(* the rows of every table and flushes all tables at once, one task, one   *)
(* connection and one transaction for each.                                *)
(***************************************************************************)
EXTENDS ImportRows, Functions

CONSTANTS
    PoolSize    \* connections of an import's pool (max_connections)

ASSUME ImportRunAssumption ==
    /\ PoolSize \in Nat \ {0}
    /\ IsFiniteSet(Import)

VARIABLES
    entity,     \* catalog_product_entity: id -> sku
    nextId,     \* its auto-increment counter
    skuUnique,  \* whether its schema has a unique key on the sku
    table,      \* the committed rows of each target table
    phase,      \* where each call of import_products is
    pending,    \* skus still to be looked up, then those to be inserted
    ids,        \* sku_to_id
    created,    \* ImportResult.created
    updated,    \* ImportResult.updated
    task,       \* the state of each flush task
    sent,       \* the lines whose rows a task's transaction has sent
    staged,     \* the uncommitted rows of a task's transaction
    applied     \* history: the tables each import has committed

db    == <<entity, nextId, skuUnique>>
prep  == <<pending, ids, created, updated>>
tasks == <<task, sent, staged, applied>>
vars  == <<entity, nextId, skuUnique, table, phase, pending, ids, created, updated,
           task, sent, staged, applied>>

Preparing == {"lookup", "insert"}
Running   == Preparing \cup {"flush"}
Holding   == {"open", "committing"}     \* a connection, and row locks

TypeOK ==
    /\ nextId \in Nat \ {0}
    /\ DOMAIN entity \subseteq 1 .. nextId - 1
    /\ entity \in [DOMAIN entity -> Sku]
    /\ skuUnique \in BOOLEAN
    /\ DOMAIN table = Table
    /\ \A t \in Table : table[t] \in [DOMAIN table[t] -> Value]
    /\ phase \in [Import -> Running \cup {"idle", "ok", "failed"}]
    /\ pending \in [Import -> SUBSET Sku]
    /\ \A i \in Import : pending[i] \subseteq LookupSkus(i)
    /\ DOMAIN ids = Import
    /\ \A i \in Import : /\ DOMAIN ids[i] \subseteq LookupSkus(i)
                         /\ ids[i] \in [DOMAIN ids[i] -> Nat]
    /\ created \in [Import -> Nat]
    /\ updated \in [Import -> Nat]
    /\ task \in [Import -> [Table ->
                   Holding \cup {"none", "idle", "ok", "err", "gone"}]]
    /\ sent \in [Import -> [Table -> SUBSET Nat]]
    /\ DOMAIN staged = Import
    /\ \A i \in Import :
         /\ DOMAIN staged[i] = Table
         /\ \A t \in Table : staged[i][t] \in [DOMAIN staged[i][t] -> Value]
    /\ applied \in [Import -> SUBSET Table]

Init ==
    /\ entity = EmptyMap
    /\ nextId = 1
    /\ skuUnique \in BOOLEAN
    /\ table = [t \in Table |-> EmptyMap]
    /\ phase = [i \in Import |-> "idle"]
    /\ pending = [i \in Import |-> {}]
    /\ ids = [i \in Import |-> EmptyMap]
    /\ created = [i \in Import |-> 0]
    /\ updated = [i \in Import |-> 0]
    /\ task = [i \in Import |-> [t \in Table |-> "none"]]
    /\ sent = [i \in Import |-> [t \in Table |-> {}]]
    /\ staged = [i \in Import |-> [t \in Table |-> EmptyMap]]
    /\ applied = [i \in Import |-> {}]

-----------------------------------------------------------------------------
(* Resolving skus. *)

\* The file parses and the attributes load; the skus are gathered.
Start(i) ==
    /\ phase[i] = "idle"
    /\ phase' = [phase EXCEPT ![i] = "lookup"]
    /\ pending' = [pending EXCEPT ![i] = LookupSkus(i)]
    /\ UNCHANGED <<db, table, ids, created, updated, tasks>>

\* One SELECT ... WHERE sku IN (...).  Where several entities carry a sku the
\* last row of the result wins, and the result is in no order.
LookupChunk(i) ==
    /\ phase[i] = "lookup"
    /\ \E c \in SUBSET pending[i] :
         /\ IsBatch(i, c, pending[i])
         /\ LET found == {s \in c : \E id \in DOMAIN entity : entity[id] = s} IN
            \E f \in [found -> DOMAIN entity] :
              /\ \A s \in found : entity[f[s]] = s
              /\ ids' = [ids EXCEPT ![i] = Upsert(@, f)]
         /\ pending' = [pending EXCEPT ![i] = @ \ c]
    /\ UNCHANGED <<db, table, phase, created, updated, tasks>>

\* Mutant: counts and creates what the link columns name as well.
LookupDoneWithRefs(i) ==
    /\ phase[i] = "lookup" /\ pending[i] = {}
    /\ LET new == LookupSkus(i) \ DOMAIN ids[i] IN
       /\ pending' = [pending EXCEPT ![i] = new]
       /\ created' = [created EXCEPT ![i] = Cardinality(new)]
    /\ updated' = [updated EXCEPT ![i] = Cardinality(DOMAIN ids[i])]
    /\ phase' = [phase EXCEPT ![i] = "insert"]
    /\ UNCHANGED <<db, table, ids, tasks>>

\* The counts are over the sku column only; what it names and the lookup did
\* not find is to be created.
LookupDone(i) ==
    /\ phase[i] = "lookup" /\ pending[i] = {}
    /\ LET new == PrimarySkus(i) \ DOMAIN ids[i] IN
       /\ pending' = [pending EXCEPT ![i] = new]
       /\ created' = [created EXCEPT ![i] = Cardinality(new)]
    /\ updated' = [updated EXCEPT ![i] =
                     Cardinality(PrimarySkus(i) \cap DOMAIN ids[i])]
    /\ phase' = [phase EXCEPT ![i] = "insert"]
    /\ UNCHANGED <<db, table, ids, tasks>>

\* The order of a chunk's rows is that of a HashMap: any.
RowOrders(c) == Bijection(1 .. Cardinality(c), c)

Taken(c) == \E id \in DOMAIN entity : entity[id] \in c

\* The id of the p-th row of a statement, from its last_insert_id.
RowIdFromOne(first, p) == first + p     \* mutant: counts rows from one
RowId(first, p) == first + p - 1

\* One multi-row INSERT, auto-committed.  The server numbers the rows
\* consecutively; the import works the numbers out.
InsertChunk(i) ==
    /\ phase[i] = "insert"
    /\ \E c \in SUBSET pending[i] :
         /\ IsBatch(i, c, pending[i])
         /\ skuUnique => ~Taken(c)
         /\ \E q \in RowOrders(c) :
              LET first == nextId IN
              /\ entity' = Upsert(entity,
                   [id \in first .. first + Cardinality(c) - 1 |-> q[id - first + 1]])
              /\ ids' = [ids EXCEPT ![i] = Upsert(@,
                   [s \in c |-> RowId(first, CHOOSE p \in DOMAIN q : q[p] = s)])]
         /\ nextId' = nextId + Cardinality(c)
         /\ pending' = [pending EXCEPT ![i] = @ \ c]
    /\ UNCHANGED <<skuUnique, table, phase, created, updated, tasks>>

\* Somebody inserted one of the skus after the lookup: the statement fails,
\* though the ids it reserved are not given back.
InsertTaken(i) ==
    /\ phase[i] = "insert" /\ skuUnique
    /\ \E c \in SUBSET pending[i] :
         /\ IsBatch(i, c, pending[i]) /\ Taken(c)
         /\ nextId' = nextId + Cardinality(c)
    /\ phase' = [phase EXCEPT ![i] = "failed"]
    /\ UNCHANGED <<entity, skuUnique, table, prep, tasks>>

\* Collecting is in memory; then the tasks are spawned.  A table without
\* rows needs no transaction.
Collect(i) ==
    /\ phase[i] = "insert" /\ pending[i] = {}
    /\ task' = [task EXCEPT ![i] = [t \in Table |->
                  IF Lines(i, t, ids[i]) = {} THEN "ok" ELSE "idle"]]
    /\ phase' = [phase EXCEPT ![i] = "flush"]
    /\ UNCHANGED <<db, table, prep, sent, staged, applied>>

\* The file is malformed, a query fails, or the process dies.
PrepareFails(i) ==
    /\ phase[i] \in Preparing \cup {"idle"}
    /\ phase' = [phase EXCEPT ![i] = "failed"]
    /\ UNCHANGED <<db, table, prep, tasks>>

-----------------------------------------------------------------------------
(* The flush tasks. *)

SetTask(i, t, s) == task' = [task EXCEPT ![i][t] = s]

Begin(i, t) ==
    /\ phase[i] = "flush" /\ task[i][t] = "idle"
    /\ Cardinality({u \in Table : task[i][u] \in Holding}) < PoolSize
    /\ SetTask(i, t, "open")
    /\ UNCHANGED <<db, table, phase, prep, sent, staged, applied>>

Unsent(i, t) == Lines(i, t, ids[i]) \ sent[i][t]

\* Another transaction holds the lock of a row that c writes.
Locked(i, t, c) ==
    \E j \in Import \ {i} :
        /\ task[j][t] \in Holding
        /\ DOMAIN staged[j][t] \cap Keys(i, c, ids[i]) # {}

\* Mutant: executes the statement on the pool, not in the transaction.
SendChunkAutoCommitted(i, t) ==
    /\ phase[i] = "flush" /\ task[i][t] = "open"
    /\ \E c \in SUBSET Unsent(i, t) :
         /\ IsNextBatch(i, c, Unsent(i, t)) /\ ~Locked(i, t, c)
         /\ table' = [table EXCEPT ![t] = Upsert(@, UpsertRows(i, t, c, ids[i]))]
         /\ sent' = [sent EXCEPT ![i][t] = @ \cup c]
    /\ UNCHANGED <<db, phase, prep, task, staged, applied>>

SendChunk(i, t) ==
    /\ phase[i] = "flush" /\ task[i][t] = "open"
    /\ \E c \in SUBSET Unsent(i, t) :
         /\ IsNextBatch(i, c, Unsent(i, t)) /\ ~Locked(i, t, c)
         /\ staged' = [staged EXCEPT ![i][t] = Upsert(@, UpsertRows(i, t, c, ids[i]))]
         /\ sent' = [sent EXCEPT ![i][t] = @ \cup c]
    /\ UNCHANGED <<db, table, phase, prep, task, applied>>

SendCommit(i, t) ==
    /\ phase[i] = "flush" /\ task[i][t] = "open" /\ Unsent(i, t) = {}
    /\ SetTask(i, t, "committing")
    /\ UNCHANGED <<db, table, phase, prep, sent, staged, applied>>

\* What the server does on COMMIT.
Publish(i, t) ==
    /\ task[i][t] = "committing"
    /\ table' = [table EXCEPT ![t] = Upsert(@, staged[i][t])]
    /\ applied' = [applied EXCEPT ![i] = @ \cup {t}]
    /\ UNCHANGED <<db, phase, prep, sent, staged>>

Committed(i, t) == phase[i] = "flush" /\ SetTask(i, t, "ok") /\ Publish(i, t)

\* The server commits, the connection breaks before it says so.
CommitUnacknowledged(i, t) ==
    phase[i] = "flush" /\ SetTask(i, t, "err") /\ Publish(i, t)

\* Dropping the transaction rolls it back.
RollBack(i, t, s) ==
    /\ SetTask(i, t, s)
    /\ staged' = [staged EXCEPT ![i][t] = EmptyMap]
    /\ sent' = [sent EXCEPT ![i][t] = {}]
    /\ UNCHANGED <<db, table, phase, prep, applied>>

\* No connection within the acquire timeout, or a statement fails.
TaskFails(i, t) ==
    /\ phase[i] = "flush" /\ task[i][t] \in Holding \cup {"idle"}
    /\ RollBack(i, t, "err")

\* The server refuses to wait any longer for a row lock, or picks this
\* transaction as the victim of a deadlock.
LockRefused(i, t) ==
    /\ phase[i] = "flush" /\ task[i][t] = "open"
    /\ \E c \in SUBSET Unsent(i, t) :
         IsNextBatch(i, c, Unsent(i, t)) /\ Locked(i, t, c)
    /\ RollBack(i, t, "err")

-----------------------------------------------------------------------------
(* Joining the tasks. *)

JoinAll(i) ==
    /\ phase[i] = "flush"
    /\ \A t \in Table : task[i][t] = "ok"
    /\ phase' = [phase EXCEPT ![i] = "ok"]
    /\ UNCHANGED <<db, table, prep, tasks>>

\* Mutant: an error is looked at only once every task has failed.
JoinErrorOfAll(i) ==
    /\ phase[i] = "flush"
    /\ \A t \in Table : task[i][t] = "err"
    /\ phase' = [phase EXCEPT ![i] = "failed"]
    /\ UNCHANGED <<db, table, prep, tasks>>

\* The first error returns from import_products and drops the JoinSet.
JoinError(i) ==
    /\ phase[i] = "flush"
    /\ \E t \in Table : task[i][t] = "err"
    /\ phase' = [phase EXCEPT ![i] = "failed"]
    /\ UNCHANGED <<db, table, prep, tasks>>

Crash(i) ==
    /\ phase[i] = "flush"
    /\ phase' = [phase EXCEPT ![i] = "failed"]
    /\ UNCHANGED <<db, table, prep, tasks>>

\* Mutant: a dropped transaction is not rolled back.
AbortTaskUnopened(i, t) ==
    /\ phase[i] = "failed" /\ task[i][t] = "idle"
    /\ RollBack(i, t, "gone")

\* A task whose JoinSet or process is gone is rolled back by the server,
AbortTask(i, t) ==
    /\ phase[i] = "failed" /\ task[i][t] \in Holding \cup {"idle"}
    /\ RollBack(i, t, "gone")

\* unless its COMMIT was on the way.
LateCommit(i, t) == phase[i] = "failed" /\ SetTask(i, t, "gone") /\ Publish(i, t)

-----------------------------------------------------------------------------
Prepare(i) == \/ Start(i) \/ LookupChunk(i) \/ LookupDone(i)
              \/ InsertChunk(i) \/ InsertTaken(i) \/ Collect(i)

Flush(i, t) == \/ Begin(i, t) \/ SendChunk(i, t) \/ SendCommit(i, t)
               \/ Committed(i, t) \/ LockRefused(i, t)

Fault(i) == \/ PrepareFails(i) \/ Crash(i)
            \/ \E t \in Table : TaskFails(i, t) \/ CommitUnacknowledged(i, t)

Ending(i, t) == AbortTask(i, t) \/ LateCommit(i, t)

Next ==
    \E i \in Import :
        \/ Prepare(i) \/ JoinAll(i) \/ JoinError(i) \/ Fault(i)
        \/ \E t \in Table : Flush(i, t) \/ Ending(i, t)

Spec == Init /\ [][Next]_vars

\* Tokio polls every future that can go on, and the server runs or refuses
\* every statement it gets.  Nobody has to start an import.
FairSpec ==
    /\ Spec
    /\ \A i \in Import :
         /\ WF_vars(phase[i] # "idle" /\ Prepare(i))
         /\ WF_vars(JoinAll(i)) /\ WF_vars(JoinError(i))
         /\ \A t \in Table : WF_vars(Flush(i, t)) /\ WF_vars(Ending(i, t))
-----------------------------------------------------------------------------
(* Properties. *)

\* An id in sku_to_id is that of an entity with that very sku, whatever the
\* order of the inserted rows and whoever inserts between two chunks: the
\* last_insert_id + i arithmetic of insert_new_products.
IdsNameTheirSku ==
    \A i \in Import : \A s \in DOMAIN ids[i] :
        ids[i][s] \in DOMAIN entity /\ entity[ids[i][s]] = s

\* No target table has a row of an entity that does not exist.
NoOrphanRow == \A t \in Table : DOMAIN table[t] \subseteq DOMAIN entity

\* The lines of i that are to decide a value of table t: an entity's last.
FinalLines(i, t) ==
    {n \in Lines(i, t, ids[i]) : \A m \in Lines(i, t, ids[i]) :
                                   Csv[i][m].sku = Csv[i][n].sku => m <= n}

\* An import that reports success has its file's last value for every entity
\* in the tables, if no import that has touched a table, the failed, crashed
\* or simultaneous ones included, means another value for one of its skus: to
\* import a file again, or one like it, is harmless.
AgreeingImportsConverge ==
    \A i \in Import, t \in Table :
        /\ phase[i] = "ok"
        /\ \A j \in Import : t \in applied[j] =>
             \A n \in FinalLines(i, t), m \in FinalLines(j, t) :
                Csv[i][n].sku = Csv[j][m].sku => Csv[i][n].cell[t] = Csv[j][m].cell[t]
        => \A n \in FinalLines(i, t) :
             /\ KeyOf(i, n, ids[i]) \in DOMAIN table[t]
             /\ table[t][KeyOf(i, n, ids[i])] = Csv[i][n].cell[t]

\* What the imports that report success report as created.
reported == [i \in Import |-> IF phase[i] = "ok" THEN created[i] ELSE 0]

\* Whatever becomes of the other imports, those that report success do not
\* report more entities as created than there are, and exactly as many once
\* all of them have succeeded: where the schema lets two imports create one
\* sku, each counts the entity it made.  Each that succeeds has counted each
\* sku of its file once, as created or as updated: what a link column names
\* is counted nowhere.
CreatedAddsUp ==
    /\ SumFunction(reported) <= Cardinality(DOMAIN entity)
    /\ (\A i \in Import : phase[i] = "ok") =>
         SumFunction(reported) = Cardinality(DOMAIN entity)
    /\ \A i \in Import : phase[i] = "ok" =>
         created[i] + updated[i] = Cardinality(PrimarySkus(i))

\* The flush of a table is atomic, is complete when the import succeeds, and
\* leaves the last line's values: ImportRun implements TableImport.
HasResolved(i) == \E t \in Table : task[i][t] # "none"

idsBar      == [i \in Import |-> IF HasResolved(i) THEN ids[i] ELSE EmptyMap]
resolvedBar == {i \in Import : HasResolved(i)}
outcomeBar  == [i \in Import |-> IF phase[i] \in {"ok", "failed"}
                                 THEN phase[i] ELSE "running"]

Abstract == INSTANCE TableImport
            WITH ids <- idsBar, resolved <- resolvedBar, outcome <- outcomeBar

ImplementsTableImport == Abstract!Spec

\* Every import that starts ends, even where two imports wait for each
\* other's rows or all wait for a connection.
EveryImportEnds ==
    \A i \in Import : phase[i] \in Running ~> phase[i] \in {"ok", "failed"}

\* Every transaction ends and gives its connection and row locks back, after
\* a failure too.
TransactionsEnd ==
    \A i \in Import, t \in Table : task[i][t] \in Holding ~> task[i][t] \notin Holding
=============================================================================
