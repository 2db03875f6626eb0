------------------------------ MODULE PgImport ------------------------------
(***************************************************************************)
(* crates/import/src/pg.rs: import_products_pg of several processes        *)
(* against one PostgreSQL database.  New entities are read back with       *)
(* RETURNING.  A table is flushed in one transaction, either by chunked    *)
(*   INSERT ... ON CONFLICT DO UPDATE SET v = EXCLUDED.v                   *)
(* or, with PgWriteMode::Copy, by a COPY of all rows into a temporary      *)
(* table and one such INSERT from there.  PostgreSQL refuses a statement   *)
(* of that kind that has two rows of one key.                              *)
(***************************************************************************)
EXTENDS ImportRows

CONSTANTS
    Copied,     \* the tables that are flushed by COPY
    PoolSize    \* connections of an import's pool

ASSUME PgImportAssumption ==
    /\ Copied \subseteq Table
    /\ PoolSize \in Nat \ {0}
    /\ \A i \in Import : Refs[i] = {}   \* no link columns here

VARIABLES
    entity,     \* catalog_product_entity: id -> sku, unique
    nextId,     \* its sequence
    table,      \* the committed rows of each target table
    phase,      \* where each import is
    pending,    \* skus to look up, then to insert
    ids,        \* sku_to_id
    task,       \* the state of each flush task
    copied,     \* whether its temporary table has been filled
    sent,       \* the lines that its transaction has upserted
    applied     \* history: the tables each import has committed

db    == <<entity, nextId>>
prep  == <<pending, ids>>
tasks == <<task, copied, sent, applied>>
vars  == <<entity, nextId, table, phase, pending, ids, task, copied, sent, applied>>

Preparing == {"lookup", "insert"}
Running   == Preparing \cup {"flush"}
Holding   == {"open", "committing"}

TypeOK ==
    /\ nextId \in Nat \ {0}
    /\ DOMAIN entity \subseteq 1 .. nextId - 1
    /\ entity \in [DOMAIN entity -> Sku]
    /\ \A k, n \in DOMAIN entity : entity[k] = entity[n] => k = n
    /\ DOMAIN table = Table
    /\ \A t \in Table : table[t] \in [DOMAIN table[t] -> Value]
    /\ phase \in [Import -> Running \cup {"idle", "ok", "failed"}]
    /\ pending \in [Import -> SUBSET Sku]
    /\ \A i \in Import : pending[i] \subseteq PrimarySkus(i)
    /\ DOMAIN ids = Import
    /\ \A i \in Import : /\ DOMAIN ids[i] \subseteq PrimarySkus(i)
                         /\ ids[i] \in [DOMAIN ids[i] -> Nat]
    /\ task \in [Import -> [Table ->
                   Holding \cup {"none", "idle", "ok", "err", "repeated", "gone"}]]
    /\ copied \in [Import -> SUBSET Copied]
    /\ sent \in [Import -> [Table -> SUBSET Nat]]
    /\ applied \in [Import -> SUBSET Table]

Init ==
    /\ entity = EmptyMap
    /\ nextId = 1
    /\ table = [t \in Table |-> EmptyMap]
    /\ phase = [i \in Import |-> "idle"]
    /\ pending = [i \in Import |-> {}]
    /\ ids = [i \in Import |-> EmptyMap]
    /\ task = [i \in Import |-> [t \in Table |-> "none"]]
    /\ copied = [i \in Import |-> {}]
    /\ sent = [i \in Import |-> [t \in Table |-> {}]]
    /\ applied = [i \in Import |-> {}]

-----------------------------------------------------------------------------
(* Resolving skus. *)

Start(i) ==
    /\ phase[i] = "idle"
    /\ phase' = [phase EXCEPT ![i] = "lookup"]
    /\ pending' = [pending EXCEPT ![i] = PrimarySkus(i)]
    /\ UNCHANGED <<db, table, ids, tasks>>

EntitiesOf(skus) == {id \in DOMAIN entity : entity[id] \in skus}

\* The ids of a set of entities, by their sku.
BySku(E) == [s \in {entity[id] : id \in E} |-> CHOOSE id \in E : entity[id] = s]

LookupChunk(i) ==
    /\ phase[i] = "lookup"
    /\ \E c \in SUBSET pending[i] :
         /\ IsBatch(i, c, pending[i])
         /\ ids' = [ids EXCEPT ![i] = Upsert(@, BySku(EntitiesOf(c)))]
         /\ pending' = [pending EXCEPT ![i] = @ \ c]
    /\ UNCHANGED <<db, table, phase, tasks>>

LookupDone(i) ==
    /\ phase[i] = "lookup" /\ pending[i] = {}
    /\ phase' = [phase EXCEPT ![i] = "insert"]
    /\ pending' = [pending EXCEPT ![i] = PrimarySkus(i) \ DOMAIN ids[i]]
    /\ UNCHANGED <<db, table, ids, tasks>>

\* The rows of an INSERT, numbered in any order.
Inserted(c) ==
    {f \in [c -> nextId .. nextId + Cardinality(c) - 1] :
        \A s, r \in c : f[s] = f[r] => s = r}

\* Mutant: takes the returned ids for those of the entries in their order.
ReturnedInOrder(f) == CHOOSE g \in Inserted(DOMAIN f) : TRUE

\* RETURNING sku, entity_id.
Returned(f) == f

InsertChunk(i) ==
    /\ phase[i] = "insert"
    /\ \E c \in SUBSET pending[i] :
         /\ IsBatch(i, c, pending[i]) /\ EntitiesOf(c) = {}
         /\ \E f \in Inserted(c) :
              /\ entity' = Upsert(entity,
                   [id \in {f[s] : s \in c} |-> CHOOSE s \in c : f[s] = id])
              /\ ids' = [ids EXCEPT ![i] = Upsert(@, Returned(f))]
         /\ nextId' = nextId + Cardinality(c)
         /\ pending' = [pending EXCEPT ![i] = @ \ c]
    /\ UNCHANGED <<table, phase, tasks>>

\* Another import has created one of the skus: the unique key refuses it.
InsertTaken(i) ==
    /\ phase[i] = "insert"
    /\ \E c \in SUBSET pending[i] :
         /\ IsBatch(i, c, pending[i]) /\ EntitiesOf(c) # {}
         /\ nextId' = nextId + Cardinality(c)
    /\ phase' = [phase EXCEPT ![i] = "failed"]
    /\ UNCHANGED <<entity, table, prep, tasks>>

Collect(i) ==
    /\ phase[i] = "insert" /\ pending[i] = {}
    /\ phase' = [phase EXCEPT ![i] = "flush"]
    /\ task' = [task EXCEPT ![i] = [t \in Table |->
                  IF Lines(i, t, ids[i]) = {} THEN "ok" ELSE "idle"]]
    /\ UNCHANGED <<db, table, prep, copied, sent, applied>>

PrepareFails(i) ==
    /\ phase[i] \in Preparing \cup {"idle"}
    /\ phase' = [phase EXCEPT ![i] = "failed"]
    /\ UNCHANGED <<db, table, prep, tasks>>

-----------------------------------------------------------------------------
(* The flush tasks. *)

Flushing(i, t, s) == phase[i] = "flush" /\ task[i][t] = s
SetTask(i, t, s)  == task' = [task EXCEPT ![i][t] = s]

Begin(i, t) ==
    /\ Flushing(i, t, "idle")
    /\ Cardinality({u \in Table : task[i][u] \in Holding}) < PoolSize
    /\ SetTask(i, t, "open")
    /\ UNCHANGED <<db, table, phase, prep, copied, sent, applied>>

\* Creates the temporary table and fills it.
CopyIn(i, t) ==
    /\ Flushing(i, t, "open") /\ t \in Copied \ copied[i]
    /\ copied' = [copied EXCEPT ![i] = @ \cup {t}]
    /\ UNCHANGED <<db, table, phase, prep, task, sent, applied>>

Unsent(i, t) == Lines(i, t, ids[i]) \ sent[i][t]

\* The lines of the next INSERT: a chunk, or all of the temporary table.
IsStatement(i, t, c) ==
    /\ Flushing(i, t, "open")
    /\ \/ t \in Copied /\ t \in copied[i] /\ c = Unsent(i, t) /\ c # {}
       \/ t \notin Copied /\ IsNextBatch(i, c, Unsent(i, t))

Repeats(i, c) ==
    \E m, n \in c : m # n /\ KeyOf(i, m, ids[i]) = KeyOf(i, n, ids[i])

\* Another transaction has written a row that c writes.
Locked(i, t, c) ==
    \E j \in Import \ {i} :
        /\ task[j][t] \in Holding
        /\ Keys(j, sent[j][t], ids[j]) \cap Keys(i, c, ids[i]) # {}

SendRows(i, t) ==
    \E c \in SUBSET Unsent(i, t) :
        /\ IsStatement(i, t, c) /\ ~Repeats(i, c) /\ ~Locked(i, t, c)
        /\ sent' = [sent EXCEPT ![i][t] = @ \cup c]
        /\ UNCHANGED <<db, table, phase, prep, task, copied, applied>>

SendCommit(i, t) ==
    /\ Flushing(i, t, "open") /\ Unsent(i, t) = {}
    /\ SetTask(i, t, "committing")
    /\ UNCHANGED <<db, table, phase, prep, copied, sent, applied>>

\* Mutant: ON CONFLICT DO NOTHING.
WrittenIfNew(i, t) == Upsert(UpsertRows(i, t, sent[i][t], ids[i]), table[t])

\* What a COMMIT makes of the table.
Written(i, t) == Upsert(table[t], UpsertRows(i, t, sent[i][t], ids[i]))

Publish(i, t) ==
    /\ task[i][t] = "committing"
    /\ table' = [table EXCEPT ![t] = Written(i, t)]
    /\ applied' = [applied EXCEPT ![i] = @ \cup {t}]
    /\ UNCHANGED <<db, phase, prep, copied, sent>>

Committed(i, t) == phase[i] = "flush" /\ SetTask(i, t, "ok") /\ Publish(i, t)

CommitUnacknowledged(i, t) ==
    phase[i] = "flush" /\ SetTask(i, t, "err") /\ Publish(i, t)

\* The temporary table goes with its transaction.
RollBack(i, t, s) ==
    /\ SetTask(i, t, s)
    /\ copied' = [copied EXCEPT ![i] = @ \ {t}]
    /\ sent' = [sent EXCEPT ![i][t] = {}]
    /\ UNCHANGED <<db, table, phase, prep, applied>>

\* "ON CONFLICT DO UPDATE command cannot affect row a second time".
RowRepeated(i, t) ==
    /\ \E c \in SUBSET Unsent(i, t) : IsStatement(i, t, c) /\ Repeats(i, c)
    /\ RollBack(i, t, "repeated")

TaskFails(i, t) ==
    /\ phase[i] = "flush" /\ task[i][t] \in Holding \cup {"idle"}
    /\ RollBack(i, t, "err")

LockRefused(i, t) ==
    /\ \E c \in SUBSET Unsent(i, t) : IsStatement(i, t, c) /\ Locked(i, t, c)
    /\ RollBack(i, t, "err")

-----------------------------------------------------------------------------
(* Joining the tasks. *)

JoinAll(i) ==
    /\ phase[i] = "flush" /\ \A t \in Table : task[i][t] = "ok"
    /\ phase' = [phase EXCEPT ![i] = "ok"]
    /\ UNCHANGED <<db, table, prep, tasks>>

\* Mutant: a repeated row is not taken for an error.
JoinOtherError(i) ==
    /\ phase[i] = "flush" /\ \E t \in Table : task[i][t] = "err"
    /\ phase' = [phase EXCEPT ![i] = "failed"]
    /\ UNCHANGED <<db, table, prep, tasks>>

JoinError(i) ==
    /\ phase[i] = "flush" /\ \E t \in Table : task[i][t] \in {"err", "repeated"}
    /\ phase' = [phase EXCEPT ![i] = "failed"]
    /\ UNCHANGED <<db, table, prep, tasks>>

Crash(i) ==
    /\ phase[i] = "flush"
    /\ phase' = [phase EXCEPT ![i] = "failed"]
    /\ UNCHANGED <<db, table, prep, tasks>>

AbortTask(i, t) ==
    /\ phase[i] = "failed" /\ task[i][t] \in Holding \cup {"idle"}
    /\ RollBack(i, t, "gone")

LateCommit(i, t) == phase[i] = "failed" /\ SetTask(i, t, "gone") /\ Publish(i, t)

-----------------------------------------------------------------------------
Prepare(i) == \/ Start(i) \/ LookupChunk(i) \/ LookupDone(i)
              \/ InsertChunk(i) \/ InsertTaken(i) \/ Collect(i)

Flush(i, t) == \/ Begin(i, t) \/ CopyIn(i, t) \/ SendRows(i, t) \/ SendCommit(i, t)
               \/ Committed(i, t) \/ RowRepeated(i, t) \/ LockRefused(i, t)

Fault(i) == \/ PrepareFails(i) \/ Crash(i)
            \/ \E t \in Table : TaskFails(i, t) \/ CommitUnacknowledged(i, t)

Ending(i, t) == AbortTask(i, t) \/ LateCommit(i, t)

Next ==
    \E i \in Import :
        \/ Prepare(i) \/ JoinAll(i) \/ JoinError(i) \/ Fault(i)
        \/ \E t \in Table : Flush(i, t) \/ Ending(i, t)

Spec == Init /\ [][Next]_vars

\* As in ImportRun: what can go on does, and waits for a lock come to an end.
FairSpec ==
    /\ Spec
    /\ \A i \in Import :
         /\ WF_vars(phase[i] # "idle" /\ Prepare(i))
         /\ WF_vars(JoinAll(i)) /\ WF_vars(JoinError(i))
         /\ \A t \in Table : WF_vars(Flush(i, t)) /\ WF_vars(Ending(i, t))
-----------------------------------------------------------------------------
(* Properties. *)

\* Both ways of flushing keep the promise of the MySQL path: a table is
\* replaced at once or not at all, with the last line's values, and an import
\* that succeeds has replaced them all.
HasResolved(i) == \E t \in Table : task[i][t] # "none"

idsBar      == [i \in Import |-> IF HasResolved(i) THEN ids[i] ELSE EmptyMap]
resolvedBar == {i \in Import : HasResolved(i)}
outcomeBar  == [i \in Import |-> IF phase[i] \in {"ok", "failed"}
                                 THEN phase[i] ELSE "running"]

Abstract == INSTANCE TableImport
            WITH ids <- idsBar, resolved <- resolvedBar, outcome <- outcomeBar

ImplementsTableImport == Abstract!Spec

\* An id in sku_to_id is that of the entity with that very sku, in whatever
\* order the server has numbered the rows of a statement.
IdsNameTheirSku ==
    \A i \in Import : \A s \in DOMAIN ids[i] :
        ids[i][s] \in DOMAIN entity /\ entity[ids[i][s]] = s

\* Every import that starts ends, refused rows and deadlocks included.
EveryImportEnds ==
    \A i \in Import : phase[i] \in Running ~> phase[i] \in {"ok", "failed"}
=============================================================================
