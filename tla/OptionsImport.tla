--------------------------- MODULE OptionsImport ---------------------------
(***************************************************************************)
(* crates/import/src/custom_options.rs: flush_custom_options of several    *)
(* imports.  Each replaces the options of its file's products, and their   *)
(* values, in one InnoDB transaction (REPEATABLE READ): its SELECT sees    *)
(* the committed rows, its DELETEs act on the rows last committed, which   *)
(* they lock together with the gaps others would insert into.              *)
(* flush_bundle_options (bundle.rs) is the same protocol, with selections  *)
(* for values.                                                             *)
(***************************************************************************)
EXTENDS Naturals, Sequences, FiniteSets

CONSTANTS
    Import,     \* the imports that flush options
    Product,    \* the products their files name
    Listed,     \* of each, the options in file order: [product, values],
                \* where values is how many values the option has
    BatchSize,  \* rows of one INSERT
    MaxId       \* bound: option ids handed out

\* Stands for the imports before these.
Old == "old"

ASSUME OptionsImportAssumption ==
    /\ Old \notin Import
    /\ IsFiniteSet(Product)
    /\ Listed \in [Import -> Seq([product : Product, values : Nat])]
    /\ BatchSize \in Nat \ {0}
    /\ MaxId \in Nat

VARIABLES
    options,    \* catalog_product_option: id -> [product, of]
    values,     \* catalog_product_option_type_value: [option, of, n] rows
    nextId,     \* auto-increment counter of the options
    pc,         \* where each import's flush is
    found,      \* existing_option_ids
    cleared,    \* the options whose values its transaction has deleted
    dropped,    \* the options it has deleted
    fresh,      \* the options it has inserted
    ids,        \* option_ids
    added,      \* the values it has inserted
    overlap     \* history: whether two flushes ever ran at once

shared == <<options, values, nextId>>
vars   == <<options, values, nextId, pc, found, cleared, dropped, fresh, ids,
            added, overlap>>

Products(i) == {Listed[i][k].product : k \in DOMAIN Listed[i]}

Active == {"clear", "drop", "insert", "values"}
Busy   == {i \in Import : pc[i] \in Active}
None   == [id \in {} |-> 0]

\* A value row names the id it is filed under, and is the n-th of an option.
Value(id, of, n) == [option |-> id, of |-> of, n |-> n]

\* "of" tells what an option is: <<import, place in its list>>, or <<Old, id>>
\* if it was there before them all.
OptionRow == [product : Product, of : (Import \cup {Old}) \X Nat]
ValueRow  == [option : Nat, of : (Import \cup {Old}) \X Nat, n : Nat]

TypeOK ==
    /\ nextId \in Nat \ {0}
    /\ options \in [DOMAIN options -> OptionRow] /\ DOMAIN options \subseteq 1 .. nextId - 1
    /\ values \subseteq ValueRow /\ \A v \in values : v.option < nextId
    /\ pc \in [Import -> Active \cup {"idle", "ok", "failed"}]
    /\ found \in [Import -> SUBSET (1 .. nextId - 1)]
    /\ cleared \in [Import -> SUBSET (1 .. nextId - 1)]
    /\ dropped \in [Import -> SUBSET (1 .. nextId - 1)]
    /\ DOMAIN fresh = Import
    /\ \A i \in Import : /\ fresh[i] \in [DOMAIN fresh[i] -> OptionRow]
                         /\ DOMAIN fresh[i] \subseteq 1 .. nextId - 1
    /\ ids \in [Import -> Seq(Nat)]
    /\ added \in [Import -> SUBSET ValueRow]
    /\ overlap \in BOOLEAN

\* Some products have an option with a value, from an earlier import.
Init ==
    /\ \E old \in SUBSET Product :
         \E f \in [1 .. Cardinality(old) -> old] :
           /\ \A p \in old : \E id \in DOMAIN f : f[id] = p
           /\ options = [id \in DOMAIN f |-> [product |-> f[id], of |-> <<Old, id>>]]
           /\ values = {Value(id, <<Old, id>>, 1) : id \in DOMAIN f}
           /\ nextId = Cardinality(old) + 1
    /\ pc = [i \in Import |-> "idle"]
    /\ found = [i \in Import |-> {}]
    /\ cleared = [i \in Import |-> {}]
    /\ dropped = [i \in Import |-> {}]
    /\ fresh = [i \in Import |-> None]
    /\ ids = [i \in Import |-> <<>>]
    /\ added = [i \in Import |-> {}]
    /\ overlap = FALSE

-----------------------------------------------------------------------------
(* Locks. *)

\* The rows of a product that another transaction has deleted or inserted.
RowsHeld(i, p) ==
    \E j \in Busy \ {i} :
        \/ \E id \in dropped[j] : options[id].product = p
        \/ \E id \in DOMAIN fresh[j] : fresh[j][id].product = p

\* A DELETE by product keeps others from inserting rows of that product.
GapHeld(i, p) ==
    \E j \in Busy \ {i} : pc[j] \in {"insert", "values"} /\ p \in Products(j)

ValuesHeld(i) == \E j \in Busy \ {i} : cleared[j] \cap found[i] # {}

-----------------------------------------------------------------------------
(* The statements of flush_custom_options. *)

Goto(i, place) == pc' = [pc EXCEPT ![i] = place]

OptionsOf(products) == {id \in DOMAIN options : options[id].product \in products}

\* The transaction begins with the SELECT of existing_option_ids.  A file
\* without options needs none.
SelectIds(i) ==
    /\ pc[i] = "idle" /\ Listed[i] # <<>> /\ Goto(i, "clear")
    /\ found' = [found EXCEPT ![i] = OptionsOf(Products(i))]
    /\ overlap' = (overlap \/ Busy # {})
    /\ UNCHANGED <<shared, cleared, dropped, fresh, ids, added>>

\* Mutant: relies on the options' DELETE to take the values along.
DeleteNoValues(i) ==
    /\ pc[i] = "clear" /\ Goto(i, "drop")
    /\ UNCHANGED <<shared, found, cleared, dropped, fresh, ids, added, overlap>>

DeleteValues(i) ==
    /\ pc[i] = "clear" /\ ~ValuesHeld(i) /\ Goto(i, "drop")
    /\ cleared' = [cleared EXCEPT ![i] = found[i]]
    /\ UNCHANGED <<shared, found, dropped, fresh, ids, added, overlap>>

\* Mutant: deletes the options it has read, not those there are.
DeleteFoundOptions(i) ==
    /\ pc[i] = "drop" /\ \A p \in Products(i) : ~RowsHeld(i, p)
    /\ Goto(i, "insert")
    /\ dropped' = [dropped EXCEPT ![i] = found[i] \cap DOMAIN options]
    /\ UNCHANGED <<shared, found, cleared, fresh, ids, added, overlap>>

\* Deletes by product, what was committed after the SELECT included.
DeleteOptions(i) ==
    /\ pc[i] = "drop" /\ \A p \in Products(i) : ~RowsHeld(i, p)
    /\ Goto(i, "insert")
    /\ dropped' = [dropped EXCEPT ![i] = OptionsOf(Products(i))]
    /\ UNCHANGED <<shared, found, cleared, fresh, ids, added, overlap>>

\* The places in the list of the next chunk.
NextChunk(i) ==
    {k \in DOMAIN Listed[i] : k > Len(ids[i]) /\ k <= Len(ids[i]) + BatchSize}

ChunkHeld(i) == \E k \in NextChunk(i) : GapHeld(i, Listed[i][k].product)

\* The id of the option at place k of a list whose chunk starts after n.
IdOfRowFromZero(first, n, k) == first + k - 1   \* mutant: offset over all chunks
IdOfRow(first, n, k) == first + (k - n - 1)

\* One INSERT; the ids are worked out from its last_insert_id.
InsertOptions(i) ==
    LET n == Len(ids[i])
        c == NextChunk(i)
        last == n + Cardinality(c) IN
    /\ pc[i] = "insert" /\ c # {} /\ ~ChunkHeld(i)
    /\ nextId + Cardinality(c) <= MaxId + 1
    /\ fresh' = [fresh EXCEPT ![i] =
         [id \in DOMAIN @ \cup {nextId + k - n - 1 : k \in c} |->
            IF id \in DOMAIN @ THEN @[id]
            ELSE LET k == n + id - nextId + 1 IN
                 [product |-> Listed[i][k].product, of |-> <<i, k>>]]]
    /\ ids' = [ids EXCEPT ![i] =
                 [k \in 1 .. last |-> IF k <= n THEN @[k] ELSE IdOfRow(nextId, n, k)]]
    /\ nextId' = nextId + Cardinality(c)
    /\ UNCHANGED <<options, values, pc, found, cleared, dropped, added, overlap>>

\* Every option has its id; the values come next.
OptionsInserted(i) ==
    /\ pc[i] = "insert" /\ NextChunk(i) = {} /\ Goto(i, "values")
    /\ UNCHANGED <<shared, found, cleared, dropped, fresh, ids, added, overlap>>

\* The values of the list that are still to be inserted.
Slots(i)   == UNION {{k} \X (1 .. Listed[i][k].values) : k \in DOMAIN Listed[i]}
Pending(i) == Slots(i) \ {<<v.of[2], v.n>> : v \in added[i]}

\* One INSERT of values, each under the id of its option.
InsertValues(i) ==
    /\ pc[i] = "values"
    /\ \E c \in SUBSET Pending(i) :
         /\ c # {} /\ Cardinality(c) <= BatchSize
         /\ Cardinality(c) < BatchSize => c = Pending(i)
         /\ added' = [added EXCEPT ![i] = @ \cup
                        {Value(ids[i][s[1]], <<i, s[1]>>, s[2]) : s \in c}]
    /\ UNCHANGED <<shared, pc, found, cleared, dropped, fresh, ids, overlap>>

-----------------------------------------------------------------------------
(* The end of the transaction. *)

\* The locks go, and what the transaction knows.
Release(i) ==
    /\ found' = [found EXCEPT ![i] = {}]
    /\ cleared' = [cleared EXCEPT ![i] = {}]
    /\ dropped' = [dropped EXCEPT ![i] = {}]
    /\ fresh' = [fresh EXCEPT ![i] = None]
    /\ ids' = [ids EXCEPT ![i] = <<>>]
    /\ added' = [added EXCEPT ![i] = {}]
    /\ UNCHANGED <<nextId, overlap>>

\* The acknowledgement of a COMMIT can get lost.
Commit(i) ==
    /\ pc[i] = "values" /\ Pending(i) = {}
    /\ Goto(i, "ok") \/ Goto(i, "failed")
    /\ options' = [id \in (DOMAIN options \ dropped[i]) \cup DOMAIN fresh[i] |->
                     IF id \in DOMAIN fresh[i] THEN fresh[i][id] ELSE options[id]]
    /\ values' = {v \in values : v.option \notin cleared[i]} \cup added[i]
    /\ Release(i)

RollBack(i) == Goto(i, "failed") /\ UNCHANGED <<options, values>> /\ Release(i)

\* No connection, a statement fails, or the process dies.
Fails(i) == pc[i] \in Active \cup {"idle"} /\ RollBack(i)

\* Whether the next statement has to wait for a lock.
Waits(i) ==
    \/ pc[i] = "clear" /\ ValuesHeld(i)
    \/ pc[i] = "drop" /\ \E p \in Products(i) : RowsHeld(i, p)
    \/ pc[i] = "insert" /\ ChunkHeld(i)

\* Mutant: an INSERT that a gap lock holds up is tried for ever.
LockRetried(i) == Waits(i) /\ pc[i] # "insert" /\ RollBack(i)

LockRefused(i) == Waits(i) /\ RollBack(i)

Step(i) == \/ DeleteValues(i) \/ DeleteOptions(i) \/ InsertOptions(i)
           \/ OptionsInserted(i) \/ InsertValues(i) \/ Commit(i) \/ LockRefused(i)

Next == \E i \in Import : SelectIds(i) \/ Step(i) \/ Fails(i)

Spec == Init /\ [][Next]_vars

\* The server runs or refuses every statement it gets; nothing has to start.
FairSpec == Spec /\ \A i \in Import : WF_vars(Step(i))
-----------------------------------------------------------------------------
(* Properties. *)

\* An import replaces the whole option set of each of its products at once
\* or not at all: however two imports of one product interleave, its options
\* are never of both, and no option is there twice.
setsBar == [p \in Product |-> {options[id].of : id \in OptionsOf({p})}]
outcomeBar == [i \in Import |-> IF pc[i] \in {"ok", "failed"} THEN pc[i] ELSE "running"]

Abstract == INSTANCE OptionSets WITH sets <- setsBar, outcome <- outcomeBar

ImplementsOptionSets == Abstract!Spec

\* Each option that a flush has inserted has the values listed for it and no
\* others: option_ids[i] is the id of the i-th option, in whatever chunk.
OptionsHaveTheirValues ==
    \A id \in DOMAIN options :
        LET of == options[id].of IN
        of[1] \in Import =>
            {v \in values : v.option = id}
              = {Value(id, of, n) : n \in 1 .. Listed[of[1]][of[2]].values}

\* As long as no two flushes overlap, the values of a replaced option go with
\* it: nothing else in the program would ever delete them.
NoOrphanValue == ~overlap => \A v \in values : v.option \in DOMAIN options

\* Every flush ends, even if imports wait for each other's rows and gaps.
FlushesEnd == \A i \in Import : pc[i] \in Active ~> pc[i] \in {"ok", "failed"}
=============================================================================
