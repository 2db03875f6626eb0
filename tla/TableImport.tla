---------------------------- MODULE TableImport ----------------------------
(***************************************************************************)
(* What product imports promise, apart from how they are carried out.  An  *)
(* import resolves the skus of its file to entity ids once.  It replaces   *)
(* the rows of a table in one indivisible step, at most once, with the     *)
(* file's last value for each entity.  It reports success only when it has *)
(* done so for every table its file has rows for; an import that fails may *)
(* have updated any of them, but none of them in part.                     *)
(***************************************************************************)
EXTENDS ImportRows

VARIABLES
    ids,        \* each import's resolved skus
    resolved,   \* the imports that have resolved their skus
    table,      \* the contents of each table
    applied,    \* the tables each import has updated
    outcome     \* "running", "ok" or "failed"

vars == <<ids, resolved, table, applied, outcome>>

Targets(i) == {t \in Table : Lines(i, t, ids[i]) # {}}

Init ==
    /\ ids = [i \in Import |-> EmptyMap]
    /\ resolved = {}
    /\ table = [t \in Table |-> EmptyMap]
    /\ applied = [i \in Import |-> {}]
    /\ outcome = [i \in Import |-> "running"]

\* Every sku of the file gets an id, and some of the other ones it names do.
Resolve(i) ==
    /\ outcome[i] = "running" /\ i \notin resolved
    /\ PrimarySkus(i) \subseteq DOMAIN ids'[i]
    /\ DOMAIN ids'[i] \subseteq LookupSkus(i)
    /\ ids'[i] \in [DOMAIN ids'[i] -> Nat]
    /\ ids' = [ids EXCEPT ![i] = ids'[i]]
    /\ resolved' = resolved \cup {i}
    /\ UNCHANGED <<table, applied, outcome>>

\* The step may come after the import has reported its failure.
Apply(i, t) ==
    /\ i \in resolved /\ outcome[i] # "ok"
    /\ t \in Targets(i) \ applied[i]
    /\ table' = [table EXCEPT
                   ![t] = Upsert(@, UpsertRows(i, t, Lines(i, t, ids[i]), ids[i]))]
    /\ applied' = [applied EXCEPT ![i] = @ \cup {t}]
    /\ UNCHANGED <<ids, resolved, outcome>>

Succeed(i) ==
    /\ outcome[i] = "running" /\ i \in resolved
    /\ applied[i] = Targets(i)
    /\ outcome' = [outcome EXCEPT ![i] = "ok"]
    /\ UNCHANGED <<ids, resolved, table, applied>>

Fail(i) ==
    /\ outcome[i] = "running"
    /\ outcome' = [outcome EXCEPT ![i] = "failed"]
    /\ UNCHANGED <<ids, resolved, table, applied>>

Next ==
    \E i \in Import : \/ Resolve(i) \/ Succeed(i) \/ Fail(i)
                      \/ \E t \in Table : Apply(i, t)

Spec == Init /\ [][Next]_vars
=============================================================================
