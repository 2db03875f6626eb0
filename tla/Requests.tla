------------------------------ MODULE Requests ------------------------------
(* The requests a server handles at the same time, one tokio task each.    *)
CONSTANT Request

ASSUME RequestAssumption == Request # {}

\* HashMap::insert.
With(f, k, x) == [j \in DOMAIN f \cup {k} |-> IF j = k THEN x ELSE f[j]]
=============================================================================
