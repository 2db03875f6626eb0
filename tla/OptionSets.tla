----------------------------- MODULE OptionSets -----------------------------
(***************************************************************************)
(* What imports promise about option sets: an import replaces the sets of  *)
(* all products of its file by the ones it lists, in one indivisible step, *)
(* or changes nothing.  One that reports success has replaced them; one    *)
(* that reports a failure may have.                                        *)
(***************************************************************************)
EXTENDS Naturals, Sequences

CONSTANTS
    Import,     \* the imports that flush options
    Product,    \* the products they can name
    Listed      \* of each import, a sequence of [product, values] records

VARIABLES
    sets,       \* each product's options, as <<import, position in its list>>
    outcome     \* "running", "ok" or "failed"

vars == <<sets, outcome>>

Products(i)  == {Listed[i][k].product : k \in DOMAIN Listed[i]}
SetOf(i, p)  == {<<i, k>> : k \in {n \in DOMAIN Listed[i] : Listed[i][n].product = p}}

Init == outcome = [i \in Import |-> "running"]

Replace(i) ==
    /\ outcome[i] = "running"
    /\ sets' = [p \in Product |->
                  IF p \in Products(i) THEN SetOf(i, p) ELSE sets[p]]
    /\ \E o \in {"ok", "failed"} : outcome' = [outcome EXCEPT ![i] = o]

Fail(i) ==
    /\ outcome[i] = "running"
    /\ outcome' = [outcome EXCEPT ![i] = "failed"]
    /\ UNCHANGED sets

Next == \E i \in Import : Replace(i) \/ Fail(i)

Spec == Init /\ [][Next]_vars
=============================================================================
