------------------------------ MODULE Listings ------------------------------
(* Lists of entity ids, and what a filter leaves of them.                  *)
EXTENDS Naturals, Sequences

\* The elements of s that are in S, in the order of s: SelectSeq, as a
\* recursive function, about which theorems can be proved.
Kept(s, S) ==
    LET kept[n \in 0 .. Len(s)] ==
            IF n = 0 THEN <<>>
            ELSE IF s[n] \in S THEN Append(kept[n - 1], s[n]) ELSE kept[n - 1]
    IN kept[Len(s)]
=============================================================================
