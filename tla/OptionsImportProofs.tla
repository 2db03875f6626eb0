------------------------ MODULE OptionsImportProofs ------------------------
(***************************************************************************)
(* OptionsImport implements OptionSets, for any imports, files and chunk   *)
(* size: the locks keep apart what the DELETEs and INSERTs of different    *)
(* imports are about, and the ids worked out from last_insert_id are those *)
(* of the rows inserted.                                                   *)
(***************************************************************************)
EXTENDS OptionsImport, FiniteSetTheorems, TLAPS

Deleted == {"insert", "values"}     \* past the DELETE of the options

\* The k-th id of the list is that of the k-th option, and there is no other.
IdsInv(i) ==
    /\ Len(ids[i]) <= Len(Listed[i])
    /\ \A k \in 1 .. Len(ids[i]) :
         /\ ids[i][k] \in DOMAIN fresh[i]
         /\ fresh[i][ids[i][k]] = [product |-> Listed[i][k].product, of |-> <<i, k>>]
    /\ \A id \in DOMAIN fresh[i] : \E k \in 1 .. Len(ids[i]) : id = ids[i][k]
    /\ pc[i] = "values" => Len(ids[i]) = Len(Listed[i])

\* What a transaction has found and deleted.  After the DELETE it is all
\* there is of its products; what it found is, too, unless flushes overlap.
PlaceInv(i) ==
    /\ pc[i] \notin Deleted => dropped[i] = {} /\ ids[i] = <<>>
    /\ pc[i] \in Deleted => dropped[i] = OptionsOf(Products(i))
    /\ pc[i] \notin Active => found[i] = {}
    /\ cleared[i] \subseteq found[i]
    /\ pc[i] \in Deleted \cup {"drop"} => cleared[i] = found[i]
    /\ found[i] \cap DOMAIN options \subseteq OptionsOf(Products(i))
    /\ ~overlap /\ pc[i] \in Active => found[i] = OptionsOf(Products(i))

\* Each value is filed under the id of its option.
AddedInv(i) ==
    \A v \in added[i] :
        /\ pc[i] = "values"
        /\ \E k \in DOMAIN Listed[i] : \E n \in 1 .. Listed[i][k].values :
             v = Value(ids[i][k], <<i, k>>, n)

\* The ids of a transaction are new.
FreshInv(i) ==
    \A id \in DOMAIN fresh[i] :
        /\ id \notin DOMAIN options
        /\ \A j \in Import : id \notin found[j]
        /\ \A v \in values : v.option # id

OwnInv(i) == IdsInv(i) /\ PlaceInv(i) /\ AddedInv(i) /\ FreshInv(i)

\* What the locks keep apart: nobody inserts options of products whose set
\* another import has deleted, and no option is deleted twice.
ApartInv(i, j) ==
    /\ pc[i] \in Deleted => \A id \in DOMAIN fresh[j] : fresh[j][id].product \notin Products(i)
    /\ DOMAIN fresh[i] \cap DOMAIN fresh[j] = {}
    /\ dropped[i] \cap dropped[j] = {}
    /\ ~overlap => ~(pc[i] \in Active /\ pc[j] \in Active)

OptionsInv ==
    /\ TypeOK
    /\ \A i \in Import : OwnInv(i)
    /\ \A i, j \in Import : i # j => ApartInv(i, j)
    /\ OptionsHaveTheirValues
    /\ NoOrphanValue

-----------------------------------------------------------------------------
(* The files and their chunks. *)

LEMMA ElementsOf ==
    ASSUME NEW S, NEW s \in Seq(S)
    PROVE  \A k \in DOMAIN s : s[k] \in S
OBVIOUS

LEMMA ListedType ==
    ASSUME NEW i \in Import
    PROVE  /\ Len(Listed[i]) \in Nat /\ DOMAIN Listed[i] = 1 .. Len(Listed[i])
           /\ \A k \in DOMAIN Listed[i] : /\ Listed[i][k].product \in Product
                                          /\ Listed[i][k].product \in Products(i)
                                          /\ Listed[i][k].values \in Nat
           /\ Products(i) \subseteq Product
<1>1. Listed[i] \in Seq([product : Product, values : Nat])
  BY OptionsImportAssumption
<1>2. Len(Listed[i]) \in Nat /\ DOMAIN Listed[i] = 1 .. Len(Listed[i])
  BY <1>1
<1>3. \A k \in DOMAIN Listed[i] : Listed[i][k] \in [product : Product, values : Nat]
  BY <1>1, <1>2, ElementsOf, Zenon
<1> QED BY <1>2, <1>3 DEF Products

LEMMA EmptyIds == Len(<<>>) = 0 /\ <<>> \in Seq(Nat)
OBVIOUS

LEMMA NoneEmpty == DOMAIN None = {} /\ None \in [{} -> OptionRow]
BY DEF None

\* Without ids there is nothing inserted.
LEMMA NothingFresh ==
    ASSUME NEW i \in Import, OwnInv(i), pc[i] \notin Deleted
    PROVE  DOMAIN fresh[i] = {} /\ dropped[i] = {} /\ added[i] = {} /\ ids[i] = <<>>
<1>1. dropped[i] = {} /\ ids[i] = <<>>
  BY DEF OwnInv, PlaceInv
<1>2. added[i] = {}
  BY DEF OwnInv, AddedInv, Deleted
<1>3. DOMAIN fresh[i] = {}
  <2>1. 1 .. Len(ids[i]) = {}
    BY <1>1
  <2> QED BY <2>1 DEF OwnInv, IdsInv
<1> QED BY <1>1, <1>2, <1>3

LEMMA InsertedAs ==
    ASSUME NEW i \in Import, IdsInv(i), NEW k \in 1 .. Len(ids[i])
    PROVE  /\ ids[i][k] \in DOMAIN fresh[i]
           /\ fresh[i][ids[i][k]].product = Listed[i][k].product
           /\ fresh[i][ids[i][k]].of = <<i, k>>
<1>1. /\ ids[i][k] \in DOMAIN fresh[i]
      /\ fresh[i][ids[i][k]] = [product |-> Listed[i][k].product, of |-> <<i, k>>]
  BY DEF IdsInv
<1> QED BY <1>1

\* One INSERT takes the next places of the list, in a row.
LEMMA ChunkIsInterval ==
    ASSUME NEW i \in Import, Len(ids[i]) \in Nat, NextChunk(i) # {}
    PROVE  \E m \in Nat : /\ m > Len(ids[i]) /\ m <= Len(Listed[i])
                          /\ NextChunk(i) = Len(ids[i]) + 1 .. m
                          /\ Cardinality(NextChunk(i)) = m - Len(ids[i])
<1> DEFINE n == Len(ids[i])
           m == IF n + BatchSize <= Len(Listed[i]) THEN n + BatchSize ELSE Len(Listed[i])
<1>1. /\ Len(Listed[i]) \in Nat /\ DOMAIN Listed[i] = 1 .. Len(Listed[i])
      /\ BatchSize \in Nat \ {0} /\ n \in Nat
  BY ListedType, OptionsImportAssumption
<1>2. NextChunk(i) = n + 1 .. m
  BY <1>1 DEF NextChunk
<1>3. m \in Nat /\ m > n /\ m <= Len(Listed[i])
  BY <1>1, <1>2
<1>4. Cardinality(n + 1 .. m) = m - n
  <2>1. \A a, b \in Int : Cardinality(a .. b) = IF a > b THEN 0 ELSE b - a + 1
    BY FS_Interval
  <2>2. n + 1 \in Int /\ m \in Int /\ ~(n + 1 > m)
    BY <1>1, <1>3
  <2>3. Cardinality(n + 1 .. m) = m - (n + 1) + 1
    BY <2>1, <2>2
  <2>4. m - (n + 1) + 1 = m - n
    BY <1>1, <1>3
  <2> QED BY <2>3, <2>4, Zenon
<1> QED BY <1>2, <1>3, <1>4

-----------------------------------------------------------------------------
(* What a step of one import leaves alone. *)

StepOf(i) ==
    \A j \in Import \ {i} :
        /\ pc'[j] = pc[j] /\ found'[j] = found[j] /\ cleared'[j] = cleared[j]
        /\ dropped'[j] = dropped[j] /\ fresh'[j] = fresh[j] /\ ids'[j] = ids[j]
        /\ added'[j] = added[j]

LEMMA OthersKeep ==
    ASSUME OptionsInv, NEW i \in Import, StepOf(i), UNCHANGED <<options, values>>,
           overlap => overlap', found'[i] \subseteq found[i] \cup DOMAIN options
    PROVE  /\ \A j \in Import \ {i} : OwnInv(j)'
           /\ \A j, k \in Import \ {i} : j # k => ApartInv(j, k)'
<1>1. ASSUME NEW j \in Import \ {i}
      PROVE  OwnInv(j)'
  <2>1. OwnInv(j)
    BY DEF OptionsInv
  <2> USE <2>1 DEF OwnInv, StepOf
  <2>2. IdsInv(j)'
    BY DEF IdsInv
  <2>3. OptionsOf(Products(j))' = OptionsOf(Products(j))
    BY DEF OptionsOf, Products
  <2>4. PlaceInv(j)'
    BY <2>3 DEF PlaceInv
  <2>5. AddedInv(j)'
    BY DEF AddedInv
  <2>6. FreshInv(j)'
    <3>1. \A id \in DOMAIN fresh[j], k \in Import : id \notin found'[k]
      BY DEF FreshInv
    <3> QED BY <3>1 DEF FreshInv
  <2> QED BY <2>2, <2>4, <2>5, <2>6
<1>2. ASSUME NEW j \in Import \ {i}, NEW k \in Import \ {i}, j # k
      PROVE  ApartInv(j, k)'
  <2>1. ApartInv(j, k)
    BY <1>2 DEF OptionsInv
  <2>2. Products(j)' = Products(j)
    BY DEF Products
  <2> QED BY <2>1, <2>2 DEF ApartInv, StepOf
<1> QED BY <1>1, <1>2

\* A statement changes no committed row.
LEMMA QuietKeeps ==
    ASSUME OptionsInv, NEW i \in Import, StepOf(i), UNCHANGED <<options, values>>,
           overlap => overlap', found'[i] \subseteq found[i] \cup DOMAIN options,
           TypeOK', OwnInv(i)', \A j \in Import \ {i} : ApartInv(i, j)' /\ ApartInv(j, i)'
    PROVE  OptionsInv'
<1>1. /\ \A j \in Import \ {i} : OwnInv(j)'
      /\ \A j, k \in Import \ {i} : j # k => ApartInv(j, k)'
  BY OthersKeep
<1>2. \A j, k \in Import : j # k => ApartInv(j, k)'
  BY <1>1
<1>3. OptionsHaveTheirValues' /\ NoOrphanValue'
  BY DEF OptionsInv, OptionsHaveTheirValues, NoOrphanValue
<1> QED BY <1>1, <1>2, <1>3 DEF OptionsInv

-----------------------------------------------------------------------------
(* The statements. *)

LEMMA SelectIdsKeeps ==
    ASSUME OptionsInv, NEW i \in Import, SelectIds(i)
    PROVE  OptionsInv'
<1> USE DEF OptionsInv
<1>1. /\ pc[i] = "idle" /\ pc' = [pc EXCEPT ![i] = "clear"]
      /\ found' = [found EXCEPT ![i] = OptionsOf(Products(i))]
      /\ overlap' = (overlap \/ Busy # {})
      /\ UNCHANGED <<options, values, nextId, cleared, dropped, fresh, ids, added>>
  BY DEF SelectIds, Goto, shared
<1>2. /\ pc'[i] = "clear" /\ found'[i] = OptionsOf(Products(i))
      /\ OptionsOf(Products(i)) \subseteq DOMAIN options
  BY <1>1 DEF TypeOK, OptionsOf
<1>3. StepOf(i)
  BY <1>1 DEF StepOf, TypeOK
<1>4. TypeOK'
  <2>1. overlap' \in BOOLEAN
    BY <1>1, Zenon
  <2>2. pc' \in [Import -> Active \cup {"idle", "ok", "failed"}]
    BY <1>1 DEF TypeOK, Active
  <2>3. found' \in [Import -> SUBSET (1 .. nextId - 1)]
    <3>1. OptionsOf(Products(i)) \subseteq 1 .. nextId - 1
      BY <1>2 DEF TypeOK
    <3> QED BY <1>1, <3>1 DEF TypeOK
  <2> QED BY <1>1, <2>1, <2>2, <2>3 DEF TypeOK
<1>5. /\ overlap => overlap'
      /\ ~overlap' => ~overlap /\ \A j \in Import : pc[j] \notin Active
  BY <1>1 DEF Busy
<1>6. /\ DOMAIN fresh[i] = {} /\ dropped[i] = {} /\ added[i] = {} /\ ids[i] = <<>>
      /\ cleared[i] = {}
  BY <1>1, NothingFresh DEF OwnInv, PlaceInv, Deleted, Active
<1>7. OwnInv(i)'
  <2>1. IdsInv(i)'
    BY <1>1, <1>2, <1>6, EmptyIds, ListedType DEF IdsInv
  <2>2. OptionsOf(Products(i))' = OptionsOf(Products(i))
    BY <1>1 DEF OptionsOf, Products
  <2>3. PlaceInv(i)'
    BY <1>1, <1>2, <1>6, <2>2 DEF PlaceInv, Deleted, Active
  <2>4. AddedInv(i)' /\ FreshInv(i)'
    BY <1>1, <1>6 DEF AddedInv, FreshInv
  <2> QED BY <2>1, <2>3, <2>4 DEF OwnInv
<1>8. \A j \in Import \ {i} : ApartInv(i, j)' /\ ApartInv(j, i)'
  BY <1>1, <1>2, <1>3, <1>5, <1>6 DEF ApartInv, StepOf, Deleted
<1> QED BY <1>1, <1>2, <1>3, <1>4, <1>5, <1>7, <1>8, QuietKeeps

LEMMA DeleteValuesKeeps ==
    ASSUME OptionsInv, NEW i \in Import, DeleteValues(i)
    PROVE  OptionsInv'
<1> USE DEF OptionsInv
<1>1. /\ pc[i] = "clear" /\ pc' = [pc EXCEPT ![i] = "drop"]
      /\ cleared' = [cleared EXCEPT ![i] = found[i]]
      /\ UNCHANGED <<options, values, nextId, found, dropped, fresh, ids, added, overlap>>
  BY DEF DeleteValues, Goto, shared
<1>2. pc'[i] = "drop" /\ cleared'[i] = found[i]
  BY <1>1 DEF TypeOK
<1>3. StepOf(i)
  BY <1>1 DEF StepOf, TypeOK
<1>4. TypeOK'
  <2>1. pc' \in [Import -> Active \cup {"idle", "ok", "failed"}]
    BY <1>1 DEF TypeOK, Active
  <2>2. cleared' \in [Import -> SUBSET (1 .. nextId - 1)]
    BY <1>1 DEF TypeOK
  <2> QED BY <1>1, <2>1, <2>2 DEF TypeOK
<1>5. /\ DOMAIN fresh[i] = {} /\ dropped[i] = {} /\ added[i] = {} /\ ids[i] = <<>>
      /\ PlaceInv(i)
  BY <1>1, NothingFresh DEF OwnInv, Deleted
<1>6. OwnInv(i)'
  <2>1. IdsInv(i)'
    BY <1>1, <1>2, <1>5, EmptyIds, ListedType DEF IdsInv
  <2>2. OptionsOf(Products(i))' = OptionsOf(Products(i))
    BY <1>1 DEF OptionsOf, Products
  <2>3. PlaceInv(i)'
    BY <1>1, <1>2, <1>5, <2>2 DEF PlaceInv, Deleted, Active
  <2>4. AddedInv(i)' /\ FreshInv(i)'
    BY <1>1, <1>5 DEF AddedInv, FreshInv
  <2> QED BY <2>1, <2>3, <2>4 DEF OwnInv
<1>7. \A j \in Import \ {i} : ApartInv(i, j)' /\ ApartInv(j, i)'
  BY <1>1, <1>2, <1>3, <1>5 DEF ApartInv, StepOf, Deleted, Active
<1> QED BY <1>1, <1>3, <1>4, <1>6, <1>7, QuietKeeps

LEMMA DeleteOptionsKeeps ==
    ASSUME OptionsInv, NEW i \in Import, DeleteOptions(i)
    PROVE  OptionsInv'
<1> USE DEF OptionsInv
<1>1. /\ pc[i] = "drop" /\ pc' = [pc EXCEPT ![i] = "insert"]
      /\ \A p \in Products(i) : ~RowsHeld(i, p)
      /\ dropped' = [dropped EXCEPT ![i] = OptionsOf(Products(i))]
      /\ UNCHANGED <<options, values, nextId, found, cleared, fresh, ids, added, overlap>>
  BY DEF DeleteOptions, Goto, shared
<1>2. pc'[i] = "insert" /\ dropped'[i] = OptionsOf(Products(i))
  BY <1>1 DEF TypeOK
<1>3. StepOf(i)
  BY <1>1 DEF StepOf, TypeOK
<1>4. TypeOK'
  <2>1. pc' \in [Import -> Active \cup {"idle", "ok", "failed"}]
    BY <1>1 DEF TypeOK, Active
  <2>2. OptionsOf(Products(i)) \subseteq 1 .. nextId - 1
    BY DEF TypeOK, OptionsOf
  <2>3. dropped' \in [Import -> SUBSET (1 .. nextId - 1)]
    BY <1>1, <2>2 DEF TypeOK
  <2> QED BY <1>1, <2>1, <2>3 DEF TypeOK
<1>5. /\ DOMAIN fresh[i] = {} /\ added[i] = {} /\ ids[i] = <<>> /\ PlaceInv(i)
  BY <1>1, NothingFresh DEF OwnInv, Deleted
<1>6. OwnInv(i)'
  <2>1. IdsInv(i)'
    BY <1>1, <1>2, <1>5, EmptyIds, ListedType DEF IdsInv
  <2>2. OptionsOf(Products(i))' = OptionsOf(Products(i))
    BY <1>1 DEF OptionsOf, Products
  <2>3. PlaceInv(i)'
    BY <1>1, <1>2, <1>5, <2>2 DEF PlaceInv, Deleted, Active
  <2>4. AddedInv(i)' /\ FreshInv(i)'
    BY <1>1, <1>5 DEF AddedInv, FreshInv
  <2> QED BY <2>1, <2>3, <2>4 DEF OwnInv
<1>7. ASSUME NEW j \in Import \ {i}
      PROVE  ApartInv(i, j)' /\ ApartInv(j, i)'
  <2>1. /\ \A id \in dropped[j] : options[id].product \notin Products(i)
        /\ \A id \in DOMAIN fresh[j] : fresh[j][id].product \notin Products(i)
    <3>1. CASE j \in Busy
      BY <1>1, <3>1 DEF RowsHeld
    <3>2. CASE j \notin Busy
      <4>1. pc[j] \notin Deleted
        BY <3>2 DEF Busy, Deleted, Active
      <4> QED BY <4>1, NothingFresh
    <3> QED BY <3>1, <3>2
  <2>2. dropped'[i] \cap dropped[j] = {}
    BY <1>2, <2>1 DEF OptionsOf
  <2>3. ApartInv(i, j) /\ ApartInv(j, i)
    OBVIOUS
  <2>4. Products(i)' = Products(i) /\ Products(j)' = Products(j)
    BY DEF Products
  <2>5. ~overlap => ~(pc[i] \in Active /\ pc[j] \in Active)
    BY <2>3 DEF ApartInv
  <2>6. ~overlap' => pc'[j] \notin Active
    BY <1>1, <1>3, <2>5 DEF StepOf, Active
  <2>7. /\ pc'[j] = pc[j] /\ dropped'[j] = dropped[j] /\ fresh' = fresh
    BY <1>1, <1>3 DEF StepOf
  <2> QED BY <1>5, <2>1, <2>2, <2>4, <2>6, <2>7 DEF ApartInv
<1> QED BY <1>1, <1>3, <1>4, <1>6, <1>7, QuietKeeps

LEMMA OptionsInsertedKeeps ==
    ASSUME OptionsInv, NEW i \in Import, OptionsInserted(i)
    PROVE  OptionsInv'
<1> USE DEF OptionsInv
<1>1. /\ pc[i] = "insert" /\ pc' = [pc EXCEPT ![i] = "values"] /\ NextChunk(i) = {}
      /\ UNCHANGED <<options, values, nextId, found, cleared, dropped, fresh, ids, added, overlap>>
  BY DEF OptionsInserted, Goto, shared
<1>2. pc'[i] = "values"
  BY <1>1 DEF TypeOK
<1>3. StepOf(i)
  BY <1>1 DEF StepOf, TypeOK
<1>4. TypeOK'
  <2>1. pc' \in [Import -> Active \cup {"idle", "ok", "failed"}]
    BY <1>1 DEF TypeOK, Active
  <2> QED BY <1>1, <2>1 DEF TypeOK
<1>5. IdsInv(i) /\ PlaceInv(i) /\ AddedInv(i) /\ FreshInv(i)
  BY DEF OwnInv
<1>6. Len(ids[i]) = Len(Listed[i])
  <2>1. /\ Len(ids[i]) \in Nat /\ Len(Listed[i]) \in Nat /\ BatchSize \in Nat \ {0}
        /\ DOMAIN Listed[i] = 1 .. Len(Listed[i]) /\ Len(ids[i]) <= Len(Listed[i])
    <3>1. ids[i] \in Seq(Nat)
      BY DEF TypeOK
    <3> QED BY <1>5, <3>1, ListedType, OptionsImportAssumption DEF IdsInv
  <2>2. Len(ids[i]) < Len(Listed[i]) => Len(ids[i]) + 1 \in NextChunk(i)
    BY <2>1 DEF NextChunk
  <2> QED BY <1>1, <2>1, <2>2
<1>7. OwnInv(i)'
  <2>1. IdsInv(i)'
    BY <1>1, <1>5, <1>6 DEF IdsInv
  <2>2. OptionsOf(Products(i))' = OptionsOf(Products(i))
    BY <1>1 DEF OptionsOf, Products
  <2>3. PlaceInv(i)'
    BY <1>1, <1>2, <1>5, <2>2 DEF PlaceInv, Deleted, Active
  <2>4. AddedInv(i)' /\ FreshInv(i)'
    BY <1>1, <1>2, <1>5 DEF AddedInv, FreshInv
  <2> QED BY <2>1, <2>3, <2>4 DEF OwnInv
<1>8. ASSUME NEW j \in Import \ {i}
      PROVE  ApartInv(i, j)' /\ ApartInv(j, i)'
  <2>1. ApartInv(i, j) /\ ApartInv(j, i)
    OBVIOUS
  <2>2. Products(i)' = Products(i) /\ Products(j)' = Products(j)
    BY DEF Products
  <2> QED BY <1>1, <1>2, <1>3, <2>1, <2>2 DEF ApartInv, StepOf, Deleted, Active
<1> QED BY <1>1, <1>3, <1>4, <1>7, <1>8, QuietKeeps

LEMMA InsertValuesKeeps ==
    ASSUME OptionsInv, NEW i \in Import, InsertValues(i)
    PROVE  OptionsInv'
<1> USE DEF OptionsInv
<1>1. PICK c \in SUBSET Pending(i) :
        added' = [added EXCEPT ![i] = @ \cup
                    {Value(ids[i][s[1]], <<i, s[1]>>, s[2]) : s \in c}]
  BY DEF InsertValues
<1>2. /\ pc[i] = "values"
      /\ UNCHANGED <<options, values, nextId, pc, found, cleared, dropped, fresh, ids, overlap>>
  BY DEF InsertValues, shared
<1>3. added'[i] = added[i] \cup {Value(ids[i][s[1]], <<i, s[1]>>, s[2]) : s \in c}
  BY <1>1 DEF TypeOK
<1>4. StepOf(i)
  BY <1>1, <1>2 DEF StepOf, TypeOK
<1>5. IdsInv(i) /\ PlaceInv(i) /\ AddedInv(i) /\ FreshInv(i)
  BY DEF OwnInv
<1>6. \A s \in c : \E k \in DOMAIN Listed[i] : \E n \in 1 .. Listed[i][k].values : s = <<k, n>>
  BY DEF Pending, Slots
<1>7. ASSUME NEW v \in added'[i]
      PROVE  \/ v \in added[i]
             \/ \E k \in DOMAIN Listed[i] : \E n \in 1 .. Listed[i][k].values :
                  v = Value(ids[i][k], <<i, k>>, n)
  <2>1. CASE v \notin added[i]
    <3>1. PICK s \in c : v = Value(ids[i][s[1]], <<i, s[1]>>, s[2])
      BY <1>3, <2>1
    <3>2. PICK k \in DOMAIN Listed[i] : \E n \in 1 .. Listed[i][k].values : s = <<k, n>>
      BY <1>6
    <3>3. PICK n \in 1 .. Listed[i][k].values : s = <<k, n>>
      BY <3>2
    <3> QED BY <3>1, <3>3
  <2> QED BY <2>1
<1>8. TypeOK'
  <2>1. ASSUME NEW k \in DOMAIN Listed[i], NEW n \in 1 .. Listed[i][k].values
        PROVE  Value(ids[i][k], <<i, k>>, n) \in ValueRow
    <3>1. ids[i] \in Seq(Nat) /\ Len(ids[i]) = Len(Listed[i])
      BY <1>2, <1>5 DEF TypeOK, IdsInv
    <3>2. k \in 1 .. Len(ids[i]) /\ Listed[i][k].values \in Nat
      BY <3>1, ListedType
    <3>3. ids[i][k] \in Nat /\ k \in Nat /\ n \in Nat
      BY <3>1, <3>2
    <3> QED BY <3>3 DEF Value, ValueRow
  <2>2. added[i] \subseteq ValueRow
    BY DEF TypeOK
  <2>3. ASSUME NEW v \in added'[i]
        PROVE  v \in ValueRow
    <3>1. CASE v \in added[i]
      BY <2>2, <3>1
    <3>2. CASE \E k \in DOMAIN Listed[i] : \E n \in 1 .. Listed[i][k].values :
                 v = Value(ids[i][k], <<i, k>>, n)
      BY <2>1, <3>2
    <3> QED BY <1>7, <3>1, <3>2
  <2>4. added' \in [Import -> SUBSET ValueRow]
    BY <1>1, <1>3, <2>3 DEF TypeOK
  <2> QED BY <1>2, <2>4 DEF TypeOK
<1>9. OwnInv(i)'
  <2>1. OptionsOf(Products(i))' = OptionsOf(Products(i))
    BY <1>2 DEF OptionsOf, Products
  <2>2. IdsInv(i)' /\ PlaceInv(i)' /\ FreshInv(i)'
    BY <1>2, <1>5, <2>1 DEF IdsInv, PlaceInv, FreshInv
  <2>3. AddedInv(i)'
    BY <1>2, <1>5, <1>7 DEF AddedInv
  <2> QED BY <2>2, <2>3 DEF OwnInv
<1>10. ASSUME NEW j \in Import \ {i}
       PROVE  ApartInv(i, j)' /\ ApartInv(j, i)'
  <2>1. ApartInv(i, j) /\ ApartInv(j, i)
    OBVIOUS
  <2>2. Products(i)' = Products(i) /\ Products(j)' = Products(j)
    BY DEF Products
  <2> QED BY <1>2, <2>1, <2>2 DEF ApartInv
<1> QED BY <1>2, <1>4, <1>8, <1>9, <1>10, QuietKeeps

\* The rows of a chunk take the next ids, in the order of the list.
LEMMA InsertedRows ==
    ASSUME OptionsInv, NEW i \in Import, InsertOptions(i)
    PROVE  \E n, m \in Nat :
             /\ n = Len(ids[i]) /\ n < m /\ m <= Len(Listed[i]) /\ NextChunk(i) = n + 1 .. m
             /\ nextId' \in Nat \ {0} /\ nextId < nextId'
             /\ ids'[i] \in Seq(Nat) /\ Len(ids'[i]) = m
             /\ \A k \in 1 .. n : ids'[i][k] = ids[i][k]
             /\ \A k \in n + 1 .. m :
                  /\ ids'[i][k] \in nextId .. nextId' - 1
                  /\ fresh'[i][ids'[i][k]] = [product |-> Listed[i][k].product, of |-> <<i, k>>]
             /\ DOMAIN fresh'[i] = DOMAIN fresh[i] \cup {ids'[i][k] : k \in n + 1 .. m}
             /\ fresh'[i] \in [DOMAIN fresh'[i] -> OptionRow]
             /\ \A id \in DOMAIN fresh[i] : fresh'[i][id] = fresh[i][id]
<1> USE DEF OptionsInv
<1> DEFINE n == Len(ids[i])
           c == NextChunk(i)
           Row(k) == [product |-> Listed[i][k].product, of |-> <<i, k>>]
<1>1. /\ c # {}
      /\ fresh' = [fresh EXCEPT ![i] =
           [id \in DOMAIN fresh[i] \cup {nextId + k - n - 1 : k \in c} |->
              IF id \in DOMAIN fresh[i] THEN fresh[i][id] ELSE Row(n + id - nextId + 1)]]
      /\ ids' = [ids EXCEPT ![i] =
           [k \in 1 .. n + Cardinality(c) |->
              IF k <= n THEN ids[i][k] ELSE IdOfRow(nextId, n, k)]]
      /\ nextId' = nextId + Cardinality(c)
  BY DEF InsertOptions
<1>2. /\ ids[i] \in Seq(Nat) /\ n \in Nat /\ nextId \in Nat \ {0}
      /\ DOMAIN ids[i] = 1 .. n /\ \A k \in 1 .. n : ids[i][k] \in Nat
      /\ DOMAIN fresh[i] \subseteq 1 .. nextId - 1
  BY DEF TypeOK
<1>3. PICK m \in Nat : /\ m > n /\ m <= Len(Listed[i]) /\ c = n + 1 .. m
                       /\ Cardinality(c) = m - n
  BY <1>1, <1>2, ChunkIsInterval
<1> HIDE DEF n, c
<1>4. n + Cardinality(c) = m /\ nextId' = nextId + (m - n)
  BY <1>1, <1>2, <1>3
<1>5. \A k \in n + 1 .. m : /\ nextId + k - n - 1 = nextId + (k - n - 1)
                           /\ nextId + (k - n - 1) \in nextId .. nextId' - 1
                           /\ n + (nextId + (k - n - 1)) - nextId + 1 = k
                           /\ ~(k <= n) /\ k \in 1 .. m
  BY <1>2, <1>4
<1>6. /\ fresh'[i] = [id \in DOMAIN fresh[i] \cup {nextId + k - n - 1 : k \in n + 1 .. m} |->
                        IF id \in DOMAIN fresh[i] THEN fresh[i][id]
                        ELSE Row(n + id - nextId + 1)]
      /\ ids'[i] = [k \in 1 .. m |-> IF k <= n THEN ids[i][k] ELSE nextId + (k - n - 1)]
  BY <1>1, <1>3, <1>4 DEF TypeOK, IdOfRow
<1>7. \A id \in nextId .. nextId' - 1 : id \notin DOMAIN fresh[i]
  BY <1>2
<1>8. ids'[i] \in [1 .. m -> Nat]
  <2>1. \A k \in 1 .. m : k <= n => ids[i][k] \in Nat
    BY <1>2
  <2>2. \A k \in 1 .. m : ~(k <= n) => nextId + (k - n - 1) \in Nat
    BY <1>2
  <2> QED BY <1>6, <2>1, <2>2
<1>9. ids'[i] \in Seq(Nat) /\ Len(ids'[i]) = m
  BY <1>3, <1>8
<1>10. /\ \A k \in 1 .. n : ids'[i][k] = ids[i][k]
       /\ \A k \in n + 1 .. m : ids'[i][k] = nextId + (k - n - 1)
  BY <1>2, <1>3, <1>6
<1>11. {nextId + k - n - 1 : k \in n + 1 .. m} = {ids'[i][k] : k \in n + 1 .. m}
  BY <1>5, <1>10
<1>12. /\ DOMAIN fresh'[i] = DOMAIN fresh[i] \cup {ids'[i][k] : k \in n + 1 .. m}
       /\ \A id \in DOMAIN fresh[i] : fresh'[i][id] = fresh[i][id]
  BY <1>6, <1>11
<1>13. ASSUME NEW k \in n + 1 .. m
       PROVE  ids'[i][k] \in nextId .. nextId' - 1 /\ fresh'[i][ids'[i][k]] = Row(k)
  <2>1. /\ ids'[i][k] \in nextId .. nextId' - 1 /\ ids'[i][k] \notin DOMAIN fresh[i]
        /\ n + ids'[i][k] - nextId + 1 = k
    BY <1>5, <1>7, <1>10
  <2>2. fresh'[i][ids'[i][k]] = Row(n + ids'[i][k] - nextId + 1)
    BY <1>6, <1>11, <2>1
  <2> QED BY <2>1, <2>2
<1>14. nextId' \in Nat \ {0} /\ nextId < nextId' /\ n < m
  BY <1>2, <1>3, <1>4
<1>15. fresh'[i] \in [DOMAIN fresh'[i] -> OptionRow]
  <2>1. \A k \in n + 1 .. m : k \in Nat /\ Listed[i][k].product \in Product
    BY <1>2, <1>3, ListedType
  <2>2. \A k \in n + 1 .. m : Row(k) \in OptionRow
    BY <2>1 DEF OptionRow
  <2>3. \A id \in DOMAIN fresh[i] : fresh[i][id] \in OptionRow
    BY DEF TypeOK
  <2>4. \A id \in DOMAIN fresh'[i] : fresh'[i][id] \in OptionRow
    BY <1>12, <1>13, <2>2, <2>3
  <2> QED BY <1>6, <2>4
<1> QED BY <1>2, <1>3, <1>9, <1>10, <1>12, <1>13, <1>14, <1>15 DEF n, c

LEMMA InsertOptionsKeeps ==
    ASSUME OptionsInv, NEW i \in Import, InsertOptions(i)
    PROVE  OptionsInv'
<1> USE DEF OptionsInv
<1>1. /\ pc[i] = "insert" /\ ~ChunkHeld(i)
      /\ UNCHANGED <<options, values, pc, found, cleared, dropped, added, overlap>>
      /\ \E f : fresh' = [fresh EXCEPT ![i] = f]
      /\ \E f : ids' = [ids EXCEPT ![i] = f]
  BY DEF InsertOptions
<1>2. PICK n, m \in Nat :
        /\ n = Len(ids[i]) /\ n < m /\ m <= Len(Listed[i]) /\ NextChunk(i) = n + 1 .. m
        /\ nextId' \in Nat \ {0} /\ nextId < nextId'
        /\ ids'[i] \in Seq(Nat) /\ Len(ids'[i]) = m
        /\ \A k \in 1 .. n : ids'[i][k] = ids[i][k]
        /\ \A k \in n + 1 .. m :
             /\ ids'[i][k] \in nextId .. nextId' - 1
             /\ fresh'[i][ids'[i][k]] = [product |-> Listed[i][k].product, of |-> <<i, k>>]
        /\ DOMAIN fresh'[i] = DOMAIN fresh[i] \cup {ids'[i][k] : k \in n + 1 .. m}
        /\ fresh'[i] \in [DOMAIN fresh'[i] -> OptionRow]
        /\ \A id \in DOMAIN fresh[i] : fresh'[i][id] = fresh[i][id]
  BY InsertedRows
<1>3. /\ nextId \in Nat \ {0} /\ 1 .. nextId - 1 \subseteq 1 .. nextId' - 1
      /\ nextId .. nextId' - 1 \subseteq 1 .. nextId' - 1
      /\ \A id \in nextId .. nextId' - 1 : id \notin 1 .. nextId - 1
  BY <1>2 DEF TypeOK
<1>4. StepOf(i)
  BY <1>1 DEF StepOf, TypeOK
<1>5. IdsInv(i) /\ PlaceInv(i) /\ AddedInv(i) /\ FreshInv(i)
  BY DEF OwnInv
<1>6. \A id \in DOMAIN fresh'[i] : id \in DOMAIN fresh[i] \/ \E k \in n + 1 .. m : id = ids'[i][k]
  BY <1>2
<1>7. \A k \in n + 1 .. m :
        /\ ids'[i][k] \in nextId .. nextId' - 1 /\ ids'[i][k] \in DOMAIN fresh'[i]
        /\ fresh'[i][ids'[i][k]] = [product |-> Listed[i][k].product, of |-> <<i, k>>]
        /\ k \in NextChunk(i)
  BY <1>2
<1>8. ASSUME NEW id \in DOMAIN fresh'[i], id \notin DOMAIN fresh[i]
      PROVE  id \in nextId .. nextId' - 1 /\ id \notin 1 .. nextId - 1
  <2>1. PICK k \in n + 1 .. m : id = ids'[i][k]
    BY <1>6, <1>8
  <2>2. id \in nextId .. nextId' - 1
    BY <1>7, <2>1
  <2> QED BY <1>3, <2>2
<1>9. TypeOK'
  <2>2. DOMAIN fresh'[i] \subseteq 1 .. nextId' - 1
    <3>1. DOMAIN fresh[i] \subseteq 1 .. nextId - 1
      BY DEF TypeOK
    <3> QED BY <1>3, <1>8, <3>1
  <2>3. DOMAIN fresh' = Import /\ ids' \in [Import -> Seq(Nat)]
    BY <1>1, <1>2 DEF TypeOK
  <2>4. \A j \in Import \ {i} : /\ fresh'[j] \in [DOMAIN fresh'[j] -> OptionRow]
                                /\ DOMAIN fresh'[j] \subseteq 1 .. nextId' - 1
    <3>1. \A j \in Import \ {i} : /\ fresh[j] \in [DOMAIN fresh[j] -> OptionRow]
                                  /\ DOMAIN fresh[j] \subseteq 1 .. nextId - 1
      BY DEF TypeOK
    <3> QED BY <1>3, <1>4, <3>1 DEF StepOf
  <2>5. /\ found' \in [Import -> SUBSET (1 .. nextId' - 1)]
        /\ cleared' \in [Import -> SUBSET (1 .. nextId' - 1)]
        /\ dropped' \in [Import -> SUBSET (1 .. nextId' - 1)]
    BY <1>1, <1>3 DEF TypeOK
  <2>6. DOMAIN options' \subseteq 1 .. nextId' - 1 /\ \A v \in values' : v.option < nextId'
    <3>1. \A v \in values : v.option \in Nat /\ v.option < nextId
      BY DEF TypeOK, ValueRow
    <3>2. nextId \in Nat /\ nextId' \in Nat /\ nextId < nextId'
      BY <1>2, <1>3
    <3>3. DOMAIN options \subseteq 1 .. nextId - 1
      BY DEF TypeOK
    <3> QED BY <1>1, <1>3, <3>1, <3>2, <3>3
  <2> QED BY <1>1, <1>2, <2>2, <2>3, <2>4, <2>5, <2>6 DEF TypeOK
<1>10. OwnInv(i)'
  <2>1. OptionsOf(Products(i))' = OptionsOf(Products(i))
    BY <1>1 DEF OptionsOf, Products
  <2>2. IdsInv(i)'
    <3>1. ASSUME NEW k \in 1 .. m
          PROVE  /\ ids'[i][k] \in DOMAIN fresh'[i]
                 /\ fresh'[i][ids'[i][k]] = [product |-> Listed[i][k].product, of |-> <<i, k>>]
      <4>1. CASE k \in 1 .. n
        BY <1>2, <1>5, <4>1 DEF IdsInv
      <4>2. CASE k \in n + 1 .. m
        BY <1>2, <4>2
      <4> QED BY <1>2, <4>1, <4>2
    <3>2. ASSUME NEW id \in DOMAIN fresh'[i]
          PROVE  \E k \in 1 .. m : id = ids'[i][k]
      <4>1. CASE id \in DOMAIN fresh[i]
        <5>1. PICK k \in 1 .. n : id = ids[i][k]
          BY <1>2, <1>5, <4>1 DEF IdsInv
        <5>2. k \in 1 .. m /\ ids'[i][k] = ids[i][k]
          BY <1>2
        <5> QED BY <5>1, <5>2
      <4>2. CASE \E k \in n + 1 .. m : id = ids'[i][k]
        BY <1>2, <4>2
      <4> QED BY <1>2, <4>1, <4>2
    <3>3. pc'[i] # "values"
      BY <1>1
    <3> QED BY <1>2, <3>1, <3>2, <3>3 DEF IdsInv
  <2>3. PlaceInv(i)'
    BY <1>1, <1>5, <2>1 DEF PlaceInv, Deleted
  <2>4. AddedInv(i)'
    BY <1>1, <1>5 DEF AddedInv
  <2>5. FreshInv(i)'
    <3>1. \A id \in nextId .. nextId' - 1 :
            /\ id \notin 1 .. nextId - 1 /\ \A v \in values : v.option # id
      <4>1. \A v \in values : v.option \in Nat /\ v.option < nextId
        BY DEF TypeOK, ValueRow
      <4> QED BY <1>3, <4>1
    <3>2. DOMAIN options \subseteq 1 .. nextId - 1 /\ \A j \in Import : found[j] \subseteq 1 .. nextId - 1
      BY DEF TypeOK
    <3>3. ASSUME NEW id \in DOMAIN fresh'[i]
          PROVE  /\ id \notin DOMAIN options /\ \A j \in Import : id \notin found[j]
                 /\ \A v \in values : v.option # id
      <4>1. CASE id \in DOMAIN fresh[i]
        BY <1>5, <4>1 DEF FreshInv
      <4>2. CASE id \in nextId .. nextId' - 1
        BY <3>1, <3>2, <4>2
      <4> QED BY <1>8, <4>1, <4>2
    <3> QED BY <1>1, <3>3 DEF FreshInv
  <2> QED BY <2>2, <2>3, <2>4, <2>5 DEF OwnInv
<1>11. ASSUME NEW j \in Import \ {i}
       PROVE  ApartInv(i, j)' /\ ApartInv(j, i)'
  <2>1. ApartInv(i, j) /\ ApartInv(j, i)
    OBVIOUS
  <2>2. Products(i)' = Products(i) /\ Products(j)' = Products(j)
    BY DEF Products
  <2>3. DOMAIN fresh'[i] \cap DOMAIN fresh[j] = {}
    <3>1. DOMAIN fresh[j] \subseteq 1 .. nextId - 1
      BY DEF TypeOK
    <3>2. \A id \in nextId .. nextId' - 1 : id \notin 1 .. nextId - 1
      BY <1>3
    <3> QED BY <1>8, <2>1, <3>1, <3>2 DEF ApartInv
  <2>4. ASSUME pc[j] \in Deleted, NEW id \in DOMAIN fresh'[i]
        PROVE  fresh'[i][id].product \notin Products(j)
    <3>1. CASE id \in DOMAIN fresh[i]
      BY <1>2, <2>1, <2>4, <3>1 DEF ApartInv
    <3>2. CASE \E k \in n + 1 .. m : id = ids'[i][k]
      <4>1. PICK k \in n + 1 .. m : id = ids'[i][k]
        BY <3>2
      <4>2. /\ k \in NextChunk(i)
            /\ fresh'[i][id] = [product |-> Listed[i][k].product, of |-> <<i, k>>]
        BY <1>7, <4>1, Zenon
      <4>3. fresh'[i][id].product = Listed[i][k].product
        BY <4>2
      <4>4. j \in Busy \ {i} /\ pc[j] \in {"insert", "values"}
        BY <2>4 DEF Busy, Deleted, Active
      <4> QED BY <1>1, <4>2, <4>3, <4>4 DEF ChunkHeld, GapHeld
    <3> QED BY <1>6, <2>4, <3>1, <3>2
  <2> QED BY <1>1, <1>4, <2>1, <2>2, <2>3, <2>4 DEF ApartInv, StepOf
<1> QED BY <1>1, <1>4, <1>9, <1>10, <1>11, QuietKeeps

-----------------------------------------------------------------------------
(* The end of the transaction. *)

LEMMA Released ==
    ASSUME TypeOK, NEW i \in Import, Release(i), Goto(i, "ok") \/ Goto(i, "failed")
    PROVE  /\ StepOf(i) /\ UNCHANGED <<nextId, overlap>>
           /\ pc'[i] \in {"ok", "failed"}
           /\ found'[i] = {} /\ cleared'[i] = {} /\ dropped'[i] = {} /\ DOMAIN fresh'[i] = {}
           /\ ids'[i] = <<>> /\ added'[i] = {}
           /\ pc' \in [Import -> Active \cup {"idle", "ok", "failed"}]
           /\ found' \in [Import -> SUBSET (1 .. nextId - 1)]
           /\ cleared' \in [Import -> SUBSET (1 .. nextId - 1)]
           /\ dropped' \in [Import -> SUBSET (1 .. nextId - 1)]
           /\ DOMAIN fresh' = Import
           /\ \A j \in Import : /\ fresh'[j] \in [DOMAIN fresh'[j] -> OptionRow]
                                /\ DOMAIN fresh'[j] \subseteq 1 .. nextId - 1
           /\ ids' \in [Import -> Seq(Nat)]
           /\ added' \in [Import -> SUBSET ValueRow]
<1>1. /\ pc' = [pc EXCEPT ![i] = "ok"] \/ pc' = [pc EXCEPT ![i] = "failed"]
      /\ found' = [found EXCEPT ![i] = {}] /\ cleared' = [cleared EXCEPT ![i] = {}]
      /\ dropped' = [dropped EXCEPT ![i] = {}] /\ fresh' = [fresh EXCEPT ![i] = None]
      /\ ids' = [ids EXCEPT ![i] = <<>>] /\ added' = [added EXCEPT ![i] = {}]
      /\ UNCHANGED <<nextId, overlap>>
  BY DEF Release, Goto
<1>2. StepOf(i)
  BY <1>1 DEF StepOf, TypeOK
<1>3. /\ pc'[i] \in {"ok", "failed"}
      /\ pc' \in [Import -> Active \cup {"idle", "ok", "failed"}]
  BY <1>1 DEF TypeOK, Active
<1>4. /\ DOMAIN fresh' = Import /\ fresh'[i] = None
      /\ \A j \in Import \ {i} : fresh'[j] = fresh[j]
  BY <1>1 DEF TypeOK
<1>5. \A j \in Import : /\ fresh'[j] \in [DOMAIN fresh'[j] -> OptionRow]
                        /\ DOMAIN fresh'[j] \subseteq 1 .. nextId - 1
  BY <1>4, NoneEmpty DEF TypeOK
<1>6. /\ found' \in [Import -> SUBSET (1 .. nextId - 1)] /\ found'[i] = {}
      /\ cleared' \in [Import -> SUBSET (1 .. nextId - 1)] /\ cleared'[i] = {}
      /\ dropped' \in [Import -> SUBSET (1 .. nextId - 1)] /\ dropped'[i] = {}
      /\ added' \in [Import -> SUBSET ValueRow] /\ added'[i] = {}
  BY <1>1 DEF TypeOK
<1>7. ids' \in [Import -> Seq(Nat)] /\ ids'[i] = <<>>
  BY <1>1, EmptyIds DEF TypeOK
<1> QED BY <1>1, <1>2, <1>3, <1>4, <1>5, <1>6, <1>7, NoneEmpty

\* An import that has ended holds nothing.
LEMMA EndedInv ==
    ASSUME NEW i \in Import, pc'[i] \in {"ok", "failed"}, found'[i] = {}, cleared'[i] = {},
           dropped'[i] = {}, DOMAIN fresh'[i] = {}, ids'[i] = <<>>, added'[i] = {}
    PROVE  OwnInv(i)'
<1>1. IdsInv(i)'
  BY EmptyIds, ListedType DEF IdsInv
<1>2. PlaceInv(i)' /\ AddedInv(i)' /\ FreshInv(i)'
  BY DEF PlaceInv, AddedInv, FreshInv, Deleted, Active
<1> QED BY <1>1, <1>2 DEF OwnInv

LEMMA RollBackKeeps ==
    ASSUME OptionsInv, NEW i \in Import, RollBack(i)
    PROVE  OptionsInv'
<1> USE DEF OptionsInv
<1>1. Release(i) /\ Goto(i, "failed") /\ UNCHANGED <<options, values>>
  BY DEF RollBack
<1>2. /\ StepOf(i) /\ UNCHANGED <<nextId, overlap>>
      /\ pc'[i] \in {"ok", "failed"}
      /\ found'[i] = {} /\ dropped'[i] = {} /\ DOMAIN fresh'[i] = {}
  BY <1>1, Released
<1>3. OwnInv(i)'
  BY <1>1, Released, EndedInv
<1>4. TypeOK'
  <2>1. /\ nextId' \in Nat \ {0} /\ overlap' \in BOOLEAN
        /\ options' \in [DOMAIN options' -> OptionRow]
        /\ DOMAIN options' \subseteq 1 .. nextId' - 1
        /\ values' \subseteq ValueRow /\ \A v \in values' : v.option < nextId'
    BY <1>1, <1>2 DEF TypeOK
  <2> QED BY <1>1, <1>2, <2>1, Released DEF TypeOK
<1>5. \A j \in Import \ {i} : ApartInv(i, j)' /\ ApartInv(j, i)'
  BY <1>2 DEF ApartInv, Deleted, Active
<1> QED BY <1>1, <1>2, <1>3, <1>4, <1>5, QuietKeeps

\* All values of an option are there when the transaction commits.
LEMMA ValuesOfOption ==
    ASSUME OptionsInv, NEW i \in Import, pc[i] = "values", Pending(i) = {},
           NEW k \in DOMAIN Listed[i]
    PROVE  {v \in added[i] : v.option = ids[i][k]}
             = {Value(ids[i][k], <<i, k>>, n) : n \in 1 .. Listed[i][k].values}
<1> USE DEF OptionsInv
<1>1. IdsInv(i) /\ AddedInv(i)
  BY DEF OwnInv
<1>2. \A j \in DOMAIN Listed[i] : fresh[i][ids[i][j]].of = <<i, j>>
  <2>1. DOMAIN Listed[i] = 1 .. Len(ids[i])
    BY <1>1, ListedType DEF IdsInv
  <2> QED BY <1>1, <2>1, InsertedAs
<1>3. ASSUME NEW v \in added[i], v.option = ids[i][k]
      PROVE  \E n \in 1 .. Listed[i][k].values : v = Value(ids[i][k], <<i, k>>, n)
  <2>1. PICK j \in DOMAIN Listed[i] : \E n \in 1 .. Listed[i][j].values :
          v = Value(ids[i][j], <<i, j>>, n)
    BY <1>1 DEF AddedInv
  <2>2. PICK n \in 1 .. Listed[i][j].values : v = Value(ids[i][j], <<i, j>>, n)
    BY <2>1
  <2>3. ids[i][j] = ids[i][k]
    BY <1>3, <2>2 DEF Value
  <2>4. <<i, j>> = <<i, k>>
    BY <1>2, <2>3
  <2>5. j = k
    BY <2>4
  <2> QED BY <2>2, <2>5
<1>4. ASSUME NEW n \in 1 .. Listed[i][k].values
      PROVE  Value(ids[i][k], <<i, k>>, n) \in added[i]
  <2>1. <<k, n>> \in Slots(i)
    BY DEF Slots
  <2>2. PICK v \in added[i] : <<k, n>> = <<v.of[2], v.n>>
    BY <2>1 DEF Pending
  <2>3. PICK j \in DOMAIN Listed[i] : \E m \in 1 .. Listed[i][j].values :
          v = Value(ids[i][j], <<i, j>>, m)
    BY <1>1 DEF AddedInv
  <2>4. PICK m \in 1 .. Listed[i][j].values : v = Value(ids[i][j], <<i, j>>, m)
    BY <2>3
  <2>5. j = k /\ m = n
    BY <2>2, <2>4 DEF Value
  <2> QED BY <2>4, <2>5
<1>5. \A n : Value(ids[i][k], <<i, k>>, n).option = ids[i][k]
  BY DEF Value
<1> QED BY <1>3, <1>4, <1>5

\* What the committed tables become.
LEMMA Committed ==
    ASSUME OptionsInv, NEW i \in Import, Commit(i)
    PROVE  /\ pc[i] = "values" /\ Pending(i) = {} /\ dropped[i] = OptionsOf(Products(i))
           /\ DOMAIN options' = (DOMAIN options \ dropped[i]) \cup DOMAIN fresh[i]
           /\ options' \in [DOMAIN options' -> OptionRow]
           /\ \A id \in DOMAIN fresh[i] :
                /\ options'[id] = fresh[i][id] /\ id \notin DOMAIN options
                /\ fresh[i][id].product \in Products(i)
           /\ \A id \in DOMAIN options \ dropped[i] :
                options'[id] = options[id] /\ id \notin DOMAIN fresh[i]
           /\ \A v \in added[i] : v.option \in DOMAIN fresh[i]
           /\ values' = {v \in values : v.option \notin found[i]} \cup added[i]
<1> USE DEF OptionsInv
<1>1. /\ pc[i] = "values" /\ Pending(i) = {}
      /\ options' = [id \in (DOMAIN options \ dropped[i]) \cup DOMAIN fresh[i] |->
                       IF id \in DOMAIN fresh[i] THEN fresh[i][id] ELSE options[id]]
      /\ values' = {v \in values : v.option \notin cleared[i]} \cup added[i]
  BY DEF Commit
<1>2. IdsInv(i) /\ PlaceInv(i) /\ AddedInv(i) /\ FreshInv(i)
  BY DEF OwnInv
<1>3. dropped[i] = OptionsOf(Products(i)) /\ cleared[i] = found[i]
  BY <1>1, <1>2 DEF PlaceInv, Deleted
<1>4. DOMAIN Listed[i] = 1 .. Len(ids[i])
  BY <1>1, <1>2, ListedType DEF IdsInv
<1>5. ASSUME NEW id \in DOMAIN fresh[i]
      PROVE  id \notin DOMAIN options /\ fresh[i][id].product \in Products(i)
  <2>1. PICK k \in 1 .. Len(ids[i]) : id = ids[i][k]
    BY <1>2 DEF IdsInv
  <2>2. fresh[i][id].product = Listed[i][k].product
    BY <1>2, <2>1, InsertedAs
  <2> QED BY <1>2, <1>4, <2>2, ListedType DEF FreshInv
<1>6. ASSUME NEW v \in added[i]
      PROVE  v.option \in DOMAIN fresh[i]
  <2>1. PICK k \in DOMAIN Listed[i] : \E n \in 1 .. Listed[i][k].values :
          v = Value(ids[i][k], <<i, k>>, n)
    BY <1>2 DEF AddedInv
  <2>2. v.option = ids[i][k]
    BY <2>1 DEF Value
  <2> QED BY <1>2, <1>4, <2>2 DEF IdsInv
<1>7. options' \in [DOMAIN options' -> OptionRow]
  <2>1. \A id \in DOMAIN options : options[id] \in OptionRow
    BY DEF TypeOK
  <2>2. \A id \in DOMAIN fresh[i] : fresh[i][id] \in OptionRow
    BY DEF TypeOK
  <2> QED BY <1>1, <2>1, <2>2
<1> QED BY <1>1, <1>3, <1>5, <1>6, <1>7

LEMMA CommitKeeps ==
    ASSUME OptionsInv, NEW i \in Import, Commit(i)
    PROVE  OptionsInv'
<1> USE DEF OptionsInv
<1>1. /\ pc[i] = "values" /\ Pending(i) = {} /\ dropped[i] = OptionsOf(Products(i))
      /\ DOMAIN options' = (DOMAIN options \ dropped[i]) \cup DOMAIN fresh[i]
      /\ options' \in [DOMAIN options' -> OptionRow]
      /\ \A id \in DOMAIN fresh[i] :
           /\ options'[id] = fresh[i][id] /\ id \notin DOMAIN options
           /\ fresh[i][id].product \in Products(i)
      /\ \A id \in DOMAIN options \ dropped[i] :
           options'[id] = options[id] /\ id \notin DOMAIN fresh[i]
      /\ \A v \in added[i] : v.option \in DOMAIN fresh[i]
      /\ values' = {v \in values : v.option \notin found[i]} \cup added[i]
  BY Committed
<1>2. Release(i) /\ (Goto(i, "ok") \/ Goto(i, "failed"))
  BY DEF Commit
<1>3. /\ StepOf(i) /\ UNCHANGED <<nextId, overlap>> /\ pc'[i] \in {"ok", "failed"}
      /\ found'[i] = {} /\ dropped'[i] = {} /\ DOMAIN fresh'[i] = {}
  BY <1>2, Released
<1>4. /\ IdsInv(i) /\ PlaceInv(i) /\ AddedInv(i) /\ FreshInv(i)
      /\ \A j \in Import \ {i} : ApartInv(i, j) /\ ApartInv(j, i) /\ OwnInv(j)
  BY DEF OwnInv
<1>5. TypeOK'
  <2>1. DOMAIN options' \subseteq 1 .. nextId' - 1
    BY <1>1, <1>3 DEF TypeOK
  <2>2. values' \subseteq ValueRow /\ \A v \in values' : v.option < nextId'
    <3>1. \A id \in DOMAIN fresh[i] : id < nextId
      BY DEF TypeOK
    <3>2. \A v \in added[i] : v \in ValueRow /\ v.option < nextId
      BY <1>1, <3>1 DEF TypeOK
    <3>3. \A v \in values : v \in ValueRow /\ v.option < nextId
      BY DEF TypeOK
    <3> QED BY <1>1, <1>3, <3>2, <3>3
  <2>3. nextId' \in Nat \ {0} /\ overlap' \in BOOLEAN
    BY <1>3 DEF TypeOK
  <2> QED BY <1>1, <1>2, <1>3, <2>1, <2>2, <2>3, Released DEF TypeOK
<1>6. OwnInv(i)'
  BY <1>2, Released, EndedInv
<1>7. ASSUME NEW j \in Import \ {i}
      PROVE  OwnInv(j)' /\ ApartInv(i, j)' /\ ApartInv(j, i)'
  <2>1. IdsInv(j) /\ PlaceInv(j) /\ AddedInv(j) /\ FreshInv(j)
    BY <1>4 DEF OwnInv
  <2>2. /\ pc'[j] = pc[j] /\ found'[j] = found[j] /\ cleared'[j] = cleared[j]
        /\ dropped'[j] = dropped[j] /\ fresh'[j] = fresh[j] /\ ids'[j] = ids[j]
        /\ added'[j] = added[j] /\ Products(j)' = Products(j)
    BY <1>3 DEF StepOf, Products
  <2>3. IdsInv(j)' /\ AddedInv(j)'
    BY <2>1, <2>2 DEF IdsInv, AddedInv
  <2>4. PlaceInv(j)'
    <3>1. pc[j] \in Deleted => dropped[j] = OptionsOf(Products(j))'
      <4>1. ASSUME pc[j] \in Deleted, NEW id \in dropped[j]
            PROVE  id \in OptionsOf(Products(j))'
        <5>1. id \in DOMAIN options /\ options[id].product \in Products(j)
          BY <2>1, <4>1 DEF PlaceInv, OptionsOf
        <5>2. id \notin dropped[i]
          BY <1>4 DEF ApartInv
        <5> QED BY <1>1, <2>2, <5>1, <5>2 DEF OptionsOf
      <4>2. ASSUME pc[j] \in Deleted, NEW id \in OptionsOf(Products(j))'
            PROVE  id \in dropped[j]
        <5>1. id \in DOMAIN options' /\ options'[id].product \in Products(j)
          BY <2>2 DEF OptionsOf
        <5>2. id \notin DOMAIN fresh[i]
          BY <1>1, <1>4, <4>2, <5>1 DEF ApartInv
        <5>3. id \in OptionsOf(Products(j))
          BY <1>1, <5>1, <5>2 DEF OptionsOf
        <5> QED BY <2>1, <4>2, <5>3 DEF PlaceInv
      <4> QED BY <4>1, <4>2
    <3>2. ASSUME NEW id \in found[j], id \in DOMAIN options'
          PROVE  id \in OptionsOf(Products(j))'
      <4>1. id \notin DOMAIN fresh[i]
        BY <1>4 DEF FreshInv
      <4>2. id \in DOMAIN options /\ options'[id] = options[id]
        BY <1>1, <3>2, <4>1
      <4>3. options[id].product \in Products(j)
        BY <2>1, <4>2 DEF PlaceInv, OptionsOf
      <4> QED BY <2>2, <3>2, <4>2, <4>3 DEF OptionsOf
    <3>3. ~(~overlap /\ pc[j] \in Active)
      BY <1>1, <1>4 DEF ApartInv, Active
    <3> QED BY <1>3, <2>1, <2>2, <3>1, <3>2, <3>3 DEF PlaceInv
  <2>5. FreshInv(j)'
    <3>1. ASSUME NEW id \in DOMAIN fresh[j]
          PROVE  /\ id \notin DOMAIN options' /\ \A k \in Import : id \notin found'[k]
                 /\ \A v \in values' : v.option # id
      <4>1. id \notin DOMAIN fresh[i]
        BY <1>4 DEF ApartInv
      <4>2. \A k \in Import : id \notin found'[k]
        BY <1>3, <2>1 DEF FreshInv, StepOf
      <4> QED BY <1>1, <2>1, <4>1, <4>2 DEF FreshInv
    <3> QED BY <2>2, <3>1 DEF FreshInv
  <2>6. ApartInv(i, j)' /\ ApartInv(j, i)'
    BY <1>3 DEF ApartInv, Deleted, Active
  <2> QED BY <2>3, <2>4, <2>5, <2>6 DEF OwnInv
<1>8. \A j, k \in Import : j # k => ApartInv(j, k)'
  <2>1. ASSUME NEW j \in Import \ {i}, NEW k \in Import \ {i}, j # k
        PROVE  ApartInv(j, k)'
    <3>1. ApartInv(j, k) /\ Products(j)' = Products(j)
      BY <2>1 DEF Products
    <3> QED BY <1>3, <3>1 DEF ApartInv, StepOf
  <2> QED BY <1>7, <2>1
<1>9. OptionsHaveTheirValues'
  <2>1. ASSUME NEW id \in DOMAIN fresh[i]
        PROVE  {v \in values' : v.option = id}
                 = {Value(id, options'[id].of, n) :
                      n \in 1 .. Listed[options'[id].of[1]][options'[id].of[2]].values}
    <3>1. PICK k \in 1 .. Len(ids[i]) : id = ids[i][k]
      BY <1>4 DEF IdsInv
    <3>2. options'[id].of = <<i, k>>
      <4>1. fresh[i][id].of = <<i, k>>
        BY <1>4, <3>1, InsertedAs
      <4> QED BY <1>1, <1>4, <3>1, <4>1 DEF IdsInv
    <3>3. k \in DOMAIN Listed[i]
      BY <1>1, <1>4, <3>1, ListedType DEF IdsInv
    <3>4. {v \in values' : v.option = id} = {v \in added[i] : v.option = id}
      BY <1>1, <1>4 DEF FreshInv
    <3>5. {v \in added[i] : v.option = id}
            = {Value(id, <<i, k>>, n) : n \in 1 .. Listed[i][k].values}
      BY <1>1, <3>1, <3>3, ValuesOfOption
    <3>6. options'[id].of[1] = i /\ options'[id].of[2] = k
      BY <3>2
    <3> QED BY <3>2, <3>4, <3>5, <3>6
  <2>2. ASSUME NEW id \in DOMAIN options \ dropped[i]
        PROVE  /\ options'[id] = options[id]
               /\ {v \in values' : v.option = id} = {v \in values : v.option = id}
    <3>1. id \notin found[i] /\ id \notin DOMAIN fresh[i]
      BY <1>1, <1>4 DEF PlaceInv
    <3> QED BY <1>1, <3>1
  <2>3. ASSUME NEW id \in DOMAIN options'
        PROVE  LET of == options'[id].of IN
               of[1] \in Import => {v \in values' : v.option = id}
                  = {Value(id, of, n) : n \in 1 .. Listed[of[1]][of[2]].values}
    <3>1. CASE id \in DOMAIN fresh[i]
      BY <2>1, <3>1
    <3>2. CASE id \in DOMAIN options \ dropped[i]
      BY <2>2, <3>2 DEF OptionsHaveTheirValues
    <3> QED BY <1>1, <3>1, <3>2
  <2> QED BY <2>3 DEF OptionsHaveTheirValues, Value
<1>10. NoOrphanValue'
  <2> SUFFICES ASSUME ~overlap, NEW v \in values'
               PROVE  v.option \in DOMAIN options'
    BY <1>3 DEF NoOrphanValue
  <2>1. CASE v \in added[i]
    BY <1>1, <2>1
  <2>2. CASE v \in values /\ v.option \notin found[i]
    <3>1. v.option \in DOMAIN options
      BY <2>2 DEF NoOrphanValue
    <3>2. found[i] = dropped[i]
      BY <1>1, <1>4 DEF PlaceInv, Active
    <3> QED BY <1>1, <2>2, <3>1, <3>2
  <2> QED BY <1>1, <2>1, <2>2
<1> QED BY <1>5, <1>6, <1>7, <1>8, <1>9, <1>10

-----------------------------------------------------------------------------
(* The invariant. *)

LEMMA InitInv == Init => OptionsInv
<1> SUFFICES ASSUME Init
             PROVE  OptionsInv
  OBVIOUS
<1>1. PICK old \in SUBSET Product : \E f \in [1 .. Cardinality(old) -> old] :
        /\ options = [id \in DOMAIN f |-> [product |-> f[id], of |-> <<Old, id>>]]
        /\ values = {Value(id, <<Old, id>>, 1) : id \in DOMAIN f}
        /\ nextId = Cardinality(old) + 1
  BY DEF Init
<1>2. PICK f \in [1 .. Cardinality(old) -> old] :
        /\ options = [id \in DOMAIN f |-> [product |-> f[id], of |-> <<Old, id>>]]
        /\ values = {Value(id, <<Old, id>>, 1) : id \in DOMAIN f}
        /\ nextId = Cardinality(old) + 1
  BY <1>1
<1>3. Cardinality(old) \in Nat
  BY OptionsImportAssumption, FS_Subset, FS_CardinalityType
<1>4. /\ pc = [i \in Import |-> "idle"] /\ found = [i \in Import |-> {}]
      /\ cleared = [i \in Import |-> {}] /\ dropped = [i \in Import |-> {}]
      /\ fresh = [i \in Import |-> None] /\ ids = [i \in Import |-> <<>>]
      /\ added = [i \in Import |-> {}] /\ overlap = FALSE
  BY DEF Init
<1>5. DOMAIN options = 1 .. Cardinality(old) /\ nextId - 1 = Cardinality(old)
  BY <1>2, <1>3
<1>6. \A id \in DOMAIN options : /\ options[id] \in OptionRow /\ options[id].of[1] = Old
  <2>1. \A id \in 1 .. Cardinality(old) : f[id] \in Product /\ id \in Nat
    BY <1>2, <1>3
  <2> QED BY <1>2, <1>5, <2>1 DEF OptionRow
<1>7. \A v \in values : v \in ValueRow /\ v.option \in DOMAIN options
  <2>1. ASSUME NEW id \in 1 .. Cardinality(old)
        PROVE  Value(id, <<Old, id>>, 1) \in ValueRow /\ Value(id, <<Old, id>>, 1).option = id
    BY <1>3 DEF Value, ValueRow
  <2>2. DOMAIN f = 1 .. Cardinality(old)
    BY <1>2
  <2> QED BY <1>2, <1>5, <2>1, <2>2
<1>8. TypeOK
  <2>1. \A v \in values : v.option < nextId
    BY <1>2, <1>3, <1>5, <1>7
  <2>2. \A i \in Import : fresh[i] = None
    BY <1>4
  <2>3. options \in [DOMAIN options -> OptionRow]
    BY <1>2, <1>6
  <2>4. /\ pc \in [Import -> Active \cup {"idle", "ok", "failed"}]
        /\ found \in [Import -> SUBSET (1 .. nextId - 1)]
        /\ cleared \in [Import -> SUBSET (1 .. nextId - 1)]
        /\ dropped \in [Import -> SUBSET (1 .. nextId - 1)]
        /\ ids \in [Import -> Seq(Nat)] /\ added \in [Import -> SUBSET ValueRow]
    BY <1>4, EmptyIds
  <2>5. /\ DOMAIN fresh = Import
        /\ \A i \in Import : /\ fresh[i] \in [DOMAIN fresh[i] -> OptionRow]
                             /\ DOMAIN fresh[i] \subseteq 1 .. nextId - 1
    BY <1>4, <2>2, NoneEmpty
  <2>6. nextId \in Nat \ {0} /\ DOMAIN options \subseteq 1 .. nextId - 1
    BY <1>2, <1>3, <1>5
  <2>7. overlap \in BOOLEAN /\ values \subseteq ValueRow
    BY <1>4, <1>7
  <2> QED BY <2>1, <2>3, <2>4, <2>5, <2>6, <2>7 DEF TypeOK
<1>9. ASSUME NEW i \in Import
      PROVE  OwnInv(i) /\ \A j \in Import : ApartInv(i, j)
  <2>1. DOMAIN fresh[i] = {}
    BY <1>4, NoneEmpty
  <2>2. IdsInv(i)
    BY <1>4, <2>1, EmptyIds, ListedType DEF IdsInv
  <2>3. PlaceInv(i) /\ AddedInv(i) /\ FreshInv(i)
    BY <1>4, <2>1 DEF PlaceInv, AddedInv, FreshInv, Deleted, Active
  <2>4. \A j \in Import : ApartInv(i, j)
    BY <1>4, <2>1 DEF ApartInv, Deleted, Active
  <2> QED BY <2>2, <2>3, <2>4 DEF OwnInv
<1>10. OptionsHaveTheirValues
  BY <1>6, OptionsImportAssumption DEF OptionsHaveTheirValues
<1>11. NoOrphanValue
  BY <1>7 DEF NoOrphanValue
<1> QED BY <1>8, <1>9, <1>10, <1>11 DEF OptionsInv

LEMMA NextInv == OptionsInv /\ [Next]_vars => OptionsInv'
<1> SUFFICES ASSUME OptionsInv, [Next]_vars
             PROVE  OptionsInv'
  OBVIOUS
<1>1. ASSUME NEW i \in Import, SelectIds(i) \/ Step(i) \/ Fails(i)
      PROVE  OptionsInv'
  <2>1. CASE RollBack(i)
    BY <2>1, RollBackKeeps
  <2> QED
    BY <1>1, <2>1, SelectIdsKeeps, DeleteValuesKeeps, DeleteOptionsKeeps, InsertOptionsKeeps,
       OptionsInsertedKeeps, InsertValuesKeeps, CommitKeeps
       DEF Step, Fails, LockRefused
<1>2. CASE UNCHANGED vars
  <2> USE <1>2 DEF vars
  <2>1. TypeOK' /\ OptionsHaveTheirValues' /\ NoOrphanValue'
    BY DEF OptionsInv, TypeOK, OptionsHaveTheirValues, NoOrphanValue
  <2>2. ASSUME NEW i \in Import
        PROVE  OwnInv(i)' /\ \A j \in Import : i # j => ApartInv(i, j)'
    <3>1. OwnInv(i) /\ \A j \in Import : i # j => ApartInv(i, j)
      BY DEF OptionsInv
    <3>2. OptionsOf(Products(i))' = OptionsOf(Products(i)) /\ Products(i)' = Products(i)
      BY DEF OptionsOf, Products
    <3> QED BY <3>1, <3>2 DEF OwnInv, IdsInv, PlaceInv, AddedInv, FreshInv, ApartInv
  <2> QED BY <2>1, <2>2 DEF OptionsInv
<1> QED BY <1>1, <1>2 DEF Next

LEMMA InvHolds == Spec => []OptionsInv
BY InitInv, NextInv, PTL DEF Spec

-----------------------------------------------------------------------------
(* The theorems. *)

\* The variables of OptionsImport keep their types.
THEOREM OptionsTypes == Spec => []TypeOK
<1>1. OptionsInv => TypeOK
  BY DEF OptionsInv
<1> QED BY <1>1, InvHolds, PTL

\* However the ids of several imports interleave, and however many chunks a
\* file takes, each option has the values its line lists, and no others.
THEOREM ValuesAreRight == Spec => []OptionsHaveTheirValues
<1>1. OptionsInv => OptionsHaveTheirValues
  BY DEF OptionsInv
<1> QED BY <1>1, InvHolds, PTL

\* Flushes that do not overlap leave no value without its option, whatever
\* fails and is rolled back.
THEOREM NoOrphans == Spec => []NoOrphanValue
<1>1. OptionsInv => NoOrphanValue
  BY DEF OptionsInv
<1> QED BY <1>1, InvHolds, PTL

\* A commit replaces the sets of all products of the file.
LEMMA CommitReplaces ==
    ASSUME OptionsInv, NEW i \in Import, Commit(i)
    PROVE  Abstract!Replace(i)
<1> USE DEF OptionsInv
<1>1. /\ pc[i] = "values" /\ dropped[i] = OptionsOf(Products(i))
      /\ DOMAIN options' = (DOMAIN options \ dropped[i]) \cup DOMAIN fresh[i]
      /\ \A id \in DOMAIN fresh[i] :
           /\ options'[id] = fresh[i][id] /\ fresh[i][id].product \in Products(i)
      /\ \A id \in DOMAIN options \ dropped[i] :
           options'[id] = options[id] /\ id \notin DOMAIN fresh[i]
  BY Committed
<1>2. IdsInv(i)
  BY DEF OwnInv
<1>3. DOMAIN Listed[i] = 1 .. Len(ids[i])
  BY <1>1, <1>2, ListedType DEF IdsInv
<1>4. \A k \in DOMAIN Listed[i] :
        /\ ids[i][k] \in DOMAIN fresh[i]
        /\ options'[ids[i][k]].product = Listed[i][k].product
        /\ options'[ids[i][k]].of = <<i, k>>
  <2>1. \A k \in DOMAIN Listed[i] :
          /\ ids[i][k] \in DOMAIN fresh[i]
          /\ fresh[i][ids[i][k]].product = Listed[i][k].product
          /\ fresh[i][ids[i][k]].of = <<i, k>>
    BY <1>2, <1>3, InsertedAs
  <2> QED BY <1>1, <2>1
<1>5. ASSUME NEW p \in Product
      PROVE  {options'[id].of : id \in {o \in DOMAIN options' : options'[o].product = p}}
               = IF p \in Products(i) THEN Abstract!SetOf(i, p)
                 ELSE {options[id].of : id \in {o \in DOMAIN options : options[o].product = p}}
  <2>1. CASE p \in Products(i)
    <3>1. \A id \in DOMAIN options' : options'[id].product = p =>
            \E k \in DOMAIN Listed[i] : id = ids[i][k]
      <4>1. ASSUME NEW id \in DOMAIN options', options'[id].product = p
            PROVE  id \in DOMAIN fresh[i]
        BY <1>1, <2>1, <4>1 DEF OptionsOf
      <4> QED BY <1>2, <1>3, <4>1 DEF IdsInv
    <3>2. \A k \in DOMAIN Listed[i] : ids[i][k] \in DOMAIN options'
      BY <1>1, <1>4
    <3>3. ASSUME NEW id \in DOMAIN options', options'[id].product = p
          PROVE  options'[id].of \in Abstract!SetOf(i, p)
      <4>1. PICK k \in DOMAIN Listed[i] : id = ids[i][k]
        BY <3>1, <3>3
      <4> QED BY <1>4, <3>3, <4>1 DEF Abstract!SetOf
    <3>4. ASSUME NEW k \in DOMAIN Listed[i], Listed[i][k].product = p
          PROVE  \E id \in DOMAIN options' : options'[id].product = p /\ options'[id].of = <<i, k>>
      BY <1>4, <3>2, <3>4
    <3> QED BY <2>1, <3>3, <3>4 DEF Abstract!SetOf
  <2>2. CASE p \notin Products(i)
    <3>1. \A id : id \in DOMAIN options' /\ options'[id].product = p
                    <=> id \in DOMAIN options /\ options[id].product = p
      BY <1>1, <2>2 DEF OptionsOf
    <3>2. \A id \in DOMAIN options : options[id].product = p => options'[id] = options[id]
      BY <1>1, <2>2 DEF OptionsOf
    <3> QED BY <2>2, <3>1, <3>2
  <2> QED BY <2>1, <2>2
<1>6. setsBar' = [p \in Product |-> IF p \in Abstract!Products(i) THEN Abstract!SetOf(i, p)
                                    ELSE setsBar[p]]
  <2>1. Abstract!Products(i) = Products(i)
    BY DEF Abstract!Products, Products
  <2>2. \A p \in Product :
          /\ setsBar[p] = {options[id].of : id \in {o \in DOMAIN options : options[o].product = p}}
          /\ setsBar'[p] = {options'[id].of : id \in {o \in DOMAIN options' : options'[o].product = p}}
    BY DEF setsBar, OptionsOf
  <2>3. setsBar' = [p \in Product |-> setsBar'[p]]
    BY DEF setsBar
  <2> QED BY <1>5, <2>1, <2>2, <2>3
<1>7. /\ outcomeBar[i] = "running"
      /\ \E o \in {"ok", "failed"} : outcomeBar' = [outcomeBar EXCEPT ![i] = o]
  <2>1. pc' = [pc EXCEPT ![i] = "ok"] \/ pc' = [pc EXCEPT ![i] = "failed"]
    BY DEF Commit, Goto
  <2> QED BY <1>1, <2>1 DEF outcomeBar, TypeOK
<1> QED BY <1>6, <1>7 DEF Abstract!Replace

\* The transactions of OptionsImport implement OptionSets: however they
\* interleave, whatever the locks hold up or refuse, and whatever fails, an
\* import replaces the option sets of all its products in one step or none.
THEOREM OptionsRefinement == Spec => ImplementsOptionSets
<1>1. Init => Abstract!Init
  BY DEF Init, Abstract!Init, outcomeBar
<1>2. OptionsInv /\ [Next]_vars => [Abstract!Next]_(Abstract!vars)
  <2> SUFFICES ASSUME OptionsInv, [Next]_vars
               PROVE  Abstract!Next \/ UNCHANGED Abstract!vars
    OBVIOUS
  <2>1. options' = options => setsBar' = setsBar
    BY DEF setsBar, OptionsOf
  <2>2. ASSUME NEW i \in Import, RollBack(i), pc[i] \in Active \cup {"idle"}
        PROVE  Abstract!Next
    <3>1. outcomeBar[i] = "running" /\ outcomeBar' = [outcomeBar EXCEPT ![i] = "failed"]
      BY <2>2 DEF RollBack, Goto, outcomeBar, OptionsInv, TypeOK, Active
    <3>2. setsBar' = setsBar
      BY <2>1, <2>2 DEF RollBack
    <3> QED BY <3>1, <3>2 DEF Abstract!Next, Abstract!Fail
  <2>3. ASSUME NEW i \in Import, NEW place \in Active, Goto(i, place), pc[i] \in Active \cup {"idle"},
               options' = options
        PROVE  UNCHANGED Abstract!vars
    <3>1. outcomeBar' = outcomeBar
      BY <2>3 DEF Goto, outcomeBar, OptionsInv, TypeOK, Active
    <3> QED BY <2>1, <2>3, <3>1 DEF Abstract!vars
  <2>4. CASE UNCHANGED <<options, pc>>
    BY <2>1, <2>4 DEF outcomeBar, Abstract!vars
  <2>5. ASSUME NEW i \in Import, SelectIds(i) \/ Step(i) \/ Fails(i)
        PROVE  Abstract!Next \/ UNCHANGED Abstract!vars
    <3>1. CASE SelectIds(i) \/ DeleteValues(i) \/ DeleteOptions(i) \/ OptionsInserted(i)
      BY <2>3, <3>1 DEF SelectIds, DeleteValues, DeleteOptions, OptionsInserted, shared, Active
    <3>2. CASE InsertOptions(i) \/ InsertValues(i)
      BY <2>4, <3>2 DEF InsertOptions, InsertValues, shared
    <3>3. CASE Commit(i)
      BY <3>3, CommitReplaces DEF Abstract!Next
    <3>4. CASE LockRefused(i) \/ Fails(i)
      BY <2>2, <3>4 DEF LockRefused, Fails, Waits, Active
    <3> QED BY <2>5, <3>1, <3>2, <3>3, <3>4 DEF Step
  <2> QED BY <2>4, <2>5 DEF Next, vars
<1> QED BY <1>1, <1>2, InvHolds, PTL DEF Spec, ImplementsOptionSets, Abstract!Spec
=============================================================================
