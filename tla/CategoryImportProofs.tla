------------------------ MODULE CategoryImportProofs ------------------------
(* For every value of the constants: committed categories form a tree with *)
(* right paths and counts, products are linked to what their paths spell,  *)
(* and imports that run one after the other share categories.              *)
EXTENDS CategoryImport, FiniteSetTheorems, WellFoundedInduction, TLAPS

-----------------------------------------------------------------------------
(* The invariant of the tree. *)

Walks(i) == pc[i] \in {"walk", "count"}

\* What a walk has come to, it sees; it has one category more than counted
\* children between the INSERT of a child and the UPDATE of the parent.
WalkInv ==
    \A i \in Import :
        /\ pc[i] \in {"idle", "root"} => /\ leaves[i] = <<>> /\ DOMAIN memo[i] = {}
                                         /\ DOMAIN own[i] = {}
        /\ pc[i] \notin {"walk", "count"} => DOMAIN own[i] = {} /\ DOMAIN counts[i] = {}
        /\ pc[i] \in Active => attr[i] \in 1 .. nextAttr - 1
        /\ Walks(i) =>
             /\ parent[i] \in Visible(i) /\ root[i] \in Visible(i)
             /\ \A p \in DOMAIN memo[i] : memo[i][p] \in Visible(i)
             /\ \A n \in DOMAIN leaves[i] : leaves[i][n] \in Visible(i)
        /\ pc[i] = "count" => DOMAIN own[i] # {}

\* A category that an import has inserted hangs below one that it sees.
OwnInv ==
    \A i \in Import : \A id \in DOMAIN own[i] :
        /\ own[i][id].count = 0
        /\ own[i][id].parent # 0 =>
             /\ own[i][id].parent \in Visible(i)
             /\ own[i][id].path = Append(Cat(i, own[i][id].parent).path, id)
             /\ own[i][id].level = Cat(i, own[i][id].parent).level + 1

\* Ids are given once, and a row is locked by one import.
Apart ==
    \A i, j \in Import : i # j =>
        /\ DOMAIN own[i] \cap DOMAIN own[j] = {}
        /\ DOMAIN counts[i] \cap DOMAIN counts[j] = {}

\* 1 if i has yet to count a child of id.
Uncounted(i, id) == IF pc[i] = "count" /\ parent[i] = id THEN 1 ELSE 0

CountInv ==
    \A i \in Import : \A id \in DOMAIN cats \cup DOMAIN own[i] :
        CountOf(i, id) + Uncounted(i, id) =
            Cat(i, id).count + Cardinality(Children(own[i], id))

IInv == /\ TypeOK /\ WalkInv /\ OwnInv /\ Apart
        /\ PathsExtend(cats) /\ CountInv /\ CountsAdd(cats)

-----------------------------------------------------------------------------
(* Types. *)

LEMMA NoneIsEmpty ==
    DOMAIN None = {} /\ \A S : None \in [DOMAIN None -> S]
BY DEF None

LEMMA OverSingle ==
    ASSUME NEW S, NEW f, f \in [DOMAIN f -> S], NEW k, NEW x \in S
    PROVE  /\ DOMAIN Over(f, Single(k, x)) = DOMAIN f \cup {k}
           /\ Over(f, Single(k, x)) \in [DOMAIN Over(f, Single(k, x)) -> S]
           /\ Over(f, Single(k, x))[k] = x
           /\ \A y \in DOMAIN f : y # k => Over(f, Single(k, x))[y] = f[y]
BY DEF Over, Single

LEMMA OwnGrows ==
    ASSUME TypeOK, NEW i \in Import, NEW k, NEW x \in Category
    PROVE  /\ DOMAIN Over(own[i], Single(k, x)) = DOMAIN own[i] \cup {k}
           /\ Over(own[i], Single(k, x)) \in [DOMAIN Over(own[i], Single(k, x)) -> Category]
           /\ Over(own[i], Single(k, x))[k] = x
           /\ \A y \in DOMAIN own[i] : y # k => Over(own[i], Single(k, x))[y] = own[i][y]
<1>1. own[i] \in [DOMAIN own[i] -> Category]
  BY DEF TypeOK
<1> QED BY <1>1 DEF Over, Single

\* The categories that i sees.
LEMMA CatType ==
    ASSUME TypeOK, NEW i \in Import, NEW id \in Visible(i)
    PROVE  /\ Cat(i, id) \in Category
           /\ id \in 1 .. nextId - 1
           /\ id \in Id
<1>1. /\ nextId \in 1 .. MaxId + 1 /\ DOMAIN cats \subseteq 1 .. nextId - 1
      /\ snap[i] \subseteq DOMAIN cats /\ DOMAIN own[i] \subseteq 1 .. nextId - 1
      /\ MaxId \in Nat
  BY CategoryImportAssumption DEF TypeOK
<1>2. id \in 1 .. nextId - 1
  BY <1>1 DEF Visible
<1>3. id \in Id
  BY <1>1, <1>2 DEF Id
<1>4. Cat(i, id) \in Category
  BY DEF TypeOK, Visible, Cat
<1> QED BY <1>2, <1>3, <1>4

LEMMA SegmentType ==
    ASSUME TypeOK, NEW i \in Import, Walking(i)
    PROVE  /\ Assignments[i] \in Seq([product : Product, path : Paths(i)])
           /\ Len(leaves[i]) + 1 \in 1 .. Len(Assignments[i])
           /\ Path(i) \in Seq(Name)
           /\ done[i] < Len(Path(i)) => Segment(i) \in Name
<1>1. /\ Assignments[i] \in Seq([product : Product, path : Paths(i)])
      /\ \A p \in Paths(i) : p \in Seq(Name)
  BY CategoryImportAssumption
<1>2. Len(leaves[i]) \in Nat /\ Len(Assignments[i]) \in Nat
  BY <1>1 DEF TypeOK
<1>3. Len(leaves[i]) + 1 \in 1 .. Len(Assignments[i])
  BY <1>2 DEF Walking
<1>4. Path(i) \in Paths(i)
  BY <1>1, <1>3 DEF Path, Paths
<1>6. Path(i) \in Seq(Name)
  BY <1>1, <1>4
<1>7. done[i] \in Nat
  BY DEF TypeOK
<1>8. ASSUME done[i] < Len(Path(i)) PROVE Segment(i) \in Name
  BY <1>6, <1>7, <1>8 DEF Segment
<1> QED BY <1>1, <1>3, <1>6, <1>8

LEMMA ChildType ==
    ASSUME TypeOK, NEW i \in Import, Unresolved(i), parent[i] \in Visible(i),
           nextId <= MaxId
    PROVE  Child(i, parent[i], nextId) \in Category
<1>1. Segment(i) \in Name
  BY SegmentType DEF Unresolved
<1>2. Cat(i, parent[i]) \in Category /\ parent[i] \in Id
  BY CatType
<1>3. nextId \in Id /\ attr[i] \in Nat
  BY CategoryImportAssumption DEF TypeOK, Id
<1>4. Append(Cat(i, parent[i]).path, nextId) \in Seq(Id)
  BY <1>2, <1>3 DEF Category
<1>5. Cat(i, parent[i]).level + 1 \in Nat
  BY <1>2 DEF Category
<1> QED BY <1>1, <1>2, <1>3, <1>4, <1>5 DEF Child, Category

LEMMA RootType ==
    ASSUME TypeOK, nextId <= MaxId
    PROVE  RootCategory \in Category
<1>1. 1 \in Id
  BY CategoryImportAssumption DEF TypeOK, Id
<1>2. <<1>> \in Seq(Id)
  BY <1>1
<1> QED BY <1>2 DEF RootCategory, Category

LEMMA BeginType ==
    ASSUME IInv, NEW i \in Import, Begin(i)
    PROVE  TypeOK'
<1> USE DEF IInv
<1>1. /\ attr' \in [Import -> Nat]
      /\ nextAttr' \in Nat \ {0} /\ attrs \subseteq 1 .. nextAttr' - 1
  BY DEF Begin, TypeOK
<1>2. /\ pc' \in [Import -> Active \cup {"idle", "ok", "failed"}]
      /\ snap' \in [Import -> SUBSET DOMAIN cats]
      /\ overlap' \in BOOLEAN
  BY DEF Begin, TypeOK, Goto, Active
<1> QED BY <1>1, <1>2 DEF Begin, TypeOK, walk

LEMMA CreateRootType ==
    ASSUME IInv, NEW i \in Import, CreateRoot(i)
    PROVE  TypeOK'
<1> USE DEF IInv
<1>1. nextId \in 1 .. MaxId /\ MaxId \in Nat /\ nextId' = nextId + 1
  BY CategoryImportAssumption DEF TypeOK, CreateRoot
<1>2. /\ DOMAIN Over(own[i], Single(nextId, RootCategory)) = DOMAIN own[i] \cup {nextId}
      /\ Over(own[i], Single(nextId, RootCategory))
           \in [DOMAIN Over(own[i], Single(nextId, RootCategory)) -> Category]
  <2>1. RootCategory \in Category
    BY RootType DEF CreateRoot
  <2> QED BY <2>1, OwnGrows
<1>3. /\ own' = [own EXCEPT ![i] = Over(own[i], Single(nextId, RootCategory))]
      /\ UNCHANGED <<cats, attrs, nextAttr, links, snap, attr, counts, done, memo,
                     leaves, overlap>>
  BY DEF CreateRoot, StartWalk
<1>4. /\ pc' \in [Import -> Active \cup {"idle", "ok", "failed"}]
      /\ root' \in [Import -> Id \cup {0}]
      /\ parent' \in [Import -> Id \cup {0}]
  BY <1>1 DEF CreateRoot, StartWalk, TypeOK, Goto, Active, Id
<1>5. /\ DOMAIN own' = Import
      /\ own'[i] = Over(own[i], Single(nextId, RootCategory))
      /\ \A j \in Import \ {i} : own'[j] = own[j]
  BY <1>3 DEF TypeOK
<1>6. \A j \in Import : /\ DOMAIN own'[j] \subseteq (1 .. nextId' - 1) \ DOMAIN cats'
                        /\ own'[j] \in [DOMAIN own'[j] -> Category]
                        /\ DOMAIN counts'[j] \subseteq DOMAIN own'[j] \cup DOMAIN cats'
  <2> TAKE j \in Import
  <2>1. CASE j = i
    BY <1>1, <1>2, <1>3, <1>5, <2>1 DEF TypeOK
  <2>2. CASE j # i
    BY <1>1, <1>3, <1>5, <2>2 DEF TypeOK
  <2> QED BY <2>1, <2>2
<1>7. /\ nextId' \in 1 .. MaxId + 1 /\ DOMAIN cats' \subseteq 1 .. nextId' - 1
  BY <1>1, <1>3 DEF TypeOK
<1> QED BY <1>3, <1>4, <1>5, <1>6, <1>7 DEF TypeOK

LEMMA CreateChildType ==
    ASSUME IInv, NEW i \in Import, CreateChild(i)
    PROVE  TypeOK'
<1> USE DEF IInv
<1> DEFINE new == Child(i, parent[i], nextId)
<1>0. /\ parent[i] \in Visible(i) /\ nextId <= MaxId /\ Unresolved(i)
  BY DEF CreateChild, WalkInv, Unresolved, Walking, Walks
<1>1. nextId \in 1 .. MaxId /\ MaxId \in Nat /\ nextId' = nextId + 1
  BY CategoryImportAssumption DEF TypeOK, CreateChild
<1>2. new \in Category
  BY <1>0, ChildType
<1>3. /\ own' = [own EXCEPT ![i] = Over(own[i], Single(nextId, new))]
      /\ UNCHANGED <<cats, attrs, nextAttr, links, snap, attr, counts, root, parent,
                     done, memo, leaves, overlap>>
  BY DEF CreateChild, walk
<1> HIDE DEF new
<1>4. /\ DOMAIN Over(own[i], Single(nextId, new)) = DOMAIN own[i] \cup {nextId}
      /\ Over(own[i], Single(nextId, new))
           \in [DOMAIN Over(own[i], Single(nextId, new)) -> Category]
  BY <1>2, OwnGrows
<1>5. pc' \in [Import -> Active \cup {"idle", "ok", "failed"}]
  BY DEF CreateChild, TypeOK, Goto, Active
<1>6. /\ DOMAIN own' = Import
      /\ own'[i] = Over(own[i], Single(nextId, new))
      /\ \A j \in Import \ {i} : own'[j] = own[j]
  BY <1>3 DEF TypeOK
<1>7. \A j \in Import : /\ DOMAIN own'[j] \subseteq (1 .. nextId' - 1) \ DOMAIN cats'
                        /\ own'[j] \in [DOMAIN own'[j] -> Category]
                        /\ DOMAIN counts'[j] \subseteq DOMAIN own'[j] \cup DOMAIN cats'
  <2> TAKE j \in Import
  <2>1. CASE j = i
    BY <1>1, <1>3, <1>4, <1>6, <2>1 DEF TypeOK
  <2>2. CASE j # i
    BY <1>1, <1>3, <1>6, <2>2 DEF TypeOK
  <2> QED BY <2>1, <2>2
<1>8. /\ nextId' \in 1 .. MaxId + 1 /\ DOMAIN cats' \subseteq 1 .. nextId' - 1
  BY <1>1, <1>3 DEF TypeOK
<1> QED BY <1>3, <1>5, <1>6, <1>7, <1>8 DEF TypeOK

LEMMA WalkType ==
    ASSUME IInv, NEW i \in Import,
           FindRoot(i) \/ Remember(i) \/ PathEnds(i) \/ Descend(i)
    PROVE  TypeOK'
<1> USE DEF IInv
<1>1. CASE FindRoot(i)
  <2>1. PICK id \in Roots(i) : StartWalk(i, id)
    BY <1>1 DEF FindRoot
  <2>2. id \in Id
    BY CatType DEF Roots
  <2>3. /\ pc' \in [Import -> Active \cup {"idle", "ok", "failed"}]
        /\ root' \in [Import -> Id \cup {0}]
        /\ parent' \in [Import -> Id \cup {0}]
    BY <2>1, <2>2 DEF StartWalk, TypeOK, Goto, Active
  <2> QED BY <1>1, <2>1, <2>3 DEF TypeOK, FindRoot, StartWalk
<1>2. CASE Descend(i)
  <2>1. PICK id \in Matches(i) : parent' = [parent EXCEPT ![i] = id]
    BY <1>2 DEF Descend
  <2>2. id \in Id
    BY CatType DEF Matches
  <2>3. parent' \in [Import -> Id \cup {0}] /\ done' \in [Import -> Nat]
    BY <1>2, <2>1, <2>2 DEF TypeOK, Descend
  <2> QED BY <1>2, <2>3 DEF TypeOK, Descend, shared
<1>3. CASE \E id \in Id : /\ Resolved(i, id) /\ Walking(i)
                          /\ DOMAIN memo' = Import
                          /\ \A j \in Import : memo'[j] \in [DOMAIN memo'[j] -> Id]
  <2>1. PICK id \in Id : Resolved(i, id)
    BY <1>3
  <2>2. Len(leaves[i]) + 1 \in 1 .. Len(Assignments[i])
    BY <1>3, SegmentType
  <2>3. /\ leaves' \in [Import -> Seq(Id)]
        /\ \A j \in Import : Len(leaves'[j]) <= Len(Assignments[j])
    <3>1. Append(leaves[i], id) \in Seq(Id) /\ Len(Append(leaves[i], id)) = Len(leaves[i]) + 1
      BY DEF TypeOK
    <3>2. Len(leaves[i]) + 1 <= Len(Assignments[i])
      BY <2>2
    <3>3. leaves' = [leaves EXCEPT ![i] = Append(leaves[i], id)]
      BY <2>1 DEF Resolved
    <3> QED BY <3>1, <3>2, <3>3 DEF TypeOK
  <2>4. parent' \in [Import -> Id \cup {0}] /\ done' \in [Import -> Nat]
    BY <2>1 DEF TypeOK, Resolved
  <2> QED BY <1>3, <2>1, <2>3, <2>4 DEF TypeOK, Resolved, shared
<1>4. CASE Remember(i)
  <2>1. memo[i][MemoKey(Path(i))] \in Id /\ Resolved(i, memo[i][MemoKey(Path(i))])
    BY <1>4 DEF Remember, TypeOK
  <2>2. Walking(i) /\ memo' = memo
    BY <1>4 DEF Remember
  <2> QED BY <1>3, <2>1, <2>2 DEF TypeOK
<1>5. CASE PathEnds(i)
  <2>1. parent[i] \in Id /\ Walking(i) /\ Resolved(i, parent[i])
    BY <1>5, CatType DEF PathEnds, WalkInv, Walking, Walks
  <2>2. /\ memo' = [memo EXCEPT ![i] = Over(memo[i], Single(MemoKey(Path(i)), parent[i]))]
    BY <1>5 DEF PathEnds
  <2>3. Over(memo[i], Single(MemoKey(Path(i)), parent[i]))
          \in [DOMAIN Over(memo[i], Single(MemoKey(Path(i)), parent[i])) -> Id]
    BY <2>1, OverSingle DEF TypeOK
  <2>4. /\ DOMAIN memo' = Import
        /\ \A j \in Import : memo'[j] \in [DOMAIN memo'[j] -> Id]
    BY <2>2, <2>3 DEF TypeOK
  <2> QED BY <1>3, <2>1, <2>4
<1> QED BY <1>1, <1>2, <1>4, <1>5

\* A bounded set of numbers has a greatest element.
LEMMA GreatestExists ==
    ASSUME NEW n \in Nat, NEW L \in SUBSET (1 .. n), L # {}
    PROVE  \E m \in L : \A k \in L : k <= m
<1> DEFINE T == {n - m : m \in L}
<1>1. T \in SUBSET Nat /\ T # {}
  <2>1. \A m \in L : n - m \in Nat
    OBVIOUS
  <2>2. PICK m \in L : n - m \in T
    OBVIOUS
  <2> QED BY <2>1, <2>2
<1> HIDE DEF T
<1>2. PICK x \in T : \A y \in T : ~ (<<y, x>> \in OpToRel(<, Nat))
  BY <1>1, NatLessThanWellFounded, WFMin, Zenon
<1>3. \A y \in T : <<y, x>> \in OpToRel(<, Nat) <=> y < x
  BY <1>1, Zenon DEF OpToRel
<1>4. \A y \in T : ~ (y < x)
  BY <1>2, <1>3, Zenon
<1>5. PICK m \in L : x = n - m
  BY DEF T
<1>6. \A k \in L : n - k \in T
  BY DEF T
<1>7. \A k \in L : k <= m
  BY <1>4, <1>5, <1>6
<1> QED BY <1>7

LEMMA CountParentType ==
    ASSUME IInv, NEW i \in Import, CountParent(i)
    PROVE  /\ TypeOK'
           /\ parent'[i] \in DOMAIN own[i]
           /\ DOMAIN counts'[i] = DOMAIN counts[i] \cup {parent[i]}
           /\ counts'[i][parent[i]] = CountOf(i, parent[i]) + 1
           /\ \A id \in DOMAIN counts[i] : id # parent[i] => counts'[i][id] = counts[i][id]
<1> USE DEF IInv
<1> DEFINE last == CHOOSE id \in DOMAIN own[i] : \A k \in DOMAIN own[i] : k <= id
           n    == CountOf(i, parent[i]) + 1
<1>1. /\ pc[i] = "count"
      /\ counts' = [counts EXCEPT ![i] = Over(counts[i], Single(parent[i], n))]
      /\ parent' = [parent EXCEPT ![i] = last]
      /\ done' = [done EXCEPT ![i] = @ + 1]
      /\ pc' = [pc EXCEPT ![i] = "walk"]
      /\ UNCHANGED <<cats, nextId, attrs, nextAttr, links, snap, attr, own, root, memo,
                     leaves, overlap>>
  BY DEF CountParent, IncrementParent, Goto, shared
<1>2. last \in DOMAIN own[i] /\ last \in Id
  <2>0. MaxId \in Nat
    BY CategoryImportAssumption
  <2>1. /\ DOMAIN own[i] \in SUBSET (1 .. nextId - 1) /\ DOMAIN own[i] # {}
        /\ nextId - 1 \in Nat
        /\ nextId - 1 <= MaxId /\ MaxId \in Nat
    BY <1>1, <2>0 DEF TypeOK, WalkInv
  <2>2. \E m \in DOMAIN own[i] : \A k \in DOMAIN own[i] : k <= m
    BY <2>1, GreatestExists
  <2>3. last \in DOMAIN own[i]
    BY <2>2
  <2> HIDE DEF last
  <2> QED BY <2>1, <2>3 DEF Id
<1>3. parent[i] \in Visible(i) /\ parent[i] \in DOMAIN own[i] \cup DOMAIN cats
  BY <1>1 DEF WalkInv, Walks, Visible, TypeOK
<1>4. n \in Nat
  <2>1. Cat(i, parent[i]).count \in Nat
    BY <1>3, CatType DEF Category
  <2>2. parent[i] \in DOMAIN counts[i] => counts[i][parent[i]] \in Nat
    BY DEF TypeOK
  <2> QED BY <2>1, <2>2 DEF CountOf
<1> HIDE DEF last, n
<1>5. /\ DOMAIN Over(counts[i], Single(parent[i], n)) = DOMAIN counts[i] \cup {parent[i]}
      /\ Over(counts[i], Single(parent[i], n))
           \in [DOMAIN Over(counts[i], Single(parent[i], n)) -> Nat]
      /\ Over(counts[i], Single(parent[i], n))[parent[i]] = n
      /\ \A y \in DOMAIN counts[i] : y # parent[i] =>
           Over(counts[i], Single(parent[i], n))[y] = counts[i][y]
  <2>1. counts[i] \in [DOMAIN counts[i] -> Nat]
    BY DEF TypeOK
  <2> QED BY <1>4, <2>1 DEF Over, Single
<1>6. /\ DOMAIN counts' = Import
      /\ counts'[i] = Over(counts[i], Single(parent[i], n))
      /\ \A j \in Import \ {i} : counts'[j] = counts[j]
      /\ parent'[i] = last
  BY <1>1 DEF TypeOK
<1>7. /\ pc' \in [Import -> Active \cup {"idle", "ok", "failed"}]
      /\ parent' \in [Import -> Id \cup {0}] /\ done' \in [Import -> Nat]
  BY <1>1, <1>2 DEF TypeOK, Active
<1>8. \A j \in Import : /\ DOMAIN counts'[j] \subseteq DOMAIN own'[j] \cup DOMAIN cats'
                        /\ counts'[j] \in [DOMAIN counts'[j] -> Nat]
  <2> TAKE j \in Import
  <2>1. CASE j = i
    BY <1>1, <1>3, <1>5, <1>6, <2>1 DEF TypeOK
  <2>2. CASE j # i
    BY <1>1, <1>6, <2>2 DEF TypeOK
  <2> QED BY <2>1, <2>2
<1>9. TypeOK'
  BY <1>1, <1>6, <1>7, <1>8 DEF TypeOK
<1> QED BY <1>2, <1>5, <1>6, <1>9 DEF n

LEMMA RollBackType ==
    ASSUME IInv, NEW i \in Import, RollBack(i)
    PROVE  TypeOK'
<1> USE DEF IInv
<1>1. /\ pc' \in [Import -> Active \cup {"idle", "ok", "failed"}]
      /\ DOMAIN own' = Import /\ DOMAIN counts' = Import
      /\ UNCHANGED <<cats, nextId, attrs, nextAttr, links, snap, attr, root, parent, done,
                     memo, leaves, overlap>>
  BY DEF RollBack, Goto, TypeOK, Active, shared, walk
<1>2. \A j \in Import : /\ DOMAIN own'[j] \subseteq (1 .. nextId - 1) \ DOMAIN cats
                        /\ own'[j] \in [DOMAIN own'[j] -> Category]
                        /\ DOMAIN counts'[j] \subseteq DOMAIN own'[j] \cup DOMAIN cats
                        /\ counts'[j] \in [DOMAIN counts'[j] -> Nat]
  BY NoneIsEmpty DEF RollBack, TypeOK
<1> QED BY <1>1, <1>2 DEF TypeOK

\* What a COMMIT makes of the category table: the import's categories are
\* added, and only counts change.
LEMMA CommitCats ==
    ASSUME IInv, NEW i \in Import, Commit(i)
    PROVE  /\ DOMAIN cats' = DOMAIN cats \cup DOMAIN own[i]
           /\ \A id \in DOMAIN cats' :
                /\ cats'[id].parent = Cat(i, id).parent
                /\ cats'[id].path = Cat(i, id).path
                /\ cats'[id].level = Cat(i, id).level
                /\ cats'[id].name = Cat(i, id).name
                /\ cats'[id].attr = Cat(i, id).attr
                /\ cats'[id].count = CountOf(i, id)
           /\ cats' \in [DOMAIN cats' -> Category]
           /\ DOMAIN own' = Import /\ DOMAIN counts' = Import
           /\ own'[i] = None /\ counts'[i] = None
           /\ \A j \in Import \ {i} : own'[j] = own[j] /\ counts'[j] = counts[j]
           /\ pc[i] = "walk" /\ pc' = [pc EXCEPT ![i] = "ok"]
           /\ UNCHANGED <<nextId, nextAttr, snap, attr, root, parent, done, memo, leaves,
                          overlap>>
<1> USE DEF IInv
<1>1. cats' = [id \in DOMAIN Counted(i) |->
                 [Counted(i)[id] EXCEPT !.count = IF id \in DOMAIN counts[i]
                                                 THEN counts[i][id] ELSE @]]
  BY DEF Commit
<1>2. /\ DOMAIN Counted(i) = DOMAIN cats \cup DOMAIN own[i]
      /\ \A id \in DOMAIN Counted(i) : Counted(i)[id] = Cat(i, id)
  BY DEF Counted, Over, Cat
<1>3. \A id \in DOMAIN cats \cup DOMAIN own[i] : Cat(i, id) \in Category
  BY DEF Cat, TypeOK
<1>4. \A id \in DOMAIN counts[i] : counts[i][id] \in Nat
  BY DEF TypeOK
<1>5. DOMAIN cats' = DOMAIN cats \cup DOMAIN own[i]
  BY <1>1, <1>2
<1>6. ASSUME NEW id \in DOMAIN cats'
      PROVE  /\ cats'[id].parent = Cat(i, id).parent
             /\ cats'[id].path = Cat(i, id).path
             /\ cats'[id].level = Cat(i, id).level
             /\ cats'[id].name = Cat(i, id).name
             /\ cats'[id].attr = Cat(i, id).attr
             /\ cats'[id].count = CountOf(i, id)
             /\ cats'[id] \in Category
  <2>1. cats'[id] = [Cat(i, id) EXCEPT !.count = IF id \in DOMAIN counts[i]
                                                 THEN counts[i][id] ELSE @]
    BY <1>1, <1>2, <1>5
  <2>2. Cat(i, id) \in Category
    BY <1>3, <1>5
  <2> QED BY <1>4, <2>1, <2>2 DEF Category, CountOf
<1>7. cats' \in [DOMAIN cats' -> Category]
  <2>1. cats' = [id \in DOMAIN cats' |-> cats'[id]]
    BY <1>1
  <2> QED BY <1>6, <2>1
<1>8. /\ DOMAIN own' = Import /\ DOMAIN counts' = Import
      /\ own'[i] = None /\ counts'[i] = None
      /\ \A j \in Import \ {i} : own'[j] = own[j] /\ counts'[j] = counts[j]
      /\ pc[i] = "walk" /\ pc' = [pc EXCEPT ![i] = "ok"]
      /\ UNCHANGED <<nextId, nextAttr, snap, attr, root, parent, done, memo, leaves, overlap>>
  BY DEF Commit, Goto, TypeOK, walk
<1> QED BY <1>5, <1>6, <1>7, <1>8

LEMMA CommitType ==
    ASSUME IInv, NEW i \in Import, Commit(i)
    PROVE  TypeOK'
<1> USE DEF IInv
<1>1. /\ DOMAIN cats' = DOMAIN cats \cup DOMAIN own[i]
      /\ cats' \in [DOMAIN cats' -> Category]
      /\ DOMAIN own' = Import /\ DOMAIN counts' = Import
      /\ own'[i] = None /\ counts'[i] = None
      /\ \A j \in Import \ {i} : own'[j] = own[j] /\ counts'[j] = counts[j]
      /\ pc[i] = "walk" /\ pc' = [pc EXCEPT ![i] = "ok"]
      /\ UNCHANGED <<nextId, nextAttr, snap, attr, root, parent, done, memo, leaves, overlap>>
  BY CommitCats
<1>2. DOMAIN cats' \subseteq 1 .. nextId - 1 /\ snap \in [Import -> SUBSET DOMAIN cats']
  BY <1>1 DEF TypeOK
<1>3. \A j \in Import : /\ DOMAIN own'[j] \subseteq (1 .. nextId - 1) \ DOMAIN cats'
                        /\ own'[j] \in [DOMAIN own'[j] -> Category]
                        /\ DOMAIN counts'[j] \subseteq DOMAIN own'[j] \cup DOMAIN cats'
                        /\ counts'[j] \in [DOMAIN counts'[j] -> Nat]
  <2> TAKE j \in Import
  <2>1. CASE j = i
    BY <1>1, <2>1, NoneIsEmpty
  <2>2. CASE j # i
    BY <1>1, <2>2 DEF TypeOK, Apart
  <2> QED BY <2>1, <2>2
<1>4. attrs' \subseteq 1 .. nextAttr - 1
  BY DEF TypeOK, Commit, WalkInv, Active
<1>5. links' \subseteq (DOMAIN cats') \X Product
  <2>1. ASSUME NEW n \in DOMAIN leaves[i]
        PROVE  <<leaves[i][n], Assignments[i][n].product>> \in (DOMAIN cats') \X Product
    <3>1. leaves[i][n] \in Visible(i)
      BY <1>1 DEF WalkInv, Walks
    <3>2. leaves[i][n] \in DOMAIN cats'
      BY <1>1, <3>1 DEF Visible, TypeOK
    <3>3. /\ Assignments[i] \in Seq([product : Product, path : Paths(i)])
          /\ Len(leaves[i]) <= Len(Assignments[i])
          /\ leaves[i] \in Seq(Id)
      BY CategoryImportAssumption DEF TypeOK
    <3>4. n \in DOMAIN Assignments[i]
      BY <3>3
    <3>5. Assignments[i][n].product \in Product
      BY <3>4 DEF Product
    <3> QED BY <3>2, <3>5
  <2>2. links' = links \cup {<<leaves[i][n], Assignments[i][n].product>> :
                              n \in DOMAIN leaves[i]}
    BY DEF Commit
  <2>3. links \subseteq (DOMAIN cats') \X Product
    BY <1>1 DEF TypeOK
  <2> QED BY <2>1, <2>2, <2>3
<1>6. pc' \in [Import -> Active \cup {"idle", "ok", "failed"}]
  BY <1>1 DEF TypeOK, Active
<1> QED BY <1>1, <1>2, <1>3, <1>4, <1>5, <1>6 DEF TypeOK

-----------------------------------------------------------------------------
(* The invariant is kept. *)

TreeInv == OwnInv /\ Apart /\ PathsExtend(cats) /\ CountInv /\ CountsAdd(cats)

\* A step that changes no category and counts none.
LEMMA QuietStep ==
    ASSUME IInv, NEW i \in Import,
           UNCHANGED <<cats, own, counts>>,
           pc[i] # "count", pc'[i] # "count",
           snap'[i] = snap[i] \/ DOMAIN own[i] = {},
           \A j \in Import \ {i} : pc'[j] = pc[j] /\ parent'[j] = parent[j]
                                                  /\ snap'[j] = snap[j]
    PROVE  TreeInv'
<1> USE DEF IInv
<1>1. OwnInv'
  BY DEF OwnInv, Visible, Cat
<1>2. Apart' /\ PathsExtend(cats)' /\ CountsAdd(cats)'
  BY DEF Apart, PathsExtend, CountsAdd, Children
<1>3. CountInv'
  <2>1. \A j \in Import : \A id : Uncounted(j, id)' = Uncounted(j, id)
    BY DEF Uncounted
  <2>2. \A j \in Import : \A id : CountOf(j, id)' = CountOf(j, id) /\ Cat(j, id)' = Cat(j, id)
    BY DEF CountOf, Cat
  <2> QED BY <2>1, <2>2 DEF CountInv, Children
<1> QED BY <1>1, <1>2, <1>3 DEF TreeInv

LEMMA BeginInv ==
    ASSUME IInv, NEW i \in Import, Begin(i)
    PROVE  IInv'
<1> USE DEF IInv
<1>1. /\ pc[i] = "idle" /\ pc'[i] = "root"
      /\ \A j \in Import \ {i} : pc'[j] = pc[j] /\ snap'[j] = snap[j] /\ attr'[j] = attr[j]
      /\ UNCHANGED <<cats, own, counts, parent, root, memo, leaves>>
      /\ attr'[i] \in 1 .. nextAttr' - 1 /\ nextAttr' >= nextAttr
      /\ nextAttr \in Nat /\ nextAttr' \in Nat
  BY DEF Begin, Goto, TypeOK, walk
<1>2. TreeInv'
  BY <1>1, QuietStep DEF WalkInv
<1>3. WalkInv'
  BY <1>1 DEF WalkInv, Walks, Visible, Active
<1> QED BY <1>2, <1>3, BeginType DEF TreeInv

LEMMA WalkInvStep ==
    ASSUME IInv, NEW i \in Import,
           FindRoot(i) \/ Remember(i) \/ PathEnds(i) \/ Descend(i)
    PROVE  IInv'
<1> USE DEF IInv
<1>1. /\ pc[i] \in {"root", "walk"} /\ pc'[i] = "walk"
      /\ \A j \in Import \ {i} : pc'[j] = pc[j] /\ parent'[j] = parent[j]
                              /\ root'[j] = root[j] /\ memo'[j] = memo[j]
                              /\ leaves'[j] = leaves[j]
      /\ UNCHANGED <<cats, own, counts, snap, attr, nextAttr>>
  BY DEF FindRoot, StartWalk, Remember, PathEnds, Descend, Resolved, Unresolved, Walking,
         Goto, TypeOK, shared
<1>2. TreeInv'
  BY <1>1, QuietStep
<1>3. /\ parent'[i] \in Visible(i) /\ root'[i] \in Visible(i)
      /\ \A p \in DOMAIN memo'[i] : memo'[i][p] \in Visible(i)
      /\ \A n \in DOMAIN leaves'[i] : leaves'[i][n] \in Visible(i)
  <2>1. CASE FindRoot(i)
    <3>1. PICK id \in Roots(i) : StartWalk(i, id)
      BY <2>1 DEF FindRoot
    <3>2. parent'[i] = id /\ root'[i] = id /\ UNCHANGED <<memo, leaves>>
      BY <3>1 DEF StartWalk, TypeOK
    <3>3. id \in Visible(i) /\ leaves[i] = <<>> /\ DOMAIN memo[i] = {}
      BY <2>1 DEF FindRoot, Roots, WalkInv
    <3> QED BY <3>2, <3>3
  <2>2. CASE Descend(i)
    <3>1. pc[i] = "walk" /\ UNCHANGED <<root, memo, leaves>>
      BY <2>2 DEF Descend, Unresolved, Walking
    <3>2. parent'[i] \in Visible(i)
      BY <2>2 DEF Descend, Matches, TypeOK
    <3> QED BY <3>1, <3>2 DEF WalkInv, Walks
  <2>3. CASE \E id \in Visible(i) : Resolved(i, id)
    <3>1. PICK id \in Visible(i) : Resolved(i, id)
      BY <2>3
    <3>2. pc[i] = "walk"
      BY <1>1, <3>1 DEF Resolved
    <3>3. parent'[i] = root[i] /\ root' = root /\ leaves'[i] = Append(leaves[i], id)
      BY <3>1 DEF Resolved, TypeOK
    <3>4. \A n \in DOMAIN leaves'[i] : leaves'[i][n] \in Visible(i)
      <4>1. leaves[i] \in Seq(Id)
        BY DEF TypeOK
      <4>2. \A n \in DOMAIN leaves[i] : leaves[i][n] \in Visible(i)
        BY <3>2 DEF WalkInv, Walks
      <4> QED BY <3>3, <4>1, <4>2
    <3>5. \A p \in DOMAIN memo'[i] : memo'[i][p] \in Visible(i)
      <4>1. CASE memo' = memo
        BY <3>2, <4>1 DEF WalkInv, Walks
      <4>2. CASE PathEnds(i)
        <5>1. memo'[i] = Over(memo[i], Single(MemoKey(Path(i)), parent[i]))
          BY <4>2 DEF PathEnds, TypeOK
        <5> QED BY <3>2, <5>1 DEF WalkInv, Walks, Over, Single
      <4> QED BY <4>1, <4>2 DEF Remember, FindRoot, StartWalk, Descend
    <3> QED BY <3>2, <3>3, <3>4, <3>5 DEF WalkInv, Walks
  <2>4. CASE Remember(i) \/ PathEnds(i)
    BY <2>3, <2>4 DEF Remember, PathEnds, WalkInv, Walks, Walking
  <2> QED BY <2>1, <2>2, <2>4
<1>4. WalkInv'
  <2> SUFFICES ASSUME NEW j \in Import
               PROVE  /\ pc'[j] \in {"idle", "root"} =>
                           /\ leaves'[j] = <<>> /\ DOMAIN memo'[j] = {} /\ DOMAIN own[j] = {}
                      /\ pc'[j] \notin {"walk", "count"} =>
                           DOMAIN own[j] = {} /\ DOMAIN counts[j] = {}
                      /\ pc'[j] \in Active => attr[j] \in 1 .. nextAttr - 1
                      /\ pc'[j] \in {"walk", "count"} =>
                           /\ parent'[j] \in Visible(j) /\ root'[j] \in Visible(j)
                           /\ \A p \in DOMAIN memo'[j] : memo'[j][p] \in Visible(j)
                           /\ \A n \in DOMAIN leaves'[j] : leaves'[j][n] \in Visible(j)
                      /\ pc'[j] = "count" => DOMAIN own[j] # {}
    BY <1>1 DEF WalkInv, Walks, Visible
  <2>1. CASE j = i
    BY <1>1, <1>3, <2>1 DEF WalkInv, Active
  <2>2. CASE j # i
    BY <1>1, <2>2 DEF WalkInv, Walks
  <2> QED BY <2>1, <2>2
<1> QED BY <1>2, <1>4, WalkType DEF TreeInv

\* An import that inserts a category sees it, and nothing else changes.
LEMMA NewCategory ==
    ASSUME IInv, NEW i \in Import, nextId <= MaxId, NEW x \in Category,
           own' = [own EXCEPT ![i] = Over(@, Single(nextId, x))],
           UNCHANGED <<cats, snap>>
    PROVE  /\ nextId \in Nat \ {0} /\ nextId \notin DOMAIN cats
           /\ \A j \in Import : nextId \notin DOMAIN own[j] /\ nextId \notin DOMAIN counts[j]
                                /\ nextId \notin Visible(j)
           /\ DOMAIN own'[i] = DOMAIN own[i] \cup {nextId}
           /\ own'[i][nextId] = x
           /\ \A id \in DOMAIN own[i] : own'[i][id] = own[i][id]
           /\ \A j \in Import \ {i} : own'[j] = own[j]
           /\ Visible(i)' = Visible(i) \cup {nextId}
           /\ \A id \in Visible(i) : Cat(i, id)' = Cat(i, id)
<1> USE DEF IInv
<1>1. /\ nextId \in Nat \ {0}
      /\ nextId \notin DOMAIN cats
      /\ \A j \in Import : nextId \notin DOMAIN own[j] /\ nextId \notin snap[j]
                           /\ nextId \notin DOMAIN counts[j]
  BY CategoryImportAssumption DEF TypeOK
<1>2. /\ own'[i] = Over(own[i], Single(nextId, x))
      /\ \A j \in Import \ {i} : own'[j] = own[j]
  BY DEF TypeOK
<1>3. /\ DOMAIN own'[i] = DOMAIN own[i] \cup {nextId}
      /\ own'[i][nextId] = x
      /\ \A id \in DOMAIN own[i] : own'[i][id] = own[i][id]
  BY <1>1, <1>2 DEF Over, Single
<1>4. Visible(i)' = Visible(i) \cup {nextId}
  BY <1>3 DEF Visible
<1>5. \A id \in Visible(i) : Cat(i, id)' = Cat(i, id)
  BY <1>1, <1>3 DEF Visible, Cat
<1> QED BY <1>1, <1>2, <1>3, <1>4, <1>5 DEF Visible

\* Sets of categories are finite.
LEMMA ChildrenFinite ==
    ASSUME IInv, NEW i \in Import, NEW id
    PROVE  /\ IsFiniteSet(Children(own[i], id)) /\ IsFiniteSet(Children(cats, id))
           /\ Cardinality(Children(own[i], id)) \in Nat
           /\ Cardinality(Children(cats, id)) \in Nat
<1>1. IsFiniteSet(1 .. nextId - 1)
  <2>1. nextId - 1 \in Int
    BY CategoryImportAssumption DEF IInv, TypeOK
  <2> QED BY <2>1, FS_Interval
<1>2. /\ Children(own[i], id) \subseteq 1 .. nextId - 1
      /\ Children(cats, id) \subseteq 1 .. nextId - 1
  BY DEF Children, IInv, TypeOK
<1> QED BY <1>1, <1>2, FS_Subset, FS_CardinalityType

LEMMA NoChildren ==
    Cardinality({}) = 0
BY FS_EmptySet

\* Whatever an import counts is a number.
LEMMA CountTypes ==
    ASSUME IInv, NEW i \in Import, NEW id \in DOMAIN cats \cup DOMAIN own[i]
    PROVE  /\ Cat(i, id) \in Category /\ Cat(i, id).count \in Nat
           /\ CountOf(i, id) \in Nat
<1>1. Cat(i, id) \in Category
  BY DEF IInv, TypeOK, Cat
<1>2. id \in DOMAIN counts[i] => counts[i][id] \in Nat
  BY DEF IInv, TypeOK
<1> QED BY <1>1, <1>2 DEF CountOf, Category

LEMMA CreateRootInv ==
    ASSUME IInv, NEW i \in Import, CreateRoot(i)
    PROVE  IInv'
<1> USE DEF IInv
<1>1. /\ nextId <= MaxId /\ RootCategory \in Category
      /\ own' = [own EXCEPT ![i] = Over(@, Single(nextId, RootCategory))]
      /\ UNCHANGED <<cats, attrs, nextAttr, links, snap, attr, counts, done, memo,
                     leaves, overlap>>
      /\ pc[i] = "root" /\ pc'[i] = "walk"
      /\ parent'[i] = nextId /\ root'[i] = nextId
      /\ \A j \in Import \ {i} : pc'[j] = pc[j] /\ parent'[j] = parent[j] /\ root'[j] = root[j]
  BY RootType DEF CreateRoot, StartWalk, Goto, TypeOK
<1>2. /\ nextId \in Nat \ {0} /\ nextId \notin DOMAIN cats
      /\ \A j \in Import : nextId \notin DOMAIN own[j] /\ nextId \notin DOMAIN counts[j]
                           /\ nextId \notin Visible(j)
      /\ DOMAIN own'[i] = DOMAIN own[i] \cup {nextId}
      /\ own'[i][nextId] = RootCategory
      /\ \A id \in DOMAIN own[i] : own'[i][id] = own[i][id]
      /\ \A j \in Import \ {i} : own'[j] = own[j]
      /\ Visible(i)' = Visible(i) \cup {nextId}
      /\ \A id \in Visible(i) : Cat(i, id)' = Cat(i, id)
  BY <1>1, NewCategory
<1>3. DOMAIN own[i] = {} /\ leaves[i] = <<>> /\ DOMAIN memo[i] = {} /\ DOMAIN counts[i] = {}
  BY <1>1 DEF WalkInv
<1>4. WalkInv'
  BY <1>1, <1>2, <1>3 DEF WalkInv, Walks, Visible, Active
<1>5. OwnInv'
  <2>1. \A id \in DOMAIN own'[i] : own'[i][id].count = 0 /\ own'[i][id].parent = 0
    BY <1>2, <1>3 DEF RootCategory
  <2>2. \A j \in Import \ {i} :
          own'[j] = own[j] /\ Visible(j)' = Visible(j) /\ \A id : Cat(j, id)' = Cat(j, id)
    BY <1>1, <1>2 DEF Visible, Cat
  <2> QED BY <2>1, <2>2 DEF OwnInv
<1>6. Apart' /\ PathsExtend(cats)' /\ CountsAdd(cats)'
  BY <1>1, <1>2, <1>3 DEF Apart, PathsExtend, CountsAdd, Children
<1>7. CountInv'
  <2> SUFFICES ASSUME NEW j \in Import, NEW id \in DOMAIN cats \cup DOMAIN own'[j]
               PROVE  CountOf(j, id)' + Uncounted(j, id)' =
                        Cat(j, id)'.count + Cardinality(Children(own'[j], id))
    BY <1>1 DEF CountInv
  <2>1. CASE j = i
    <3>1. Children(own'[i], id) = {}
      <4>1. id # 0
        BY <1>2, <1>3, <2>1 DEF TypeOK
      <4> QED BY <1>2, <1>3, <4>1 DEF Children, RootCategory
    <3>2. CountOf(i, id)' = Cat(i, id)'.count /\ Uncounted(i, id)' = 0
      BY <1>1, <1>3 DEF CountOf, Uncounted
    <3>3. Cat(i, id)'.count \in Nat
      BY <1>1, <1>2, <1>3, <2>1 DEF Cat, RootCategory, TypeOK, Category
    <3> QED BY <2>1, <3>1, <3>2, <3>3, NoChildren
  <2>2. CASE j # i
    <3>1. /\ CountOf(j, id)' = CountOf(j, id) /\ Cat(j, id)' = Cat(j, id)
          /\ Uncounted(j, id)' = Uncounted(j, id) /\ own'[j] = own[j]
      BY <1>1, <1>2, <2>2 DEF CountOf, Cat, Uncounted
    <3> QED BY <3>1 DEF CountInv
  <2> QED BY <2>1, <2>2
<1> QED BY <1>4, <1>5, <1>6, <1>7, CreateRootType

LEMMA CreateChildInv ==
    ASSUME IInv, NEW i \in Import, CreateChild(i)
    PROVE  IInv'
<1> USE DEF IInv
<1> DEFINE p == parent[i]
           x == Child(i, p, nextId)
<1>1. /\ nextId <= MaxId
      /\ own' = [own EXCEPT ![i] = Over(@, Single(nextId, x))]
      /\ UNCHANGED <<cats, attrs, nextAttr, links, snap, attr, counts, root, parent, done,
                     memo, leaves, overlap>>
      /\ pc[i] = "walk" /\ pc'[i] = "count" /\ p \in Visible(i)
      /\ \A j \in Import \ {i} : pc'[j] = pc[j]
  BY DEF CreateChild, Unresolved, Walking, Goto, TypeOK, walk, WalkInv, Walks
<1>2. x \in Category
  BY <1>1, ChildType DEF CreateChild
<1>3. /\ x.count = 0 /\ x.parent = p
      /\ x.path = Append(Cat(i, p).path, nextId)
      /\ x.level = Cat(i, p).level + 1
  BY DEF Child
<1> HIDE DEF x
<1>4. /\ nextId \in Nat \ {0} /\ nextId \notin DOMAIN cats
      /\ \A j \in Import : nextId \notin DOMAIN own[j] /\ nextId \notin DOMAIN counts[j]
                           /\ nextId \notin Visible(j)
      /\ DOMAIN own'[i] = DOMAIN own[i] \cup {nextId}
      /\ own'[i][nextId] = x
      /\ \A id \in DOMAIN own[i] : own'[i][id] = own[i][id]
      /\ \A j \in Import \ {i} : own'[j] = own[j]
      /\ Visible(i)' = Visible(i) \cup {nextId}
      /\ \A id \in Visible(i) : Cat(i, id)' = Cat(i, id)
  BY <1>1, <1>2, NewCategory
<1>5. WalkInv'
  BY <1>1, <1>4 DEF WalkInv, Walks, Visible, Active
<1>6. OwnInv'
  <2> SUFFICES ASSUME NEW j \in Import, NEW id \in DOMAIN own'[j]
               PROVE  /\ own'[j][id].count = 0
                      /\ own'[j][id].parent # 0 =>
                           /\ own'[j][id].parent \in Visible(j)'
                           /\ own'[j][id].path = Append(Cat(j, own[j][id].parent)'.path, id)
                           /\ own'[j][id].level = Cat(j, own[j][id].parent)'.level + 1
    BY DEF OwnInv
  <2>1. CASE j = i /\ id = nextId
    BY <1>1, <1>3, <1>4, <2>1
  <2>2. CASE j = i /\ id # nextId
    BY <1>4, <2>2 DEF OwnInv
  <2>3. CASE j # i
    BY <1>1, <1>4, <2>3 DEF OwnInv, Visible, Cat
  <2> QED BY <2>1, <2>2, <2>3
<1>7. Apart' /\ PathsExtend(cats)' /\ CountsAdd(cats)'
  BY <1>1, <1>4 DEF Apart, PathsExtend, CountsAdd, Children
<1>8. CountInv'
  <2> SUFFICES ASSUME NEW j \in Import, NEW id \in DOMAIN cats \cup DOMAIN own'[j]
               PROVE  CountOf(j, id)' + Uncounted(j, id)' =
                        Cat(j, id)'.count + Cardinality(Children(own'[j], id))
    BY <1>1 DEF CountInv
  <2>1. CASE j # i
    <3>1. /\ CountOf(j, id)' = CountOf(j, id) /\ Cat(j, id)' = Cat(j, id)
          /\ Uncounted(j, id)' = Uncounted(j, id) /\ own'[j] = own[j]
      BY <1>1, <1>4, <2>1 DEF CountOf, Cat, Uncounted
    <3> QED BY <3>1 DEF CountInv
  <2>2. CASE j = i /\ id = nextId
    <3>1. \A k \in DOMAIN own[i] : own[i][k].parent # nextId
      BY <1>4 DEF OwnInv
    <3>2. Children(own'[i], id) = {}
      BY <1>1, <1>3, <1>4, <2>2, <3>1 DEF Children
    <3>3. CountOf(i, id)' = 0 /\ Uncounted(i, id)' = 0 /\ Cat(i, id)'.count = 0
      BY <1>1, <1>3, <1>4, <2>2 DEF CountOf, Cat, Uncounted
    <3> QED BY <2>2, <3>2, <3>3, NoChildren
  <2>3. CASE j = i /\ id # nextId
    <3>1. id \in DOMAIN cats \cup DOMAIN own[i]
      BY <1>4, <2>3
    <3>2. CountOf(i, id)' = CountOf(i, id) /\ Cat(i, id)' = Cat(i, id)
      BY <1>1, <1>4, <2>3, <3>1 DEF CountOf, Cat
    <3>3. CountOf(i, id) = Cat(i, id).count + Cardinality(Children(own[i], id))
      <4>1. Uncounted(i, id) = 0
        BY <1>1 DEF Uncounted
      <4> QED BY <3>1, <4>1, CountTypes DEF CountInv
    <3>4. CASE id = p
      <4>1. Children(own'[i], id) = Children(own[i], id) \cup {nextId}
        BY <1>3, <1>4, <3>4 DEF Children
      <4>2. nextId \notin Children(own[i], id)
        BY <1>4 DEF Children
      <4>3. Cardinality(Children(own'[i], id)) = Cardinality(Children(own[i], id)) + 1
        BY <4>1, <4>2, ChildrenFinite, FS_AddElement
      <4>4. Uncounted(i, id)' = 1
        BY <1>1, <3>4 DEF Uncounted
      <4> QED BY <2>3, <3>1, <3>2, <3>3, <4>3, <4>4, CountTypes, ChildrenFinite
    <3>5. CASE id # p
      <4>1. Children(own'[i], id) = Children(own[i], id)
        BY <1>3, <1>4, <3>5 DEF Children
      <4>2. Uncounted(i, id)' = 0
        BY <1>1, <3>5 DEF Uncounted
      <4> QED BY <2>3, <3>1, <3>2, <3>3, <4>1, <4>2, CountTypes, ChildrenFinite
    <3> QED BY <3>4, <3>5
  <2> QED BY <2>1, <2>2, <2>3
<1> QED BY <1>5, <1>6, <1>7, <1>8, CreateChildType

LEMMA CountParentInv ==
    ASSUME IInv, NEW i \in Import, CountParent(i)
    PROVE  IInv'
<1> USE DEF IInv
<1> DEFINE p == parent[i]
<1>1. /\ pc[i] = "count" /\ pc'[i] = "walk" /\ p \in Visible(i)
      /\ \A j \in Import \ {i} : /\ pc'[j] = pc[j] /\ parent'[j] = parent[j]
                              /\ counts'[j] = counts[j]
      /\ \A j \in Import \ {i} : p \notin DOMAIN counts[j]
      /\ UNCHANGED <<cats, nextId, attrs, nextAttr, links, snap, attr, own, root, memo,
                     leaves, overlap>>
  BY DEF CountParent, ParentLocked, IncrementParent, Goto, TypeOK, shared, WalkInv, Walks
<1>2. /\ parent'[i] \in DOMAIN own[i]
      /\ DOMAIN counts'[i] = DOMAIN counts[i] \cup {p}
      /\ counts'[i][p] = CountOf(i, p) + 1
      /\ \A id \in DOMAIN counts[i] : id # p => counts'[i][id] = counts[i][id]
      /\ TypeOK'
  BY CountParentType
<1> HIDE DEF p
<1>3. WalkInv'
  BY <1>1, <1>2 DEF WalkInv, Walks, Visible, Active
<1>4. OwnInv' /\ PathsExtend(cats)' /\ CountsAdd(cats)'
  BY <1>1 DEF OwnInv, Visible, Cat, PathsExtend, CountsAdd, Children
<1>5. Apart'
  BY <1>1, <1>2 DEF Apart
<1>6. CountInv'
  <2> SUFFICES ASSUME NEW j \in Import, NEW id \in DOMAIN cats \cup DOMAIN own[j]
               PROVE  CountOf(j, id)' + Uncounted(j, id)' =
                        Cat(j, id)'.count + Cardinality(Children(own[j], id))
    BY <1>1 DEF CountInv
  <2>1. Cat(j, id)' = Cat(j, id)
    BY <1>1 DEF Cat
  <2>2. CountOf(j, id) + Uncounted(j, id) =
          Cat(j, id).count + Cardinality(Children(own[j], id))
    BY DEF CountInv
  <2>3. CountOf(j, id) \in Nat /\ Cat(j, id).count \in Nat
    BY CountTypes
  <2>4. CASE j # i
    <3>1. CountOf(j, id)' = CountOf(j, id) /\ Uncounted(j, id)' = Uncounted(j, id)
      BY <1>1, <2>1, <2>4 DEF CountOf, Uncounted
    <3> QED BY <2>1, <2>2, <3>1
  <2>5. CASE j = i /\ id = p
    <3>1. CountOf(i, id)' = CountOf(i, id) + 1
      BY <1>2, <2>5 DEF CountOf
    <3>2. Uncounted(i, id) = 1 /\ Uncounted(i, id)' = 0
      BY <1>1, <2>5 DEF Uncounted, p
    <3> QED BY <2>1, <2>2, <2>3, <2>5, <3>1, <3>2
  <2>6. CASE j = i /\ id # p
    <3>1. CountOf(i, id)' = CountOf(i, id)
      BY <1>2, <2>1, <2>6 DEF CountOf
    <3>2. Uncounted(i, id) = 0 /\ Uncounted(i, id)' = 0
      BY <1>1, <2>6 DEF Uncounted, p
    <3> QED BY <2>1, <2>2, <2>6, <3>1, <3>2
  <2> QED BY <2>4, <2>5, <2>6
<1> QED BY <1>2, <1>3, <1>4, <1>5, <1>6

LEMMA RollBackInv ==
    ASSUME IInv, NEW i \in Import, RollBack(i)
    PROVE  IInv'
<1> USE DEF IInv
<1>1. /\ pc'[i] = "failed" /\ \A j \in Import \ {i} : pc'[j] = pc[j]
      /\ own'[i] = None /\ counts'[i] = None
      /\ \A j \in Import \ {i} : own'[j] = own[j] /\ counts'[j] = counts[j]
      /\ UNCHANGED <<cats, nextAttr, snap, attr, root, parent, memo, leaves>>
  BY DEF RollBack, Goto, TypeOK, shared, walk
<1>2. DOMAIN own'[i] = {} /\ DOMAIN counts'[i] = {}
  BY <1>1, NoneIsEmpty
<1>3. WalkInv'
  BY <1>1, <1>2 DEF WalkInv, Walks, Visible, Active
<1>4. OwnInv'
  <2>1. \A j \in Import \ {i} :
          own'[j] = own[j] /\ Visible(j)' = Visible(j) /\ \A id : Cat(j, id)' = Cat(j, id)
    BY <1>1 DEF Visible, Cat
  <2> SUFFICES ASSUME NEW j \in Import, NEW id \in DOMAIN own'[j]
               PROVE  /\ own'[j][id].count = 0
                      /\ own'[j][id].parent # 0 =>
                           /\ own'[j][id].parent \in Visible(j)'
                           /\ own'[j][id].path = Append(Cat(j, own[j][id].parent)'.path, id)
                           /\ own'[j][id].level = Cat(j, own[j][id].parent)'.level + 1
    BY DEF OwnInv
  <2>2. j \in Import \ {i} /\ own'[j] = own[j]
    BY <1>2, <2>1
  <2> QED BY <2>1, <2>2 DEF OwnInv
<1>5. Apart' /\ PathsExtend(cats)' /\ CountsAdd(cats)'
  BY <1>1, <1>2 DEF Apart, PathsExtend, CountsAdd, Children
<1>6. CountInv'
  <2> SUFFICES ASSUME NEW j \in Import, NEW id \in DOMAIN cats \cup DOMAIN own'[j]
               PROVE  CountOf(j, id)' + Uncounted(j, id)' =
                        Cat(j, id)'.count + Cardinality(Children(own'[j], id))
    BY <1>1 DEF CountInv
  <2>1. CASE j = i
    <3>1. Children(own'[i], id) = {}
      BY <1>2 DEF Children
    <3>2. CountOf(i, id)' = Cat(i, id)'.count /\ Uncounted(i, id)' = 0
      BY <1>1, <1>2 DEF CountOf, Uncounted
    <3>3. Cat(i, id)'.count \in Nat
      BY <1>1, <1>2, <2>1 DEF Cat, TypeOK, Category
    <3> QED BY <2>1, <3>1, <3>2, <3>3, NoChildren
  <2>2. CASE j # i
    <3>1. /\ CountOf(j, id)' = CountOf(j, id) /\ Cat(j, id)' = Cat(j, id)
          /\ Uncounted(j, id)' = Uncounted(j, id) /\ own'[j] = own[j]
      BY <1>1, <2>2 DEF CountOf, Cat, Uncounted
    <3> QED BY <1>1, <3>1 DEF CountInv
  <2> QED BY <2>1, <2>2
<1> QED BY <1>3, <1>4, <1>5, <1>6, RollBackType

LEMMA CommitInv ==
    ASSUME IInv, NEW i \in Import, Commit(i)
    PROVE  IInv'
<1> USE DEF IInv
<1>1. /\ DOMAIN cats' = DOMAIN cats \cup DOMAIN own[i]
      /\ \A id \in DOMAIN cats' :
           /\ cats'[id].parent = Cat(i, id).parent
           /\ cats'[id].path = Cat(i, id).path
           /\ cats'[id].level = Cat(i, id).level
           /\ cats'[id].count = CountOf(i, id)
      /\ own'[i] = None /\ counts'[i] = None
      /\ \A j \in Import \ {i} : own'[j] = own[j] /\ counts'[j] = counts[j]
      /\ pc[i] = "walk" /\ pc'[i] = "ok"
      /\ \A j \in Import \ {i} : pc'[j] = pc[j]
      /\ UNCHANGED <<nextId, nextAttr, snap, attr, root, parent, done, memo, leaves, overlap>>
  <2>1. pc[i] = "walk" /\ pc' = [pc EXCEPT ![i] = "ok"]
    BY CommitCats
  <2>2. pc'[i] = "ok" /\ \A j \in Import \ {i} : pc'[j] = pc[j]
    BY <2>1 DEF TypeOK
  <2> QED BY <2>1, <2>2, CommitCats
<1>2. DOMAIN own'[i] = {} /\ DOMAIN counts'[i] = {}
  BY <1>1, NoneIsEmpty
<1>3. \A id \in DOMAIN cats : /\ Cat(i, id) = cats[id]
                              /\ id \notin DOMAIN own[i]
                              /\ \A j \in Import : id \notin DOMAIN own[j]
  BY DEF Cat, TypeOK
<1>4. WalkInv'
  BY <1>1, <1>2 DEF WalkInv, Walks, Visible, Active
<1>5. Apart'
  BY <1>1, <1>2 DEF Apart
\* What another import sees of the table is not changed but for the counts.
<1>6. \A j \in Import \ {i} : \A id \in Visible(j) :
        /\ Cat(j, id)'.path = Cat(j, id).path
        /\ Cat(j, id)'.level = Cat(j, id).level
  BY <1>1, <1>3 DEF Visible, Cat, TypeOK
<1>7. OwnInv'
  <2> SUFFICES ASSUME NEW j \in Import, NEW id \in DOMAIN own'[j]
               PROVE  /\ own'[j][id].count = 0
                      /\ own'[j][id].parent # 0 =>
                           /\ own'[j][id].parent \in Visible(j)'
                           /\ own'[j][id].path = Append(Cat(j, own[j][id].parent)'.path, id)
                           /\ own'[j][id].level = Cat(j, own[j][id].parent)'.level + 1
    BY DEF OwnInv
  <2>1. j # i /\ own'[j] = own[j] /\ Visible(j)' = Visible(j)
    BY <1>1, <1>2 DEF Visible
  <2> DEFINE up == own[j][id].parent
  <2>2. own[j][id].count = 0
    BY <2>1 DEF OwnInv
  <2>3. ASSUME up # 0
        PROVE  /\ up \in Visible(j)
               /\ own[j][id].path = Append(Cat(j, up).path, id)
               /\ own[j][id].level = Cat(j, up).level + 1
    BY <2>1, <2>3 DEF OwnInv
  <2>4. own'[j][id].parent = up
    BY <2>1
  <2>5. ASSUME up # 0
        PROVE  Cat(j, own[j][id].parent)'.path = Cat(j, up).path
               /\ Cat(j, own[j][id].parent)'.level = Cat(j, up).level
    <3>1. \A k \in Visible(j) : /\ Cat(j, k)'.path = Cat(j, k).path
                                /\ Cat(j, k)'.level = Cat(j, k).level
      BY <1>6, <2>1
    <3>2. Cat(j, own[j][id].parent)' = IF up \in DOMAIN own[j] THEN own[j][up] ELSE cats'[up]
      BY <2>1 DEF Cat
    <3>3. Cat(j, up).path = (IF up \in DOMAIN own[j] THEN own[j][up] ELSE cats[up]).path
      BY DEF Cat
    <3>4. ASSUME up \notin DOMAIN own[j]
          PROVE  cats'[up].path = cats[up].path /\ cats'[up].level = cats[up].level
      <4>1. up \in DOMAIN cats
        BY <2>3, <2>5, <3>4 DEF Visible, TypeOK
      <4> QED BY <1>1, <1>3, <4>1
    <3> QED BY <3>2, <3>4 DEF Cat
  <2> QED BY <2>1, <2>2, <2>3, <2>4, <2>5
<1>8. PathsExtend(cats)'
  <2> SUFFICES ASSUME NEW id \in DOMAIN cats', cats'[id].parent # 0
               PROVE  /\ cats'[id].parent \in DOMAIN cats'
                      /\ cats'[id].path = Append(cats'[cats'[id].parent].path, id)
                      /\ cats'[id].level = cats'[cats'[id].parent].level + 1
    BY DEF PathsExtend
  <2>1. CASE id \in DOMAIN cats
    <3>1. /\ cats'[id].parent = cats[id].parent /\ cats'[id].path = cats[id].path
          /\ cats'[id].level = cats[id].level
      BY <1>1, <1>3, <2>1
    <3> DEFINE up == cats[id].parent
    <3>2. /\ up \in DOMAIN cats
          /\ cats[id].path = Append(cats[up].path, id)
          /\ cats[id].level = cats[up].level + 1
      BY <2>1, <3>1 DEF PathsExtend
    <3>3. /\ up \in DOMAIN cats' /\ cats'[up].path = cats[up].path
          /\ cats'[up].level = cats[up].level
      BY <1>1, <1>3, <3>2
    <3> QED BY <3>1, <3>2, <3>3
  <2>2. CASE id \in DOMAIN own[i]
    <3>1. /\ cats'[id].parent = own[i][id].parent /\ cats'[id].path = own[i][id].path
          /\ cats'[id].level = own[i][id].level
      BY <1>1, <2>2 DEF Cat
    <3> DEFINE up == own[i][id].parent
    <3>2. /\ up \in Visible(i)
          /\ own[i][id].path = Append(Cat(i, up).path, id)
          /\ own[i][id].level = Cat(i, up).level + 1
      BY <2>2, <3>1 DEF OwnInv
    <3>3. up \in DOMAIN cats'
      BY <1>1, <3>2 DEF Visible, TypeOK
    <3>4. cats'[up].path = Cat(i, up).path /\ cats'[up].level = Cat(i, up).level
      BY <1>1, <3>3
    <3> QED BY <3>1, <3>2, <3>3, <3>4
  <2> QED BY <1>1, <2>1, <2>2
<1>9. CountsAdd(cats)'
  <2> SUFFICES ASSUME NEW id \in DOMAIN cats \cup DOMAIN own[i]
               PROVE  cats'[id].count = Cardinality(Children(cats', id))
    BY <1>1 DEF CountsAdd
  <2>1. Children(cats', id) = Children(cats, id) \cup Children(own[i], id)
    <3>1. \A k \in DOMAIN cats : k \in DOMAIN cats' /\ cats'[k].parent = cats[k].parent
      BY <1>1, <1>3
    <3>2. \A k \in DOMAIN own[i] : k \in DOMAIN cats' /\ cats'[k].parent = own[i][k].parent
      BY <1>1 DEF Cat
    <3> QED BY <1>1, <3>1, <3>2 DEF Children
  <2>2. Children(cats, id) \cap Children(own[i], id) = {}
    BY DEF Children, TypeOK
  <2>3. Cardinality(Children(cats', id)) =
          Cardinality(Children(cats, id)) + Cardinality(Children(own[i], id))
    <3>1. Cardinality({}) = 0
      BY NoChildren
    <3>2. /\ IsFiniteSet(Children(own[i], id)) /\ IsFiniteSet(Children(cats, id))
          /\ Cardinality(Children(own[i], id)) \in Nat
          /\ Cardinality(Children(cats, id)) \in Nat
      BY ChildrenFinite
    <3>3. Cardinality(Children(cats, id) \cup Children(own[i], id)) =
            Cardinality(Children(cats, id)) + Cardinality(Children(own[i], id))
              - Cardinality(Children(cats, id) \cap Children(own[i], id))
      BY <3>2, FS_Union
    <3>4. Cardinality(Children(cats, id) \cap Children(own[i], id)) = 0
      BY <2>2, <3>1
    <3>5. \A a, b \in Nat : a + b - 0 = a + b
      OBVIOUS
    <3> QED BY <2>1, <3>2, <3>3, <3>4, <3>5
  <2>4. CountOf(i, id) = Cat(i, id).count + Cardinality(Children(own[i], id))
    <3>1. Uncounted(i, id) = 0
      BY <1>1 DEF Uncounted
    <3> QED BY <3>1, CountTypes DEF CountInv
  <2>5. Cat(i, id).count = Cardinality(Children(cats, id))
    <3>1. CASE id \in DOMAIN cats
      BY <1>3, <3>1 DEF CountsAdd
    <3>2. CASE id \in DOMAIN own[i]
      <4>1. Cat(i, id).count = 0
        BY <3>2 DEF OwnInv, Cat
      <4>2. id \notin DOMAIN cats /\ id # 0
        BY <3>2 DEF TypeOK
      <4>3. Children(cats, id) = {}
        BY <4>2 DEF Children, PathsExtend
      <4> QED BY <4>1, <4>3, NoChildren
    <3> QED BY <3>1, <3>2
  <2> QED BY <1>1, <2>3, <2>4, <2>5
<1>10. CountInv'
  <2> SUFFICES ASSUME NEW j \in Import, NEW id \in DOMAIN cats' \cup DOMAIN own'[j]
               PROVE  CountOf(j, id)' + Uncounted(j, id)' =
                        Cat(j, id)'.count + Cardinality(Children(own'[j], id))
    BY DEF CountInv
  <2>0. TypeOK'
    BY CommitType
  <2>1. Cat(j, id)'.count \in Nat
    BY <2>0 DEF TypeOK, Cat, Category
  <2>2. CASE j = i
    <3>1. Children(own'[i], id) = {}
      BY <1>2 DEF Children
    <3>2. CountOf(i, id)' = Cat(i, id)'.count /\ Uncounted(i, id)' = 0
      BY <1>1, <1>2 DEF CountOf, Uncounted
    <3> QED BY <2>1, <2>2, <3>1, <3>2, NoChildren
  <2>3. CASE j # i
    <3>1. own'[j] = own[j] /\ counts'[j] = counts[j] /\ Uncounted(j, id)' = Uncounted(j, id)
      BY <1>1, <2>3 DEF Uncounted
    <3>2. CASE id \in DOMAIN own[j]
      <4>1. Cat(j, id)' = Cat(j, id) /\ CountOf(j, id)' = CountOf(j, id)
        BY <3>1, <3>2 DEF Cat, CountOf
      <4> QED BY <3>1, <3>2, <4>1 DEF CountInv
    <3>3. CASE id \in DOMAIN cats /\ id \in DOMAIN counts[j]
      <4>1. id \notin DOMAIN own[j] /\ id \notin DOMAIN counts[i]
        BY <1>3, <2>3, <3>3 DEF Apart
      <4>2. cats'[id].count = cats[id].count
        BY <1>1, <1>3, <3>3, <4>1 DEF CountOf
      <4>3. Cat(j, id)'.count = Cat(j, id).count /\ CountOf(j, id)' = CountOf(j, id)
        BY <3>1, <3>3, <4>1, <4>2 DEF Cat, CountOf
      <4> QED BY <3>1, <3>3, <4>3 DEF CountInv
    \* An import that does not count children of id has none there.
    <3>4. CASE id \in DOMAIN cats' \ (DOMAIN counts[j] \cup DOMAIN own[j])
      <4>1. CountOf(j, id)' = Cat(j, id)'.count
        BY <3>1, <3>4 DEF CountOf
      <4>2. Uncounted(j, id) = Cardinality(Children(own[j], id))
        <5>1. CASE id \in DOMAIN cats
          <6>1. CountOf(j, id) = Cat(j, id).count
            BY <3>4 DEF CountOf
          <6>2. Uncounted(j, id) \in Nat /\ Cardinality(Children(own[j], id)) \in Nat
            BY ChildrenFinite DEF Uncounted
          <6>3. CountOf(j, id) + Uncounted(j, id) =
                  Cat(j, id).count + Cardinality(Children(own[j], id))
            BY <5>1 DEF CountInv
          <6> QED BY <5>1, <6>1, <6>2, <6>3, CountTypes
        <5>2. CASE id \in DOMAIN own[i]
          <6>1. id \notin Visible(j) /\ id # 0
            BY <3>4, <5>2 DEF Visible, TypeOK
          <6>2. Children(own[j], id) = {}
            BY <6>1 DEF OwnInv, Children
          <6>3. Uncounted(j, id) = 0
            BY <6>1 DEF Uncounted, WalkInv, Walks
          <6> QED BY <6>2, <6>3, NoChildren
        <5> QED BY <1>1, <3>4, <5>1, <5>2
      <4> QED BY <2>1, <3>1, <4>1, <4>2
    <3>5. \/ id \in DOMAIN own[j]
          \/ id \in DOMAIN cats /\ id \in DOMAIN counts[j]
          \/ id \in DOMAIN cats' \ (DOMAIN counts[j] \cup DOMAIN own[j])
      BY <1>1, <2>3, <3>1 DEF TypeOK, Apart
    <3> QED BY <3>2, <3>3, <3>4, <3>5
  <2> QED BY <2>2, <2>3
<1> QED BY <1>4, <1>5, <1>7, <1>8, <1>9, <1>10, CommitType

LEMMA InitInv == Init => IInv
<1> SUFFICES ASSUME Init PROVE IInv
  OBVIOUS
<1>1. PICK n \in 0 .. MaxId : DOMAIN cats = 1 .. n
  BY CategoryImportAssumption DEF Init
<1>2. MaxId \in Nat /\ n \in Nat /\ n <= MaxId
  BY <1>1, CategoryImportAssumption
<1>3. Cardinality(1 .. n) = n
  <2>1. Cardinality(1 .. n) = IF 1 > n THEN 0 ELSE n - 1 + 1
    BY <1>2, FS_Interval
  <2> QED BY <1>2, <2>1
<1>4. nextId = n + 1
  BY <1>1, <1>3 DEF Init
<1>5. TypeOK
  <2>1. /\ nextId \in 1 .. MaxId + 1 /\ DOMAIN cats \subseteq 1 .. nextId - 1
        /\ cats \in [DOMAIN cats -> Category]
    BY <1>1, <1>2, <1>4, CategoryImportAssumption DEF Init
  <2>2. nextAttr \in Nat \ {0} /\ attrs \subseteq 1 .. nextAttr - 1
    BY DEF Init
  <2>3. \A i \in Import : /\ own[i] = None /\ counts[i] = None /\ memo[i] = None
                          /\ leaves[i] = <<>>
                          /\ Assignments[i] \in Seq([product : Product, path : Paths(i)])
    BY CategoryImportAssumption DEF Init
  <2>4. \A i \in Import : Len(leaves[i]) <= Len(Assignments[i])
    <3> TAKE i \in Import
    <3>1. leaves[i] = <<>> /\ Assignments[i] \in Seq([product : Product, path : Paths(i)])
      BY <2>3
    <3>2. Len(leaves[i]) = 0
      BY <3>1
    <3>3. Len(Assignments[i]) \in Nat
      BY <3>1
    <3> QED BY <3>2, <3>3
  <2>5. leaves \in [Import -> Seq(Id)]
    BY DEF Init
  <2> QED BY <2>1, <2>2, <2>3, <2>4, <2>5, NoneIsEmpty DEF Init, TypeOK
<1>6. \A i \in Import : DOMAIN own[i] = {} /\ DOMAIN counts[i] = {} /\ DOMAIN memo[i] = {}
  BY NoneIsEmpty DEF Init
<1>7. WalkInv /\ OwnInv /\ Apart
  BY <1>6 DEF Init, WalkInv, Walks, OwnInv, Apart, Active
<1>8. PathsExtend(cats) /\ CountsAdd(cats)
  BY CategoryImportAssumption DEF Init
<1>9. CountInv
  <2> SUFFICES ASSUME NEW i \in Import, NEW id \in DOMAIN cats \cup DOMAIN own[i]
               PROVE  CountOf(i, id) + Uncounted(i, id) =
                        Cat(i, id).count + Cardinality(Children(own[i], id))
    BY DEF CountInv
  <2>1. Children(own[i], id) = {}
    BY <1>6 DEF Children
  <2>2. CountOf(i, id) = Cat(i, id).count /\ Uncounted(i, id) = 0
    BY <1>6 DEF CountOf, Uncounted, Init
  <2>3. Cat(i, id).count \in Nat
    BY <1>5, <1>6 DEF TypeOK, Cat, Category
  <2> QED BY <2>1, <2>2, <2>3, NoChildren
<1> QED BY <1>5, <1>7, <1>8, <1>9 DEF IInv

LEMMA Invariance == Spec => []IInv
<1>1. IInv /\ [Next]_vars => IInv'
  <2> SUFFICES ASSUME IInv, [Next]_vars PROVE IInv'
    OBVIOUS
  <2>1. ASSUME NEW i \in Import, Begin(i) \/ Walk(i) \/ LockRefused(i) \/ Fails(i)
        PROVE  IInv'
    BY <2>1, BeginInv, WalkInvStep, CreateRootInv, CreateChildInv, CountParentInv,
       CommitInv, RollBackInv
       DEF Walk, LockRefused, Fails
  <2>2. CASE UNCHANGED vars
    <3> USE <2>2 DEF vars, IInv
    <3>1. TypeOK'
      BY DEF TypeOK
    <3>2. WalkInv' /\ OwnInv' /\ Apart'
      BY DEF WalkInv, Walks, OwnInv, Apart, Visible, Cat
    <3>3. PathsExtend(cats)' /\ CountsAdd(cats)' /\ CountInv'
      BY DEF PathsExtend, CountsAdd, Children, CountInv, CountOf, Uncounted, Cat
    <3> QED BY <3>1, <3>2, <3>3
  <2> QED BY <2>1, <2>2 DEF Next
<1> QED BY <1>1, InitInv, PTL DEF Spec

\* The category table is a tree with right paths and levels, whatever imports
\* add to it at once and whichever of them roll back.
THEOREM PathsAreRight == Spec => [](TypeOK /\ PathsExtendTheParents)
<1>1. IInv => TypeOK /\ PathsExtendTheParents
  BY DEF IInv, PathsExtendTheParents
<1> QED BY <1>1, Invariance, PTL

\* No increment of a children_count is lost and none is left behind.
THEOREM CountsAreRight == Spec => []ChildrenAreCounted
<1>1. IInv => ChildrenAreCounted
  BY DEF IInv, ChildrenAreCounted
<1> QED BY <1>1, Invariance, PTL

-----------------------------------------------------------------------------
(* Links name their path: the invariant. *)

All(i) == DOMAIN cats \cup DOMAIN own[i]

\* The names on i's way down to a category.
SpelledBy(i, id) == [n \in 1 .. Cat(i, id).level |-> Cat(i, Cat(i, id).path[n + 1]).name]

OwnSpell(i) ==
    \A id \in DOMAIN own[i] :
        /\ Len(own[i][id].path) = own[i][id].level + 1
        /\ own[i][id].parent = 0 => own[i][id].level = 0
        /\ \A n \in 2 .. Len(own[i][id].path) : own[i][id].path[n] \in All(i)

\* The category a walk has come to is spelled as far as it has walked.
WalkSpells(i) ==
    /\ Cat(i, root[i]).parent = 0
    /\ Len(leaves[i]) < Len(Assignments[i]) =>
         /\ done[i] <= Len(Path(i))
         /\ SpelledBy(i, parent[i]) = SubSeq(Path(i), 1, done[i])
    /\ \A p \in DOMAIN memo[i] : SpelledBy(i, memo[i][p]) = p
    /\ \A n \in DOMAIN leaves[i] : SpelledBy(i, leaves[i][n]) = Assignments[i][n].path

\* The category last inserted is the next on the way.
ChildSpells(i) ==
    /\ Len(leaves[i]) < Len(Assignments[i]) /\ done[i] < Len(Path(i))
    /\ \E m \in DOMAIN own[i] : /\ \A k \in DOMAIN own[i] : k <= m
                                /\ own[i][m].parent = parent[i]
                                /\ own[i][m].name = Segment(i)

\* What has been committed stays linked.
LeavesLinked(i) ==
    /\ Len(leaves[i]) = Len(Assignments[i])
    /\ \A n \in DOMAIN leaves[i] :
         /\ <<leaves[i][n], Assignments[i][n].product>> \in links
         /\ Spelled(leaves[i][n]) = Assignments[i][n].path

NamesOf(i) ==
    /\ OwnSpell(i)
    /\ pc[i] \in {"idle", "root"} => done[i] = 0
    /\ Walks(i) => WalkSpells(i)
    /\ pc[i] = "count" => ChildSpells(i)
    /\ pc[i] = "ok" => LeavesLinked(i)

LinksAssigned ==
    \A l \in links : \E i \in Import : \E k \in DOMAIN Assignments[i] :
        /\ l[2] = Assignments[i][k].product
        /\ Spelled(l[1]) = Assignments[i][k].path

NameInv == PathsSpell(cats) /\ LinksAssigned /\ \A i \in Import : NamesOf(i)

\* A category that i sees, or another import has committed meanwhile, has an id
\* on its path for each level, all of them there.
LEMMA Shape ==
    ASSUME IInv, NameInv, NEW i \in Import, NEW id \in All(i)
    PROVE  /\ id \in Id /\ Cat(i, id) \in Category
           /\ Len(Cat(i, id).path) = Cat(i, id).level + 1
           /\ Cat(i, id).parent = 0 => Cat(i, id).level = 0
           /\ \A n \in 1 .. Cat(i, id).level : Cat(i, id).path[n + 1] \in All(i)
           /\ Cat(i, id).parent # 0 =>
                /\ Cat(i, id).parent \in All(i)
                /\ Cat(i, id).path = Append(Cat(i, Cat(i, id).parent).path, id)
                /\ Cat(i, id).level = Cat(i, Cat(i, id).parent).level + 1
<1>1. Cat(i, id) \in Category
  BY DEF IInv, TypeOK, Cat, All
<1>2. id \in Id
  <2>1. MaxId \in Nat
    BY CategoryImportAssumption
  <2>2. id \in 1 .. nextId - 1 /\ nextId \in 1 .. MaxId + 1
    BY DEF IInv, TypeOK, All
  <2> QED BY <2>1, <2>2 DEF Id
<1>3. /\ Len(Cat(i, id).path) = Cat(i, id).level + 1
      /\ Cat(i, id).parent = 0 => Cat(i, id).level = 0
      /\ \A n \in 2 .. Len(Cat(i, id).path) : Cat(i, id).path[n] \in All(i)
  <2>1. CASE id \in DOMAIN own[i]
    BY <2>1 DEF NameInv, NamesOf, OwnSpell, Cat
  <2>2. CASE id \in DOMAIN cats /\ id \notin DOMAIN own[i]
    BY <2>2 DEF NameInv, PathsSpell, Cat, All
  <2> QED BY <2>1, <2>2 DEF All
<1>4. \A n \in 1 .. Cat(i, id).level : Cat(i, id).path[n + 1] \in All(i)
  <2>1. Cat(i, id).level \in Nat
    BY <1>1 DEF Category
  <2>2. \A n \in 1 .. Cat(i, id).level : n + 1 \in 2 .. Len(Cat(i, id).path)
    BY <1>3, <2>1
  <2> QED BY <1>3, <2>2
<1>5. ASSUME Cat(i, id).parent # 0
      PROVE  /\ Cat(i, id).parent \in All(i)
             /\ Cat(i, id).path = Append(Cat(i, Cat(i, id).parent).path, id)
             /\ Cat(i, id).level = Cat(i, Cat(i, id).parent).level + 1
  <2>1. CASE id \in DOMAIN own[i]
    <3>1. snap[i] \subseteq DOMAIN cats
      BY DEF IInv, TypeOK
    <3>2. Cat(i, id) = own[i][id]
      BY <2>1 DEF Cat
    <3> QED BY <1>5, <2>1, <3>1, <3>2 DEF IInv, OwnInv, All, Visible
  <2>2. CASE id \in DOMAIN cats /\ id \notin DOMAIN own[i]
    <3>1. Cat(i, id) = cats[id]
      BY <2>2 DEF Cat
    <3>2. cats[id].parent \in DOMAIN cats
      BY <1>5, <2>2, <3>1 DEF IInv, PathsExtend
    <3>3. cats[id].parent \notin DOMAIN own[i]
      BY <3>2 DEF IInv, TypeOK
    <3>4. Cat(i, cats[id].parent) = cats[cats[id].parent]
      BY <3>3 DEF Cat
    <3> QED BY <1>5, <2>2, <3>1, <3>2, <3>4 DEF IInv, PathsExtend, All
  <2> QED BY <2>1, <2>2 DEF All
<1> QED BY <1>1, <1>2, <1>3, <1>4, <1>5

LEMMA SpelledIsSeq ==
    ASSUME IInv, NameInv, NEW i \in Import, NEW id \in All(i)
    PROVE  /\ SpelledBy(i, id) \in Seq(Name \cup {NoName})
           /\ Len(SpelledBy(i, id)) = Cat(i, id).level
           /\ Cat(i, id).level \in Nat
<1>1. /\ Cat(i, id).level \in Nat
      /\ \A n \in 1 .. Cat(i, id).level : Cat(i, id).path[n + 1] \in All(i)
  BY Shape DEF Category
<1>2. \A k \in All(i) : Cat(i, k).name \in Name \cup {NoName}
  BY Shape DEF Category
<1>3. \A n \in 1 .. Cat(i, id).level :
        Cat(i, Cat(i, id).path[n + 1]).name \in Name \cup {NoName}
  BY <1>1, <1>2
<1> QED BY <1>1, <1>3 DEF SpelledBy

\* A root spells nothing.
LEMMA SpelledOfRoot ==
    ASSUME IInv, NameInv, NEW i \in Import, NEW id \in All(i), Cat(i, id).parent = 0
    PROVE  SpelledBy(i, id) = <<>>
<1>1. Cat(i, id).level = 0
  BY Shape
<1> QED BY <1>1, SpelledIsSeq

\* A child spells what its parent spells and its own name.
LEMMA SpelledExtends ==
    ASSUME IInv, NameInv, NEW i \in Import, NEW id \in All(i), Cat(i, id).parent # 0
    PROVE  SpelledBy(i, id) = Append(SpelledBy(i, Cat(i, id).parent), Cat(i, id).name)
<1> DEFINE up == Cat(i, id).parent
           L  == Cat(i, up).level
           s  == SpelledBy(i, up)
           nm == Cat(i, id).name
<1>1. /\ up \in All(i) /\ L \in Nat /\ Cat(i, id).level = L + 1
      /\ Cat(i, id).path = Append(Cat(i, up).path, id)
      /\ Cat(i, up).path \in Seq(Id) /\ Len(Cat(i, up).path) = L + 1 /\ id \in Id
  BY Shape DEF Category
<1>2. /\ s \in Seq(Name \cup {NoName}) /\ Len(s) = L
      /\ \A n \in 1 .. L : s[n] = Cat(i, Cat(i, up).path[n + 1]).name
  BY <1>1, SpelledIsSeq DEF SpelledBy
<1>3. \A n \in 1 .. L : Cat(i, id).path[n + 1] = Cat(i, up).path[n + 1]
  BY <1>1
<1>4. Cat(i, id).path[L + 2] = id
  BY <1>1
<1>5. nm \in Name \cup {NoName}
  BY Shape DEF Category
<1>6. /\ SpelledBy(i, id) \in Seq(Name \cup {NoName})
      /\ Len(SpelledBy(i, id)) = L + 1
      /\ \A n \in 1 .. L + 1 : SpelledBy(i, id)[n] = Cat(i, Cat(i, id).path[n + 1]).name
  BY <1>1, SpelledIsSeq DEF SpelledBy
<1>7. ASSUME NEW n \in 1 .. L PROVE SpelledBy(i, id)[n] = s[n]
  <2>1. n \in 1 .. L + 1
    BY <1>1
  <2>2. SpelledBy(i, id)[n] = Cat(i, Cat(i, id).path[n + 1]).name
    BY <1>6, <2>1
  <2>3. Cat(i, id).path[n + 1] = Cat(i, up).path[n + 1]
    BY <1>3
  <2>4. s[n] = Cat(i, Cat(i, up).path[n + 1]).name
    BY <1>2
  <2> QED BY <2>2, <2>3, <2>4
<1>8. SpelledBy(i, id)[L + 1] = nm
  <2>1. L + 1 \in 1 .. L + 1 /\ (L + 1) + 1 = L + 2
    BY <1>1
  <2> QED BY <1>4, <1>6, <2>1
<1> HIDE DEF s, nm, L
<1> DEFINE t == SpelledBy(i, id)
<1>9. t = Append(s, nm)
  <2> HIDE DEF t, up
  <2>1. t \in Seq(Name \cup {NoName}) /\ Len(t) = L + 1 /\ L \in Nat
    BY <1>1, <1>6 DEF t
  <2>2. (\A n \in 1 .. L : t[n] = s[n]) /\ t[L + 1] = nm
    BY <1>7, <1>8 DEF t
  <2> QED BY <1>2, <1>5, <2>1, <2>2
<1> QED BY <1>9 DEF s, nm

\* What i sees, or others have committed, keeps its place and its name.
Same(i) ==
    \A k \in All(i) : /\ k \in All(i)' /\ Cat(i, k)'.parent = Cat(i, k).parent
                      /\ Cat(i, k)'.path = Cat(i, k).path
                      /\ Cat(i, k)'.level = Cat(i, k).level
                      /\ Cat(i, k)'.name = Cat(i, k).name

LEMMA SpellKept ==
    ASSUME IInv, NameInv, NEW i \in Import, Same(i), NEW id \in All(i)
    PROVE  SpelledBy(i, id)' = SpelledBy(i, id)
<1>1. \A n \in 1 .. Cat(i, id).level : Cat(i, id).path[n + 1] \in All(i)
  BY Shape
<1>2. Cat(i, id)'.path = Cat(i, id).path /\ Cat(i, id)'.level = Cat(i, id).level
  BY DEF Same
<1>3. \A k \in All(i) : Cat(i, k)'.name = Cat(i, k).name
  BY DEF Same
<1> QED BY <1>1, <1>2, <1>3 DEF SpelledBy, Cat

\* A category that is committed spells the same to everyone.
LEMMA SpelledToAll ==
    ASSUME IInv, NameInv, NEW i \in Import, NEW id \in DOMAIN cats
    PROVE  Spelled(id) = SpelledBy(i, id)
<1>1. \A k \in DOMAIN cats : Cat(i, k) = cats[k]
  BY DEF IInv, TypeOK, Cat
<1>2. \A n \in 1 .. cats[id].level : cats[id].path[n + 1] \in DOMAIN cats
  <2>1. cats[id].level \in Nat /\ Len(cats[id].path) = cats[id].level + 1
    BY DEF IInv, TypeOK, Category, NameInv, PathsSpell
  <2>2. \A n \in 1 .. cats[id].level : n + 1 \in 2 .. Len(cats[id].path)
    BY <2>1
  <2> QED BY <2>2 DEF NameInv, PathsSpell
<1> QED BY <1>1, <1>2 DEF Spelled, SpelledBy

\* A step of another import keeps what is right of the names of i.
CatsGrow ==
    \A k \in DOMAIN cats : /\ k \in DOMAIN cats'
                           /\ cats'[k].parent = cats[k].parent /\ cats'[k].path = cats[k].path
                           /\ cats'[k].level = cats[k].level /\ cats'[k].name = cats[k].name

LEMMA SpelledKept ==
    ASSUME IInv, NameInv, CatsGrow, NEW id \in DOMAIN cats
    PROVE  Spelled(id)' = Spelled(id)
<1>1. \A n \in 1 .. cats[id].level : cats[id].path[n + 1] \in DOMAIN cats
  <2>1. cats[id].level \in Nat /\ Len(cats[id].path) = cats[id].level + 1
    BY DEF IInv, TypeOK, Category, NameInv, PathsSpell
  <2>2. \A n \in 1 .. cats[id].level : n + 1 \in 2 .. Len(cats[id].path)
    BY <2>1
  <2> QED BY <2>2 DEF NameInv, PathsSpell
<1>2. cats'[id].path = cats[id].path /\ cats'[id].level = cats[id].level
  BY DEF CatsGrow
<1>3. \A n \in 1 .. cats[id].level :
        cats'[cats[id].path[n + 1]].name = cats[cats[id].path[n + 1]].name
  BY <1>1 DEF CatsGrow
<1> QED BY <1>2, <1>3 DEF Spelled

LEMMA VisibleAll ==
    ASSUME IInv, NEW i \in Import
    PROVE  /\ Visible(i) \subseteq All(i)
           /\ Walks(i) =>
                /\ parent[i] \in All(i) /\ root[i] \in All(i)
                /\ \A p \in DOMAIN memo[i] : memo[i][p] \in All(i)
                /\ \A n \in DOMAIN leaves[i] : leaves[i][n] \in All(i)
<1>1. Visible(i) \subseteq All(i)
  BY DEF IInv, TypeOK, Visible, All
<1> QED BY <1>1 DEF IInv, WalkInv

LEMMA WalkKept ==
    ASSUME IInv, NameInv, NEW i \in Import, Same(i), Walks(i), done'[i] = done[i],
           parent'[i] = parent[i], root'[i] = root[i], memo'[i] = memo[i],
           leaves'[i] = leaves[i]
    PROVE  WalkSpells(i)'
<1>1. /\ parent[i] \in All(i) /\ root[i] \in All(i)
      /\ \A p \in DOMAIN memo[i] : memo[i][p] \in All(i)
      /\ \A n \in DOMAIN leaves[i] : leaves[i][n] \in All(i)
  BY VisibleAll
<1>2. \A id \in All(i) : SpelledBy(i, id)' = SpelledBy(i, id)
                         /\ Cat(i, id)'.parent = Cat(i, id).parent
  BY SpellKept DEF Same
<1>3. WalkSpells(i)
  BY DEF NameInv, NamesOf
<1>4. Cat(i, root[i])'.parent = 0
  BY <1>1, <1>2, <1>3 DEF WalkSpells
<1>5. Len(leaves[i]) < Len(Assignments[i]) =>
        /\ done[i] <= Len(Path(i))
        /\ SpelledBy(i, parent[i])' = SubSeq(Path(i), 1, done[i])
  BY <1>1, <1>2, <1>3 DEF WalkSpells
<1>6. \A p \in DOMAIN memo[i] : SpelledBy(i, memo[i][p])' = p
  BY <1>1, <1>2, <1>3 DEF WalkSpells
<1>7. \A n \in DOMAIN leaves[i] : SpelledBy(i, leaves[i][n])' = Assignments[i][n].path
  BY <1>1, <1>2, <1>3 DEF WalkSpells
<1>8. Path(i)' = Path(i)
  BY DEF Path
<1> QED BY <1>4, <1>5, <1>6, <1>7, <1>8 DEF WalkSpells

LEMMA OtherKeeps ==
    ASSUME IInv, NameInv, IInv', CatsGrow, links \subseteq links', NEW i \in Import,
           own'[i] = own[i], pc'[i] = pc[i], done'[i] = done[i], parent'[i] = parent[i],
           root'[i] = root[i], memo'[i] = memo[i], leaves'[i] = leaves[i]
    PROVE  NamesOf(i)'
<1>1. Same(i)
  <2>1. ASSUME NEW k \in DOMAIN own[i] PROVE Cat(i, k)' = Cat(i, k) /\ k \in All(i)'
    BY <2>1 DEF Cat, All
  <2>2. ASSUME NEW k \in DOMAIN cats
        PROVE  k \in DOMAIN cats' /\ Cat(i, k)' = cats'[k] /\ Cat(i, k) = cats[k]
    BY <2>2 DEF CatsGrow, Cat, IInv, TypeOK
  <2> QED BY <2>1, <2>2 DEF Same, All, CatsGrow
<1>2. OwnSpell(i)'
  BY <1>1 DEF NameInv, NamesOf, OwnSpell, Same
<1>3. Path(i)' = Path(i) /\ Segment(i)' = Segment(i)
  BY DEF Path, Segment
<1>4. ASSUME Walks(i) PROVE WalkSpells(i)'
  BY <1>1, <1>4, WalkKept
<1>5. ASSUME pc[i] = "count" PROVE ChildSpells(i)'
  BY <1>3, <1>5 DEF NameInv, NamesOf, ChildSpells
<1>6. ASSUME pc[i] = "ok" PROVE LeavesLinked(i)'
  <2>0. \A n \in DOMAIN leaves[i] :
          <<leaves[i][n], Assignments[i][n].product>> \in links
    BY <1>6 DEF NameInv, NamesOf, LeavesLinked
  <2>1. \A n \in DOMAIN leaves[i] : leaves[i][n] \in DOMAIN cats
    <3>1. links \subseteq (DOMAIN cats) \X Product
      BY DEF IInv, TypeOK
    <3> QED BY <2>0, <3>1
  <2>2. \A n \in DOMAIN leaves[i] : Spelled(leaves[i][n])' = Spelled(leaves[i][n])
    BY <2>1, SpelledKept
  <2> QED BY <1>6, <2>2 DEF NameInv, NamesOf, LeavesLinked
<1>7. pc[i] \in {"idle", "root"} => done'[i] = 0
  BY DEF NameInv, NamesOf
<1> QED BY <1>2, <1>4, <1>5, <1>6, <1>7 DEF NamesOf, Walks

\* What no step but a COMMIT changes.
LEMMA TableKept ==
    ASSUME IInv, NameInv, UNCHANGED <<cats, links>>
    PROVE  /\ CatsGrow /\ PathsSpell(cats)' /\ LinksAssigned'
<1>1. CatsGrow
  BY DEF CatsGrow
<1>2. \A id : Spelled(id)' = Spelled(id)
  BY DEF Spelled
<1> QED BY <1>1, <1>2 DEF NameInv, PathsSpell, LinksAssigned

\* Of a step of i that commits nothing, what is left to show is i's own part.
LEMMA StepNames ==
    ASSUME IInv, NameInv, IInv', UNCHANGED <<cats, links>>, NEW i \in Import, NamesOf(i)',
           \A j \in Import \ {i} :
             /\ own'[j] = own[j] /\ pc'[j] = pc[j] /\ done'[j] = done[j]
             /\ parent'[j] = parent[j] /\ root'[j] = root[j] /\ memo'[j] = memo[j]
             /\ leaves'[j] = leaves[j]
    PROVE  NameInv'
<1>1. CatsGrow /\ PathsSpell(cats)' /\ LinksAssigned'
  BY TableKept
<1>2. ASSUME NEW j \in Import PROVE NamesOf(j)'
  <2>1. CASE j # i
    BY <1>1, <2>1, OtherKeeps
  <2>2. CASE j = i
    BY <2>2
  <2> QED BY <2>1, <2>2
<1> QED BY <1>1, <1>2 DEF NameInv

LEMMA Prefixes ==
    ASSUME NEW S, NEW s \in Seq(S)
    PROVE  /\ Len(s) \in Nat /\ SubSeq(s, 1, 0) = <<>> /\ SubSeq(s, 1, Len(s)) = s
           /\ \A n \in Nat : n < Len(s) =>
                SubSeq(s, 1, n + 1) = Append(SubSeq(s, 1, n), s[n + 1])
OBVIOUS

LEMMA PathIsSeq ==
    ASSUME NEW i \in Import, NEW n \in Nat, n < Len(Assignments[i])
    PROVE  /\ Assignments[i][n + 1].path \in Seq(Name)
           /\ Len(Assignments[i][n + 1].path) \in Nat
           /\ SubSeq(Assignments[i][n + 1].path, 1, 0) = <<>>
<1>1. /\ Assignments[i] \in Seq([product : Product, path : Paths(i)])
      /\ \A p \in Paths(i) : p \in Seq(Name)
  BY CategoryImportAssumption
<1>2. n + 1 \in DOMAIN Assignments[i]
  BY <1>1
<1>3. Assignments[i][n + 1].path \in Seq(Name)
  <2>1. Assignments[i][n + 1].path \in Paths(i)
    BY <1>2 DEF Paths
  <2> QED BY <1>1, <2>1
<1> DEFINE p == Assignments[i][n + 1].path
<1>4. p \in Seq(Name)
  BY <1>3
<1> HIDE DEF p
<1>5. Len(p) \in Nat /\ SubSeq(p, 1, 0) = <<>>
  BY <1>4, Prefixes
<1> QED BY <1>3, <1>5 DEF p

LEMMA SegmentsOfPath ==
    ASSUME TypeOK, NEW i \in Import, Len(leaves[i]) < Len(Assignments[i])
    PROVE  /\ Path(i) \in Seq(Name) /\ Len(Path(i)) \in Nat
           /\ SubSeq(Path(i), 1, 0) = <<>>
           /\ SubSeq(Path(i), 1, Len(Path(i))) = Path(i)
           /\ \A n \in Nat : n < Len(Path(i)) =>
                SubSeq(Path(i), 1, n + 1) = Append(SubSeq(Path(i), 1, n), Path(i)[n + 1])
<1>1. leaves[i] \in Seq(Id)
  BY DEF TypeOK
<1>2. Path(i) \in Seq(Name)
  BY <1>1, PathIsSeq DEF Path
<1> QED BY <1>2, Prefixes

LEMMA BeginNames ==
    ASSUME IInv, NameInv, IInv', NEW i \in Import, Begin(i)
    PROVE  NameInv'
<1>1. /\ pc'[i] = "root" /\ pc[i] = "idle"
      /\ UNCHANGED <<cats, links, own, done, parent, root, memo, leaves>>
      /\ \A j \in Import \ {i} : pc'[j] = pc[j]
  BY DEF Begin, Goto, IInv, TypeOK, walk
<1>2. NamesOf(i)'
  BY <1>1 DEF NameInv, NamesOf, OwnSpell, All, Walks
<1> QED BY <1>1, <1>2, StepNames

LEMMA RollBackNames ==
    ASSUME IInv, NameInv, IInv', NEW i \in Import, RollBack(i)
    PROVE  NameInv'
<1>1. /\ pc'[i] = "failed" /\ own'[i] = None
      /\ UNCHANGED <<cats, links, done, parent, root, memo, leaves>>
      /\ \A j \in Import \ {i} : pc'[j] = pc[j] /\ own'[j] = own[j]
  BY DEF RollBack, Goto, IInv, TypeOK, walk, shared
<1>2. NamesOf(i)'
  BY <1>1, NoneIsEmpty DEF NamesOf, OwnSpell, Walks
<1> QED BY <1>1, <1>2, StepNames

LEMMA FindRootNames ==
    ASSUME IInv, NameInv, IInv', NEW i \in Import, FindRoot(i)
    PROVE  NameInv'
<1>1. PICK id \in Roots(i) : StartWalk(i, id)
  BY DEF FindRoot
<1>2. /\ pc[i] = "root" /\ pc'[i] = "walk" /\ parent'[i] = id /\ root'[i] = id
      /\ UNCHANGED <<cats, links, own, done, memo, leaves>>
      /\ \A j \in Import \ {i} : pc'[j] = pc[j] /\ parent'[j] = parent[j] /\ root'[j] = root[j]
  BY <1>1 DEF FindRoot, StartWalk, Goto, IInv, TypeOK
<1>3. id \in All(i) /\ Cat(i, id).parent = 0
  BY DEF Roots, Visible, All, IInv, TypeOK
<1>4. SpelledBy(i, id) = <<>>
  BY <1>3, SpelledOfRoot
<1>5. done[i] = 0 /\ DOMAIN memo[i] = {} /\ leaves[i] = <<>>
  BY <1>2 DEF IInv, WalkInv, NameInv, NamesOf
<1>6. SpelledBy(i, id)' = SpelledBy(i, id) /\ Cat(i, id)' = Cat(i, id) /\ Path(i)' = Path(i)
  BY <1>2 DEF SpelledBy, Cat, Path
<1>7. WalkSpells(i)'
  BY <1>2, <1>3, <1>4, <1>5, <1>6, SegmentsOfPath DEF WalkSpells, IInv
<1>8. OwnSpell(i)'
  BY <1>2 DEF NameInv, NamesOf, OwnSpell, All
<1>9. NamesOf(i)'
  BY <1>2, <1>7, <1>8 DEF NamesOf, Walks
<1> QED BY <1>2, <1>9, StepNames

\* The leaf of a path is the category that spells it.
LEMMA ResolvedNames ==
    ASSUME IInv, NameInv, IInv', NEW i \in Import, NEW id \in All(i), Walking(i),
           Resolved(i, id), SpelledBy(i, id) = Path(i),
           \A j \in Import \ {i} : memo'[j] = memo[j],
           \A p \in DOMAIN memo'[i] : /\ memo'[i][p] \in All(i)
                                      /\ SpelledBy(i, memo'[i][p]) = p
    PROVE  NameInv'
<1>1. /\ pc[i] = "walk" /\ UNCHANGED <<cats, links, pc, own, root>>
      /\ parent'[i] = root[i] /\ done'[i] = 0 /\ leaves'[i] = Append(leaves[i], id)
      /\ \A j \in Import \ {i} : parent'[j] = parent[j] /\ done'[j] = done[j]
                                 /\ leaves'[j] = leaves[j]
  BY DEF Resolved, Walking, IInv, TypeOK, shared
<1>2. \A k : SpelledBy(i, k)' = SpelledBy(i, k) /\ Cat(i, k)' = Cat(i, k)
  BY <1>1 DEF SpelledBy, Cat
<1>3. WalkSpells(i)
  BY <1>1 DEF NameInv, NamesOf, Walks
<1>4. SpelledBy(i, root[i]) = <<>>
  BY <1>1, <1>3, VisibleAll, SpelledOfRoot DEF WalkSpells, Walks
<1>5. ASSUME NEW n \in DOMAIN leaves'[i]
      PROVE  SpelledBy(i, leaves'[i][n]) = Assignments[i][n].path
  <2>1. leaves[i] \in Seq(Id) /\ id \in Id
    BY Shape DEF IInv, TypeOK
  <2>2. CASE n \in DOMAIN leaves[i]
    BY <1>1, <1>3, <2>1, <2>2 DEF WalkSpells
  <2>3. CASE n = Len(leaves[i]) + 1
    <3>1. leaves'[i][n] = id
      BY <1>1, <2>1, <2>3
    <3> QED BY <2>3, <3>1 DEF Path
  <2> QED BY <1>1, <2>1, <2>2, <2>3
<1>6. Len(leaves'[i]) < Len(Assignments[i]) =>
        /\ 0 <= Len(Path(i)') /\ SubSeq(Path(i)', 1, 0) = <<>>
  <2>1. leaves'[i] \in Seq(Id)
    BY DEF IInv, TypeOK
  <2> QED BY <2>1, PathIsSeq DEF Path
<1>7. WalkSpells(i)'
  BY <1>1, <1>2, <1>3, <1>4, <1>5, <1>6 DEF WalkSpells
<1>8. OwnSpell(i)'
  BY <1>1 DEF NameInv, NamesOf, OwnSpell, All
<1>9. NamesOf(i)'
  BY <1>1, <1>7, <1>8 DEF NamesOf, Walks
<1> QED BY <1>1, <1>9, StepNames

LEMMA RememberNames ==
    ASSUME IInv, NameInv, IInv', NEW i \in Import, Remember(i) \/ PathEnds(i)
    PROVE  NameInv'
<1>1. /\ Walking(i) /\ pc[i] = "walk" /\ Len(leaves[i]) < Len(Assignments[i])
      /\ WalkSpells(i)
  BY DEF Remember, PathEnds, Walking, NameInv, NamesOf, Walks
<1>2. /\ parent[i] \in All(i)
      /\ \A p \in DOMAIN memo[i] : memo[i][p] \in All(i) /\ SpelledBy(i, memo[i][p]) = p
  BY <1>1, VisibleAll DEF Walks, WalkSpells
<1>3. CASE Remember(i)
  <2>1. /\ Path(i) \in DOMAIN memo[i] /\ Resolved(i, memo[i][Path(i)]) /\ memo' = memo
    BY <1>3 DEF Remember, MemoKey
  <2> QED BY <1>1, <1>2, <2>1, ResolvedNames
<1>4. CASE PathEnds(i)
  <2>1. /\ done[i] = Len(Path(i)) /\ Resolved(i, parent[i])
        /\ memo'[i] = Over(memo[i], Single(Path(i), parent[i]))
        /\ \A j \in Import \ {i} : memo'[j] = memo[j]
    BY <1>4 DEF PathEnds, MemoKey, IInv, TypeOK
  <2>2. SpelledBy(i, parent[i]) = Path(i)
    BY <1>1, <2>1, SegmentsOfPath DEF WalkSpells, IInv
  <2>3. ASSUME NEW p \in DOMAIN memo'[i]
        PROVE  memo'[i][p] \in All(i) /\ SpelledBy(i, memo'[i][p]) = p
    BY <1>2, <2>1, <2>2 DEF Over, Single
  <2> QED BY <1>1, <1>2, <2>1, <2>2, <2>3, ResolvedNames
<1> QED BY <1>3, <1>4

LEMMA DescendNames ==
    ASSUME IInv, NameInv, IInv', NEW i \in Import, Descend(i)
    PROVE  NameInv'
<1>1. PICK id \in Matches(i) : parent' = [parent EXCEPT ![i] = id]
  BY DEF Descend
<1>2. /\ pc[i] = "walk" /\ Len(leaves[i]) < Len(Assignments[i]) /\ done[i] < Len(Path(i))
      /\ UNCHANGED <<cats, links, pc, own, root, memo, leaves>>
      /\ parent'[i] = id /\ done'[i] = done[i] + 1
      /\ \A j \in Import \ {i} : parent'[j] = parent[j] /\ done'[j] = done[j]
  BY <1>1 DEF Descend, Unresolved, Walking, IInv, TypeOK, shared
<1>3. id \in All(i) /\ Cat(i, id).parent = parent[i] /\ Cat(i, id).name = Segment(i)
  BY VisibleAll DEF Matches
<1>4. WalkSpells(i) /\ parent[i] \in All(i) /\ parent[i] # 0
  <2>1. parent[i] \in All(i) /\ WalkSpells(i)
    BY <1>2, VisibleAll DEF NameInv, NamesOf, Walks
  <2>2. parent[i] \in Id
    BY <2>1, Shape
  <2> QED BY <2>1, <2>2 DEF Id
<1>5. SpelledBy(i, id) = SubSeq(Path(i), 1, done[i] + 1)
  <2>1. SpelledBy(i, id) = Append(SpelledBy(i, parent[i]), Segment(i))
    BY <1>3, <1>4, SpelledExtends
  <2>2. SpelledBy(i, parent[i]) = SubSeq(Path(i), 1, done[i])
    BY <1>2, <1>4 DEF WalkSpells
  <2>3. done[i] \in Nat
    BY DEF IInv, TypeOK
  <2> QED BY <1>2, <2>1, <2>2, <2>3, SegmentsOfPath DEF Segment, IInv
<1>6. /\ \A k : SpelledBy(i, k)' = SpelledBy(i, k) /\ Cat(i, k)' = Cat(i, k)
      /\ Path(i)' = Path(i)
  BY <1>2 DEF SpelledBy, Cat, Path
<1>7. done[i] + 1 <= Len(Path(i))
  BY <1>2, SegmentsOfPath DEF IInv, TypeOK
<1>8. WalkSpells(i)'
  BY <1>2, <1>4, <1>5, <1>6, <1>7 DEF WalkSpells
<1>9. OwnSpell(i)'
  BY <1>2 DEF NameInv, NamesOf, OwnSpell, All
<1>10. NamesOf(i)'
  BY <1>2, <1>8, <1>9 DEF NamesOf, Walks
<1> QED BY <1>2, <1>10, StepNames

LEMMA CreateRootNames ==
    ASSUME IInv, NameInv, IInv', NEW i \in Import, CreateRoot(i)
    PROVE  NameInv'
<1>1. /\ nextId <= MaxId /\ RootCategory \in Category
      /\ own' = [own EXCEPT ![i] = Over(@, Single(nextId, RootCategory))]
      /\ UNCHANGED <<cats, links, snap, done, memo, leaves>>
      /\ pc[i] = "root" /\ pc'[i] = "walk"
      /\ parent'[i] = nextId /\ root'[i] = nextId
      /\ \A j \in Import \ {i} : pc'[j] = pc[j] /\ parent'[j] = parent[j] /\ root'[j] = root[j]
  BY RootType DEF CreateRoot, StartWalk, Goto, IInv, TypeOK
<1>2. /\ DOMAIN own'[i] = DOMAIN own[i] \cup {nextId}
      /\ own'[i][nextId] = RootCategory
      /\ \A j \in Import \ {i} : own'[j] = own[j]
  BY <1>1, NewCategory
<1>3. /\ DOMAIN own[i] = {} /\ leaves[i] = <<>> /\ DOMAIN memo[i] = {} /\ done[i] = 0
  BY <1>1 DEF IInv, WalkInv, NameInv, NamesOf
<1>4. PICK m : m = nextId
  OBVIOUS
<1>5. Cat(i, m)' = RootCategory /\ own'[i][m] = RootCategory /\ DOMAIN own'[i] = {m}
  BY <1>2, <1>3, <1>4 DEF Cat
<1>6. /\ RootCategory.parent = 0 /\ RootCategory.level = 0
      /\ RootCategory.path = <<1>> /\ Len(RootCategory.path) = 1
  BY DEF RootCategory
<1>7. SpelledBy(i, m)' = <<>>
  <2>1. SpelledBy(i, m)' = [n \in 1 .. RootCategory.level |->
                              Cat(i, RootCategory.path[n + 1])'.name]
    BY <1>5 DEF SpelledBy, Cat
  <2>2. 1 .. RootCategory.level = {}
    BY <1>6
  <2> QED BY <2>1, <2>2
<1>8. OwnSpell(i)'
  <2>1. 2 .. Len(RootCategory.path) = {} /\ Len(RootCategory.path) = RootCategory.level + 1
    BY <1>6
  <2> QED BY <1>5, <1>6, <2>1 DEF OwnSpell
<1>9. Path(i)' = Path(i)
  BY <1>1 DEF Path
<1>10. WalkSpells(i)'
  BY <1>1, <1>3, <1>4, <1>5, <1>6, <1>7, <1>9, SegmentsOfPath DEF WalkSpells, IInv
<1>11. NamesOf(i)'
  BY <1>1, <1>8, <1>10 DEF NamesOf, Walks
<1> QED BY <1>1, <1>2, <1>11, StepNames

LEMMA CreateChildNames ==
    ASSUME IInv, NameInv, IInv', NEW i \in Import, CreateChild(i)
    PROVE  NameInv'
<1> DEFINE p == parent[i]
           x == Child(i, p, nextId)
<1>1. /\ nextId <= MaxId
      /\ own' = [own EXCEPT ![i] = Over(@, Single(nextId, x))]
      /\ UNCHANGED <<cats, links, snap, root, parent, done, memo, leaves>>
      /\ pc[i] = "walk" /\ pc'[i] = "count" /\ p \in Visible(i) /\ Walks(i)
      /\ Len(leaves[i]) < Len(Assignments[i]) /\ done[i] < Len(Path(i))
      /\ \A j \in Import \ {i} : pc'[j] = pc[j]
  BY DEF CreateChild, Unresolved, Walking, Goto, IInv, TypeOK, walk, WalkInv, Walks
<1>2. x \in Category
  BY <1>1, ChildType DEF CreateChild, IInv
<1>3. /\ x.parent = p /\ x.name = Segment(i)
      /\ x.path = Append(Cat(i, p).path, nextId)
      /\ x.level = Cat(i, p).level + 1
  BY DEF Child
<1>4. p \in All(i) /\ p # 0
  <2>1. p \in All(i)
    BY <1>1, VisibleAll
  <2>2. p \in Id
    BY <2>1, Shape
  <2> QED BY <2>1, <2>2 DEF Id
<1> HIDE DEF x
<1>5. PICK m : m = nextId
  OBVIOUS
<1>6. /\ m \in Nat \ {0} /\ m \notin DOMAIN cats /\ m \notin DOMAIN own[i]
      /\ DOMAIN own'[i] = DOMAIN own[i] \cup {m}
      /\ own'[i][m] = x
      /\ \A id \in DOMAIN own[i] : own'[i][id] = own[i][id]
      /\ \A j \in Import \ {i} : own'[j] = own[j]
  <2>1. /\ nextId \in Nat \ {0} /\ nextId \notin DOMAIN cats /\ nextId \notin DOMAIN own[i]
        /\ DOMAIN own'[i] = DOMAIN own[i] \cup {nextId}
        /\ own'[i][nextId] = x
        /\ \A id \in DOMAIN own[i] : own'[i][id] = own[i][id]
        /\ \A j \in Import \ {i} : own'[j] = own[j]
    BY <1>1, <1>2, NewCategory
  <2> QED BY <1>5, <2>1
<1>7. Same(i)
  <2>1. ASSUME NEW k \in All(i) PROVE k \in All(i)' /\ Cat(i, k)' = Cat(i, k)
    BY <1>1, <1>6, <2>1 DEF All, Cat
  <2> QED BY <2>1 DEF Same
<1>8. OwnSpell(i)'
  <2>1. ASSUME NEW id \in DOMAIN own[i]
        PROVE  /\ Len(own'[i][id].path) = own'[i][id].level + 1
               /\ own'[i][id].parent = 0 => own'[i][id].level = 0
               /\ \A n \in 2 .. Len(own'[i][id].path) : own'[i][id].path[n] \in All(i)'
    BY <1>6, <1>7 DEF NameInv, NamesOf, OwnSpell, Same
  <2>2. /\ Len(x.path) = x.level + 1
        /\ \A n \in 2 .. Len(x.path) : x.path[n] \in All(i)'
    <3> DEFINE up == Cat(i, p).path
               L  == Cat(i, p).level
    <3>1. /\ up \in Seq(Id) /\ L \in Nat /\ Len(up) = L + 1
          /\ \A n \in 1 .. L : up[n + 1] \in All(i)
      BY <1>4, Shape DEF Category
    <3>2. x.path = Append(up, m) /\ x.level = L + 1 /\ m \in Id
      <4>1. MaxId \in Nat
        BY CategoryImportAssumption
      <4> QED BY <1>1, <1>3, <1>5, <1>6, <4>1 DEF Id
    <3> HIDE DEF up, L
    <3>3. Len(x.path) = L + 2
      BY <3>1, <3>2
    <3>4. ASSUME NEW n \in 2 .. L + 2 PROVE x.path[n] \in All(i)'
      <4>1. CASE n = L + 2
        BY <1>6, <3>1, <3>2, <4>1 DEF All
      <4>2. CASE n \in 2 .. L + 1
        <5>1. n - 1 \in 1 .. L /\ (n - 1) + 1 = n
          BY <3>1, <4>2
        <5>2. x.path[n] = up[n] /\ up[n] \in All(i)
          BY <3>1, <3>2, <4>2, <5>1
        <5> QED BY <1>7, <5>2 DEF Same
      <4> QED BY <3>1, <4>1, <4>2
    <3> QED BY <3>1, <3>2, <3>3, <3>4
  <2> QED BY <1>3, <1>4, <1>6, <2>1, <2>2 DEF OwnSpell
<1>9. WalkSpells(i)'
  BY <1>1, <1>7, WalkKept
<1>10. ChildSpells(i)'
  <2>1. Path(i)' = Path(i) /\ Segment(i)' = Segment(i)
    BY <1>1 DEF Path, Segment
  <2>2. \A k \in DOMAIN own'[i] : k <= m
    <3>1. DOMAIN own[i] \subseteq 1 .. nextId - 1
      BY DEF IInv, TypeOK
    <3> QED BY <1>5, <1>6, <3>1
  <2> QED BY <1>1, <1>3, <1>6, <2>1, <2>2 DEF ChildSpells
<1>11. NamesOf(i)'
  BY <1>1, <1>8, <1>9, <1>10 DEF NamesOf
<1> QED BY <1>1, <1>6, <1>11, StepNames

LEMMA CountParentNames ==
    ASSUME IInv, NameInv, IInv', NEW i \in Import, CountParent(i)
    PROVE  NameInv'
<1>1. /\ pc[i] = "count" /\ pc'[i] = "walk" /\ done'[i] = done[i] + 1
      /\ parent'[i] = CHOOSE id \in DOMAIN own[i] : \A k \in DOMAIN own[i] : k <= id
      /\ UNCHANGED <<cats, links, own, root, memo, leaves>>
      /\ \A j \in Import \ {i} : pc'[j] = pc[j] /\ parent'[j] = parent[j] /\ done'[j] = done[j]
  BY DEF CountParent, IncrementParent, Goto, shared, IInv, TypeOK
<1>2. WalkSpells(i) /\ ChildSpells(i) /\ parent[i] \in All(i) /\ parent[i] # 0
  <2>1. parent[i] \in All(i) /\ WalkSpells(i) /\ ChildSpells(i)
    BY <1>1, VisibleAll DEF NameInv, NamesOf, Walks
  <2>2. parent[i] \in Id
    BY <2>1, Shape
  <2> QED BY <2>1, <2>2 DEF Id
<1>3. PICK m \in DOMAIN own[i] : /\ \A k \in DOMAIN own[i] : k <= m
                                 /\ own[i][m].parent = parent[i]
                                 /\ own[i][m].name = Segment(i)
  BY <1>2 DEF ChildSpells
<1>4. parent'[i] = m
  <2>1. \A k \in DOMAIN own[i] : k \in Nat
    BY DEF IInv, TypeOK
  <2>2. \A k \in DOMAIN own[i] : (\A y \in DOMAIN own[i] : y <= k) => k = m
    BY <1>3, <2>1
  <2> QED BY <1>1, <1>3, <2>2
<1>5. /\ Len(leaves[i]) < Len(Assignments[i]) /\ done[i] < Len(Path(i)) /\ done[i] \in Nat
  BY <1>2 DEF ChildSpells, IInv, TypeOK
<1>6. SpelledBy(i, m) = SubSeq(Path(i), 1, done[i] + 1)
  <2>1. m \in All(i) /\ Cat(i, m) = own[i][m]
    BY DEF All, Cat
  <2>2. SpelledBy(i, m) = Append(SpelledBy(i, parent[i]), Segment(i))
    BY <1>2, <1>3, <2>1, SpelledExtends
  <2>3. SpelledBy(i, parent[i]) = SubSeq(Path(i), 1, done[i])
    BY <1>2, <1>5 DEF WalkSpells
  <2> QED BY <1>5, <2>2, <2>3, SegmentsOfPath DEF Segment, IInv
<1>7. /\ \A k : SpelledBy(i, k)' = SpelledBy(i, k) /\ Cat(i, k)' = Cat(i, k)
      /\ Path(i)' = Path(i)
  BY <1>1 DEF SpelledBy, Cat, Path
<1>8. done[i] + 1 <= Len(Path(i))
  BY <1>5, SegmentsOfPath DEF IInv
<1>9. WalkSpells(i)'
  BY <1>1, <1>2, <1>4, <1>6, <1>7, <1>8 DEF WalkSpells
<1>10. OwnSpell(i)'
  BY <1>1 DEF NameInv, NamesOf, OwnSpell, All
<1>11. NamesOf(i)'
  BY <1>1, <1>9, <1>10 DEF NamesOf, Walks
<1> QED BY <1>1, <1>11, StepNames

LEMMA CommitNames ==
    ASSUME IInv, NameInv, IInv', NEW i \in Import, Commit(i)
    PROVE  NameInv'
<1>1. /\ DOMAIN cats' = DOMAIN cats \cup DOMAIN own[i]
      /\ \A id \in DOMAIN cats' :
           /\ cats'[id].parent = Cat(i, id).parent
           /\ cats'[id].path = Cat(i, id).path
           /\ cats'[id].level = Cat(i, id).level
           /\ cats'[id].name = Cat(i, id).name
      /\ own'[i] = None
      /\ \A j \in Import \ {i} : own'[j] = own[j]
      /\ pc[i] = "walk" /\ pc' = [pc EXCEPT ![i] = "ok"]
      /\ UNCHANGED <<parent, root, done, memo, leaves>>
  BY CommitCats
<1>2. /\ links' = links \cup {<<leaves[i][n], Assignments[i][n].product>> :
                               n \in DOMAIN leaves[i]}
      /\ Len(leaves[i]) = Len(Assignments[i])
  <2>1. Assignments[i] \in Seq([product : Product, path : Paths(i)])
    BY CategoryImportAssumption
  <2>2. Len(Assignments[i]) \in Nat /\ Len(leaves[i]) \in Nat
    BY <2>1 DEF IInv, TypeOK
  <2> QED BY <1>1, <2>2 DEF Commit, Walking, IInv, TypeOK
<1>3. CatsGrow
  <2>1. ASSUME NEW k \in DOMAIN cats PROVE Cat(i, k) = cats[k]
    BY DEF Cat, IInv, TypeOK
  <2> QED BY <1>1, <2>1 DEF CatsGrow
<1>4. \A id \in DOMAIN cats' : id \in All(i)
  BY <1>1 DEF All
<1>5. PathsSpell(cats)'
  <2>1. ASSUME NEW id \in DOMAIN cats'
        PROVE  /\ Len(cats'[id].path) = cats'[id].level + 1
               /\ cats'[id].parent = 0 => cats'[id].level = 0
               /\ \A n \in 2 .. Len(cats'[id].path) : cats'[id].path[n] \in DOMAIN cats'
    <3>1. /\ id \in All(i) /\ Cat(i, id).level \in Nat
          /\ Len(Cat(i, id).path) = Cat(i, id).level + 1
          /\ Cat(i, id).parent = 0 => Cat(i, id).level = 0
          /\ \A n \in 1 .. Cat(i, id).level : Cat(i, id).path[n + 1] \in All(i)
      BY <1>4, Shape DEF Category
    <3>2. ASSUME NEW n \in 2 .. Len(Cat(i, id).path)
          PROVE  Cat(i, id).path[n] \in All(i)
      <4>1. n - 1 \in 1 .. Cat(i, id).level /\ (n - 1) + 1 = n
        BY <3>1
      <4> QED BY <3>1, <4>1
    <3> QED BY <1>1, <3>1, <3>2 DEF All
  <2> QED BY <2>1 DEF PathsSpell
\* What i spelled, the table spells.
<1>6. ASSUME NEW id \in All(i) PROVE Spelled(id)' = SpelledBy(i, id)
  <2>1. \A n \in 1 .. Cat(i, id).level : Cat(i, id).path[n + 1] \in DOMAIN cats'
    BY <1>1, Shape DEF All
  <2>2. cats'[id].path = Cat(i, id).path /\ cats'[id].level = Cat(i, id).level
    BY <1>1 DEF All
  <2>3. \A n \in 1 .. Cat(i, id).level :
          cats'[Cat(i, id).path[n + 1]].name = Cat(i, Cat(i, id).path[n + 1]).name
    BY <1>1, <2>1
  <2> QED BY <2>2, <2>3 DEF Spelled, SpelledBy
<1>7. \A n \in DOMAIN leaves[i] : /\ leaves[i][n] \in All(i)
                                  /\ SpelledBy(i, leaves[i][n]) = Assignments[i][n].path
  BY <1>1, VisibleAll DEF NameInv, NamesOf, Walks, WalkSpells
<1>8. \A n \in DOMAIN leaves[i] : Spelled(leaves[i][n])' = Assignments[i][n].path
  BY <1>1, <1>6, <1>7
<1>9. DOMAIN leaves[i] = DOMAIN Assignments[i]
  <2>1. Assignments[i] \in Seq([product : Product, path : Paths(i)]) /\ leaves[i] \in Seq(Id)
    BY CategoryImportAssumption DEF IInv, TypeOK
  <2> QED BY <1>2, <2>1
<1>10. LinksAssigned'
  <2> SUFFICES ASSUME NEW l \in links'
               PROVE  \E j \in Import : \E k \in DOMAIN Assignments[j] :
                        /\ l[2] = Assignments[j][k].product
                        /\ Spelled(l[1])' = Assignments[j][k].path
    BY DEF LinksAssigned
  <2>1. CASE l \in links
    <3>1. l[1] \in DOMAIN cats
      BY <2>1 DEF IInv, TypeOK
    <3>2. Spelled(l[1])' = Spelled(l[1])
      BY <1>3, <3>1, SpelledKept
    <3> QED BY <2>1, <3>2 DEF NameInv, LinksAssigned
  <2>2. CASE \E n \in DOMAIN leaves[i] : l = <<leaves[i][n], Assignments[i][n].product>>
    <3>1. PICK n \in DOMAIN leaves[i] : l = <<leaves[i][n], Assignments[i][n].product>>
      BY <2>2
    <3>2. l[2] = Assignments[i][n].product /\ l[1] = leaves[i][n]
      BY <3>1
    <3>3. Spelled(l[1])' = Assignments[i][n].path
      BY <1>6, <1>7, <3>2
    <3> QED BY <1>9, <3>2, <3>3
  <2> QED BY <1>2, <2>1, <2>2
<1>11. NamesOf(i)'
  <2>1. LeavesLinked(i)'
    BY <1>1, <1>2, <1>8 DEF LeavesLinked
  <2>2. OwnSpell(i)'
    BY <1>1, NoneIsEmpty DEF OwnSpell
  <2>3. pc'[i] = "ok"
    BY <1>1 DEF IInv, TypeOK
  <2> QED BY <2>1, <2>2, <2>3 DEF NamesOf, Walks
<1>12. ASSUME NEW j \in Import PROVE NamesOf(j)'
  <2>1. CASE j # i
    <3>1. links \subseteq links' /\ own'[j] = own[j] /\ pc'[j] = pc[j]
      BY <1>1, <1>2, <2>1 DEF IInv, TypeOK
    <3> QED BY <1>1, <1>3, <2>1, <3>1, OtherKeeps
  <2>2. CASE j = i
    BY <1>11, <2>2
  <2> QED BY <2>1, <2>2
<1> QED BY <1>5, <1>10, <1>12 DEF NameInv

LEMMA InitNames == Init => NameInv
<1> SUFFICES ASSUME Init PROVE NameInv
  OBVIOUS
<1>1. PathsSpell(cats)
  BY CategoryImportAssumption DEF Init
<1>2. LinksAssigned
  BY DEF Init, LinksAssigned
<1>3. \A i \in Import : DOMAIN own[i] = {} /\ pc[i] = "idle" /\ done[i] = 0
  BY NoneIsEmpty DEF Init
<1>4. \A i \in Import : NamesOf(i)
  BY <1>3 DEF NamesOf, OwnSpell, Walks
<1> QED BY <1>1, <1>2, <1>4 DEF NameInv

LEMMA NamesInvariance == Spec => []NameInv
<1>1. IInv /\ IInv' /\ NameInv /\ [Next]_vars => NameInv'
  <2> SUFFICES ASSUME IInv, IInv', NameInv, [Next]_vars PROVE NameInv'
    OBVIOUS
  <2>1. ASSUME NEW i \in Import, Begin(i) \/ Walk(i) \/ LockRefused(i) \/ Fails(i)
        PROVE  NameInv'
    BY <2>1, BeginNames, FindRootNames, CreateRootNames, RememberNames, DescendNames,
       CreateChildNames, CountParentNames, CommitNames, RollBackNames
       DEF Walk, LockRefused, Fails
  <2>2. CASE UNCHANGED vars
    <3>1. UNCHANGED <<cats, links, own, pc, done, parent, root, memo, leaves>>
      BY <2>2 DEF vars
    <3>2. CatsGrow /\ PathsSpell(cats)' /\ LinksAssigned'
      BY <3>1, TableKept
    <3>3. \A i \in Import : NamesOf(i)'
      BY <3>1, <3>2, OtherKeeps
    <3> QED BY <3>2, <3>3 DEF NameInv
  <2> QED BY <2>1, <2>2 DEF Next
<1> QED BY <1>1, InitNames, Invariance, PTL DEF Spec

LEMMA ElementOf ==
    ASSUME NEW S, NEW s \in Seq(S), NEW k \in DOMAIN s
    PROVE  s[k] \in S
OBVIOUS

\* Whatever imports run at once and fail, a product is linked only to the
\* category that a path of its file spells, and to all of them once its import
\* has succeeded.
THEOREM LinksAreRight == Spec => []LinksNameTheirPath
<1>1. IInv /\ NameInv => LinksNameTheirPath
  <2> SUFFICES ASSUME IInv, NameInv PROVE LinksNameTheirPath
    OBVIOUS
  <2> DEFINE linked      == {[product |-> l[2], path |-> Spelled(l[1])] : l \in links}
             assigned(i) == {Assignments[i][k] : k \in DOMAIN Assignments[i]}
  <2>1. ASSUME NEW i \in Import, NEW k \in DOMAIN Assignments[i]
        PROVE  Assignments[i][k] = [product |-> Assignments[i][k].product,
                                    path |-> Assignments[i][k].path]
    <3>1. Assignments[i] \in Seq([product : Product, path : Paths(i)])
      BY CategoryImportAssumption
    <3>2. Assignments[i][k] \in [product : Product, path : Paths(i)]
      BY <3>1, ElementOf
    <3> QED BY <3>2
  <2>2. ASSUME NEW l \in links
        PROVE  [product |-> l[2], path |-> Spelled(l[1])] \in UNION {assigned(i) : i \in Import}
    <3>1. PICK i \in Import : \E k \in DOMAIN Assignments[i] :
                 /\ l[2] = Assignments[i][k].product
                 /\ Spelled(l[1]) = Assignments[i][k].path
      BY DEF NameInv, LinksAssigned
    <3>2. [product |-> l[2], path |-> Spelled(l[1])] \in assigned(i)
      BY <2>1, <3>1
    <3> QED BY <3>2
  <2>3. ASSUME NEW i \in Import, pc[i] = "ok", NEW k \in DOMAIN Assignments[i]
        PROVE  Assignments[i][k] \in linked
    <3>1. LeavesLinked(i)
      BY <2>3 DEF NameInv, NamesOf
    <3>2. k \in DOMAIN leaves[i]
      <4>1. Assignments[i] \in Seq([product : Product, path : Paths(i)])
            /\ leaves[i] \in Seq(Id)
        BY CategoryImportAssumption DEF IInv, TypeOK
      <4> QED BY <3>1, <4>1 DEF LeavesLinked
    <3> DEFINE l == <<leaves[i][k], Assignments[i][k].product>>
    <3>3. /\ l \in links /\ l[2] = Assignments[i][k].product
          /\ Spelled(l[1]) = Assignments[i][k].path
      BY <3>1, <3>2 DEF LeavesLinked
    <3> HIDE DEF l
    <3>4. [product |-> l[2], path |-> Spelled(l[1])] = Assignments[i][k]
      BY <2>1, <3>3
    <3> QED BY <3>3, <3>4
  <2> QED BY <2>2, <2>3 DEF LinksNameTheirPath
<1> QED BY <1>1, Invariance, NamesInvariance, PTL

-----------------------------------------------------------------------------
(* Imports that run one after the other. *)

\* The only import that runs sees all there is, under the only attribute.
RunsAlone(i) ==
    /\ \A j \in Import : pc[j] \in Active => j = i
    /\ snap[i] = DOMAIN cats
    /\ \A a \in attrs : a = attr[i]
    /\ \A id \in DOMAIN own[i] : own[i][id].parent # 0 => own[i][id].attr = attr[i]
    /\ \A id, k \in All(i) :
         Cat(i, id).parent = Cat(i, k).parent /\ Cat(i, id).name = Cat(i, k).name => id = k

SerialInv ==
    ~overlap =>
        /\ NamesDiffer(cats)
        /\ \A id \in DOMAIN cats : cats[id].parent # 0 => cats[id].attr \in attrs
        /\ \A a, b \in attrs : a = b
        /\ \A i \in Import : pc[i] \in Active => RunsAlone(i)

\* A step that changes no category and no attribute, and starts no import.
LEMMA QuietSerial ==
    ASSUME SerialInv, NEW i \in Import,
           UNCHANGED <<cats, attrs, attr, own, snap, overlap>>,
           pc[i] \in Active, \A j \in Import \ {i} : pc'[j] = pc[j]
    PROVE  SerialInv'
<1> SUFFICES ASSUME ~overlap PROVE SerialInv'
  BY DEF SerialInv
<1>1. ASSUME NEW j \in Import, pc'[j] \in Active PROVE RunsAlone(j)'
  <2>1. RunsAlone(i) /\ \A k \in Import : pc'[k] \in Active => k = i
    BY DEF SerialInv, RunsAlone
  <2>2. j = i
    BY <1>1, <2>1
  <2> QED BY <2>1, <2>2 DEF RunsAlone, All, Cat
<1>2. NamesDiffer(cats)'
  BY DEF SerialInv, NamesDiffer
<1> QED BY <1>1, <1>2 DEF SerialInv

LEMMA BeginSerial ==
    ASSUME IInv, SerialInv, NEW i \in Import, Begin(i)
    PROVE  SerialInv'
<1>1. /\ pc[i] = "idle" /\ UNCHANGED <<cats, attrs, own>>
      /\ overlap' = (overlap \/ Busy # {})
      /\ \A j \in Import \ {i} : pc'[j] = pc[j]
      /\ snap'[i] = DOMAIN cats
      /\ attr'[i] \in attrs \/ attrs = {}
  BY DEF Begin, Goto, IInv, TypeOK
<1> SUFFICES ASSUME ~overlap, Busy = {} PROVE SerialInv'
  BY <1>1 DEF SerialInv
<1>2. \A j \in Import : pc'[j] \in Active => j = i
  BY <1>1 DEF Busy
<1>3. DOMAIN own[i] = {}
  BY <1>1 DEF IInv, WalkInv
<1>4. RunsAlone(i)'
  <2>1. \A a \in attrs : a = attr'[i]
    BY <1>1 DEF SerialInv
  <2>2. ASSUME NEW id \in All(i) PROVE id \in DOMAIN cats /\ Cat(i, id) = cats[id]
    BY <1>3 DEF All, Cat
  <2>3. \A id, k \in All(i) : Cat(i, id).parent = Cat(i, k).parent
                              /\ Cat(i, id).name = Cat(i, k).name => id = k
    BY <2>2 DEF SerialInv, NamesDiffer
  <2>4. \A id, k \in All(i)' : Cat(i, id)'.parent = Cat(i, k)'.parent
                               /\ Cat(i, id)'.name = Cat(i, k)'.name => id = k
    BY <1>1, <2>3 DEF All, Cat
  <2> QED BY <1>1, <1>2, <1>3, <2>1, <2>4 DEF RunsAlone
<1>5. NamesDiffer(cats)'
  BY <1>1 DEF SerialInv, NamesDiffer
<1> QED BY <1>1, <1>2, <1>4, <1>5 DEF SerialInv

\* An import that runs alone inserts a category only if there is no other of
\* its name below its parent.
LEMMA InsertSerial ==
    ASSUME IInv, SerialInv, NEW i \in Import, nextId <= MaxId, NEW x \in Category,
           own' = [own EXCEPT ![i] = Over(@, Single(nextId, x))],
           UNCHANGED <<cats, attrs, attr, snap, overlap>>,
           pc[i] \in Active, \A j \in Import \ {i} : pc'[j] = pc[j],
           x.parent # 0 => x.attr = attr[i],
           ASSUME ~overlap, RunsAlone(i), NEW k \in Visible(i),
                  Cat(i, k).parent = x.parent, Cat(i, k).name = x.name
           PROVE  FALSE
    PROVE  SerialInv'
<1> SUFFICES ASSUME ~overlap PROVE SerialInv'
  BY DEF SerialInv
<1>1. RunsAlone(i)
  BY DEF SerialInv
<1>2. PICK m : m = nextId
  OBVIOUS
<1>3. /\ m \notin DOMAIN cats /\ m \notin DOMAIN own[i]
      /\ DOMAIN own'[i] = DOMAIN own[i] \cup {m}
      /\ own'[i][m] = x
      /\ \A id \in DOMAIN own[i] : own'[i][id] = own[i][id]
  <2>1. /\ nextId \notin DOMAIN cats /\ nextId \notin DOMAIN own[i]
        /\ DOMAIN own'[i] = DOMAIN own[i] \cup {nextId}
        /\ own'[i][nextId] = x
        /\ \A id \in DOMAIN own[i] : own'[i][id] = own[i][id]
    BY NewCategory
  <2> QED BY <1>2, <2>1
<1>4. \A j \in Import : pc'[j] \in Active => j = i
  BY <1>1 DEF RunsAlone
<1>5. /\ All(i)' = All(i) \cup {m} /\ m \notin All(i) /\ Cat(i, m)' = x
      /\ \A k \in All(i) : Cat(i, k)' = Cat(i, k)
  BY <1>3 DEF All, Cat
<1>6. All(i) = Visible(i)
  BY <1>1 DEF RunsAlone, All, Visible
<1>7. ASSUME NEW id \in All(i)', NEW k \in All(i)',
             Cat(i, id)'.parent = Cat(i, k)'.parent, Cat(i, id)'.name = Cat(i, k)'.name
      PROVE  id = k
  <2>1. CASE id \in All(i) /\ k \in All(i)
    BY <1>1, <1>5, <1>7, <2>1 DEF RunsAlone
  <2>2. CASE id = m /\ k \in All(i)
    BY <1>1, <1>5, <1>6, <1>7, <2>2
  <2>3. CASE id \in All(i) /\ k = m
    BY <1>1, <1>5, <1>6, <1>7, <2>3
  <2> QED BY <1>5, <2>1, <2>2, <2>3
<1>8. \A id \in DOMAIN own'[i] : own'[i][id].parent # 0 => own'[i][id].attr = attr[i]
  BY <1>1, <1>3 DEF RunsAlone
<1>9. RunsAlone(i)'
  BY <1>1, <1>4, <1>7, <1>8 DEF RunsAlone
<1>10. NamesDiffer(cats)'
  BY DEF SerialInv, NamesDiffer
<1> QED BY <1>4, <1>9, <1>10 DEF SerialInv

LEMMA CreateSerial ==
    ASSUME IInv, SerialInv, NEW i \in Import, CreateRoot(i) \/ CreateChild(i)
    PROVE  SerialInv'
<1>1. CASE CreateRoot(i)
  <2>1. /\ nextId <= MaxId /\ RootCategory \in Category /\ RootCategory.parent = 0
        /\ own' = [own EXCEPT ![i] = Over(@, Single(nextId, RootCategory))]
        /\ UNCHANGED <<cats, attrs, attr, snap, overlap>>
        /\ pc[i] \in Active /\ \A j \in Import \ {i} : pc'[j] = pc[j]
    BY <1>1, RootType DEF CreateRoot, StartWalk, Goto, IInv, TypeOK, Active, RootCategory
  <2>2. \A k \in Visible(i) : Cat(i, k).parent # 0
    BY <1>1 DEF CreateRoot, Roots
  <2> QED BY <2>1, <2>2, InsertSerial
<1>2. CASE CreateChild(i)
  <2> DEFINE x == Child(i, parent[i], nextId)
  <2>1. /\ nextId <= MaxId /\ pc[i] = "walk" /\ Matches(i) = {} /\ parent[i] \in Visible(i)
        /\ own' = [own EXCEPT ![i] = Over(@, Single(nextId, x))]
        /\ UNCHANGED <<cats, attrs, attr, snap, overlap>>
        /\ \A j \in Import \ {i} : pc'[j] = pc[j]
    BY <1>2 DEF CreateChild, Unresolved, Walking, Goto, IInv, TypeOK, WalkInv, Walks
  <2>2. x \in Category
    BY <1>2, <2>1, ChildType DEF CreateChild, IInv
  <2>3. x.parent = parent[i] /\ x.name = Segment(i) /\ x.attr = attr[i]
    BY DEF Child
  <2> HIDE DEF x
  <2>4. parent[i] # 0
    <3>1. parent[i] \in Id
      BY <2>1, CatType DEF IInv
    <3> QED BY <3>1 DEF Id
  <2>5. ASSUME ~overlap, RunsAlone(i), NEW k \in Visible(i),
               Cat(i, k).parent = x.parent, Cat(i, k).name = x.name
        PROVE  FALSE
    <3>1. Cat(i, k).attr = attr[i]
      <4>1. CASE k \in DOMAIN own[i]
        BY <2>3, <2>4, <2>5, <4>1 DEF RunsAlone, Cat
      <4>2. CASE k \notin DOMAIN own[i]
        BY <2>3, <2>4, <2>5, <4>2 DEF RunsAlone, Cat, Visible, SerialInv
      <4> QED BY <4>1, <4>2
    <3>2. k \in Matches(i)
      BY <2>3, <2>5, <3>1 DEF Matches
    <3> QED BY <2>1, <3>2
  <2> QED BY <2>1, <2>2, <2>3, <2>5, InsertSerial DEF Active
<1> QED BY <1>1, <1>2

LEMMA CommitSerial ==
    ASSUME IInv, SerialInv, NEW i \in Import, Commit(i)
    PROVE  SerialInv'
<1>1. /\ DOMAIN cats' = DOMAIN cats \cup DOMAIN own[i]
      /\ \A id \in DOMAIN cats' : /\ cats'[id].parent = Cat(i, id).parent
                                  /\ cats'[id].name = Cat(i, id).name
                                  /\ cats'[id].attr = Cat(i, id).attr
      /\ pc[i] \in Active /\ pc' = [pc EXCEPT ![i] = "ok"]
      /\ UNCHANGED overlap
  BY CommitCats DEF Active
<1>2. attrs' = attrs \cup {attr[i]}
  BY DEF Commit
<1> SUFFICES ASSUME ~overlap PROVE SerialInv'
  BY <1>1 DEF SerialInv
<1>3. RunsAlone(i)
  BY <1>1 DEF SerialInv
<1>4. \A j \in Import : pc'[j] \notin Active
  BY <1>1, <1>3 DEF RunsAlone, Active, IInv, TypeOK
<1>5. NamesDiffer(cats)'
  BY <1>1, <1>3 DEF NamesDiffer, RunsAlone, All
<1>6. \A id \in DOMAIN cats' : cats'[id].parent # 0 => cats'[id].attr \in attrs'
  <2>1. ASSUME NEW id \in DOMAIN cats', cats'[id].parent # 0 PROVE cats'[id].attr \in attrs'
    <3>1. CASE id \in DOMAIN own[i]
      BY <1>1, <1>2, <1>3, <2>1, <3>1 DEF RunsAlone, Cat
    <3>2. CASE id \in DOMAIN cats /\ id \notin DOMAIN own[i]
      BY <1>1, <1>2, <2>1, <3>2 DEF SerialInv, Cat
    <3> QED BY <1>1, <3>1, <3>2
  <2> QED BY <2>1
<1>7. \A a, b \in attrs' : a = b
  BY <1>2, <1>3 DEF RunsAlone
<1> QED BY <1>4, <1>5, <1>6, <1>7 DEF SerialInv

LEMMA RollBackSerial ==
    ASSUME IInv, SerialInv, NEW i \in Import, RollBack(i), pc[i] \in Active
    PROVE  SerialInv'
<1>1. /\ UNCHANGED <<cats, attrs, overlap>>
      /\ pc' = [pc EXCEPT ![i] = "failed"]
  BY DEF RollBack, Goto, shared
<1> SUFFICES ASSUME ~overlap PROVE SerialInv'
  BY <1>1 DEF SerialInv
<1>2. \A j \in Import : pc'[j] \notin Active
  BY <1>1 DEF SerialInv, RunsAlone, Active, IInv, TypeOK
<1>3. NamesDiffer(cats)'
  BY <1>1 DEF SerialInv, NamesDiffer
<1> QED BY <1>1, <1>2, <1>3 DEF SerialInv

LEMMA InitSerial == Init => SerialInv
<1> SUFFICES ASSUME Init PROVE SerialInv
  OBVIOUS
<1>1. NamesDiffer(cats)
  BY CategoryImportAssumption DEF Init
<1>2. \A id \in DOMAIN cats : cats[id].parent # 0 => cats[id].attr \in attrs
  <2>1. \A id \in DOMAIN cats : cats[id].parent # 0 => cats[id].attr = 1
    BY CategoryImportAssumption DEF Init
  <2> QED BY <2>1 DEF Init
<1>3. \A a, b \in attrs : a = b
  BY DEF Init
<1>4. \A i \in Import : pc[i] \notin Active
  BY DEF Init, Active
<1> QED BY <1>1, <1>2, <1>3, <1>4 DEF SerialInv

LEMMA SerialInvariance == Spec => []SerialInv
<1>1. IInv /\ SerialInv /\ [Next]_vars => SerialInv'
  <2> SUFFICES ASSUME IInv, SerialInv, [Next]_vars PROVE SerialInv'
    OBVIOUS
  <2>1. ASSUME NEW i \in Import,
               FindRoot(i) \/ Remember(i) \/ PathEnds(i) \/ Descend(i) \/ CountParent(i)
        PROVE  SerialInv'
    <3>1. /\ UNCHANGED <<cats, attrs, attr, own, snap, overlap>> /\ pc[i] \in Active
          /\ \A j \in Import \ {i} : pc'[j] = pc[j]
      BY <2>1 DEF FindRoot, StartWalk, Remember, PathEnds, Resolved, Descend, Unresolved,
                  Walking, CountParent, IncrementParent, Goto, IInv, TypeOK, Active, shared
    <3> QED BY <3>1, QuietSerial
  <2>2. ASSUME NEW i \in Import, LockRefused(i) \/ Fails(i) PROVE SerialInv'
    BY <2>2, RollBackSerial DEF LockRefused, Fails, Active
  <2>3. ASSUME NEW i \in Import, Begin(i) \/ Walk(i) \/ LockRefused(i) \/ Fails(i)
        PROVE  SerialInv'
    BY <2>1, <2>2, <2>3, BeginSerial, CreateSerial, CommitSerial DEF Walk
  <2>4. CASE UNCHANGED vars
    <3>1. UNCHANGED <<cats, attrs, attr, own, snap, overlap, pc>>
      BY <2>4 DEF vars
    <3> QED BY <3>1 DEF SerialInv, NamesDiffer, RunsAlone, All, Cat
  <2> QED BY <2>3, <2>4 DEF Next
<1> QED BY <1>1, InitSerial, Invariance, PTL DEF Spec

\* Imports that run one after the other leave no two siblings of one name,
\* whatever fails in between and wherever the name attribute comes from.
THEOREM SerialImportsAreRight == Spec => []SerialImportsShareCategories
<1>1. SerialInv => SerialImportsShareCategories
  BY DEF SerialInv, SerialImportsShareCategories
<1> QED BY <1>1, SerialInvariance, PTL
=============================================================================
