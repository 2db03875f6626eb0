-------------------------- MODULE CategoryImport --------------------------
(***************************************************************************)
(* crates/import/src/categories.rs: flush_categories of several imports.   *)
(* Each walks the category paths of its file in one InnoDB transaction     *)
(* (REPEATABLE READ): its SELECTs see the snapshot taken by the first of   *)
(* them and its own writes, its UPDATEs the rows last committed, which     *)
(* they lock.  What a walk does not find it creates.                       *)
(***************************************************************************)
EXTENDS Naturals, Sequences, FiniteSets

CONSTANTS
    Import,         \* the imports that flush category assignments
    Assignments,    \* of each import, a sequence of [product, path] records
    Existing,       \* the contents the category table may have at first
    MaxId           \* bound: category ids handed out

Paths(i) == {Assignments[i][k].path : k \in DOMAIN Assignments[i]}
Name     == UNION {{p[n] : n \in DOMAIN p} : p \in UNION {Paths(i) : i \in Import}}
Product  == UNION {{Assignments[i][k].product : k \in DOMAIN Assignments[i]} :
                     i \in Import}
NoName   == "none"     \* a root has no row for its name

Id == 1 .. MaxId
Category == [parent : Id \cup {0}, path : Seq(Id), level : Nat,
             name : Name \cup {NoName}, attr : Nat, count : Nat]

Children(c, id) == {k \in DOMAIN c : c[k].parent = id}

\* What is right of the contents c of the category table.
PathsExtend(c) ==
    \A id \in DOMAIN c : c[id].parent # 0 =>
        /\ c[id].parent \in DOMAIN c
        /\ c[id].path = Append(c[c[id].parent].path, id)
        /\ c[id].level = c[c[id].parent].level + 1

\* Levels count from the roots, and a path has an id for each level.
PathsSpell(c) ==
    \A id \in DOMAIN c :
        /\ Len(c[id].path) = c[id].level + 1
        /\ c[id].parent = 0 => c[id].level = 0
        /\ \A n \in 2 .. Len(c[id].path) : c[id].path[n] \in DOMAIN c

CountsAdd(c) ==
    \A id \in DOMAIN c : c[id].count = Cardinality(Children(c, id))

NamesDiffer(c) ==
    \A id, k \in DOMAIN c :
        c[id].parent = c[k].parent /\ c[id].name = c[k].name => id = k

ASSUME CategoryImportAssumption ==
    /\ MaxId \in Nat
    /\ \A i \in Import :
         /\ Assignments[i] \in Seq([product : Product, path : Paths(i)])
         /\ \A p \in Paths(i) : p \in Seq(Name) /\ p # <<>>
    /\ NoName \notin Name
    /\ \A c \in Existing :
         /\ \E n \in 0 .. MaxId : DOMAIN c = 1 .. n
         /\ c \in [DOMAIN c -> Category]
         /\ PathsExtend(c) /\ PathsSpell(c) /\ CountsAdd(c) /\ NamesDiffer(c)
         /\ \A id \in DOMAIN c : c[id].parent # 0 => c[id].attr = 1

VARIABLES
    cats,       \* catalog_category_entity and its name rows: id -> category
    nextId,     \* auto-increment counter of the categories
    attrs,      \* the committed "name" attributes of categories
    nextAttr,   \* auto-increment counter of the attributes
    links,      \* catalog_category_product
    pc,         \* where each import's flush is
    snap,       \* the categories of its snapshot
    attr,       \* its name_attr_id
    own,        \* the categories it has inserted
    counts,     \* the children_count of the rows it has updated, and locks
    root,       \* the root category it walks from
    parent,     \* the category its walk has come to
    done,       \* how many segments of the path it has walked
    memo,       \* path_cache: path -> category id
    leaves,     \* links: the category of each assignment walked so far
    overlap     \* history: whether two flushes ever ran at once

shared == <<cats, nextId, attrs, nextAttr, links>>
walk   == <<root, parent, done, memo, leaves>>
vars   == <<cats, nextId, attrs, nextAttr, links, pc, snap, attr, own, counts,
            root, parent, done, memo, leaves, overlap>>

None == [id \in {} |-> 0]

Active == {"root", "walk", "count"}
Busy   == {i \in Import : pc[i] \in Active}

TypeOK ==
    /\ nextId \in 1 .. MaxId + 1 /\ DOMAIN cats \subseteq 1 .. nextId - 1
    /\ cats \in [DOMAIN cats -> Category]
    /\ nextAttr \in Nat \ {0} /\ attrs \subseteq 1 .. nextAttr - 1
    /\ links \subseteq (DOMAIN cats) \X Product
    /\ pc \in [Import -> Active \cup {"idle", "ok", "failed"}]
    /\ snap \in [Import -> SUBSET DOMAIN cats]
    /\ attr \in [Import -> Nat]
    /\ DOMAIN own = Import /\ DOMAIN counts = Import /\ DOMAIN memo = Import
    /\ root \in [Import -> Id \cup {0}]
    /\ parent \in [Import -> Id \cup {0}]
    /\ done \in [Import -> Nat]
    /\ leaves \in [Import -> Seq(Id)]
    /\ overlap \in BOOLEAN
    /\ \A i \in Import :
         /\ DOMAIN own[i] \subseteq (1 .. nextId - 1) \ DOMAIN cats
         /\ own[i] \in [DOMAIN own[i] -> Category]
         /\ DOMAIN counts[i] \subseteq DOMAIN own[i] \cup DOMAIN cats
         /\ counts[i] \in [DOMAIN counts[i] -> Nat]
         /\ memo[i] \in [DOMAIN memo[i] -> Id]
         /\ Len(leaves[i]) <= Len(Assignments[i])

Init ==
    /\ cats \in Existing
    /\ nextId = Cardinality(DOMAIN cats) + 1
    /\ \/ attrs = {1} /\ nextAttr = 2
       \/ attrs = {} /\ nextAttr = 1 /\ \A id \in DOMAIN cats : cats[id].parent = 0
    /\ links = {}
    /\ pc = [i \in Import |-> "idle"]
    /\ snap = [i \in Import |-> {}]
    /\ attr = [i \in Import |-> 0]
    /\ own = [i \in Import |-> None]
    /\ counts = [i \in Import |-> None]
    /\ root = [i \in Import |-> 0]
    /\ parent = [i \in Import |-> 0]
    /\ done = [i \in Import |-> 0]
    /\ memo = [i \in Import |-> None]
    /\ leaves = [i \in Import |-> <<>>]
    /\ overlap = FALSE

-----------------------------------------------------------------------------
Goto(i, place) == pc' = [pc EXCEPT ![i] = place]

\* f overridden by g.
Over(f, g) == [k \in DOMAIN f \cup DOMAIN g |-> IF k \in DOMAIN g THEN g[k] ELSE f[k]]
Single(k, x) == [y \in {k} |-> x]

\* Mutant: the SELECTs do not run in the transaction.
VisibleToOthers(i) == snap[i]

\* What the SELECTs of i see.
Visible(i) == snap[i] \cup DOMAIN own[i]
Cat(i, id) == IF id \in DOMAIN own[i] THEN own[i][id] ELSE cats[id]

\* The first SELECT takes the snapshot; without a name attribute it is made.
Begin(i) ==
    /\ pc[i] = "idle" /\ Assignments[i] # <<>> /\ Goto(i, "root")
    /\ snap' = [snap EXCEPT ![i] = DOMAIN cats]
    /\ \/ /\ \E a \in attrs : attr' = [attr EXCEPT ![i] = a]
          /\ UNCHANGED nextAttr
       \/ /\ attrs = {}
          /\ attr' = [attr EXCEPT ![i] = nextAttr]
          /\ nextAttr' = nextAttr + 1
    /\ overlap' = (overlap \/ Busy # {})
    /\ UNCHANGED <<cats, nextId, attrs, links, own, counts, walk>>

Roots(i) == {id \in Visible(i) : Cat(i, id).parent = 0}

StartWalk(i, id) ==
    /\ Goto(i, "walk")
    /\ root' = [root EXCEPT ![i] = id]
    /\ parent' = [parent EXCEPT ![i] = id]
    /\ UNCHANGED <<cats, attrs, nextAttr, links, snap, attr, counts, done, memo,
                   leaves, overlap>>

FindRoot(i) ==
    /\ pc[i] = "root"
    /\ \E id \in Roots(i) : /\ \A k \in Roots(i) : id <= k
                            /\ StartWalk(i, id)
    /\ UNCHANGED <<nextId, own>>

\* The path of a new root is "1" whatever its id.
RootCategory == [parent |-> 0, path |-> <<1>>, level |-> 0, name |-> NoName,
                 attr |-> 0, count |-> 0]

CreateRoot(i) ==
    /\ pc[i] = "root" /\ Roots(i) = {} /\ nextId <= MaxId
    /\ own' = [own EXCEPT ![i] = Over(@, Single(nextId, RootCategory))]
    /\ nextId' = nextId + 1
    /\ StartWalk(i, nextId)

\* The assignment i is at.
Walking(i)  == pc[i] = "walk" /\ Len(leaves[i]) < Len(Assignments[i])
Path(i)     == Assignments[i][Len(leaves[i]) + 1].path
AtStart(i)  == done[i] = 0 /\ parent[i] = root[i]
Segment(i)  == Path(i)[done[i] + 1]

Resolved(i, id) ==
    /\ leaves' = [leaves EXCEPT ![i] = Append(@, id)]
    /\ parent' = [parent EXCEPT ![i] = root[i]]
    /\ done' = [done EXCEPT ![i] = 0]
    /\ UNCHANGED <<shared, pc, snap, attr, own, counts, root, overlap>>

\* Mutant: the cache is keyed by the last segment of the path.
MemoKeyLeaf(p) == <<p[Len(p)]>>
MemoKey(p) == p

Remember(i) ==
    /\ Walking(i) /\ AtStart(i) /\ MemoKey(Path(i)) \in DOMAIN memo[i]
    /\ Resolved(i, memo[i][MemoKey(Path(i))])
    /\ UNCHANGED memo

PathEnds(i) ==
    /\ Walking(i) /\ done[i] = Len(Path(i))
    /\ memo' = [memo EXCEPT ![i] = Over(@, Single(MemoKey(Path(i)), parent[i]))]
    /\ Resolved(i, parent[i])

Matches(i) == {id \in Visible(i) : /\ Cat(i, id).parent = parent[i]
                                  /\ Cat(i, id).name = Segment(i)
                                  /\ Cat(i, id).attr = attr[i]}

Unresolved(i) == /\ Walking(i) /\ done[i] < Len(Path(i))
                 /\ ~(AtStart(i) /\ MemoKey(Path(i)) \in DOMAIN memo[i])

\* LIMIT 1 without an order: any of several siblings of one name.
Descend(i) ==
    /\ Unresolved(i)
    /\ \E id \in Matches(i) : parent' = [parent EXCEPT ![i] = id]
    /\ done' = [done EXCEPT ![i] = @ + 1]
    /\ UNCHANGED <<shared, pc, snap, attr, own, counts, root, memo, leaves, overlap>>

\* Mutant: the path and the level are worked out from the root.
ChildOfRoot(i, p, id) ==
    [parent |-> p, path |-> Append(Cat(i, root[i]).path, id),
     level |-> Cat(i, root[i]).level + 1,
     name |-> Segment(i), attr |-> attr[i], count |-> 0]

\* Inserts the category and its name, and sets its path.
Child(i, p, id) ==
    [parent |-> p, path |-> Append(Cat(i, p).path, id), level |-> Cat(i, p).level + 1,
     name |-> Segment(i), attr |-> attr[i], count |-> 0]

CreateChild(i) ==
    /\ Unresolved(i) /\ Matches(i) = {} /\ nextId <= MaxId
    /\ own' = [own EXCEPT ![i] = Over(@, Single(nextId, Child(i, parent[i], nextId)))]
    /\ nextId' = nextId + 1
    /\ Goto(i, "count")
    /\ UNCHANGED <<cats, attrs, nextAttr, links, snap, attr, counts, walk, overlap>>

\* Another transaction has updated, and thereby locked, the parent's row.
ParentLocked(i) == \E j \in Import \ {i} : parent[i] \in DOMAIN counts[j]

\* children_count + 1, on the row last committed or i's own.
CountOf(i, id) == IF id \in DOMAIN counts[i] THEN counts[i][id] ELSE Cat(i, id).count

IncrementParent(i) ==
    /\ counts' = [counts EXCEPT ![i] =
                    Over(@, Single(parent[i], CountOf(i, parent[i]) + 1))]
    /\ parent' = [parent EXCEPT ![i] = CHOOSE id \in DOMAIN own[i] :
                                        \A k \in DOMAIN own[i] : k <= id]
    /\ done' = [done EXCEPT ![i] = @ + 1]
    /\ Goto(i, "walk")
    /\ UNCHANGED <<shared, snap, attr, own, root, memo, leaves, overlap>>

\* Mutant: reads the count, then writes it plus one.
CountParentUnlocked(i) == pc[i] = "count" /\ IncrementParent(i)

CountParent(i) == pc[i] = "count" /\ ~ParentLocked(i) /\ IncrementParent(i)

\* The links are inserted, those there are already left alone, and all is
\* committed.
Counted(i) == Over(cats, own[i])

Commit(i) ==
    /\ pc[i] = "walk" /\ ~Walking(i) /\ Goto(i, "ok")
    /\ cats' = [id \in DOMAIN Counted(i) |->
                  [Counted(i)[id] EXCEPT !.count = IF id \in DOMAIN counts[i]
                                                  THEN counts[i][id] ELSE @]]
    /\ links' = links \cup {<<leaves[i][n], Assignments[i][n].product>> :
                              n \in DOMAIN leaves[i]}
    /\ attrs' = attrs \cup {attr[i]}
    /\ own' = [own EXCEPT ![i] = None]
    /\ counts' = [counts EXCEPT ![i] = None]
    /\ UNCHANGED <<nextId, nextAttr, snap, attr, walk, overlap>>

RollBack(i) ==
    /\ Goto(i, "failed")
    /\ own' = [own EXCEPT ![i] = None]
    /\ counts' = [counts EXCEPT ![i] = None]
    /\ UNCHANGED <<shared, snap, attr, walk, overlap>>

\* A statement fails, or the import is aborted or dies: all is rolled back but
\* the ids that were handed out.
Fails(i) == pc[i] \in Active /\ RollBack(i)

\* Mutant: tries the statement again and keeps its locks.
LockRetried(i) == pc[i] = "count" /\ ParentLocked(i) /\ UNCHANGED vars

\* The server refuses to wait any longer for the parent's row.
LockRefused(i) == pc[i] = "count" /\ ParentLocked(i) /\ RollBack(i)

Walk(i) == \/ FindRoot(i) \/ CreateRoot(i) \/ Remember(i) \/ PathEnds(i)
           \/ Descend(i) \/ CreateChild(i) \/ CountParent(i) \/ Commit(i)

Next == \E i \in Import : Begin(i) \/ Walk(i) \/ LockRefused(i) \/ Fails(i)

Spec == Init /\ [][Next]_vars

\* The server runs each statement, or refuses it in the end.
FairSpec == Spec /\ \A i \in Import : WF_vars(Walk(i) \/ LockRefused(i))

-----------------------------------------------------------------------------
(* Properties. *)

\* The path of a committed category extends that of its parent by its own id,
\* its parent is there and one level up, whoever rolls back or commits
\* between a category's SELECT and the INSERT of its child.
PathsExtendTheParents == PathsExtend(cats)

\* children_count is the number of committed children, however many imports
\* add children to one parent at once.
ChildrenAreCounted == CountsAdd(cats)

\* A product is in a category only if a file assigns it the path that the
\* names from below the root down to that category spell, and an import that
\* succeeded has put each of its products into a category so spelled.
Spelled(id) == [n \in 1 .. cats[id].level |-> cats[cats[id].path[n + 1]].name]

LinksNameTheirPath ==
    LET linked      == {[product |-> l[2], path |-> Spelled(l[1])] : l \in links}
        assigned(i) == {Assignments[i][k] : k \in DOMAIN Assignments[i]} IN
    /\ linked \subseteq UNION {assigned(i) : i \in Import}
    /\ \A i \in Import : pc[i] = "ok" => assigned(i) \subseteq linked

\* Imports that run one after the other, whether they succeed or fail and roll
\* back, share one root and never make two siblings of one name: to import a
\* file again creates no category.
SerialImportsShareCategories == ~overlap => NamesDiffer(cats)

\* Every flush ends, though two may wait for each other's parent rows.
FlushesEnd == \A i \in Import : pc[i] \in Active ~> pc[i] \in {"ok", "failed"}

\* crates/web/src/product.rs walks "a category's materialized path (e.g.
\* 1/2/5)": a path is of the ids from the root down to the category.  A root
\* made by an import has the path "1" whatever its id.
PathEndsInItself ==
    \A id \in DOMAIN cats : cats[id].path[Len(cats[id].path)] = id
=============================================================================
