------------------------ MODULE CategoryPagesProofs ------------------------
(***************************************************************************)
(* CategoryPages keeps its promises for any categories, requests, caches   *)
(* and histories of the database.  The lemmas about lists come first: what *)
(* Kept, a recursive function, leaves of a list.  Then what every request  *)
(* and every change of the database leave alone, and one invariant for     *)
(* each of the properties; for the menus, what Built, a recursive function *)
(* too, makes of the rows.                                                 *)
(***************************************************************************)
EXTENDS CategoryPages, FiniteSetTheorems, WellFoundedInduction, TLAPS

-----------------------------------------------------------------------------
(* Lists.                                                                  *)

\* A set of numbers has a least one.
LEMMA LeastExists ==
    ASSUME NEW T \in SUBSET Nat, T # {}
    PROVE  \E x \in T : \A y \in T : x <= y
<1>1. PICK x \in T : \A y \in T : ~ (<<y, x>> \in OpToRel(<, Nat))
  BY NatLessThanWellFounded, WFMin, Zenon
<1>2. \A y \in T : <<y, x>> \in OpToRel(<, Nat) <=> y < x
  BY Zenon DEF OpToRel
<1>3. \A y \in T : ~ (y < x)
  BY <1>1, <1>2, Zenon
<1> QED BY <1>3

\* Induction, for a property given as the set of the numbers that have it.
LEMMA Induction ==
    ASSUME NEW m \in Nat, NEW P, 0 \in P, \A n \in 0 .. m - 1 : n \in P => n + 1 \in P
    PROVE  \A n \in 0 .. m : n \in P
<1> DEFINE T == {n \in 0 .. m : n \notin P}
<1> SUFFICES ASSUME T # {} PROVE FALSE
  OBVIOUS
<1>0. T \in SUBSET Nat
  OBVIOUS
<1>1. PICK x \in T : \A y \in T : x <= y
  <2> HIDE DEF T
  <2> QED BY <1>0, LeastExists
<1>2. x # 0 /\ x - 1 \in 0 .. m - 1 /\ x - 1 \notin T
  BY <1>1
<1>3. x - 1 \in P /\ (x - 1) + 1 = x
  BY <1>2
<1> QED BY <1>1, <1>2, <1>3

\* f is the recursive function by which Kept is defined.
KeptIs(f, s, S) ==
    f = [n \in 0 .. Len(s) |->
           IF n = 0 THEN <<>>
           ELSE IF s[n] \in S THEN Append(f[n - 1], s[n]) ELSE f[n - 1]]

Extended(f, s, S, n) == IF s[n] \in S THEN Append(f[n - 1], s[n]) ELSE f[n - 1]

LEMMA KeptExists ==
    ASSUME NEW X, NEW s \in Seq(X), NEW S
    PROVE  \E f : KeptIs(f, s, S)
<1> DEFINE P == {m \in 0 .. Len(s) :
                   \E f \in [0 .. m -> Seq(X)] :
                     f[0] = <<>> /\ \A n \in 1 .. m : f[n] = Extended(f, s, S, n)}
<1>1. 0 \in P
  <2> DEFINE f == [n \in 0 .. 0 |-> <<>>]
  <2>1. f \in [0 .. 0 -> Seq(X)] /\ f[0] = <<>>
    OBVIOUS
  <2>2. \A n \in 1 .. 0 : f[n] = Extended(f, s, S, n)
    OBVIOUS
  <2> HIDE DEF f
  <2> QED BY <2>1, <2>2
<1>2. ASSUME NEW m \in 0 .. Len(s) - 1, m \in P
      PROVE  m + 1 \in P
  <2>1. PICK f \in [0 .. m -> Seq(X)] :
          f[0] = <<>> /\ \A n \in 1 .. m : f[n] = Extended(f, s, S, n)
    BY <1>2
  <2> DEFINE x == IF s[m + 1] \in S THEN Append(f[m], s[m + 1]) ELSE f[m]
             g == [n \in 0 .. m + 1 |-> IF n = m + 1 THEN x ELSE f[n]]
  <2>2. x \in Seq(X)
    OBVIOUS
  <2> HIDE DEF x
  <2>3. g \in [0 .. m + 1 -> Seq(X)] /\ g[0] = <<>>
    BY <2>1, <2>2
  <2>4. ASSUME NEW n \in 1 .. m + 1
        PROVE  g[n] = Extended(g, s, S, n)
    <3>1. CASE n = m + 1
      BY <3>1 DEF Extended, x
    <3>2. CASE n \in 1 .. m
      BY <3>2, <2>1 DEF Extended
    <3> QED BY <3>1, <3>2
  <2>5. m + 1 \in 0 .. Len(s)
    OBVIOUS
  <2> QED BY <2>3, <2>4, <2>5
<1>3. Len(s) \in P
  <2>1. Len(s) \in Nat
    OBVIOUS
  <2> HIDE DEF P
  <2>2. \A n \in 0 .. Len(s) : n \in P
    BY <1>1, <1>2, <2>1, Induction
  <2> QED BY <2>1, <2>2
<1>4. PICK f \in [0 .. Len(s) -> Seq(X)] :
        f[0] = <<>> /\ \A n \in 1 .. Len(s) : f[n] = Extended(f, s, S, n)
  BY <1>3
<1>5. f = [n \in 0 .. Len(s) |-> f[n]]
  OBVIOUS
<1>6. \A n \in 0 .. Len(s) : f[n] = IF n = 0 THEN <<>>
           ELSE IF s[n] \in S THEN Append(f[n - 1], s[n]) ELSE f[n - 1]
  <2> TAKE n \in 0 .. Len(s)
  <2>1. CASE n = 0
    BY <2>1, <1>4
  <2>2. CASE n # 0
    <3>1. n \in 1 .. Len(s)
      BY <2>2
    <3> QED BY <3>1, <2>2, <1>4 DEF Extended
  <2> QED BY <2>1, <2>2
<1> QED BY <1>5, <1>6 DEF KeptIs

LEMMA KeptUnfolds ==
    ASSUME NEW X, NEW s \in Seq(X), NEW S
    PROVE  \E f : KeptIs(f, s, S) /\ Kept(s, S) = f[Len(s)]
<1> DEFINE k == CHOOSE f : KeptIs(f, s, S)
<1>1. KeptIs(k, s, S)
  BY KeptExists, Zenon
<1>2. Kept(s, S) = k[Len(s)]
  BY Zenon DEF Kept, KeptIs
<1> QED BY <1>1, <1>2, Zenon

\* h picks, in order, the positions of s up to n that t is made of.
Picks(h, t, s, S, n) ==
    /\ h \in [1 .. Len(t) -> 1 .. n]
    /\ \A a, b \in 1 .. Len(t) : a < b => h[a] < h[b]
    /\ \A a \in 1 .. Len(t) : t[a] = s[h[a]] /\ t[a] \in S
    /\ \A i \in 1 .. n : s[i] \in S => \E a \in 1 .. Len(t) : h[a] = i

LEMMA PicksNext ==
    ASSUME NEW X, NEW s \in Seq(X), NEW S, NEW n \in 1 .. Len(s), NEW t \in Seq(X), NEW h,
           Picks(h, t, s, S, n - 1)
    PROVE  /\ s[n] \notin S => Picks(h, t, s, S, n)
           /\ s[n] \in S => \E g : Picks(g, Append(t, s[n]), s, S, n)
<1>1. ASSUME s[n] \notin S
      PROVE  Picks(h, t, s, S, n)
  <2>1. h \in [1 .. Len(t) -> 1 .. n]
    BY DEF Picks
  <2>2. \A i \in 1 .. n : s[i] \in S => i \in 1 .. n - 1
    BY <1>1
  <2> QED BY <2>1, <2>2 DEF Picks
<1>2. ASSUME s[n] \in S
      PROVE  \E g : Picks(g, Append(t, s[n]), s, S, n)
  <2> DEFINE l == Len(t) + 1
             g == [a \in 1 .. l |-> IF a = l THEN n ELSE h[a]]
             u == Append(t, s[n])
  <2>1. l \in Nat \ {0} /\ Len(u) = l /\ u[l] = s[n] /\ \A a \in 1 .. l - 1 : u[a] = t[a]
    OBVIOUS
  <2>2. \A a \in 1 .. l - 1 : h[a] \in 1 .. n - 1
    BY DEF Picks
  <2> HIDE DEF u
  <2>3. g \in [1 .. l -> 1 .. n]
    BY <2>1, <2>2
  <2>4. \A a, b \in 1 .. l : a < b => g[a] < g[b]
    <3> TAKE a, b \in 1 .. l
    <3> HAVE a < b
    <3>1. a \in 1 .. l - 1 /\ a \in 1 .. Len(t) /\ a # l
      BY <2>1
    <3>2. g[a] = h[a] /\ h[a] \in 1 .. n - 1
      BY <2>2, <3>1
    <3>3. CASE b = l
      BY <3>2, <3>3
    <3>4. CASE b # l
      <4>1. b \in 1 .. Len(t) /\ g[b] = h[b]
        BY <2>1, <3>4
      <4>2. h[a] < h[b]
        BY <3>1, <4>1 DEF Picks
      <4> QED BY <3>2, <4>1, <4>2
    <3> QED BY <3>3, <3>4
  <2>5. \A a \in 1 .. l : u[a] = s[g[a]] /\ u[a] \in S
    BY <1>2, <2>1, <2>2 DEF Picks
  <2>6. ASSUME NEW i \in 1 .. n, s[i] \in S
        PROVE  \E a \in 1 .. l : g[a] = i
    <3>1. CASE i = n
      <4>1. g[l] = i /\ l \in 1 .. l
        BY <3>1, <2>1
      <4> QED BY <4>1
    <3>2. CASE i \in 1 .. n - 1
      <4>1. PICK a \in 1 .. Len(t) : h[a] = i
        BY <2>6, <3>2 DEF Picks
      <4>2. g[a] = i /\ a \in 1 .. l
        BY <4>1
      <4> QED BY <4>2
    <3> QED BY <3>1, <3>2
  <2> HIDE DEF l, g
  <2>7. Picks(g, u, s, S, n)
    BY <2>1, <2>3, <2>4, <2>5, <2>6 DEF Picks
  <2> QED BY <2>7 DEF u
<1> QED BY <1>1, <1>2

LEMMA KeptPicks ==
    ASSUME NEW X, NEW s \in Seq(X), NEW S
    PROVE  Kept(s, S) \in Seq(X) /\ \E h : Picks(h, Kept(s, S), s, S, Len(s))
<1>1. PICK f : KeptIs(f, s, S) /\ Kept(s, S) = f[Len(s)]
  BY KeptUnfolds
<1>2. /\ Len(s) \in Nat /\ f[0] = <<>>
      /\ \A n \in 1 .. Len(s) :
           f[n] = IF s[n] \in S THEN Append(f[n - 1], s[n]) ELSE f[n - 1]
  <2>1. Len(s) \in Nat
    OBVIOUS
  <2>2. \A n \in 0 .. Len(s) : f[n] = IF n = 0 THEN <<>>
           ELSE IF s[n] \in S THEN Append(f[n - 1], s[n]) ELSE f[n - 1]
    BY <1>1, Zenon DEF KeptIs
  <2> QED BY <2>1, <2>2
<1> DEFINE P == {n \in 0 .. Len(s) : f[n] \in Seq(X) /\ \E h : Picks(h, f[n], s, S, n)}
<1>3. 0 \in P
  <2> DEFINE h == [a \in 1 .. 0 |-> 1]
             t == <<>>
  <2>1. t \in Seq(X) /\ Len(t) = 0
    OBVIOUS
  <2> HIDE DEF t
  <2>2. Picks(h, t, s, S, 0)
    BY <2>1 DEF Picks
  <2>3. f[0] = t /\ 0 \in 0 .. Len(s)
    BY <1>2 DEF t
  <2> HIDE DEF h
  <2> QED BY <2>1, <2>2, <2>3
<1>4. ASSUME NEW n \in 0 .. Len(s) - 1, n \in P
      PROVE  n + 1 \in P
  <2>1. PICK h : Picks(h, f[n], s, S, n)
    BY <1>4
  <2> DEFINE k == n + 1
  <2>2. k \in 1 .. Len(s) /\ k - 1 = n /\ f[n] \in Seq(X)
    BY <1>4
  <2>3. f[k] = IF s[k] \in S THEN Append(f[n], s[k]) ELSE f[n]
    BY <1>2, <2>2
  <2>4. f[k] \in Seq(X)
    BY <2>2, <2>3
  <2>5. \E g : Picks(g, f[k], s, S, k)
    <3> HIDE DEF k
    <3>1. /\ s[k] \notin S => Picks(h, f[n], s, S, k)
          /\ s[k] \in S => \E g : Picks(g, Append(f[n], s[k]), s, S, k)
      BY <2>1, <2>2, PicksNext
    <3> QED BY <3>1, <2>3
  <2> QED BY <2>2, <2>4, <2>5
<1> HIDE DEF P
<1>5. \A n \in 0 .. Len(s) : n \in P
  BY <1>2, <1>3, <1>4, Induction
<1>6. Len(s) \in P
  BY <1>2, <1>5
<1> QED BY <1>1, <1>6 DEF P

\* The first m elements of t go up.
Increasing(t, m) == \A a, b \in 1 .. m : a < b => t[a] < t[b]

LEMMA SameBelow ==
    ASSUME NEW m \in Nat, NEW t \in [1 .. m -> Nat], Increasing(t, m),
           NEW k \in Nat, NEW u \in [1 .. k -> Nat], Increasing(u, k),
           NEW n \in 1 .. m, n <= k, \A j \in 1 .. n - 1 : t[j] = u[j],
           \E b \in 1 .. k : u[b] = t[n]
    PROVE  ~ (t[n] < u[n])
<1> SUFFICES ASSUME t[n] < u[n] PROVE FALSE
  OBVIOUS
<1>1. PICK b \in 1 .. k : u[b] = t[n]
  OBVIOUS
<1>2. n \in 1 .. k /\ t[n] \in Nat /\ u[n] \in Nat /\ u[b] \in Nat
  OBVIOUS
<1>3. b < n
  BY <1>1, <1>2 DEF Increasing
<1>4. t[b] = t[n] /\ t[b] < t[n]
  BY <1>1, <1>3 DEF Increasing
<1> QED BY <1>2, <1>4

LEMMA NoMore ==
    ASSUME NEW m \in Nat, NEW t \in [1 .. m -> Nat],
           NEW k \in Nat, NEW u \in [1 .. k -> Nat], Increasing(u, k),
           \A j \in 1 .. m : j <= k => t[j] = u[j],
           \A b \in 1 .. k : \E a \in 1 .. m : t[a] = u[b]
    PROVE  ~ (m < k)
<1> SUFFICES ASSUME m < k PROVE FALSE
  OBVIOUS
<1>1. m + 1 \in 1 .. k
  OBVIOUS
<1>2. PICK a \in 1 .. m : t[a] = u[m + 1]
  BY <1>1
<1>3. a \in 1 .. k /\ u[a] = u[m + 1] /\ a < m + 1
  BY <1>2
<1>4. u[a] < u[m + 1] /\ u[a] \in Nat
  BY <1>1, <1>3 DEF Increasing
<1> QED BY <1>3, <1>4

\* A set of numbers is listed in increasing order in one way only.
LEMMA OneOrder ==
    ASSUME NEW m \in Nat, NEW t \in [1 .. m -> Nat], Increasing(t, m),
           NEW k \in Nat, NEW u \in [1 .. k -> Nat], Increasing(u, k),
           \A a \in 1 .. m : \E b \in 1 .. k : u[b] = t[a],
           \A b \in 1 .. k : \E a \in 1 .. m : t[a] = u[b]
    PROVE  t = u
<1> DEFINE T == {n \in 1 .. m : n <= k /\ t[n] # u[n]}
<1>1. T = {}
  <2> SUFFICES ASSUME T # {} PROVE FALSE
    OBVIOUS
  <2>1. T \in SUBSET Nat
    OBVIOUS
  <2>2. PICK n \in T : \A j \in T : n <= j
    <3> HIDE DEF T
    <3> QED BY <2>1, LeastExists
  <2>3. n \in 1 .. m /\ n \in 1 .. k /\ n <= k /\ n <= m /\ t[n] # u[n]
    OBVIOUS
  <2>4. \A j \in 1 .. n - 1 : t[j] = u[j]
    <3> SUFFICES ASSUME NEW j \in 1 .. n - 1, t[j] # u[j] PROVE FALSE
      OBVIOUS
    <3>1. j \in T
      BY <2>3
    <3>2. n <= j
      BY <2>2, <3>1
    <3> QED BY <2>3, <3>2
  <2>5. ~ (t[n] < u[n])
    BY <2>3, <2>4, SameBelow
  <2>6. ~ (u[n] < t[n])
    <3>1. \A j \in 1 .. n - 1 : u[j] = t[j]
      BY <2>4
    <3> QED BY <2>3, <3>1, SameBelow
  <2>7. t[n] \in Nat /\ u[n] \in Nat
    BY <2>3
  <2> QED BY <2>3, <2>5, <2>6, <2>7
<1>2. \A n \in 1 .. m : n <= k => t[n] = u[n]
  BY <1>1
<1>3. ~ (m < k)
  BY <1>2, NoMore
<1>4. ~ (k < m)
  <2>1. \A n \in 1 .. k : n <= m => u[n] = t[n]
    BY <1>2
  <2> QED BY <2>1, NoMore
<1>5. m = k
  BY <1>3, <1>4
<1> QED BY <1>2, <1>5

-----------------------------------------------------------------------------
(* The shape of the state.                                                 *)

LEMMA GreatestExists ==
    ASSUME NEW n \in Nat, NEW L \in SUBSET (1 .. n), L # {}
    PROVE  Max(L) \in L /\ \A k \in L : k <= Max(L)
<1> DEFINE T == {n - m : m \in L}
<1>1. T \in SUBSET Nat /\ T # {}
  <2>1. \A m \in L : n - m \in Nat
    OBVIOUS
  <2>2. PICK m \in L : n - m \in T
    OBVIOUS
  <2> QED BY <2>1, <2>2
<1> HIDE DEF T
<1>2. PICK x \in T : \A y \in T : x <= y
  BY <1>1, LeastExists
<1>3. PICK m \in L : x = n - m
  BY DEF T
<1>4. \A k \in L : n - k \in T
  BY DEF T
<1>5. \A k \in L : m >= k
  BY <1>2, <1>3, <1>4
<1>6. Max(L) \in L /\ \A k \in L : Max(L) >= k
  BY <1>5 DEF Max
<1> QED BY <1>6

Category == [parent_id : Nat, path : Seq(Nat), name : Name \cup {NoName}]
Table    == UNION {[D -> Category] : D \in SUBSET Id}

Fields == {"api", "kind", "uids", "pc", "ids", "queue", "held", "found", "menu", "from",
           "menuFrom", "menuRead", "menuAt", "answeredAt"}

Shape ==
    /\ versions \in Seq(Table) /\ Len(versions) > 0
    /\ since \in Seq(Nat) /\ Len(since) = Len(versions)
    /\ now \in Nat
    /\ DOMAIN req = Request /\ \A r \in Request : DOMAIN req[r] = Fields

LEMMA TableIs ==
    ASSUME NEW c
    PROVE  c \in Table <=> /\ DOMAIN c \subseteq Id
                           /\ c = [id \in DOMAIN c |-> c[id]]
                           /\ \A id \in DOMAIN c : c[id] \in Category
<1>1. ASSUME c \in Table
      PROVE  /\ DOMAIN c \subseteq Id
             /\ c = [id \in DOMAIN c |-> c[id]]
             /\ \A id \in DOMAIN c : c[id] \in Category
  BY <1>1 DEF Table
<1>2. ASSUME DOMAIN c \subseteq Id, c = [id \in DOMAIN c |-> c[id]],
             \A id \in DOMAIN c : c[id] \in Category
      PROVE  c \in Table
  <2>1. c \in [DOMAIN c -> Category] /\ DOMAIN c \in SUBSET Id
    BY <1>2
  <2> QED BY <2>1 DEF Table
<1> QED BY <1>1, <1>2

LEMMA AppendIs ==
    ASSUME NEW S, NEW s \in Seq(S), NEW x \in S
    PROVE  /\ Append(s, x) \in Seq(S)
           /\ Len(Append(s, x)) = Len(s) + 1 /\ Len(s) \in Nat
           /\ DOMAIN Append(s, x) = 1 .. Len(s) + 1 /\ DOMAIN s = 1 .. Len(s)
           /\ Append(s, x)[Len(s) + 1] = x
           /\ \A n \in DOMAIN s : Append(s, x)[n] = s[n]
OBVIOUS

LEMMA IdIs == MaxId \in Nat /\ Id \subseteq Nat
BY CategoryPagesAssumption DEF Id

LEMMA LastVersion ==
    ASSUME NEW vs \in Seq(Table), Len(vs) > 0
    PROVE  /\ DOMAIN vs = 1 .. Len(vs) /\ Len(vs) \in Nat
           /\ Last(vs) = vs[Len(vs)] /\ Last(vs) \in Table
           /\ \A v \in DOMAIN vs : vs[v] \in Table
BY DEF Last

LEMMA IdleFields == DOMAIN Idle = Fields
BY DEF Idle, Fields

LEMMA AboveAll ==
    ASSUME NEW top \in Nat, NEW L, \A k \in L : k \in Nat /\ k <= top
    PROVE  1 + top \in Nat \ {0} /\ \A k \in L : k < 1 + top
OBVIOUS

\* The id of a new category is one that no category ever had.
LEMMA NewId ==
    ASSUME NEW vs \in Seq(Table), Len(vs) > 0, DOMAIN Last(vs) # {},
           NEW id, id = 1 + Max(UNION {DOMAIN vs[v] : v \in DOMAIN vs})
    PROVE  /\ id \in Nat \ {0}
           /\ \A v \in DOMAIN vs : \A k \in DOMAIN vs[v] : k < id
<1> DEFINE L == UNION {DOMAIN vs[v] : v \in DOMAIN vs}
<1>1. \A v \in DOMAIN vs : DOMAIN vs[v] \subseteq Id
  BY LastVersion, TableIs
<1>2. L \in SUBSET (1 .. MaxId)
  BY <1>1 DEF Id
<1>3. L # {}
  BY LastVersion
<1>4. \A v \in DOMAIN vs : DOMAIN vs[v] \subseteq L
  OBVIOUS
<1> HIDE DEF L
<1>5. Max(L) \in L /\ \A k \in L : k <= Max(L)
  BY <1>2, <1>3, IdIs, GreatestExists
<1>6. id = 1 + Max(L)
  BY DEF L
<1>7. Max(L) \in 1 .. MaxId
  BY <1>2, <1>5
<1>8. id \in Nat \ {0} /\ \A k \in L : k < id
  <2> DEFINE top == Max(L)
  <2>1. /\ top \in Nat /\ id = 1 + top
        /\ \A k \in L : k \in Nat /\ k <= top
    BY <1>2, <1>5, <1>6, <1>7, IdIs
  <2> HIDE DEF top
  <2> QED BY <2>1, AboveAll, Zenon
<1> QED BY <1>4, <1>8

\* What a change of the database adds to its versions: the table with other
\* names and without the categories below some, or with a new category below
\* one of them, of an id that none ever had.
Grows(vs, c) ==
    /\ c \in Table
    /\ \/ \E gone \in SUBSET Id :
            /\ DOMAIN c = {id \in DOMAIN Last(vs) : \A n \in DOMAIN Last(vs)[id].path :
                                                     Last(vs)[id].path[n] \notin gone}
            /\ \A id \in DOMAIN c : /\ c[id].path = Last(vs)[id].path
                                    /\ c[id].parent_id = Last(vs)[id].parent_id
       \/ \E id \in Id, parent \in DOMAIN Last(vs) :
            /\ DOMAIN c = DOMAIN Last(vs) \cup {id}
            /\ \A k \in DOMAIN Last(vs) : c[k] = Last(vs)[k]
            /\ \A v \in DOMAIN vs : \A k \in DOMAIN vs[v] : k < id
            /\ c[id].path = Append(Last(vs)[parent].path, id)
            /\ c[id].parent_id = parent

Change == Create \/ Rename \/ Delete

LEMMA ChangeGrows ==
    ASSUME Shape, Change
    PROVE  /\ \E c : Grows(versions, c) /\ versions' = Append(versions, c)
           /\ since' = Append(since, now)
           /\ UNCHANGED <<cache, nav, now, req>>
<1>0. /\ Categories = Last(versions) /\ Categories \in Table
      /\ DOMAIN Categories \subseteq Id
      /\ \A id \in DOMAIN Categories : Categories[id] \in Category
  BY LastVersion, TableIs DEF Shape, Categories
<1>1. CASE Create
  <2>1. PICK parent \in DOMAIN Categories, name \in Name :
          LET id == 1 + Max(UNION {DOMAIN versions[v] : v \in DOMAIN versions}) IN
          /\ id <= MaxId
          /\ Written(With(Categories, id,
               [parent_id |-> parent, path |-> Append(Categories[parent].path, id),
                name |-> name]))
    BY <1>1 DEF Create
  <2>2. PICK id : id = 1 + Max(UNION {DOMAIN versions[v] : v \in DOMAIN versions})
    OBVIOUS
  <2> DEFINE x == [parent_id |-> parent, path |-> Append(Categories[parent].path, id),
                   name |-> name]
             c == With(Categories, id, x)
  <2>3. id <= MaxId /\ Written(c)
    BY <2>1, <2>2
  <2>4. id \in Nat \ {0} /\ \A v \in DOMAIN versions : \A k \in DOMAIN versions[v] : k < id
    <3>1. DOMAIN Last(versions) # {}
      BY <1>0
    <3> QED BY <2>2, <3>1, NewId DEF Shape
  <2>5. id \in Id
    BY <2>3, <2>4, IdIs DEF Id
  <2>6. x \in Category
    <3>1. parent \in Nat /\ Categories[parent].path \in Seq(Nat) /\ id \in Nat
      BY <1>0, <2>4, IdIs DEF Category
    <3>2. Append(Categories[parent].path, id) \in Seq(Nat)
      BY <3>1
    <3> QED BY <3>1, <3>2 DEF Category
  <2>7. x.path = Append(Categories[parent].path, id) /\ x.parent_id = parent
    OBVIOUS
  <2> HIDE DEF x
  <2>8. /\ DOMAIN c = DOMAIN Categories \cup {id}
        /\ c = [k \in DOMAIN c |-> c[k]]
        /\ \A k \in DOMAIN c : c[k] = IF k = id THEN x ELSE Categories[k]
    BY DEF With
  <2> HIDE DEF c
  <2>9. c \in Table
    BY <1>0, <2>5, <2>6, <2>8, TableIs
  <2>10. \A k \in DOMAIN Categories : c[k] = Categories[k]
    <3>1. id \notin DOMAIN Categories
      <4>1. id \in DOMAIN Categories => id < id
        BY <2>4, LastVersion DEF Shape, Categories
      <4> QED BY <2>4, <4>1
    <3> QED BY <2>8, <3>1
  <2>11. Grows(versions, c)
    BY <1>0, <2>4, <2>5, <2>7, <2>8, <2>9, <2>10 DEF Grows
  <2> QED BY <2>3, <2>11 DEF Written
<1>2. CASE Rename
  <2>1. PICK id \in DOMAIN Categories, name \in Name :
          Written([Categories EXCEPT ![id].name = name])
    BY <1>2 DEF Rename
  <2> DEFINE c == [Categories EXCEPT ![id].name = name]
  <2>2. /\ DOMAIN c = DOMAIN Categories
        /\ c = [k \in DOMAIN c |-> c[k]]
        /\ \A k \in DOMAIN c : c[k] = IF k = id THEN [Categories[k] EXCEPT !.name = name]
                                               ELSE Categories[k]
    BY <1>0, TableIs
  <2> HIDE DEF c
  <2>3. \A k \in DOMAIN c : /\ c[k] \in Category /\ c[k].path = Categories[k].path
                            /\ c[k].parent_id = Categories[k].parent_id
    BY <1>0, <2>2 DEF Category
  <2>4. c \in Table
    BY <1>0, <2>2, <2>3, TableIs
  <2>5. DOMAIN c = {k \in DOMAIN Categories : \A n \in DOMAIN Categories[k].path :
                                                  Categories[k].path[n] \notin {}}
    BY <2>2
  <2>6. Grows(versions, c)
    <3> DEFINE gone == {}
    <3>1. /\ gone \in SUBSET Id
          /\ DOMAIN c = {k \in DOMAIN Categories : \A n \in DOMAIN Categories[k].path :
                                                  Categories[k].path[n] \notin gone}
      BY <2>5
    <3> HIDE DEF gone
    <3> QED BY <1>0, <2>3, <2>4, <3>1 DEF Grows
  <2> QED BY <2>1, <2>6 DEF Written, c
<1>3. CASE Delete
  <2>1. PICK id \in DOMAIN Categories :
          Written([k \in {k \in DOMAIN Categories :
                            id \notin ToSet(Categories[k].path)} |-> Categories[k]])
    BY <1>3 DEF Delete
  <2> DEFINE c == [k \in {k \in DOMAIN Categories :
                            id \notin ToSet(Categories[k].path)} |-> Categories[k]]
  <2>2. /\ DOMAIN c \subseteq DOMAIN Categories
        /\ c = [k \in DOMAIN c |-> c[k]]
        /\ \A k \in DOMAIN c : c[k] = Categories[k]
    OBVIOUS
  <2>3. /\ {id} \in SUBSET Id
        /\ DOMAIN c = {k \in DOMAIN Categories : \A n \in DOMAIN Categories[k].path :
                                                Categories[k].path[n] \notin {id}}
    BY <1>0 DEF ToSet
  <2> HIDE DEF c
  <2>4. c \in Table
    BY <1>0, <2>2, TableIs
  <2>5. Grows(versions, c)
    <3> DEFINE gone == {id}
    <3>1. /\ gone \in SUBSET Id
          /\ DOMAIN c = {k \in DOMAIN Categories : \A n \in DOMAIN Categories[k].path :
                                                  Categories[k].path[n] \notin gone}
      BY <2>3
    <3> HIDE DEF gone
    <3> QED BY <1>0, <2>2, <2>4, <3>1 DEF Grows
  <2> QED BY <2>1, <2>5 DEF Written, c
<1> QED BY <1>1, <1>2, <1>3 DEF Change

\* A request that works changes nothing of the database, nor the other requests.
Works(r) == Handle(r) \/ Begin(r)

LEMMA StepIs ==
    ASSUME Shape, NEW r \in Request, NEW from, NEW new, Step(r, from, new), DOMAIN new = Fields
    PROVE  /\ req[r].pc = from /\ req'[r] = new
           /\ DOMAIN req' = Request /\ DOMAIN req'[r] = Fields
           /\ \A s \in Request \ {r} : req'[s] = req[s]
BY DEF Step, Shape

LEMMA StartIs ==
    ASSUME Shape, NEW r \in Request, NEW api, NEW kind, NEW pc, NEW ids, NEW uids,
           Start(r, api, kind, pc, ids, uids)
    PROVE  LET new == [Idle EXCEPT !.api = api, !.kind = kind, !.pc = pc, !.ids = ids,
                          !.queue = ids, !.uids = uids,
                          !.from = IF kind = "list" THEN Len(versions) ELSE 1]
           IN  /\ Step(r, "idle", new) /\ DOMAIN new = Fields
               /\ UNCHANGED <<versions, since, cache, nav, now>>
BY IdleFields DEF Start

\* How a request begins.
Starts(r) ==
    \E api, kind, pc, ids, uids :
        /\ Start(r, api, kind, pc, ids, uids)
        /\ \/ kind = "list" /\ pc \in {"rows", "not_found"}
           \/ kind \in {"ids", "one", "category"} /\ pc = "probe"
           \/ kind = "product" /\ pc = "path"
           \/ kind = "home" /\ pc = "menu"
           \/ kind = "tree" /\ pc = "menu_rows"

LEMMA BeginStarts ==
    ASSUME NEW r, Begin(r)
    PROVE  Starts(r)
<1>1. CASE StartList(r) \/ StartTree(r) \/ StartHome(r)
  BY <1>1, Zenon DEF StartList, StartTree, StartHome, Starts
<1>2. CASE StartByIds(r) \/ StartOne(r) \/ StartCategory(r)
  BY <1>2, Zenon DEF StartByIds, StartOne, StartCategory, Starts
<1>3. CASE StartCacheAll(r)
  BY <1>3, Zenon DEF StartCacheAll, StartList, Starts
<1>4. CASE StartCategories(r) \/ StartCategoryById(r)
  BY <1>4, Zenon DEF StartCategories, StartCategoryById, Starts
<1>5. CASE StartProduct(r)
  BY <1>5, Zenon DEF StartProduct, Starts
<1> QED BY <1>1, <1>2, <1>3, <1>4, <1>5 DEF Begin

Frame(r) ==
    /\ UNCHANGED <<versions, since, now>>
    /\ DOMAIN req' = Request /\ DOMAIN req'[r] = Fields
    /\ \A s \in Request \ {r} : req'[s] = req[s]

LEMMA WorkFrame ==
    ASSUME Shape, NEW r \in Request, Works(r)
    PROVE  Frame(r)
<1> DEFINE q == req[r]
<1>0. DOMAIN q = Fields
  BY DEF Shape
<1>1. ASSUME Begin(r)
      PROVE  Frame(r)
  <2>1. PICK api, kind, pc, ids, uids : Start(r, api, kind, pc, ids, uids)
    BY <1>1, BeginStarts DEF Starts
  <2> DEFINE new == [Idle EXCEPT !.api = api, !.kind = kind, !.pc = pc, !.ids = ids,
                          !.queue = ids, !.uids = uids,
                          !.from = IF kind = "list" THEN Len(versions) ELSE 1]
  <2>2. /\ Step(r, "idle", new) /\ DOMAIN new = Fields
        /\ UNCHANGED <<versions, since, cache, nav, now>>
    BY <2>1, StartIs
  <2> HIDE DEF new
  <2> QED BY <2>2, StepIs DEF Frame
<1>2. ASSUME Handle(r)
      PROVE  Frame(r)
  <2>1. CASE ReadRows(r) \/ ProbeHit(r) \/ ProbeMiss(r)
    <3>1. DOMAIN At(r, "probe") = Fields /\ DOMAIN At(r, "row") = Fields
      BY <1>0 DEF At
    <3>2. CASE ReadRows(r)
      BY <1>0, <3>2 DEF ReadRows, At, Step, Frame, Shape
    <3>3. CASE ProbeHit(r)
      BY <1>0, <3>3 DEF ProbeHit, Step, Frame, Shape
    <3>4. CASE ProbeMiss(r)
      <4>1. DOMAIN [q EXCEPT !.queue = Tail(@)] = Fields
        BY <1>0
      <4> QED BY <3>1, <3>4, <4>1, StepIs DEF ProbeMiss, Frame
    <3> QED BY <2>1, <3>2, <3>3, <3>4
  <2>2. CASE ReadRow(r)
    <3>1. /\ DOMAIN At(r, "attributes") = Fields /\ DOMAIN At(r, "probe") = Fields
          /\ DOMAIN At(r, "not_found") = Fields
      BY <1>0 DEF At
    <3> DEFINE id == Head(q.queue)
               a == [At(r, "attributes") EXCEPT !.held = With(@, id, Row(Categories[id]))]
               b == [At(r, "probe") EXCEPT !.queue = Tail(@)]
               c == At(r, "not_found")
    <3>2. DOMAIN a = Fields /\ DOMAIN b = Fields /\ DOMAIN c = Fields
      BY <3>1
    <3>3. \/ Step(r, "row", a) \/ Step(r, "row", b) \/ Step(r, "row", c)
      BY <2>2 DEF ReadRow
    <3>4. UNCHANGED <<versions, since, now>>
      BY <2>2 DEF ReadRow
    <3> HIDE DEF a, b, c
    <3> QED BY <3>2, <3>3, <3>4, StepIs DEF Frame
  <2>3. CASE ReadAttributes(r)
    BY <1>0, <2>3 DEF ReadAttributes, At, Step, Frame, Shape
  <2>4. ASSUME NEW id \in Id, Put(r, id)
        PROVE  Frame(r)
    <3> DEFINE left == Without(q.held, id)
               a == At(r, IF left = Nothing THEN "probe" ELSE "put")
               b == [a EXCEPT !.held = left, !.found = With(@, id, q.held[id]),
                              !.queue = IF @ = <<>> THEN @ ELSE Tail(@)]
    <3>1. DOMAIN a = Fields
      BY <1>0 DEF At
    <3>2. DOMAIN b = Fields
      <4> HIDE DEF a
      <4> QED BY <3>1
    <3>3. Step(r, "put", b) /\ UNCHANGED <<versions, since, now>>
      BY <2>4 DEF Put
    <3> HIDE DEF b
    <3> QED BY <3>2, <3>3, StepIs DEF Frame
  <2>5. CASE Probed(r)
    <3>1. \A pc : DOMAIN At(r, pc) = Fields
      BY <1>0 DEF At
    <3>2. \E pc : Step(r, "probe", At(r, pc))
      BY <2>5 DEF Probed
    <3> QED BY <2>5, <3>1, <3>2, StepIs DEF Probed, Frame
  <2>6. CASE FindPath(r) \/ ReadProducts(r)
    BY <1>0, <2>6 DEF FindPath, ReadProducts, At, Step, Frame, Shape
  <2>7. CASE MenuCached(r) \/ MenuMissing(r)
    BY <1>0, <2>7 DEF MenuCached, MenuMissing, Settled, At, Step, Frame, Shape
  <2>8. CASE ReadMenuRows(r)
    BY <1>0, <2>8 DEF ReadMenuRows, At, Step, Frame, Shape
  <2>9. CASE ReadMenuNames(r)
    <3> DEFINE new(tree) == [At(r, "render") EXCEPT !.held = Nothing, !.menu = tree]
    <3>1. \A tree : DOMAIN new(tree) = Fields
      BY <1>0 DEF At
    <3>2. \E tree : Step(r, "menu_names", new(tree))
      BY <2>9 DEF ReadMenuNames
    <3>3. UNCHANGED <<versions, since, now>>
      BY <2>9 DEF ReadMenuNames
    <3> HIDE DEF new
    <3> QED BY <3>1, <3>2, <3>3, StepIs DEF Frame
  <2>10. CASE SendTree(r)
    BY <1>0, <2>10 DEF SendTree, At, Step, Frame, Shape
  <2>11. CASE StoreMenu(r)
    BY <1>0, <2>11 DEF StoreMenu, At, Step, Frame, Shape
  <2>12. CASE RequestFails(r) \/ CrumbFails(r) \/ MenuFails(r)
    BY <1>0, <2>12 DEF RequestFails, CrumbFails, MenuFails, At, Step, Frame, Shape
  <2> QED BY <1>2, <2>1, <2>2, <2>3, <2>4, <2>5, <2>6, <2>7, <2>8, <2>9, <2>10, <2>11, <2>12
          DEF Handle
<1> QED BY <1>1, <1>2 DEF Works

LEMMA WorkShape ==
    ASSUME Shape, NEW r \in Request, Works(r)
    PROVE  Shape'
BY WorkFrame DEF Shape, Frame

LEMMA ChangeShape ==
    ASSUME Shape, Change
    PROVE  Shape'
<1>1. PICK c : Grows(versions, c) /\ versions' = Append(versions, c)
  BY ChangeGrows
<1>2. c \in Table
  BY <1>1 DEF Grows
<1>3. versions' \in Seq(Table) /\ Len(versions') = Len(versions) + 1
  BY <1>1, <1>2, AppendIs DEF Shape
<1>4. since' \in Seq(Nat) /\ Len(since') = Len(since) + 1
  <2>1. since' = Append(since, now)
    BY ChangeGrows
  <2>2. since \in Seq(Nat) /\ now \in Nat
    BY DEF Shape
  <2> QED BY <2>1, <2>2, AppendIs
<1> QED BY <1>3, <1>4, ChangeGrows DEF Shape

\* Every step is one of these.
LEMMA StepKinds ==
    ASSUME Next
    PROVE  Change \/ Tick \/ \E r \in Request : Works(r)
BY DEF Next, Change, Works

LEMMA ShapeHolds == Spec => []Shape
<1>1. Init => Shape
  <2> SUFFICES ASSUME Init PROVE Shape
    OBVIOUS
  <2>1. Existing \in Table
    <3>1. /\ DOMAIN Existing \subseteq Id
          /\ \A id \in DOMAIN Existing : Existing[id] \in Category
      BY CategoryPagesAssumption DEF Category
    <3>2. Existing = [id \in DOMAIN Existing |-> Existing[id]]
      BY CategoryPagesAssumption
    <3> QED BY <3>1, <3>2, TableIs
  <2>2. versions \in Seq(Table) /\ Len(versions) = 1
    BY <2>1 DEF Init
  <2>3. since \in Seq(Nat) /\ Len(since) = 1
    BY DEF Init
  <2>4. DOMAIN req = Request /\ \A r \in Request : DOMAIN req[r] = Fields
    BY IdleFields DEF Init
  <2> QED BY <2>2, <2>3, <2>4 DEF Init, Shape
<1>2. Shape /\ [Next]_vars => Shape'
  <2> SUFFICES ASSUME Shape, [Next]_vars PROVE Shape'
    OBVIOUS
  <2>1. CASE Change
    BY <2>1, ChangeShape
  <2>2. CASE Tick
    BY <2>2 DEF Tick, Shape
  <2>3. ASSUME NEW r \in Request, Works(r) PROVE Shape'
    BY <2>3, WorkShape
  <2>4. CASE UNCHANGED vars
    BY <2>4 DEF vars, Shape
  <2> QED BY <2>1, <2>2, <2>3, <2>4, StepKinds
<1> QED BY <1>1, <1>2, PTL DEF Spec

-----------------------------------------------------------------------------
(* What is fetched by id, and cached, is of the category with that id.      *)

RowIn(vs, id, row) ==
    \E v \in DOMAIN vs : id \in DOMAIN vs[v] /\ row = Row(vs[v][id])

FlatIn(vs, id, flat) ==
    \E v \in DOMAIN vs :
      /\ id \in DOMAIN vs[v]
      /\ flat.entity_id = id
      /\ flat.parent_id = vs[v][id].parent_id
      /\ flat.path = vs[v][id].path
      /\ \E w \in v .. Len(vs) :
           NameOf(flat) = IF id \in DOMAIN vs[w] THEN vs[w][id].name ELSE NoName

\* The rows a request holds until it has read their attributes, what it then
\* has to put into the cache, and what it has found.
Fetching == {"rows", "probe", "row", "attributes", "path"}

Fetches(vs, q) ==
    /\ q.pc \in Fetching => \A id \in DOMAIN q.held : RowIn(vs, id, q.held[id])
    /\ q.pc = "put" => \A id \in DOMAIN q.held : FlatIn(vs, id, q.held[id])
    /\ \A id \in DOMAIN q.found : FlatIn(vs, id, q.found[id])

CacheInv ==
    /\ \A r \in Request : Fetches(versions, req[r])
    /\ \A k \in DOMAIN cache : FlatIn(versions, k[2], cache[k])

LEMMA RowInLater ==
    ASSUME NEW vs \in Seq(Table), NEW c \in Table, NEW id, NEW row, RowIn(vs, id, row)
    PROVE  RowIn(Append(vs, c), id, row)
<1>1. PICK v \in DOMAIN vs : id \in DOMAIN vs[v] /\ row = Row(vs[v][id])
  BY DEF RowIn
<1> DEFINE ws == Append(vs, c)
<1>2. v \in DOMAIN ws /\ ws[v] = vs[v]
  BY AppendIs
<1> HIDE DEF ws
<1>3. RowIn(ws, id, row)
  BY <1>1, <1>2 DEF RowIn
<1> QED BY <1>3 DEF ws

LEMMA FlatInLater ==
    ASSUME NEW vs \in Seq(Table), NEW c \in Table, NEW id, NEW flat, FlatIn(vs, id, flat)
    PROVE  FlatIn(Append(vs, c), id, flat)
<1>1. PICK v \in DOMAIN vs :
        /\ id \in DOMAIN vs[v]
        /\ flat.entity_id = id
        /\ flat.parent_id = vs[v][id].parent_id
        /\ flat.path = vs[v][id].path
        /\ \E w \in v .. Len(vs) :
             NameOf(flat) = IF id \in DOMAIN vs[w] THEN vs[w][id].name ELSE NoName
  BY DEF FlatIn
<1>2. PICK w \in v .. Len(vs) :
        NameOf(flat) = IF id \in DOMAIN vs[w] THEN vs[w][id].name ELSE NoName
  BY <1>1
<1> DEFINE ws == Append(vs, c)
<1>3. /\ v \in DOMAIN ws /\ ws[v] = vs[v] /\ w \in v .. Len(ws)
      /\ w \in DOMAIN vs /\ ws[w] = vs[w]
  BY AppendIs
<1> HIDE DEF ws
<1>4. FlatIn(ws, id, flat)
  BY <1>1, <1>2, <1>3 DEF FlatIn
<1> QED BY <1>4 DEF ws

LEMMA FetchesLater ==
    ASSUME NEW vs \in Seq(Table), NEW c \in Table, NEW q, Fetches(vs, q)
    PROVE  Fetches(Append(vs, c), q)
BY RowInLater, FlatInLater DEF Fetches

LEMMA NothingIs == DOMAIN Nothing = {}
BY DEF Nothing

\* A category's row as it is now, and flattened under a name as it is now.
LEMMA RowNow ==
    ASSUME NEW vs \in Seq(Table), Len(vs) > 0, NEW id \in DOMAIN Last(vs)
    PROVE  RowIn(vs, id, Row(Last(vs)[id]))
<1>1. Len(vs) \in DOMAIN vs /\ Last(vs) = vs[Len(vs)]
  BY LastVersion
<1> QED BY <1>1 DEF RowIn

LEMMA FlatNow ==
    ASSUME NEW vs \in Seq(Table), Len(vs) > 0, NEW id, NEW row, RowIn(vs, id, row), NEW name,
           name = IF id \in DOMAIN Last(vs) THEN Last(vs)[id].name ELSE NoName
    PROVE  FlatIn(vs, id, Flattened(id, row, name))
<1>1. PICK v \in DOMAIN vs : id \in DOMAIN vs[v] /\ row = Row(vs[v][id])
  BY DEF RowIn
<1> DEFINE flat == Flattened(id, row, name)
<1>2. /\ flat.entity_id = id /\ flat.parent_id = vs[v][id].parent_id
      /\ flat.path = vs[v][id].path
  BY <1>1 DEF Flattened, Row
<1>3. NameOf(flat) = name
  <2>1. CASE name = NoName
    BY <2>1 DEF NameOf, Flattened
  <2>2. CASE name # NoName
    BY <2>2 DEF NameOf, Flattened
  <2> QED BY <2>1, <2>2
<1> HIDE DEF flat
<1>4. Len(vs) \in v .. Len(vs) /\ Last(vs) = vs[Len(vs)]
  BY LastVersion
<1>5. FlatIn(vs, id, flat)
  BY <1>1, <1>2, <1>3, <1>4 DEF FlatIn
<1> QED BY <1>5 DEF flat

LEMMA FetchesKept ==
    ASSUME Shape, CacheInv, NEW r \in Request, Works(r)
    PROVE  /\ Fetches(versions, req'[r])
           /\ \A k \in DOMAIN cache' : FlatIn(versions, k[2], cache'[k])
<1> DEFINE q == req[r]
<1>0. /\ DOMAIN q = Fields /\ DOMAIN req = Request /\ Fetches(versions, q)
      /\ versions \in Seq(Table) /\ Len(versions) > 0 /\ Categories = Last(versions)
  BY DEF Shape, CacheInv, Categories
<1>1. ASSUME Begin(r)
      PROVE  Fetches(versions, req'[r]) /\ UNCHANGED cache
  <2>1. PICK api, kind, pc, ids, uids : Start(r, api, kind, pc, ids, uids)
    BY <1>1, BeginStarts DEF Starts
  <2> DEFINE new == [Idle EXCEPT !.api = api, !.kind = kind, !.pc = pc, !.ids = ids,
                          !.queue = ids, !.uids = uids,
                          !.from = IF kind = "list" THEN Len(versions) ELSE 1]
  <2>2. /\ Step(r, "idle", new) /\ DOMAIN new = Fields
        /\ UNCHANGED <<versions, since, cache, nav, now>>
    BY <2>1, StartIs
  <2>3. new.held = Nothing /\ new.found = Nothing
    BY DEF Idle
  <2> HIDE DEF new
  <2>4. req'[r] = new
    BY <2>2, StepIs
  <2> QED BY <2>2, <2>3, <2>4, NothingIs DEF Fetches
<1>2. CASE ReadRows(r)
  <2>1. /\ req'[r].held = Rows(Categories) /\ req'[r].found = q.found /\ req'[r].pc = "probe"
        /\ UNCHANGED cache
    BY <1>0, <1>2 DEF ReadRows, Step, At, Fields
  <2>2. \A id \in DOMAIN Rows(Categories) : RowIn(versions, id, Rows(Categories)[id])
    BY <1>0, RowNow DEF Rows
  <2> QED BY <1>0, <2>1, <2>2 DEF Fetches, CacheInv
<1>3. CASE ProbeHit(r)
  <2> DEFINE id == Head(q.queue)
             k  == <<q.api, id>>
  <2>1. /\ q.pc = "probe" /\ req'[r].pc = "probe" /\ req'[r].held = Without(q.held, id)
        /\ req'[r].found = With(q.found, id, cache[k]) /\ k \in DOMAIN cache
        /\ UNCHANGED cache
    BY <1>0, <1>3 DEF ProbeHit, Step, Cached, Fields
  <2>2. FlatIn(versions, id, cache[k])
    <3>1. k[2] = id
      OBVIOUS
    <3> HIDE DEF k, id
    <3>2. FlatIn(versions, k[2], cache[k])
      BY <2>1 DEF CacheInv
    <3> QED BY <3>1, <3>2
  <2> DEFINE found == req'[r].found
             held  == req'[r].held
  <2>3. /\ DOMAIN found = DOMAIN q.found \cup {id}
        /\ \A i \in DOMAIN found : found[i] = IF i = id THEN cache[k] ELSE q.found[i]
    <3>1. found = With(q.found, id, cache[k])
      BY <2>1
    <3> HIDE DEF found, id, k
    <3> QED BY <3>1 DEF With
  <2>4. DOMAIN held = DOMAIN q.held \ {id} /\ \A i \in DOMAIN held : held[i] = q.held[i]
    <3>1. held = Without(q.held, id)
      BY <2>1
    <3> HIDE DEF held, id
    <3> QED BY <3>1 DEF Without
  <2> HIDE DEF id, k, found, held
  <2>5. \A i \in DOMAIN found : FlatIn(versions, i, found[i])
    BY <1>0, <2>2, <2>3 DEF Fetches
  <2>6. \A i \in DOMAIN held : RowIn(versions, i, held[i])
    BY <1>0, <2>1, <2>4 DEF Fetches, Fetching
  <2>7. Fetches(versions, req'[r])
    BY <2>1, <2>5, <2>6 DEF Fetches, found, held
  <2> QED BY <2>1, <2>7 DEF CacheInv
<1>4. CASE ProbeMiss(r)
  <2>1. /\ q.pc = "probe" /\ req'[r].pc \in {"probe", "row"} /\ req'[r].held = q.held
        /\ req'[r].found = q.found /\ UNCHANGED cache
    BY <1>0, <1>4 DEF ProbeMiss, Step, At, Fields
  <2> QED BY <1>0, <2>1 DEF Fetches, Fetching, CacheInv
<1>5. CASE ReadRow(r)
  <2> DEFINE id == Head(q.queue)
  <2>1. /\ q.pc = "row" /\ req'[r].found = q.found /\ UNCHANGED cache
        /\ \/ /\ id \in DOMAIN Categories /\ req'[r].pc = "attributes"
              /\ req'[r].held = With(q.held, id, Row(Categories[id]))
           \/ req'[r].pc \in {"probe", "not_found"} /\ req'[r].held = q.held
    BY <1>0, <1>5 DEF ReadRow, Step, At, Fields
  <2>2. id \in DOMAIN Categories => RowIn(versions, id, Row(Categories[id]))
    BY <1>0, RowNow
  <2> DEFINE held == req'[r].held
  <2>3. /\ id \in DOMAIN Categories /\ held = With(q.held, id, Row(Categories[id]))
        => /\ DOMAIN held = DOMAIN q.held \cup {id}
           /\ \A i \in DOMAIN held : held[i] = IF i = id THEN Row(Categories[id])
                                                          ELSE q.held[i]
    <3> HIDE DEF held, id
    <3> QED BY DEF With
  <2> HIDE DEF id, held
  <2>4. \A i \in DOMAIN q.held : RowIn(versions, i, q.held[i])
    BY <1>0, <2>1 DEF Fetches, Fetching
  <2>5. \A i \in DOMAIN held : RowIn(versions, i, held[i])
    BY <2>1, <2>2, <2>3, <2>4 DEF held
  <2>6. Fetches(versions, req'[r])
    BY <1>0, <2>1, <2>5 DEF Fetches, held
  <2> QED BY <2>1, <2>6 DEF CacheInv
<1>6. CASE ReadAttributes(r)
  <2> DEFINE new == [id \in DOMAIN q.held |-> Flattened(id, q.held[id], NameNow(id))]
  <2>1. /\ q.pc = "attributes" /\ req'[r].pc = "put" /\ req'[r].found = q.found
        /\ req'[r].held = new /\ UNCHANGED cache
    BY <1>0, <1>6 DEF ReadAttributes, Step, At, Fields
  <2>2. \A id \in DOMAIN q.held : RowIn(versions, id, q.held[id])
    BY <1>0, <2>1 DEF Fetches, Fetching
  <2>3. ASSUME NEW id \in DOMAIN q.held
        PROVE  FlatIn(versions, id, Flattened(id, q.held[id], NameNow(id)))
    <3>1. NameNow(id) = IF id \in DOMAIN Last(versions) THEN Last(versions)[id].name
                                                        ELSE NoName
      BY <1>0 DEF NameNow
    <3> QED BY <1>0, <2>2, <3>1, FlatNow
  <2>4. DOMAIN new = DOMAIN q.held /\ \A id \in DOMAIN new : FlatIn(versions, id, new[id])
    BY <2>3
  <2> HIDE DEF new
  <2> QED BY <1>0, <2>1, <2>4 DEF Fetches, Fetching, CacheInv
<1>7. ASSUME NEW id \in Id, Put(r, id)
      PROVE  /\ Fetches(versions, req'[r])
             /\ \A k \in DOMAIN cache' : FlatIn(versions, k[2], cache'[k])
  <2> DEFINE left == Without(q.held, id)
             k    == <<q.api, id>>
  <2>1. /\ q.pc = "put" /\ id \in DOMAIN q.held
        /\ req'[r].pc = IF left = Nothing THEN "probe" ELSE "put"
        /\ req'[r].held = left /\ req'[r].found = With(q.found, id, q.held[id])
        /\ cache' = With(cache, k, q.held[id])
    BY <1>0, <1>7 DEF Put, Step, At, Fields
  <2>2. FlatIn(versions, id, q.held[id])
    BY <1>0, <2>1 DEF Fetches
  <2>3. DOMAIN left = DOMAIN q.held \ {id} /\ \A i \in DOMAIN left : left[i] = q.held[i]
    BY DEF Without
  <2>4. k[2] = id
    OBVIOUS
  <2>5. left = Nothing => DOMAIN left = {}
    BY NothingIs
  <2> HIDE DEF left, k
  <2> DEFINE found == req'[r].found
             flat  == q.held[id]
  <2>6. /\ DOMAIN found = DOMAIN q.found \cup {id}
        /\ \A i \in DOMAIN found : found[i] = IF i = id THEN flat ELSE q.found[i]
    <3>1. found = With(q.found, id, flat)
      BY <2>1
    <3> HIDE DEF found, flat
    <3> QED BY <3>1 DEF With
  <2>7. /\ DOMAIN cache' = DOMAIN cache \cup {k}
        /\ \A j \in DOMAIN cache' : cache'[j] = IF j = k THEN flat ELSE cache[j]
    <3>1. cache' = With(cache, k, flat)
      BY <2>1
    <3> HIDE DEF flat
    <3> QED BY <3>1 DEF With
  <2> HIDE DEF found, flat
  <2>8. \A i \in DOMAIN left : FlatIn(versions, i, left[i])
    BY <1>0, <2>1, <2>3 DEF Fetches
  <2>9. \A i \in DOMAIN found : FlatIn(versions, i, found[i])
    BY <1>0, <2>2, <2>6 DEF Fetches, flat
  <2>10. \A j \in DOMAIN cache' : FlatIn(versions, j[2], cache'[j])
    BY <2>2, <2>4, <2>7 DEF CacheInv, flat
  <2>11. Fetches(versions, req'[r])
    <3>1. CASE left = Nothing
      <4>1. req'[r].pc = "probe" /\ DOMAIN req'[r].held = {}
        BY <2>1, <2>5, <3>1
      <4> QED BY <4>1, <2>9 DEF Fetches, found
    <3>2. CASE left # Nothing
      <4>1. req'[r].pc = "put" /\ req'[r].held = left
        BY <2>1, <3>2
      <4> QED BY <4>1, <2>8, <2>9 DEF Fetches, Fetching, found
    <3> QED BY <3>1, <3>2
  <2> QED BY <2>10, <2>11
<1>8. CASE Probed(r)
  <2>1. /\ q.pc = "probe" /\ req'[r].pc \in {"attributes", "products", "menu", "ok"}
        /\ req'[r].held = q.held /\ req'[r].found = q.found /\ UNCHANGED cache
    BY <1>0, <1>8 DEF Probed, Step, At, Fields
  <2> QED BY <1>0, <2>1 DEF Fetches, Fetching, CacheInv
<1>9. CASE FindPath(r)
  <2>1. /\ q.pc = "path" /\ req'[r].pc = "probe"
        /\ req'[r].held = q.held /\ req'[r].found = q.found /\ UNCHANGED cache
    BY <1>0, <1>9 DEF FindPath, Step, At, Fields
  <2> QED BY <1>0, <2>1 DEF Fetches, Fetching, CacheInv
<1>10. CASE ReadProducts(r)
  <2>1. req'[r].pc = "menu" /\ req'[r].found = q.found /\ UNCHANGED cache
    BY <1>0, <1>10 DEF ReadProducts, Step, At, Fields
  <2> QED BY <1>0, <2>1 DEF Fetches, Fetching, CacheInv
<1>11. CASE MenuCached(r) \/ MenuMissing(r)
  <2>1. req'[r].pc \in {"ok", "menu_rows"} /\ req'[r].found = Nothing /\ UNCHANGED cache
    <3>1. CASE MenuCached(r)
      BY <1>0, <3>1 DEF MenuCached, Settled, Step, At, Fields
    <3>2. CASE MenuMissing(r)
      BY <1>0, <3>2 DEF MenuMissing, Settled, Step, At, Fields
    <3> QED BY <1>11, <3>1, <3>2
  <2> QED BY <1>0, <2>1, NothingIs DEF Fetches, Fetching, CacheInv
<1>12. CASE ReadMenuRows(r) \/ SendTree(r)
  <2>1. req'[r].pc \in {"menu_names", "ok"} /\ req'[r].found = q.found /\ UNCHANGED cache
    BY <1>0, <1>12 DEF ReadMenuRows, SendTree, Step, At, Fields
  <2> QED BY <1>0, <2>1 DEF Fetches, Fetching, CacheInv
<1>13. CASE ReadMenuNames(r)
  <2>1. req'[r].pc = "render" /\ req'[r].found = q.found /\ UNCHANGED cache
    BY <1>0, <1>13 DEF ReadMenuNames, Step, At, Fields
  <2> QED BY <1>0, <2>1 DEF Fetches, Fetching, CacheInv
<1>14. CASE StoreMenu(r)
  <2>1. req'[r].pc = "ok" /\ req'[r].found = q.found /\ UNCHANGED cache
    BY <1>0, <1>14 DEF StoreMenu, Step, At, Fields
  <2> QED BY <1>0, <2>1 DEF Fetches, Fetching, CacheInv
<1>15. CASE RequestFails(r) \/ MenuFails(r)
  <2>1. req'[r].pc \in {"failed", "ok"} /\ req'[r].found = q.found /\ UNCHANGED cache
    BY <1>0, <1>15 DEF RequestFails, MenuFails, Step, At, Fields
  <2> QED BY <1>0, <2>1 DEF Fetches, Fetching, CacheInv
<1>16. CASE CrumbFails(r)
  <2>1. /\ req'[r].pc \in {"menu", "probe"} /\ req'[r].found = q.found /\ UNCHANGED cache
        /\ req'[r].pc = "menu" \/ req'[r].held = Nothing
    BY <1>0, <1>16 DEF CrumbFails, Step, At, Fields
  <2> QED BY <1>0, <2>1, NothingIs DEF Fetches, Fetching, CacheInv
<1> QED BY <1>1, <1>2, <1>3, <1>4, <1>5, <1>6, <1>7, <1>8, <1>9, <1>10, <1>11, <1>12,
           <1>13, <1>14, <1>15, <1>16 DEF Works, Handle, CacheInv

LEMMA CacheInvariant == Spec => []CacheInv
<1>1. Init => CacheInv
  <2> SUFFICES ASSUME Init PROVE CacheInv
    OBVIOUS
  <2>1. \A r \in Request : req[r].held = Nothing /\ req[r].found = Nothing
    BY DEF Init, Idle
  <2>2. DOMAIN cache = {}
    BY NothingIs DEF Init
  <2> QED BY <2>1, <2>2, NothingIs DEF CacheInv, Fetches
<1>2. Shape /\ CacheInv /\ [Next]_vars => CacheInv'
  <2> SUFFICES ASSUME Shape, CacheInv, [Next]_vars PROVE CacheInv'
    OBVIOUS
  <2>1. CASE Change
    <3>1. PICK c : Grows(versions, c) /\ versions' = Append(versions, c)
      BY <2>1, ChangeGrows
    <3>2. versions \in Seq(Table) /\ c \in Table /\ UNCHANGED <<cache, req>>
      BY <2>1, <3>1, ChangeGrows DEF Grows, Shape
    <3>3. \A r \in Request : Fetches(versions', req'[r])
      BY <3>1, <3>2, FetchesLater DEF CacheInv
    <3>4. \A k \in DOMAIN cache' : FlatIn(versions', k[2], cache'[k])
      BY <3>1, <3>2, FlatInLater DEF CacheInv
    <3> QED BY <3>3, <3>4 DEF CacheInv
  <2>2. CASE Tick \/ UNCHANGED vars
    BY <2>2 DEF Tick, vars, CacheInv
  <2>3. ASSUME NEW r \in Request, Works(r) PROVE CacheInv'
    <3>1. /\ Fetches(versions, req'[r])
          /\ \A k \in DOMAIN cache' : FlatIn(versions, k[2], cache'[k])
      BY <2>3, FetchesKept
    <3>2. versions' = versions /\ \A s \in Request \ {r} : req'[s] = req[s]
      BY <2>3, WorkFrame DEF Frame
    <3>3. \A s \in Request : Fetches(versions', req'[s])
      BY <3>1, <3>2 DEF CacheInv
    <3>4. \A k \in DOMAIN cache' : FlatIn(versions', k[2], cache'[k])
      BY <3>1, <3>2
    <3> QED BY <3>3, <3>4 DEF CacheInv
  <2> QED BY <2>1, <2>2, <2>3, StepKinds
<1> QED BY <1>1, <1>2, ShapeHolds, PTL DEF Spec

\* Whatever is created, renamed and deleted between a handler's queries,
\* under an id a FlatCache has one row that category once had, and a name it
\* had then or later (crates/repository/src/category_db.rs).
THEOREM CachedCategoriesAreRight == Spec => []CacheNamesItsCategory
<1>1. CacheInv => CacheNamesItsCategory
  BY DEF CacheInv, CacheNamesItsCategory, FlatIn
<1> QED BY <1>1, CacheInvariant, PTL

-----------------------------------------------------------------------------
(* A list holds the categories of one moment.                              *)

\* The categories with ids in D, in the order of their ids.
Ordered(t, D) ==
    /\ t \in Seq(Nat)
    /\ Increasing(t, Len(t))
    /\ \A x : x \in D <=> \E a \in 1 .. Len(t) : t[a] = x

LEMMA InOrderIs ==
    ASSUME NEW D \in SUBSET Id
    PROVE  Ordered(InOrder(D), D)
<1> DEFINE s == [n \in Id |-> n]
           t == InOrder(D)
<1>1. s \in Seq(Nat) /\ Len(s) = MaxId /\ \A n \in Id : s[n] = n
  BY IdIs DEF Id
<1>2. t = Kept(s, D)
  BY DEF InOrder
<1> HIDE DEF s, t
<1>3. t \in Seq(Nat) /\ \E h : Picks(h, t, s, D, Len(s))
  BY <1>1, <1>2, KeptPicks
<1>4. PICK h : Picks(h, t, s, D, MaxId)
  BY <1>1, <1>3
<1>5. h \in [1 .. Len(t) -> Id] /\ \A a \in 1 .. Len(t) : t[a] = h[a] /\ t[a] \in D
  BY <1>1, <1>4 DEF Picks, Id
<1>6. Increasing(t, Len(t))
  BY <1>4, <1>5 DEF Picks, Increasing
<1>7. \A x \in D : \E a \in 1 .. Len(t) : t[a] = x
  BY <1>1, <1>4, <1>5 DEF Picks, Id
<1>8. Ordered(t, D)
  BY <1>3, <1>5, <1>6, <1>7 DEF Ordered
<1> QED BY <1>8 DEF t

LEMMA KeptOrdered ==
    ASSUME NEW t, NEW D, Ordered(t, D), NEW S
    PROVE  Ordered(Kept(t, S), D \cap S)
<1> DEFINE u == Kept(t, S)
<1>1. t \in Seq(Nat) /\ Increasing(t, Len(t)) /\ Len(t) \in Nat
  BY DEF Ordered
<1>2. u \in Seq(Nat) /\ \E h : Picks(h, u, t, S, Len(t))
  BY <1>1, KeptPicks
<1> HIDE DEF u
<1>3. PICK h : Picks(h, u, t, S, Len(t))
  BY <1>2
<1>4. Increasing(u, Len(u))
  <2> SUFFICES ASSUME NEW a \in 1 .. Len(u), NEW b \in 1 .. Len(u), a < b
               PROVE  u[a] < u[b]
    BY DEF Increasing
  <2>1. h[a] \in 1 .. Len(t) /\ h[b] \in 1 .. Len(t) /\ h[a] < h[b]
    BY <1>3 DEF Picks
  <2>2. u[a] = t[h[a]] /\ u[b] = t[h[b]]
    BY <1>3 DEF Picks
  <2> QED BY <1>1, <2>1, <2>2 DEF Increasing
<1>5. \A a \in 1 .. Len(u) : u[a] \in D \cap S
  <2> TAKE a \in 1 .. Len(u)
  <2>1. h[a] \in 1 .. Len(t) /\ u[a] = t[h[a]] /\ u[a] \in S
    BY <1>3 DEF Picks
  <2> QED BY <2>1 DEF Ordered
<1>6. ASSUME NEW x \in D \cap S
      PROVE  \E a \in 1 .. Len(u) : u[a] = x
  <2>1. PICK i \in 1 .. Len(t) : t[i] = x
    BY DEF Ordered
  <2>2. PICK a \in 1 .. Len(u) : h[a] = i
    BY <1>3, <2>1 DEF Picks
  <2>3. u[a] = x
    BY <1>3, <2>1, <2>2 DEF Picks
  <2> QED BY <2>3
<1>7. Ordered(u, D \cap S)
  BY <1>2, <1>4, <1>5, <1>6 DEF Ordered
<1> QED BY <1>7 DEF u

LEMMA OrderedOnce ==
    ASSUME NEW t, NEW u, NEW D, Ordered(t, D), Ordered(u, D)
    PROVE  t = u
<1>1. /\ Len(t) \in Nat /\ t \in [1 .. Len(t) -> Nat] /\ Increasing(t, Len(t))
      /\ Len(u) \in Nat /\ u \in [1 .. Len(u) -> Nat] /\ Increasing(u, Len(u))
  BY DEF Ordered
<1>2. /\ \A a \in 1 .. Len(t) : \E b \in 1 .. Len(u) : u[b] = t[a]
      /\ \A b \in 1 .. Len(u) : \E a \in 1 .. Len(t) : t[a] = u[b]
  BY DEF Ordered
<1> QED BY <1>1, <1>2, OneOrder

\* What a filter leaves of a list in order is in order.
LEMMA KeptInOrder ==
    ASSUME NEW D \in SUBSET Id, NEW S
    PROVE  Kept(InOrder(D), S) = InOrder(D \cap S)
<1>1. Ordered(InOrder(D), D) /\ Ordered(InOrder(D \cap S), D \cap S)
  BY InOrderIs
<1>2. Ordered(Kept(InOrder(D), S), D \cap S)
  BY <1>1, KeptOrdered
<1> QED BY <1>1, <1>2, OrderedOnce

\* A list is asked for at a version of the database, reads its rows at that or
\* a later one, and has found, or holds, each of them from then on.
HasListed(vs, q) ==
    \E v \in q.from .. Len(vs) :
      q.ids = InOrder(DOMAIN vs[v]) /\ DOMAIN vs[v] \subseteq DOMAIN q.found \cup DOMAIN q.held

Lists(vs, q) ==
    q.kind = "list" =>
      /\ q.pc \in {"rows", "probe", "attributes", "put", "ok", "not_found", "failed"}
      /\ q.from \in 1 .. Len(vs)
      /\ q.pc \in {"probe", "attributes", "put", "ok"} => HasListed(vs, q)
      /\ q.pc = "ok" => q.held = Nothing

ListInv == \A r \in Request : Lists(versions, req[r])

LEMMA ListsLater ==
    ASSUME NEW vs \in Seq(Table), NEW c \in Table, NEW q, Lists(vs, q)
    PROVE  Lists(Append(vs, c), q)
<1> DEFINE ws == Append(vs, c)
<1>1. /\ Len(ws) = Len(vs) + 1 /\ Len(vs) \in Nat
      /\ \A v \in 1 .. Len(vs) : ws[v] = vs[v]
  BY AppendIs
<1> HIDE DEF ws
<1>2. CASE q.kind = "list"
  <2>1. q.from \in 1 .. Len(vs) /\ q.from \in 1 .. Len(ws)
    BY <1>1, <1>2 DEF Lists
  <2>2. ASSUME HasListed(vs, q) PROVE HasListed(ws, q)
    <3>1. PICK v \in q.from .. Len(vs) :
            /\ q.ids = InOrder(DOMAIN vs[v])
            /\ DOMAIN vs[v] \subseteq DOMAIN q.found \cup DOMAIN q.held
      BY <2>2 DEF HasListed
    <3>2. v \in q.from .. Len(ws) /\ ws[v] = vs[v]
      BY <1>1, <2>1
    <3> QED BY <3>1, <3>2 DEF HasListed
  <2> QED BY <1>2, <2>1, <2>2 DEF Lists, ws
<1>3. CASE q.kind # "list"
  BY <1>3 DEF Lists
<1> QED BY <1>2, <1>3

LEMMA ListsKept ==
    ASSUME Shape, ListInv, NEW r \in Request, Works(r)
    PROVE  Lists(versions, req'[r])
<1> DEFINE q == req[r]
           p == req'[r]
<1>0. /\ DOMAIN q = Fields /\ DOMAIN req = Request /\ Lists(versions, q)
      /\ versions \in Seq(Table) /\ Len(versions) \in Nat \ {0} /\ Categories = Last(versions)
  BY DEF Shape, ListInv, Categories
<1>1. ASSUME Begin(r)
      PROVE  Lists(versions, p)
  <2>1. PICK api, kind, pc, ids, uids :
          /\ Start(r, api, kind, pc, ids, uids)
          /\ kind = "list" => pc \in {"rows", "not_found"}
    BY <1>1, BeginStarts DEF Starts
  <2> DEFINE new == [Idle EXCEPT !.api = api, !.kind = kind, !.pc = pc, !.ids = ids,
                          !.queue = ids, !.uids = uids,
                          !.from = IF kind = "list" THEN Len(versions) ELSE 1]
  <2>2. Step(r, "idle", new) /\ DOMAIN new = Fields
    BY <2>1, StartIs
  <2>3. new.kind = kind /\ new.pc = pc /\ (kind = "list" => new.from = Len(versions))
    BY DEF Idle
  <2> HIDE DEF new
  <2>4. p = new
    BY <2>2, StepIs
  <2> QED BY <1>0, <2>1, <2>3, <2>4 DEF Lists
<1>2. CASE ReadRows(r)
  <2> DEFINE ids == InOrder(DOMAIN Categories)
  <2>1. /\ p.kind = q.kind /\ p.from = q.from /\ q.pc = "rows" /\ p.pc = "probe"
        /\ p.ids = ids /\ p.held = Rows(Categories)
    BY <1>0, <1>2 DEF ReadRows, Step, At, Fields
  <2>2. DOMAIN Rows(Categories) = DOMAIN Categories
    BY DEF Rows
  <2>3. CASE q.kind = "list"
    <3>1. q.from \in 1 .. Len(versions) /\ Len(versions) \in q.from .. Len(versions)
      BY <1>0, <2>3 DEF Lists
    <3>2. versions[Len(versions)] = Categories
      BY <1>0, LastVersion
    <3> HIDE DEF ids
    <3>3. HasListed(versions, p)
      BY <2>1, <2>2, <3>1, <3>2 DEF HasListed, ids
    <3> QED BY <2>1, <3>1, <3>3 DEF Lists
  <2> HIDE DEF ids
  <2> QED BY <2>1, <2>3 DEF Lists
<1>3. CASE ProbeHit(r)
  <2> DEFINE id == Head(q.queue)
  <2>1. /\ p.kind = q.kind /\ p.from = q.from /\ q.pc = "probe" /\ p.pc = "probe"
        /\ p.ids = q.ids
        /\ DOMAIN p.held = DOMAIN q.held \ {id}
        /\ DOMAIN p.found = DOMAIN q.found \cup {id}
    BY <1>0, <1>3 DEF ProbeHit, Step, Fields, With, Without
  <2> HIDE DEF id
  <2> QED BY <1>0, <2>1 DEF Lists, HasListed
<1>4. CASE ProbeMiss(r)
  <2>1. /\ p.kind = q.kind /\ p.from = q.from /\ q.pc = "probe"
        /\ p.pc = "probe" \/ q.kind # "list"
        /\ p.ids = q.ids /\ p.held = q.held /\ p.found = q.found
    BY <1>0, <1>4 DEF ProbeMiss, Step, At, Fields
  <2> QED BY <1>0, <2>1 DEF Lists, HasListed
<1>5. CASE ReadRow(r)
  <2>1. p.kind = q.kind /\ q.pc = "row"
    BY <1>0, <1>5 DEF ReadRow, Step, At, Fields
  <2> QED BY <1>0, <2>1 DEF Lists
<1>6. CASE ReadAttributes(r)
  <2>1. /\ p.kind = q.kind /\ p.from = q.from /\ q.pc = "attributes" /\ p.pc = "put"
        /\ p.ids = q.ids /\ p.found = q.found /\ DOMAIN p.held = DOMAIN q.held
    BY <1>0, <1>6 DEF ReadAttributes, Step, At, Fields
  <2> QED BY <1>0, <2>1 DEF Lists, HasListed
<1>7. ASSUME NEW id \in Id, Put(r, id)
      PROVE  Lists(versions, p)
  <2> DEFINE pc == IF Without(q.held, id) = Nothing THEN "probe" ELSE "put"
  <2>1. /\ p.kind = q.kind /\ p.from = q.from /\ q.pc = "put" /\ p.pc = pc
        /\ p.ids = q.ids
        /\ DOMAIN p.held = DOMAIN q.held \ {id}
        /\ DOMAIN p.found = DOMAIN q.found \cup {id}
    <3>1. p = [At(r, pc) EXCEPT !.held = Without(q.held, id),
                   !.found = With(@, id, q.held[id]),
                   !.queue = IF @ = <<>> THEN @ ELSE Tail(@)]
      BY <1>0, <1>7 DEF Put, Step
    <3> HIDE DEF pc, p
    <3>2. p.pc = pc /\ p.kind = q.kind /\ p.from = q.from /\ p.ids = q.ids
      BY <1>0, <3>1 DEF At, Fields
    <3>3. /\ DOMAIN p.held = DOMAIN q.held \ {id}
          /\ DOMAIN p.found = DOMAIN q.found \cup {id}
      BY <1>0, <3>1 DEF At, Fields, With, Without
    <3>4. q.pc = "put"
      BY <1>7 DEF Put, Step
    <3> QED BY <3>2, <3>3, <3>4
  <2>2. p.pc \in {"probe", "put"}
    BY <2>1
  <2> HIDE DEF pc, p
  <2> QED BY <1>0, <2>1, <2>2 DEF Lists, HasListed
<1>8. CASE Probed(r)
  <2>1. /\ p.kind = q.kind /\ p.from = q.from /\ q.pc = "probe"
        /\ p.ids = q.ids /\ p.held = q.held /\ p.found = q.found
        /\ q.kind = "list" => \/ p.pc = "attributes"
                              \/ p.pc = "ok" /\ q.held = Nothing
    BY <1>0, <1>8 DEF Probed, Step, At, Fields
  <2> QED BY <1>0, <2>1 DEF Lists, HasListed
<1>9. CASE FindPath(r) \/ ReadProducts(r)
  <2>1. p.kind = q.kind /\ q.pc \in {"path", "products"}
    BY <1>0, <1>9 DEF FindPath, ReadProducts, Step, At, Fields
  <2> QED BY <1>0, <2>1 DEF Lists
<1>10. CASE MenuCached(r) \/ MenuMissing(r)
  <2>1. p.kind = q.kind /\ q.pc = "menu"
    <3>1. CASE MenuCached(r)
      BY <1>0, <3>1 DEF MenuCached, Settled, Step, At, Fields
    <3>2. CASE MenuMissing(r)
      BY <1>0, <3>2 DEF MenuMissing, Settled, Step, At, Fields
    <3> QED BY <1>10, <3>1, <3>2
  <2> QED BY <1>0, <2>1 DEF Lists
<1>11. CASE ReadMenuRows(r) \/ ReadMenuNames(r) \/ MenuFails(r)
  <2>1. p.kind = q.kind /\ q.pc \in {"menu_rows", "menu_names"}
    BY <1>0, <1>11 DEF ReadMenuRows, ReadMenuNames, MenuFails, Step, At, Fields
  <2> QED BY <1>0, <2>1 DEF Lists
<1>12. CASE SendTree(r) \/ StoreMenu(r)
  <2>1. p.kind = q.kind /\ q.pc = "render"
    <3>1. CASE SendTree(r)
      BY <1>0, <3>1 DEF SendTree, Step, At, Fields
    <3>2. CASE StoreMenu(r)
      BY <1>0, <3>2 DEF StoreMenu, Step, At, Fields
    <3> QED BY <1>12, <3>1, <3>2
  <2> QED BY <1>0, <2>1 DEF Lists
<1>13. CASE RequestFails(r)
  <2>1. p.kind = q.kind /\ p.from = q.from /\ p.pc = "failed"
    BY <1>0, <1>13 DEF RequestFails, Step, At, Fields
  <2> QED BY <1>0, <2>1 DEF Lists
<1>14. CASE CrumbFails(r)
  <2>1. p.kind = q.kind /\ q.kind = "product"
    BY <1>0, <1>14 DEF CrumbFails, Step, At, Fields
  <2> QED BY <2>1 DEF Lists
<1> QED BY <1>1, <1>2, <1>3, <1>4, <1>5, <1>6, <1>7, <1>8, <1>9, <1>10, <1>11, <1>12,
           <1>13, <1>14 DEF Works, Handle

LEMMA ListInvariant == Spec => []ListInv
<1>1. Init => ListInv
  BY DEF Init, Idle, ListInv, Lists
<1>2. Shape /\ ListInv /\ [Next]_vars => ListInv'
  <2> SUFFICES ASSUME Shape, ListInv, [Next]_vars PROVE ListInv'
    OBVIOUS
  <2>1. CASE Change
    <3>1. PICK c : Grows(versions, c) /\ versions' = Append(versions, c)
      BY <2>1, ChangeGrows
    <3>2. versions \in Seq(Table) /\ c \in Table /\ req' = req
      BY <2>1, <3>1, ChangeGrows DEF Grows, Shape
    <3> QED BY <3>1, <3>2, ListsLater DEF ListInv
  <2>2. CASE Tick \/ UNCHANGED vars
    BY <2>2 DEF Tick, vars, ListInv
  <2>3. ASSUME NEW r \in Request, Works(r) PROVE ListInv'
    BY <2>3, ListsKept, WorkFrame DEF Frame, ListInv
  <2> QED BY <2>1, <2>2, <2>3, StepKinds
<1> QED BY <1>1, <1>2, ShapeHolds, PTL DEF Spec

\* Whatever is cached, created, renamed or deleted around it, a list holds
\* every category of one moment, once and in order, or of these the ones its
\* filter names (fetch_flat_list of crates/repository/src/category_db.rs).
THEOREM ListsHoldEveryCategory == Spec => []ListsAreComplete
<1>1. Shape /\ ListInv => ListsAreComplete
  <2> SUFFICES ASSUME Shape, ListInv, NEW r \in Request, req[r].kind = "list", req[r].pc = "ok"
               PROVE  \E v \in req[r].from .. Len(versions) :
                        Answer(r) = InOrder({id \in DOMAIN versions[v] : Matches(r, id)})
    BY DEF ListsAreComplete
  <2>1. PICK v \in req[r].from .. Len(versions) :
          /\ req[r].ids = InOrder(DOMAIN versions[v])
          /\ DOMAIN versions[v] \subseteq DOMAIN req[r].found
    BY NothingIs DEF ListInv, Lists, HasListed
  <2>2. DOMAIN versions[v] \in SUBSET Id
    <3>1. v \in DOMAIN versions
      BY DEF ListInv, Lists, Shape
    <3> QED BY <3>1, LastVersion, TableIs DEF Shape
  <2> DEFINE D == DOMAIN versions[v]
             S == {id \in DOMAIN req[r].found : Matches(r, id)}
  <2>3. D \cap S = {id \in D : Matches(r, id)}
    BY <2>1
  <2>4. Kept(InOrder(D), S) = InOrder(D \cap S)
    <3> HIDE DEF S, D
    <3> QED BY <2>2, KeptInOrder DEF D
  <2>5. Answer(r) = Kept(InOrder(D), S)
    BY <2>1 DEF Answer
  <2> QED BY <2>3, <2>4, <2>5
<1> QED BY <1>1, ShapeHolds, ListInvariant, PTL

-----------------------------------------------------------------------------
(* A page's menu is not older than its time to live.                       *)

\* Rows read at "read" were those of version "from": the next is not older.
Dated(from, read) ==
    /\ from \in 1 .. Len(versions)
    /\ read \in 0 .. now
    /\ from < Len(versions) => read <= since[from + 1]

Shows(q) ==
    /\ Dated(q.menuFrom, q.menuRead)
    /\ q.pc \notin {"render", "ok"} => q.menu = NoMenu
    /\ q.kind \in Pages /\ q.pc = "ok" /\ q.menu # NoMenu =>
         /\ q.menuAt \in Nat /\ q.answeredAt \in Nat
         /\ q.answeredAt < q.menuAt + CategoryTreeTtl

MenuInv ==
    /\ \A r \in Request : Shows(req[r])
    /\ nav # NoMenu => Dated(nav.from, nav.read) /\ nav.at \in 0 .. now

LEMMA TtlIs == CategoryTreeTtl \in Nat \ {0}
BY CategoryPagesAssumption

LEMMA DatedLater ==
    ASSUME Shape, Change, NEW from, NEW read, Dated(from, read)
    PROVE  Dated(from, read)'
<1>1. PICK c : Grows(versions, c) /\ versions' = Append(versions, c)
  BY ChangeGrows
<1>2. /\ Len(versions') = Len(versions) + 1 /\ Len(versions) \in Nat
      /\ now' = now /\ now \in Nat /\ since' = Append(since, now)
      /\ since \in Seq(Nat) /\ Len(since) = Len(versions)
  BY <1>1, ChangeGrows, AppendIs DEF Shape, Grows
<1>3. \A n \in 1 .. Len(versions) : since'[n] = since[n]
  BY <1>2
<1>4. since'[Len(versions) + 1] = now
  BY <1>2
<1>5. from + 1 \in 1 .. Len(versions) \/ from = Len(versions)
  BY <1>2 DEF Dated
<1> QED BY <1>2, <1>3, <1>4, <1>5 DEF Dated

LEMMA ShowsKept ==
    ASSUME Shape, MenuInv, NEW r \in Request, Works(r)
    PROVE  /\ Shows(req'[r])
           /\ nav' # NoMenu => Dated(nav'.from, nav'.read) /\ nav'.at \in 0 .. now
<1> DEFINE q == req[r]
           p == req'[r]
           NavSame == nav' = nav
           Same == /\ p.menuFrom = q.menuFrom /\ p.menuRead = q.menuRead /\ p.menu = q.menu
                   /\ p.kind = q.kind /\ NavSame
<1>0. /\ DOMAIN q = Fields /\ DOMAIN req = Request /\ Shows(q)
      /\ Len(versions) \in Nat \ {0} /\ now \in Nat
  BY DEF Shape, MenuInv
<1>1. ASSUME Begin(r)
      PROVE  Shows(p) /\ NavSame
  <2>1. PICK api, kind, pc, ids, uids :
          Start(r, api, kind, pc, ids, uids)
    BY <1>1, BeginStarts DEF Starts
  <2> DEFINE new == [Idle EXCEPT !.api = api, !.kind = kind, !.pc = pc, !.ids = ids,
                          !.queue = ids, !.uids = uids,
                          !.from = IF kind = "list" THEN Len(versions) ELSE 1]
  <2>2. Step(r, "idle", new) /\ DOMAIN new = Fields /\ NavSame
    BY <2>1, StartIs
  <2>3. new.menuFrom = 1 /\ new.menuRead = 0 /\ new.menu = NoMenu
    BY DEF Idle
  <2> HIDE DEF new
  <2>4. p = new
    BY <2>2, StepIs
  <2>5. Dated(1, 0)
    <3>1. 1 < Len(versions) => since[1 + 1] \in Nat
      BY DEF Shape
    <3> QED BY <1>0, <3>1 DEF Dated
  <2> QED BY <1>0, <2>2, <2>3, <2>4, <2>5 DEF Shows
<1>2. ASSUME Same, q.pc \notin {"render", "ok"}
      PROVE  Shows(p) /\ NavSame
  BY <1>0, <1>2 DEF Shows
<1>3. CASE ReadRows(r) \/ ProbeHit(r) \/ ProbeMiss(r)
  <2>1. Same /\ q.pc \notin {"render", "ok"}
    <3>1. CASE ReadRows(r)
      BY <1>0, <3>1 DEF ReadRows, Step, At, Fields
    <3>2. CASE ProbeHit(r)
      BY <1>0, <3>2 DEF ProbeHit, Step, At, Fields
    <3>3. CASE ProbeMiss(r)
      BY <1>0, <3>3 DEF ProbeMiss, Step, At, Fields
    <3> QED BY <1>3, <3>1, <3>2, <3>3
  <2> QED BY <1>2, <2>1 DEF MenuInv
<1>4. CASE ReadRow(r) \/ ReadAttributes(r) \/ Probed(r)
  <2>1. Same /\ q.pc \notin {"render", "ok"}
    <3>1. CASE ReadRow(r)
      BY <1>0, <3>1 DEF ReadRow, Step, At, Fields
    <3>2. CASE ReadAttributes(r)
      BY <1>0, <3>2 DEF ReadAttributes, Step, At, Fields
    <3>3. CASE Probed(r)
      BY <1>0, <3>3 DEF Probed, Step, At, Fields
    <3> QED BY <1>4, <3>1, <3>2, <3>3
  <2> QED BY <1>2, <2>1 DEF MenuInv
<1>5. ASSUME NEW id \in Id, Put(r, id)
      PROVE  Shows(p) /\ NavSame
  <2> DEFINE pc == IF Without(q.held, id) = Nothing THEN "probe" ELSE "put"
  <2>1. /\ p = [At(r, pc) EXCEPT !.held = Without(q.held, id),
                  !.found = With(@, id, q.held[id]),
                  !.queue = IF @ = <<>> THEN @ ELSE Tail(@)]
        /\ q.pc = "put" /\ NavSame
    BY <1>0, <1>5 DEF Put, Step
  <2> HIDE DEF pc, p
  <2>2. Same
    BY <1>0, <2>1 DEF At, Fields
  <2> QED BY <1>2, <2>1, <2>2
<1>6. CASE FindPath(r) \/ ReadProducts(r) \/ CrumbFails(r)
  <2>1. Same /\ q.pc \notin {"render", "ok"}
    <3>1. CASE FindPath(r)
      BY <1>0, <3>1 DEF FindPath, Step, At, Fields
    <3>2. CASE ReadProducts(r)
      BY <1>0, <3>2 DEF ReadProducts, Step, At, Fields
    <3>3. CASE CrumbFails(r)
      BY <1>0, <3>3 DEF CrumbFails, Step, At, Fields
    <3> QED BY <1>6, <3>1, <3>2, <3>3
  <2> QED BY <1>2, <2>1 DEF MenuInv
<1>7. CASE RequestFails(r)
  <2>1. Same /\ q.pc \notin {"render", "ok"}
    BY <1>0, <1>7 DEF RequestFails, Step, At, Fields
  <2> QED BY <1>2, <2>1 DEF MenuInv
<1>8. CASE MenuCached(r)
  <2>1. /\ Fresh /\ p.menuFrom = nav.from /\ p.menuRead = nav.read /\ p.menuAt = nav.at
        /\ p.answeredAt = now /\ p.pc = "ok" /\ NavSame
    BY <1>0, <1>8 DEF MenuCached, Settled, Step, At, Fields
  <2>2. nav.at \in 0 .. now /\ Dated(nav.from, nav.read) /\ now - nav.at < CategoryTreeTtl
    BY <2>1 DEF MenuInv, Fresh
  <2>3. now < nav.at + CategoryTreeTtl
    BY <1>0, <2>2, TtlIs
  <2> QED BY <1>0, <2>1, <2>2, <2>3 DEF Shows
<1>9. CASE MenuMissing(r)
  <2>1. Same /\ q.pc \notin {"render", "ok"}
    BY <1>0, <1>9 DEF MenuMissing, Settled, Step, At, Fields
  <2> QED BY <1>2, <2>1 DEF MenuInv
<1>10. CASE ReadMenuRows(r)
  <2>1. /\ p.menuFrom = Len(versions) /\ p.menuRead = now /\ p.menu = q.menu
        /\ q.pc = "menu_rows" /\ p.pc = "menu_names" /\ NavSame
    BY <1>0, <1>10 DEF ReadMenuRows, Step, At, Fields
  <2>2. Dated(Len(versions), now)
    BY <1>0 DEF Dated
  <2> QED BY <1>0, <2>1, <2>2 DEF Shows, MenuInv
<1>11. CASE ReadMenuNames(r)
  <2>1. /\ p.menuFrom = q.menuFrom /\ p.menuRead = q.menuRead /\ p.pc = "render" /\ NavSame
    BY <1>0, <1>11 DEF ReadMenuNames, Step, At, Fields
  <2> QED BY <1>0, <2>1 DEF Shows, MenuInv
<1>12. CASE SendTree(r)
  <2>1. /\ p.menuFrom = q.menuFrom /\ p.menuRead = q.menuRead /\ p.pc = "ok"
        /\ p.kind = "tree" /\ NavSame
    BY <1>0, <1>12 DEF SendTree, Step, At, Fields
  <2> QED BY <1>0, <2>1 DEF Shows, MenuInv, Pages
<1>13. CASE StoreMenu(r)
  <2>1. /\ p.menuFrom = q.menuFrom /\ p.menuRead = q.menuRead /\ p.pc = "ok"
        /\ p.menuAt = now /\ p.answeredAt = now
        /\ nav'.at = now /\ nav'.from = q.menuFrom /\ nav'.read = q.menuRead
    BY <1>0, <1>13 DEF StoreMenu, Step, At, Fields
  <2>2. now < now + CategoryTreeTtl
    BY <1>0, TtlIs
  <2> QED BY <1>0, <2>1, <2>2 DEF Shows
<1>14. CASE MenuFails(r)
  <2>1. /\ p.menuFrom = q.menuFrom /\ p.menuRead = q.menuRead /\ p.pc = "ok"
        /\ p.menu = NoMenu /\ NavSame
    BY <1>0, <1>14 DEF MenuFails, Step, At, Fields
  <2> QED BY <1>0, <2>1 DEF Shows, MenuInv
<1> QED BY <1>1, <1>3, <1>4, <1>5, <1>6, <1>7, <1>8, <1>9, <1>10, <1>11, <1>12,
           <1>13, <1>14 DEF Works, Handle, MenuInv

LEMMA MenuInvariant == Spec => []MenuInv
<1>1. Init => MenuInv
  <2> SUFFICES ASSUME Init PROVE MenuInv
    OBVIOUS
  <2>1. Len(versions) = 1 /\ now = 0 /\ nav = NoMenu
    BY DEF Init
  <2>2. Dated(1, 0)
    BY <2>1 DEF Dated
  <2>3. \A r \in Request : /\ req[r].menuFrom = 1 /\ req[r].menuRead = 0
                           /\ req[r].menu = NoMenu
    BY DEF Init, Idle
  <2> QED BY <2>1, <2>2, <2>3 DEF MenuInv, Shows
<1>2. Shape /\ MenuInv /\ [Next]_vars => MenuInv'
  <2> SUFFICES ASSUME Shape, MenuInv, [Next]_vars PROVE MenuInv'
    OBVIOUS
  <2>1. CASE Change
    <3>1. UNCHANGED <<nav, now, req>>
      BY <2>1, ChangeGrows
    <3>2. \A r \in Request : Dated(req[r].menuFrom, req[r].menuRead)'
      BY <2>1, <3>1, DatedLater DEF MenuInv, Shows
    <3>3. nav # NoMenu => Dated(nav.from, nav.read)'
      BY <2>1, <3>1, DatedLater DEF MenuInv
    <3> QED BY <3>1, <3>2, <3>3 DEF MenuInv, Shows
  <2>2. CASE Tick
    <3>1. now' = now + 1 /\ now \in Nat /\ UNCHANGED <<versions, since, nav, req>>
      BY <2>2 DEF Tick, Shape
    <3>2. \A from, read : Dated(from, read) => Dated(from, read)'
      BY <3>1 DEF Dated
    <3>3. \A r \in Request : Dated(req[r].menuFrom, req[r].menuRead)'
      BY <3>1, <3>2 DEF MenuInv, Shows
    <3>4. nav # NoMenu => Dated(nav.from, nav.read)'
      BY <3>1, <3>2 DEF MenuInv
    <3> QED BY <3>1, <3>3, <3>4 DEF MenuInv, Shows
  <2>3. CASE UNCHANGED vars
    BY <2>3 DEF vars, MenuInv, Shows, Dated
  <2>4. ASSUME NEW r \in Request, Works(r) PROVE MenuInv'
    <3>1. /\ Shows(req'[r])
          /\ nav' # NoMenu => Dated(nav'.from, nav'.read) /\ nav'.at \in 0 .. now
      BY <2>4, ShowsKept
    <3>2. /\ UNCHANGED <<versions, since, now>>
          /\ \A s \in Request \ {r} : req'[s] = req[s]
      BY <2>4, WorkFrame DEF Frame
    <3> QED BY <3>1, <3>2 DEF MenuInv, Shows, Dated
  <2> QED BY <2>1, <2>2, <2>3, <2>4, StepKinds
<1> QED BY <1>1, <1>2, ShapeHolds, PTL DEF Spec

\* No page shows a menu that was out of date for longer than CATEGORY_TREE_TTL
\* and the time it took to build, even if a slow page stored its menu over a
\* newer one (nav_fragments, crates/web/src/state.rs).
THEOREM MenusAreRecent == Spec => []MenuIsRecent
<1>1. Shape /\ MenuInv => MenuIsRecent
  <2> SUFFICES ASSUME Shape, MenuInv, NEW r \in Request,
                      req[r].kind \in Pages, req[r].pc = "ok", req[r].menu # NoMenu,
                      req[r].menuFrom < Len(versions)
               PROVE  req[r].answeredAt < since[req[r].menuFrom + 1] + CategoryTreeTtl
                                            + (req[r].menuAt - req[r].menuRead)
    BY DEF MenuIsRecent
  <2> DEFINE next == since[req[r].menuFrom + 1]
             sent == req[r].answeredAt
             at   == req[r].menuAt
             read == req[r].menuRead
  <2>1. /\ sent < at + CategoryTreeTtl /\ sent \in Nat /\ at \in Nat
        /\ read \in Nat /\ read <= next
    BY DEF MenuInv, Shows, Dated, Shape
  <2>2. next \in Nat
    <3>1. req[r].menuFrom \in 1 .. Len(versions)
      BY DEF MenuInv, Shows, Dated
    <3> QED BY <3>1 DEF Shape
  <2> HIDE DEF next, sent, at, read
  <2>3. sent < next + CategoryTreeTtl + (at - read)
    BY <2>1, <2>2, TtlIs
  <2> QED BY <2>3 DEF next, sent, at, read
<1> QED BY <1>1, ShapeHolds, MenuInvariant, PTL

-----------------------------------------------------------------------------
(* A table is a tree, and its paths say so.                                *)

TreeOf(rows) ==
    /\ DOMAIN rows \subseteq Id
    /\ \A id \in DOMAIN rows :
         /\ rows[id].path \in Seq(Nat)
         /\ rows[id].parent_id = 0 => Len(rows[id].path) = 1
         /\ rows[id].parent_id # 0 =>
              /\ rows[id].parent_id \in DOMAIN rows
              /\ rows[id].path = Append(rows[rows[id].parent_id].path, id)
    /\ \A a, b \in DOMAIN rows : rows[a].parent_id = 0 /\ rows[b].parent_id = 0 => a = b

LEMMA SubSeqIs ==
    ASSUME NEW path \in Seq(Nat), NEW n \in 0 .. Len(path)
    PROVE  /\ SubSeq(path, 1, n) \in Seq(Nat) /\ Len(SubSeq(path, 1, n)) = n
           /\ \A k \in 1 .. n : SubSeq(path, 1, n)[k] = path[k]
           /\ SubSeq(path, 1, n) = [k \in 1 .. n |-> path[k]]
OBVIOUS

\* A part of a part from the start on is a part.
LEMMA SubSubSeq ==
    ASSUME NEW path \in Seq(Nat), NEW n \in 0 .. Len(path), NEW m \in 0 .. n
    PROVE  SubSeq(SubSeq(path, 1, n), 1, m) = SubSeq(path, 1, m)
<1> DEFINE s == SubSeq(path, 1, n)
<1>1. s \in Seq(Nat) /\ Len(s) = n /\ \A k \in 1 .. n : s[k] = path[k]
  BY SubSeqIs
<1> HIDE DEF s
<1>2. m \in 0 .. Len(s) /\ m \in 0 .. Len(path)
  BY <1>1
<1>3. SubSeq(s, 1, m) = [k \in 1 .. m |-> s[k]]
  BY <1>1, <1>2, SubSeqIs
<1>4. SubSeq(path, 1, m) = [k \in 1 .. m |-> path[k]]
  BY <1>2, SubSeqIs
<1>5. \A k \in 1 .. m : s[k] = path[k]
  BY <1>1
<1> QED BY <1>3, <1>4, <1>5 DEF s

LEMMA AppendedIs ==
    ASSUME NEW s \in Seq(Nat), NEW x \in Nat
    PROVE  /\ Append(s, x) \in Seq(Nat) /\ Len(s) \in Nat
           /\ Len(Append(s, x)) = Len(s) + 1 /\ Append(s, x)[Len(s) + 1] = x
           /\ SubSeq(Append(s, x), 1, Len(s)) = s
OBVIOUS

\* One row of it.
LEMMA RowOfTree ==
    ASSUME NEW rows, TreeOf(rows), NEW x \in DOMAIN rows, NEW p, p = rows[x].path
    PROVE  /\ p \in Seq(Nat) /\ Len(p) \in Nat \ {0} /\ x \in Nat \ {0}
           /\ Len(p) = 1 <=> rows[x].parent_id = 0
           /\ Len(p) # 1 => /\ p[Len(p)] = x
                            /\ rows[x].parent_id \in DOMAIN rows
                            /\ rows[rows[x].parent_id].path = SubSeq(p, 1, Len(p) - 1)
<1>0. x \in Nat \ {0} /\ p \in Seq(Nat) /\ Len(p) \in Nat
  BY DEF TreeOf, Id
<1>1. CASE rows[x].parent_id = 0
  BY <1>0, <1>1 DEF TreeOf
<1>2. CASE rows[x].parent_id # 0
  <2> DEFINE q == rows[x].parent_id
             s == rows[q].path
  <2>1. q \in DOMAIN rows /\ p = Append(s, x) /\ s \in Seq(Nat)
    BY <1>2 DEF TreeOf
  <2>2. Len(s) # 0
    <3>1. CASE rows[q].parent_id = 0
      BY <2>1, <3>1 DEF TreeOf
    <3>2. CASE rows[q].parent_id # 0
      <4> DEFINE u == rows[rows[q].parent_id].path
      <4>0. rows[q].parent_id \in DOMAIN rows /\ s = Append(u, q)
        BY <2>1, <3>2 DEF TreeOf
      <4>1. u \in Seq(Nat) /\ q \in Nat
        BY <2>1, <4>0 DEF TreeOf, Id
      <4> HIDE DEF u, s, q
      <4> QED BY <4>0, <4>1
    <3> QED BY <3>1, <3>2
  <2> HIDE DEF s
  <2>3. /\ Len(s) \in Nat /\ Len(p) = Len(s) + 1 /\ p[Len(s) + 1] = x
        /\ SubSeq(p, 1, Len(s)) = s
    BY <1>0, <2>1, AppendedIs
  <2>4. Len(p) # 1 /\ Len(p) - 1 = Len(s) /\ p[Len(p)] = x
    BY <2>2, <2>3
  <2> QED BY <1>0, <1>2, <2>1, <2>3, <2>4 DEF s
<1> QED BY <1>1, <1>2

\* No two categories have one path.
LEMMA PathsDiffer ==
    ASSUME NEW rows, TreeOf(rows), NEW a \in DOMAIN rows, NEW b \in DOMAIN rows,
           rows[a].path = rows[b].path
    PROVE  a = b
<1> DEFINE p == rows[a].path
<1>1. /\ Len(p) = 1 <=> rows[a].parent_id = 0
      /\ Len(p) # 1 => p[Len(p)] = a
  BY RowOfTree
<1>2. /\ Len(p) = 1 <=> rows[b].parent_id = 0
      /\ Len(p) # 1 => p[Len(p)] = b
  BY RowOfTree
<1> QED BY <1>1, <1>2 DEF TreeOf

\* Each part of a path is the path of a category, and but for the root its last
\* element names it.
LEMMA AncestorExists ==
    ASSUME NEW rows, TreeOf(rows), NEW x \in DOMAIN rows,
           NEW n \in 1 .. Len(rows[x].path)
    PROVE  \E a \in DOMAIN rows : /\ rows[a].path = SubSeq(rows[x].path, 1, n)
                                  /\ n # 1 => a = rows[x].path[n]
<1> DEFINE p == rows[x].path
           l == Len(p)
           Named(a, m) == /\ rows[a].path = SubSeq(p, 1, m)
                          /\ m # 1 => a = p[m]
           P == {j \in 0 .. l - 1 : \E a \in DOMAIN rows : Named(a, l - j)}
<1>0. /\ p \in Seq(Nat) /\ l \in Nat \ {0} /\ n \in 1 .. l
      /\ l # 1 => p[l] = x
  BY RowOfTree
<1>1. 0 \in P
  <2>1. SubSeq(p, 1, l) = p /\ l - 0 = l
    BY <1>0
  <2>2. Named(x, l)
    BY <1>0, <2>1
  <2> QED BY <1>0, <2>1, <2>2
<1>2. ASSUME NEW j \in 0 .. (l - 1) - 1, j \in P
      PROVE  j + 1 \in P
  <2> HIDE DEF p
  <2>1. PICK a \in DOMAIN rows : Named(a, l - j)
    BY <1>2
  <2> DEFINE m == l - j
             q == rows[a].parent_id
             s == rows[a].path
  <2>2. m \in 2 .. l /\ m \in 0 .. l /\ m - 1 \in 0 .. m /\ m - 1 \in 0 .. l
        /\ m - 1 = l - (j + 1) /\ j + 1 \in 0 .. l - 1 /\ m - 1 \in 1 .. m - 1
    BY <1>0
  <2> HIDE DEF m, l
  <2>3. s = SubSeq(p, 1, m) /\ Len(s) = m
    <3>1. s = SubSeq(p, 1, m)
      BY <2>1 DEF m
    <3>2. m \in 0 .. Len(p)
      BY <2>2 DEF l
    <3> QED BY <1>0, <3>1, <3>2, SubSeqIs
  <2>4. q \in DOMAIN rows /\ rows[q].path = SubSeq(s, 1, m - 1)
    <3>1. Len(s) # 1
      BY <2>2, <2>3
    <3> QED BY <2>3, <3>1, RowOfTree
  <2>5. rows[q].path = SubSeq(p, 1, m - 1)
    BY <1>0, <2>2, <2>3, <2>4, SubSubSeq DEF l
  <2>6. m - 1 # 1 => q = p[m - 1]
    <3> DEFINE t == rows[q].path
               k == m - 1
    <3> SUFFICES ASSUME k # 1 PROVE q = p[k]
      OBVIOUS
    <3>1. k \in 1 .. k /\ k \in 0 .. Len(p)
      BY <2>2 DEF l
    <3>2. t = SubSeq(p, 1, k)
      BY <2>5
    <3> HIDE DEF k
    <3>3. Len(t) = k /\ t[k] = p[k]
      BY <1>0, <3>1, <3>2, SubSeqIs
    <3>4. t[Len(t)] = q
      BY <2>4, <3>3, RowOfTree
    <3> QED BY <3>3, <3>4
  <2>7. Named(q, l - (j + 1))
    BY <2>2, <2>5, <2>6
  <2> HIDE DEF q, Named
  <2> QED BY <2>2, <2>4, <2>7
<1>3. l - 1 \in Nat /\ l - n \in 0 .. l - 1 /\ l - (l - n) = n
  BY <1>0
<1> HIDE DEF P, l
<1>4. \A j \in 0 .. l - 1 : j \in P
  <2> DEFINE k == l - 1
  <2> HIDE DEF k
  <2>1. k \in Nat /\ 0 \in P /\ \A j \in 0 .. k - 1 : j \in P => j + 1 \in P
    BY <1>1, <1>2, <1>3 DEF k
  <2>2. \A j \in 0 .. k : j \in P
    BY <2>1, Induction
  <2> QED BY <2>2 DEF k
<1>5. l - n \in P
  BY <1>3, <1>4
<1>6. \E a \in DOMAIN rows : Named(a, n)
  BY <1>3, <1>5 DEF P
<1> QED BY <1>6

LEMMA ExistingTree == TreeOf(Existing)
<1>1. DOMAIN Existing \subseteq Id /\ \A id \in DOMAIN Existing : Existing[id].path \in Seq(Nat)
  BY CategoryPagesAssumption
<1>2. \A id \in DOMAIN Existing :
        /\ Existing[id].parent_id = 0 => Len(Existing[id].path) = 1
        /\ Existing[id].parent_id # 0 =>
             /\ Existing[id].parent_id \in DOMAIN Existing
             /\ Existing[id].path = Append(Existing[Existing[id].parent_id].path, id)
  <2> TAKE id \in DOMAIN Existing
  <2>1. CASE Existing[id].parent_id = 0
    <3>1. Existing[id].path = <<id>> \/ Existing[id].path = <<1>>
      BY <2>1, ExistingAssumption
    <3>2. Len(<<id>>) = 1 /\ Len(<<1>>) = 1
      OBVIOUS
    <3> QED BY <2>1, <3>1, <3>2
  <2>2. CASE Existing[id].parent_id # 0
    BY <2>2, ExistingAssumption
  <2> QED BY <2>1, <2>2
<1> QED BY <1>1, <1>2, ExistingAssumption DEF TreeOf

\* What is appended to a sequence leaves its elements where they are.
LEMMA AppendKeeps ==
    ASSUME NEW S, NEW s \in Seq(S), NEW x \in S, NEW p, p = Append(s, x)
    PROVE  \A n \in DOMAIN s : n \in DOMAIN p /\ p[n] = s[n]
<1>1. \A n \in 1 .. Len(s) : n \in 1 .. Len(s) + 1
  OBVIOUS
<1> QED BY <1>1, AppendIs

\* A version that grows from one of the shape has it.
LEMMA TreeOfGrows ==
    ASSUME NEW vs \in Seq(Table), Len(vs) > 0, NEW c, Grows(vs, c), TreeOf(Last(vs))
    PROVE  TreeOf(c)
<1> DEFINE last == Last(vs)
<1>0. /\ DOMAIN c \subseteq Id
      /\ \A k \in DOMAIN last : k \in Id /\ last[k].path \in Seq(Nat)
  BY TableIs DEF Grows, TreeOf
<1> HIDE DEF last
<1>1. ASSUME NEW gone \in SUBSET Id,
             DOMAIN c = {id \in DOMAIN last : \A n \in DOMAIN last[id].path :
                                                 last[id].path[n] \notin gone},
             \A id \in DOMAIN c : /\ c[id].path = last[id].path
                                  /\ c[id].parent_id = last[id].parent_id
      PROVE  TreeOf(c)
  <2>1. \A id \in DOMAIN c : id \in DOMAIN last
    BY <1>1
  <2>2. ASSUME NEW id \in DOMAIN c, c[id].parent_id # 0
        PROVE  /\ c[id].parent_id \in DOMAIN c
               /\ c[id].path = Append(c[c[id].parent_id].path, id)
    <3> DEFINE q == last[id].parent_id
               s == last[q].path
               p == last[id].path
    <3>1. q = c[id].parent_id /\ q \in DOMAIN last /\ p = Append(s, id) /\ p = c[id].path
      BY <1>1, <2>1, <2>2 DEF TreeOf, last
    <3>2. s \in Seq(Nat) /\ id \in Nat /\ \A n \in DOMAIN p : p[n] \notin gone
      BY <1>0, <1>1, <2>1, <3>1, IdIs
    <3> HIDE DEF s, p, q
    <3>3. \A n \in DOMAIN s : n \in DOMAIN p /\ p[n] = s[n]
      BY <3>1, <3>2, AppendKeeps
    <3>4. \A n \in DOMAIN last[q].path : last[q].path[n] \notin gone
      BY <3>2, <3>3 DEF s
    <3>5. q \in DOMAIN c
      BY <1>1, <3>1, <3>4
    <3> QED BY <1>1, <3>1, <3>5 DEF s
  <2>3. \A id \in DOMAIN c : /\ c[id].path \in Seq(Nat)
                             /\ c[id].parent_id = 0 => Len(c[id].path) = 1
    BY <1>1, <2>1 DEF TreeOf, last
  <2>4. \A a, b \in DOMAIN c : c[a].parent_id = 0 /\ c[b].parent_id = 0 => a = b
    BY <1>1, <2>1 DEF TreeOf, last
  <2>5. \A id \in DOMAIN c :
          /\ c[id].path \in Seq(Nat)
          /\ c[id].parent_id = 0 => Len(c[id].path) = 1
          /\ c[id].parent_id # 0 =>
               /\ c[id].parent_id \in DOMAIN c
               /\ c[id].path = Append(c[c[id].parent_id].path, id)
    BY <2>2, <2>3
  <2> QED BY <1>0, <2>4, <2>5, Zenon DEF TreeOf
<1>2. ASSUME NEW id \in Id, NEW parent \in DOMAIN last,
             DOMAIN c = DOMAIN last \cup {id},
             \A k \in DOMAIN last : c[k] = last[k],
             \A v \in DOMAIN vs : \A k \in DOMAIN vs[v] : k < id,
             c[id].path = Append(last[parent].path, id),
             c[id].parent_id = parent
      PROVE  TreeOf(c)
  <2>1. id \notin DOMAIN last
    <3>1. id \in DOMAIN last => id < id
      BY <1>2, LastVersion DEF last
    <3> QED BY <3>1, IdIs
  <2>2. last[parent].path \in Seq(Nat) /\ parent # 0 /\ id \in Nat
    BY <1>0, IdIs DEF Id
  <2>3. c[id].path \in Seq(Nat)
    <3> DEFINE s == last[parent].path
    <3> HIDE DEF s
    <3>1. s \in Seq(Nat) /\ c[id].path = Append(s, id)
      BY <1>2, <2>2 DEF s
    <3> QED BY <2>2, <3>1
  <2>4. ASSUME NEW k \in DOMAIN last
        PROVE  /\ c[k].path \in Seq(Nat)
               /\ c[k].parent_id = 0 => Len(c[k].path) = 1
               /\ c[k].parent_id # 0 =>
                    /\ c[k].parent_id \in DOMAIN last
                    /\ c[k].path = Append(c[c[k].parent_id].path, k)
    <3>1. /\ last[k].path \in Seq(Nat)
          /\ last[k].parent_id = 0 => Len(last[k].path) = 1
          /\ last[k].parent_id # 0 =>
               /\ last[k].parent_id \in DOMAIN last
               /\ last[k].path = Append(last[last[k].parent_id].path, k)
      BY DEF TreeOf, last
    <3>2. c[k] = last[k]
      BY <1>2
    <3>3. CASE last[k].parent_id = 0
      BY <3>1, <3>2, <3>3
    <3>4. CASE last[k].parent_id # 0
      <4>1. c[last[k].parent_id] = last[last[k].parent_id]
        BY <1>2, <3>1, <3>4
      <4> QED BY <3>1, <3>2, <3>4, <4>1
    <3> QED BY <3>3, <3>4
  <2>5. \A a, b \in DOMAIN c : c[a].parent_id = 0 /\ c[b].parent_id = 0 => a = b
    <3>1. \A a \in DOMAIN c : c[a].parent_id = 0 => a \in DOMAIN last
      BY <1>2, <2>2
    <3> QED BY <1>2, <3>1 DEF TreeOf, last
  <2>6. parent \in DOMAIN c /\ c[parent].path = last[parent].path
    BY <1>2
  <2> QED BY <1>0, <1>2, <2>2, <2>3, <2>4, <2>5, <2>6 DEF TreeOf
<1> QED BY <1>1, <1>2 DEF Grows, last

\* At every moment the table is a tree.
TreesInv == \A v \in DOMAIN versions : TreeOf(versions[v])

LEMMA TreesInvariant == Spec => []TreesInv
<1>1. Init => TreesInv
  <2> SUFFICES ASSUME Init PROVE TreesInv
    OBVIOUS
  <2>1. DOMAIN versions = {1} /\ versions[1] = Existing
    BY DEF Init
  <2> QED BY <2>1, ExistingTree DEF TreesInv
<1>2. Shape /\ TreesInv /\ [Next]_vars => TreesInv'
  <2> SUFFICES ASSUME Shape, TreesInv, [Next]_vars PROVE TreesInv'
    OBVIOUS
  <2>1. CASE Change
    <3>1. PICK c : Grows(versions, c) /\ versions' = Append(versions, c)
      BY <2>1, ChangeGrows
    <3>2. TreeOf(c)
      <4>1. Len(versions) \in DOMAIN versions /\ Last(versions) = versions[Len(versions)]
        BY LastVersion DEF Shape
      <4>2. TreeOf(Last(versions))
        BY <4>1 DEF TreesInv
      <4> QED BY <3>1, <4>2, TreeOfGrows DEF Shape
    <3>3. \A v \in DOMAIN versions' : (v \in DOMAIN versions /\ versions'[v] = versions[v])
                                     \/ versions'[v] = c
      BY <3>1, AppendIs DEF Shape, Grows
    <3> QED BY <3>2, <3>3 DEF TreesInv
  <2>2. CASE Tick \/ UNCHANGED vars
    BY <2>2 DEF Tick, vars, TreesInv
  <2>3. ASSUME NEW r \in Request, Works(r) PROVE TreesInv'
    BY <2>3, WorkFrame DEF Frame, TreesInv
  <2> QED BY <2>1, <2>2, <2>3, StepKinds
<1> QED BY <1>1, <1>2, ShapeHolds, PTL DEF Spec

-----------------------------------------------------------------------------
(* The crumbs of a product page lead down one path.                        *)

\* Once there was a category with that id and path.
Was(vs, id, path) ==
    \E v \in DOMAIN vs : id \in DOMAIN vs[v] /\ vs[v][id].path = path

\* The paths of all times are those of one tree: what a path names, if it was
\* ever a category, never had another path than the one that leads to it, and
\* is no id that a category may yet be given.
Tree(vs) ==
    \A id, path : Was(vs, id, path) =>
      \A n \in 1 .. Len(path) :
        /\ \E k, above : Was(vs, k, above) /\ path[n] <= k
        /\ \A above : Was(vs, path[n], above) => above = SubSeq(path, 1, n)

LEMMA WasIs ==
    ASSUME NEW vs \in Seq(Table), NEW id, NEW path, Was(vs, id, path)
    PROVE  path \in Seq(Nat) /\ id \in Nat
BY TableIs, LastVersion, IdIs DEF Was, Category

LEMMA WasLater ==
    ASSUME NEW vs \in Seq(Table), NEW c \in Table
    PROVE  \A id, path : Was(Append(vs, c), id, path) <=>
                           \/ Was(vs, id, path)
                           \/ id \in DOMAIN c /\ c[id].path = path
<1> DEFINE ws == Append(vs, c)
<1>1. /\ DOMAIN vs = 1 .. Len(vs) /\ DOMAIN ws = 1 .. Len(vs) + 1 /\ Len(vs) \in Nat
      /\ ws[Len(vs) + 1] = c /\ \A v \in DOMAIN vs : ws[v] = vs[v]
  BY AppendIs
<1> HIDE DEF ws
<1>2. \A v \in DOMAIN ws : v \in DOMAIN vs \/ v = Len(vs) + 1
  BY <1>1
<1>3. Len(vs) + 1 \in DOMAIN ws /\ \A v \in DOMAIN vs : v \in DOMAIN ws
  BY <1>1
<1>4. \A id, path : Was(ws, id, path) <=> \/ Was(vs, id, path)
                                          \/ id \in DOMAIN c /\ c[id].path = path
  BY <1>1, <1>2, <1>3 DEF Was
<1> QED BY <1>4 DEF ws

LEMMA TreeGrows ==
    ASSUME NEW vs \in Seq(Table), Len(vs) > 0, NEW c, Grows(vs, c), Tree(vs)
    PROVE  Tree(Append(vs, c))
<1> DEFINE ws   == Append(vs, c)
           last == Last(vs)
<1>0. /\ c \in Table /\ Len(vs) \in DOMAIN vs /\ last = vs[Len(vs)]
      /\ \A id \in DOMAIN last : Was(vs, id, last[id].path)
  BY LastVersion DEF Grows, Was
<1>1. \A id, path : Was(ws, id, path) <=> \/ Was(vs, id, path)
                                          \/ id \in DOMAIN c /\ c[id].path = path
  BY <1>0, WasLater
<1> HIDE DEF ws, last
<1>2. CASE \A id \in DOMAIN c : id \in DOMAIN last /\ c[id].path = last[id].path
  <2>1. \A id, path : Was(ws, id, path) <=> Was(vs, id, path)
    BY <1>0, <1>1, <1>2
  <2>2. Tree(ws)
    BY <2>1 DEF Tree
  <2> QED BY <2>2 DEF ws
<1>3. ASSUME NEW id \in Id, NEW parent \in DOMAIN last,
             DOMAIN c = DOMAIN last \cup {id},
             \A k \in DOMAIN last : c[k] = last[k],
             \A v \in DOMAIN vs : \A k \in DOMAIN vs[v] : k < id,
             c[id].path = Append(last[parent].path, id)
      PROVE  Tree(ws)
  <2> DEFINE stem == last[parent].path
             new  == Append(stem, id)
  <2>0. \A k, path : Was(vs, k, path) => k \in Nat /\ k < id
    BY <1>3, WasIs DEF Was
  <2>1. /\ id \in Nat /\ \A path : ~ Was(vs, id, path)
        /\ \A v \in DOMAIN vs : id \notin DOMAIN vs[v]
    <3>1. id \in Nat /\ ~ (id < id)
      BY IdIs
    <3>2. \A path : ~ Was(vs, id, path)
      BY <2>0, <3>1
    <3>3. \A v \in DOMAIN vs : id \notin DOMAIN vs[v]
      BY <1>3, <3>1
    <3> QED BY <3>1, <3>2, <3>3
  <2>2. \A k, path : Was(ws, k, path) <=> Was(vs, k, path) \/ (k = id /\ path = new)
    <3>1. id \notin DOMAIN last /\ c[id].path = new
      BY <1>0, <1>3, <2>1
    <3> HIDE DEF new
    <3> QED BY <1>0, <1>1, <1>3, <3>1
  <2>3. stem \in Seq(Nat) /\ Was(vs, parent, stem)
    BY <1>0, WasIs
  <2>4. /\ new \in Seq(Nat) /\ Len(new) = Len(stem) + 1 /\ new[Len(stem) + 1] = id
        /\ Len(stem) \in Nat
        /\ \A n \in 1 .. Len(stem) : new[n] = stem[n] /\ SubSeq(new, 1, n) = SubSeq(stem, 1, n)
        /\ SubSeq(new, 1, Len(stem) + 1) = new
    <3>1. id \in Nat
      BY IdIs
    <3> HIDE DEF stem
    <3> QED BY <2>3, <3>1
  <2> HIDE DEF new, stem
  <2>5. ASSUME NEW k, NEW path, Was(ws, k, path), NEW n \in 1 .. Len(path)
        PROVE  /\ \E a, above : Was(ws, a, above) /\ path[n] <= a
               /\ \A above : Was(ws, path[n], above) => above = SubSeq(path, 1, n)
    <3>0. ASSUME NEW m, NEW a, NEW above, Was(vs, a, above), m <= a
          PROVE  m # id
      <4>1. a \in Nat /\ a < id
        BY <2>0, <3>0
      <4> QED BY <2>1, <3>0, <4>1
    <3>1. CASE Was(vs, k, path)
      <4>1. /\ \E a, above : Was(vs, a, above) /\ path[n] <= a
            /\ \A above : Was(vs, path[n], above) => above = SubSeq(path, 1, n)
        BY <3>1 DEF Tree
      <4>2. path[n] # id
        BY <3>0, <4>1
      <4> QED BY <2>2, <4>1, <4>2
    <3>2. CASE path = new /\ n \in 1 .. Len(stem)
      <4>1. /\ \E a, above : Was(vs, a, above) /\ stem[n] <= a
            /\ \A above : Was(vs, stem[n], above) => above = SubSeq(stem, 1, n)
        BY <2>3, <3>2 DEF Tree
      <4>2. stem[n] # id
        BY <3>0, <4>1
      <4>3. path[n] = stem[n] /\ SubSeq(path, 1, n) = SubSeq(stem, 1, n)
        BY <2>4, <3>2
      <4> QED BY <2>2, <4>1, <4>2, <4>3
    <3>3. CASE path = new /\ n = Len(stem) + 1
      <4>1. path[n] = id /\ SubSeq(path, 1, n) = new
        BY <2>4, <3>3
      <4>2. Was(ws, id, new) /\ path[n] <= id
        BY <2>1, <2>2, <4>1
      <4> QED BY <2>1, <2>2, <4>1, <4>2
    <3> QED BY <2>2, <2>4, <2>5, <3>1, <3>2, <3>3
  <2> QED BY <2>5 DEF Tree
<1> QED BY <1>2, <1>3 DEF Grows, ws, last

LEMMA TreeInvariant == Spec => []Tree(versions)
<1>1. Init => Tree(versions)
  <2> SUFFICES ASSUME Init PROVE Tree(versions)
    OBVIOUS
  <2>1. DOMAIN versions = {1} /\ versions[1] = Existing
    BY DEF Init
  <2>2. \A id, path : Was(versions, id, path) <=>
                        id \in DOMAIN Existing /\ Existing[id].path = path
    BY <2>1 DEF Was
  <2>3. ASSUME NEW id, NEW path, Was(versions, id, path), NEW n \in 1 .. Len(path)
        PROVE  /\ \E k, above : Was(versions, k, above) /\ path[n] <= k
               /\ \A above : Was(versions, path[n], above) => above = SubSeq(path, 1, n)
    <3>1. id \in DOMAIN Existing /\ path = Existing[id].path /\ path \in Seq(Nat)
      BY <2>2, <2>3, ExistingTree DEF TreeOf
    <3>2. PICK a \in DOMAIN Existing : /\ Existing[a].path = SubSeq(path, 1, n)
                                       /\ n # 1 => a = path[n]
      BY <3>1, ExistingTree, AncestorExists
    <3>3. a \in Nat \ {0}
      BY ExistingTree DEF TreeOf, Id
    <3>4. CASE n # 1
      <4>0. a = path[n]
        BY <3>2, <3>4, Zenon
      <4>1. a = path[n] /\ a <= a
        BY <3>3, <4>0
      <4>2. Was(versions, a, Existing[a].path)
        BY <2>2
      <4>3. \A above : Was(versions, a, above) => above = SubSeq(path, 1, n)
        BY <2>2, <3>2
      <4> QED BY <4>1, <4>2, <4>3
    <3>5. CASE n = 1
      <4>1. Len(Existing[a].path) = 1 /\ Existing[a].path[1] = path[1]
        <5>1. 1 \in 0 .. Len(path) /\ 1 \in 1 .. 1
          BY <3>1, <3>5
        <5>2. Len(SubSeq(path, 1, 1)) = 1 /\ SubSeq(path, 1, 1)[1] = path[1]
          BY <3>1, <5>1, SubSeqIs
        <5> QED BY <3>2, <3>5, <5>2
      <4>2. Existing[a].parent_id = 0
        BY <4>1, ExistingTree, RowOfTree
      <4>3. path[1] = a \/ (path[1] = 1 /\ 1 \notin DOMAIN Existing)
        <5>1. Existing[a].path = <<a>> \/ (Existing[a].path = <<1>> /\ 1 \notin DOMAIN Existing)
          BY <4>2, ExistingAssumption
        <5> QED BY <4>1, <5>1
      <4>4. path[1] <= a
        BY <3>3, <4>3
      <4>5. Was(versions, a, Existing[a].path)
        BY <2>2
      <4>6. ASSUME NEW above, Was(versions, path[1], above)
            PROVE  above = SubSeq(path, 1, 1)
        <5>1. path[1] \in DOMAIN Existing /\ above = Existing[path[1]].path
          BY <2>2, <4>6
        <5>2. path[1] = a
          BY <4>3, <5>1
        <5> QED BY <3>2, <3>5, <5>1, <5>2
      <4> QED BY <3>5, <4>4, <4>5, <4>6
    <3> QED BY <3>4, <3>5
  <2> QED BY <2>3 DEF Tree
<1>2. Shape /\ Tree(versions) /\ [Next]_vars => Tree(versions)'
  <2> SUFFICES ASSUME Shape, Tree(versions), [Next]_vars PROVE Tree(versions)'
    OBVIOUS
  <2>1. CASE Change
    BY <2>1, ChangeGrows, TreeGrows DEF Shape
  <2>2. CASE Tick \/ UNCHANGED vars
    BY <2>2 DEF Tick, vars
  <2>3. ASSUME NEW r \in Request, Works(r) PROVE Tree(versions)'
    BY <2>3, WorkFrame DEF Frame
  <2> QED BY <2>1, <2>2, <2>3, StepKinds
<1> QED BY <1>1, <1>2, ShapeHolds, PTL DEF Spec

\* The crumbs a page asks for are what is kept of a path there was.
Crumbs(vs, ids) ==
    \E path \in Seq(Nat) :
      /\ path = <<>> \/ \E id : Was(vs, id, path)
      /\ ids = Kept(path, Nat \ BreadcrumbExcludedIds)

Leads(vs, q) ==
    q.kind = "product" =>
      /\ q.pc \notin {"rows", "products"}
      /\ q.pc \in {"probe", "row", "attributes", "put", "menu"} => Crumbs(vs, q.ids)

CrumbInv == \A r \in Request : Leads(versions, req[r])

LEMMA NoCrumbs == ASSUME NEW vs PROVE Crumbs(vs, <<>>)
<1> DEFINE s == <<>>
           S == Nat \ BreadcrumbExcludedIds
<1>1. s \in Seq(Nat) /\ Len(s) = 0
  OBVIOUS
<1> HIDE DEF s, S
<1>2. PICK h : Picks(h, Kept(s, S), s, S, 0) /\ Kept(s, S) \in Seq(Nat)
  BY <1>1, KeptPicks
<1>3. Kept(s, S) = <<>>
  BY <1>2 DEF Picks
<1> QED BY <1>1, <1>3 DEF Crumbs, s, S

LEMMA LeadsKept ==
    ASSUME Shape, CrumbInv, NEW r \in Request, Works(r)
    PROVE  Leads(versions, req'[r])
<1> DEFINE q == req[r]
           p == req'[r]
           Same == /\ p.kind = q.kind /\ p.ids = q.ids
                   /\ q.pc \in {"probe", "row", "attributes", "put"}
                   /\ p.pc = "products" => q.kind = "category"
                   /\ p.pc # "rows"
<1>0. /\ DOMAIN q = Fields /\ DOMAIN req = Request /\ Leads(versions, q)
      /\ versions \in Seq(Table) /\ Len(versions) > 0 /\ Categories = Last(versions)
  BY DEF Shape, CrumbInv, Categories
<1>1. ASSUME Begin(r)
      PROVE  Leads(versions, p)
  <2>1. PICK api, kind, pc, ids, uids :
          /\ Start(r, api, kind, pc, ids, uids)
          /\ kind = "product" => pc = "path"
    BY <1>1, BeginStarts DEF Starts
  <2> DEFINE new == [Idle EXCEPT !.api = api, !.kind = kind, !.pc = pc, !.ids = ids,
                          !.queue = ids, !.uids = uids,
                          !.from = IF kind = "list" THEN Len(versions) ELSE 1]
  <2>2. Step(r, "idle", new) /\ DOMAIN new = Fields
    BY <2>1, StartIs
  <2>3. new.kind = kind /\ new.pc = pc
    BY DEF Idle
  <2> HIDE DEF new
  <2>4. p = new
    BY <2>2, StepIs
  <2> QED BY <2>1, <2>3, <2>4 DEF Leads
<1>2. ASSUME Same
      PROVE  Leads(versions, p)
  BY <1>0, <1>2 DEF Leads
<1>3. CASE ReadRows(r)
  <2>1. q.pc = "rows" /\ p.kind = q.kind
    BY <1>0, <1>3 DEF ReadRows, Step, At, Fields
  <2> QED BY <1>0, <2>1 DEF Leads
<1>4. CASE ProbeHit(r) \/ ProbeMiss(r)
  <2>1. CASE ProbeHit(r)
    BY <1>0, <1>2, <2>1 DEF ProbeHit, Step, At, Fields
  <2>2. CASE ProbeMiss(r)
    BY <1>0, <1>2, <2>2 DEF ProbeMiss, Step, At, Fields
  <2> QED BY <1>4, <2>1, <2>2
<1>5. CASE ReadRow(r) \/ ReadAttributes(r) \/ Probed(r)
  <2>1. CASE ReadRow(r)
    BY <1>0, <1>2, <2>1 DEF ReadRow, Step, At, Fields
  <2>2. CASE ReadAttributes(r)
    BY <1>0, <1>2, <2>2 DEF ReadAttributes, Step, At, Fields
  <2>3. CASE Probed(r)
    BY <1>0, <1>2, <2>3 DEF Probed, Step, At, Fields
  <2> QED BY <1>5, <2>1, <2>2, <2>3
<1>6. ASSUME NEW id \in Id, Put(r, id)
      PROVE  Leads(versions, p)
  <2> DEFINE pc == IF Without(q.held, id) = Nothing THEN "probe" ELSE "put"
  <2>1. /\ p = [At(r, pc) EXCEPT !.held = Without(q.held, id),
                  !.found = With(@, id, q.held[id]),
                  !.queue = IF @ = <<>> THEN @ ELSE Tail(@)]
        /\ q.pc = "put"
    BY <1>0, <1>6 DEF Put, Step
  <2> HIDE DEF pc, p
  <2>2. p.kind = q.kind /\ p.ids = q.ids /\ p.pc = pc
    BY <1>0, <2>1 DEF At, Fields
  <2>3. pc \in {"probe", "put"}
    BY DEF pc
  <2> QED BY <1>2, <2>1, <2>2, <2>3 DEF p
<1>7. CASE FindPath(r)
  <2> DEFINE last == Head(q.ids)
             path == IF last \in DOMAIN Categories THEN Categories[last].path ELSE <<>>
  <2>1. p.ids = Kept(path, Nat \ BreadcrumbExcludedIds) /\ p.pc = "probe"
    BY <1>0, <1>7 DEF FindPath, Step, At, Fields
  <2>2. path \in Seq(Nat) /\ (path = <<>> \/ \E id : Was(versions, id, path))
    <3>1. CASE last \notin DOMAIN Categories
      BY <3>1
    <3>2. CASE last \in DOMAIN Categories
      <4>1. Was(versions, last, path)
        BY <1>0, <3>2, LastVersion DEF Was
      <4> QED BY <1>0, <4>1, WasIs
    <3> QED BY <3>1, <3>2
  <2> HIDE DEF path
  <2> QED BY <2>1, <2>2 DEF Leads, Crumbs
<1>8. CASE ReadProducts(r)
  <2>1. p.kind = q.kind /\ q.pc = "products"
    BY <1>0, <1>8 DEF ReadProducts, Step, At, Fields
  <2> QED BY <1>0, <2>1 DEF Leads
<1>9. CASE MenuCached(r)
  <2>1. p.pc = "ok"
    BY <1>0, <1>9 DEF MenuCached, Settled, Step, At, Fields
  <2> QED BY <2>1 DEF Leads
<1>10. CASE MenuMissing(r)
  <2>1. p.pc = "menu_rows"
    BY <1>0, <1>10 DEF MenuMissing, Settled, Step, At, Fields
  <2> QED BY <2>1 DEF Leads
<1>11. CASE ReadMenuRows(r) \/ ReadMenuNames(r) \/ MenuFails(r)
  <2>1. p.pc \in {"menu_names", "render", "ok"}
    BY <1>0, <1>11 DEF ReadMenuRows, ReadMenuNames, MenuFails, Step, At, Fields
  <2> QED BY <2>1 DEF Leads
<1>12. CASE SendTree(r)
  <2>1. p.pc = "ok"
    BY <1>0, <1>12 DEF SendTree, Step, At, Fields
  <2> QED BY <2>1 DEF Leads
<1>13. CASE StoreMenu(r)
  <2>1. p.pc = "ok"
    BY <1>0, <1>13 DEF StoreMenu, Step, At, Fields
  <2> QED BY <2>1 DEF Leads
<1>14. CASE RequestFails(r)
  <2>1. p.pc = "failed"
    BY <1>0, <1>14 DEF RequestFails, Step, At, Fields
  <2> QED BY <2>1 DEF Leads
<1>15. CASE CrumbFails(r)
  <2>1. Same \/ (p.ids = <<>> /\ p.pc = "menu")
    <3>1. CASE Step(r, "path", [At(r, "menu") EXCEPT !.ids = <<>>, !.queue = <<>>])
      BY <1>0, <3>1 DEF Step, At, Fields
    <3>2. CASE \E pc \in {"row", "attributes"} :
                 Step(r, pc, [At(r, "probe") EXCEPT !.queue = Tail(@), !.held = Nothing])
      <4>1. PICK pc \in {"row", "attributes"} :
              Step(r, pc, [At(r, "probe") EXCEPT !.queue = Tail(@), !.held = Nothing])
        BY <3>2
      <4>2. p.kind = q.kind /\ p.ids = q.ids /\ p.pc = "probe" /\ q.pc = pc
        BY <1>0, <4>1 DEF Step, At, Fields
      <4> QED BY <4>1, <4>2
    <3> QED BY <1>15, <3>1, <3>2 DEF CrumbFails
  <2> QED BY <1>2, <2>1, NoCrumbs DEF Leads
<1> QED BY <1>1, <1>3, <1>4, <1>5, <1>6, <1>7, <1>8, <1>9, <1>10, <1>11, <1>12,
           <1>13, <1>14, <1>15 DEF Works, Handle

LEMMA CrumbInvariant == Spec => []CrumbInv
<1>1. Init => CrumbInv
  BY DEF Init, Idle, CrumbInv, Leads
<1>2. Shape /\ CrumbInv /\ [Next]_vars => CrumbInv'
  <2> SUFFICES ASSUME Shape, CrumbInv, [Next]_vars PROVE CrumbInv'
    OBVIOUS
  <2>1. CASE Change
    <3>1. PICK c : Grows(versions, c) /\ versions' = Append(versions, c)
      BY <2>1, ChangeGrows
    <3>2. versions \in Seq(Table) /\ c \in Table /\ req' = req
      BY <2>1, <3>1, ChangeGrows DEF Grows, Shape
    <3>3. \A id, path : Was(versions, id, path) => Was(versions', id, path)
      BY <3>1, <3>2, WasLater
    <3> QED BY <3>2, <3>3 DEF CrumbInv, Leads, Crumbs
  <2>2. CASE Tick \/ UNCHANGED vars
    BY <2>2 DEF Tick, vars, CrumbInv
  <2>3. ASSUME NEW r \in Request, Works(r) PROVE CrumbInv'
    BY <2>3, LeadsKept, WorkFrame DEF Frame, CrumbInv
  <2> QED BY <2>1, <2>2, <2>3, StepKinds
<1> QED BY <1>1, <1>2, ShapeHolds, PTL DEF Spec

\* A shorter part of a path is a strict prefix of a longer one.
LEMMA PartsArePrefixes ==
    ASSUME NEW path \in Seq(Nat), NEW m \in 1 .. Len(path), NEW n \in 1 .. Len(path), m < n
    PROVE  IsStrictPrefix(SubSeq(path, 1, m), SubSeq(path, 1, n))
<1> DEFINE a == SubSeq(path, 1, m)
           b == SubSeq(path, 1, n)
<1>1. /\ a \in Seq(Nat) /\ Len(a) = m /\ \A k \in 1 .. m : a[k] = path[k]
      /\ b \in Seq(Nat) /\ Len(b) = n /\ \A k \in 1 .. n : b[k] = path[k]
  OBVIOUS
<1> HIDE DEF a, b
<1>2. SubSeq(a, 1, m) = SubSeq(b, 1, m)
  <2>1. SubSeq(a, 1, m) = [k \in 1 .. m |-> path[k]]
    BY <1>1
  <2>2. SubSeq(b, 1, m) = [k \in 1 .. m |-> path[k]]
    BY <1>1
  <2> QED BY <2>1, <2>2
<1>3. IsStrictPrefix(a, b)
  BY <1>1, <1>2 DEF IsStrictPrefix, IsPrefix
<1> QED BY <1>3 DEF a, b

\* The breadcrumbs of a product page lead down one path of the tree, each
\* crumb below the one before, though each may have been cached or read at a
\* time of its own and any may be missing, and neither the roots nor the
\* default category are among them (build_breadcrumbs, crates/web/product.rs).
THEOREM BreadcrumbsLeadDown == Spec => []CrumbsFollowPath
<1>1. Shape /\ CacheInv /\ Tree(versions) /\ CrumbInv => CrumbsFollowPath
  <2> SUFFICES ASSUME Shape, CacheInv, Tree(versions), CrumbInv,
                      NEW r \in Request, req[r].kind = "product", req[r].pc = "menu"
               PROVE  LET crumbs == [n \in DOMAIN Answer(r) |-> req[r].found[Answer(r)[n]]] IN
                      /\ \A n \in DOMAIN crumbs : crumbs[n].entity_id \notin {0, 1, 2}
                      /\ \A m, n \in DOMAIN crumbs :
                           m < n => IsStrictPrefix(crumbs[m].path, crumbs[n].path)
    BY DEF CrumbsFollowPath
  <2>1. PICK path \in Seq(Nat) :
          /\ path = <<>> \/ \E id : Was(versions, id, path)
          /\ req[r].ids = Kept(path, Nat \ BreadcrumbExcludedIds)
    BY DEF CrumbInv, Leads, Crumbs
  <2> DEFINE ids == req[r].ids
             out == Answer(r)
             S   == {id \in DOMAIN req[r].found : Matches(r, id)}
             T   == Nat \ BreadcrumbExcludedIds
  <2>2. out = Kept(ids, S)
    BY DEF Answer
  <2>3. ids \in Seq(Nat) /\ \E g : Picks(g, ids, path, T, Len(path))
    <3> HIDE DEF T
    <3> QED BY <2>1, KeptPicks DEF T
  <2>4. out \in Seq(Nat) /\ \E h : Picks(h, out, ids, S, Len(ids))
    <3> HIDE DEF S, ids, out
    <3> QED BY <2>2, <2>3, KeptPicks
  <2>5. PICK g : Picks(g, ids, path, T, Len(path))
    BY <2>3
  <2>6. PICK h : Picks(h, out, ids, S, Len(ids))
    BY <2>4
  <2> DEFINE at == [n \in 1 .. Len(out) |-> g[h[n]]]
  <2>7. /\ DOMAIN out = 1 .. Len(out)
        /\ \A n \in DOMAIN out : /\ at[n] \in 1 .. Len(path) /\ out[n] = path[at[n]]
                                 /\ out[n] \in S /\ out[n] \notin {0, 1, 2}
        /\ \A m, n \in DOMAIN out : m < n => at[m] < at[n]
    <3>1. DOMAIN out = 1 .. Len(out)
      BY <2>4
    <3> HIDE DEF out, ids, S
    <3>2. ASSUME NEW n \in 1 .. Len(out)
          PROVE  /\ at[n] \in 1 .. Len(path) /\ out[n] = path[at[n]]
                 /\ out[n] \in S /\ out[n] \notin {0, 1, 2}
      <4>1. h[n] \in 1 .. Len(ids) /\ out[n] = ids[h[n]] /\ out[n] \in S
        BY <2>6 DEF Picks
      <4>2. g[h[n]] \in 1 .. Len(path) /\ ids[h[n]] = path[g[h[n]]] /\ ids[h[n]] \in T
        BY <2>5, <4>1 DEF Picks
      <4> QED BY <4>1, <4>2 DEF BreadcrumbExcludedIds
    <3>3. ASSUME NEW m \in 1 .. Len(out), NEW n \in 1 .. Len(out), m < n
          PROVE  at[m] < at[n]
      <4>1. h[m] \in 1 .. Len(ids) /\ h[n] \in 1 .. Len(ids) /\ h[m] < h[n]
        BY <2>6, <3>3 DEF Picks
      <4> QED BY <2>5, <4>1 DEF Picks
    <3> QED BY <3>1, <3>2, <3>3
  <2> HIDE DEF at
  <2>8. ASSUME NEW n \in DOMAIN out
        PROVE  /\ req[r].found[out[n]].entity_id = out[n]
               /\ req[r].found[out[n]].path = SubSeq(path, 1, at[n])
    <3>1. FlatIn(versions, out[n], req[r].found[out[n]])
      BY <2>7 DEF CacheInv, Fetches
    <3>2. Was(versions, out[n], req[r].found[out[n]].path)
      BY <3>1 DEF FlatIn, Was
    <3>3. at[n] \in 1 .. Len(path) /\ out[n] = path[at[n]]
      BY <2>7
    <3>4. path # <<>>
      BY <3>3
    <3> HIDE DEF out
    <3>5. req[r].found[out[n]].path = SubSeq(path, 1, at[n])
      BY <2>1, <3>2, <3>3, <3>4 DEF Tree
    <3> QED BY <3>1, <3>5 DEF FlatIn
  <2>9. ASSUME NEW m \in DOMAIN out, NEW n \in DOMAIN out, m < n
        PROVE  IsStrictPrefix(req[r].found[out[m]].path, req[r].found[out[n]].path)
    <3> HIDE DEF out
    <3>1. at[m] \in 1 .. Len(path) /\ at[n] \in 1 .. Len(path) /\ at[m] < at[n]
      BY <2>7, <2>9
    <3>2. IsStrictPrefix(SubSeq(path, 1, at[m]), SubSeq(path, 1, at[n]))
      BY <3>1, PartsArePrefixes
    <3> QED BY <2>8, <3>2
  <2> HIDE DEF out
  <2> QED BY <2>7, <2>8, <2>9 DEF out
<1> QED BY <1>1, ShapeHolds, CacheInvariant, TreeInvariant, CrumbInvariant, PTL

-----------------------------------------------------------------------------
(* The tree is of one state of the table.  First lists put together, whose  *)
(* elements are in the order of their paths.                                *)

Elements(s) == {s[n] : n \in 1 .. Len(s)}

ByPath(s) == \A m, n \in 1 .. Len(s) : m < n => PathBefore(s[m].path, s[n].path)

AllBefore(A, B) == \A x \in A, y \in B : PathBefore(x.path, y.path)

LEMMA Joined ==
    ASSUME NEW X, NEW s \in Seq(X), NEW t \in Seq(X), ByPath(s), ByPath(t),
           AllBefore(Elements(s), Elements(t))
    PROVE  /\ s \o t \in Seq(X) /\ Elements(s \o t) = Elements(s) \cup Elements(t)
           /\ ByPath(s \o t)
<1> DEFINE u == s \o t
<1>1. /\ u \in Seq(X) /\ Len(u) = Len(s) + Len(t) /\ Len(s) \in Nat /\ Len(t) \in Nat
      /\ \A n \in 1 .. Len(s) : u[n] = s[n]
      /\ \A n \in 1 .. Len(t) : u[Len(s) + n] = t[n]
  OBVIOUS
<1> HIDE DEF u
<1>2. ASSUME NEW n \in 1 .. Len(u)
      PROVE  n \in 1 .. Len(s) \/ \E k \in 1 .. Len(t) : n = Len(s) + k
  <2>1. n \in 1 .. Len(s) \/ (n - Len(s) \in 1 .. Len(t) /\ n = Len(s) + (n - Len(s)))
    BY <1>1
  <2> QED BY <2>1
<1>3. /\ \A n \in 1 .. Len(s) : n \in 1 .. Len(u) /\ s[n] \in Elements(s)
      /\ \A n \in 1 .. Len(t) : Len(s) + n \in 1 .. Len(u) /\ t[n] \in Elements(t)
  BY <1>1 DEF Elements
<1>4. Elements(u) = Elements(s) \cup Elements(t)
  <2>1. \A n \in 1 .. Len(u) : u[n] \in Elements(s) \cup Elements(t)
    BY <1>1, <1>2, <1>3
  <2>2. \A n \in 1 .. Len(s) : s[n] \in Elements(u)
    BY <1>1, <1>3 DEF Elements
  <2>3. \A n \in 1 .. Len(t) : t[n] \in Elements(u)
    BY <1>1, <1>3 DEF Elements
  <2> QED BY <2>1, <2>2, <2>3 DEF Elements
<1>5. ByPath(u)
  <2> SUFFICES ASSUME NEW m \in 1 .. Len(u), NEW n \in 1 .. Len(u), m < n
               PROVE  PathBefore(u[m].path, u[n].path)
    BY DEF ByPath
  <2>1. CASE m \in 1 .. Len(s) /\ n \in 1 .. Len(s)
    BY <1>1, <2>1 DEF ByPath
  <2>2. ASSUME m \in 1 .. Len(s), NEW k \in 1 .. Len(t), n = Len(s) + k
        PROVE  PathBefore(u[m].path, u[n].path)
    BY <1>1, <1>3, <2>2 DEF AllBefore
  <2>3. ASSUME NEW j \in 1 .. Len(t), m = Len(s) + j, NEW k \in 1 .. Len(t), n = Len(s) + k
        PROVE  PathBefore(u[m].path, u[n].path)
    <3>1. j < k
      BY <1>1, <2>3
    <3> QED BY <1>1, <2>3, <3>1 DEF ByPath
  <2>4. ~ (n \in 1 .. Len(s) /\ m \notin 1 .. Len(s))
    BY <1>1
  <2> QED BY <1>2, <2>1, <2>2, <2>3, <2>4
<1> QED BY <1>1, <1>4, <1>5 DEF u

\* g is the recursive function by which FlattenSeq is defined.
FlatIs(g, seqs) ==
    g = [i \in 1 .. Len(seqs) |-> IF i = 1 THEN seqs[i] ELSE g[i - 1] \o seqs[i]]

FlatNext(g, seqs, i) == IF i = 1 THEN seqs[i] ELSE g[i - 1] \o seqs[i]

LEMMA FlatExists ==
    ASSUME NEW seqs, Len(seqs) \in Nat
    PROVE  \E g : FlatIs(g, seqs)
<1> DEFINE P == {m \in 0 .. Len(seqs) :
                   \E g : DOMAIN g = 1 .. m /\ \A i \in 1 .. m : g[i] = FlatNext(g, seqs, i)}
<1>1. 0 \in P
  <2> DEFINE g == [i \in 1 .. 0 |-> 0]
  <2>1. DOMAIN g = 1 .. 0 /\ \A i \in 1 .. 0 : g[i] = FlatNext(g, seqs, i)
    OBVIOUS
  <2> HIDE DEF g
  <2> QED BY <2>1
<1>2. ASSUME NEW m \in 0 .. Len(seqs) - 1, m \in P
      PROVE  m + 1 \in P
  <2>1. PICK g : DOMAIN g = 1 .. m /\ \A i \in 1 .. m : g[i] = FlatNext(g, seqs, i)
    BY <1>2
  <2> DEFINE x == IF m = 0 THEN seqs[1] ELSE g[m] \o seqs[m + 1]
             h == [i \in 1 .. m + 1 |-> IF i = m + 1 THEN x ELSE g[i]]
  <2>2. ASSUME NEW i \in 1 .. m + 1
        PROVE  h[i] = FlatNext(h, seqs, i)
    <3> HIDE DEF x
    <3>1. CASE i = m + 1 /\ m = 0
      BY <3>1 DEF FlatNext, x
    <3>2. CASE i = m + 1 /\ m # 0
      <4>1. h[i] = x /\ h[i - 1] = g[m] /\ i # 1
        BY <3>2
      <4> HIDE DEF h
      <4> QED BY <3>2, <4>1 DEF FlatNext, x
    <3>3. CASE i \in 1 .. m
      <4>1. h[i] = g[i] /\ (i # 1 => i - 1 \in 1 .. m + 1 /\ h[i - 1] = g[i - 1])
        BY <3>3
      <4> HIDE DEF h
      <4> QED BY <2>1, <3>3, <4>1 DEF FlatNext
    <3> QED BY <3>1, <3>2, <3>3
  <2>3. DOMAIN h = 1 .. m + 1 /\ m + 1 \in 0 .. Len(seqs)
    OBVIOUS
  <2> HIDE DEF h
  <2> QED BY <2>2, <2>3
<1> HIDE DEF P
<1>3. \A n \in 0 .. Len(seqs) : n \in P
  BY <1>1, <1>2, Induction
<1>4. Len(seqs) \in P
  BY <1>3
<1>5. PICK g : DOMAIN g = 1 .. Len(seqs) /\ \A i \in 1 .. Len(seqs) : g[i] = FlatNext(g, seqs, i)
  BY <1>4 DEF P
<1> DEFINE f == [i \in 1 .. Len(seqs) |-> g[i]]
<1>6. \A i \in 1 .. Len(seqs) : f[i] = IF i = 1 THEN seqs[i] ELSE f[i - 1] \o seqs[i]
  <2> TAKE i \in 1 .. Len(seqs)
  <2>1. f[i] = FlatNext(g, seqs, i) /\ (i # 1 => f[i - 1] = g[i - 1])
    BY <1>5
  <2> HIDE DEF f
  <2> QED BY <2>1 DEF FlatNext
<1>7. f = [i \in 1 .. Len(seqs) |-> f[i]]
  OBVIOUS
<1> HIDE DEF f
<1>8. FlatIs(f, seqs)
  BY <1>6, <1>7 DEF FlatIs
<1> QED BY <1>8

LEMMA FlatUnfolds ==
    ASSUME NEW seqs, Len(seqs) \in Nat \ {0}
    PROVE  \E g : /\ g[1] = seqs[1] /\ g[Len(seqs)] = FlattenSeq(seqs)
                  /\ \A i \in 2 .. Len(seqs) : g[i] = g[i - 1] \o seqs[i]
<1> DEFINE g == CHOOSE g : FlatIs(g, seqs)
<1>1. FlatIs(g, seqs)
  BY FlatExists
<1>2. FlattenSeq(seqs) = g[Len(seqs)]
  BY Zenon, Len(seqs) # 0 DEF FlattenSeq, FlatIs
<1> HIDE DEF g
<1>3. \A i \in 1 .. Len(seqs) : g[i] = IF i = 1 THEN seqs[i] ELSE g[i - 1] \o seqs[i]
  BY <1>1, Zenon DEF FlatIs
<1>4. 1 \in 1 .. Len(seqs) /\ \A i \in 2 .. Len(seqs) : i \in 1 .. Len(seqs) /\ i # 1
  OBVIOUS
<1>5. g[1] = seqs[1] /\ \A i \in 2 .. Len(seqs) : g[i] = g[i - 1] \o seqs[i]
  BY <1>3, <1>4
<1> QED BY <1>2, <1>5

\* Lists one after the other, each in the order of the paths and all before
\* the next.
LEMMA FlattenedByPath ==
    ASSUME NEW X, NEW n \in Nat, NEW seqs, Len(seqs) = n, DOMAIN seqs = 1 .. n, n = 0 => seqs = <<>>,
           \A i \in 1 .. n : seqs[i] \in Seq(X) /\ ByPath(seqs[i]),
           \A i, j \in 1 .. n : i < j => AllBefore(Elements(seqs[i]), Elements(seqs[j]))
    PROVE  /\ FlattenSeq(seqs) \in Seq(X) /\ ByPath(FlattenSeq(seqs))
           /\ Elements(FlattenSeq(seqs)) = UNION {Elements(seqs[i]) : i \in 1 .. n}
<1>1. CASE n = 0
  <2>1. FlattenSeq(seqs) = <<>>
    BY <1>1 DEF FlattenSeq
  <2>2. <<>> \in Seq(X) /\ ByPath(<<>>) /\ Elements(<<>>) = {}
    BY DEF ByPath, Elements
  <2>3. UNION {Elements(seqs[i]) : i \in 1 .. n} = {}
    BY <1>1
  <2> QED BY <2>1, <2>2, <2>3
<1>2. CASE n # 0
  <2>1. PICK g : /\ g[1] = seqs[1] /\ g[n] = FlattenSeq(seqs)
                 /\ \A i \in 2 .. n : g[i] = g[i - 1] \o seqs[i]
    BY <1>2, FlatUnfolds
  <2> DEFINE U(m) == UNION {Elements(seqs[i]) : i \in 1 .. m}
             Good(m) == g[m] \in Seq(X) /\ ByPath(g[m]) /\ Elements(g[m]) = U(m)
             P == {m \in 0 .. n - 1 : Good(m + 1)}
  <2>2. 0 \in P
    <3>1. 0 \in 0 .. n - 1 /\ 0 + 1 = 1 /\ 1 \in 1 .. n /\ 1 .. 1 = {1}
      BY <1>2
    <3>2. U(1) = Elements(seqs[1])
      BY <3>1
    <3> QED BY <2>1, <3>1, <3>2
  <2>3. ASSUME NEW m \in 0 .. (n - 1) - 1, m \in P
        PROVE  m + 1 \in P
    <3> DEFINE k == m + 1
               j == k + 1
    <3>1. /\ k \in 0 .. n - 1 /\ k \in 1 .. n /\ j \in 2 .. n /\ j \in 1 .. n /\ j - 1 = k
          /\ 1 .. j = (1 .. k) \cup {j} /\ \A i \in 1 .. k : i \in 1 .. n /\ i < j
      OBVIOUS
    <3>2. Good(k)
      BY <2>3
    <3> HIDE DEF k, j
    <3>3. g[j] = g[k] \o seqs[j]
      BY <2>1, <3>1
    <3>4. AllBefore(Elements(g[k]), Elements(seqs[j]))
      BY <3>1, <3>2 DEF AllBefore
    <3>5. /\ g[j] \in Seq(X) /\ ByPath(g[j])
          /\ Elements(g[j]) = Elements(g[k]) \cup Elements(seqs[j])
      <4> DEFINE s == g[k]
                 t == seqs[j]
      <4>1. s \in Seq(X) /\ ByPath(s)
        BY <3>2
      <4>2. t \in Seq(X) /\ ByPath(t)
        BY <3>1
      <4>3. AllBefore(Elements(s), Elements(t)) /\ g[j] = s \o t
        BY <3>3, <3>4
      <4> HIDE DEF s, t, Good, U
      <4>4. /\ s \o t \in Seq(X) /\ Elements(s \o t) = Elements(s) \cup Elements(t)
            /\ ByPath(s \o t)
        BY <4>1, <4>2, <4>3, Joined
      <4> QED BY <4>3, <4>4 DEF s, t
    <3>6. U(j) = U(k) \cup Elements(seqs[j])
      BY <3>1
    <3>7. Good(j)
      BY <3>2, <3>5, <3>6
    <3> HIDE DEF Good
    <3> QED BY <3>1, <3>7 DEF j, k
  <2>4. n - 1 \in Nat /\ n - 1 \in 0 .. n - 1 /\ (n - 1) + 1 = n
    BY <1>2
  <2> HIDE DEF P
  <2>5. \A m \in 0 .. n - 1 : m \in P
    <3> DEFINE l == n - 1
    <3> HIDE DEF l
    <3>1. l \in Nat /\ 0 \in P /\ \A m \in 0 .. l - 1 : m \in P => m + 1 \in P
      BY <2>2, <2>3, <2>4 DEF l
    <3>2. \A m \in 0 .. l : m \in P
      BY <3>1, Induction
    <3> QED BY <3>2 DEF l
  <2>6. Good(n)
    BY <2>4, <2>5 DEF P
  <2> QED BY <2>1, <2>6
<1> QED BY <1>1, <1>2

-----------------------------------------------------------------------------
(* What is below a category, by the paths.                                 *)

PathOf(rows, id)  == IF id = 0 THEN <<>> ELSE rows[id].path
DepthOf(rows, id) == Len(PathOf(rows, id))

Under(rows, id) ==
    {x \in DOMAIN rows :
       /\ Len(rows[x].path) > DepthOf(rows, id)
       /\ SubSeq(rows[x].path, 1, DepthOf(rows, id)) = PathOf(rows, id)}

Sons(rows, id) == {x \in DOMAIN rows : rows[x].parent_id = id}

\* No path is longer than the table.
LEMMA PathsAreShort ==
    ASSUME NEW rows, TreeOf(rows)
    PROVE  /\ Cardinality(DOMAIN rows) \in Nat
           /\ \A x \in DOMAIN rows : Len(rows[x].path) \in 1 .. Cardinality(DOMAIN rows)
<1> DEFINE D == DOMAIN rows
<1>1. IsFiniteSet(D)
  <2>1. D \in SUBSET (1 .. MaxId) /\ MaxId \in Nat
    BY IdIs DEF TreeOf, Id
  <2>2. IsFiniteSet(1 .. MaxId)
    BY <2>1, FS_Interval
  <2> QED BY <2>1, <2>2, FS_Subset
<1>2. Cardinality(D) \in Nat
  BY <1>1, FS_CardinalityType
<1>3. ASSUME NEW x \in D
      PROVE  Len(rows[x].path) \in 1 .. Cardinality(D)
  <2> DEFINE p == rows[x].path
             L == 1 .. Len(p)
             f == [n \in L |-> CHOOSE a \in D : rows[a].path = SubSeq(p, 1, n)]
  <2>1. p \in Seq(Nat) /\ Len(p) \in Nat \ {0}
    BY RowOfTree
  <2>2. \A n \in L : n \in 0 .. Len(p) /\ \E a \in D : rows[a].path = SubSeq(p, 1, n)
    BY <2>1, AncestorExists
  <2> HIDE DEF D, L, p
  <2>3. \A n \in L : f[n] \in D /\ rows[f[n]].path = SubSeq(p, 1, n)
    BY <2>2
  <2> HIDE DEF f
  <2>4. \A n \in L : Len(rows[f[n]].path) = n
    BY <2>1, <2>2, <2>3, SubSeqIs
  <2>5. DOMAIN f = L /\ f = [n \in L |-> f[n]]
    BY DEF f
  <2>6. f \in [L -> D] /\ \A m, n \in L : f[m] = f[n] => m = n
    BY <2>3, <2>4, <2>5
  <2>7. f \in Injection(L, D)
    BY <2>6 DEF Injection, IsInjective
  <2>8. Cardinality(L) <= Cardinality(D)
    BY <1>1, <2>7, FS_Injection
  <2>9. Cardinality(L) = Len(p)
    BY <2>1, FS_Interval DEF L
  <2> QED BY <1>2, <2>1, <2>8, <2>9 DEF p
<1> QED BY <1>2, <1>3 DEF D

LEMMA PathOfIs ==
    ASSUME NEW rows, TreeOf(rows), NEW id \in {0} \cup DOMAIN rows
    PROVE  /\ PathOf(rows, id) \in Seq(Nat) /\ DepthOf(rows, id) \in Nat
           /\ DepthOf(rows, id) = 0 <=> id = 0
<1>1. CASE id = 0
  BY <1>1 DEF PathOf, DepthOf
<1>2. CASE id # 0
  BY <1>2, RowOfTree DEF PathOf, DepthOf
<1> QED BY <1>1, <1>2

\* A category's sons are one level deeper, and their paths extend its own.
LEMMA SonsAreBelow ==
    ASSUME NEW rows, TreeOf(rows), NEW id \in {0} \cup DOMAIN rows, NEW c \in Sons(rows, id)
    PROVE  /\ c \in DOMAIN rows /\ PathOf(rows, c) = rows[c].path
           /\ DepthOf(rows, c) = Len(rows[c].path)
           /\ DepthOf(rows, c) = DepthOf(rows, id) + 1
           /\ SubSeq(rows[c].path, 1, DepthOf(rows, id)) = PathOf(rows, id)
           /\ c \in Under(rows, id)
           /\ id # 0 => rows[c].path[DepthOf(rows, c)] = c
<1> DEFINE p == rows[c].path
           d == DepthOf(rows, id)
<1>1. c \in DOMAIN rows /\ rows[c].parent_id = id
  BY DEF Sons
<1>2. /\ p \in Seq(Nat) /\ Len(p) \in Nat \ {0} /\ c # 0
      /\ Len(p) = 1 <=> id = 0
      /\ Len(p) # 1 => p[Len(p)] = c /\ rows[id].path = SubSeq(p, 1, Len(p) - 1)
  BY <1>1, RowOfTree
<1>3. PathOf(rows, c) = p /\ DepthOf(rows, c) = Len(p)
  BY <1>2 DEF PathOf, DepthOf
<1> HIDE DEF p, d
<1>4. Len(p) = d + 1 /\ d \in Nat /\ SubSeq(p, 1, d) = PathOf(rows, id)
  <2>1. CASE id = 0
    <3>1. PathOf(rows, id) = <<>> /\ d = 0
      BY <2>1 DEF PathOf, DepthOf, d
    <3>2. SubSeq(p, 1, 0) = <<>> /\ Len(p) = 0 + 1
      BY <1>2, <2>1
    <3>3. SubSeq(p, 1, d) = PathOf(rows, id)
      BY <3>1, <3>2
    <3> QED BY <3>1, <3>2, <3>3
  <2>2. CASE id # 0
    <3> DEFINE k == Len(p) - 1
    <3>1. PathOf(rows, id) = SubSeq(p, 1, k)
      BY <1>2, <2>2 DEF PathOf
    <3>2. k \in 0 .. Len(p) /\ k \in Nat /\ Len(p) = k + 1
      BY <1>2
    <3> HIDE DEF k
    <3>3. d = k
      BY <1>2, <3>1, <3>2, SubSeqIs DEF d, DepthOf
    <3> QED BY <3>1, <3>2, <3>3
  <2> QED BY <2>1, <2>2
<1>5. Len(p) > d
  BY <1>4
<1>6. c \in Under(rows, id)
  BY <1>1, <1>4, <1>5 DEF Under, p, d
<1> QED BY <1>1, <1>2, <1>3, <1>4, <1>6 DEF p, d

LEMMA UnderIs ==
    ASSUME NEW rows, TreeOf(rows), NEW id \in {0} \cup DOMAIN rows
    PROVE  /\ \A x \in Under(rows, id) : \E c \in Sons(rows, id) : x \in {c} \cup Under(rows, c)
           /\ \A c \in Sons(rows, id) : \A x \in {c} \cup Under(rows, c) : x \in Under(rows, id)
<1> DEFINE d == DepthOf(rows, id)
<1>0. d \in Nat /\ (d = 0 <=> id = 0) /\ PathOf(rows, id) \in Seq(Nat)
  BY PathOfIs
<1> HIDE DEF d
<1>1. ASSUME NEW x \in Under(rows, id)
      PROVE  \E c \in Sons(rows, id) : x \in {c} \cup Under(rows, c)
  <2> DEFINE p == rows[x].path
  <2>1. /\ x \in DOMAIN rows /\ Len(p) > d /\ Len(p) \in Nat /\ p \in Seq(Nat)
        /\ SubSeq(p, 1, d) = PathOf(rows, id)
    <3>1. x \in DOMAIN rows /\ Len(p) > d /\ SubSeq(p, 1, d) = PathOf(rows, id)
      BY DEF Under, d
    <3> QED BY <3>1, RowOfTree
  <2> HIDE DEF p
  <2>2. /\ d + 1 \in 1 .. Len(p) /\ d + 1 \in 0 .. Len(p) /\ d \in 0 .. d + 1
        /\ (d + 1) - 1 = d /\ d \in 0 .. Len(p)
    BY <1>0, <2>1
  <2>3. PICK c \in DOMAIN rows : rows[c].path = SubSeq(p, 1, d + 1)
    BY <2>1, <2>2, AncestorExists DEF p
  <2>4. Len(rows[c].path) = d + 1
    BY <2>1, <2>2, <2>3, SubSeqIs
  <2>5. rows[c].parent_id = id
    <3>1. CASE d = 0
      <4>1. Len(rows[c].path) = 1
        BY <2>4, <3>1
      <4>2. rows[c].parent_id = 0
        BY <4>1, RowOfTree
      <4> QED BY <1>0, <3>1, <4>2
    <3>2. CASE d # 0
      <4> DEFINE q == rows[c].parent_id
      <4>1. Len(rows[c].path) # 1 /\ Len(rows[c].path) - 1 = d
        BY <1>0, <2>2, <2>4, <3>2
      <4>2. q \in DOMAIN rows /\ rows[q].path = SubSeq(rows[c].path, 1, d)
        BY <4>1, RowOfTree
      <4>3. rows[q].path = SubSeq(p, 1, d)
        BY <2>1, <2>2, <2>3, <4>2, SubSubSeq
      <4>4. id \in DOMAIN rows /\ rows[id].path = rows[q].path
        BY <1>0, <2>1, <3>2, <4>3 DEF PathOf
      <4> QED BY <4>2, <4>4, PathsDiffer
    <3> QED BY <3>1, <3>2
  <2>6. c \in Sons(rows, id)
    BY <2>5 DEF Sons
  <2>7. CASE Len(p) = d + 1
    <3>1. rows[c].path = rows[x].path
      <4>1. SubSeq(p, 1, Len(p)) = p
        BY <2>1
      <4> QED BY <2>3, <2>7, <4>1 DEF p
    <3>2. x = c
      BY <2>1, <3>1, PathsDiffer
    <3> QED BY <2>6, <3>2
  <2>8. CASE Len(p) # d + 1
    <3>1. Len(p) > d + 1
      BY <1>0, <2>1, <2>8
    <3>2. PathOf(rows, c) = rows[c].path /\ DepthOf(rows, c) = d + 1
      BY <2>4, <2>6, SonsAreBelow
    <3>3. x \in Under(rows, c)
      BY <2>1, <2>3, <3>1, <3>2 DEF Under, p
    <3> QED BY <2>6, <3>3
  <2> QED BY <2>7, <2>8
<1>2. ASSUME NEW c \in Sons(rows, id), NEW x \in {c} \cup Under(rows, c)
      PROVE  x \in Under(rows, id)
  <2>0. /\ c \in DOMAIN rows /\ PathOf(rows, c) = rows[c].path /\ DepthOf(rows, c) = d + 1
        /\ SubSeq(rows[c].path, 1, d) = PathOf(rows, id)
        /\ c \in Under(rows, id)
    BY SonsAreBelow DEF d
  <2>1. CASE x = c
    BY <2>0, <2>1
  <2>2. CASE x \in Under(rows, c)
    <3> DEFINE p == rows[x].path
    <3>1. x \in DOMAIN rows /\ Len(p) > d + 1 /\ SubSeq(p, 1, d + 1) = rows[c].path
      BY <2>0, <2>2 DEF Under
    <3>2. p \in Seq(Nat) /\ Len(p) \in Nat
      BY <3>1, RowOfTree
    <3> HIDE DEF p
    <3>3. d + 1 \in 0 .. Len(p) /\ d \in 0 .. d + 1 /\ Len(p) > d
      BY <1>0, <3>1, <3>2
    <3>4. SubSeq(p, 1, d) = PathOf(rows, id)
      BY <2>0, <3>1, <3>2, <3>3, SubSubSeq
    <3> QED BY <3>1, <3>3, <3>4 DEF Under, d, p
  <2> QED BY <2>1, <2>2
<1> QED BY <1>1, <1>2

\* A category comes before all below it, and with all below it before the next
\* of the same parent.
LEMMA OrderBelow ==
    ASSUME NEW rows, TreeOf(rows), NEW c \in DOMAIN rows, NEW x \in Under(rows, c)
    PROVE  PathBefore(rows[c].path, rows[x].path)
<1> DEFINE d == Len(rows[c].path)
           p == rows[x].path
<1>1. PathOf(rows, c) = rows[c].path /\ DepthOf(rows, c) = d /\ d \in Nat \ {0}
  <2>1. c # 0 /\ d \in Nat \ {0}
    BY RowOfTree
  <2> QED BY <2>1 DEF PathOf, DepthOf
<1>2. x \in DOMAIN rows /\ Len(p) > d /\ rows[c].path = SubSeq(p, 1, d)
  BY <1>1 DEF Under
<1>3. Len(p) \in Nat /\ p \in Seq(Nat)
  BY <1>2, RowOfTree
<1> HIDE DEF d, p
<1>4. d \in 1 .. Len(p)
  BY <1>1, <1>2, <1>3
<1>5. Len(rows[c].path) = d /\ Len(rows[c].path) < Len(p)
  BY <1>1, <1>2 DEF d
<1>6. IsPrefix(rows[c].path, p)
  <2>1. SubSeq(p, 1, Len(p)) = p /\ Len(p) \in 1 .. Len(p) /\ d < Len(p)
    BY <1>1, <1>2, <1>3
  <2>2. IsStrictPrefix(SubSeq(p, 1, d), SubSeq(p, 1, Len(p)))
    BY <1>3, <1>4, <2>1, PartsArePrefixes
  <2> QED BY <1>2, <2>1, <2>2 DEF IsStrictPrefix
<1> QED BY <1>5, <1>6 DEF PathBefore, p

LEMMA OrderBeside ==
    ASSUME NEW rows, TreeOf(rows), NEW id \in {0} \cup DOMAIN rows,
           NEW b \in Sons(rows, id), NEW c \in Sons(rows, id), b < c,
           NEW x \in {b} \cup Under(rows, b), NEW y \in {c} \cup Under(rows, c)
    PROVE  PathBefore(rows[x].path, rows[y].path)
<1> DEFINE d == DepthOf(rows, id)
<1>0. d \in Nat
  BY PathOfIs
<1>a. id # 0
  <2> SUFFICES ASSUME id = 0 PROVE FALSE
    OBVIOUS
  <2>1. b = c
    BY DEF TreeOf, Sons
  <2>2. b \in Nat
    BY DEF Sons, TreeOf, Id
  <2> QED BY <2>1, <2>2
<1> HIDE DEF d
<1>1. ASSUME NEW e \in Sons(rows, id), NEW z \in {e} \cup Under(rows, e)
      PROVE  /\ d + 1 \in DOMAIN rows[z].path /\ rows[z].path[d + 1] = e
             /\ \A k \in 1 .. d : rows[z].path[k] = PathOf(rows, id)[k]
  <2>0. /\ e \in DOMAIN rows /\ PathOf(rows, e) = rows[e].path /\ DepthOf(rows, e) = d + 1
        /\ Len(rows[e].path) = d + 1 /\ rows[e].path[d + 1] = e
    BY <1>a, SonsAreBelow DEF d
  <2>1. z \in Under(rows, id)
    BY UnderIs
  <2> DEFINE p == rows[z].path
  <2>2. z \in DOMAIN rows /\ Len(p) > d /\ SubSeq(p, 1, d) = PathOf(rows, id)
    BY <2>1 DEF Under, d
  <2>3. p \in Seq(Nat) /\ Len(p) \in Nat
    BY <2>2, RowOfTree
  <2>4. p[d + 1] = e
    <3>1. CASE z = e
      BY <2>0, <3>1
    <3>2. CASE z # e
      <4>1. z \in Under(rows, e)
        BY <3>2
      <4>2. SubSeq(p, 1, d + 1) = rows[e].path
        BY <2>0, <4>1 DEF Under
      <4> HIDE DEF p
      <4>3. d + 1 \in 0 .. Len(p) /\ d + 1 \in 1 .. d + 1
        BY <1>0, <2>2, <2>3
      <4>4. SubSeq(p, 1, d + 1)[d + 1] = p[d + 1]
        BY <2>3, <4>3, SubSeqIs
      <4> QED BY <2>0, <4>2, <4>4
    <3> QED BY <3>1, <3>2
  <2> HIDE DEF p
  <2>5. d + 1 \in DOMAIN p /\ d \in 0 .. Len(p)
    BY <1>0, <2>2, <2>3
  <2>6. \A k \in 1 .. d : p[k] = PathOf(rows, id)[k]
    BY <2>2, <2>3, <2>5, SubSeqIs
  <2> QED BY <2>4, <2>5, <2>6 DEF p
<1>2. /\ d + 1 \in DOMAIN rows[x].path /\ rows[x].path[d + 1] = b
      /\ d + 1 \in DOMAIN rows[y].path /\ rows[y].path[d + 1] = c
  BY <1>1
<1>3. \A k \in 1 .. (d + 1) - 1 : rows[x].path[k] = rows[y].path[k]
  <2>1. (d + 1) - 1 = d
    BY <1>0
  <2> QED BY <1>1, <2>1
<1> QED BY <1>2, <1>3 DEF PathBefore

-----------------------------------------------------------------------------
(* The tree built from the rows: a recursive function, one stage for each    *)
(* level, from the deepest up.                                               *)

Levels(rows) == Cardinality(DOMAIN rows)

NodeAt(rows, names, id, depth) ==
    [entity_id |-> id, depth |-> depth, path |-> rows[id].path, name |-> names[id]]

Below(rows, names, root, id, depth, deeper) ==
    LET children == [i \in {root} \cup DOMAIN rows |-> InOrder(Sons(rows, i))] IN
    FlattenSeq([k \in DOMAIN children[id] |->
        <<NodeAt(rows, names, children[id][k], depth)>> \o deeper[children[id][k]]])

Lowest(rows, root) == [id \in {root} \cup DOMAIN rows |-> <<>>]

Stage(rows, names, root, n, deeper) ==
    [id \in {root} \cup DOMAIN rows |->
       Below(rows, names, root, id, Levels(rows) - n, deeper)]

\* b is the recursive function by which Built is defined.
BuildIs(b, rows, names, root) ==
    b = [n \in 0 .. Levels(rows) |->
           IF n = 0 THEN Lowest(rows, root) ELSE Stage(rows, names, root, n, b[n - 1])]

StageOf(b, rows, names, root, n) ==
    IF n = 0 THEN Lowest(rows, root) ELSE Stage(rows, names, root, n, b[n - 1])

LEMMA BuildExists ==
    ASSUME NEW rows, NEW names, NEW root, Levels(rows) \in Nat
    PROVE  \E b : BuildIs(b, rows, names, root)
<1> DEFINE L == Levels(rows)
           P == {m \in 0 .. L :
                   \E g : /\ DOMAIN g = 0 .. m
                          /\ \A n \in 0 .. m : g[n] = StageOf(g, rows, names, root, n)}
<1> HIDE DEF L
<1>0. L \in Nat
  BY DEF L
<1>1. 0 \in P
  <2> DEFINE g == [n \in 0 .. 0 |-> Lowest(rows, root)]
  <2>1. DOMAIN g = 0 .. 0 /\ \A n \in 0 .. 0 : g[n] = StageOf(g, rows, names, root, n)
    BY DEF StageOf
  <2> HIDE DEF g
  <2> QED BY <1>0, <2>1
<1>2. ASSUME NEW m \in 0 .. L - 1, m \in P
      PROVE  m + 1 \in P
  <2>1. PICK g : /\ DOMAIN g = 0 .. m
                 /\ \A n \in 0 .. m : g[n] = StageOf(g, rows, names, root, n)
    BY <1>2
  <2> DEFINE x == Stage(rows, names, root, m + 1, g[m])
             h == [n \in 0 .. m + 1 |-> IF n = m + 1 THEN x ELSE g[n]]
  <2> HIDE DEF x
  <2>2. ASSUME NEW n \in 0 .. m + 1
        PROVE  h[n] = StageOf(h, rows, names, root, n)
    <3>1. CASE n = m + 1
      <4>1. h[n] = x /\ h[n - 1] = g[m] /\ n # 0
        BY <3>1
      <4> HIDE DEF h
      <4> QED BY <3>1, <4>1 DEF StageOf, x
    <3>2. CASE n \in 0 .. m
      <4>1. h[n] = g[n] /\ (n # 0 => n - 1 \in 0 .. m + 1 /\ h[n - 1] = g[n - 1])
        BY <3>2
      <4> HIDE DEF h
      <4> QED BY <2>1, <3>2, <4>1 DEF StageOf
    <3> QED BY <3>1, <3>2
  <2>3. DOMAIN h = 0 .. m + 1 /\ m + 1 \in 0 .. L
    BY <1>0
  <2> HIDE DEF h
  <2> QED BY <2>2, <2>3
<1> HIDE DEF P
<1>3. \A n \in 0 .. L : n \in P
  BY <1>0, <1>1, <1>2, Induction
<1>4. L \in P
  BY <1>0, <1>3
<1>5. PICK g : /\ DOMAIN g = 0 .. L
               /\ \A n \in 0 .. L : g[n] = StageOf(g, rows, names, root, n)
  BY <1>4 DEF P
<1> DEFINE f == [n \in 0 .. L |-> g[n]]
<1>6. \A n \in 0 .. L : f[n] = IF n = 0 THEN Lowest(rows, root)
                               ELSE Stage(rows, names, root, n, f[n - 1])
  <2> TAKE n \in 0 .. L
  <2>1. n # 0 => n - 1 \in 0 .. L
    BY <1>0
  <2>2. f[n] = StageOf(g, rows, names, root, n) /\ (n # 0 => f[n - 1] = g[n - 1])
    BY <1>5, <2>1
  <2> HIDE DEF f
  <2> QED BY <2>2 DEF StageOf
<1>7. f = [n \in 0 .. L |-> f[n]]
  OBVIOUS
<1> HIDE DEF f
<1>8. BuildIs(f, rows, names, root)
  BY <1>6, <1>7 DEF BuildIs, L
<1> QED BY <1>8

LEMMA BuiltUnfolds ==
    ASSUME NEW rows, NEW names, NEW root, Levels(rows) \in Nat
    PROVE  \E b : /\ Built(rows, names, root) = b[Levels(rows)][root]
                  /\ b[0] = Lowest(rows, root)
                  /\ \A n \in 1 .. Levels(rows) : b[n] = Stage(rows, names, root, n, b[n - 1])
<1> DEFINE b == CHOOSE b : BuildIs(b, rows, names, root)
<1>1. BuildIs(b, rows, names, root)
  BY BuildExists
<1>2. Built(rows, names, root) = b[Levels(rows)][root]
  BY Zenon DEF Built, BuildIs, Levels, Lowest, Stage, Sons, NodeAt, Below
<1> HIDE DEF b
<1>3. \A n \in 0 .. Levels(rows) :
         b[n] = IF n = 0 THEN Lowest(rows, root) ELSE Stage(rows, names, root, n, b[n - 1])
  BY <1>1, Zenon DEF BuildIs
<1>4. 0 \in 0 .. Levels(rows) /\ \A n \in 1 .. Levels(rows) : n \in 0 .. Levels(rows) /\ n # 0
  OBVIOUS
<1>5. b[0] = Lowest(rows, root)
  BY <1>3, <1>4
<1>6. \A n \in 1 .. Levels(rows) : b[n] = Stage(rows, names, root, n, b[n - 1])
  BY <1>3, <1>4
<1> QED BY <1>2, <1>5, <1>6

\* The nodes of the categories in C.
NodeOf(rows, names, c) == NodeAt(rows, names, c, Len(rows[c].path) - 1)
NodesOf(rows, names, C) == {NodeOf(rows, names, c) : c \in C}

\* What a stage has to have below a category.
Subtree(s, rows, names, id) ==
    /\ s \in Seq(NodesOf(rows, names, DOMAIN rows))
    /\ Elements(s) = NodesOf(rows, names, Under(rows, id))
    /\ ByPath(s)

LEMMA OneNode ==
    ASSUME NEW X, NEW x \in X
    PROVE  <<x>> \in Seq(X) /\ Elements(<<x>>) = {x} /\ ByPath(<<x>>)
<1>1. <<x>> \in Seq(X) /\ Len(<<x>>) = 1 /\ <<x>>[1] = x
  OBVIOUS
<1> DEFINE s == <<x>>
<1>2. s \in Seq(X) /\ Len(s) = 1 /\ s[1] = x
  BY <1>1
<1> HIDE DEF s
<1>3. Elements(s) = {x} /\ ByPath(s)
  BY <1>2 DEF Elements, ByPath
<1> QED BY <1>2, <1>3 DEF s

\* A category before what is below it.
LEMMA SonsBlock ==
    ASSUME NEW rows, TreeOf(rows), NEW names, NEW c \in DOMAIN rows,
           NEW s, Subtree(s, rows, names, c),
           NEW t, t = <<NodeOf(rows, names, c)>> \o s
    PROVE  /\ t \in Seq(NodesOf(rows, names, DOMAIN rows))
           /\ Elements(t) = NodesOf(rows, names, {c} \cup Under(rows, c))
           /\ ByPath(t)
<1> DEFINE X == NodesOf(rows, names, DOMAIN rows)
           x == NodeOf(rows, names, c)
<1>1. x \in X /\ x.path = rows[c].path
  BY DEF NodesOf, NodeOf, NodeAt
<1>2. s \in Seq(X) /\ ByPath(s) /\ Elements(s) = NodesOf(rows, names, Under(rows, c))
  BY DEF Subtree
<1>3. \A y \in Elements(s) : PathBefore(x.path, y.path)
  <2> TAKE y \in Elements(s)
  <2>1. PICK d \in Under(rows, c) : y = NodeOf(rows, names, d)
    BY <1>2 DEF NodesOf
  <2>2. y.path = rows[d].path
    BY <2>1 DEF NodeOf, NodeAt
  <2> QED BY <1>1, <2>2, OrderBelow
<1>4. NodesOf(rows, names, {c} \cup Under(rows, c)) = {x} \cup Elements(s)
  BY <1>2 DEF NodesOf
<1> HIDE DEF X, x
<1> DEFINE o == <<x>>
<1>5. o \in Seq(X) /\ Elements(o) = {x} /\ ByPath(o)
  BY <1>1, OneNode
<1>6. t = o \o s
  BY DEF x
<1> HIDE DEF o
<1>7. AllBefore(Elements(o), Elements(s))
  BY <1>3, <1>5 DEF AllBefore
<1>8. /\ o \o s \in Seq(X) /\ Elements(o \o s) = Elements(o) \cup Elements(s)
      /\ ByPath(o \o s)
  BY <1>2, <1>5, <1>7, Joined
<1> QED BY <1>4, <1>5, <1>6, <1>8 DEF X

\* The blocks of the sons, one after the other.
LEMMA SonsJoined ==
    ASSUME NEW rows, TreeOf(rows), NEW names, NEW root,
           NEW id \in {0} \cup DOMAIN rows, id \in {root} \cup DOMAIN rows,
           NEW deeper, \A c \in Sons(rows, id) : Subtree(deeper[c], rows, names, c)
    PROVE  Subtree(Below(rows, names, root, id, DepthOf(rows, id), deeper), rows, names, id)
<1> DEFINE X == NodesOf(rows, names, DOMAIN rows)
           K == InOrder(Sons(rows, id))
           l == Len(K)
           block(k) == <<NodeAt(rows, names, K[k], DepthOf(rows, id))>> \o deeper[K[k]]
           seqs == [k \in DOMAIN K |-> block(k)]
<1>1. Ordered(K, Sons(rows, id))
  <2>1. Sons(rows, id) \in SUBSET Id
    BY DEF Sons, TreeOf
  <2> QED BY <2>1, InOrderIs
<1>2. Below(rows, names, root, id, DepthOf(rows, id), deeper) = FlattenSeq(seqs)
  BY DEF Below
<1> HIDE DEF K
<1>3. /\ K \in Seq(Nat) /\ l \in Nat /\ DOMAIN K = 1 .. l
      /\ \A k \in 1 .. l : K[k] \in Sons(rows, id)
      /\ \A j, k \in 1 .. l : j < k => K[j] < K[k]
      /\ \A c \in Sons(rows, id) : \E k \in 1 .. l : K[k] = c
  BY <1>1 DEF Ordered, Increasing
<1>4. ASSUME NEW k \in 1 .. l
      PROVE  /\ block(k) \in Seq(X) /\ ByPath(block(k))
             /\ Elements(block(k)) = NodesOf(rows, names, {K[k]} \cup Under(rows, K[k]))
  <2> DEFINE c == K[k]
  <2>1. c \in Sons(rows, id) /\ Subtree(deeper[c], rows, names, c)
    BY <1>3
  <2> HIDE DEF c
  <2>2. c \in DOMAIN rows /\ DepthOf(rows, id) = Len(rows[c].path) - 1
    <3>1. /\ c \in DOMAIN rows /\ DepthOf(rows, id) \in Nat
          /\ Len(rows[c].path) = DepthOf(rows, id) + 1
      BY <2>1, SonsAreBelow, PathOfIs
    <3> QED BY <3>1
  <2>3. block(k) = <<NodeOf(rows, names, c)>> \o deeper[c]
    BY <2>2 DEF c, NodeOf
  <2> HIDE DEF block, X
  <2> QED BY <2>1, <2>2, <2>3, SonsBlock DEF c, X
<1>5. ASSUME NEW j \in 1 .. l, NEW k \in 1 .. l, j < k
      PROVE  AllBefore(Elements(block(j)), Elements(block(k)))
  <2> DEFINE b == K[j]
             c == K[k]
  <2>1. /\ b \in Sons(rows, id) /\ c \in Sons(rows, id) /\ b < c
        /\ Elements(block(j)) = NodesOf(rows, names, {b} \cup Under(rows, b))
        /\ Elements(block(k)) = NodesOf(rows, names, {c} \cup Under(rows, c))
    BY <1>3, <1>4, <1>5
  <2> HIDE DEF b, c, block
  <2>2. ASSUME NEW x \in {b} \cup Under(rows, b), NEW y \in {c} \cup Under(rows, c)
        PROVE  PathBefore(NodeOf(rows, names, x).path, NodeOf(rows, names, y).path)
    <3>1. PathBefore(rows[x].path, rows[y].path)
      BY <2>1, OrderBeside
    <3> QED BY <3>1 DEF NodeOf, NodeAt
  <2> QED BY <2>1, <2>2 DEF AllBefore, NodesOf
<1> HIDE DEF block
<1>6. /\ DOMAIN seqs = 1 .. l /\ Len(seqs) = l
      /\ \A k \in 1 .. l : seqs[k] = block(k)
      /\ l = 0 => seqs = <<>>
  BY <1>3
<1> HIDE DEF seqs, l, X
<1>7. /\ \A k \in 1 .. l : seqs[k] \in Seq(X) /\ ByPath(seqs[k])
      /\ \A j, k \in 1 .. l : j < k => AllBefore(Elements(seqs[j]), Elements(seqs[k]))
  BY <1>4, <1>5, <1>6
<1>8. /\ FlattenSeq(seqs) \in Seq(X) /\ ByPath(FlattenSeq(seqs))
      /\ Elements(FlattenSeq(seqs)) = UNION {Elements(seqs[k]) : k \in 1 .. l}
  <2>1. l \in Nat /\ Len(seqs) = l /\ DOMAIN seqs = 1 .. l /\ (l = 0 => seqs = <<>>)
    BY <1>3, <1>6
  <2> QED BY <1>7, <2>1, FlattenedByPath
<1>9. UNION {Elements(seqs[k]) : k \in 1 .. l} = NodesOf(rows, names, Under(rows, id))
  <2> DEFINE A == UNION {Elements(seqs[k]) : k \in 1 .. l}
             B == NodesOf(rows, names, Under(rows, id))
  <2>0. \A k \in 1 .. l :
          Elements(seqs[k]) = NodesOf(rows, names, {K[k]} \cup Under(rows, K[k]))
    BY <1>4, <1>6
  <2>1. ASSUME NEW a \in A PROVE a \in B
    <3>1. PICK k \in 1 .. l : a \in Elements(seqs[k])
      OBVIOUS
    <3>2. PICK x \in {K[k]} \cup Under(rows, K[k]) : a = NodeOf(rows, names, x)
      BY <2>0, <3>1 DEF NodesOf
    <3>3. x \in Under(rows, id)
      BY <1>3, <3>2, UnderIs
    <3> QED BY <3>2, <3>3 DEF NodesOf
  <2>2. ASSUME NEW a \in B PROVE a \in A
    <3>1. PICK x \in Under(rows, id) : a = NodeOf(rows, names, x)
      BY DEF NodesOf
    <3>2. PICK c \in Sons(rows, id) : x \in {c} \cup Under(rows, c)
      BY UnderIs
    <3>3. PICK k \in 1 .. l : K[k] = c
      BY <1>3
    <3>4. a \in Elements(seqs[k])
      BY <2>0, <3>1, <3>2, <3>3 DEF NodesOf
    <3> QED BY <3>4
  <2> HIDE DEF A, B
  <2>3. A = B
    BY <2>1, <2>2
  <2> QED BY <2>3 DEF A, B
<1>10. Subtree(FlattenSeq(seqs), rows, names, id)
  BY <1>8, <1>9 DEF Subtree, X
<1> QED BY <1>2, <1>10 DEF seqs, block

\* The whole tree: every category once, in the order of the paths.
LEMMA BuiltIs ==
    ASSUME NEW rows, TreeOf(rows), NEW names
    PROVE  /\ Subtree(Built(rows, names, 0), rows, names, 0)
           /\ Under(rows, 0) = DOMAIN rows
<1> DEFINE L == Levels(rows)
<1>1. /\ \A x \in DOMAIN rows : Len(rows[x].path) \in 1 .. L
      /\ L \in Nat
  BY PathsAreShort DEF Levels
<1>2. PICK b : /\ Built(rows, names, 0) = b[L][0]
               /\ b[0] = Lowest(rows, 0)
               /\ \A n \in 1 .. L : b[n] = Stage(rows, names, 0, n, b[n - 1])
  BY <1>1, BuiltUnfolds
<1> HIDE DEF L
<1> DEFINE Good(n) == \A id \in {0} \cup DOMAIN rows :
                        DepthOf(rows, id) = L - n => Subtree(b[n][id], rows, names, id)
           P == {n \in 0 .. L : Good(n)}
<1>z. PathOf(rows, 0) = <<>> /\ DepthOf(rows, 0) = 0
  BY DEF PathOf, DepthOf
<1>4. 0 \in P
  <2> SUFFICES ASSUME NEW id \in {0} \cup DOMAIN rows, DepthOf(rows, id) = L - 0
               PROVE  Subtree(b[0][id], rows, names, id)
    BY <1>1
  <2>1. b[0][id] = <<>>
    BY <1>2 DEF Lowest
  <2>2. Under(rows, id) = {}
    <3>1. \A x \in DOMAIN rows : ~ (Len(rows[x].path) > DepthOf(rows, id))
      BY <1>1
    <3> QED BY <3>1 DEF Under
  <2>3. <<>> \in Seq(NodesOf(rows, names, DOMAIN rows)) /\ Elements(<<>>) = {} /\ ByPath(<<>>)
    BY DEF Elements, ByPath
  <2>4. NodesOf(rows, names, {}) = {}
    BY DEF NodesOf
  <2> QED BY <2>1, <2>2, <2>3, <2>4 DEF Subtree
<1>5. ASSUME NEW n \in 0 .. L - 1, n \in P
      PROVE  n + 1 \in P
  <2> DEFINE m == n + 1
  <2>1. m \in 1 .. L /\ m \in 0 .. L /\ m - 1 = n /\ n \in 0 .. L
    BY <1>1
  <2>2. ASSUME NEW id \in {0} \cup DOMAIN rows, DepthOf(rows, id) = L - m
        PROVE  Subtree(b[m][id], rows, names, id)
    <3>1. b[m][id] = Below(rows, names, 0, id, DepthOf(rows, id), b[n])
      BY <1>2, <2>1, <2>2 DEF Stage, L
    <3>2. ASSUME NEW c \in Sons(rows, id)
          PROVE  Subtree(b[n][c], rows, names, c)
      <4>1. c \in DOMAIN rows /\ DepthOf(rows, c) = DepthOf(rows, id) + 1
        BY SonsAreBelow
      <4>2. DepthOf(rows, c) = L - n
        BY <1>1, <2>1, <2>2, <4>1
      <4> QED BY <1>5, <4>1, <4>2
    <3> DEFINE deeper == b[n]
    <3>3. \A c \in Sons(rows, id) : Subtree(deeper[c], rows, names, c)
      BY <3>2
    <3> HIDE DEF deeper, m, P
    <3>4. Subtree(Below(rows, names, 0, id, DepthOf(rows, id), deeper), rows, names, id)
      BY <3>3, SonsJoined
    <3> QED BY <3>1, <3>4 DEF deeper
  <2> HIDE DEF m
  <2> QED BY <2>1, <2>2 DEF m
<1> HIDE DEF P
<1>6. \A n \in 0 .. L : n \in P
  BY <1>1, <1>4, <1>5, Induction
<1>7. L \in P /\ L - L = 0
  BY <1>1, <1>6
<1>8. Subtree(b[L][0], rows, names, 0)
  BY <1>7, <1>z DEF P
<1>9. Under(rows, 0) = DOMAIN rows
  <2>1. \A x \in DOMAIN rows : /\ rows[x].path \in Seq(Nat)
                               /\ Len(rows[x].path) > 0
    BY RowOfTree
  <2>2. \A x \in DOMAIN rows : SubSeq(rows[x].path, 1, 0) = <<>>
    BY <2>1
  <2> QED BY <1>z, <2>1, <2>2 DEF Under
<1> QED BY <1>2, <1>8, <1>9

-----------------------------------------------------------------------------
(* The menu is of one state of the table, from the query of its rows on.   *)

LabelOf(node, raw) == IF raw THEN Label(node) ELSE node.label

Named(vs, from, id, label) ==
    \/ label = vs[from][id].path
    \/ \E w \in from .. Len(vs) : id \in DOMAIN vs[w] /\ label = vs[w][id].name

\* What MenuIsOneState says of a menu, rendered or not.
Menus(vs, from, tree, raw) ==
    /\ {tree[n].entity_id : n \in DOMAIN tree} = DOMAIN vs[from]
    /\ \A m, n \in DOMAIN tree : m < n =>
         PathBefore(vs[from][tree[m].entity_id].path, vs[from][tree[n].entity_id].path)
    /\ \A n \in DOMAIN tree :
         /\ tree[n].depth = Len(vs[from][tree[n].entity_id].path) - 1
         /\ Named(vs, from, tree[n].entity_id, LabelOf(tree[n], raw))

LEMMA RowsTree ==
    ASSUME NEW c, TreeOf(c)
    PROVE  /\ TreeOf(Rows(c)) /\ DOMAIN Rows(c) = DOMAIN c
           /\ \A id \in DOMAIN c : Rows(c)[id].path = c[id].path
<1>1. /\ DOMAIN Rows(c) = DOMAIN c
      /\ \A id \in DOMAIN c : /\ Rows(c)[id].path = c[id].path
                              /\ Rows(c)[id].parent_id = c[id].parent_id
  BY DEF Rows, Row
<1> DEFINE rows == Rows(c)
<1> HIDE DEF rows
<1>2. ASSUME NEW id \in DOMAIN c
      PROVE  /\ rows[id].path \in Seq(Nat)
             /\ rows[id].parent_id = 0 => Len(rows[id].path) = 1
             /\ rows[id].parent_id # 0 =>
                  /\ rows[id].parent_id \in DOMAIN rows
                  /\ rows[id].path = Append(rows[rows[id].parent_id].path, id)
  <2>1. rows[id].path = c[id].path /\ rows[id].parent_id = c[id].parent_id
    BY <1>1 DEF rows
  <2>2. /\ c[id].path \in Seq(Nat)
        /\ c[id].parent_id = 0 => Len(c[id].path) = 1
        /\ c[id].parent_id # 0 =>
             /\ c[id].parent_id \in DOMAIN c
             /\ c[id].path = Append(c[c[id].parent_id].path, id)
    BY DEF TreeOf
  <2>3. CASE c[id].parent_id = 0
    BY <2>1, <2>2, <2>3
  <2>4. CASE c[id].parent_id # 0
    <3>1. /\ c[id].parent_id \in DOMAIN rows
          /\ rows[c[id].parent_id].path = c[c[id].parent_id].path
      BY <1>1, <2>2, <2>4 DEF rows
    <3> QED BY <2>1, <2>2, <2>4, <3>1
  <2> QED BY <2>3, <2>4
<1>3. \A a, b \in DOMAIN rows : rows[a].parent_id = 0 /\ rows[b].parent_id = 0 => a = b
  BY <1>1 DEF TreeOf, rows
<1>4. DOMAIN rows \subseteq Id /\ DOMAIN rows = DOMAIN c
  BY <1>1 DEF TreeOf, rows
<1>5. TreeOf(rows)
  BY <1>2, <1>3, <1>4, Zenon DEF TreeOf
<1> QED BY <1>1, <1>5 DEF rows

LEMMA MenuBuilt ==
    ASSUME NEW vs, NEW from, TreeOf(vs[from]), NEW names,
           \A id \in DOMAIN vs[from] :
             \/ names[id] = NoName
             \/ \E w \in from .. Len(vs) : id \in DOMAIN vs[w] /\ names[id] = vs[w][id].name
    PROVE  Menus(vs, from, Built(Rows(vs[from]), names, 0), TRUE)
<1> DEFINE c == vs[from]
           rows == Rows(c)
           tree == Built(rows, names, 0)
<1>1. /\ TreeOf(rows) /\ DOMAIN rows = DOMAIN c
      /\ \A id \in DOMAIN c : rows[id].path = c[id].path
  BY RowsTree
<1>2. Subtree(tree, rows, names, 0) /\ Under(rows, 0) = DOMAIN rows
  BY <1>1, BuiltIs
<1>3. /\ tree \in Seq(NodesOf(rows, names, DOMAIN rows))
      /\ Elements(tree) = NodesOf(rows, names, DOMAIN rows)
      /\ ByPath(tree)
  BY <1>2 DEF Subtree
<1> HIDE DEF rows, tree
<1>4. DOMAIN tree = 1 .. Len(tree)
  BY <1>3
<1>5. ASSUME NEW n \in DOMAIN tree
      PROVE  LET id == tree[n].entity_id IN
             /\ id \in DOMAIN c
             /\ tree[n].depth = Len(c[id].path) - 1
             /\ tree[n].path = c[id].path
             /\ tree[n].name = names[id]
  <2>1. tree[n] \in NodesOf(rows, names, DOMAIN rows)
    BY <1>3, <1>4
  <2>2. PICK x \in DOMAIN rows : tree[n] = NodeOf(rows, names, x)
    BY <2>1 DEF NodesOf
  <2>3. /\ tree[n].entity_id = x /\ tree[n].depth = Len(rows[x].path) - 1
        /\ tree[n].path = rows[x].path /\ tree[n].name = names[x]
    BY <2>2 DEF NodeOf, NodeAt
  <2> QED BY <1>1, <2>3
<1>6. {tree[n].entity_id : n \in DOMAIN tree} = DOMAIN c
  <2>1. ASSUME NEW x \in DOMAIN c PROVE \E n \in DOMAIN tree : tree[n].entity_id = x
    <3>1. NodeOf(rows, names, x) \in Elements(tree)
      BY <1>1, <1>3 DEF NodesOf
    <3>2. PICK n \in DOMAIN tree : tree[n] = NodeOf(rows, names, x)
      BY <1>4, <3>1 DEF Elements
    <3> QED BY <3>2 DEF NodeOf, NodeAt
  <2> QED BY <1>5, <2>1
<1>7. \A m, n \in DOMAIN tree : m < n =>
        PathBefore(c[tree[m].entity_id].path, c[tree[n].entity_id].path)
  <2>1. \A m, n \in DOMAIN tree : m < n => PathBefore(tree[m].path, tree[n].path)
    BY <1>3, <1>4 DEF ByPath
  <2> QED BY <1>5, <2>1
<1>8. ASSUME NEW n \in DOMAIN tree
      PROVE  Named(vs, from, tree[n].entity_id, LabelOf(tree[n], TRUE))
  <2>1. CASE tree[n].name = NoName
    BY <1>5, <2>1 DEF Named, LabelOf, Label
  <2>2. CASE tree[n].name # NoName
    BY <1>5, <2>2 DEF Named, LabelOf, Label
  <2> QED BY <2>1, <2>2
<1> QED BY <1>5, <1>6, <1>7, <1>8 DEF Menus, tree, rows

LEMMA MenusRendered ==
    ASSUME NEW vs, NEW from, NEW tree, Menus(vs, from, tree, TRUE)
    PROVE  Menus(vs, from, Rendered(tree), FALSE)
<1> DEFINE new == Rendered(tree)
<1>1. /\ DOMAIN new = DOMAIN tree
      /\ \A n \in DOMAIN tree :
           /\ new[n].entity_id = tree[n].entity_id /\ new[n].depth = tree[n].depth
           /\ LabelOf(new[n], FALSE) = LabelOf(tree[n], TRUE)
  BY DEF Rendered, LabelOf
<1> HIDE DEF new
<1>2. {new[n].entity_id : n \in DOMAIN new} = {tree[n].entity_id : n \in DOMAIN tree}
  BY <1>1
<1> QED BY <1>1, <1>2 DEF Menus, new

LEMMA MenusLater ==
    ASSUME NEW vs \in Seq(Table), NEW c \in Table, NEW ws, ws = Append(vs, c),
           NEW from \in DOMAIN vs, NEW tree, NEW raw, Menus(vs, from, tree, raw)
    PROVE  from \in DOMAIN ws /\ ws[from] = vs[from] /\ Menus(ws, from, tree, raw)
<1>1. /\ DOMAIN ws = 1 .. Len(vs) + 1 /\ DOMAIN vs = 1 .. Len(vs) /\ Len(vs) \in Nat
      /\ Len(ws) = Len(vs) + 1 /\ \A n \in DOMAIN vs : ws[n] = vs[n]
  BY AppendIs
<1>2. from \in DOMAIN ws /\ ws[from] = vs[from]
  BY <1>1
<1>3. \A w \in from .. Len(vs) : w \in from .. Len(ws) /\ ws[w] = vs[w]
  BY <1>1
<1>4. \A id, label : Named(vs, from, id, label) => Named(ws, from, id, label)
  BY <1>2, <1>3 DEF Named
<1> QED BY <1>2, <1>4 DEF Menus

OneState(vs, q) ==
    /\ q.menuFrom \in DOMAIN vs
    /\ q.kind = "tree" => q.pc \in {"menu_rows", "menu_names", "render", "ok", "failed"}
    /\ q.pc = "menu_names" => q.held = Rows(vs[q.menuFrom])
    /\ q.pc = "render" => Menus(vs, q.menuFrom, q.menu, TRUE)
    /\ q.pc = "ok" /\ q.menu # NoMenu => Menus(vs, q.menuFrom, q.menu, q.kind = "tree")

OneStateInv ==
    /\ \A r \in Request : OneState(versions, req[r])
    /\ nav # NoMenu => /\ nav.from \in DOMAIN versions
                       /\ Menus(versions, nav.from, nav.tree, FALSE)

LEMMA OneStateKept ==
    ASSUME Shape, MenuInv, TreesInv, OneStateInv, NEW r \in Request, Works(r)
    PROVE  /\ OneState(versions, req'[r])
           /\ nav' # NoMenu => /\ nav'.from \in DOMAIN versions
                               /\ Menus(versions, nav'.from, nav'.tree, FALSE)
<1> DEFINE q == req[r]
           p == req'[r]
           NavSame == nav' = nav
           Same == /\ p.menuFrom = q.menuFrom /\ p.menu = q.menu /\ p.kind = q.kind
                   /\ q.pc \notin {"render", "ok"} /\ p.pc \notin {"menu_names", "render"}
                   /\ q.kind # "tree" \/ p.pc = "failed"
                   /\ NavSame
<1>0. /\ DOMAIN q = Fields /\ DOMAIN req = Request /\ OneState(versions, q)
      /\ q.pc \notin {"render", "ok"} => q.menu = NoMenu
      /\ DOMAIN versions = 1 .. Len(versions) /\ Len(versions) \in Nat \ {0}
      /\ q.kind = "tree" => q.pc \in {"menu_rows", "menu_names", "render", "ok", "failed"}
  <2>1. DOMAIN q = Fields /\ DOMAIN req = Request /\ OneState(versions, q)
    BY DEF Shape, OneStateInv
  <2>2. q.pc \notin {"render", "ok"} => q.menu = NoMenu
    BY DEF MenuInv, Shows
  <2>3. DOMAIN versions = 1 .. Len(versions) /\ Len(versions) \in Nat \ {0}
    BY LastVersion DEF Shape
  <2>4. q.kind = "tree" => q.pc \in {"menu_rows", "menu_names", "render", "ok", "failed"}
    BY <2>1 DEF OneState
  <2> QED BY <2>1, <2>2, <2>3, <2>4
<1>1. ASSUME Begin(r)
      PROVE  OneState(versions, p) /\ NavSame
  <2>1. PICK api, kind, pc, ids, uids :
          /\ Start(r, api, kind, pc, ids, uids)
          /\ kind = "tree" => pc = "menu_rows"
          /\ pc \in {"rows", "not_found", "probe", "path", "menu", "menu_rows"}
    BY <1>1, BeginStarts DEF Starts
  <2> DEFINE new == [Idle EXCEPT !.api = api, !.kind = kind, !.pc = pc, !.ids = ids,
                          !.queue = ids, !.uids = uids,
                          !.from = IF kind = "list" THEN Len(versions) ELSE 1]
  <2>2. Step(r, "idle", new) /\ DOMAIN new = Fields /\ NavSame
    BY <2>1, StartIs
  <2>3. new.menuFrom = 1 /\ new.kind = kind /\ new.pc = pc /\ new.menu = NoMenu
    BY DEF Idle
  <2> HIDE DEF new
  <2>4. p = new
    BY <2>2, StepIs
  <2> HIDE DEF p
  <2>5. /\ p.menuFrom \in DOMAIN versions /\ p.menu = NoMenu
        /\ p.kind = "tree" => p.pc = "menu_rows"
        /\ p.pc \notin {"menu_names", "render", "ok"}
    BY <1>0, <2>1, <2>3, <2>4
  <2> QED BY <2>2, <2>5 DEF OneState
<1>2. ASSUME Same
      PROVE  OneState(versions, p) /\ NavSame
  BY <1>0, <1>2 DEF OneState
<1>3. CASE ReadRows(r) \/ ProbeHit(r) \/ ProbeMiss(r)
  <2>1. Same
    <3>1. CASE ReadRows(r)
      BY <1>0, <3>1 DEF ReadRows, Step, At, Fields
    <3>2. CASE ProbeHit(r)
      BY <1>0, <3>2 DEF ProbeHit, Step, At, Fields
    <3>3. CASE ProbeMiss(r)
      BY <1>0, <3>3 DEF ProbeMiss, Step, At, Fields
    <3> QED BY <1>3, <3>1, <3>2, <3>3
  <2> QED BY <1>2, <2>1 DEF OneStateInv
<1>4. CASE ReadRow(r) \/ ReadAttributes(r) \/ Probed(r)
  <2>1. Same
    <3>1. CASE ReadRow(r)
      BY <1>0, <3>1 DEF ReadRow, Step, At, Fields
    <3>2. CASE ReadAttributes(r)
      BY <1>0, <3>2 DEF ReadAttributes, Step, At, Fields
    <3>3. CASE Probed(r)
      BY <1>0, <3>3 DEF Probed, Step, At, Fields
    <3> QED BY <1>4, <3>1, <3>2, <3>3
  <2> QED BY <1>2, <2>1 DEF OneStateInv
<1>5. ASSUME NEW id \in Id, Put(r, id)
      PROVE  OneState(versions, p) /\ NavSame
  <2> DEFINE pc == IF Without(q.held, id) = Nothing THEN "probe" ELSE "put"
  <2>1. /\ p = [At(r, pc) EXCEPT !.held = Without(q.held, id),
                  !.found = With(@, id, q.held[id]),
                  !.queue = IF @ = <<>> THEN @ ELSE Tail(@)]
        /\ q.pc = "put" /\ NavSame /\ pc \in {"probe", "put"}
    BY <1>0, <1>5 DEF Put, Step
  <2> HIDE DEF pc, p
  <2>2. Same
    BY <1>0, <2>1 DEF At, Fields
  <2> QED BY <1>2, <2>1, <2>2
<1>6. CASE FindPath(r) \/ ReadProducts(r) \/ CrumbFails(r)
  <2>1. Same
    <3>1. CASE FindPath(r)
      BY <1>0, <3>1 DEF FindPath, Step, At, Fields
    <3>2. CASE ReadProducts(r)
      BY <1>0, <3>2 DEF ReadProducts, Step, At, Fields
    <3>3. CASE CrumbFails(r)
      BY <1>0, <3>3 DEF CrumbFails, Step, At, Fields
    <3> QED BY <1>6, <3>1, <3>2, <3>3
  <2> QED BY <1>2, <2>1 DEF OneStateInv
<1>7. CASE RequestFails(r)
  <2>1. Same
    BY <1>0, <1>7 DEF RequestFails, Step, At, Fields
  <2> QED BY <1>2, <2>1 DEF OneStateInv
<1>8. CASE MenuCached(r)
  <2>1. /\ nav # NoMenu /\ p.menuFrom = nav.from /\ p.menu = nav.tree /\ p.kind = q.kind
        /\ q.pc = "menu" /\ p.pc = "ok" /\ NavSame
    BY <1>0, <1>8 DEF MenuCached, Fresh, Settled, Step, At, Fields
  <2>2. p.kind # "tree"
    BY <1>0, <2>1
  <2>3. (p.kind = "tree") = FALSE
    BY <2>2
  <2> QED BY <1>0, <2>1, <2>2, <2>3 DEF OneState, OneStateInv
<1>9. CASE MenuMissing(r)
  <2>1. Same
    BY <1>0, <1>9 DEF MenuMissing, Settled, Step, At, Fields
  <2> QED BY <1>2, <2>1 DEF OneStateInv
<1>10. CASE ReadMenuRows(r)
  <2>1. /\ p.menuFrom = Len(versions) /\ p.menu = q.menu /\ p.held = Rows(Categories)
        /\ q.pc = "menu_rows" /\ p.pc = "menu_names" /\ NavSame
    BY <1>0, <1>10 DEF ReadMenuRows, Step, At, Fields
  <2>2. Categories = versions[Len(versions)] /\ Len(versions) \in DOMAIN versions
    BY LastVersion DEF Shape, Categories
  <2> QED BY <1>0, <2>1, <2>2 DEF OneState, OneStateInv
<1>11. CASE ReadMenuNames(r)
  <2> DEFINE rows == q.held
             names == [id \in DOMAIN rows |-> NameNow(id)]
             from == q.menuFrom
  <2>1. /\ p.menuFrom = from /\ p.pc = "render" /\ NavSame /\ q.pc = "menu_names"
        /\ p.menu = Built(rows, names, 0)
    BY <1>0, <1>11 DEF ReadMenuNames, Step, At, Fields
  <2>2. rows = Rows(versions[from]) /\ from \in DOMAIN versions
    BY <1>0, <2>1 DEF OneState
  <2>3. TreeOf(versions[from])
    BY <2>2 DEF TreesInv
  <2>4. Len(versions) \in from .. Len(versions) /\ Categories = versions[Len(versions)]
    BY <1>0, <2>2, LastVersion DEF Shape, Categories
  <2>5. DOMAIN rows = DOMAIN versions[from]
    BY <2>2, <2>3, RowsTree
  <2>6. \A id \in DOMAIN versions[from] :
          \/ names[id] = NoName
          \/ \E w \in from .. Len(versions) :
               id \in DOMAIN versions[w] /\ names[id] = versions[w][id].name
    BY <2>4, <2>5 DEF NameNow
  <2> HIDE DEF names, rows, from
  <2>7. Menus(versions, from, Built(Rows(versions[from]), names, 0), TRUE)
    BY <2>3, <2>6, MenuBuilt
  <2>8. Menus(versions, p.menuFrom, p.menu, TRUE)
    BY <2>1, <2>2, <2>7
  <2>9. p.kind = q.kind
    BY <1>0, <1>11 DEF ReadMenuNames, Step, At, Fields
  <2> QED BY <1>0, <2>1, <2>2, <2>8 DEF OneState, OneStateInv
<1>12. CASE SendTree(r)
  <2>1. /\ p.menuFrom = q.menuFrom /\ p.menu = q.menu /\ p.pc = "ok" /\ q.pc = "render"
        /\ p.kind = "tree" /\ NavSame
    BY <1>0, <1>12 DEF SendTree, Step, At, Fields
  <2>2. Menus(versions, p.menuFrom, p.menu, p.kind = "tree")
    <3>1. (p.kind = "tree") = TRUE
      BY <2>1
    <3> QED BY <1>0, <2>1, <3>1 DEF OneState
  <2> QED BY <1>0, <2>1, <2>2 DEF OneState, OneStateInv
<1>13. CASE StoreMenu(r)
  <2>1. /\ p.menuFrom = q.menuFrom /\ p.menu = Rendered(q.menu) /\ p.pc = "ok"
        /\ q.pc = "render" /\ p.kind # "tree"
        /\ nav'.tree = Rendered(q.menu) /\ nav'.from = q.menuFrom
    BY <1>0, <1>13 DEF StoreMenu, Step, At, Fields, Pages
  <2>2. Menus(versions, q.menuFrom, Rendered(q.menu), FALSE)
    BY <1>0, <2>1, MenusRendered DEF OneState
  <2>3. (p.kind = "tree") = FALSE
    BY <2>1
  <2> QED BY <1>0, <2>1, <2>2, <2>3 DEF OneState
<1>14. CASE MenuFails(r)
  <2>1. /\ p.menuFrom = q.menuFrom /\ p.pc = "ok" /\ p.menu = NoMenu /\ p.kind # "tree"
        /\ NavSame
    BY <1>0, <1>14 DEF MenuFails, Step, At, Fields, Pages
  <2> QED BY <1>0, <2>1 DEF OneState, OneStateInv
<1> QED BY <1>1, <1>3, <1>4, <1>5, <1>6, <1>7, <1>8, <1>9, <1>10, <1>11, <1>12,
           <1>13, <1>14 DEF Works, Handle, OneStateInv

LEMMA OneStateLater ==
    ASSUME NEW vs \in Seq(Table), NEW c \in Table, NEW ws, ws = Append(vs, c),
           NEW q, OneState(vs, q)
    PROVE  OneState(ws, q)
<1>1. q.menuFrom \in DOMAIN vs
  BY DEF OneState
<1>2. q.menuFrom \in DOMAIN ws /\ ws[q.menuFrom] = vs[q.menuFrom]
  <2>1. DOMAIN ws = 1 .. Len(vs) + 1 /\ DOMAIN vs = 1 .. Len(vs) /\ Len(vs) \in Nat
    BY AppendIs
  <2> QED BY <1>1, <2>1, AppendIs
<1>3. \A tree, raw : Menus(vs, q.menuFrom, tree, raw) => Menus(ws, q.menuFrom, tree, raw)
  BY <1>1, MenusLater
<1> QED BY <1>2, <1>3 DEF OneState

LEMMA OneStateInvariant == Spec => []OneStateInv
<1>1. Init => OneStateInv
  <2> SUFFICES ASSUME Init PROVE OneStateInv
    OBVIOUS
  <2>1. DOMAIN versions = {1} /\ nav = NoMenu
    BY DEF Init
  <2>2. \A r \in Request : req[r] = Idle
    BY DEF Init
  <2>3. Idle.menuFrom = 1 /\ Idle.pc = "idle" /\ Idle.kind = "none"
    BY DEF Idle
  <2>4. OneState(versions, Idle)
    BY <2>1, <2>3 DEF OneState
  <2> QED BY <2>1, <2>2, <2>4 DEF OneStateInv
<1>2. Shape /\ MenuInv /\ TreesInv /\ OneStateInv /\ [Next]_vars => OneStateInv'
  <2> SUFFICES ASSUME Shape, MenuInv, TreesInv, OneStateInv, [Next]_vars PROVE OneStateInv'
    OBVIOUS
  <2>1. CASE Change
    <3>1. UNCHANGED <<nav, req>>
      BY <2>1, ChangeGrows
    <3>2. PICK c \in Table : versions' = Append(versions, c)
      BY <2>1, ChangeGrows DEF Grows
    <3>3. \A r \in Request : OneState(versions', req[r])
      BY <3>2, OneStateLater DEF OneStateInv, Shape
    <3>4. nav # NoMenu => /\ nav.from \in DOMAIN versions'
                          /\ Menus(versions', nav.from, nav.tree, FALSE)
      BY <3>2, MenusLater DEF OneStateInv, Shape
    <3> QED BY <3>1, <3>3, <3>4 DEF OneStateInv
  <2>2. CASE Tick \/ UNCHANGED vars
    <3>1. UNCHANGED <<versions, nav, req>>
      BY <2>2 DEF Tick, vars
    <3> QED BY <3>1 DEF OneStateInv
  <2>3. ASSUME NEW r \in Request, Works(r) PROVE OneStateInv'
    <3>1. /\ OneState(versions, req'[r])
          /\ nav' # NoMenu => /\ nav'.from \in DOMAIN versions
                              /\ Menus(versions, nav'.from, nav'.tree, FALSE)
      BY <2>3, OneStateKept
    <3>2. versions' = versions /\ \A s \in Request \ {r} : req'[s] = req[s]
      BY <2>3, WorkFrame DEF Frame
    <3> QED BY <3>1, <3>2 DEF OneStateInv
  <2> QED BY <2>1, <2>2, <2>3, StepKinds
<1> QED BY <1>1, <1>2, ShapeHolds, MenuInvariant, TreesInvariant, PTL DEF Spec

\* Every menu and every tree that is sent is of one state of the table: each
\* category once, below its ancestors, however the table changed between the
\* query of the rows, that of the names, and the answer (build_tree,
\* crates/repository/src/category_db.rs; nav_fragments, crates/web/src/state.rs).
THEOREM MenusAreOneState == Spec => []MenuIsOneState
<1>1. MenuInv /\ OneStateInv => MenuIsOneState
  <2> SUFFICES ASSUME OneStateInv, NEW r \in Request, req[r].pc = "ok", req[r].menu # NoMenu
               PROVE  Menus(versions, req[r].menuFrom, req[r].menu, req[r].kind = "tree")
    BY DEF MenuIsOneState, Menus, Named, LabelOf
  <2> QED BY DEF OneStateInv, OneState
<1> QED BY <1>1, MenuInvariant, OneStateInvariant, PTL
=============================================================================
