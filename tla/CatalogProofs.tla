--------------------------- MODULE CatalogProofs ---------------------------
(***************************************************************************)
(* The order of the catalog: it is total, a catalog that grows one build   *)
(* at a time always has a tip, and no listed build has content later than  *)
(* the tip's.  And the route search over a catalog: what it returns can be *)
(* ridden, and after one sweep in that order no build costs more than by   *)
(* the cheapest road that takes the builds in that order.                  *)
(***************************************************************************)
EXTENDS Routes, TLAPS, FiniteSetTheorems, WellFoundedInduction

\* What orderCatalog needs of the builds it sorts.
Ordered(c) == DOMAIN c \subseteq Nat /\ \A id \in DOMAIN c : c[id].through \in Nat

\* A last build exists, unless there is none at all.
HasLast(c, S) == S = {} \/ \E m \in S : \A o \in S \ {m} : Before(c, o, m)

\* Of two different builds one comes before the other, and never both: the sort of
\* orderCatalog leaves nothing to the order the entries had.
LEMMA BeforeIsTotal ==
  ASSUME NEW c, Ordered(c), NEW a \in DOMAIN c, NEW b \in DOMAIN c, a # b
  PROVE  /\ Before(c, a, b) \/ Before(c, b, a)
         /\ ~(Before(c, a, b) /\ Before(c, b, a))
BY DEF Ordered, Before

\* Catalog order is transitive.
LEMMA BeforeIsTransitive ==
  ASSUME NEW c, Ordered(c), NEW a \in DOMAIN c, NEW b \in DOMAIN c, NEW d \in DOMAIN c,
         Before(c, a, b), Before(c, b, d)
  PROVE  Before(c, a, d)
BY DEF Ordered, Before

\* Where a last build exists, LastOf is that build.
LEMMA LastOfIsLast ==
  ASSUME NEW c, NEW S, S # {}, HasLast(c, S)
  PROVE  LastOf(c, S) \in S /\ \A o \in S \ {LastOf(c, S)} : Before(c, o, LastOf(c, S))
BY DEF LastOf, HasLast

\* The tip of a catalog is a build of it, whose content no listed build's is
\* later than.
LEMMA LatestIsLatest ==
  ASSUME NEW c, Ordered(c), HasLast(c, DOMAIN c), DOMAIN c # {}
  PROVE  /\ Latest(c) \in DOMAIN c
         /\ \A o \in DOMAIN c : c[o].through <= c[Latest(c)].through
<1>1. Latest(c) \in DOMAIN c /\ \A o \in DOMAIN c \ {Latest(c)} : Before(c, o, Latest(c))
  BY LastOfIsLast DEF Latest
<1>2. ASSUME NEW o \in DOMAIN c PROVE c[o].through <= c[Latest(c)].through
  <2>1. CASE o = Latest(c) BY <1>1, <2>1 DEF Ordered
  <2>2. CASE o # Latest(c)
    <3>1. Before(c, o, Latest(c)) BY <1>1, <2>2
    <3>2. QED BY <1>1, <3>1 DEF Ordered, Before
  <2>3. QED BY <2>1, <2>2
<1>3. QED BY <1>1, <1>2

\* Appending a build to a catalog that has a tip leaves one that has a tip: the
\* old one, or the new build.
LEMMA RecordedHasLast ==
  ASSUME NEW c, Ordered(c), HasLast(c, DOMAIN c),
         NEW id \in Nat, id \notin DOMAIN c, NEW e, e.through \in Nat
  PROVE  /\ Ordered(Recorded(c, id, e))
         /\ HasLast(Recorded(c, id, e), DOMAIN Recorded(c, id, e))
<1> DEFINE r == Recorded(c, id, e)
<1>1. /\ DOMAIN r = DOMAIN c \cup {id}
      /\ r[id] = e
      /\ \A x \in DOMAIN c : r[x] = c[x]
  BY DEF Recorded
<1>2. Ordered(r)
  BY <1>1 DEF Ordered
<1> HIDE DEF r
<1>3. \A a, b \in DOMAIN c : Before(c, a, b) => Before(r, a, b)
  BY <1>1 DEF Before
<1>4. HasLast(r, DOMAIN r)
  <2>1. CASE DOMAIN c = {}
    BY <1>1, <2>1 DEF HasLast
  <2>2. CASE DOMAIN c # {}
    <3>1. PICK m \in DOMAIN c : \A o \in DOMAIN c \ {m} : Before(c, o, m)
      BY <2>2 DEF HasLast
    <3>2. id # m /\ m \in DOMAIN r /\ id \in DOMAIN r
      BY <1>1, <3>1
    <3>3. CASE Before(r, id, m)
      <4>1. \A o \in DOMAIN r \ {m} : Before(r, o, m)
        BY <1>1, <1>3, <3>1, <3>3
      <4>2. QED BY <3>2, <4>1 DEF HasLast
    <3>4. CASE Before(r, m, id)
      <4>1. ASSUME NEW o \in DOMAIN r \ {id} PROVE Before(r, o, id)
        <5>1. CASE o = m BY <3>4, <5>1
        <5>2. CASE o # m
          <6>1. o \in DOMAIN r /\ Before(r, o, m) BY <1>1, <1>3, <3>1, <5>2
          <6>2. QED BY <1>2, <3>2, <3>4, <6>1, BeforeIsTransitive
        <5>3. QED BY <5>1, <5>2
      <4>2. QED BY <3>2, <4>1 DEF HasLast
    <3>5. QED BY <1>2, <3>2, <3>3, <3>4, BeforeIsTotal
  <2>3. QED BY <2>1, <2>2
<1>5. QED BY <1>2, <1>4 DEF r

\* The tip after a build was appended is the old tip or that build.
LEMMA RecordedLatest ==
  ASSUME NEW c, Ordered(c), HasLast(c, DOMAIN c), DOMAIN c # {},
         NEW id \in Nat, id \notin DOMAIN c, NEW e, e.through \in Nat
  PROVE  Latest(Recorded(c, id, e)) \in {Latest(c), id}
<1> DEFINE r == Recorded(c, id, e)
           new == Latest(r)
           old == Latest(c)
<1>1. /\ DOMAIN r = DOMAIN c \cup {id}
      /\ \A x \in DOMAIN c : r[x] = c[x]
  BY DEF Recorded
<1>2. Ordered(r) /\ HasLast(r, DOMAIN r)
  BY RecordedHasLast
<1>3. new \in DOMAIN r /\ \A o \in DOMAIN r \ {new} : Before(r, o, new)
  BY <1>1, <1>2, LastOfIsLast DEF Latest
<1>4. old \in DOMAIN c /\ \A o \in DOMAIN c \ {old} : Before(c, o, old)
  BY LastOfIsLast DEF Latest
<1> HIDE DEF r, new, old
<1>5. SUFFICES ASSUME new # id, new # old PROVE FALSE
  BY DEF r, new, old
<1>6. new \in DOMAIN c /\ Before(r, old, new) /\ Before(c, new, old)
  BY <1>1, <1>3, <1>4, <1>5
<1>7. Before(c, old, new)
  BY <1>1, <1>4, <1>6 DEF Before
<1> QED BY <1>4, <1>5, <1>6, <1>7, BeforeIsTotal

\* No build comes after the tip.
LEMMA NoneAfterLatest ==
  ASSUME NEW c, Ordered(c), HasLast(c, DOMAIN c), DOMAIN c # {}
  PROVE  {o \in DOMAIN c : Before(c, Latest(c), o)} = {}
<1> DEFINE m == Latest(c)
<1>1. m \in DOMAIN c /\ \A o \in DOMAIN c \ {m} : Before(c, o, m)
  BY LastOfIsLast DEF Latest
<1> HIDE DEF m
<1>2. ASSUME NEW o \in DOMAIN c PROVE ~Before(c, m, o)
  <2>1. CASE o = m BY <1>1, <2>1 DEF Ordered, Before
  <2>2. CASE o # m BY <1>1, <2>2, BeforeIsTotal
  <2> QED BY <2>1, <2>2
<1> QED BY <1>2 DEF m

----------------------------------------------------------------------------
(***************************************************************************)
(* What the route search of the updater returns, for every catalog: a road *)
(* that starts from the held build or from a full to download, each of its *)
(* patches applying to what the one before it left, and ends at the build  *)
(* that was asked for; and when it finds one.                              *)
(*                                                                         *)
(* The sweep and the way back are recursions over numbers.  That functions *)
(* defined so exist, and what holds of every value of theirs, is shown by  *)
(* looking at the least number for which it would fail (NatMin).           *)
(***************************************************************************)

\* The builds of an epoch, and the one of them that has n before it.
Era(c, era) == {id \in DOMAIN c : c[id].epoch = era}

At(c, era, n) ==
  CHOOSE id \in Era(c, era) : Cardinality({o \in Era(c, era) : Before(c, o, id)}) = n

\* A set of naturals that is not empty has a least element.
LEMMA NatMin ==
  ASSUME NEW T \in SUBSET Nat, T # {}
  PROVE  \E x \in T : \A y \in T : x <= y
<1>1. PICK x \in T : \A y \in T : ~ (<<y, x>> \in OpToRel(<, Nat))
  BY WFMin, NatLessThanWellFounded
<1>2. \A y \in T : ~ (y < x)
  BY <1>1 DEF OpToRel
<1> QED BY <1>2

----------------------------------------------------------------------------
\* How many builds of S come before build x.
Rank(c, S, x) == Cardinality({o \in S : Before(c, o, x)})

\* Of two builds the earlier has fewer before it, and no build has all of them.
LEMMA RankGrows ==
  ASSUME NEW c, Ordered(c), NEW S \in SUBSET DOMAIN c, IsFiniteSet(S), NEW a \in S
  PROVE  /\ Rank(c, S, a) \in Nat /\ Rank(c, S, a) < Cardinality(S) /\ Cardinality(S) \in Nat
         /\ \A b \in S : Before(c, a, b) => Rank(c, S, a) < Rank(c, S, b)
<1> DEFINE Prec(x) == {o \in S : Before(c, o, x)}
<1>1. ~Before(c, a, a)
  BY DEF Ordered, Before
<1>2. IsFiniteSet(S \ {a}) /\ Cardinality(S \ {a}) = Cardinality(S) - 1
      /\ Cardinality(S) \in Nat
  BY FS_RemoveElement, FS_CardinalityType
<1>3. Prec(a) \subseteq S \ {a}
  BY <1>1
<1>4. /\ IsFiniteSet(Prec(a)) /\ Cardinality(Prec(a)) \in Nat
      /\ Cardinality(Prec(a)) <= Cardinality(S \ {a})
  BY <1>2, <1>3, FS_Subset, FS_CardinalityType
<1>5. Rank(c, S, a) \in Nat /\ Rank(c, S, a) < Cardinality(S)
  BY <1>2, <1>4 DEF Rank
<1>6. ASSUME NEW b \in S, Before(c, a, b)
      PROVE  Rank(c, S, a) < Rank(c, S, b)
  <2>1. Prec(a) \cup {a} \subseteq Prec(b)
    BY <1>6, BeforeIsTransitive
  <2>2. IsFiniteSet(Prec(b))
    BY FS_Subset
  <2>3. a \notin Prec(a)
    BY <1>1
  <2>4. Cardinality(Prec(a) \cup {a}) = Cardinality(Prec(a)) + 1
    BY <1>4, <2>3, FS_AddElement
  <2>5. Cardinality(Prec(a) \cup {a}) <= Cardinality(Prec(b)) /\ Cardinality(Prec(b)) \in Nat
    BY <2>1, <2>2, FS_Subset, FS_CardinalityType
  <2> HIDE DEF Prec
  <2>6. Cardinality(Prec(a)) < Cardinality(Prec(b))
    BY <1>4, <2>4, <2>5
  <2> QED BY <2>6 DEF Rank, Prec
<1> QED BY <1>2, <1>5, <1>6

\* Every turn of the sweep has a build of its own, and every build a turn.
LEMMA AtIsABuild ==
  ASSUME NEW c, Ordered(c), IsFiniteSet(DOMAIN c), NEW era,
         NEW n \in 0 .. Cardinality(Era(c, era)) - 1
  PROVE  At(c, era, n) \in Era(c, era) /\ Rank(c, Era(c, era), At(c, era, n)) = n
<1> DEFINE S == Era(c, era)
           r == [x \in S |-> Rank(c, S, x)]
           N == Cardinality(S)
<1>1. S \subseteq DOMAIN c /\ IsFiniteSet(S) /\ N \in Nat
  BY FS_Subset, FS_CardinalityType DEF Era
<1> HIDE DEF S
<1>2. \A x \in S : Rank(c, S, x) \in 0 .. N - 1
  BY <1>1, RankGrows
<1>3. \E x \in S : Rank(c, S, x) = n
  <2> SUFFICES ASSUME \A x \in S : Rank(c, S, x) # n PROVE FALSE
    OBVIOUS
  <2> DEFINE T == (0 .. N - 1) \ {n}
  <2>1. IsFiniteSet(0 .. N - 1) /\ Cardinality(0 .. N - 1) = N
    <3> HIDE DEF N
    <3>1. 0 \in Int /\ N - 1 \in Int /\ n \in 0 .. N - 1
      BY <1>1 DEF N, S
    <3>2. /\ IsFiniteSet(0 .. (N - 1))
          /\ Cardinality(0 .. (N - 1)) = IF 0 > N - 1 THEN 0 ELSE (N - 1) - 0 + 1
      BY <3>1, FS_Interval
    <3> QED BY <3>1, <3>2, <1>1
  <2>2. IsFiniteSet(T) /\ Cardinality(T) = N - 1
    BY <2>1, FS_RemoveElement DEF S
  <2>3. r \in [S -> T]
    BY <1>2
  <2> HIDE DEF T, r
  <2>4. PICK x, y \in S : x # y /\ r[x] = r[y]
    <3>1. Cardinality(T) < Cardinality(S)
      BY <1>1, <2>2
    <3> QED BY <1>1, <2>2, <2>3, <3>1, FS_PigeonHole
  <2>5. Rank(c, S, x) = Rank(c, S, y)
    BY <2>4 DEF r
  <2>6. Before(c, x, y) \/ Before(c, y, x)
    BY <1>1, <2>4, BeforeIsTotal
  <2> QED BY <1>1, <1>2, <2>5, <2>6, RankGrows
<1>4. At(c, era, n) = CHOOSE id \in S : Rank(c, S, id) = n
  BY DEF At, Rank, S
<1> QED BY <1>3, <1>4 DEF S

\* Among finitely many builds there is a last one.
LEMMA FiniteHasLast ==
  ASSUME NEW c, Ordered(c), NEW S \in SUBSET DOMAIN c, IsFiniteSet(S)
  PROVE  HasLast(c, S)
<1> SUFFICES ASSUME S # {} PROVE \E m \in S : \A o \in S \ {m} : Before(c, o, m)
  BY DEF HasLast
<1> DEFINE N == Cardinality(S)
           T == {N - Rank(c, S, x) : x \in S}
<1>1. \A x \in S : Rank(c, S, x) \in Nat /\ Rank(c, S, x) < N /\ N \in Nat
  BY RankGrows
<1>2. T # {} /\ T \in SUBSET Nat
  BY <1>1
<1>3. PICK m \in S : \A y \in T : N - Rank(c, S, m) <= y
  BY <1>2, NatMin
<1>4. ASSUME NEW o \in S \ {m} PROVE Before(c, o, m)
  <2>1. N - Rank(c, S, o) \in T
    OBVIOUS
  <2>2. N - Rank(c, S, m) <= N - Rank(c, S, o)
    BY <1>3, <2>1
  <2>3. ~Before(c, m, o)
    BY <1>1, <2>2, RankGrows
  <2> QED BY <2>3, BeforeIsTotal
<1> QED BY <1>4

----------------------------------------------------------------------------
\* The sweep's table after each of its first k turns.
IsSweep(f, c, cur, era, k) ==
  f = [n \in 0 .. k |-> IF n = 0 THEN Seeds(c, cur, era)
                        ELSE relax(c, f[n - 1], At(c, era, n - 1))]

\* The sweep is a recursion over its turns, and such a function exists.
LEMMA SweepExists ==
  ASSUME NEW c, NEW cur, NEW era, NEW N \in Nat
  PROVE  \E f : IsSweep(f, c, cur, era, N)
<1> DEFINE Bad == {k \in Nat : ~ \E f : IsSweep(f, c, cur, era, k)}
<1> SUFFICES ASSUME Bad # {} PROVE FALSE
  OBVIOUS
<1>1. PICK k \in Bad : \A j \in Bad : k <= j
  BY NatMin
<1>2. CASE k = 0
  <2> DEFINE g == [n \in 0 .. 0 |-> Seeds(c, cur, era)]
  <2>1. IsSweep(g, c, cur, era, 0)
    BY DEF IsSweep
  <2> QED BY <1>1, <1>2, <2>1
<1>3. CASE k # 0
  <2>1. k - 1 \in Nat /\ k - 1 \notin Bad
    BY <1>1, <1>3
  <2>2. PICK f : IsSweep(f, c, cur, era, k - 1)
    BY <2>1
  <2> DEFINE g == [n \in 0 .. k |-> IF n = k THEN relax(c, f[k - 1], At(c, era, k - 1)) ELSE f[n]]
             h == [n \in 0 .. k |-> IF n = 0 THEN Seeds(c, cur, era)
                                    ELSE relax(c, g[n - 1], At(c, era, n - 1))]
  <2>3. ASSUME NEW n \in 0 .. k PROVE g[n] = h[n]
    <3>1. CASE n = k
      <4>1. k - 1 \in 0 .. k /\ g[k - 1] = f[k - 1]
        BY <1>1, <1>3
      <4> QED BY <1>3, <3>1, <4>1
    <3>2. CASE n # k
      <4>1. n \in 0 .. k - 1
        BY <1>1, <3>2
      <4>2. f[n] = IF n = 0 THEN Seeds(c, cur, era) ELSE relax(c, f[n - 1], At(c, era, n - 1))
        BY <2>2, <4>1 DEF IsSweep
      <4>3. n # 0 => n - 1 \in 0 .. k /\ g[n - 1] = f[n - 1]
        BY <1>1, <3>2, <4>1
      <4> QED BY <1>1, <3>2, <4>2, <4>3
    <3> QED BY <3>1, <3>2
  <2>4. g = h
    BY <2>3
  <2>5. IsSweep(g, c, cur, era, k)
    BY <2>4 DEF IsSweep
  <2> QED BY <1>1, <2>5
<1> QED BY <1>2, <1>3

\* What holds of a table that the sweep has made so far: it holds builds of the
\* epoch, each at a start, which is the held build or a full to download, or one
\* patch away from another build of the table.  That other build costs no more; and
\* if it costs the same it is a start, or it comes before in the catalog.
IsTable(b, c, cur, era) ==
  /\ DOMAIN b \subseteq Era(c, era)
  /\ \A x \in DOMAIN b :
       LET from == b[x].from
       IN  /\ b[x].cost \in Nat
           /\ IF from # NoBuild
              THEN /\ from \in DOMAIN b \cap DOMAIN routes(c[x])
                   /\ b[from].cost <= b[x].cost
                   /\ b[from].cost = b[x].cost => b[from].from = NoBuild \/ Before(c, from, x)
              ELSE IF b[x].seed = NoBuild THEN x = cur ELSE b[x].seed = x /\ c[x].kind = "full"

\* Every build's routes have prices, and start from builds.
LEMMA RoutesHavePrices ==
  ASSUME NEW ids \in SUBSET (Nat \ {NoBuild}), NEW c, IsCatalog(c, ids), NEW x \in DOMAIN c
  PROVE  /\ DOMAIN routes(c[x]) \subseteq ids
         /\ \A f \in DOMAIN routes(c[x]) : routes(c[x])[f] \in Nat
<1>1. IsEntry(c[x], ids)
  BY DEF IsCatalog
<1>2. /\ c[x].edges \in [DOMAIN c[x].edges -> Nat] /\ DOMAIN c[x].edges \subseteq ids
      /\ c[x].parent \in ids \cup {NoBuild} /\ c[x].bridgeFrom \in ids \cup {NoBuild}
  BY <1>1 DEF IsEntry
<1> QED BY <1>2 DEF routes

\* The sweep begins with such a table.
LEMMA SeedsAreATable ==
  ASSUME NEW ids \in SUBSET (Nat \ {NoBuild}), NEW c, IsCatalog(c, ids), NEW cur, NEW era
  PROVE  IsTable(Seeds(c, cur, era), c, cur, era)
<1> DEFINE b == Seeds(c, cur, era)
<1>1. \A x \in DOMAIN c : c[x].bytes \in Nat
  BY DEF IsCatalog, IsEntry
<1>2. DOMAIN b \subseteq Era(c, era)
  BY DEF Seeds, Era, Listed
<1>3. ASSUME NEW x \in DOMAIN b
      PROVE  /\ b[x].cost \in Nat /\ b[x].from = NoBuild
             /\ IF b[x].seed = NoBuild THEN x = cur ELSE b[x].seed = x /\ c[x].kind = "full"
  <2>1. x \in DOMAIN c /\ x # NoBuild
    BY <1>2 DEF Era, IsCatalog
  <2>2. \/ b[x] = Node(0, NoBuild, NoBuild) /\ x = cur
        \/ b[x] = Node(c[x].bytes, NoBuild, x) /\ c[x].kind = "full"
    BY DEF Seeds
  <2> HIDE DEF b
  <2>3. CASE b[x] = Node(0, NoBuild, NoBuild) /\ x = cur
    BY <2>3 DEF Node
  <2>4. CASE b[x] = Node(c[x].bytes, NoBuild, x) /\ c[x].kind = "full"
    BY <1>1, <2>1, <2>4 DEF Node
  <2> QED BY <2>2, <2>3, <2>4
<1> QED BY <1>2, <1>3 DEF IsTable

\* Two tables say the same of build x.
Alike(t, u, x) == (x \in DOMAIN t <=> x \in DOMAIN u) /\ (x \in DOMAIN t => t[x] = u[x])

\* What a turn does: it changes its build alone, if at all, for a patch from a build
\* of the table that costs least and strictly less than what was known.
IsTurn(c, b, id, t) ==
  LET in   == routes(c[id])
      from == DOMAIN in \cap DOMAIN b
  IN  /\ \A g \in from : b[g].cost \in Nat /\ in[g] \in Nat /\ g # NoBuild
      /\ \A x : x # id => Alike(t, b, x)
      /\ DOMAIN b \subseteq DOMAIN t
      /\ \/ t = b /\ \A g \in from : id \in DOMAIN b /\ b[id].cost <= b[g].cost + in[g]
         \/ /\ DOMAIN t = DOMAIN b \cup {id}
            /\ \A x \in DOMAIN b \ {id} : t[x] = b[x]
            /\ \E f \in from : /\ t[id] = Node(b[f].cost + in[f], f, NoBuild)
                               /\ id \in DOMAIN b => b[f].cost + in[f] < b[id].cost
                               /\ \A g \in from : b[f].cost + in[f] <= b[g].cost + in[g]

LEMMA RelaxIsATurn ==
  ASSUME NEW ids \in SUBSET (Nat \ {NoBuild}), NEW c, IsCatalog(c, ids), NEW id \in DOMAIN c,
         NEW b, \A x \in DOMAIN b : b[x].cost \in Nat
  PROVE  IsTurn(c, b, id, relax(c, b, id))
<1> DEFINE in      == routes(c[id])
           from    == DOMAIN in \cap DOMAIN b
           via(g)  == b[g].cost + in[g]
           f       == CHOOSE g \in from : \A h \in from : via(g) <= via(h)
           new     == [x \in DOMAIN b \cup {id} |-> IF x = id THEN Node(via(f), f, NoBuild) ELSE b[x]]
           t       == relax(c, b, id)
<1>1. t = IF from = {} \/ (id \in DOMAIN b /\ b[id].cost <= via(f)) THEN b ELSE new
  BY DEF relax
<1>2. \A g \in from : b[g].cost \in Nat /\ in[g] \in Nat /\ g # NoBuild /\ via(g) \in Nat
  <2>1. DOMAIN in \subseteq ids /\ \A g \in DOMAIN in : in[g] \in Nat
    BY RoutesHavePrices
  <2> HIDE DEF in
  <2> SUFFICES ASSUME NEW g \in from
               PROVE  b[g].cost \in Nat /\ in[g] \in Nat /\ g # NoBuild /\ via(g) \in Nat
    OBVIOUS
  <2>2. g \in DOMAIN b /\ g \in DOMAIN in
    OBVIOUS
  <2>3. b[g].cost \in Nat /\ in[g] \in Nat /\ g \in ids
    BY <2>1, <2>2
  <2> QED BY <2>3
<1>3. from # {} => f \in from /\ \A h \in from : via(f) <= via(h)
  <2> SUFFICES ASSUME from # {} PROVE \E g \in from : \A h \in from : via(g) <= via(h)
    OBVIOUS
  <2> DEFINE T == {via(g) : g \in from}
  <2>1. T # {} /\ T \in SUBSET Nat
    BY <1>2
  <2>2. PICK m \in T : \A u \in T : m <= u
    BY <2>1, NatMin
  <2>3. PICK g \in from : via(g) = m
    BY <2>2
  <2> QED BY <2>2, <2>3
<1>4. /\ DOMAIN new = DOMAIN b \cup {id} /\ new[id] = Node(via(f), f, NoBuild)
      /\ \A x \in DOMAIN b \ {id} : new[x] = b[x]
  OBVIOUS
<1> HIDE DEF f, t, new
<1>5. CASE from = {} \/ (id \in DOMAIN b /\ b[id].cost <= via(f))
  <2>1. t = b
    BY <1>1, <1>5
  <2>2. ASSUME NEW g \in from PROVE id \in DOMAIN b /\ b[id].cost <= via(g)
    <3>1. id \in DOMAIN b /\ b[id].cost <= via(f) /\ via(f) <= via(g)
      BY <1>3, <1>5
    <3>2. b[id].cost \in Nat /\ via(f) \in Nat /\ via(g) \in Nat
      BY <1>2, <1>3, <3>1
    <3> QED BY <3>1, <3>2
  <2>3. \A x : Alike(b, b, x)
    BY DEF Alike
  <2> QED BY <1>2, <2>1, <2>2, <2>3 DEF t, IsTurn
<1>6. CASE ~ (from = {} \/ (id \in DOMAIN b /\ b[id].cost <= via(f)))
  <2>1. t = new /\ f \in from /\ (id \in DOMAIN b => ~ (b[id].cost <= via(f)))
    BY <1>1, <1>3, <1>6
  <2>2. id \in DOMAIN b => via(f) < b[id].cost
    <3> DEFINE v == via(f)
               w == b[id].cost
    <3>1. v \in Nat /\ (id \in DOMAIN b => w \in Nat /\ ~ (w <= v))
      BY <1>2, <2>1
    <3> HIDE DEF v, w
    <3>2. id \in DOMAIN b => v < w
      BY <3>1
    <3> QED BY <3>2 DEF v, w
  <2>3. \A x : x # id => Alike(t, b, x)
    BY <1>4, <2>1 DEF Alike
  <2> QED BY <1>2, <1>3, <1>4, <2>1, <2>2, <2>3 DEF t, IsTurn
<1> QED BY <1>5, <1>6

\* Each turn keeps it one, if what comes after in the catalog is at a start as yet.
LEMMA RelaxKeepsATable ==
  ASSUME NEW ids \in SUBSET (Nat \ {NoBuild}), NEW c, IsCatalog(c, ids), Ordered(c), NEW cur, NEW era,
         NEW b, IsTable(b, c, cur, era), NEW id \in Era(c, era),
         \A x \in DOMAIN b : Before(c, id, x) => b[x].from = NoBuild
  PROVE  IsTable(relax(c, b, id), c, cur, era)
<1> DEFINE in   == routes(c[id])
           from == DOMAIN in \cap DOMAIN b
           t    == relax(c, b, id)
<1>1. id \in DOMAIN c /\ \A x \in DOMAIN b : b[x].cost \in Nat
  BY DEF Era, IsTable
<1>2. /\ \A g \in from : b[g].cost \in Nat /\ in[g] \in Nat /\ g # NoBuild
      /\ \/ t = b
         \/ /\ DOMAIN t = DOMAIN b \cup {id} /\ \A x \in DOMAIN b \ {id} : t[x] = b[x]
            /\ \E f \in from : /\ t[id] = Node(b[f].cost + in[f], f, NoBuild)
                               /\ id \in DOMAIN b => b[f].cost + in[f] < b[id].cost
  <2>1. IsTurn(c, b, id, t)
    BY <1>1, RelaxIsATurn
  <2> QED BY <2>1 DEF IsTurn
<1> HIDE DEF t
<1>3. CASE t = b
  BY <1>3 DEF t
<1>4. CASE t # b
  <2>1. DOMAIN t = DOMAIN b \cup {id} /\ \A x \in DOMAIN b \ {id} : t[x] = b[x]
    BY <1>2, <1>4
  <2>2. PICK f \in from : /\ t[id] = Node(b[f].cost + in[f], f, NoBuild)
                          /\ id \in DOMAIN b => b[f].cost + in[f] < b[id].cost
    BY <1>2, <1>4
  <2>3. /\ t[id].cost = b[f].cost + in[f] /\ t[id].from = f
        /\ b[f].cost \in Nat /\ in[f] \in Nat /\ f # NoBuild
    BY <1>2, <2>2 DEF Node
  <2>4. f # id
    BY <2>2, <2>3
  <2>5. t[f] = b[f] /\ f \in DOMAIN t
    BY <2>1, <2>4
  <2>6. Before(c, f, id) \/ b[f].from = NoBuild
    <3>1. f \in DOMAIN c
      BY DEF IsTable, Era
    <3> QED BY <1>1, <2>4, <3>1, BeforeIsTotal
  <2>7. \A x \in DOMAIN b : t[x].cost \in Nat /\ t[x].cost <= b[x].cost
                            /\ (x = id => t[x].cost < b[x].cost)
    BY <1>1, <2>1, <2>2, <2>3
  <2>8. t[id].cost \in Nat /\ t[f].cost <= t[id].cost
    BY <2>3, <2>5
  <2>9. DOMAIN t \subseteq Era(c, era)
    BY <2>1 DEF IsTable
  <2>10. ASSUME NEW x \in DOMAIN b \ {id}, b[x].from # NoBuild
         PROVE  /\ t[b[x].from].cost <= t[x].cost
                /\ t[b[x].from].cost = t[x].cost =>
                     t[b[x].from].from = NoBuild \/ Before(c, b[x].from, x)
    <3> DEFINE g == b[x].from
    <3>1. /\ g \in DOMAIN b /\ b[g].cost <= b[x].cost
          /\ b[g].cost = b[x].cost => b[g].from = NoBuild \/ Before(c, g, x)
      BY <2>10 DEF IsTable
    <3> HIDE DEF g
    <3>2. t[x] = b[x] /\ b[x].cost \in Nat /\ b[g].cost \in Nat
      BY <1>1, <2>1, <3>1
    <3>3. CASE g = id
      <4>1. t[g].cost < b[g].cost /\ t[g].cost \in Nat
        BY <2>7, <3>1, <3>3
      <4> QED BY <3>1, <3>2, <4>1 DEF g
    <3>4. CASE g # id
      <4>1. t[g] = b[g]
        BY <2>1, <3>1, <3>4
      <4> QED BY <3>1, <3>2, <4>1 DEF g
    <3> QED BY <3>3, <3>4
  <2>11. ASSUME NEW x \in DOMAIN t
         PROVE  LET h == t[x].from
                IN  /\ t[x].cost \in Nat
                    /\ IF h # NoBuild
                       THEN /\ h \in DOMAIN t \cap DOMAIN routes(c[x])
                            /\ t[h].cost <= t[x].cost
                            /\ t[h].cost = t[x].cost => t[h].from = NoBuild \/ Before(c, h, x)
                       ELSE IF t[x].seed = NoBuild THEN x = cur ELSE t[x].seed = x /\ c[x].kind = "full"
    <3>1. CASE x = id
      BY <2>3, <2>5, <2>6, <2>8, <3>1
    <3>2. CASE x # id
      <4>1. x \in DOMAIN b \ {id} /\ t[x] = b[x]
        BY <2>1, <3>2
      <4>2. b[x].from # NoBuild => b[x].from \in DOMAIN t \cap DOMAIN routes(c[x])
        BY <2>1, <4>1 DEF IsTable
      <4>3. b[x].from = NoBuild =>
              IF b[x].seed = NoBuild THEN x = cur ELSE b[x].seed = x /\ c[x].kind = "full"
        BY <4>1 DEF IsTable
      <4> QED BY <1>1, <2>10, <4>1, <4>2, <4>3
    <3> QED BY <3>1, <3>2
  <2>12. IsTable(t, c, cur, era)
    BY <2>9, <2>11 DEF IsTable
  <2> QED BY <2>12 DEF t
<1> QED BY <1>3, <1>4

\* A run of the sweep: its table before the first turn, after each, and at the end.
IsRun(f, c, cur, era) ==
  LET N == Cardinality(Era(c, era))
  IN  /\ f[0] = Seeds(c, cur, era) /\ f[N] = sweep(c, cur, era)
      /\ \A n \in 1 .. N : /\ f[n] = relax(c, f[n - 1], At(c, era, n - 1))
                           /\ At(c, era, n - 1) \in Era(c, era)
                           /\ Rank(c, Era(c, era), At(c, era, n - 1)) = n - 1

\* The builds of an epoch have turns of their own.
LEMMA TurnsAreTheirOwn ==
  ASSUME NEW c, Ordered(c), IsFiniteSet(DOMAIN c), NEW era
  PROVE  /\ Cardinality(Era(c, era)) \in Nat
         /\ \A x \in Era(c, era) : /\ Rank(c, Era(c, era), x) \in Nat
                                   /\ Rank(c, Era(c, era), x) < Cardinality(Era(c, era))
         /\ \A x, y \in Era(c, era) :
              /\ Rank(c, Era(c, era), x) = Rank(c, Era(c, era), y) => x = y
              /\ Before(c, x, y) => Rank(c, Era(c, era), x) < Rank(c, Era(c, era), y)
<1> DEFINE E == Era(c, era)
<1>1. IsFiniteSet(E) /\ E \subseteq DOMAIN c /\ Cardinality(E) \in Nat
  BY FS_Subset, FS_CardinalityType DEF Era
<1> HIDE DEF E
<1>2. \A x \in E : Rank(c, E, x) \in Nat /\ Rank(c, E, x) < Cardinality(E)
  BY <1>1, RankGrows
<1>3. \A x, y \in E : Before(c, x, y) => Rank(c, E, x) < Rank(c, E, y)
  BY <1>1, RankGrows
<1>4. \A x, y \in E : Rank(c, E, x) = Rank(c, E, y) => x = y
  <2> SUFFICES ASSUME NEW x \in E, NEW y \in E, Rank(c, E, x) = Rank(c, E, y), x # y
               PROVE  FALSE
    OBVIOUS
  <2>1. Before(c, x, y) \/ Before(c, y, x)
    BY <1>1, BeforeIsTotal
  <2> QED BY <1>2, <1>3, <2>1
<1> QED BY <1>1, <1>2, <1>3, <1>4 DEF E

\* The sweep has a run.
LEMMA SweepRuns ==
  ASSUME NEW c, Ordered(c), IsFiniteSet(DOMAIN c), NEW cur, NEW era
  PROVE  \E f : IsRun(f, c, cur, era)
<1> DEFINE E == Era(c, era)
           N == Cardinality(E)
           f == CHOOSE g : IsSweep(g, c, cur, era, N)
<1>1. N \in Nat
  BY TurnsAreTheirOwn
<1>2. sweep(c, cur, era) = f[N]
  BY DEF sweep, IsSweep, At, Era
<1>3. IsSweep(f, c, cur, era, N)
  BY <1>1, SweepExists
<1> HIDE DEF f
<1>4. /\ f[0] = Seeds(c, cur, era)
      /\ \A n \in 1 .. N : f[n] = relax(c, f[n - 1], At(c, era, n - 1))
  BY <1>1, <1>3 DEF IsSweep
<1>5. ASSUME NEW n \in 1 .. N
      PROVE  At(c, era, n - 1) \in E /\ Rank(c, E, At(c, era, n - 1)) = n - 1
  <2>1. n - 1 \in 0 .. N - 1
    BY <1>1
  <2> QED BY <2>1, AtIsABuild
<1> QED BY <1>2, <1>4, <1>5 DEF IsRun

\* All along a run the table is a table, holds the seeds, and says of a build that
\* has not had its turn what the seeds say of it.
LEMMA RunKeepsATable ==
  ASSUME NEW ids \in SUBSET (Nat \ {NoBuild}), NEW c, IsCatalog(c, ids), Ordered(c),
         IsFiniteSet(DOMAIN c), NEW cur, NEW era, NEW f, IsRun(f, c, cur, era),
         NEW m \in 0 .. Cardinality(Era(c, era))
  PROVE  /\ IsTable(f[m], c, cur, era) /\ DOMAIN Seeds(c, cur, era) \subseteq DOMAIN f[m]
         /\ \A x \in Era(c, era) : m <= Rank(c, Era(c, era), x) => Alike(f[m], Seeds(c, cur, era), x)
<1> DEFINE E == Era(c, era)
           N == Cardinality(E)
           s == Seeds(c, cur, era)
           Good(n) == /\ IsTable(f[n], c, cur, era) /\ DOMAIN s \subseteq DOMAIN f[n]
                      /\ \A x \in E : n <= Rank(c, E, x) => Alike(f[n], s, x)
           Bad == {n \in 0 .. N : ~Good(n)}
<1>1. /\ N \in Nat /\ \A x \in E : Rank(c, E, x) \in Nat
      /\ \A x, y \in E : Before(c, x, y) => Rank(c, E, x) < Rank(c, E, y)
  BY TurnsAreTheirOwn
<1>2. /\ f[0] = s
      /\ \A n \in 1 .. N : /\ f[n] = relax(c, f[n - 1], At(c, era, n - 1))
                           /\ At(c, era, n - 1) \in E /\ Rank(c, E, At(c, era, n - 1)) = n - 1
  BY DEF IsRun
<1>3. IsTable(s, c, cur, era) /\ \A x \in DOMAIN s : s[x].from = NoBuild
  <2>1. \A x \in DOMAIN s : s[x].from = NoBuild
    BY DEF Seeds, Node
  <2> QED BY <2>1, SeedsAreATable
<1> HIDE DEF s, N, E
<1>4. Bad = {}
  <2> SUFFICES ASSUME Bad # {} PROVE FALSE
    OBVIOUS
  <2>1. Bad \in SUBSET Nat
    BY <1>1
  <2> HIDE DEF Bad
  <2>2. PICK n \in Bad : \A k \in Bad : n <= k
    BY <2>1, NatMin
  <2> USE DEF Bad
  <2>3. Good(0)
    BY <1>2, <1>3 DEF Alike
  <2>4. n # 0 /\ n \in 1 .. N /\ n - 1 \in 0 .. N /\ n - 1 \notin Bad
    BY <1>1, <2>2, <2>3
  <2>5. Good(n - 1)
    BY <2>4
  <2> DEFINE a == At(c, era, n - 1)
             t == f[n - 1]
             u == f[n]
  <2>6. u = relax(c, t, a) /\ a \in E /\ Rank(c, E, a) = n - 1
    BY <1>2, <2>4
  <2> HIDE DEF a, t, u
  <2>7. /\ IsTable(t, c, cur, era) /\ DOMAIN s \subseteq DOMAIN t
        /\ \A x \in E : n - 1 <= Rank(c, E, x) => Alike(t, s, x)
    BY <2>5 DEF t
  <2>8. \A x \in DOMAIN t : Before(c, a, x) => t[x].from = NoBuild
    <3> SUFFICES ASSUME NEW x \in DOMAIN t, Before(c, a, x) PROVE t[x].from = NoBuild
      OBVIOUS
    <3>1. x \in E /\ n - 1 <= Rank(c, E, x)
      <4>1. x \in E
        BY <2>7 DEF IsTable, E
      <4>2. Rank(c, E, a) < Rank(c, E, x) /\ Rank(c, E, x) \in Nat
        BY <1>1, <2>6, <4>1
      <4> QED BY <1>1, <2>4, <2>6, <4>1, <4>2
    <3>2. Alike(t, s, x)
      BY <2>7, <3>1
    <3> QED BY <1>3, <3>2 DEF Alike
  <2>9. IsTable(u, c, cur, era)
    BY <2>6, <2>7, <2>8, RelaxKeepsATable DEF E
  <2>10. DOMAIN t \subseteq DOMAIN u /\ \A x : x # a => Alike(u, t, x)
    <3>1. a \in DOMAIN c /\ \A x \in DOMAIN t : t[x].cost \in Nat
      BY <2>6, <2>7 DEF IsTable, Era, E
    <3>2. IsTurn(c, t, a, u)
      BY <2>6, <3>1, RelaxIsATurn
    <3> QED BY <3>2 DEF IsTurn
  <2>11. ASSUME NEW x \in E, n <= Rank(c, E, x) PROVE Alike(u, s, x)
    <3>1. Rank(c, E, x) \in Nat /\ x # a /\ n - 1 <= Rank(c, E, x)
      BY <1>1, <2>4, <2>6, <2>11
    <3>2. Alike(u, t, x) /\ Alike(t, s, x)
      BY <2>7, <2>10, <3>1
    <3> QED BY <3>2 DEF Alike
  <2>12. Good(n)
    BY <2>7, <2>9, <2>10, <2>11 DEF u
  <2> QED BY <2>2, <2>12
<1>5. m \in 0 .. N
  BY DEF N, E
<1>6. Good(m)
  BY <1>4, <1>5
<1> QED BY <1>6 DEF s, E

\* A set of builds of an epoch of which each is a seed, or one patch away from an
\* earlier one of the set.
InOrder(c, cur, era, S) ==
  /\ S \subseteq Era(c, era)
  /\ \A x \in S : \/ x \in DOMAIN Seeds(c, cur, era)
                  \/ \E o \in S \cap DOMAIN routes(c[x]) : Before(c, o, x)

\* The table the whole sweep makes.  One turn for each build, in catalog order,
\* reaches all that seeds and patches lead on to.
LEMMA SweepIsATable ==
  ASSUME NEW ids \in SUBSET (Nat \ {NoBuild}), NEW c, IsCatalog(c, ids), Ordered(c),
         IsFiniteSet(DOMAIN c), NEW cur, NEW era, NEW S, InOrder(c, cur, era, S)
  PROVE  IsTable(sweep(c, cur, era), c, cur, era) /\ S \subseteq DOMAIN sweep(c, cur, era)
<1> DEFINE E == Era(c, era)
           N == Cardinality(E)
           s == Seeds(c, cur, era)
<1>1. /\ N \in Nat /\ \A x \in E : Rank(c, E, x) \in Nat /\ Rank(c, E, x) < N
      /\ \A x, y \in E : /\ Rank(c, E, x) = Rank(c, E, y) => x = y
                         /\ Before(c, x, y) => Rank(c, E, x) < Rank(c, E, y)
  BY TurnsAreTheirOwn
<1>2. PICK f : IsRun(f, c, cur, era)
  BY SweepRuns
<1>3. /\ f[0] = s /\ f[N] = sweep(c, cur, era)
      /\ \A n \in 1 .. N : /\ f[n] = relax(c, f[n - 1], At(c, era, n - 1))
                           /\ At(c, era, n - 1) \in E /\ Rank(c, E, At(c, era, n - 1)) = n - 1
  BY <1>2 DEF IsRun
<1>4. \A n \in 0 .. N : IsTable(f[n], c, cur, era) /\ DOMAIN s \subseteq DOMAIN f[n]
  BY <1>2, RunKeepsATable
<1>5. S \subseteq E /\ \A x \in S : x \in DOMAIN s \/ \E o \in S \cap DOMAIN routes(c[x]) : Before(c, o, x)
  BY DEF InOrder
<1> HIDE DEF N, E, s
<1> DEFINE Good(n) == \A x \in S : Rank(c, E, x) < n => x \in DOMAIN f[n]
           Bad == {n \in 0 .. N : ~Good(n)}
<1>6. Bad = {}
  <2> SUFFICES ASSUME Bad # {} PROVE FALSE
    OBVIOUS
  <2>1. Bad \in SUBSET Nat
    BY <1>1
  <2> HIDE DEF Bad
  <2>2. PICK n \in Bad : \A m \in Bad : n <= m
    BY <2>1, NatMin
  <2> USE DEF Bad
  <2>3. Good(0)
    <3>1. \A x \in S : ~ (Rank(c, E, x) < 0)
      BY <1>1, <1>5
    <3> QED BY <3>1
  <2>4. n # 0 /\ n \in 1 .. N /\ n - 1 \in 0 .. N /\ n - 1 \notin Bad
    BY <1>1, <2>2, <2>3
  <2>5. Good(n - 1)
    BY <2>4
  <2> DEFINE a == At(c, era, n - 1)
             t == f[n - 1]
             u == f[n]
  <2>6. u = relax(c, t, a) /\ a \in E /\ Rank(c, E, a) = n - 1
    BY <1>3, <2>4
  <2>7. IsTable(t, c, cur, era) /\ DOMAIN s \subseteq DOMAIN u
    BY <1>4, <2>4
  <2>8. \A x \in S : Rank(c, E, x) < n - 1 => x \in DOMAIN t
    BY <2>5
  <2> HIDE DEF a, t, u
  <2>9. /\ DOMAIN t \subseteq DOMAIN u
        /\ DOMAIN routes(c[a]) \cap DOMAIN t # {} => a \in DOMAIN u
    <3>1. a \in DOMAIN c /\ \A x \in DOMAIN t : t[x].cost \in Nat
      BY <2>6, <2>7 DEF IsTable, Era, E
    <3>2. IsTurn(c, t, a, u)
      BY <2>6, <3>1, RelaxIsATurn
    <3> QED BY <3>2 DEF IsTurn
  <2>10. ASSUME NEW x \in S, Rank(c, E, x) < n PROVE x \in DOMAIN u
    <3>1. CASE Rank(c, E, x) < n - 1
      BY <2>8, <2>9, <3>1
    <3>2. CASE ~ (Rank(c, E, x) < n - 1)
      <4>1. x = a
        <5>1. Rank(c, E, x) = n - 1
          BY <1>1, <1>5, <2>4, <2>10, <3>2
        <5> QED BY <1>1, <1>5, <2>6, <5>1
      <4>2. CASE x \in DOMAIN s
        BY <2>7, <4>2
      <4>3. CASE x \notin DOMAIN s
        <5>1. PICK o \in S \cap DOMAIN routes(c[x]) : Before(c, o, x)
          BY <1>5, <4>3
        <5>2. Rank(c, E, o) < Rank(c, E, x)
          BY <1>1, <1>5, <5>1
        <5>3. o \in DOMAIN t
          BY <2>6, <2>8, <4>1, <5>1, <5>2
        <5> QED BY <2>9, <4>1, <5>1, <5>3
      <4> QED BY <4>2, <4>3
    <3> QED BY <3>1, <3>2
  <2>11. Good(n)
    BY <2>10 DEF u
  <2> QED BY <2>2, <2>11
<1>7. Good(N) /\ IsTable(f[N], c, cur, era)
  BY <1>1, <1>4, <1>6
<1> QED BY <1>1, <1>3, <1>5, <1>7

----------------------------------------------------------------------------
\* The way back after each of its first k steps.
IsWayBack(w, b, id, k) ==
  w = [n \in 0 .. k |-> IF n = 0 THEN <<id>>
                        ELSE LET soFar == w[n - 1]
                                 prev  == b[Head(soFar)].from
                             IN  IF prev = NoBuild THEN soFar ELSE <<prev>> \o soFar]

\* The way back is a recursion over its steps, and such a function exists.
LEMMA WayBackExists ==
  ASSUME NEW b, NEW id, NEW N \in Nat
  PROVE  \E w : IsWayBack(w, b, id, N)
<1> DEFINE Next1(s) == IF b[Head(s)].from = NoBuild THEN s ELSE <<b[Head(s)].from>> \o s
           Bad == {k \in Nat : ~ \E w : IsWayBack(w, b, id, k)}
<1>1. \A w, k : IsWayBack(w, b, id, k) <=>
                  w = [n \in 0 .. k |-> IF n = 0 THEN <<id>> ELSE Next1(w[n - 1])]
  BY DEF IsWayBack
<1> SUFFICES ASSUME Bad # {} PROVE FALSE
  OBVIOUS
<1>2. PICK k \in Bad : \A j \in Bad : k <= j
  BY NatMin
<1> HIDE DEF Next1
<1>3. CASE k = 0
  <2> DEFINE g == [n \in 0 .. 0 |-> IF n = 0 THEN <<id>> ELSE Next1(<<>>)]
             h == [n \in 0 .. 0 |-> IF n = 0 THEN <<id>> ELSE Next1(g[n - 1])]
  <2>1. g = h
    OBVIOUS
  <2>2. IsWayBack(g, b, id, 0)
    BY <1>1, <2>1
  <2> QED BY <1>2, <1>3, <2>2
<1>4. CASE k # 0
  <2>1. k - 1 \in Nat /\ k - 1 \notin Bad
    BY <1>2, <1>4
  <2>2. PICK w : IsWayBack(w, b, id, k - 1)
    BY <2>1
  <2> DEFINE g == [n \in 0 .. k |-> IF n = k THEN Next1(w[k - 1]) ELSE w[n]]
             h == [n \in 0 .. k |-> IF n = 0 THEN <<id>> ELSE Next1(g[n - 1])]
  <2>3. ASSUME NEW n \in 0 .. k PROVE g[n] = h[n]
    <3>1. CASE n = k
      <4>1. k - 1 \in 0 .. k /\ g[k - 1] = w[k - 1]
        BY <1>2, <1>4
      <4> QED BY <1>4, <3>1, <4>1
    <3>2. CASE n # k
      <4>1. n \in 0 .. k - 1
        BY <1>2, <3>2
      <4>2. w[n] = IF n = 0 THEN <<id>> ELSE Next1(w[n - 1])
        <5>1. w = [m \in 0 .. k - 1 |-> IF m = 0 THEN <<id>> ELSE Next1(w[m - 1])]
          BY <1>1, <2>2
        <5> QED BY <4>1, <5>1
      <4>3. n # 0 => n - 1 \in 0 .. k /\ g[n - 1] = w[n - 1]
        BY <1>2, <3>2, <4>1
      <4> QED BY <1>2, <3>2, <4>2, <4>3
    <3> QED BY <3>1, <3>2
  <2>4. g = h
    BY <2>3
  <2>5. IsWayBack(g, b, id, k)
    BY <1>1, <2>4
  <2> QED BY <1>2, <2>5
<1> QED BY <1>3, <1>4

\* Of two builds of a table the one that is nearer to a start: it costs less, or the
\* same and only it is a start, or the same and it comes before.
Nearer(c, b, x, y) ==
  \/ b[x].cost < b[y].cost
  \/ /\ b[x].cost = b[y].cost
     /\ \/ b[x].from = NoBuild /\ b[y].from # NoBuild
        \/ (b[x].from = NoBuild <=> b[y].from = NoBuild) /\ Before(c, x, y)

\* How many builds of a table are nearer than x.
Depth(c, b, x) == Cardinality({o \in DOMAIN b : Nearer(c, b, o, x)})

\* Of two builds the nearer has fewer that are nearer still, and no build has all.
LEMMA DepthGrows ==
  ASSUME NEW c, Ordered(c), NEW b, DOMAIN b \subseteq DOMAIN c, IsFiniteSet(DOMAIN b),
         \A x \in DOMAIN b : b[x].cost \in Nat, NEW a \in DOMAIN b
  PROVE  /\ Depth(c, b, a) \in Nat /\ Depth(c, b, a) < Cardinality(DOMAIN b)
         /\ \A x \in DOMAIN b : Nearer(c, b, a, x) => Depth(c, b, a) < Depth(c, b, x)
<1> DEFINE S == DOMAIN b
           Prec(x) == {o \in S : Nearer(c, b, o, x)}
<1>1. ~Nearer(c, b, a, a)
  BY DEF Nearer, Ordered, Before
<1>2. \A x, y \in S : Nearer(c, b, x, a) /\ Nearer(c, b, a, y) => Nearer(c, b, x, y)
  <2> SUFFICES ASSUME NEW x \in S, NEW y \in S, Nearer(c, b, x, a), Nearer(c, b, a, y)
               PROVE  Nearer(c, b, x, y)
    OBVIOUS
  <2>1. b[x].cost \in Nat /\ b[a].cost \in Nat /\ b[y].cost \in Nat
    OBVIOUS
  <2>2. Before(c, x, a) /\ Before(c, a, y) => Before(c, x, y)
    BY BeforeIsTransitive
  <2> QED BY <2>1, <2>2 DEF Nearer
<1> HIDE DEF S
<1>3. IsFiniteSet(S \ {a}) /\ Cardinality(S \ {a}) = Cardinality(S) - 1
      /\ Cardinality(S) \in Nat
  BY FS_RemoveElement, FS_CardinalityType DEF S
<1>4. Prec(a) \subseteq S \ {a}
  BY <1>1
<1>5. /\ IsFiniteSet(Prec(a)) /\ Cardinality(Prec(a)) \in Nat
      /\ Cardinality(Prec(a)) <= Cardinality(S \ {a})
  BY <1>3, <1>4, FS_Subset, FS_CardinalityType
<1>6. Depth(c, b, a) \in Nat /\ Depth(c, b, a) < Cardinality(S)
  BY <1>3, <1>5 DEF Depth, S
<1>7. ASSUME NEW x \in S, Nearer(c, b, a, x)
      PROVE  Depth(c, b, a) < Depth(c, b, x)
  <2>1. Prec(a) \cup {a} \subseteq Prec(x)
    BY <1>2, <1>7 DEF S
  <2>2. IsFiniteSet(Prec(x))
    BY FS_Subset DEF S
  <2>3. a \notin Prec(a)
    BY <1>1
  <2>4. Cardinality(Prec(a) \cup {a}) = Cardinality(Prec(a)) + 1
    BY <1>5, <2>3, FS_AddElement
  <2>5. Cardinality(Prec(a) \cup {a}) <= Cardinality(Prec(x)) /\ Cardinality(Prec(x)) \in Nat
    BY <2>1, <2>2, FS_Subset, FS_CardinalityType
  <2> HIDE DEF Prec
  <2>6. Cardinality(Prec(a)) < Cardinality(Prec(x))
    BY <1>5, <2>4, <2>5
  <2> QED BY <2>6 DEF Depth, Prec, S
<1> QED BY <1>6, <1>7 DEF S

\* A path through a table: it ends at id, and each build of it is the one the
\* next was reached from.
IsPath(p, b, id) ==
  /\ p \in Seq(DOMAIN b) /\ Len(p) > 0 /\ p[Len(p)] = id
  /\ \A i \in 1 .. Len(p) - 1 : p[i] = b[p[i + 1]].from

\* The way back from a build of the table is a path to it from a start.
LEMMA WayBackIsAPath ==
  ASSUME NEW ids \in SUBSET (Nat \ {NoBuild}), NEW c, IsCatalog(c, ids), Ordered(c),
         IsFiniteSet(DOMAIN c), NEW cur, NEW era,
         NEW b, IsTable(b, c, cur, era), NEW id \in DOMAIN b
  PROVE  IsPath(walkBack(b, id), b, id) /\ b[walkBack(b, id)[1]].from = NoBuild
<1> DEFINE D == DOMAIN b
           N == Cardinality(D)
           w == CHOOSE g : IsWayBack(g, b, id, N)
<1>1. D \subseteq DOMAIN c /\ IsFiniteSet(D) /\ N \in Nat
  BY FS_Subset, FS_CardinalityType DEF IsTable, Era
<1>2. walkBack(b, id) = w[N]
  BY DEF walkBack, IsWayBack
<1>3. IsWayBack(w, b, id, N)
  BY <1>1, WayBackExists
<1> HIDE DEF w
<1>4. /\ w[0] = <<id>>
      /\ \A n \in 1 .. N : w[n] = IF b[Head(w[n - 1])].from = NoBuild THEN w[n - 1]
                                  ELSE <<b[Head(w[n - 1])].from>> \o w[n - 1]
  <2> DEFINE Next1(s) == IF b[Head(s)].from = NoBuild THEN s ELSE <<b[Head(s)].from>> \o s
  <2>1. w = [n \in 0 .. N |-> IF n = 0 THEN <<id>> ELSE Next1(w[n - 1])]
    BY <1>3 DEF IsWayBack
  <2> HIDE DEF Next1, N
  <2>2. w[0] = <<id>> /\ \A n \in 1 .. N : w[n] = Next1(w[n - 1])
    BY <1>1, <2>1
  <2> QED BY <2>2 DEF Next1
<1>5. \A x \in D : Depth(c, b, x) \in Nat /\ Depth(c, b, x) < N
  BY <1>1, DepthGrows DEF IsTable
<1>6. ASSUME NEW x \in D, b[x].from # NoBuild
      PROVE  b[x].from \in D /\ Depth(c, b, b[x].from) < Depth(c, b, x)
  <2> DEFINE g == b[x].from
  <2>1. /\ g \in D /\ b[g].cost <= b[x].cost
        /\ b[g].cost = b[x].cost => b[g].from = NoBuild \/ Before(c, g, x)
    BY <1>6 DEF IsTable
  <2>2. b[g].cost \in Nat /\ b[x].cost \in Nat
    BY <2>1 DEF IsTable
  <2>3. Nearer(c, b, g, x)
    BY <1>6, <2>1, <2>2 DEF Nearer
  <2> HIDE DEF g
  <2>4. Depth(c, b, g) < Depth(c, b, x)
    BY <1>1, <2>1, <2>3, DepthGrows DEF IsTable
  <2> QED BY <2>1, <2>4 DEF g
<1> HIDE DEF N
<1> DEFINE Good(n) == /\ IsPath(w[n], b, id)
                      /\ \/ b[w[n][1]].from = NoBuild
                         \/ Depth(c, b, w[n][1]) + n <= Depth(c, b, id)
           Bad == {n \in 0 .. N : ~Good(n)}
<1>7. Bad = {}
  <2> SUFFICES ASSUME Bad # {} PROVE FALSE
    OBVIOUS
  <2>1. Bad \in SUBSET Nat
    BY <1>1
  <2> HIDE DEF Bad
  <2>2. PICK n \in Bad : \A m \in Bad : n <= m
    BY <2>1, NatMin
  <2> USE DEF Bad
  <2>3. Good(0)
    <3>1. w[0] = <<id>> /\ w[0][1] = id /\ Len(w[0]) = 1 /\ w[0] \in Seq(D)
      BY <1>4
    <3> QED BY <1>5, <3>1 DEF IsPath
  <2>4. n # 0 /\ n \in 1 .. N /\ n - 1 \in 0 .. N /\ n - 1 \notin Bad
    BY <1>1, <2>2, <2>3
  <2> DEFINE p == w[n - 1]
  <2>5. Good(n - 1)
    BY <2>4
  <2>6. p \in Seq(D) /\ Len(p) \in Nat \ {0} /\ Head(p) = p[1] /\ p[1] \in D
    BY <2>5 DEF IsPath
  <2>7. CASE b[p[1]].from = NoBuild
    <3>1. w[n] = p
      BY <1>4, <2>4, <2>6, <2>7
    <3>2. Good(n)
      BY <2>5, <2>7, <3>1
    <3> QED BY <2>2, <3>2
  <2>8. CASE b[p[1]].from # NoBuild
    <3> DEFINE q == b[p[1]].from
    <3>1. q \in D /\ Depth(c, b, q) < Depth(c, b, p[1])
      BY <1>6, <2>6, <2>8
    <3>2. w[n] = <<q>> \o p
      BY <1>4, <2>4, <2>6, <2>8
    <3>3. IsPath(p, b, id) /\ Depth(c, b, p[1]) + (n - 1) <= Depth(c, b, id)
      BY <2>5, <2>8
    <3>4. \A x \in D : b[x] = b[x]
      OBVIOUS
    <3> HIDE DEF p
    <3>5. /\ w[n] \in Seq(D) /\ Len(w[n]) = Len(p) + 1 /\ w[n][1] = q
          /\ \A i \in 1 .. Len(p) : w[n][i + 1] = p[i]
      BY <2>6, <3>1, <3>2
    <3>6. IsPath(w[n], b, id)
      <4>1. w[n][Len(w[n])] = id
        <5>1. Len(p) \in 1 .. Len(p) /\ p[Len(p)] = id
          BY <2>6, <3>3 DEF IsPath
        <5>2. w[n][Len(p) + 1] = p[Len(p)]
          BY <3>5, <5>1
        <5> QED BY <3>5, <5>1, <5>2
      <4>2. ASSUME NEW i \in 1 .. Len(w[n]) - 1 PROVE w[n][i] = b[w[n][i + 1]].from
        <5>1. CASE i = 1
          BY <2>6, <3>5, <5>1
        <5>2. CASE i # 1
          <6>1. i - 1 \in 1 .. Len(p) - 1 /\ (i - 1) + 1 = i
            BY <2>6, <3>5, <5>2
          <6>2. p[i - 1] = b[p[(i - 1) + 1]].from
            BY <3>3, <6>1 DEF IsPath
          <6>3. i - 1 \in 1 .. Len(p) /\ i \in 1 .. Len(p)
            BY <2>6, <6>1
          <6>4. w[n][(i - 1) + 1] = p[i - 1] /\ w[n][i + 1] = p[i]
            BY <3>5, <6>3
          <6> QED BY <6>1, <6>2, <6>4
        <5> QED BY <5>1, <5>2
      <4> QED BY <2>6, <3>5, <4>1, <4>2 DEF IsPath
    <3>7. Depth(c, b, w[n][1]) + n <= Depth(c, b, id)
      <4>1. Depth(c, b, q) \in Nat /\ Depth(c, b, p[1]) \in Nat /\ Depth(c, b, id) \in Nat /\ n \in Nat
        BY <1>5, <2>1, <2>6, <3>1
      <4> QED BY <3>1, <3>3, <3>5, <4>1
    <3>8. Good(n)
      BY <3>6, <3>7
    <3> QED BY <2>2, <3>8
  <2> QED BY <2>7, <2>8
<1>8. Good(N)
  BY <1>1, <1>7
<1>9. w[N][1] \in D
  BY <1>8 DEF IsPath
<1>10. ~ (Depth(c, b, w[N][1]) + N <= Depth(c, b, id))
  BY <1>1, <1>5, <1>9
<1> QED BY <1>2, <1>8, <1>10

----------------------------------------------------------------------------
\* A road to target for a consumer that holds cur: it starts at the held build or
\* at the full to download, its patches apply one to what the other left, it ends
\* at target, and it never leaves the epoch.
IsRoad(c, cur, target, r) ==
  LET s == r.steps
      n == Len(s)
  IN  /\ s \in Seq([id: DOMAIN c, from: DOMAIN c])
      /\ n \in Nat /\ (n = 0 <=> s = <<>>)
      /\ r.start = IF r.seed = NoBuild THEN cur ELSE r.seed
      /\ r.start \in DOMAIN c
      /\ r.seed # NoBuild => c[r.seed].kind = "full"
      /\ target = IF n = 0 THEN r.start ELSE s[n].id
      /\ \A i \in 1 .. n :
           /\ s[i].from = IF i = 1 THEN r.start ELSE s[i - 1].id
           /\ s[i].id \in DOMAIN c /\ s[i].from \in DOMAIN routes(c[s[i].id])
           /\ c[s[i].id].epoch = c[target].epoch /\ c[s[i].from].epoch = c[target].epoch

\* The roads cheapest returns are roads; and it returns one whenever the target is
\* in a set of builds linked to a seed.
THEOREM CheapestIsARoad ==
  ASSUME NEW ids \in SUBSET (Nat \ {NoBuild}), NEW c, IsCatalog(c, ids), Ordered(c),
         IsFiniteSet(DOMAIN c), NEW cur, NEW target \in DOMAIN c,
         NEW S, InOrder(c, cur, c[target].epoch, S)
  PROVE  LET r == cheapest(c, cur, target)
         IN  /\ r.found => IsRoad(c, cur, target, r)
             /\ target \in S => r.found
             /\ ~r.found => r = NoRoute
<1> DEFINE era == c[target].epoch
           b == sweep(c, cur, era)
           p == walkBack(b, target)
           n == Len(p) - 1
           s == [i \in 1 .. n |-> [id |-> p[i + 1], from |-> p[i]]]
           r == [found |-> TRUE, seed |-> b[Head(p)].seed, start |-> Head(p), steps |-> s,
                 cost |-> b[target].cost]
<1>1. cheapest(c, cur, target) = IF target \notin DOMAIN b THEN NoRoute ELSE r
  BY DEF cheapest, Listed
<1>2. IsTable(b, c, cur, era) /\ S \subseteq DOMAIN b
  BY SweepIsATable
<1>3. CASE target \notin DOMAIN b
  BY <1>1, <1>2, <1>3 DEF NoRoute
<1>4. CASE target \in DOMAIN b
  <2> HIDE DEF b
  <2>1. IsPath(p, b, target) /\ b[p[1]].from = NoBuild
    BY <1>2, <1>4, WayBackIsAPath
  <2> HIDE DEF p
  <2>2. /\ p \in Seq(DOMAIN b) /\ n \in Nat /\ Len(p) = n + 1 /\ Head(p) = p[1]
        /\ p[n + 1] = target /\ \A i \in 1 .. n + 1 : p[i] \in DOMAIN b
    BY <2>1 DEF IsPath
  <2>3. s \in Seq([id: DOMAIN c, from: DOMAIN c]) /\ Len(s) = n
    <3>1. \A i \in 1 .. n + 1 : p[i] \in DOMAIN c
      BY <1>2, <2>2 DEF IsTable, Era
    <3> QED BY <2>2, <3>1
  <2>4. \A x \in DOMAIN b : x \in DOMAIN c /\ c[x].epoch = era /\ x # NoBuild
    BY <1>2 DEF IsTable, Era, IsCatalog
  <2>5. ASSUME NEW i \in 1 .. n PROVE p[i] \in DOMAIN routes(c[p[i + 1]])
    <3>1. p[i + 1] \in DOMAIN b /\ p[i] \in DOMAIN b /\ p[i] = b[p[i + 1]].from
      BY <2>1, <2>2 DEF IsPath
    <3> QED BY <1>2, <2>4, <3>1 DEF IsTable
  <2>6. \A i \in 1 .. n : s[i].id = p[i + 1] /\ s[i].from = p[i]
    OBVIOUS
  <2> HIDE DEF n, s
  <2>7. /\ r.found /\ r.steps = s /\ r.start = p[1] /\ r.seed = b[p[1]].seed
        /\ p[1] \in DOMAIN b
    BY <2>2
  <2> HIDE DEF r
  <2>8. /\ p[1] = IF r.seed = NoBuild THEN cur ELSE r.seed
        /\ r.seed # NoBuild => c[r.seed].kind = "full"
    BY <1>2, <2>1, <2>7 DEF IsTable
  <2>9. ASSUME NEW i \in 1 .. n
        PROVE  /\ s[i].from = IF i = 1 THEN p[1] ELSE s[i - 1].id
               /\ s[i].id \in DOMAIN c /\ s[i].from \in DOMAIN routes(c[s[i].id])
               /\ c[s[i].id].epoch = era /\ c[s[i].from].epoch = era
    <3>1. s[i].id = p[i + 1] /\ s[i].from = p[i] /\ p[i] \in DOMAIN b /\ p[i + 1] \in DOMAIN b
      BY <2>2, <2>6
    <3>2. i # 1 => s[i - 1].id = p[i]
      <4>1. i # 1 => i - 1 \in 1 .. n /\ (i - 1) + 1 = i
        BY <2>2
      <4> QED BY <2>6, <4>1
    <3> QED BY <2>4, <2>5, <3>1, <3>2
  <2>10. target = IF n = 0 THEN p[1] ELSE s[n].id
    BY <2>2, <2>6
  <2>11. n = 0 <=> s = <<>>
    BY <2>3
  <2>12. IsRoad(c, cur, target, r)
    <3>1. /\ n \in Nat /\ Len(s) = n /\ (n = 0 <=> s = <<>>) /\ p[1] \in DOMAIN c
      BY <2>2, <2>3, <2>4, <2>7, <2>11
    <3>2. \A i \in 1 .. n :
            /\ s[i].from = IF i = 1 THEN p[1] ELSE s[i - 1].id
            /\ s[i].id \in DOMAIN c /\ s[i].from \in DOMAIN routes(c[s[i].id])
            /\ c[s[i].id].epoch = c[target].epoch /\ c[s[i].from].epoch = c[target].epoch
      BY <2>9
    <3>3. r.steps = s /\ r.start = p[1]
      BY <2>7
    <3> HIDE DEF era
    <3> QED BY <2>8, <2>10, <2>3, <3>1, <3>2, <3>3, Zenon DEF IsRoad
  <2>13. cheapest(c, cur, target) = r
    BY <1>1, <1>4
  <2> QED BY <2>7, <2>12, <2>13
<1> QED BY <1>3, <1>4

----------------------------------------------------------------------------
(* What a road costs *)

\* What is known of build x in table t is no worse than starting there, nor than a
\* patch from any build of the table that comes before it.
Settled(c, cur, era, t, x) ==
  LET seeds == Seeds(c, cur, era)
      in    == routes(c[x])
  IN  /\ x \in DOMAIN seeds => x \in DOMAIN t /\ t[x].cost <= seeds[x].cost
      /\ \A g \in DOMAIN in \cap DOMAIN t :
           Before(c, g, x) => x \in DOMAIN t /\ t[x].cost <= t[g].cost + in[g]

\* A turn settles its build, if that build was not touched since the seeds.
LEMMA RelaxSettles ==
  ASSUME NEW ids \in SUBSET (Nat \ {NoBuild}), NEW c, IsCatalog(c, ids), Ordered(c), NEW cur, NEW era,
         NEW b, IsTable(b, c, cur, era), NEW id \in Era(c, era), Alike(b, Seeds(c, cur, era), id)
  PROVE  Settled(c, cur, era, relax(c, b, id), id)
<1> DEFINE in    == routes(c[id])
           from  == DOMAIN in \cap DOMAIN b
           seeds == Seeds(c, cur, era)
           t     == relax(c, b, id)
<1>1. id \in DOMAIN c /\ \A x \in DOMAIN b : b[x].cost \in Nat
  BY DEF Era, IsTable
<1>2. /\ \A g \in from : b[g].cost \in Nat /\ in[g] \in Nat
      /\ \/ t = b /\ \A g \in from : id \in DOMAIN b /\ b[id].cost <= b[g].cost + in[g]
         \/ /\ DOMAIN t = DOMAIN b \cup {id} /\ \A x \in DOMAIN b \ {id} : t[x] = b[x]
            /\ \E f \in from : /\ t[id] = Node(b[f].cost + in[f], f, NoBuild)
                               /\ id \in DOMAIN b => b[f].cost + in[f] < b[id].cost
                               /\ \A g \in from : b[f].cost + in[f] <= b[g].cost + in[g]
  <2>1. IsTurn(c, b, id, t)
    BY <1>1, RelaxIsATurn
  <2> QED BY <2>1 DEF IsTurn
<1>3. id \in DOMAIN seeds => id \in DOMAIN b /\ b[id].cost = seeds[id].cost /\ b[id].cost \in Nat
  BY <1>1 DEF Alike
<1>4. ~Before(c, id, id)
  BY <1>1 DEF Ordered, Before
<1> HIDE DEF t, seeds
<1>5. CASE t = b /\ \A g \in from : id \in DOMAIN b /\ b[id].cost <= b[g].cost + in[g]
  <2>1. id \in DOMAIN seeds => id \in DOMAIN t /\ t[id].cost <= seeds[id].cost
    BY <1>3, <1>5
  <2>2. \A g \in DOMAIN in \cap DOMAIN t : id \in DOMAIN t /\ t[id].cost <= t[g].cost + in[g]
    BY <1>5
  <2> QED BY <2>1, <2>2 DEF Settled, t, seeds
<1>6. CASE ~(t = b /\ \A g \in from : id \in DOMAIN b /\ b[id].cost <= b[g].cost + in[g])
  <2>1. DOMAIN t = DOMAIN b \cup {id} /\ \A x \in DOMAIN b \ {id} : t[x] = b[x]
    BY <1>2, <1>6
  <2>2. PICK f \in from : /\ t[id] = Node(b[f].cost + in[f], f, NoBuild)
                          /\ id \in DOMAIN b => b[f].cost + in[f] < b[id].cost
                          /\ \A g \in from : b[f].cost + in[f] <= b[g].cost + in[g]
    BY <1>2, <1>6
  <2>3. t[id].cost = b[f].cost + in[f] /\ id \in DOMAIN t
    BY <2>1, <2>2 DEF Node
  <2>4. id \in DOMAIN seeds => t[id].cost <= seeds[id].cost
    BY <1>2, <1>3, <2>2, <2>3
  <2>5. ASSUME NEW g \in DOMAIN in \cap DOMAIN t, Before(c, g, id)
        PROVE  t[id].cost <= t[g].cost + in[g]
    <3>1. g # id /\ g \in from /\ t[g] = b[g]
      BY <1>4, <2>1, <2>5
    <3> QED BY <2>2, <2>3, <3>1
  <2> QED BY <2>3, <2>4, <2>5 DEF Settled, t, seeds
<1> QED BY <1>5, <1>6

\* A settled build stays settled while it and the builds before it stay as they are.
LEMMA SettledStays ==
  ASSUME NEW c, NEW cur, NEW era, NEW t, NEW u, NEW x, Settled(c, cur, era, t, x), Alike(u, t, x),
         \A g \in DOMAIN routes(c[x]) :
           g \in DOMAIN t \cup DOMAIN u /\ Before(c, g, x) => Alike(u, t, g)
  PROVE  Settled(c, cur, era, u, x)
<1>1. ASSUME NEW g \in DOMAIN routes(c[x]) \cap DOMAIN u, Before(c, g, x)
      PROVE  g \in DOMAIN t /\ u[g] = t[g]
  BY <1>1 DEF Alike
<1> QED BY <1>1 DEF Settled, Alike

\* One sweep settles every build of the epoch: when a build has its turn, the
\* builds before it have had theirs.
THEOREM SweepSettles ==
  ASSUME NEW ids \in SUBSET (Nat \ {NoBuild}), NEW c, IsCatalog(c, ids), Ordered(c),
         IsFiniteSet(DOMAIN c), NEW cur, NEW era
  PROVE  /\ IsTable(sweep(c, cur, era), c, cur, era)
         /\ \A x \in Era(c, era) : Settled(c, cur, era, sweep(c, cur, era), x)
<1> DEFINE E == Era(c, era)
           N == Cardinality(E)
           s == Seeds(c, cur, era)
<1>1. /\ N \in Nat /\ \A x \in E : Rank(c, E, x) \in Nat /\ Rank(c, E, x) < N
      /\ \A x, y \in E : /\ Rank(c, E, x) = Rank(c, E, y) => x = y
                         /\ Before(c, x, y) => Rank(c, E, x) < Rank(c, E, y)
  BY TurnsAreTheirOwn
<1>2. PICK f : IsRun(f, c, cur, era)
  BY SweepRuns
<1>3. /\ f[N] = sweep(c, cur, era)
      /\ \A n \in 1 .. N : /\ f[n] = relax(c, f[n - 1], At(c, era, n - 1))
                           /\ At(c, era, n - 1) \in E /\ Rank(c, E, At(c, era, n - 1)) = n - 1
  BY <1>2 DEF IsRun
<1>4. \A n \in 0 .. N : /\ IsTable(f[n], c, cur, era)
                        /\ \A x \in E : n <= Rank(c, E, x) => Alike(f[n], s, x)
  BY <1>2, RunKeepsATable
<1> HIDE DEF N, E, s
<1> DEFINE Good(n) == \A x \in E : Rank(c, E, x) < n => Settled(c, cur, era, f[n], x)
           Bad == {n \in 0 .. N : ~Good(n)}
<1>5. Bad = {}
  <2> SUFFICES ASSUME Bad # {} PROVE FALSE
    OBVIOUS
  <2>1. Bad \in SUBSET Nat
    BY <1>1
  <2> HIDE DEF Bad
  <2>2. PICK n \in Bad : \A m \in Bad : n <= m
    BY <2>1, NatMin
  <2> USE DEF Bad
  <2>3. Good(0)
    <3>1. \A x \in E : ~ (Rank(c, E, x) < 0)
      BY <1>1
    <3> QED BY <3>1
  <2>4. n # 0 /\ n \in 1 .. N /\ n - 1 \in 0 .. N /\ n - 1 \notin Bad
    BY <1>1, <2>2, <2>3
  <2>5. Good(n - 1)
    BY <2>4
  <2> DEFINE a == At(c, era, n - 1)
             t == f[n - 1]
             u == f[n]
  <2>6. u = relax(c, t, a) /\ a \in E /\ Rank(c, E, a) = n - 1
    BY <1>3, <2>4
  <2>7. IsTable(t, c, cur, era) /\ IsTable(u, c, cur, era) /\ Alike(t, s, a)
    BY <1>1, <1>4, <2>4, <2>6
  <2>8. \A x \in E : Rank(c, E, x) < n - 1 => Settled(c, cur, era, t, x)
    BY <2>5
  <2> HIDE DEF a, t, u
  <2>9. Settled(c, cur, era, u, a)
    BY <2>6, <2>7, RelaxSettles DEF E, s
  <2>10. \A x : x # a => Alike(u, t, x)
    <3>1. a \in DOMAIN c /\ \A x \in DOMAIN t : t[x].cost \in Nat
      BY <2>6, <2>7 DEF IsTable, Era, E
    <3>2. IsTurn(c, t, a, u)
      BY <2>6, <3>1, RelaxIsATurn
    <3> QED BY <3>2 DEF IsTurn
  <2>11. ASSUME NEW x \in E, Rank(c, E, x) < n PROVE Settled(c, cur, era, u, x)
    <3>0. Rank(c, E, x) \in Nat /\ n \in Nat \ {0}
      BY <1>1, <2>4
    <3>1. CASE x = a
      BY <2>9, <3>1
    <3>2. CASE x # a
      <4>1. Rank(c, E, x) # n - 1
        BY <1>1, <2>6, <3>2
      <4>2. Rank(c, E, x) < n - 1
        BY <2>11, <3>0, <4>1
      <4>3. Settled(c, cur, era, t, x) /\ Alike(u, t, x)
        BY <2>8, <2>10, <3>2, <4>2
      <4>4. ASSUME NEW g \in DOMAIN routes(c[x]), g \in DOMAIN t \cup DOMAIN u, Before(c, g, x)
            PROVE  Alike(u, t, g)
        <5>1. g \in E
          BY <2>7, <4>4 DEF IsTable, E
        <5>2. Rank(c, E, g) < Rank(c, E, x) /\ Rank(c, E, g) \in Nat
          BY <1>1, <4>4, <5>1
        <5>3. g # a
          BY <2>6, <3>0, <4>2, <5>2
        <5> QED BY <2>10, <5>3
      <4> QED BY <4>3, <4>4, SettledStays
    <3> QED BY <3>1, <3>2
  <2>12. Good(n)
    BY <2>11 DEF u
  <2> QED BY <2>2, <2>12
<1>6. Good(N) /\ IsTable(f[N], c, cur, era)
  BY <1>1, <1>4, <1>5
<1> QED BY <1>1, <1>3, <1>6 DEF E

=============================================================================
