---------------------------- MODULE RoutesProofs ----------------------------
(***************************************************************************)
(* Over any history of publishes and prunes, the road the updater finds to *)
(* the tip can be ridden; while the newest full is in place there is one;  *)
(* and none that takes the builds in catalog order is cheaper.             *)
(*                                                                         *)
(* The first and the last hold of any catalog.  The second rests on an     *)
(* inductive invariant: while the newest full is in place, a chain of      *)
(* listed patches, each leading on in catalog order, runs from it to the   *)
(* tip.  A publish that becomes the tip extends the chain or starts one; a *)
(* full that becomes the newest without becoming the tip is not in place;  *)
(* and pruning stops before the newest full.                               *)
(***************************************************************************)
EXTENDS MCRoutes, CatalogProofs

\* The newest full of catalog c is in place.
InPlace(c) ==
  LET full == LatestFull(c)
  IN  /\ full # NoBuild /\ c[full].epoch = c[Latest(c)].epoch
      /\ Listed(c, c[full].bridgeFrom) => Before(c, c[full].bridgeFrom, full)

\* S holds a chain from the newest full to the tip: its builds are of the tip's epoch,
\* none is older than that full, and each but that full has a route from an earlier one.
IsChain(c, S) ==
  LET full == LatestFull(c)
  IN  /\ S \subseteq DOMAIN c /\ Latest(c) \in S
      /\ \A x \in S : /\ c[x].epoch = c[Latest(c)].epoch
                      /\ \/ x = full
                         \/ /\ Before(c, full, x)
                            /\ \E o \in S \cap DOMAIN routes(c[x]) : Before(c, o, x)

CatInv ==
  /\ IsCatalog(cat, Ids)
  /\ IsFiniteSet(DOMAIN cat)
  /\ \A x \in DOMAIN cat : cat[x].kind = "full" => cat[x].bytes > 0
  /\ DOMAIN cat # {} => LatestFull(cat) # NoBuild
  /\ InPlace(cat) => \E S : IsChain(cat, S)

\* What the proofs read from the typing of the catalog.
LEMMA CatalogFacts ==
  ASSUME NEW c, IsCatalog(c, Ids), IsFiniteSet(DOMAIN c)
  PROVE  /\ Ordered(c) /\ Ids \in SUBSET (Nat \ {NoBuild}) /\ DOMAIN c \subseteq Ids
         /\ \A S \in SUBSET DOMAIN c : HasLast(c, S)
<1>1. Ordered(c) /\ Ids \in SUBSET (Nat \ {NoBuild}) /\ DOMAIN c \subseteq Ids
  BY RoutesAssumption DEF IsCatalog, IsEntry, Ordered
<1>2. ASSUME NEW S \in SUBSET DOMAIN c PROVE HasLast(c, S)
  BY <1>1, FS_Subset, FiniteHasLast
<1> QED BY <1>1, <1>2

\* The newest full is a full, and no full comes after it.
LEMMA LatestFullIsLast ==
  ASSUME NEW c, IsCatalog(c, Ids), IsFiniteSet(DOMAIN c),
         NEW x \in DOMAIN c, c[x].kind = "full"
  PROVE  /\ LatestFull(c) \in DOMAIN c /\ c[LatestFull(c)].kind = "full"
         /\ x = LatestFull(c) \/ Before(c, x, LatestFull(c))
<1> DEFINE S == {id \in DOMAIN c : c[id].kind = "full"}
<1>1. HasLast(c, S) /\ S # {}
  BY CatalogFacts
<1>2. LatestFull(c) \in S /\ \A o \in S \ {LatestFull(c)} : Before(c, o, LatestFull(c))
  BY <1>1, LastOfIsLast DEF LatestFull
<1> QED BY <1>2

\* A full that every other full comes before is the newest, and a newest full there
\* is only where there is a full.
LEMMA LatestFullIs ==
  ASSUME NEW c, IsCatalog(c, Ids), IsFiniteSet(DOMAIN c)
  PROVE  /\ LatestFull(c) # NoBuild =>
              LatestFull(c) \in DOMAIN c /\ c[LatestFull(c)].kind = "full"
         /\ \A x \in DOMAIN c :
              /\ c[x].kind = "full"
              /\ \A o \in DOMAIN c \ {x} : c[o].kind = "full" => Before(c, o, x)
              => LatestFull(c) = x
<1> DEFINE F == {id \in DOMAIN c : c[id].kind = "full"}
<1>1. HasLast(c, F) /\ Ordered(c)
  BY CatalogFacts
<1>2. LatestFull(c) # NoBuild => LatestFull(c) \in F
  BY <1>1, LastOfIsLast DEF LatestFull, LastOf
<1>3. ASSUME NEW x \in DOMAIN c, c[x].kind = "full",
             \A o \in DOMAIN c \ {x} : c[o].kind = "full" => Before(c, o, x)
      PROVE  LatestFull(c) = x
  <2>1. /\ LatestFull(c) \in DOMAIN c /\ c[LatestFull(c)].kind = "full"
        /\ x = LatestFull(c) \/ Before(c, x, LatestFull(c))
    BY <1>3, LatestFullIsLast
  <2> QED BY <1>1, <1>3, <2>1, BeforeIsTotal
<1> QED BY <1>2, <1>3

\* The tip is the last build.
LEMMA TipIsLast ==
  ASSUME NEW c, IsCatalog(c, Ids), IsFiniteSet(DOMAIN c), DOMAIN c # {}
  PROVE  Latest(c) \in DOMAIN c /\ \A x \in DOMAIN c \ {Latest(c)} : Before(c, x, Latest(c))
<1>1. HasLast(c, DOMAIN c)
  BY CatalogFacts
<1> QED BY <1>1, LastOfIsLast DEF Latest

\* The entries a publish writes are entries, with routes from listed builds only.
LEMMA EntriesAreEntries ==
  ASSUME IsCatalog(cat, Ids), IsFiniteSet(DOMAIN cat),
         NEW kind \in Kinds, NEW through \in Nat, NEW epoch \in Nat,
         NEW base \in DOMAIN cat \cup {NoBuild}, NEW edges, NEW bytes \in Nat,
         (edges \in EdgesFrom(base) /\ base # NoBuild) \/ edges = NoEdges
  PROVE  LET e == NewEntry(kind, through, epoch, base, edges, bytes)
         IN  /\ IsEntry(e, Ids) /\ DOMAIN routes(e) \subseteq DOMAIN cat
             /\ base # NoBuild => base \in DOMAIN routes(e)
             /\ e.kind = "full" => e.bridgeFrom = base
<1> DEFINE e == NewEntry(kind, through, epoch, base, edges, bytes)
<1>1. DOMAIN cat \subseteq Ids
  BY DEF IsCatalog
<1>2. /\ edges \in [DOMAIN edges -> Nat] /\ DOMAIN edges \subseteq DOMAIN cat
      /\ \/ DOMAIN edges = {}
         \/ base \in DOMAIN edges /\ base # NoBuild
  <2>1. CASE edges = NoEdges
    BY <2>1 DEF NoEdges
  <2>2. CASE edges \in EdgesFrom(base) /\ base # NoBuild
    <3>1. base \in DOMAIN cat
      BY <2>2
    <3>2. CASE \E p \in PatchPrice : edges = [f \in {base} |-> p]
      BY <2>2, <3>1, <3>2, RoutesAssumption
    <3>3. CASE \E r \in DOMAIN cat \ {base}, p \in PatchPrice, q \in RollupPrice :
                 edges = [f \in {base, r} |-> IF f = base THEN p ELSE q]
      <4>1. PICK r \in DOMAIN cat \ {base}, p \in PatchPrice, q \in RollupPrice :
                   edges = [f \in {base, r} |-> IF f = base THEN p ELSE q]
        BY <3>3
      <4>2. p \in Nat /\ q \in Nat
        BY RoutesAssumption
      <4>3. DOMAIN edges = {base, r} /\ edges \in [{base, r} -> Nat]
        BY <4>1, <4>2
      <4> QED BY <2>2, <3>1, <4>1, <4>3
    <3>4. \/ \E p \in PatchPrice : edges = [f \in {base} |-> p]
          \/ \E r \in DOMAIN cat \ {base}, p \in PatchPrice, q \in RollupPrice :
               edges = [f \in {base, r} |-> IF f = base THEN p ELSE q]
      <4> DEFINE two(r, p, q) == [f \in {base, r} |-> IF f = base THEN p ELSE q]
      <4>1. EdgesFrom(base) =
              {[f \in {base} |-> p] : p \in PatchPrice}
                \cup {two(r, p, q) : r \in DOMAIN cat \ {base}, p \in PatchPrice, q \in RollupPrice}
        BY DEF EdgesFrom
      <4> HIDE DEF two
      <4>2. \/ \E p \in PatchPrice : edges = [f \in {base} |-> p]
            \/ \E r \in DOMAIN cat \ {base}, p \in PatchPrice, q \in RollupPrice : edges = two(r, p, q)
        BY <2>2, <4>1
      <4> QED BY <4>2 DEF two
    <3> QED BY <3>2, <3>3, <3>4
  <2> QED BY <2>1, <2>2
<1>3. /\ e.kind = kind /\ e.edges = edges
      /\ e.parent = IF kind = "daily" THEN base ELSE NoBuild
      /\ e.bridgeFrom = IF kind = "full" THEN base ELSE NoBuild
  BY DEF NewEntry
<1>4. IsEntry(e, Ids) /\ (e.kind = "full" => e.bridgeFrom = base)
  BY <1>1, <1>2, <1>3 DEF IsEntry, NewEntry
<1>5. (IF e.kind = "full" THEN e.bridgeFrom ELSE e.parent) = base
  BY <1>3 DEF Kinds
<1> HIDE DEF e
<1>6. routes(e) = IF DOMAIN edges # {} THEN edges ELSE [f \in {base} \ {NoBuild} |-> 0]
  BY <1>3, <1>5 DEF routes
<1>7. DOMAIN routes(e) \subseteq DOMAIN cat /\ (base # NoBuild => base \in DOMAIN routes(e))
  <2>1. CASE DOMAIN edges # {}
    BY <1>2, <1>6, <2>1
  <2>2. CASE DOMAIN edges = {}
    BY <1>6, <2>2
  <2> QED BY <2>1, <2>2
<1> QED BY <1>4, <1>7 DEF e

\* A publish keeps the invariant: it continues the tip with a route from it, or it is
\* a full that opens an epoch.
LEMMA PutKeepsCatInv ==
  ASSUME CatInv, NEW id \in Ids, NEW e, Put(id, e), IsEntry(e, Ids), e.kind = "full" => e.bytes > 0,
         \/ /\ DOMAIN cat # {} /\ e.epoch = tipEpoch /\ tip \in DOMAIN routes(e)
            /\ e.kind = "full" => e.bridgeFrom = tip
         \/ e.kind = "full" /\ (DOMAIN cat # {} => e.epoch # tipEpoch)
  PROVE  CatInv'
<1> DEFINE full == LatestFull(cat)
           newFull == LatestFull(cat')
           newTip == Latest(cat')
<1>1. /\ id \notin DOMAIN cat /\ DOMAIN cat' = DOMAIN cat \cup {id} /\ cat'[id] = e
      /\ \A x \in DOMAIN cat : cat'[x] = cat[x]
  BY DEF Put, Recorded, Listed
<1>2. IsCatalog(cat', Ids)
  BY <1>1 DEF CatInv, IsCatalog
<1>3. IsFiniteSet(DOMAIN cat')
  BY <1>1, FS_AddElement DEF CatInv
<1>4. Ordered(cat') /\ id # NoBuild
  BY <1>2, <1>3, CatalogFacts, RoutesAssumption
<1>5. \A x, y \in DOMAIN cat : Before(cat', x, y) <=> Before(cat, x, y)
  BY <1>1 DEF Before
<1>6. \A x \in DOMAIN cat' : cat'[x].kind = "full" => cat'[x].bytes > 0
  BY <1>1 DEF CatInv
<1>7. DOMAIN cat # {} => /\ full \in DOMAIN cat /\ cat[full].kind = "full" /\ full # NoBuild
                         /\ tip \in DOMAIN cat /\ tip = Latest(cat) /\ tipEpoch = cat[tip].epoch
                         /\ tip # NoBuild
  <2> SUFFICES ASSUME DOMAIN cat # {}
               PROVE  /\ full \in DOMAIN cat /\ cat[full].kind = "full" /\ full # NoBuild
                      /\ tip \in DOMAIN cat /\ tip = Latest(cat) /\ tipEpoch = cat[tip].epoch
                      /\ tip # NoBuild
    OBVIOUS
  <2>1. full # NoBuild /\ full \in DOMAIN cat /\ cat[full].kind = "full"
    BY LatestFullIs DEF CatInv
  <2>2. tip \in DOMAIN cat /\ tip = Latest(cat)
    BY TipIsLast DEF tip, CatInv
  <2>3. tip # NoBuild
    BY <2>2, RoutesAssumption DEF CatInv, IsCatalog
  <2> QED BY <2>1, <2>2, <2>3 DEF tipEpoch
<1>8. newTip \in DOMAIN cat' /\ \A x \in DOMAIN cat' \ {newTip} : Before(cat', x, newTip)
  BY <1>1, <1>2, <1>3, TipIsLast
<1>9. newTip # id => DOMAIN cat # {} /\ newTip = tip
  <2> SUFFICES ASSUME newTip # id PROVE DOMAIN cat # {} /\ newTip = tip
    OBVIOUS
  <2>1. newTip \in DOMAIN cat
    BY <1>1, <1>8
  <2>2. \A x \in DOMAIN cat \ {tip} : Before(cat, x, tip)
    BY <2>1, TipIsLast DEF tip, CatInv
  <2>3. newTip # tip => Before(cat, newTip, tip) /\ Before(cat', tip, newTip)
    BY <1>1, <1>7, <1>8, <2>1, <2>2
  <2> HIDE DEF newTip
  <2>4. newTip # tip => Before(cat', newTip, tip)
    BY <1>5, <1>7, <2>1, <2>3
  <2> QED BY <1>1, <1>4, <1>7, <2>1, <2>3, <2>4, BeforeIsTotal
<1>10. newFull # NoBuild
  <2>1. PICK x \in DOMAIN cat' : cat'[x].kind = "full"
    BY <1>1, <1>7
  <2>2. newFull \in DOMAIN cat'
    BY <1>2, <1>3, <2>1, LatestFullIsLast
  <2> QED BY <1>2, <2>2, RoutesAssumption DEF IsCatalog
<1>11. newFull \in DOMAIN cat' /\ cat'[newFull].kind = "full"
       /\ \A x \in DOMAIN cat' : cat'[x].kind = "full" => x = newFull \/ Before(cat', x, newFull)
  BY <1>2, <1>3, <1>10, LatestFullIs, LatestFullIsLast
<1>12. newFull # id => DOMAIN cat # {} /\ newFull = full
  <2> SUFFICES ASSUME newFull # id PROVE DOMAIN cat # {} /\ newFull = full
    OBVIOUS
  <2>1. newFull \in DOMAIN cat /\ cat[newFull].kind = "full"
    BY <1>1, <1>11
  <2>2. newFull = full \/ Before(cat, newFull, full)
    BY <2>1, LatestFullIsLast DEF CatInv
  <2>3. full = newFull \/ Before(cat', full, newFull)
    BY <1>1, <1>7, <1>11, <2>1
  <2> HIDE DEF newFull, full
  <2>4. Before(cat, newFull, full) => Before(cat', newFull, full)
    BY <1>5, <1>7, <2>1
  <2> QED BY <1>1, <1>4, <1>7, <2>1, <2>2, <2>3, <2>4, BeforeIsTotal
<1> HIDE DEF full, newFull, newTip
<1>13. ASSUME newFull = id, newTip = id PROVE IsChain(cat', {id})
  BY <1>1, <1>13 DEF IsChain, newFull, newTip
<1>14. ASSUME newFull = id, newTip # id PROVE ~InPlace(cat')
  <2>1. e.kind = "full" /\ DOMAIN cat # {} /\ newTip = tip
    BY <1>1, <1>9, <1>11, <1>14
  <2>2. tip \in DOMAIN cat' /\ cat'[tip].epoch = tipEpoch /\ Before(cat', id, tip) /\ tip # id
    BY <1>1, <1>7, <1>8, <1>14, <2>1
  <2>3. ~Before(cat', tip, id)
    BY <1>1, <1>4, <2>2, BeforeIsTotal
  <2>4. e.epoch # tipEpoch \/ e.bridgeFrom = tip
    BY <2>1
  <2> QED BY <1>1, <1>14, <2>1, <2>2, <2>3, <2>4 DEF InPlace, Listed, newFull, newTip
<1>15. ASSUME newFull # id, InPlace(cat') PROVE \E S : IsChain(cat', S)
  <2>1. /\ DOMAIN cat # {} /\ newFull = full /\ full \in DOMAIN cat /\ full # NoBuild
        /\ cat'[full] = cat[full] /\ tip \in DOMAIN cat
    BY <1>1, <1>7, <1>12, <1>15
  <2>2. newTip = id => e.epoch = tipEpoch /\ tip \in DOMAIN routes(e)
    <3> SUFFICES ASSUME newTip = id, e.kind = "full" PROVE FALSE
      OBVIOUS
    <3>1. Before(cat', id, newFull) /\ Before(cat', newFull, id)
      BY <1>1, <1>8, <1>11, <1>15
    <3> QED BY <1>1, <1>4, <1>11, <1>15, <3>1, BeforeIsTotal
  <2>3. cat'[newTip].epoch = tipEpoch
    BY <1>1, <1>7, <1>9, <2>1, <2>2
  <2>4. InPlace(cat)
    <3>1. cat[full].epoch = tipEpoch
      BY <1>15, <2>1, <2>3 DEF InPlace, newFull, newTip
    <3>2. Listed(cat, cat[full].bridgeFrom) => Before(cat, cat[full].bridgeFrom, full)
      <4> DEFINE g == cat[full].bridgeFrom
      <4>1. Listed(cat', g) => Before(cat', g, full)
        BY <1>15, <2>1 DEF InPlace, newFull
      <4> HIDE DEF g
      <4>2. Listed(cat, g) => Before(cat, g, full)
        BY <1>1, <1>5, <2>1, <4>1 DEF Listed
      <4> QED BY <4>2 DEF g
    <3> QED BY <1>7, <2>1, <3>1, <3>2 DEF InPlace, full
  <2>5. PICK S : IsChain(cat, S)
    BY <2>4 DEF CatInv
  <2>6. /\ S \subseteq DOMAIN cat /\ tip \in S
        /\ \A x \in S : /\ cat[x].epoch = tipEpoch
                        /\ \/ x = full
                           \/ /\ Before(cat, full, x)
                              /\ \E o \in S \cap DOMAIN routes(cat[x]) : Before(cat, o, x)
    BY <1>7, <2>1, <2>5 DEF IsChain, full
  <2>7. ASSUME NEW x \in S
        PROVE  /\ cat'[x].epoch = tipEpoch
               /\ \/ x = full
                  \/ /\ Before(cat', full, x)
                     /\ \E o \in S \cap DOMAIN routes(cat'[x]) : Before(cat', o, x)
    <3>1. x \in DOMAIN cat /\ cat'[x] = cat[x]
      BY <1>1, <2>6
    <3> QED BY <1>5, <2>1, <2>6, <3>1
  <2>8. CASE newTip = id
    <3> DEFINE S2 == S \cup {id}
    <3>1. Before(cat', tip, id) /\ Before(cat', full, id)
      BY <1>1, <1>8, <2>1, <2>8
    <3>2. S2 \subseteq DOMAIN cat' /\ newTip \in S2
      BY <1>1, <2>6, <2>8
    <3>3. ASSUME NEW x \in S2
          PROVE  /\ cat'[x].epoch = tipEpoch
                 /\ \/ x = full
                    \/ /\ Before(cat', full, x)
                       /\ \E o \in S2 \cap DOMAIN routes(cat'[x]) : Before(cat', o, x)
      <4>1. CASE x = id
        BY <1>1, <2>2, <2>6, <2>8, <3>1, <4>1
      <4>2. CASE x # id
        BY <2>7, <4>2
      <4> QED BY <4>1, <4>2
    <3>4. IsChain(cat', S2)
      BY <2>1, <2>3, <3>2, <3>3 DEF IsChain, newFull, newTip
    <3> QED BY <3>4
  <2>9. CASE newTip # id
    <3>1. newTip = tip /\ S \subseteq DOMAIN cat'
      BY <1>1, <1>9, <2>6, <2>9
    <3>2. IsChain(cat', S)
      BY <2>1, <2>3, <2>6, <2>7, <3>1 DEF IsChain, newFull, newTip
    <3> QED BY <3>2
  <2> QED BY <2>8, <2>9
<1>16. InPlace(cat') => \E S : IsChain(cat', S)
  BY <1>13, <1>14, <1>15
<1> QED BY <1>2, <1>3, <1>6, <1>10, <1>16 DEF CatInv, newFull

\* Pruning keeps it: the newest full and all that follows it stay.
LEMMA PruneKeepsCatInv ==
  ASSUME CatInv, NEW id \in Ids, Prune(id)
  PROVE  CatInv'
<1> DEFINE full == LatestFull(cat)
           c2 == [x \in DOMAIN cat \ {id} |-> cat[x]]
<1>1. id \in DOMAIN cat /\ Before(cat, id, full) /\ cat' = c2
  BY DEF Prune, Listed
<1>2. /\ DOMAIN cat' = DOMAIN cat \ {id}
      /\ \A x \in DOMAIN cat' : x \in DOMAIN cat /\ cat'[x] = cat[x]
  BY <1>1
<1> HIDE DEF c2
<1>3. IsCatalog(cat', Ids)
  BY <1>2 DEF CatInv, IsCatalog
<1>4. IsFiniteSet(DOMAIN cat')
  BY <1>2, FS_Subset DEF CatInv
<1>5. \A x, y \in DOMAIN cat' : Before(cat', x, y) <=> Before(cat, x, y)
  BY <1>2 DEF Before
<1>7. \A x \in DOMAIN cat' : cat'[x].kind = "full" => cat'[x].bytes > 0
  BY <1>2 DEF CatInv
<1>8. full # NoBuild
  <2>1. DOMAIN cat # {}
    BY <1>1
  <2> QED BY <2>1 DEF CatInv
<1>9. full \in DOMAIN cat' /\ cat[full].kind = "full" /\ ~Before(cat, full, id)
  <2> DEFINE F == {x \in DOMAIN cat : cat[x].kind = "full"}
  <2>1. F # {} /\ HasLast(cat, F) /\ Ordered(cat)
    BY <1>8, CatalogFacts DEF LatestFull, LastOf, CatInv
  <2>2. full \in F
    BY <2>1, LastOfIsLast DEF LatestFull
  <2>3. full # id /\ ~Before(cat, full, id)
    BY <1>1, <2>1, <2>2 DEF Before, Ordered
  <2> QED BY <1>2, <2>2, <2>3
<1>10. LatestFull(cat') = full
  <2>1. LatestFull(cat') \in DOMAIN cat' /\ cat'[LatestFull(cat')].kind = "full"
        /\ (full = LatestFull(cat') \/ Before(cat', full, LatestFull(cat')))
    BY <1>2, <1>3, <1>4, <1>9, LatestFullIsLast
  <2>2. LatestFull(cat') = full \/ Before(cat, LatestFull(cat'), full)
    BY <1>2, <2>1, LatestFullIsLast DEF CatInv
  <2>3. Ordered(cat)
    BY CatalogFacts DEF CatInv
  <2> QED BY <1>2, <1>5, <1>9, <2>1, <2>2, <2>3, BeforeIsTotal
<1>11. Latest(cat') = Latest(cat)
  <2>1. DOMAIN cat # {} /\ DOMAIN cat' # {} /\ Ordered(cat)
    BY <1>1, <1>9, CatalogFacts DEF CatInv
  <2>2. Latest(cat) \in DOMAIN cat /\ \A x \in DOMAIN cat \ {Latest(cat)} : Before(cat, x, Latest(cat))
    BY <2>1, TipIsLast DEF CatInv
  <2>3. Latest(cat') \in DOMAIN cat' /\ \A x \in DOMAIN cat' \ {Latest(cat')} : Before(cat', x, Latest(cat'))
    BY <1>3, <1>4, <2>1, TipIsLast
  <2>4. Latest(cat) # id
    BY <1>1, <1>2, <1>9, <2>1, <2>2, BeforeIsTotal
  <2> QED BY <1>2, <1>5, <2>1, <2>2, <2>3, <2>4, BeforeIsTotal
<1> HIDE DEF full
<1>12. InPlace(cat') => \E S : IsChain(cat', S)
  <2> SUFFICES ASSUME InPlace(cat') PROVE \E S : IsChain(cat', S)
    OBVIOUS
  <2>1. full \in DOMAIN cat /\ cat'[full] = cat[full] /\ cat[Latest(cat)].epoch = cat'[Latest(cat)].epoch
        /\ Latest(cat) \in DOMAIN cat'
    <3>1. DOMAIN cat' # {}
      BY <1>9
    <3> QED BY <1>2, <1>3, <1>4, <1>9, <1>11, <3>1, TipIsLast
  <2>2. Ordered(cat)
    BY CatalogFacts DEF CatInv
  <2> HIDE DEF full
  <2>3. InPlace(cat)
    <3> DEFINE g == cat[full].bridgeFrom
    <3>1. Listed(cat', g) => Before(cat', g, full)
      BY <1>10, <2>1 DEF InPlace
    <3> HIDE DEF g
    <3>2. ASSUME Listed(cat, g) PROVE Before(cat, g, full)
      <4>1. CASE g = id
        BY <1>1, <4>1
      <4>2. CASE g # id
        <5>1. g \in DOMAIN cat'
          BY <1>2, <3>2, <4>2 DEF Listed
        <5> QED BY <1>5, <1>9, <3>1, <5>1 DEF Listed
      <4> QED BY <4>1, <4>2
    <3>5. cat[full].epoch = cat[Latest(cat)].epoch
      BY <1>10, <1>11, <2>1 DEF InPlace
    <3> QED BY <1>8, <3>2, <3>5 DEF InPlace, g, full
  <2>4. PICK S : IsChain(cat, S)
    BY <2>3 DEF CatInv
  <2>5. /\ S \subseteq DOMAIN cat /\ Latest(cat) \in S
        /\ \A x \in S : /\ cat[x].epoch = cat[Latest(cat)].epoch
                        /\ \/ x = full
                           \/ /\ Before(cat, full, x)
                              /\ \E o \in S \cap DOMAIN routes(cat[x]) : Before(cat, o, x)
    BY <2>4 DEF IsChain, full
  <2>6. id \notin S
    BY <1>1, <1>9, <2>1, <2>2, <2>5, BeforeIsTotal
  <2>7. ASSUME NEW x \in S
        PROVE  /\ cat'[x].epoch = cat'[Latest(cat)].epoch
               /\ \/ x = full
                  \/ /\ Before(cat', full, x)
                     /\ \E o \in S \cap DOMAIN routes(cat'[x]) : Before(cat', o, x)
    <3>1. x \in DOMAIN cat' /\ cat'[x] = cat[x]
      BY <1>2, <2>5, <2>6
    <3>2. \A o \in S : o \in DOMAIN cat'
      BY <1>2, <2>5, <2>6
    <3> QED BY <1>5, <1>9, <2>1, <2>5, <3>1, <3>2
  <2>8. S \subseteq DOMAIN cat'
    BY <1>2, <2>5, <2>6
  <2>9. IsChain(cat', S)
    BY <1>10, <1>11, <2>5, <2>7, <2>8 DEF IsChain
  <2> QED BY <2>9
<1> QED BY <1>3, <1>4, <1>7, <1>8, <1>10, <1>12 DEF CatInv

\* The invariant holds of every history of publishes and prunes.
LEMMA CatInvHolds == Spec => []CatInv
<1>1. Init => CatInv
  <2> SUFFICES ASSUME Init PROVE CatInv
    OBVIOUS
  <2>1. DOMAIN cat = {} /\ IsFiniteSet(DOMAIN cat)
    BY FS_EmptySet DEF Init, EmptyCatalog
  <2>2. LatestFull(cat) = NoBuild
    BY <2>1 DEF LatestFull, LastOf
  <2> QED BY <2>1, <2>2 DEF CatInv, IsCatalog, InPlace
<1>2. CatInv /\ [Next]_cat => CatInv'
  <2> SUFFICES ASSUME CatInv, [Next]_cat PROVE CatInv'
    OBVIOUS
  <2>1. CASE UNCHANGED cat
    BY <2>1 DEF CatInv
  <2>2. ASSUME NEW id \in Ids, NEW kind \in Kinds, Publish(id, kind) \/ PublishBeforeEdges(id, kind)
        PROVE  CatInv'
    <3>1. tip # NoBuild /\ DOMAIN cat # {}
      BY <2>2 DEF Publish, PublishBeforeEdges, tip, Latest, LastOf
    <3>2. /\ tip \in DOMAIN cat /\ cat[tip].through \in Nat /\ cat[tip].epoch \in Nat
          /\ tipThrough = cat[tip].through /\ tipEpoch = cat[tip].epoch
      BY <3>1, TipIsLast DEF tip, CatInv, IsCatalog, IsEntry, tipThrough, tipEpoch
    <3>3. PICK through \in tipThrough .. MaxThrough, edges \in EdgesFrom(tip) \cup {NoEdges},
               bytes \in IF kind = "full" THEN FullPrice ELSE {0} :
                 Put(id, NewEntry(kind, through, tipEpoch, tip, edges, bytes))
      BY <2>2 DEF Publish, PublishBeforeEdges
    <3>4. through \in Nat /\ bytes \in Nat /\ (kind = "full" => bytes > 0)
      BY <3>2, RoutesAssumption
    <3> DEFINE e == NewEntry(kind, through, tipEpoch, tip, edges, bytes)
    <3>5. IsEntry(e, Ids) /\ tip \in DOMAIN routes(e) /\ (e.kind = "full" => e.bridgeFrom = tip)
      BY <3>1, <3>2, <3>4, EntriesAreEntries DEF CatInv
    <3>6. e.kind = kind /\ e.epoch = tipEpoch /\ e.bytes = bytes
      BY DEF NewEntry
    <3> HIDE DEF e
    <3> QED BY <3>1, <3>3, <3>4, <3>5, <3>6, PutKeepsCatInv DEF e
  <2>3. ASSUME NEW id \in Ids, PublishFresh(id)
        PROVE  CatInv'
    <3>1. tipEpoch \in Nat /\ (tip = NoBuild => DOMAIN cat = {})
      <4>1. CASE DOMAIN cat = {}
        BY <4>1 DEF tipEpoch, tip, Latest, LastOf
      <4>2. CASE DOMAIN cat # {}
        <5>1. tip \in DOMAIN cat
          BY <4>2, TipIsLast DEF tip, CatInv
        <5>2. cat[tip].epoch \in Nat /\ tip # NoBuild
          BY <5>1, RoutesAssumption DEF CatInv, IsCatalog, IsEntry
        <5> QED BY <5>2 DEF tipEpoch
      <4> QED BY <4>1, <4>2
    <3>2. PICK through \in 1 .. MaxThrough, bytes \in FullPrice,
               epoch \in {tipEpoch + 1} \cup (IF tip = NoBuild THEN {0} ELSE {}) :
                 Put(id, NewEntry("full", through, epoch, NoBuild, NoEdges, bytes))
      BY <2>3 DEF PublishFresh
    <3>3. /\ epoch \in Nat /\ (DOMAIN cat # {} => epoch # tipEpoch)
          /\ through \in Nat /\ bytes \in Nat /\ bytes > 0
      BY <3>1, RoutesAssumption
    <3> DEFINE e == NewEntry("full", through, epoch, NoBuild, NoEdges, bytes)
    <3>4. IsEntry(e, Ids)
      <4>1. "full" \in Kinds
        BY DEF Kinds
      <4> QED BY <3>3, <4>1, EntriesAreEntries DEF CatInv
    <3>5. e.kind = "full" /\ e.bytes = bytes /\ e.epoch = epoch
      BY DEF NewEntry
    <3> HIDE DEF e
    <3> QED BY <3>2, <3>3, <3>4, <3>5, PutKeepsCatInv DEF e
  <2>4. ASSUME NEW id \in Ids, Prune(id) PROVE CatInv'
    BY <2>4, PruneKeepsCatInv
  <2> QED BY <2>1, <2>2, <2>3, <2>4 DEF Next
<1> QED BY <1>1, <1>2, PTL DEF Spec

----------------------------------------------------------------------------
\* What the search returns for the tip.
LEMMA TipRoad ==
  ASSUME CatInv, tip # NoBuild, NEW cur
  PROVE  LET r == cheapest(cat, cur, tip)
         IN  /\ tip \in DOMAIN cat
             /\ r.found => IsRoad(cat, cur, tip, r)
             /\ FullInPlace => r.found
<1> DEFINE full == LatestFull(cat)
           era == cat[tip].epoch
           r == cheapest(cat, cur, tip)
<1>1. tip \in DOMAIN cat /\ tip = Latest(cat) /\ tipEpoch = era
  BY TipIsLast DEF tip, tipEpoch, Latest, LastOf, CatInv
<1>2. Ids \in SUBSET (Nat \ {NoBuild}) /\ Ordered(cat) /\ IsCatalog(cat, Ids) /\ IsFiniteSet(DOMAIN cat)
  BY CatalogFacts DEF CatInv
<1>3. ASSUME NEW S, InOrder(cat, cur, era, S)
      PROVE  (r.found => IsRoad(cat, cur, tip, r)) /\ (tip \in S => r.found)
  BY <1>1, <1>2, <1>3, CheapestIsARoad
<1>4. r.found => IsRoad(cat, cur, tip, r)
  <2>1. InOrder(cat, cur, era, {})
    BY DEF InOrder
  <2> QED BY <1>3, <2>1
<1>5. ASSUME FullInPlace PROVE r.found
  <2>1. InPlace(cat)
    BY <1>1, <1>5 DEF FullInPlace, InPlace
  <2>2. PICK S : IsChain(cat, S)
    BY <2>1 DEF CatInv
  <2>3. full \in DOMAIN cat /\ cat[full].kind = "full" /\ cat[full].bytes > 0 /\ cat[full].epoch = era
    BY <1>1, <1>2, <2>1, LatestFullIs DEF InPlace, CatInv
  <2>4. full \in DOMAIN Seeds(cat, cur, era)
    BY <2>3 DEF Seeds
  <2>5. InOrder(cat, cur, era, S) /\ tip \in S
    BY <1>1, <2>2, <2>4 DEF IsChain, InOrder, Era
  <2> QED BY <1>3, <2>5
<1> QED BY <1>1, <1>4, <1>5

\* Whatever a consumer holds, listed or not, the search finds it a road to the tip
\* while the newest full is in place: pruning what is older than it strands nobody.
THEOREM NobodyIsStranded == Spec => []TipIsReachable
<1>1. CatInv => TipIsReachable
  <2> SUFFICES ASSUME CatInv, FullInPlace, NEW cur \in Ids \cup {NoBuild}
               PROVE  cheapest(cat, cur, tip).found
    BY DEF TipIsReachable
  <2>1. tip # NoBuild
    <3>1. LatestFull(cat) \in DOMAIN cat
      BY LatestFullIs DEF CatInv, FullInPlace
    <3>2. tip \in DOMAIN cat
      BY <3>1, TipIsLast DEF tip, CatInv
    <3> QED BY <3>2, RoutesAssumption DEF CatInv, IsCatalog
  <2> QED BY <2>1, TipRoad
<1> QED BY <1>1, CatInvHolds, PTL

\* The road the search finds to the tip starts at what is held or at a full, each
\* of its patches applies to what the one before it left, and it ends at the tip
\* without leaving the tip's epoch.
THEOREM RoadsCanBeRidden == Spec => []RoadIsRidable
<1>1. CatInv => RoadIsRidable
  <2> SUFFICES ASSUME CatInv, tip # NoBuild, NEW cur \in Ids \cup {NoBuild},
                      cheapest(cat, cur, tip).found
               PROVE  LET r == cheapest(cat, cur, tip)
                          s == r.steps
                      IN  /\ r.start = IF r.seed = NoBuild THEN cur ELSE r.seed
                          /\ r.seed # NoBuild => cat[r.seed].kind = "full"
                          /\ tip = IF s = <<>> THEN r.start ELSE Last(s).id
                          /\ \A i \in 1 .. Len(s) :
                               /\ s[i].from = IF i = 1 THEN r.start ELSE s[i - 1].id
                               /\ s[i].from \in DOMAIN routes(cat[s[i].id])
                               /\ {cat[s[i].id].epoch, cat[s[i].from].epoch} = {tipEpoch}
    BY DEF RoadIsRidable
  <2> DEFINE r == cheapest(cat, cur, tip)
             s == r.steps
  <2>1. IsRoad(cat, cur, tip, r)
    BY TipRoad
  <2>2. tipEpoch = cat[tip].epoch
    BY DEF tipEpoch
  <2> HIDE DEF r
  <2>3. /\ r.start = IF r.seed = NoBuild THEN cur ELSE r.seed
        /\ r.seed # NoBuild => cat[r.seed].kind = "full"
    BY <2>1 DEF IsRoad
  <2>4. tip = IF s = <<>> THEN r.start ELSE Last(s).id
    BY <2>1 DEF IsRoad, Last
  <2>5. \A i \in 1 .. Len(s) :
          /\ s[i].from = IF i = 1 THEN r.start ELSE s[i - 1].id
          /\ s[i].from \in DOMAIN routes(cat[s[i].id])
          /\ {cat[s[i].id].epoch, cat[s[i].from].epoch} = {tipEpoch}
    BY <2>1, <2>2 DEF IsRoad
  <2> QED BY <2>3, <2>4, <2>5 DEF r
<1> QED BY <1>1, CatInvHolds, PTL

----------------------------------------------------------------------------
\* The reference after each of its first k rounds.
IsPricing(f, cur, era, ahead, k) ==
  f = [i \in 0 .. k |->
         IF i = 0 THEN [id \in {x \in DOMAIN cat : cat[x].epoch = era} |-> StartPrices(cur, id)]
         ELSE OneMorePatch(f[i - 1], ahead)]

\* The reference is a recursion over its rounds, and such a function exists.
LEMMA PricingExists ==
  ASSUME NEW cur, NEW era, NEW ahead, NEW N \in Nat
  PROVE  \E f : IsPricing(f, cur, era, ahead, N)
<1> DEFINE start == [id \in {x \in DOMAIN cat : cat[x].epoch = era} |-> StartPrices(cur, id)]
           Bad == {k \in Nat : ~ \E f : IsPricing(f, cur, era, ahead, k)}
<1>1. \A f, k : IsPricing(f, cur, era, ahead, k) <=>
                  f = [i \in 0 .. k |-> IF i = 0 THEN start ELSE OneMorePatch(f[i - 1], ahead)]
  BY DEF IsPricing
<1> SUFFICES ASSUME Bad # {} PROVE FALSE
  OBVIOUS
<1>2. PICK k \in Bad : \A j \in Bad : k <= j
  BY NatMin
<1> HIDE DEF start
<1>3. CASE k = 0
  <2> DEFINE g == [n \in 0 .. 0 |-> IF n = 0 THEN start ELSE OneMorePatch(start, ahead)]
             h == [n \in 0 .. 0 |-> IF n = 0 THEN start ELSE OneMorePatch(g[n - 1], ahead)]
  <2>1. g = h
    OBVIOUS
  <2>2. IsPricing(g, cur, era, ahead, 0)
    BY <1>1, <2>1
  <2> QED BY <1>2, <1>3, <2>2
<1>4. CASE k # 0
  <2>1. k - 1 \in Nat /\ k - 1 \notin Bad
    BY <1>2, <1>4
  <2>2. PICK f : IsPricing(f, cur, era, ahead, k - 1)
    BY <2>1
  <2> DEFINE g == [n \in 0 .. k |-> IF n = k THEN OneMorePatch(f[k - 1], ahead) ELSE f[n]]
             h == [n \in 0 .. k |-> IF n = 0 THEN start ELSE OneMorePatch(g[n - 1], ahead)]
  <2>3. ASSUME NEW n \in 0 .. k PROVE g[n] = h[n]
    <3>1. CASE n = k
      <4>1. k - 1 \in 0 .. k /\ g[k - 1] = f[k - 1]
        BY <1>2, <1>4
      <4> QED BY <1>4, <3>1, <4>1
    <3>2. CASE n # k
      <4>1. n \in 0 .. k - 1
        BY <1>2, <3>2
      <4>2. f[n] = IF n = 0 THEN start ELSE OneMorePatch(f[n - 1], ahead)
        <5>1. f = [i \in 0 .. k - 1 |-> IF i = 0 THEN start ELSE OneMorePatch(f[i - 1], ahead)]
          BY <1>1, <2>2
        <5> QED BY <4>1, <5>1
      <4>3. n # 0 => n - 1 \in 0 .. k /\ g[n - 1] = f[n - 1]
        BY <1>2, <3>2, <4>1
      <4> QED BY <1>2, <3>2, <4>2, <4>3
    <3> QED BY <3>1, <3>2
  <2>4. g = h
    BY <2>3
  <2>5. IsPricing(g, cur, era, ahead, k)
    BY <1>1, <2>4
  <2> QED BY <1>2, <2>5
<1> QED BY <1>3, <1>4

\* The reference, round by round: it starts from what a start costs, and a round
\* adds what one more patch leads to.
IsReference(p, cur, era, ahead) ==
  LET E == Era(cat, era)
      N == Cardinality(DOMAIN cat)
  IN  /\ p[N] = AllPrices(cur, era, ahead)
      /\ \A x \in E : p[0][x] = StartPrices(cur, x)
      /\ \A n \in 1 .. N : \A x \in E : \A q :
           q \in p[n][x] <=>
             \/ q \in p[n - 1][x]
             \/ \E g \in DOMAIN routes(cat[x]) \cap E :
                  /\ ahead => Before(cat, g, x)
                  /\ \E u \in p[n - 1][g] : q = u + routes(cat[x])[g]

LEMMA ReferenceRuns ==
  ASSUME IsFiniteSet(DOMAIN cat), NEW cur, NEW era, NEW ahead
  PROVE  \E p : IsReference(p, cur, era, ahead)
<1> DEFINE E == Era(cat, era)
           N == Cardinality(DOMAIN cat)
           f == CHOOSE g : IsPricing(g, cur, era, ahead, N)
           start == [x \in E |-> StartPrices(cur, x)]
<1>1. N \in Nat
  BY FS_CardinalityType
<1>2. AllPrices(cur, era, ahead) = f[N]
  BY DEF AllPrices, IsPricing
<1>3. IsPricing(f, cur, era, ahead, N)
  BY <1>1, PricingExists
<1> HIDE DEF f
<1>4. start = [id \in {x \in DOMAIN cat : cat[x].epoch = era} |-> StartPrices(cur, id)]
  BY DEF Era
<1> HIDE DEF start, E, N
<1>5. f = [i \in 0 .. N |-> IF i = 0 THEN start ELSE OneMorePatch(f[i - 1], ahead)]
  BY <1>3, <1>4 DEF IsPricing
<1>6. f[0] = start /\ \A n \in 1 .. N : f[n] = OneMorePatch(f[n - 1], ahead)
  BY ONLY <1>1, <1>5
<1> DEFINE Good(n) == DOMAIN f[n] = E
           Bad == {n \in 0 .. N : ~Good(n)}
<1>7. DOMAIN start = E /\ \A x \in E : start[x] = StartPrices(cur, x)
  BY DEF start
<1>8. Bad = {}
  <2> SUFFICES ASSUME Bad # {} PROVE FALSE
    OBVIOUS
  <2>1. Bad \in SUBSET Nat
    BY <1>1
  <2> HIDE DEF Bad
  <2>2. PICK n \in Bad : \A k \in Bad : n <= k
    BY <2>1, NatMin
  <2> USE DEF Bad
  <2>3. Good(0)
    BY <1>6, <1>7
  <2>4. n # 0 /\ n \in 1 .. N /\ n - 1 \in 0 .. N /\ n - 1 \notin Bad
    BY <1>1, <2>2, <2>3
  <2>5. DOMAIN f[n - 1] = E /\ f[n] = OneMorePatch(f[n - 1], ahead)
    BY <1>6, <2>4
  <2>6. Good(n)
    BY <2>5 DEF OneMorePatch
  <2> QED BY <2>2, <2>6
<1>9. ASSUME NEW n \in 1 .. N, NEW x \in E, NEW q
      PROVE  q \in f[n][x] <=>
               \/ q \in f[n - 1][x]
               \/ \E g \in DOMAIN routes(cat[x]) \cap E :
                    /\ ahead => Before(cat, g, x)
                    /\ \E u \in f[n - 1][g] : q = u + routes(cat[x])[g]
  <2> DEFINE p == f[n - 1]
             in == routes(cat[x])
             from == {g \in DOMAIN in \cap DOMAIN p : ahead => Before(cat, g, x)}
  <2>1. DOMAIN p = E /\ f[n] = OneMorePatch(p, ahead)
    <3>1. n - 1 \in 0 .. N
      BY <1>1
    <3> QED BY <1>6, <1>8, <3>1
  <2> HIDE DEF p
  <2>2. f[n][x] = p[x] \cup UNION {{u + in[g] : u \in p[g]} : g \in from}
    BY <2>1 DEF OneMorePatch
  <2> HIDE DEF in
  <2>3. q \in f[n][x] <=> q \in p[x] \/ \E g \in from : \E u \in p[g] : q = u + in[g]
    BY <2>2
  <2>4. \A g : g \in from <=> g \in DOMAIN in \cap E /\ (ahead => Before(cat, g, x))
    BY <2>1
  <2> HIDE DEF from
  <2> QED BY <2>3, <2>4 DEF p, in
<1>10. IsReference(f, cur, era, ahead)
  BY <1>2, <1>6, <1>7, <1>9 DEF IsReference, E, N
<1> QED BY <1>10

\* A build of the table starts where the reference starts it, at the same price, and
\* no start is cheaper.
LEMMA StartsAreSeeds ==
  ASSUME CatInv, NEW cur, NEW era, NEW x \in Era(cat, era)
  PROVE  LET s == Seeds(cat, cur, era)
         IN  /\ StartPrices(cur, x) \subseteq Nat
             /\ x \in DOMAIN s => s[x].cost \in StartPrices(cur, x)
             /\ \A q \in StartPrices(cur, x) : x \in DOMAIN s /\ s[x].cost <= q
<1> DEFINE s == Seeds(cat, cur, era)
<1>1. /\ cat[x].epoch = era /\ x \in DOMAIN cat /\ cat[x].bytes \in Nat
      /\ cat[x].kind = "full" => cat[x].bytes > 0
  BY DEF Era, CatInv, IsCatalog, IsEntry
<1>2. x \in DOMAIN s <=> x = cur \/ cat[x].kind = "full"
  BY <1>1 DEF Seeds, Listed
<1>3. x \in DOMAIN s => s[x].cost = IF x = cur THEN 0 ELSE cat[x].bytes
  BY <1>1 DEF Seeds, Listed, Node
<1> HIDE DEF s
<1>4. \A q : q \in StartPrices(cur, x) <=> \/ (x = cur /\ q = 0)
                                          \/ (cat[x].kind = "full" /\ q = cat[x].bytes)
  BY DEF StartPrices
<1> QED BY <1>1, <1>2, <1>3, <1>4 DEF s

\* The sweep finds every build some road leads to in catalog order, and at a cost no
\* such road is below.
LEMMA NoRoadAheadIsCheaper ==
  ASSUME CatInv, NEW cur, NEW era, NEW x \in Era(cat, era), NEW q \in AllPrices(cur, era, TRUE)[x]
  PROVE  x \in DOMAIN sweep(cat, cur, era) /\ sweep(cat, cur, era)[x].cost <= q
<1> DEFINE t == sweep(cat, cur, era)
           s == Seeds(cat, cur, era)
           E == Era(cat, era)
           N == Cardinality(DOMAIN cat)
           in(y) == routes(cat[y])
<1>1. N \in Nat
  BY FS_CardinalityType DEF CatInv
<1>2. Ordered(cat) /\ Ids \in SUBSET (Nat \ {NoBuild}) /\ IsCatalog(cat, Ids) /\ IsFiniteSet(DOMAIN cat)
  BY CatalogFacts DEF CatInv
<1>3. IsTable(t, cat, cur, era) /\ \A y \in E : Settled(cat, cur, era, t, y)
  BY <1>2, SweepSettles
<1>4. \A y \in E : \A g \in DOMAIN in(y) : in(y)[g] \in Nat
  BY <1>2, RoutesHavePrices DEF Era
<1>5. \A y \in E : /\ StartPrices(cur, y) \subseteq Nat
                   /\ \A p \in StartPrices(cur, y) : y \in DOMAIN s /\ s[y].cost <= p
                   /\ y \in DOMAIN s => s[y].cost \in Nat
  BY StartsAreSeeds
<1>6. \A y \in DOMAIN t : t[y].cost \in Nat
  BY <1>3 DEF IsTable
<1>7. ASSUME NEW y \in E
      PROVE  /\ y \in DOMAIN s => y \in DOMAIN t /\ t[y].cost <= s[y].cost
             /\ \A g \in DOMAIN in(y) \cap DOMAIN t :
                  Before(cat, g, y) => y \in DOMAIN t /\ t[y].cost <= t[g].cost + in(y)[g]
  BY <1>3 DEF Settled
<1>8. PICK f : IsReference(f, cur, era, TRUE)
  BY <1>2, ReferenceRuns
<1>9. /\ \A y \in E : f[0][y] = StartPrices(cur, y)
      /\ \A n \in 1 .. N : \A y \in E : \A p :
           p \in f[n][y] =>
             \/ p \in f[n - 1][y]
             \/ \E g \in DOMAIN in(y) \cap E :
                  Before(cat, g, y) /\ \E u \in f[n - 1][g] : p = u + in(y)[g]
  BY <1>8 DEF IsReference
<1>10. f[N] = AllPrices(cur, era, TRUE)
  BY <1>8 DEF IsReference
<1> HIDE DEF t, s, E, N, in
<1> DEFINE Good(n) == \A y \in E : \A p \in f[n][y] : p \in Nat /\ y \in DOMAIN t /\ t[y].cost <= p
           Bad == {n \in 0 .. N : ~Good(n)}
<1>11. Bad = {}
  <2> SUFFICES ASSUME Bad # {} PROVE FALSE
    OBVIOUS
  <2>1. Bad \in SUBSET Nat
    BY <1>1
  <2> HIDE DEF Bad
  <2>2. PICK n \in Bad : \A m \in Bad : n <= m
    BY <2>1, NatMin
  <2> USE DEF Bad
  <2>3. Good(0)
    <3> SUFFICES ASSUME NEW y \in E, NEW p \in f[0][y]
                 PROVE  p \in Nat /\ y \in DOMAIN t /\ t[y].cost <= p
      OBVIOUS
    <3>1. p \in StartPrices(cur, y)
      BY <1>9
    <3>2. p \in Nat /\ y \in DOMAIN s /\ s[y].cost <= p /\ s[y].cost \in Nat
      BY <1>5, <3>1
    <3>3. y \in DOMAIN t /\ t[y].cost <= s[y].cost /\ t[y].cost \in Nat
      BY <1>6, <1>7, <3>2
    <3> QED BY <3>2, <3>3
  <2>4. n # 0 /\ n \in 1 .. N /\ n - 1 \in 0 .. N /\ n - 1 \notin Bad
    BY <1>1, <2>2, <2>3
  <2>5. Good(n - 1)
    BY <2>4
  <2>6. ASSUME NEW y \in E, NEW p \in f[n][y]
        PROVE  p \in Nat /\ y \in DOMAIN t /\ t[y].cost <= p
    <3>1. CASE p \in f[n - 1][y]
      BY <2>5, <3>1
    <3>2. CASE p \notin f[n - 1][y]
      <4>1. PICK g \in DOMAIN in(y) \cap E :
              Before(cat, g, y) /\ \E u \in f[n - 1][g] : p = u + in(y)[g]
        BY <1>9, <2>4, <3>2
      <4>2. PICK u \in f[n - 1][g] : p = u + in(y)[g]
        BY <4>1
      <4>3. g \in DOMAIN t /\ t[g].cost <= u /\ u \in Nat /\ in(y)[g] \in Nat
        BY <1>4, <2>5, <4>1, <4>2
      <4>4. y \in DOMAIN t /\ t[y].cost <= t[g].cost + in(y)[g]
        BY <1>7, <4>1, <4>3
      <4>5. t[y].cost \in Nat /\ t[g].cost \in Nat
        BY <1>6, <4>3, <4>4
      <4> QED BY <4>2, <4>3, <4>4, <4>5
    <3> QED BY <3>1, <3>2
  <2>7. Good(n)
    BY <2>6
  <2> QED BY <2>2, <2>7
<1>12. Good(N)
  BY <1>1, <1>11
<1>13. x \in E /\ q \in f[N][x]
  BY <1>10 DEF E
<1> QED BY <1>12, <1>13 DEF t

\* What the sweep says a build costs, some road costs: a turn of the sweep takes one
\* patch more, and there are no more turns than rounds.
LEMMA CostsAreOfRoads ==
  ASSUME CatInv, NEW cur, NEW era, NEW x \in DOMAIN sweep(cat, cur, era)
  PROVE  sweep(cat, cur, era)[x].cost \in AllPrices(cur, era, FALSE)[x]
<1> DEFINE E == Era(cat, era)
           K == Cardinality(E)
           N == Cardinality(DOMAIN cat)
           in(y) == routes(cat[y])
<1>1. IsFiniteSet(E) /\ E \subseteq DOMAIN cat /\ N \in Nat /\ K \in Nat /\ K <= N
  BY FS_Subset, FS_CardinalityType DEF Era, CatInv
<1>2. Ordered(cat) /\ Ids \in SUBSET (Nat \ {NoBuild}) /\ IsCatalog(cat, Ids) /\ IsFiniteSet(DOMAIN cat)
  BY CatalogFacts DEF CatInv
<1>3. PICK b : IsRun(b, cat, cur, era)
  BY <1>2, SweepRuns
<1>4. b[0] = Seeds(cat, cur, era) /\ b[K] = sweep(cat, cur, era)
  BY <1>3 DEF IsRun
<1>5. ASSUME NEW n \in 1 .. K, NEW y \in DOMAIN b[n]
      PROVE  \/ y \in DOMAIN b[n - 1] /\ b[n][y] = b[n - 1][y]
             \/ \E g \in DOMAIN in(y) \cap DOMAIN b[n - 1] :
                  y \in E /\ b[n][y].cost = b[n - 1][g].cost + in(y)[g]
  <2> DEFINE a == At(cat, era, n - 1)
             t == b[n - 1]
             u == b[n]
  <2>1. u = relax(cat, t, a) /\ a \in E
    BY <1>3 DEF IsRun
  <2>2. n - 1 \in 0 .. K
    BY <1>1
  <2>3. IsTable(t, cat, cur, era)
    BY <1>2, <1>3, <2>2, RunKeepsATable
  <2> HIDE DEF a, t, u
  <2>4. a \in DOMAIN cat /\ \A z \in DOMAIN t : t[z].cost \in Nat
    BY <2>1, <2>3 DEF IsTable, Era
  <2>5. IsTurn(cat, t, a, u)
    BY <1>2, <2>1, <2>4, RelaxIsATurn
  <2>6. \/ u = t
        \/ /\ DOMAIN u = DOMAIN t \cup {a} /\ \A z \in DOMAIN t \ {a} : u[z] = t[z]
           /\ \E g \in DOMAIN in(a) \cap DOMAIN t : u[a] = Node(t[g].cost + in(a)[g], g, NoBuild)
    BY <2>5 DEF IsTurn
  <2>7. \A m, g, s : Node(m, g, s).cost = m
    BY DEF Node
  <2>8. y \in DOMAIN u
    BY DEF u
  <2> HIDE DEF E, in
  <2>9. \/ y \in DOMAIN t /\ u[y] = t[y]
        \/ \E g \in DOMAIN in(y) \cap DOMAIN t : y \in E /\ u[y].cost = t[g].cost + in(y)[g]
    BY <2>1, <2>6, <2>7, <2>8
  <2> QED BY <2>9 DEF t, u
<1>6. \A n \in 0 .. K : DOMAIN b[n] \subseteq E
  <2>1. ASSUME NEW n \in 0 .. K PROVE DOMAIN b[n] \subseteq E
    <3>1. IsTable(b[n], cat, cur, era)
      BY <1>2, <1>3, RunKeepsATable
    <3> QED BY <3>1 DEF IsTable
  <2> QED BY <2>1
<1>7. PICK f : IsReference(f, cur, era, FALSE)
  BY <1>2, ReferenceRuns
<1>8. /\ \A y \in E : f[0][y] = StartPrices(cur, y)
      /\ \A n \in 1 .. N : \A y \in E : f[n - 1][y] \subseteq f[n][y]
      /\ \A n \in 1 .. N : \A y \in E : \A g \in DOMAIN in(y) \cap E :
           \A u \in f[n - 1][g] : u + in(y)[g] \in f[n][y]
  BY <1>7 DEF IsReference
<1>9. f[N] = AllPrices(cur, era, FALSE)
  BY <1>7 DEF IsReference
<1>10. \A y \in DOMAIN b[0] : b[0][y].cost \in f[0][y]
  <2>1. ASSUME NEW y \in DOMAIN b[0] PROVE b[0][y].cost \in f[0][y]
    <3>1. y \in E
      BY <1>1, <1>6
    <3> QED BY <1>4, <1>8, <3>1, StartsAreSeeds
  <2> QED BY <2>1
<1> HIDE DEF E, K, N, in
<1> DEFINE cap(n) == IF n <= K THEN n ELSE K
           Good(n) == \A y \in DOMAIN b[cap(n)] : b[cap(n)][y].cost \in f[n][y]
           Bad == {n \in 0 .. N : ~Good(n)}
<1>11. Bad = {}
  <2> SUFFICES ASSUME Bad # {} PROVE FALSE
    OBVIOUS
  <2>1. Bad \in SUBSET Nat
    BY <1>1
  <2> HIDE DEF Bad
  <2>2. PICK n \in Bad : \A m \in Bad : n <= m
    BY <2>1, NatMin
  <2> USE DEF Bad
  <2>3. Good(0)
    BY <1>1, <1>10
  <2>4. n # 0 /\ n \in 1 .. N /\ n - 1 \in 0 .. N /\ n - 1 \notin Bad
    BY <1>1, <2>2, <2>3
  <2>5. Good(n - 1)
    BY <2>4
  <2>6. CASE n <= K
    <3>1. cap(n) = n /\ cap(n - 1) = n - 1 /\ n \in 1 .. K /\ n - 1 \in 0 .. K /\ n \in 0 .. K
      BY <1>1, <2>4, <2>6
    <3>2. \A y \in DOMAIN b[n - 1] : b[n - 1][y].cost \in f[n - 1][y] /\ y \in E
      BY <1>6, <2>5, <3>1
    <3>3. ASSUME NEW y \in DOMAIN b[n] PROVE b[n][y].cost \in f[n][y]
      <4>1. y \in E
        BY <1>6, <3>1
      <4> QED BY <1>5, <1>8, <2>4, <3>1, <3>2, <4>1
    <3> QED BY <2>2, <3>1, <3>3
  <2>7. CASE ~ (n <= K)
    <3>1. cap(n) = K /\ cap(n - 1) = K /\ K \in 0 .. K
      BY <1>1, <2>4, <2>7
    <3>2. \A y \in DOMAIN b[K] : b[K][y].cost \in f[n - 1][y] /\ y \in E
      BY <1>6, <2>5, <3>1
    <3>3. Good(n)
      BY <1>8, <2>4, <3>1, <3>2
    <3> QED BY <2>2, <3>3
  <2> QED BY <2>6, <2>7
<1>12. Good(N) /\ cap(N) = K
  BY <1>1, <1>11
<1> QED BY <1>4, <1>9, <1>12

\* The search asks for the price of some road to the tip, and no road that takes the
\* builds in catalog order is cheaper: whatever the catalog, one sweep does for such
\* roads what the reference does in as many rounds as there are builds.
THEOREM TheCheapestIsTaken == Spec => []CheapestIsMinimal
<1>1. CatInv => CheapestIsMinimal
  <2> SUFFICES ASSUME CatInv, tip # NoBuild, NEW cur \in Ids \cup {NoBuild}
               PROVE  LET r == cheapest(cat, cur, tip)
                      IN  /\ r.found => r.cost \in AllPrices(cur, tipEpoch, FALSE)[tip]
                          /\ \A q \in AllPrices(cur, tipEpoch, TRUE)[tip] : r.found /\ r.cost <= q
    BY DEF CheapestIsMinimal
  <2> DEFINE r == cheapest(cat, cur, tip)
             t == sweep(cat, cur, tipEpoch)
  <2>1. tip \in DOMAIN cat /\ tipEpoch = cat[tip].epoch /\ tip \in Era(cat, tipEpoch)
    BY TipIsLast DEF tip, tipEpoch, Latest, LastOf, CatInv, Era
  <2>2. /\ tip \in DOMAIN t => t[tip].cost \in AllPrices(cur, tipEpoch, FALSE)[tip]
        /\ \A q \in AllPrices(cur, tipEpoch, TRUE)[tip] : tip \in DOMAIN t /\ t[tip].cost <= q
    BY <2>1, NoRoadAheadIsCheaper, CostsAreOfRoads
  <2>3. r.found <=> tip \in DOMAIN t
    BY <2>1 DEF cheapest, Listed, NoRoute
  <2>4. tip \in DOMAIN t => r.cost = t[tip].cost
    BY <2>1 DEF cheapest, Listed
  <2> HIDE DEF r, t
  <2>5. /\ r.found => r.cost \in AllPrices(cur, tipEpoch, FALSE)[tip]
        /\ \A q \in AllPrices(cur, tipEpoch, TRUE)[tip] : r.found /\ r.cost <= q
    BY <2>2, <2>3, <2>4
  <2> QED BY <2>5 DEF r
<1> QED BY <1>1, CatInvHolds, PTL

=============================================================================
