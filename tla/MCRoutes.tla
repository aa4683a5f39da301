------------------------------ MODULE MCRoutes ------------------------------
(***************************************************************************)
(* The route search, checked against a reference on every catalog that a   *)
(* few publishes and prunes can build.                                     *)
(*                                                                         *)
(* A publish diffs against the tip, and the day guard is all that relates  *)
(* the new build's place to the tip's.  A daily patches the tip, a full    *)
(* bridges from it, and both may carry a rollup from anywhere, even from an *)
(* epoch since retired, because nthBack counts positions only.  A full     *)
(* that opens an epoch has no base, so no guard: its day may be any.  The  *)
(* new build is the tip only if it sorts last: of two builds of one day    *)
(* the id decides, so a patch may lead back in catalog order, and a fresh  *)
(* full of an older day leaves the tip in the epoch it meant to retire.    *)
(* An entry may also be of the kind written before edges existed.  Builds  *)
(* older than the newest full may be pruned.                               *)
(***************************************************************************)
EXTENDS Routes, SequencesExt

CONSTANTS Ids,         \* the builds that may be published, a set of naturals
          MaxThrough,  \* content days are 1 .. MaxThrough
          MaxEpoch,    \* epochs are 0 .. MaxEpoch
          PatchPrice,  \* the prices a patch from the tip may have
          RollupPrice, \* the prices a patch from further back may have
          FullPrice,   \* the prices a full may have
          Reuse        \* whether a pruned id may be published again while a route names it

ASSUME RoutesAssumption ==
  /\ Ids \subseteq Nat \ {NoBuild} /\ MaxThrough \in Nat /\ MaxEpoch \in Nat
  /\ PatchPrice \subseteq Nat /\ RollupPrice \subseteq Nat /\ FullPrice \subseteq Nat \ {0}
  /\ Reuse \in BOOLEAN

VARIABLE cat

Init == cat = EmptyCatalog

tip == Latest(cat)

tipThrough == IF tip = NoBuild THEN 1 ELSE cat[tip].through

tipEpoch == IF tip = NoBuild THEN 0 ELSE cat[tip].epoch

\* Some listed build has a route from id.
Named(id) == \E x \in DOMAIN cat : id \in DOMAIN routes(cat[x])

\* A build that is not listed is published, and sorted in among the others.
Put(id, e) ==
  /\ ~Listed(cat, id) /\ (Named(id) => Reuse)
  /\ cat' = Recorded(cat, id, e)

NewEntry(kind, through, epoch, base, edges, bytes) ==
  [kind |-> kind, through |-> through, epoch |-> epoch, edges |-> edges, bytes |-> bytes,
   parent     |-> IF kind = "daily" THEN base ELSE NoBuild,
   bridgeFrom |-> IF kind = "full" THEN base ELSE NoBuild]

NoEdges == [f \in {} |-> f]

\* The routes a publish may write: one from the tip, and perhaps a rollup.
EdgesFrom(base) ==
  LET default == {[f \in {base} |-> p] : p \in PatchPrice}
      rollups == {[f \in {base, r} |-> IF f = base THEN p ELSE q] :
                    r \in DOMAIN cat \ {base}, p \in PatchPrice, q \in RollupPrice}
  IN  default \cup rollups

Publish(id, kind) ==
  \E through \in tipThrough .. MaxThrough, edges \in EdgesFrom(tip),
     bytes \in IF kind = "full" THEN FullPrice ELSE {0} :
    /\ tip # NoBuild
    /\ Put(id, NewEntry(kind, through, tipEpoch, tip, edges, bytes))

PublishBeforeEdges(id, kind) ==
  \E through \in tipThrough .. MaxThrough, bytes \in IF kind = "full" THEN FullPrice ELSE {0} :
    /\ tip # NoBuild
    /\ Put(id, NewEntry(kind, through, tipEpoch, tip, NoEdges, bytes))

\* A full without a base: the first build of all, or the first of the next epoch.
PublishFresh(id) ==
  \E through \in 1 .. MaxThrough, bytes \in FullPrice,
     epoch \in {tipEpoch + 1} \cup (IF tip = NoBuild THEN {0} ELSE {}) :
    /\ epoch <= MaxEpoch
    /\ Put(id, NewEntry("full", through, epoch, NoBuild, NoEdges, bytes))

Prune(id) ==
  /\ Listed(cat, id)
  /\ Before(cat, id, LatestFull(cat))
  /\ cat' = [x \in DOMAIN cat \ {id} |-> cat[x]]

Next ==
  \E id \in Ids :
    \/ \E kind \in Kinds : Publish(id, kind) \/ PublishBeforeEdges(id, kind)
    \/ PublishFresh(id)
    \/ Prune(id)

Spec == Init /\ [][Next]_cat

----------------------------------------------------------------------------
\* The reference: every price a consumer holding cur can pay for a build of
\* one epoch, as a set.  It starts free at the held build and at the price of
\* its download at a full; riding one more patch from anywhere, or only from a
\* build that comes before in the catalog, adds the patch's price.  As many
\* patches are tried as builds are listed.
StartPrices(cur, id) ==
  (IF id = cur THEN {0} ELSE {}) \cup (IF cat[id].kind = "full" THEN {cat[id].bytes} ELSE {})

OneMorePatch(prices, ahead) ==
  [id \in DOMAIN prices |->
     LET in   == routes(cat[id])
         from == {f \in DOMAIN in \cap DOMAIN prices : ahead => Before(cat, f, id)}
     IN  prices[id] \cup UNION {{p + in[f] : p \in prices[f]} : f \in from}]

AllPrices(cur, era, ahead) ==
  LET n == Cardinality(DOMAIN cat)
      prices[i \in 0 .. n] ==
        IF i = 0 THEN [id \in {x \in DOMAIN cat : cat[x].epoch = era} |-> StartPrices(cur, id)]
        ELSE OneMorePatch(prices[i - 1], ahead)
  IN  prices[n]

\* cheapest asks for the price of some road to the tip, and for no more than any
\* road costs that takes the builds in catalog order; while there is such a road it
\* finds one.  That is what one sweep in catalog order can settle: a cheaper road
\* over a patch that leads back may be missed.  The tip is the only target the
\* updater ever asks for.
CheapestIsMinimal ==
  tip # NoBuild =>
    \A cur \in Ids \cup {NoBuild} :
      LET r == cheapest(cat, cur, tip)
      IN  /\ r.found => r.cost \in AllPrices(cur, tipEpoch, FALSE)[tip]
          /\ \A q \in AllPrices(cur, tipEpoch, TRUE)[tip] : r.found /\ r.cost <= q

\* What it returns can be ridden: the patches start from the held build or from
\* the full to download, each applies to what the one before it left, they end
\* at the tip, and no step leaves the tip's epoch.
RoadIsRidable ==
  tip # NoBuild =>
    \A cur \in Ids \cup {NoBuild} :
      LET r == cheapest(cat, cur, tip)
          s == r.steps
      IN  r.found =>
            /\ r.start = IF r.seed = NoBuild THEN cur ELSE r.seed
            /\ r.seed # NoBuild => cat[r.seed].kind = "full"
            /\ tip = IF s = <<>> THEN r.start ELSE Last(s).id
            /\ \A i \in 1 .. Len(s) :
                 /\ s[i].from = IF i = 1 THEN r.start ELSE s[i - 1].id
                 /\ s[i].from \in DOMAIN routes(cat[s[i].id])
                 /\ {cat[s[i].id].epoch, cat[s[i].from].epoch} = {tipEpoch}

\* The newest full continues what the tip continues: it is of the tip's epoch, and
\* bridges from no build that comes after it.
FullInPlace ==
  LET full == LatestFull(cat)
  IN  /\ full # NoBuild /\ cat[full].epoch = tipEpoch
      /\ Listed(cat, cat[full].bridgeFrom) => Before(cat, cat[full].bridgeFrom, full)

\* Pruning what is older than the newest full strands nobody while that full is in
\* place: whatever a consumer holds, listed or not, some road leads to the tip.
\* Dailies that do not become the tip and rollups of any source do no harm.
TipIsReachable ==
  FullInPlace => \A cur \in Ids \cup {NoBuild} : cheapest(cat, cur, tip).found

=============================================================================
