------------------------------- MODULE Routes -------------------------------
(***************************************************************************)
(* How the updater chooses a road to a build: catalog.cheapest.            *)
(*                                                                         *)
(* The search keeps, for each build reached so far, the cheapest way of    *)
(* reaching it.  It starts from the held build, free, and from every full  *)
(* of the target's epoch, at the price of its download, and then relaxes   *)
(* every route once, in catalog order.                                     *)
(***************************************************************************)
EXTENDS Catalog, Sequences

\* A way of reaching a build: its cost, the build the last patch came from
\* (NoBuild at a starting point), and the full downloaded to start there.
Node(cost, from, seed) == [cost |-> cost, from |-> from, seed |-> seed]

\* Mutant: a full of any epoch will do.
Seeds_anyEpoch(c, cur, era) ==
  LET held == {id \in {cur} : Listed(c, id)}
      full == {id \in DOMAIN c : c[id].kind = "full" /\ c[id].bytes > 0}
  IN  [id \in held \cup full |->
         IF id \in held THEN Node(0, NoBuild, NoBuild) ELSE Node(c[id].bytes, NoBuild, id)]

\* Mutant: a download is considered only when nothing is held.
Seeds_heldFirst(c, cur, era) ==
  LET held == {id \in {cur} : Listed(c, id) /\ c[id].epoch = era}
      full == {id \in DOMAIN c : cur = NoBuild /\ c[id].kind = "full" /\ c[id].epoch = era}
  IN  [id \in held \cup full |->
         IF id \in held THEN Node(0, NoBuild, NoBuild) ELSE Node(c[id].bytes, NoBuild, id)]

\* Where a road may begin: the held build, unless downloading it is free, and
\* every full of the epoch that states a price.
Seeds(c, cur, era) ==
  LET held == {id \in {cur} : Listed(c, id) /\ c[id].epoch = era}
      full == {id \in DOMAIN c : c[id].kind = "full" /\ c[id].bytes > 0 /\ c[id].epoch = era}
  IN  [id \in held \cup full |->
         IF id \in held THEN Node(0, NoBuild, NoBuild) ELSE Node(c[id].bytes, NoBuild, id)]

\* Mutant: the first way found stays, cheaper ways are not taken.
relax_first(c, best, id) ==
  LET in   == routes(c[id])
      from == DOMAIN in \cap DOMAIN best
      via(f) == best[f].cost + in[f]
      f == CHOOSE f \in from : \A g \in from : via(f) <= via(g)
  IN  IF from = {} \/ id \in DOMAIN best THEN best
      ELSE [x \in DOMAIN best \cup {id} |-> IF x = id THEN Node(via(f), f, NoBuild) ELSE best[x]]

\* One build's turn in the sweep: the cheapest of its routes replaces what is
\* known of it only if strictly cheaper.  Of two routes of one price the code
\* takes the first listed, this model any one.
relax(c, best, id) ==
  LET in   == routes(c[id])
      from == DOMAIN in \cap DOMAIN best
      via(f) == best[f].cost + in[f]
      f == CHOOSE f \in from : \A g \in from : via(f) <= via(g)
  IN  IF from = {} \/ (id \in DOMAIN best /\ best[id].cost <= via(f)) THEN best
      ELSE [x \in DOMAIN best \cup {id} |-> IF x = id THEN Node(via(f), f, NoBuild) ELSE best[x]]

\* One sweep over the builds of an epoch, oldest first: after n turns each of the
\* first n has been relaxed.
sweep(c, cur, era) ==
  LET builds == {id \in DOMAIN c : c[id].epoch = era}
      \* the build with n builds before it
      at(n) == CHOOSE id \in builds : Cardinality({o \in builds : Before(c, o, id)}) = n
      best[n \in 0 .. Cardinality(builds)] ==
        IF n = 0 THEN Seeds(c, cur, era) ELSE relax(c, best[n - 1], at(n - 1))
  IN  best[Cardinality(builds)]

\* The steps that lead to id, read back along the predecessors.
walkBack(best, id) ==
  LET back[n \in 0 .. Cardinality(DOMAIN best)] ==
        IF n = 0 THEN <<id>>
        ELSE LET soFar == back[n - 1]
                 prev  == best[Head(soFar)].from
             IN  IF prev = NoBuild THEN soFar ELSE <<prev>> \o soFar
  IN  back[Cardinality(DOMAIN best)]

NoRoute == [found |-> FALSE, seed |-> NoBuild, start |-> NoBuild, steps |-> <<>>, cost |-> 0]

\* The road from cur to target that downloads the fewest bytes.  start is the
\* build the patches apply to; each step is the build whose patches are
\* applied and the build they start from.
cheapest(c, cur, target) ==
  IF ~Listed(c, target) THEN NoRoute
  ELSE
    LET era  == c[target].epoch
        best == sweep(c, cur, era)
        path == walkBack(best, target)
    IN  IF target \notin DOMAIN best THEN NoRoute
        ELSE [found |-> TRUE,
              seed  |-> best[Head(path)].seed,
              start |-> Head(path),
              steps |-> [i \in 1 .. Len(path) - 1 |-> [id |-> path[i + 1], from |-> path[i]]],
              cost  |-> best[target].cost]

=============================================================================
