------------------------------- MODULE Shelf -------------------------------
(***************************************************************************)
(* The published tree as a consumer sees it: builds.json and one directory *)
(* per build.                                                              *)
(*                                                                         *)
(* This is what the publisher promises, abstracted from how it gets there. *)
(* Every build has content of its own; a full hosts its databases, a daily *)
(* does not; a route into a build is one patch per database.  A patch is   *)
(* usually honest, turning the content of its source into the build's, but *)
(* it may lie, or be missing for a database that the source did not have.  *)
(***************************************************************************)
EXTENDS Routes

CONSTANTS Ids,         \* the builds that may be published, in publishing order
          Days,        \* the content days
          MaxEpoch,    \* the bound on lineage breaks
          Files,       \* the databases of a build
          Core,        \* filmstock.db
          PatchPrice, FullPrice,  \* the prices a patch and a full may have
          MaxFaulty,   \* the bound on patches that are not honest
          Rewrites,    \* whether a build may be rewritten in place
          Unreadable   \* whether a build may use content-hash rules the client lacks

ASSUME ShelfAssumption ==
  /\ Ids \subseteq Nat \ {NoBuild} /\ Days \subseteq Nat
  /\ MaxEpoch \in Nat /\ MaxFaulty \in Nat
  /\ Core \in Files
  /\ PatchPrice \subseteq Nat /\ FullPrice \subseteq Nat \ {0}
  /\ Rewrites \in BOOLEAN /\ Unreadable \in BOOLEAN

VARIABLES cat,       \* builds.json
          shelf,     \* the directory of each build that is still hosted
          released   \* every build ever listed, with its content day and epoch

shelfVars == <<cat, shelf, released>>

PatchKinds == {"honest", "lying", "missing"}

\* A build's directory: how often it was rewritten, whether it hosts its
\* databases, whether its hashes follow rules newer than the client's, and the
\* patches of each route into it.
Dir(gen, hosted, newRules, patch) ==
  [gen |-> gen, hosted |-> hosted, newRules |-> newRules, patch |-> patch]

OnShelf(id) == id \in DOMAIN shelf

\* What a build's databases hold, as its manifest's content hashes name it.
ContentOf(id) == [build |-> id, gen |-> shelf[id].gen]

Faulty(sh) ==
  {p \in Ids \X Ids \X Files :
     LET id == p[1]  src == p[2]  f == p[3]
     IN  id \in DOMAIN sh /\ src \in DOMAIN sh[id].patch /\ sh[id].patch[src][f] # "honest"}

tip == Latest(cat)

ShelfInit == cat = EmptyCatalog /\ shelf = EmptyCatalog /\ released = EmptyCatalog

\* The builds that may come next: ids are given out in order.
Unreleased == {id \in Ids \ DOMAIN released : \A x \in DOMAIN released : x < id}

\* A build is published: a daily or a full that continues the lineage, no older
\* than the tip and with a route from it, or a full that opens an epoch, with no
\* route in and of any day.  The hash rules a publisher follows never go back.
Release(id, kind, fresh, through, newRules, kinds, patchBytes, fullBytes) ==
  LET base  == IF fresh THEN NoBuild ELSE tip
      from  == {base} \ {NoBuild}
      epoch == (IF tip = NoBuild THEN 0 ELSE cat[tip].epoch) + (IF fresh THEN 1 ELSE 0)
  IN  /\ kind = "daily" => base # NoBuild
      /\ fresh => tip # NoBuild /\ epoch <= MaxEpoch
      /\ base # NoBuild => through >= cat[base].through
      /\ (\E x \in DOMAIN shelf : shelf[x].newRules) => newRules
      /\ LET faulty == {f \in Files : kinds[f] # "honest"}
         IN  /\ base = NoBuild => faulty = {}
             /\ Cardinality(faulty) + Cardinality(Faulty(shelf)) <= MaxFaulty
      /\ cat' = Recorded(cat, id,
                  [kind |-> kind, through |-> through, epoch |-> epoch,
                   parent |-> IF kind = "daily" THEN base ELSE NoBuild,
                   bridgeFrom |-> IF kind = "full" THEN base ELSE NoBuild,
                   edges |-> [src \in from |-> patchBytes],
                   bytes |-> IF kind = "full" THEN fullBytes ELSE 0])
      /\ shelf' = Recorded(shelf, id, Dir(0, kind = "full", newRules, [src \in from |-> kinds]))
      /\ released' = Recorded(released, id, [through |-> through, epoch |-> epoch])

\* A build older than the newest full is dropped, its entry with its directory.
Withdraw(id) ==
  /\ Listed(cat, id) /\ Before(cat, id, LatestFull(cat))
  /\ cat' = [x \in DOMAIN cat \ {id} |-> cat[x]]
  /\ shelf' = [x \in DOMAIN shelf \ {id} |-> shelf[x]]
  /\ UNCHANGED released

\* A build is rewritten where it is published, once.
Rewrite(id) ==
  /\ Rewrites /\ OnShelf(id) /\ shelf[id].gen = 0
  /\ shelf' = [shelf EXCEPT ![id].gen = 1]
  /\ UNCHANGED <<cat, released>>

ShelfNext ==
  \/ \E id \in Unreleased, kind \in Kinds, fresh \in BOOLEAN, through \in Days :
       \E newRules \in {FALSE, Unreadable}, kinds \in [Files -> PatchKinds],
          p \in PatchPrice, b \in FullPrice :
         Release(id, kind, fresh, through, newRules, kinds, p, b)
  \/ \E id \in DOMAIN cat : Withdraw(id) \/ Rewrite(id)

=============================================================================
