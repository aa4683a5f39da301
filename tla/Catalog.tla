------------------------------ MODULE Catalog ------------------------------
(***************************************************************************)
(* builds.json, the one file that lists every release: its entries, the    *)
(* order orderCatalog gives them, the tip that order names, and the        *)
(* questions the publisher and the updater ask of it.                      *)
(*                                                                         *)
(* A catalog is a function from the ids it lists to their entries.  The    *)
(* code keeps a JSON array sorted by (through, id); as ids are unique that *)
(* order is total, so the array is this function read in that order, and   *)
(* replace-or-append is one function update.                               *)
(*                                                                         *)
(* Ids are naturals whose order is the order of the id strings: a daily's  *)
(* id is its date, and every date sorts before every "f"-prefixed id of a  *)
(* full.  NoBuild is the empty string.                                     *)
(***************************************************************************)
EXTENDS Naturals, FiniteSets

NoBuild == 0

Kinds == {"full", "daily"}

\* One entry.  edges maps each build a patch route starts from to the bytes
\* it downloads; bytes is the price of the full road, 0 for a daily.
IsEntry(e, ids) ==
  /\ e \in [kind: Kinds, through: Nat, epoch: Nat, parent: ids \cup {NoBuild},
            bridgeFrom: ids \cup {NoBuild}, edges: [DOMAIN e.edges -> Nat], bytes: Nat]
  /\ DOMAIN e.edges \subseteq ids

IsCatalog(c, ids) ==
  /\ DOMAIN c \subseteq ids
  /\ \A id \in DOMAIN c : IsEntry(c[id], ids)

EmptyCatalog == [id \in {} |-> id]

Listed(c, id) == id \in DOMAIN c

----------------------------------------------------------------------------
\* orderCatalog: by content day, the id breaking ties.
Before(c, a, b) ==
  \/ c[a].through < c[b].through
  \/ c[a].through = c[b].through /\ a < b

\* The last of the builds of S in catalog order, NoBuild when there is none.
LastOf(c, S) ==
  IF S = {} THEN NoBuild
  ELSE CHOOSE id \in S : \A o \in S \ {id} : Before(c, o, id)

Latest(c) == LastOf(c, DOMAIN c)

LatestFull(c) == LastOf(c, {id \in DOMAIN c : c[id].kind = "full"})

\* The build n positions before the tip, NoBuild if the chain is shorter.
nthBack(c, n) ==
  LET here == {id \in DOMAIN c : Cardinality({o \in DOMAIN c : Before(c, id, o)}) = n}
  IN  IF here = {} THEN NoBuild ELSE CHOOSE id \in here : TRUE

----------------------------------------------------------------------------
\* Whether build a holds content later than build b: by content day, never by
\* id, and an unlisted build is not newer.
newer(c, a, b) ==
  IF b = NoBuild THEN a # NoBuild
  ELSE Listed(c, a) /\ Listed(c, b) /\ c[a].through > c[b].through

\* Mutant: any day will do once the base states one.
guardThrough_lax(c, base, through) == base = NoBuild \/ Listed(c, base)

\* The publisher's refusal of a build whose content stops before its base's.
guardThrough(c, base, through) ==
  base = NoBuild \/ (Listed(c, base) /\ through >= c[base].through)

\* CmdBuilds: replace or append one entry.
Recorded(c, id, e) ==
  [x \in DOMAIN c \cup {id} |-> IF x = id THEN e ELSE c[x]]

\* A build's incoming edges, falling back to the single parent or bridge line,
\* at no cost, for an entry written before edges existed.
routes(e) ==
  LET prev == IF e.kind = "full" THEN e.bridgeFrom ELSE e.parent
  IN  IF DOMAIN e.edges # {} THEN e.edges ELSE [f \in {prev} \ {NoBuild} |-> 0]

=============================================================================
