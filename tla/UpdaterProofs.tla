---------------------------- MODULE UpdaterProofs ----------------------------
(***************************************************************************)
(* The consumer never loses what it holds, and only ever moves to content  *)
(* at least as late: Updater implements Lineage, for any number of builds, *)
(* databases, failures and crashes, on a shelf where no build is rewritten *)
(* in place and for a consumer whose state records what it holds.          *)
(*                                                                         *)
(* Two invariants carry the proof.  TypeInv, which holds of any shelf,     *)
(* types the variables and says which locals of a call mean something in   *)
(* which phase.  UInv adds what the call has established so far: what it   *)
(* found in use is untouched, what it will commit is whole, and is no      *)
(* older.  That last part rests on what the consumer's catalog, read once  *)
(* and perhaps outdated, says of a build it does not list any more: such a *)
(* build was older than the newest full (Covers).                          *)
(***************************************************************************)
EXTENDS Updater, CatalogProofs

Roads == {"none", "cheapest", "full", "retake"}

StepSeqs == Seq([id: Ids, from: Ids])

OneFile == [content: Contents, raw: BOOLEAN]

IsShelf(c) == IsCatalog(c, Ids) /\ IsFiniteSet(DOMAIN c)

\* The shelf: what is listed is hosted, and was published.
ShelfInv ==
  /\ IsShelf(cat) /\ cat = [id \in DOMAIN cat |-> cat[id]]
  /\ DOMAIN shelf = DOMAIN cat /\ DOMAIN cat \subseteq DOMAIN released /\ DOMAIN released \subseteq Ids
  /\ \A id \in DOMAIN shelf : shelf[id].gen \in 0 .. 1
  /\ \A id \in DOMAIN cat : DOMAIN routes(cat[id]) \subseteq DOMAIN released

ConsumerTypes ==
  /\ disk \in [Ids -> [Files -> OneFile]]
  /\ state \in [current: Ids \cup {NoBuild}, content: Contents]
  /\ pc \in Phases
  /\ faults \in 0 .. MaxFaults

Calls(view) ==
  [view: {view}, cur: Ids \cup {NoBuild}, road: Roads, base: Ids \cup {NoBuild},
   steps: StepSeqs, k: Nat, todo: SUBSET Files, want: Contents, dest: Ids \cup {NoBuild}]

CallTypes == call \in Calls(call.view) /\ IsShelf(call.view) /\ call.k <= Len(call.steps)

Patching == {"wipe", "carry", "apply", "verify"}
Ending == {"finish", "commit", "record"}

\* What the locals of a call are good for in each phase.  The patches always lead
\* to the newest build of the call's catalog.
CallInv ==
  /\ pc # "idle" => DOMAIN call.view # {}
  /\ pc = "retake" => call.cur \in Ids
  /\ pc \in {"fetch", "onward"} \cup Patching => call.base \in Ids
  /\ pc \in {"fetch"} \cup Patching /\ call.steps # <<>> => target = Latest(call.view)
  /\ pc \in Patching => call.steps # <<>>
  /\ pc \in {"choose", "fetch", "onward", "wipe"} => call.k = 0
  /\ pc \in {"carry", "apply"} => call.k > 0 /\ call.todo # {}
  /\ pc \in {"carry", "apply", "verify"} => call.dest = target
  /\ pc \in Ending => call.dest \in Ids

TypeInv == ShelfInv /\ ConsumerTypes /\ CallTypes /\ CallInv

----------------------------------------------------------------------------
\* Which assumptions the proofs use.
LEMMA Params ==
  /\ Ids \in SUBSET (Nat \ {NoBuild}) /\ Ids \subseteq Nat /\ NoBuild \notin Ids
  /\ Days \subseteq Nat /\ Core \in Files
  /\ PatchPrice \subseteq Nat /\ FullPrice \subseteq Nat \ {0} /\ MaxFaults \in Nat
BY ShelfAssumption, UpdaterAssumption

LEMMA ShelfFacts ==
  ASSUME NEW c, IsShelf(c)
  PROVE  /\ Ordered(c) /\ DOMAIN c \subseteq Ids
         /\ \A S \in SUBSET DOMAIN c : HasLast(c, S)
<1>1. Ordered(c) /\ DOMAIN c \subseteq Ids
  BY Params DEF IsShelf, IsCatalog, IsEntry, Ordered
<1>2. ASSUME NEW S \in SUBSET DOMAIN c PROVE HasLast(c, S)
  BY <1>1, FS_Subset, FiniteHasLast DEF IsShelf
<1> QED BY <1>1, <1>2

\* The newest build and the newest full are builds of the catalog.
LEMMA NewestAreListed ==
  ASSUME NEW c, IsShelf(c)
  PROVE  /\ DOMAIN c # {} => Latest(c) \in DOMAIN c /\ Latest(c) \in Ids
         /\ LatestFull(c) # NoBuild => /\ LatestFull(c) \in DOMAIN c /\ LatestFull(c) \in Ids
                                       /\ c[LatestFull(c)].kind = "full"
<1> DEFINE F == {x \in DOMAIN c : c[x].kind = "full"}
<1>1. HasLast(c, DOMAIN c) /\ HasLast(c, F) /\ DOMAIN c \subseteq Ids
  BY ShelfFacts
<1>2. LatestFull(c) # NoBuild => F # {}
  BY DEF LatestFull, LastOf
<1> QED BY <1>1, <1>2, LastOfIsLast DEF Latest, LatestFull

\* A sequence over a set is one over a larger set.
LEMMA SeqGrows ==
  ASSUME NEW A, NEW B, A \subseteq B, NEW s \in Seq(A)
  PROVE  s \in Seq(B)
<1>1. Len(s) \in Nat /\ s = [i \in 1 .. Len(s) |-> s[i]]
  OBVIOUS
<1>2. \A i \in 1 .. Len(s) : s[i] \in B
  OBVIOUS
<1> QED BY <1>1, <1>2

\* What the search returns for the newest build of a catalog.
LEMMA RoadFacts ==
  ASSUME NEW c, IsShelf(c), DOMAIN c # {}, NEW cur
  PROVE  LET r == cheapest(c, cur, Latest(c))
         IN  /\ r.steps \in StepSeqs
             /\ r.seed \in DOMAIN c \cup {NoBuild}
             /\ r.steps = <<>> /\ r.seed # NoBuild => r.seed = Latest(c)
             /\ r.steps # <<>> => /\ r.steps[Len(r.steps)].id = Latest(c)
                                  /\ r.seed = NoBuild => cur \in DOMAIN c
<1> DEFINE t == Latest(c)
           r == cheapest(c, cur, t)
<1>1. Ordered(c) /\ DOMAIN c \subseteq Ids /\ t \in DOMAIN c
  BY ShelfFacts, NewestAreListed
<1>2. InOrder(c, cur, c[t].epoch, {})
  BY DEF InOrder
<1>3. (r.found => IsRoad(c, cur, t, r)) /\ (~r.found => r = NoRoute)
  <2> HIDE DEF t
  <2>1. t \in DOMAIN c
    BY <1>1
  <2> QED BY <1>1, <1>2, <2>1, CheapestIsARoad, Params DEF IsShelf
<1> HIDE DEF r, t
<1>4. CASE r.found
  <2>1. /\ r.steps \in Seq([id: DOMAIN c, from: DOMAIN c])
        /\ Len(r.steps) \in Nat /\ (Len(r.steps) = 0 <=> r.steps = <<>>)
        /\ r.start = IF r.seed = NoBuild THEN cur ELSE r.seed
        /\ r.start \in DOMAIN c
        /\ t = IF Len(r.steps) = 0 THEN r.start ELSE r.steps[Len(r.steps)].id
    BY <1>3, <1>4 DEF IsRoad
  <2>2. r.steps \in StepSeqs
    <3> DEFINE A == [id: DOMAIN c, from: DOMAIN c]
               B == [id: Ids, from: Ids]
               s == r.steps
    <3>1. A \subseteq B /\ s \in Seq(A)
      BY <1>1, <2>1
    <3> HIDE DEF A, B, s
    <3>2. s \in Seq(B)
      BY <3>1, SeqGrows
    <3> QED BY <3>2 DEF StepSeqs, B, s
  <2> QED BY <1>1, <2>1, <2>2 DEF r, t
<1>5. CASE ~r.found
  <2>1. r.steps = <<>> /\ r.seed = NoBuild
    BY <1>3, <1>5 DEF NoRoute
  <2> QED BY <2>1 DEF r, t, StepSeqs
<1> QED BY <1>4, <1>5

----------------------------------------------------------------------------
\* What a publish leaves behind: one more build, after all that came before it,
\* with a route from the old tip at most.
Grows(id, kind, through) ==
  /\ id \in Ids /\ id \notin DOMAIN cat
  /\ cat' = Recorded(cat, id, cat'[id])
  /\ IsEntry(cat'[id], Ids) /\ cat'[id].through = through /\ cat'[id].kind = kind
  /\ kind = "daily" => DOMAIN cat # {}
  /\ \A x \in DOMAIN routes(cat'[id]) : x \in DOMAIN cat /\ Before(cat', x, id)
  /\ DOMAIN shelf' = DOMAIN shelf \cup {id} /\ \A x \in DOMAIN shelf : shelf'[x] = shelf[x]
  /\ shelf'[id].gen = 0
  /\ id \notin DOMAIN released /\ released' = Recorded(released, id, released'[id])
  /\ released'[id].through = through

\* What the shelf may do.
LEMMA ShelfGrows ==
  ASSUME ShelfInv, ShelfNext
  PROVE  \/ \E id \in Ids, kind \in Kinds, through \in Days : Grows(id, kind, through)
         \/ \E id \in DOMAIN cat : Withdraw(id) \/ Rewrite(id)
<1>1. ASSUME NEW id \in Unreleased, NEW kind \in Kinds, NEW fresh \in BOOLEAN,
             NEW through \in Days, NEW newRules \in {FALSE, Unreadable},
             NEW kinds \in [Files -> PatchKinds], NEW p \in PatchPrice,
             NEW b \in FullPrice, Release(id, kind, fresh, through, newRules, kinds, p, b)
      PROVE  id \in Ids /\ Grows(id, kind, through)
  <2> DEFINE base  == IF fresh THEN NoBuild ELSE tip
             from  == {base} \ {NoBuild}
             epoch == (IF tip = NoBuild THEN 0 ELSE cat[tip].epoch) + (IF fresh THEN 1 ELSE 0)
             e == [kind |-> kind, through |-> through, epoch |-> epoch,
                   parent |-> IF kind = "daily" THEN base ELSE NoBuild,
                   bridgeFrom |-> IF kind = "full" THEN base ELSE NoBuild,
                   edges |-> [src \in from |-> p],
                   bytes |-> IF kind = "full" THEN b ELSE 0]
  <2>1. /\ cat' = Recorded(cat, id, e)
        /\ shelf' = Recorded(shelf, id, Dir(0, kind = "full", newRules, [src \in from |-> kinds]))
        /\ released' = Recorded(released, id, [through |-> through, epoch |-> epoch])
        /\ kind = "daily" => base # NoBuild
        /\ base # NoBuild => through >= cat[base].through
    BY <1>1 DEF Release
  <2>2. id \in Ids /\ id \notin DOMAIN released /\ \A x \in DOMAIN released : x < id
    BY DEF Unreleased
  <2>3. id \notin DOMAIN cat /\ id \notin DOMAIN shelf
    BY <2>2 DEF ShelfInv
  <2>4. tip # NoBuild => tip \in DOMAIN cat /\ tip \in Ids
    BY NewestAreListed DEF ShelfInv, tip, Latest, LastOf
  <2>5. epoch \in Nat /\ base \in Ids \cup {NoBuild} /\ from \subseteq DOMAIN cat /\ from \subseteq Ids
    BY <2>4 DEF ShelfInv, IsShelf, IsCatalog, IsEntry
  <2>6. through \in Nat /\ p \in Nat /\ b \in Nat
    BY Params
  <2> HIDE DEF epoch
  <2>7. e.edges \in [DOMAIN e.edges -> Nat] /\ DOMAIN e.edges = from
    BY <2>6
  <2>8. IsEntry(e, Ids)
    <3>1. e \in [kind: Kinds, through: Nat, epoch: Nat, parent: Ids \cup {NoBuild},
                 bridgeFrom: Ids \cup {NoBuild}, edges: [DOMAIN e.edges -> Nat], bytes: Nat]
      BY <2>5, <2>6, <2>7
    <3> QED BY <2>5, <2>7, <3>1 DEF IsEntry
  <2>9. /\ e.through = through /\ e.kind = kind
        /\ e.parent = (IF kind = "daily" THEN base ELSE NoBuild)
        /\ e.bridgeFrom = (IF kind = "full" THEN base ELSE NoBuild)
    OBVIOUS
  <2> HIDE DEF e
  <2>10. DOMAIN routes(e) \subseteq from
    BY <2>7, <2>9 DEF routes
  <2>11. /\ DOMAIN cat' = DOMAIN cat \cup {id} /\ cat'[id] = e
         /\ \A x \in DOMAIN cat : cat'[x] = cat[x]
         /\ cat' = Recorded(cat, id, cat'[id])
    BY <2>1, <2>3 DEF Recorded
  <2>12. /\ DOMAIN shelf' = DOMAIN shelf \cup {id} /\ shelf'[id].gen = 0
         /\ \A x \in DOMAIN shelf : shelf'[x] = shelf[x]
    BY <2>1, <2>3 DEF Recorded, Dir
  <2>13. /\ DOMAIN released' = DOMAIN released \cup {id} /\ released'[id].through = through
         /\ released' = Recorded(released, id, released'[id])
    BY <2>1, <2>2 DEF Recorded
  <2>14. ASSUME NEW x \in DOMAIN routes(e) PROVE x \in DOMAIN cat /\ Before(cat', x, id)
    <3>1. x = base /\ base # NoBuild /\ x \in DOMAIN cat
      BY <2>5, <2>10
    <3>2. cat'[x].through <= cat'[id].through /\ x < id /\ cat'[x].through \in Nat
      BY <2>1, <2>2, <2>6, <2>9, <2>11, <3>1 DEF ShelfInv, IsShelf, IsCatalog, IsEntry
    <3> QED BY <2>6, <2>9, <2>11, <3>1, <3>2 DEF Before
  <2>15. kind = "daily" => DOMAIN cat # {}
    BY <2>1, <2>4
  <2> QED BY <2>2, <2>3, <2>8, <2>9, <2>11, <2>12, <2>13, <2>14, <2>15 DEF Grows
<1>2. CASE \E id \in DOMAIN cat : Withdraw(id) \/ Rewrite(id)
  BY ONLY <1>2
<1>3. ASSUME NEW id \in Unreleased,
             \E kind \in Kinds, fresh \in BOOLEAN, through \in Days :
               \E newRules \in {FALSE, Unreadable}, kinds \in [Files -> PatchKinds],
                  p \in PatchPrice, b \in FullPrice :
                 Release(id, kind, fresh, through, newRules, kinds, p, b)
      PROVE  id \in Ids /\ \E kind \in Kinds, through \in Days : Grows(id, kind, through)
  <2>1. PICK kind \in Kinds, fresh \in BOOLEAN, through \in Days :
          \E newRules \in {FALSE, Unreadable}, kinds \in [Files -> PatchKinds],
             p \in PatchPrice, b \in FullPrice :
            Release(id, kind, fresh, through, newRules, kinds, p, b)
    BY ONLY <1>3
  <2>2. PICK newRules \in {FALSE, Unreadable}, kinds \in [Files -> PatchKinds],
             p \in PatchPrice, b \in FullPrice :
          Release(id, kind, fresh, through, newRules, kinds, p, b)
    BY ONLY <2>1
  <2>3. id \in Ids /\ Grows(id, kind, through)
    BY ONLY <1>1, <1>3, <2>1, <2>2
  <2> QED BY ONLY <2>1, <2>3
<1>4. (\E id \in Unreleased, kind \in Kinds, fresh \in BOOLEAN, through \in Days :
         \E newRules \in {FALSE, Unreadable}, kinds \in [Files -> PatchKinds],
            p \in PatchPrice, b \in FullPrice :
           Release(id, kind, fresh, through, newRules, kinds, p, b))
      \/ \E id \in DOMAIN cat : Withdraw(id) \/ Rewrite(id)
  BY ONLY ShelfNext DEF ShelfNext
<1> QED BY ONLY <1>2, <1>3, <1>4

\* What the shelf does keeps what is true of it.
LEMMA ShelfSteps ==
  ASSUME ShelfInv, ShelfNext
  PROVE  ShelfInv'
<1>1. ASSUME NEW id \in Ids, NEW kind \in Kinds, NEW through \in Days,
             Grows(id, kind, through)
      PROVE  ShelfInv'
  <2>1. /\ id \in Ids /\ id \notin DOMAIN cat
        /\ DOMAIN cat' = DOMAIN cat \cup {id} /\ \A x \in DOMAIN cat : cat'[x] = cat[x]
        /\ cat' = [x \in DOMAIN cat' |-> cat'[x]]
        /\ IsEntry(cat'[id], Ids)
        /\ \A x \in DOMAIN routes(cat'[id]) : x \in DOMAIN cat /\ Before(cat', x, id)
        /\ DOMAIN shelf' = DOMAIN shelf \cup {id} /\ shelf'[id].gen = 0
        /\ \A x \in DOMAIN shelf : shelf'[x] = shelf[x]
        /\ id \notin DOMAIN released /\ DOMAIN released' = DOMAIN released \cup {id}
    BY <1>1 DEF Grows, Recorded
  <2>2. IsCatalog(cat', Ids)
    BY <2>1 DEF ShelfInv, IsShelf, IsCatalog
  <2>3. IsFiniteSet(DOMAIN cat')
    BY <2>1, FS_AddElement DEF ShelfInv, IsShelf
  <2>5. \A x \in DOMAIN cat' : DOMAIN routes(cat'[x]) \subseteq DOMAIN released'
    <3>1. \A x \in DOMAIN cat : DOMAIN routes(cat'[x]) \subseteq DOMAIN released'
      BY <2>1 DEF ShelfInv
    <3>2. DOMAIN routes(cat'[id]) \subseteq DOMAIN released'
      BY <2>1 DEF ShelfInv
    <3> QED BY <2>1, <3>1, <3>2
  <2>6. \A x \in DOMAIN shelf' : shelf'[x].gen \in 0 .. 1
    BY <2>1 DEF ShelfInv
  <2>7. /\ DOMAIN shelf' = DOMAIN cat' /\ DOMAIN cat' \subseteq DOMAIN released'
        /\ DOMAIN released' \subseteq Ids
    BY <2>1 DEF ShelfInv
  <2> QED BY <2>1, <2>2, <2>3, <2>5, <2>6, <2>7 DEF ShelfInv, IsShelf
<1>2. ASSUME NEW id \in DOMAIN cat, Withdraw(id)
      PROVE  ShelfInv'
  <2>1. /\ cat' = [x \in DOMAIN cat' |-> cat'[x]]
        /\ DOMAIN cat' = DOMAIN cat \ {id} /\ \A x \in DOMAIN cat' : cat'[x] = cat[x]
        /\ DOMAIN shelf' = DOMAIN shelf \ {id} /\ \A x \in DOMAIN shelf' : shelf'[x] = shelf[x]
        /\ released' = released
    BY <1>2 DEF Withdraw
  <2>2. IsCatalog(cat', Ids)
    BY <2>1 DEF ShelfInv, IsShelf, IsCatalog
  <2>3. IsFiniteSet(DOMAIN cat')
    BY <2>1, FS_Subset DEF ShelfInv, IsShelf
  <2>5. \A x \in DOMAIN cat' : DOMAIN routes(cat'[x]) \subseteq DOMAIN released'
    BY <2>1 DEF ShelfInv
  <2>6. \A x \in DOMAIN shelf' : shelf'[x].gen \in 0 .. 1
    BY <2>1 DEF ShelfInv
  <2>7. /\ DOMAIN shelf' = DOMAIN cat' /\ DOMAIN cat' \subseteq DOMAIN released'
        /\ DOMAIN released' \subseteq Ids
    BY <2>1 DEF ShelfInv
  <2> QED BY <2>1, <2>2, <2>3, <2>5, <2>6, <2>7 DEF ShelfInv, IsShelf
<1>3. ASSUME NEW id \in DOMAIN cat, Rewrite(id)
      PROVE  ShelfInv'
  <2>1. /\ DOMAIN shelf' = DOMAIN shelf /\ cat' = cat /\ released' = released
        /\ shelf' = [shelf EXCEPT ![id].gen = 1]
    BY <1>3 DEF Rewrite
  <2>2. \A x \in DOMAIN shelf' : shelf'[x].gen \in 0 .. 1
    <3> SUFFICES ASSUME NEW x \in DOMAIN shelf PROVE shelf'[x].gen \in 0 .. 1
      BY <2>1
    <3>1. shelf[x].gen \in 0 .. 1
      BY DEF ShelfInv
    <3>2. CASE x = id
      <4>1. shelf'[x] = [shelf[x] EXCEPT !.gen = 1]
        BY <2>1, <3>2
      <4> QED BY <3>1, <4>1
    <3>3. CASE x # id
      BY <2>1, <3>1, <3>3
    <3> QED BY <3>2, <3>3
  <2> QED BY <2>1, <2>2 DEF ShelfInv, IsShelf
<1> QED BY <1>1, <1>2, <1>3, ShelfGrows

----------------------------------------------------------------------------
\* Types of the consumer.
CallOK == ConsumerTypes /\ CallTypes /\ CallInv

\* The locals of a call are fields of a record.
LEMMA CallFacts ==
  ASSUME CallTypes
  PROVE  /\ call \in Calls(call.view) /\ IsShelf(call.view)
         /\ Len(call.steps) \in Nat /\ call.k \in 0 .. Len(call.steps)
         /\ \A i \in 1 .. Len(call.steps) : call.steps[i].id \in Ids /\ call.steps[i].from \in Ids
         /\ call.steps # <<>> => target \in Ids /\ Len(call.steps) > 0
<1>1. call.steps \in StepSeqs /\ call.k \in Nat
  BY DEF CallTypes, Calls
<1>2. /\ Len(call.steps) \in Nat
      /\ \A i \in 1 .. Len(call.steps) : call.steps[i] \in [id: Ids, from: Ids]
      /\ call.steps # <<>> => Len(call.steps) \in 1 .. Len(call.steps)
  <2> DEFINE A == [id: Ids, from: Ids]
             s == call.steps
  <2>1. s \in Seq(A)
    BY <1>1 DEF StepSeqs
  <2> HIDE DEF A, s
  <2>2. Len(s) \in Nat /\ (\A i \in 1 .. Len(s) : s[i] \in A) /\ (s # <<>> => Len(s) \in 1 .. Len(s))
    BY <2>1
  <2> QED BY <2>2 DEF A, s
<1> QED BY <1>1, <1>2 DEF CallTypes, target

LEMMA ContentTypes ==
  ASSUME ShelfInv
  PROVE  /\ NoContent \in Contents /\ Missing \in OneFile /\ Junk \in OneFile
         /\ \A id : OnShelf(id) => id \in Ids /\ ContentOf(id) \in Contents
BY DEF ShelfInv, NoContent, Missing, Junk, OneFile, Contents, ContentOf, OnShelf

\* Emptying a directory keeps the disk's type.
LEMMA EmptiedTypes ==
  ASSUME ConsumerTypes, ShelfInv, NEW id
  PROVE  [disk EXCEPT ![id] = NoFiles] \in [Ids -> [Files -> OneFile]]
<1>1. NoFiles \in [Files -> OneFile]
  BY ContentTypes DEF NoFiles
<1> QED BY <1>1 DEF ConsumerTypes

\* So does rebuilding an index.
LEMMA RebuiltTypes ==
  ASSUME ConsumerTypes, NEW id \in Ids
  PROVE  [disk EXCEPT ![id][Core].raw = FALSE] \in [Ids -> [Files -> OneFile]]
<1> DEFINE x == [disk[id][Core] EXCEPT !.raw = FALSE]
<1>1. disk \in [Ids -> [Files -> OneFile]] /\ Core \in Files
  BY Params DEF ConsumerTypes
<1>2. [disk EXCEPT ![id][Core].raw = FALSE] = [disk EXCEPT ![id][Core] = x]
  BY <1>1
<1>3. x \in OneFile
  <2>1. disk[id][Core] \in OneFile
    BY <1>1
  <2> QED BY <2>1 DEF OneFile
<1> HIDE DEF x
<1>4. [disk EXCEPT ![id][Core] = x] \in [Ids -> [Files -> OneFile]]
  BY <1>1, <1>3
<1> QED BY <1>2, <1>4

\* Fetching starts with the newest build's road in hand.
LEMMA StartFetchTypes ==
  ASSUME ShelfInv, CallOK, pc # "idle", NEW id \in Ids, NEW road \in Roads, NEW steps \in StepSeqs,
         steps # <<>> => steps[Len(steps)].id = Latest(call.view),
         StartFetch(id, road, steps), UNCHANGED <<state, faults>>,
         disk' \in [Ids -> [Files -> OneFile]]
  PROVE  CallOK'
<1>1. call \in Calls(call.view) /\ IsShelf(call.view)
  BY CallFacts DEF CallOK
<1>2. (IF OnShelf(id) THEN ContentOf(id) ELSE NoContent) \in Contents
  BY ContentTypes
<1>3. /\ call' = [call EXCEPT !.road = road, !.base = id, !.steps = steps, !.k = 0, !.todo = Files,
                              !.want = IF OnShelf(id) THEN ContentOf(id) ELSE NoContent]
      /\ pc' = "fetch"
  BY DEF StartFetch
<1>4. /\ call' \in Calls(call.view) /\ call'.view = call.view /\ call'.steps = steps
      /\ call'.k = 0 /\ call'.base = id
  BY <1>1, <1>2, <1>3 DEF Calls
<1>5. ConsumerTypes'
  BY <1>3 DEF CallOK, ConsumerTypes, Phases
<1>6. CallTypes'
  <2>1. Len(steps) \in Nat
    BY DEF StepSeqs
  <2> QED BY <1>1, <1>4, <2>1 DEF CallTypes, IsShelf
<1>7. CallInv'
  BY <1>3, <1>4 DEF CallOK, CallInv, Patching, Ending, target
<1> QED BY <1>5, <1>6, <1>7 DEF CallOK

\* A call that has ended has the types of one that has not begun.
LEMMA ReturnTypes ==
  ASSUME ShelfInv, CallOK, Return, state' \in [current: Ids \cup {NoBuild}, content: Contents],
         faults' \in 0 .. MaxFaults, disk' \in [Ids -> [Files -> OneFile]]
  PROVE  CallOK'
<1>1. pc' = "idle" /\ call' = NoCall
  BY DEF Return
<1>2. NoCall \in Calls(EmptyCatalog) /\ NoCall.view = EmptyCatalog /\ NoCall.k <= Len(NoCall.steps)
  BY ContentTypes DEF NoCall, Calls, Roads, StepSeqs
<1>3. IsShelf(EmptyCatalog)
  <2>1. DOMAIN EmptyCatalog = {}
    BY DEF EmptyCatalog
  <2> QED BY <2>1, FS_EmptySet DEF IsShelf, IsCatalog
<1>4. CallTypes'
  BY <1>1, <1>2, <1>3 DEF CallTypes
<1>5. ConsumerTypes'
  BY <1>1 DEF ConsumerTypes, Phases
<1>6. CallInv'
  BY <1>1 DEF CallInv, Patching, Ending
<1> QED BY <1>4, <1>5, <1>6 DEF CallOK

\* The shelf is the publisher's alone.
LEMMA ConsumerLeavesShelf ==
  ASSUME \/ \E id \in Ids : Install(id)
         \/ Choose \/ ChooseOnward \/ UpdaterStep \/ NetworkFails \/ Crash
  PROVE  UNCHANGED shelfVars
BY DEF Install, Choose, ChooseOnward, UpdaterStep, NetworkFails, Crash, Call, TakeFull, Retake,
   Fetch, EndFetch, Wipe, Carry, Apply, Verify, ChainFails, Finish, Commit, Record, GiveUp

\* Each of the consumer's steps keeps the types of what it holds and of the call.
LEMMA ConsumerStepTypes ==
  ASSUME ShelfInv, CallOK,
         \/ \E id \in Ids : Install(id)
         \/ Choose \/ ChooseOnward \/ UpdaterStep \/ NetworkFails \/ Crash
  PROVE  CallOK'
<1> DEFINE Builds0 == Ids \cup {NoBuild}
<1>1. /\ disk \in [Ids -> [Files -> OneFile]] /\ faults \in 0 .. MaxFaults
      /\ state \in [current: Builds0, content: Contents]
  BY DEF CallOK, ConsumerTypes
<1>2. /\ call \in Calls(call.view) /\ IsShelf(call.view)
      /\ Len(call.steps) \in Nat /\ call.k \in 0 .. Len(call.steps)
      /\ \A i \in 1 .. Len(call.steps) : call.steps[i].id \in Ids /\ call.steps[i].from \in Ids
      /\ call.steps # <<>> => target \in Ids /\ Len(call.steps) > 0
  BY CallFacts DEF CallOK
<1>3. CallInv
  BY DEF CallOK
<1>4. ASSUME NEW id \in Ids, Install(id) PROVE CallOK'
  <2>1. ContentOf(id) \in Contents
    BY <1>4, ContentTypes DEF Install
  <2>2. [f \in Files |-> [content |-> ContentOf(id), raw |-> FALSE]] \in [Files -> OneFile]
    BY <2>1 DEF OneFile
  <2>3. disk' \in [Ids -> [Files -> OneFile]]
    BY <1>1, <1>4, <2>2 DEF Install
  <2>4. ConsumerTypes'
    BY <1>4, <2>3, ContentTypes DEF Install, CallOK, ConsumerTypes
  <2>5. CallTypes' /\ CallInv'
    BY <1>4 DEF Install, CallOK, CallTypes, CallInv, target, IsShelf
  <2> QED BY <2>4, <2>5 DEF CallOK
<1>5. ASSUME Call PROVE CallOK'
  <2>1. /\ call' = [NoCall EXCEPT !.view = cat, !.cur = state.current]
        /\ pc' \in {"retake", "choose"} /\ (pc' = "retake" => standPat(cat, state.current))
        /\ cat # EmptyCatalog /\ UNCHANGED <<shelfVars, disk, state, faults>>
    BY <1>5 DEF Call
  <2>2. DOMAIN cat # {}
    <3> SUFFICES ASSUME DOMAIN cat = {} PROVE FALSE
      OBVIOUS
    <3>1. cat = EmptyCatalog
      BY DEF ShelfInv, EmptyCatalog
    <3> QED BY <2>1, <3>1
  <2>3. call' \in Calls(cat) /\ call'.view = cat /\ call'.cur = state.current /\ call'.k = 0
        /\ call'.steps = <<>>
    <3>1. NoCall \in Calls(EmptyCatalog) /\ NoCall.k = 0 /\ NoCall.steps = <<>>
      BY ContentTypes DEF NoCall, Calls, Roads, StepSeqs
    <3>2. call' \in Calls(cat) /\ call'.view = cat /\ call'.cur = state.current
          /\ call'.k = 0 /\ call'.steps = <<>>
      BY <1>1, <2>1, <3>1 DEF Calls
    <3> QED BY <3>2
  <2>4. CallTypes'
    BY <2>3 DEF CallTypes, ShelfInv, IsShelf
  <2>5. pc' = "retake" => call'.cur \in Ids
    <3>1. DOMAIN cat \subseteq Ids
      BY ShelfFacts DEF ShelfInv
    <3> QED BY <1>1, <2>1, <2>3, <3>1 DEF standPat, Listed
  <2>6. CallInv'
    BY <2>1, <2>2, <2>3, <2>5 DEF CallInv, Patching, Ending
  <2>7. ConsumerTypes'
    BY <2>1 DEF CallOK, ConsumerTypes, Phases
  <2> QED BY <2>4, <2>6, <2>7 DEF CallOK
<1>6. ASSUME Choose PROVE CallOK'
  <2> DEFINE r == cheapest(call.view, call.cur, Latest(call.view))
  <2>1. pc = "choose" /\ UNCHANGED <<shelfVars, disk, state, faults>>
    BY <1>6 DEF Choose
  <2>2. DOMAIN call.view # {}
    BY <1>3, <2>1 DEF CallInv
  <2>3. /\ r.steps \in StepSeqs
        /\ r.seed \in Ids \cup {NoBuild}
        /\ r.steps # <<>> => /\ r.steps[Len(r.steps)].id = Latest(call.view)
                             /\ r.seed = NoBuild => call.cur \in Ids
    BY <1>2, <2>2, RoadFacts, ShelfFacts
  <2>4. \/ r.seed # NoBuild /\ StartFetch(r.seed, "cheapest", r.steps)
        \/ /\ r.seed = NoBuild /\ r.steps # <<>> /\ pc' = "wipe"
           /\ call' = [call EXCEPT !.road = "cheapest", !.base = call.cur, !.steps = r.steps]
        \/ pc' = "full" /\ UNCHANGED call
    BY <1>6 DEF Choose
  <2> HIDE DEF r
  <2>5. CASE r.seed # NoBuild /\ StartFetch(r.seed, "cheapest", r.steps)
    <3>1. r.seed \in Ids /\ "cheapest" \in Roads /\ disk' \in [Ids -> [Files -> OneFile]]
      BY <1>1, <2>1, <2>3, <2>5 DEF Roads
    <3> QED BY <2>1, <2>3, <2>5, <3>1, StartFetchTypes
  <2>6. CASE /\ r.seed = NoBuild /\ r.steps # <<>> /\ pc' = "wipe"
             /\ call' = [call EXCEPT !.road = "cheapest", !.base = call.cur, !.steps = r.steps]
    <3>1. /\ call' \in Calls(call.view) /\ call'.view = call.view /\ call'.steps = r.steps
          /\ call'.base = call.cur /\ call'.k = call.k
      BY <1>2, <2>3, <2>6 DEF Calls, Roads
    <3>2. call.k = 0 /\ Len(r.steps) \in Nat
      BY <1>3, <2>1, <2>3 DEF CallInv, StepSeqs
    <3>3. CallTypes'
      BY <1>2, <3>1, <3>2 DEF CallTypes, IsShelf
    <3>4. ConsumerTypes'
      BY <1>1, <2>1, <2>6 DEF ConsumerTypes, Phases
    <3>5. CallInv'
      BY <2>2, <2>3, <2>6, <3>1, <3>2 DEF CallInv, Patching, Ending, target
    <3> QED BY <3>3, <3>4, <3>5 DEF CallOK
  <2>7. CASE pc' = "full" /\ UNCHANGED call
    BY <1>1, <1>2, <2>1, <2>2, <2>7 DEF CallOK, ConsumerTypes, CallTypes, CallInv, Phases, Patching, Ending,
       IsShelf, target
  <2> QED BY <2>4, <2>5, <2>6, <2>7
<1>7. ASSUME TakeFull PROVE CallOK'
  <2> DEFINE full == LatestFull(call.view)
  <2>1. /\ pc = "full" /\ full # NoBuild /\ UNCHANGED <<shelfVars, disk, state, faults>>
        /\ \/ pc' = "retake" /\ UNCHANGED call /\ refusesFull(call.view, call.cur, full)
           \/ Return
           \/ StartFetch(full, "full", <<>>)
    BY <1>7 DEF TakeFull
  <2>2. full \in Ids /\ call.view = call.view
    BY <1>2, <2>1, NewestAreListed
  <2> HIDE DEF full
  <2>3. CASE pc' = "retake" /\ UNCHANGED call /\ refusesFull(call.view, call.cur, full)
    <3>1. call.cur \in Ids
      BY <1>2, <2>3, ShelfFacts DEF refusesFull, Listed
    <3> QED BY <1>1, <1>2, <1>3, <2>1, <2>3, <3>1 DEF CallOK, ConsumerTypes, CallTypes, CallInv, Phases,
          Patching, Ending, IsShelf, target
  <2>4. CASE Return
    BY <1>1, <2>1, <2>4, ReturnTypes
  <2>5. CASE StartFetch(full, "full", <<>>)
    <3>1. "full" \in Roads /\ <<>> \in StepSeqs /\ disk' \in [Ids -> [Files -> OneFile]]
      BY <1>1, <2>1 DEF Roads, StepSeqs
    <3> QED BY <2>1, <2>2, <2>5, <3>1, StartFetchTypes
  <2> QED BY <2>1, <2>3, <2>4, <2>5
<1>8. ASSUME Retake PROVE CallOK'
  <2>1. /\ pc = "retake" /\ UNCHANGED <<shelfVars, state, faults>>
        /\ disk' = [disk EXCEPT ![call.cur] = NoFiles]
        /\ StartFetch(call.cur, "retake", <<>>)
    BY <1>8 DEF Retake
  <2>2. call.cur \in Ids /\ "retake" \in Roads /\ <<>> \in StepSeqs
    BY <1>3, <2>1 DEF CallInv, Roads, StepSeqs
  <2>3. disk' \in [Ids -> [Files -> OneFile]]
    BY <2>1, EmptiedTypes DEF CallOK
  <2> QED BY <2>1, <2>2, <2>3, StartFetchTypes
<1>9. ASSUME Fetch PROVE CallOK'
  <2>1. /\ pc = "fetch" /\ UNCHANGED <<shelfVars, state, pc, faults>>
        /\ disk' = [disk EXCEPT ![call.base][file] = [content |-> call.want, raw |-> TRUE]]
        /\ call' = [call EXCEPT !.todo = @ \ {file}]
    BY <1>9 DEF Fetch
  <2>2. [content |-> call.want, raw |-> TRUE] \in OneFile
    BY <1>2 DEF Calls, OneFile
  <2>3. disk' \in [Ids -> [Files -> OneFile]]
    BY <1>1, <2>1, <2>2
  <2>4. /\ call' \in Calls(call.view) /\ call'.view = call.view /\ call'.steps = call.steps
        /\ call'.base = call.base /\ call'.k = call.k
    BY <1>2, <2>1 DEF Calls
  <2>5. ConsumerTypes' /\ CallTypes'
    BY <1>1, <1>2, <2>1, <2>3, <2>4 DEF CallOK, ConsumerTypes, CallTypes, IsShelf
  <2>6. CallInv'
    BY <1>3, <2>1, <2>4 DEF CallInv, Patching, Ending, target
  <2> QED BY <2>5, <2>6 DEF CallOK
<1>10. ASSUME EndFetch PROVE CallOK'
  <2>1. /\ pc = "fetch" /\ UNCHANGED <<shelfVars, disk, state, faults>>
        /\ \/ pc' = "onward" /\ UNCHANGED call
           \/ Onward(call.steps)
    BY <1>10 DEF EndFetch
  <2>2. CASE pc' = "onward" /\ UNCHANGED call
    BY <1>1, <1>2, <1>3, <2>1, <2>2 DEF CallOK, ConsumerTypes, CallTypes, CallInv, Phases,
       Patching, Ending, IsShelf, target
  <2>3. CASE Onward(call.steps)
    <3>1. /\ call' \in Calls(call.view) /\ call'.view = call.view /\ call'.steps = call.steps
          /\ call'.base = call.base /\ call'.k = call.k
          /\ call.steps = <<>> => call'.dest = call.base
          /\ pc' = IF call.steps = <<>> THEN "finish" ELSE "wipe"
      BY <1>2, <2>3 DEF Onward, Calls
    <3>2. ConsumerTypes' /\ CallTypes'
      BY <1>1, <1>2, <2>1, <3>1 DEF ConsumerTypes, CallTypes, IsShelf, Phases
    <3>3. CallInv'
      BY <1>3, <2>1, <3>1 DEF CallInv, Patching, Ending, target
    <3> QED BY <3>2, <3>3 DEF CallOK
  <2> QED BY <2>1, <2>2, <2>3
<1>11. ASSUME ChooseOnward PROVE CallOK'
  <2> DEFINE r == cheapest(call.view, call.base, Latest(call.view))
  <2>1. pc = "onward" /\ UNCHANGED <<shelfVars, disk, state, faults>> /\ Onward(r.steps)
    BY <1>11 DEF ChooseOnward
  <2>2. DOMAIN call.view # {} /\ call.base \in Ids /\ call.k = 0
    BY <1>3, <2>1 DEF CallInv
  <2>3. /\ r.steps \in StepSeqs
        /\ r.steps # <<>> => r.steps[Len(r.steps)].id = Latest(call.view)
    BY <1>2, <2>2, RoadFacts
  <2> HIDE DEF r
  <2>4. /\ call' \in Calls(call.view) /\ call'.view = call.view /\ call'.steps = r.steps
        /\ call'.base = call.base /\ call'.k = 0 /\ Len(r.steps) \in Nat
        /\ r.steps = <<>> => call'.dest = call.base
        /\ pc' = IF r.steps = <<>> THEN "finish" ELSE "wipe"
    <3>1. Len(r.steps) \in Nat
      BY <2>3 DEF StepSeqs
    <3> QED BY <1>2, <2>1, <2>2, <2>3, <3>1 DEF Onward, Calls
  <2>5. ConsumerTypes' /\ CallTypes'
    BY <1>1, <1>2, <2>1, <2>4 DEF ConsumerTypes, CallTypes, IsShelf, Phases
  <2>6. CallInv'
    BY <2>1, <2>2, <2>3, <2>4 DEF CallInv, Patching, Ending, target
  <2> QED BY <2>5, <2>6 DEF CallOK
<1>12. ASSUME Wipe PROVE CallOK'
  <2>1. /\ pc = "wipe" /\ UNCHANGED <<shelfVars, state, faults>> /\ pc' = "carry"
        /\ disk' = [disk EXCEPT ![target] = NoFiles]
        /\ call' = [call EXCEPT !.todo = Files, !.k = 1, !.dest = target]
    BY <1>12 DEF Wipe
  <2>2. call.steps # <<>> /\ target \in Ids /\ Len(call.steps) > 0
    BY <1>2, <1>3, <2>1 DEF CallInv, Patching
  <2>3. disk' \in [Ids -> [Files -> OneFile]]
    BY <2>1, EmptiedTypes DEF CallOK
  <2>4. /\ call' \in Calls(call.view) /\ call'.view = call.view /\ call'.steps = call.steps
        /\ call'.base = call.base /\ call'.k = 1 /\ call'.todo = Files /\ call'.dest = target
    BY <1>2, <2>1, <2>2 DEF Calls
  <2>5. ConsumerTypes' /\ CallTypes'
    BY <1>1, <1>2, <2>1, <2>2, <2>3, <2>4 DEF ConsumerTypes, CallTypes, IsShelf, Phases
  <2>6. CallInv'
    BY <1>3, <2>1, <2>4, Params DEF CallInv, Patching, Ending, target
  <2> QED BY <2>5, <2>6 DEF CallOK
<1>13. ASSUME Carry PROVE CallOK'
  <2>1. /\ pc = "carry" /\ UNCHANGED <<shelfVars, state, faults>>
        /\ disk' = [disk EXCEPT ![target][file] = disk[call.base][file]]
        /\ call' = [call EXCEPT !.todo = IF @ = {file} THEN Files ELSE @ \ {file}]
        /\ pc' = IF call.todo = {file} THEN "apply" ELSE "carry"
    BY <1>13 DEF Carry
  <2>2. call.base \in Ids /\ file \in call.todo /\ call.todo \subseteq Files
    BY <1>2, <1>3, <2>1 DEF CallInv, Patching, file, Calls
  <2>3. disk[call.base][file] \in OneFile
    BY <1>1, <2>2
  <2>4. disk' \in [Ids -> [Files -> OneFile]]
    BY <1>1, <2>1, <2>3
  <2>5. /\ call' \in Calls(call.view) /\ call'.view = call.view /\ call'.steps = call.steps
        /\ call'.base = call.base /\ call'.k = call.k /\ call'.todo # {} /\ call'.dest = call.dest
    BY <1>2, <2>1, <2>2, Params DEF Calls
  <2>6. ConsumerTypes' /\ CallTypes'
    BY <1>1, <1>2, <2>1, <2>4, <2>5 DEF ConsumerTypes, CallTypes, IsShelf, Phases
  <2>7. CallInv'
    BY <1>3, <2>1, <2>5 DEF CallInv, Patching, Ending, target
  <2> QED BY <2>6, <2>7 DEF CallOK
<1>14. ASSUME Apply PROVE CallOK'
  <2> DEFINE stepDone == call.todo = {file}
             allDone  == stepDone /\ call.k = Len(call.steps)
             left     == IF allDone THEN {} ELSE IF stepDone THEN Files ELSE call.todo \ {file}
  <2>1. /\ pc = "apply" /\ UNCHANGED <<shelfVars, state, faults>>
        /\ disk' = [disk EXCEPT ![target][file] = applied] /\ CanApply
        /\ call' = [call EXCEPT !.todo = left, !.k = IF stepDone /\ ~allDone THEN @ + 1 ELSE @]
        /\ pc' = IF allDone THEN "verify" ELSE "apply"
    BY <1>14 DEF Apply
  <2>2. /\ file \in call.todo /\ call.todo \subseteq Files /\ call.k \in Nat /\ call.k > 0
        /\ call.k <= Len(call.steps)
    BY <1>2, <1>3, <2>1 DEF CallInv, Patching, file, Calls
  <2>3. applied \in OneFile
    <3>1. ContentOf(step.id) \in Contents
      BY <2>1, ContentTypes DEF CanApply
    <3> QED BY <3>1, ContentTypes DEF applied, OneFile
  <2>4. disk' \in [Ids -> [Files -> OneFile]]
    BY <1>1, <2>1, <2>3
  <2>5. left \subseteq Files /\ (~allDone => left # {})
    BY <2>2, Params
  <2>6. /\ call' \in Calls(call.view) /\ call'.view = call.view /\ call'.steps = call.steps
        /\ call'.base = call.base /\ call'.todo = left
        /\ call'.k \in Nat /\ call'.k > 0 /\ call'.k <= Len(call.steps) /\ call'.dest = call.dest
    <3> HIDE DEF left
    <3> DEFINE k == IF stepDone /\ ~allDone THEN call.k + 1 ELSE call.k
    <3>1. k \in Nat /\ k > 0 /\ k <= Len(call.steps)
      BY <1>2, <2>2
    <3>2. call' = [call EXCEPT !.todo = left, !.k = k]
      BY <2>1
    <3> HIDE DEF k
    <3> QED BY <1>2, <2>5, <3>1, <3>2 DEF Calls
  <2> HIDE DEF left, allDone, stepDone
  <2>7. ConsumerTypes' /\ CallTypes'
    BY <1>1, <1>2, <2>1, <2>4, <2>6 DEF ConsumerTypes, CallTypes, IsShelf, Phases
  <2>8. CallInv'
    BY <1>3, <2>1, <2>5, <2>6 DEF CallInv, Patching, Ending, target
  <2> QED BY <2>7, <2>8 DEF CallOK
<1>15. ASSUME Verify PROVE CallOK'
  <2>1. pc = "verify" /\ pc' = "finish" /\ UNCHANGED <<shelfVars, disk, state, call, faults>>
    BY <1>15 DEF Verify
  <2> QED BY <1>1, <1>2, <1>3, <2>1 DEF CallOK, ConsumerTypes, CallTypes, CallInv, Phases,
         Patching, Ending, IsShelf, target
<1>16. ASSUME AbandonChain, UNCHANGED <<shelfVars, state>>, faults' \in 0 .. MaxFaults,
              pc \in {"carry", "apply", "verify"}
       PROVE  CallOK'
  <2>1. /\ disk' = [disk EXCEPT ![target] = NoFiles]
        /\ \/ pc' = "full" /\ UNCHANGED call
           \/ pc' = "finish" /\ call' = [call EXCEPT !.dest = call.base]
    BY <1>16 DEF AbandonChain
  <2>2. disk' \in [Ids -> [Files -> OneFile]]
    BY <2>1, EmptiedTypes DEF CallOK
  <2>3. CASE pc' = "full" /\ UNCHANGED call
    BY <1>1, <1>2, <1>3, <1>16, <2>2, <2>3 DEF CallOK, ConsumerTypes, CallTypes, CallInv, Phases,
       Patching, Ending, IsShelf, target
  <2>4. CASE pc' = "finish" /\ call' = [call EXCEPT !.dest = call.base]
    <3>1. call.base \in Ids
      BY <1>3, <1>16 DEF CallInv, Patching
    <3>2. /\ call' \in Calls(call.view) /\ call'.view = call.view /\ call'.steps = call.steps
          /\ call'.base = call.base /\ call'.k = call.k /\ call'.dest = call.base
      BY <1>2, <2>4, <3>1 DEF Calls
    <3>3. ConsumerTypes' /\ CallTypes'
      BY <1>1, <1>2, <1>16, <2>2, <2>4, <3>2 DEF ConsumerTypes, CallTypes, IsShelf, Phases
    <3>4. CallInv'
      BY <1>3, <1>16, <2>4, <3>1, <3>2 DEF CallInv, Patching, Ending, target
    <3> QED BY <3>3, <3>4 DEF CallOK
  <2> QED BY <2>1, <2>3, <2>4
<1>17. ASSUME ChainFails PROVE CallOK'
  <2>1. AbandonChain /\ UNCHANGED <<shelfVars, state, faults>> /\ pc \in {"carry", "apply", "verify"}
    BY <1>17 DEF ChainFails, ChainBlocked
  <2> QED BY <1>1, <1>16, <2>1
<1>18. ASSUME Finish \/ Commit PROVE CallOK'
  <2>1. /\ UNCHANGED <<shelfVars, call, faults>>
        /\ \/ pc = "finish" /\ pc' = "commit" /\ UNCHANGED state
              /\ disk' = [disk EXCEPT ![call.dest][Core].raw = FALSE]
           \/ pc = "commit" /\ pc' = "record" /\ state' = NoState /\ UNCHANGED disk
    BY <1>18 DEF Finish, Commit
  <2>2. disk' \in [Ids -> [Files -> OneFile]]
    <3>1. pc = "finish" => call.dest \in Ids
      BY <1>3 DEF CallInv, Ending
    <3> QED BY <1>1, <2>1, <3>1, RebuiltTypes DEF CallOK
  <2>3. state' \in [current: Builds0, content: Contents]
    BY <1>1, <2>1, ContentTypes DEF NoState
  <2> QED BY <1>1, <1>2, <1>3, <2>1, <2>2, <2>3 DEF CallOK, ConsumerTypes, CallTypes, CallInv, Phases,
       Patching, Ending, IsShelf, target
<1>19. ASSUME Record PROVE CallOK'
  <2>1. /\ pc = "record" /\ Return /\ UNCHANGED <<shelfVars, disk, faults>>
        /\ state' = [current |-> call.dest, content |-> disk[call.dest][Core].content]
    BY <1>19 DEF Record
  <2>2. call.dest \in Ids
    BY <1>3, <2>1 DEF CallInv, Ending
  <2>3. disk[call.dest][Core].content \in Contents
    <3>1. disk \in [Ids -> [Files -> OneFile]] /\ Core \in Files
      BY <1>1, Params
    <3>2. disk[call.dest][Core] \in OneFile
      BY ONLY <2>2, <3>1
    <3> QED BY <3>2 DEF OneFile
  <2>4. state' \in [current: Builds0, content: Contents]
    BY <2>1, <2>2, <2>3
  <2> QED BY <1>1, <2>1, <2>4, ReturnTypes
<1>20. ASSUME GiveUp PROVE CallOK'
  <2>1. /\ Return /\ UNCHANGED <<shelfVars, state, faults>>
        /\ \/ disk' = [disk EXCEPT ![call.dest][Core].raw = FALSE] /\ call.dest \in Ids
           \/ disk' = disk
    BY <1>20, ContentTypes DEF GiveUp
  <2>2. disk' \in [Ids -> [Files -> OneFile]]
    BY <1>1, <2>1, RebuiltTypes DEF CallOK
  <2> QED BY <1>1, <2>1, <2>2, ReturnTypes
<1>21. ASSUME NetworkFails PROVE CallOK'
  <2>1. /\ faults' \in 0 .. MaxFaults /\ UNCHANGED <<shelfVars, state>>
        /\ \/ Return /\ UNCHANGED disk
           \/ pc \in {"apply", "verify"} /\ AbandonChain
    BY <1>1, <1>21, Params DEF NetworkFails
  <2> QED BY <1>1, <1>16, <2>1, ReturnTypes
<1>22. ASSUME Crash PROVE CallOK'
  <2>1. /\ faults' \in 0 .. MaxFaults /\ UNCHANGED <<shelfVars, state>> /\ Return
        /\ disk' \in {[disk EXCEPT ![target][file] = Junk], disk}
    BY <1>1, <1>22, Params DEF Crash
  <2>2. disk' \in [Ids -> [Files -> OneFile]]
    BY <1>1, <2>1, ContentTypes
  <2> QED BY <1>1, <2>1, <2>2, ReturnTypes
<1> QED BY <1>4, <1>5, <1>6, <1>7, <1>8, <1>9, <1>10, <1>11, <1>12, <1>13, <1>14, <1>15, <1>17, <1>18,
       <1>19, <1>20, <1>21, <1>22 DEF UpdaterStep

\* Whatever the shelf and the consumer do, the types hold.
LEMMA TypeInvHolds == Spec => []TypeInv
<1>1. Init => TypeInv
  <2> SUFFICES ASSUME Init PROVE TypeInv
    OBVIOUS
  <2>1. ShelfInv
    <3>1. cat = EmptyCatalog /\ shelf = EmptyCatalog /\ released = EmptyCatalog
      BY DEF Init, ShelfInit
    <3>2. DOMAIN EmptyCatalog = {} /\ EmptyCatalog = [id \in {} |-> EmptyCatalog[id]]
      BY DEF EmptyCatalog
    <3> QED BY <3>1, <3>2, FS_EmptySet DEF ShelfInv, IsShelf, IsCatalog
  <2>2. ConsumerTypes
    <3>1. NoFiles \in [Files -> OneFile] /\ NoState \in [current: Ids \cup {NoBuild}, content: Contents]
      BY <2>1, ContentTypes DEF NoFiles, NoState
    <3> QED BY <3>1, Params DEF Init, ConsumerTypes, Phases
  <2>3. CallTypes
    <3>1. NoCall \in Calls(EmptyCatalog) /\ NoCall.view = EmptyCatalog /\ NoCall.k <= Len(NoCall.steps)
      BY <2>1, ContentTypes DEF NoCall, Calls, Roads, StepSeqs
    <3>2. IsShelf(EmptyCatalog)
      BY <2>1 DEF Init, ShelfInit, ShelfInv
    <3> QED BY <3>1, <3>2 DEF Init, CallTypes
  <2>4. CallInv
    BY DEF Init, CallInv, Patching, Ending
  <2> QED BY <2>1, <2>2, <2>3, <2>4 DEF TypeInv
<1>2. TypeInv /\ [Next]_vars => TypeInv'
  <2> SUFFICES ASSUME TypeInv, [Next]_vars PROVE TypeInv'
    OBVIOUS
  <2>1. CASE UNCHANGED consumerVars /\ (ShelfNext \/ UNCHANGED shelfVars)
    <3>1. ShelfInv'
      <4>1. CASE UNCHANGED shelfVars
        BY <4>1 DEF TypeInv, ShelfInv, shelfVars, IsShelf
      <4> QED BY <2>1, <4>1, ShelfSteps DEF TypeInv
    <3>2. ConsumerTypes' /\ CallTypes' /\ CallInv'
      BY <2>1 DEF TypeInv, ConsumerTypes, CallTypes, CallInv, consumerVars, target, IsShelf
    <3> QED BY <3>1, <3>2 DEF TypeInv
  <2>2. CASE \/ \E id \in Ids : Install(id)
             \/ Choose \/ ChooseOnward \/ UpdaterStep \/ NetworkFails \/ Crash
    <3>1. CallOK'
      BY <2>2, ConsumerStepTypes DEF TypeInv, CallOK
    <3>2. UNCHANGED shelfVars
      BY <2>2, ConsumerLeavesShelf
    <3>3. ShelfInv'
      BY <3>2 DEF TypeInv, ShelfInv, shelfVars, IsShelf
    <3> QED BY <3>1, <3>3 DEF TypeInv, CallOK
  <2> QED BY <2>1, <2>2 DEF Next, vars
<1> QED BY <1>1, <1>2, PTL DEF Spec

\* Every variable of the consumer has its type, on any shelf.
THEOREM TypesAreRight == Spec => []TypeOK
<1>1. TypeInv => TypeOK
  <2> SUFFICES ASSUME TypeInv PROVE TypeOK
    OBVIOUS
  <2>1. IsCatalog(cat, Ids) /\ IsCatalog(call.view, Ids)
    BY DEF TypeInv, ShelfInv, CallTypes, IsShelf
  <2>2. /\ Len(call.steps) \in Nat /\ call.k \in 0 .. Len(call.steps)
        /\ \A i \in 1 .. Len(call.steps) : call.steps[i].id \in Ids /\ call.steps[i].from \in Ids
        /\ call.steps \in StepSeqs /\ call.todo \subseteq Files
    BY CallFacts DEF TypeInv, Calls
  <2>3. DOMAIN call.steps = 1 .. Len(call.steps)
    BY <2>2 DEF StepSeqs
  <2> QED BY <2>1, <2>2, <2>3 DEF TypeInv, ConsumerTypes, TypeOK, OneFile
<1> QED BY <1>1, TypeInvHolds, PTL

----------------------------------------------------------------------------
\* Builds are never rewritten where they are published, and the state found in
\* the directory records a content hash.  Without the first the content that
\* state.json names can be replaced under its id, and without the second it is
\* not known: in both cases the held copy is removed before it is fetched again.
Immutable == ~Rewrites /\ ~OldClient

Day(id) == released[id].through

\* A build's content, which under Immutable is its only content.
Original(id) == [build |-> id, gen |-> 0]

Whole(id) == \A f \in Files : disk[id][f].content = Original(id)

\* What a catalog says of a build that was published before it was read: it is no
\* newer than the newest, and if it is not listed, no newer than the newest full.
Covers(c, id) ==
  /\ id \in DOMAIN released
  /\ Day(id) <= c[Latest(c)].through
  /\ id \in DOMAIN c \/ Day(id) <= c[LatestFull(c)].through

DaysInv ==
  /\ \A id \in DOMAIN shelf : shelf[id].gen = 0
  /\ \A id \in DOMAIN cat : cat[id].through = Day(id)
  /\ \A id \in DOMAIN released : Day(id) \in Days /\ Covers(cat, id)
  /\ DOMAIN released # {} => LatestFull(cat) # NoBuild

\* The build that state.json names is in its directory, whole.
HeldInv ==
  /\ state.content = Original(state.current)
  /\ state.current # NoBuild => state.current \in DOMAIN released /\ Whole(state.current)

\* The call's catalog, and what it says of the build found in use.
ViewInv ==
  pc # "idle" =>
    /\ DOMAIN call.view \subseteq DOMAIN released /\ LatestFull(call.view) # NoBuild
    /\ \A id \in DOMAIN call.view : call.view[id].through = Day(id)
    /\ call.cur # NoBuild => Covers(call.view, call.cur)
    /\ Latest(call.view) # call.cur

\* Until the commit the build found in use is the one state.json names.
InUseInv ==
  /\ pc \notin {"idle", "record"} => state.current = call.cur
  /\ pc = "record" => state.current = NoBuild
  /\ pc # "retake" /\ call.road # "retake"

\* A build that the consumer may move to.
Onto(d) == d \in DOMAIN call.view /\ (call.cur # NoBuild => Day(call.cur) <= Day(d))

\* A download so far, one that leads nowhere further being of a build to move to.
FetchInv ==
  pc = "fetch" =>
    /\ call.road \in {"full", "cheapest"}
    /\ call.want \in {NoContent, Original(call.base)}
    /\ \A f \in Files \ call.todo : disk[call.base][f].content = Original(call.base)
    /\ call.steps = <<>> => Onto(call.base)
    /\ call.road = "full" => call.steps = <<>>

\* Beyond the newest full, that full is there to fall back to.
ChainInv ==
  /\ pc = "onward" => call.road = "full"
  /\ pc \in Patching => call.road \in {"full", "cheapest"}
  /\ pc \in {"onward"} \cup Patching /\ call.road = "full" =>
       Whole(call.base) /\ Onto(call.base) /\ call.base # Latest(call.view)

\* What is about to be committed is whole, and no older than what is in use.
EndInv == pc \in Ending => Whole(call.dest) /\ Onto(call.dest)

RunInv == ViewInv /\ InUseInv /\ FetchInv /\ ChainInv /\ EndInv

\* In the invariants of the run only a few things of the shelf and the disk count.
LEMMA RunInvFrame ==
  ASSUME RunInv, UNCHANGED <<state, pc, call>>, UNCHANGED disk,
         DOMAIN released \subseteq DOMAIN released',
         \A id \in DOMAIN released : released'[id] = released[id],
         TypeInv
  PROVE  RunInv'
<1>1. \A id \in DOMAIN released : Day(id)' = Day(id)
  BY DEF Day
<1>2. pc # "idle" /\ call.cur # NoBuild => call.cur \in DOMAIN released /\ Day(call.cur)' = Day(call.cur)
  BY <1>1 DEF RunInv, ViewInv, Covers
<1>3. ViewInv'
  BY <1>1, <1>2 DEF RunInv, ViewInv, Covers
<1>4. InUseInv'
  BY DEF RunInv, InUseInv
<1>5. \A d : pc # "idle" /\ Onto(d) => Onto(d)'
  BY <1>1, <1>2 DEF Onto, RunInv, ViewInv
<1>6. FetchInv'
  BY <1>5 DEF RunInv, FetchInv, Original
<1>7. ChainInv'
  BY <1>5 DEF RunInv, ChainInv, Whole, Original, Patching
<1>8. EndInv'
  BY <1>5 DEF RunInv, EndInv, Whole, Original, Ending
<1> QED BY <1>3, <1>4, <1>6, <1>7, <1>8 DEF RunInv

\* The newest build is no older than any that is listed, the newest full no older
\* than any full.
LEMMA NewestDays ==
  ASSUME NEW c, IsShelf(c), NEW x \in DOMAIN c
  PROVE  /\ c[x].through <= c[Latest(c)].through /\ c[x].through \in Nat
         /\ Latest(c) \in DOMAIN c /\ c[Latest(c)].through \in Nat
         /\ c[x].kind = "full" => /\ LatestFull(c) \in DOMAIN c /\ LatestFull(c) # NoBuild
                                  /\ c[x].through <= c[LatestFull(c)].through
<1> DEFINE F == {y \in DOMAIN c : c[y].kind = "full"}
           full == LatestFull(c)
<1>1. /\ Ordered(c) /\ HasLast(c, DOMAIN c) /\ HasLast(c, F) /\ DOMAIN c \subseteq Ids
      /\ \A y \in DOMAIN c : c[y].through \in Nat
  BY ShelfFacts DEF Ordered
<1>2. Latest(c) \in DOMAIN c /\ c[x].through <= c[Latest(c)].through
  BY <1>1, LatestIsLatest
<1>3. ASSUME c[x].kind = "full"
      PROVE  full \in DOMAIN c /\ full # NoBuild /\ c[x].through <= c[full].through
  <2>1. F # {} /\ x \in F
    BY <1>3
  <2>2. full \in F /\ \A y \in F \ {full} : Before(c, y, full)
    BY <1>1, <2>1, LastOfIsLast DEF LatestFull
  <2> HIDE DEF full
  <2>3. x = full \/ Before(c, x, full)
    BY <2>1, <2>2
  <2>4. c[x].through <= c[full].through
    BY <1>1, <2>2, <2>3 DEF Before
  <2> QED BY <1>1, <2>2, <2>4, Params
<1> QED BY <1>1, <1>2, <1>3

\* On a shelf whose newest full and newest build only get later, a build that is
\* not listed any more stays no newer than the newest full.
LEMMA DaysSteps ==
  ASSUME Immutable, ShelfInv, ShelfInv', DaysInv, ShelfNext
  PROVE  /\ DaysInv'
         /\ DOMAIN released \subseteq DOMAIN released'
         /\ \A id \in DOMAIN released : released'[id] = released[id]
<1>1. IsShelf(cat) /\ IsShelf(cat') /\ DOMAIN cat \subseteq Ids
  BY ShelfFacts DEF ShelfInv
<1>2. ASSUME NEW x \in DOMAIN released, x \in DOMAIN released', released'[x] = released[x],
             DOMAIN cat # {},
             \* the newest build is still listed, and so is the newest full
             Latest(cat) \in DOMAIN cat', cat'[Latest(cat)] = cat[Latest(cat)],
             LatestFull(cat) \in DOMAIN cat', cat'[LatestFull(cat)] = cat[LatestFull(cat)],
             x \in DOMAIN cat' \/ Day(x) <= cat[LatestFull(cat)].through
      PROVE  Day(x)' \in Days /\ Covers(cat, x)'
  <2>1. Day(x) \in Days /\ Day(x)' = Day(x) /\ Day(x) <= cat[Latest(cat)].through
    BY <1>2 DEF DaysInv, Covers, Day
  <2>2. Day(x) \in Nat
    BY <2>1, Params
  <2> DEFINE m == Latest(cat)
             f == LatestFull(cat)
             m2 == Latest(cat')
             f2 == LatestFull(cat')
  <2>3. cat[m].through \in Nat /\ cat'[m].through <= cat'[m2].through /\ cat'[m2].through \in Nat
    BY <1>1, <1>2, NewestDays
  <2>4. cat[f].kind = "full" /\ f \in DOMAIN cat
    BY <1>1, <1>2, NewestAreListed DEF DaysInv
  <2>5. cat[f].through \in Nat /\ cat'[f].through <= cat'[f2].through /\ cat'[f2].through \in Nat
    <3>1. cat'[f].through <= cat'[f2].through /\ f2 \in DOMAIN cat' /\ cat'[f].through \in Nat
      BY <1>1, <1>2, <2>4, NewestDays
    <3> QED BY <1>1, <1>2, <3>1, NewestDays
  <2> HIDE DEF m, f, m2, f2
  <2>6. Day(x) <= cat'[m2].through
    BY <1>2, <2>1, <2>2, <2>3 DEF m
  <2>7. x \in DOMAIN cat' \/ Day(x) <= cat'[f2].through
    BY <1>2, <2>2, <2>5 DEF f
  <2> QED BY <1>2, <2>1, <2>6, <2>7 DEF Covers, m2, f2
<1>3. ASSUME NEW id \in Ids, NEW kind \in Kinds, NEW through \in Days, Grows(id, kind, through)
      PROVE  /\ DaysInv' /\ DOMAIN released \subseteq DOMAIN released'
             /\ \A x \in DOMAIN released : released'[x] = released[x]
  <2>1. /\ id \notin DOMAIN cat /\ id \notin DOMAIN released
        /\ DOMAIN cat' = DOMAIN cat \cup {id} /\ \A x \in DOMAIN cat : cat'[x] = cat[x]
        /\ cat'[id].through = through /\ cat'[id].kind = kind
        /\ kind = "daily" => DOMAIN cat # {}
        /\ DOMAIN shelf' = DOMAIN shelf \cup {id} /\ \A x \in DOMAIN shelf : shelf'[x] = shelf[x]
        /\ shelf'[id].gen = 0
        /\ DOMAIN released' = DOMAIN released \cup {id} /\ released'[id].through = through
        /\ \A x \in DOMAIN released : released'[x] = released[x]
    BY <1>3 DEF Grows, Recorded
  <2>2. \A x \in DOMAIN shelf' : shelf'[x].gen = 0
    BY <2>1 DEF DaysInv
  <2>3. \A x \in DOMAIN cat' : cat'[x].through = Day(x)'
    BY <2>1 DEF DaysInv, ShelfInv, Day
  <2>4. LatestFull(cat') # NoBuild
    <3>1. CASE kind = "full"
      BY <1>1, <2>1, <3>1, NewestDays
    <3>2. CASE kind # "full"
      <4>1. DOMAIN cat # {}
        BY <2>1, <3>2 DEF Kinds
      <4>2. LatestFull(cat) \in DOMAIN cat /\ cat[LatestFull(cat)].kind = "full"
        BY <1>1, <4>1, NewestAreListed DEF DaysInv, ShelfInv
      <4> QED BY <1>1, <2>1, <4>2, NewestDays
    <3> QED BY <3>1, <3>2
  <2>5. ASSUME NEW x \in DOMAIN released' PROVE Day(x)' \in Days /\ Covers(cat, x)'
    <3>1. CASE x = id
      <4>1. Day(x)' = through /\ through <= cat'[Latest(cat')].through
        BY <1>1, <2>1, <3>1, NewestDays DEF Day
      <4> QED BY <2>1, <3>1, <4>1 DEF Covers
    <3>2. CASE x # id
      <4>1. x \in DOMAIN released /\ Covers(cat, x)
        BY <2>1, <3>2 DEF DaysInv
      <4>2. LatestFull(cat) \in DOMAIN cat
        BY <1>1, <4>1, NewestAreListed DEF DaysInv
      <4>3. Latest(cat) \in DOMAIN cat /\ DOMAIN cat # {}
        BY <1>1, <4>2, NewestAreListed
      <4> QED BY <1>2, <2>1, <4>1, <4>2, <4>3 DEF Covers
    <3> QED BY <3>1, <3>2
  <2> QED BY <2>1, <2>2, <2>3, <2>4, <2>5 DEF DaysInv
<1>4. ASSUME NEW id \in DOMAIN cat, Withdraw(id)
      PROVE  /\ DaysInv' /\ DOMAIN released \subseteq DOMAIN released'
             /\ \A x \in DOMAIN released : released'[x] = released[x]
  <2> DEFINE full == LatestFull(cat)
  <2>1. /\ DOMAIN cat' = DOMAIN cat \ {id} /\ \A x \in DOMAIN cat' : cat'[x] = cat[x]
        /\ DOMAIN shelf' = DOMAIN shelf \ {id} /\ \A x \in DOMAIN shelf' : shelf'[x] = shelf[x]
        /\ released' = released /\ Before(cat, id, full)
    BY <1>4 DEF Withdraw
  <2>2. full \in DOMAIN cat /\ cat[full].kind = "full" /\ full # NoBuild
    BY <1>1, <1>4, NewestAreListed DEF DaysInv, ShelfInv
  <2>3. full # id /\ ~Before(cat, full, id)
    BY <1>1, <2>1, <2>2, ShelfFacts DEF Before, Ordered
  <2>4. Latest(cat) \in DOMAIN cat /\ Latest(cat) # id
    <3>1. Latest(cat) \in DOMAIN cat /\ \A x \in DOMAIN cat \ {Latest(cat)} : Before(cat, x, Latest(cat))
      BY <1>1, <2>2, ShelfFacts, LastOfIsLast DEF Latest
    <3> QED BY <2>2, <2>3, <3>1
  <2> HIDE DEF full
  <2>5. \A x \in DOMAIN shelf' : shelf'[x].gen = 0
    BY <2>1 DEF DaysInv
  <2>6. \A x \in DOMAIN cat' : cat'[x].through = Day(x)'
    BY <2>1 DEF DaysInv, Day
  <2>7. LatestFull(cat') # NoBuild
    BY <1>1, <2>1, <2>2, <2>3, NewestDays
  <2>8. ASSUME NEW x \in DOMAIN released' PROVE Day(x)' \in Days /\ Covers(cat, x)'
    <3>1. x \in DOMAIN released /\ Covers(cat, x)
      BY <2>1 DEF DaysInv
    <3>2. x \in DOMAIN cat' \/ Day(x) <= cat[full].through
      <4>1. CASE x = id
        <5>1. cat[id].through = Day(id)
          BY <1>4 DEF DaysInv
        <5>2. cat[id].through <= cat[full].through
          BY <1>1, <2>1, <2>2, <1>4, NewestDays DEF Before
        <5> QED BY <4>1, <5>1, <5>2
      <4>2. CASE x # id
        BY <2>1, <3>1, <4>2 DEF Covers, full
      <4> QED BY <4>1, <4>2
    <3> QED BY <1>2, <2>1, <2>2, <2>3, <2>4, <3>1, <3>2 DEF full
  <2> QED BY <2>1, <2>5, <2>6, <2>7, <2>8 DEF DaysInv
<1>5. ASSUME NEW id \in DOMAIN cat, Rewrite(id)
      PROVE  FALSE
  BY <1>5 DEF Rewrite, Immutable
<1> QED BY <1>3, <1>4, <1>5, ShelfGrows

----------------------------------------------------------------------------
UInv == TypeInv /\ DaysInv /\ HeldInv /\ RunInv

\* A call that has ended has nothing left to be true of it.
LEMMA ReturnKeeps ==
  ASSUME Return
  PROVE  RunInv'
BY DEF Return, RunInv, ViewInv, InUseInv, FetchInv, ChainInv, EndInv, NoCall, Patching, Ending

\* What state.json names is whole for as long as its files keep their content.
LEMMA HeldKeeps ==
  ASSUME HeldInv, UNCHANGED <<shelfVars, state>>,
         state.current # NoBuild =>
           \A f \in Files : disk'[state.current][f].content = disk[state.current][f].content
  PROVE  HeldInv'
BY DEF HeldInv, Whole, Original, shelfVars

\* Writing to one directory leaves the others alone.
LEMMA OtherDirs ==
  ASSUME ConsumerTypes, NEW d \in Ids, NEW f, NEW x,
         disk' = [disk EXCEPT ![d] = x] \/ disk' = [disk EXCEPT ![d][f] = x]
  PROVE  \A y \in Ids \ {d} : disk'[y] = disk[y]
BY DEF ConsumerTypes

\* Rebuilding an index changes no content.
LEMMA RebuildKeeps ==
  ASSUME ConsumerTypes, NEW d \in Ids, disk' = [disk EXCEPT ![d][Core].raw = FALSE]
  PROVE  \A y \in Ids, f \in Files : disk'[y][f].content = disk[y][f].content
<1>1. disk \in [Ids -> [Files -> OneFile]] /\ Core \in Files
  BY Params DEF ConsumerTypes
<1>2. disk[d][Core] \in OneFile
  BY <1>1
<1>3. [disk[d][Core] EXCEPT !.raw = FALSE].content = disk[d][Core].content
  BY <1>2 DEF OneFile
<1>4. disk' = [disk EXCEPT ![d] = [disk[d] EXCEPT ![Core] = [disk[d][Core] EXCEPT !.raw = FALSE]]]
  OBVIOUS
<1> QED BY <1>1, <1>3, <1>4

\* The newest build of the call's catalog is one to move to.
LEMMA NewestIsOnto ==
  ASSUME CallOK, ViewInv, pc # "idle"
  PROVE  Onto(Latest(call.view)) /\ Latest(call.view) \in Ids
<1>1. Latest(call.view) \in DOMAIN call.view /\ Latest(call.view) \in Ids
  BY NewestAreListed DEF CallOK, CallTypes, CallInv
<1>2. call.view[Latest(call.view)].through = Day(Latest(call.view))
  BY <1>1 DEF ViewInv
<1> QED BY <1>1, <1>2 DEF ViewInv, Covers, Onto

\* Where every build has one content, the held build is never found changed.
LEMMA HeldIsUnchanged ==
  ASSUME DaysInv, HeldInv, NEW id, id # NoBuild
  PROVE  ~changedUnderUs(id)
<1> SUFFICES ASSUME state.current = id PROVE ~changedUnderUs(id)
  BY DEF changedUnderUs
<1>1. state.content = Original(id) /\ state.content # NoContent
  BY DEF HeldInv, Original, NoContent
<1>2. OnShelf(id) => ContentOf(id) = Original(id)
  BY DEF DaysInv, OnShelf, ContentOf, Original
<1> QED BY <1>1, <1>2 DEF changedUnderUs

\* A download begins.
LEMMA StartFetchKeeps ==
  ASSUME UInv, pc # "idle", pc # "record", NEW id, NEW road \in {"full", "cheapest"}, NEW steps,
         StartFetch(id, road, steps), UNCHANGED <<shelfVars, disk, state, faults>>, CallTypes,
         steps = <<>> => Onto(id), road = "full" => steps = <<>>
  PROVE  HeldInv' /\ RunInv'
<1>1. /\ pc' = "fetch" /\ call'.view = call.view /\ call'.cur = call.cur /\ call'.road = road
      /\ call'.base = id /\ call'.steps = steps /\ call'.todo = Files
      /\ call'.want = IF OnShelf(id) THEN ContentOf(id) ELSE NoContent
  BY CallFacts DEF StartFetch, Calls
<1>2. released' = released /\ state' = state /\ disk' = disk
  BY DEF shelfVars
<1>3. HeldInv'
  BY <1>2, HeldKeeps DEF UInv
<1>4. ViewInv'
  BY <1>1, <1>2 DEF UInv, RunInv, ViewInv, Covers, Day
<1>5. InUseInv'
  BY <1>1, <1>2 DEF UInv, RunInv, InUseInv
<1>6. call'.want \in {NoContent, Original(call'.base)}
  BY <1>1 DEF UInv, DaysInv, OnShelf, ContentOf, Original
<1>7. FetchInv'
  BY <1>1, <1>2, <1>6 DEF FetchInv, Onto, Day, Original
<1>8. ChainInv' /\ EndInv'
  BY <1>1 DEF ChainInv, EndInv, Patching, Ending
<1> QED BY <1>3, <1>4, <1>5, <1>7, <1>8 DEF RunInv

\* The chain is abandoned: its target is not what is held, nor what it falls back to.
LEMMA AbandonKeeps ==
  ASSUME UInv, AbandonChain, UNCHANGED <<shelfVars, state>>, pc \in {"carry", "apply", "verify"}
  PROVE  HeldInv' /\ RunInv'
<1>1. /\ CallOK /\ ConsumerTypes /\ CallTypes /\ CallInv /\ ViewInv /\ InUseInv /\ ChainInv /\ HeldInv
  BY DEF UInv, TypeInv, CallOK, RunInv
<1>2. target = Latest(call.view) /\ target \in Ids /\ call.base \in Ids /\ target # call.cur
      /\ state.current = call.cur
  BY <1>1, NewestIsOnto DEF CallInv, Patching, ViewInv, InUseInv
<1>3. disk' = [disk EXCEPT ![target] = NoFiles]
  BY DEF AbandonChain
<1>4. \A y \in Ids \ {target} : disk'[y] = disk[y]
  BY <1>1, <1>2, <1>3, OtherDirs
<1>5. HeldInv'
  <2>1. state.current \in Ids \cup {NoBuild}
    BY <1>1 DEF ConsumerTypes
  <2> QED BY <1>1, <1>2, <1>4, <2>1, HeldKeeps
<1>6. released' = released /\ state' = state
  BY DEF shelfVars
<1>7. \/ pc' = "full" /\ UNCHANGED call
      \/ /\ call.road = "full" /\ pc' = "finish" /\ call' = [call EXCEPT !.dest = call.base]
  BY <1>1 DEF AbandonChain, ChainInv, Patching
<1>8. CASE pc' = "full" /\ UNCHANGED call
  <2>1. ViewInv' /\ InUseInv'
    BY <1>1, <1>6, <1>8 DEF ViewInv, InUseInv, Covers, Day
  <2>2. FetchInv' /\ ChainInv' /\ EndInv'
    BY <1>8 DEF FetchInv, ChainInv, EndInv, Patching, Ending
  <2> QED BY <1>5, <2>1, <2>2 DEF RunInv
<1>9. CASE call.road = "full" /\ pc' = "finish" /\ call' = [call EXCEPT !.dest = call.base]
  <2>1. /\ call'.view = call.view /\ call'.cur = call.cur /\ call'.road = call.road
        /\ call'.dest = call.base
    BY <1>1, <1>9, CallFacts DEF Calls
  <2>2. ViewInv' /\ InUseInv'
    BY <1>1, <1>6, <1>9, <2>1 DEF ViewInv, InUseInv, Covers, Day
  <2>3. FetchInv' /\ ChainInv'
    BY <1>9 DEF FetchInv, ChainInv, Patching
  <2>4. Whole(call.base) /\ Onto(call.base) /\ call.base # target
    BY <1>1, <1>2, <1>9 DEF ChainInv, Patching
  <2>5. EndInv'
    BY <1>2, <1>4, <1>6, <2>1, <2>4 DEF EndInv, Whole, Onto, Original, Day
  <2> QED BY <1>5, <2>2, <2>3, <2>5 DEF RunInv
<1> QED BY <1>7, <1>8, <1>9

\* Building the target in its own directory touches nothing that counts.
LEMMA BuildKeeps ==
  ASSUME UInv, UNCHANGED <<shelfVars, state>>, pc \in Patching, pc' \in Patching,
         call'.view = call.view, call'.cur = call.cur, call'.road = call.road,
         call'.base = call.base, NEW f, NEW x,
         disk' = [disk EXCEPT ![target] = x] \/ disk' = [disk EXCEPT ![target][f] = x]
  PROVE  HeldInv' /\ RunInv'
<1>1. /\ CallOK /\ ConsumerTypes /\ CallTypes /\ CallInv /\ ViewInv /\ InUseInv /\ ChainInv /\ HeldInv
  BY DEF UInv, TypeInv, CallOK, RunInv
<1>2. target = Latest(call.view) /\ target \in Ids /\ call.base \in Ids /\ target # call.cur
      /\ state.current = call.cur
  BY <1>1, NewestIsOnto DEF CallInv, Patching, ViewInv, InUseInv
<1>3. \A y \in Ids \ {target} : disk'[y] = disk[y]
  BY <1>1, <1>2, OtherDirs
<1>4. HeldInv'
  <2>1. state.current \in Ids \cup {NoBuild}
    BY <1>1 DEF ConsumerTypes
  <2> QED BY <1>1, <1>2, <1>3, <2>1, HeldKeeps
<1>5. released' = released /\ state' = state
  BY DEF shelfVars
<1>6. ViewInv' /\ InUseInv'
  BY <1>1, <1>5 DEF ViewInv, InUseInv, Covers, Day, Patching
<1>7. FetchInv' /\ EndInv'
  BY DEF FetchInv, EndInv, Patching, Ending
<1>8. ChainInv'
  BY <1>1, <1>2, <1>3, <1>5 DEF ChainInv, Whole, Onto, Original, Day, Patching
<1> QED BY <1>4, <1>6, <1>7, <1>8 DEF RunInv

\* Each of the consumer's steps keeps what is held whole, and brings the call to a
\* build that is whole and no older.
LEMMA ConsumerKeeps ==
  ASSUME Immutable, UInv, CallOK', UNCHANGED shelfVars,
         Choose \/ ChooseOnward \/ UpdaterStep \/ NetworkFails \/ Crash
  PROVE  HeldInv' /\ RunInv'
<1>1. /\ CallOK /\ ConsumerTypes /\ CallTypes /\ CallInv /\ DaysInv /\ HeldInv
      /\ ViewInv /\ InUseInv /\ FetchInv /\ ChainInv /\ EndInv
      /\ call \in Calls(call.view) /\ IsShelf(call.view) /\ state.current \in Ids \cup {NoBuild}
  BY DEF UInv, TypeInv, CallOK, RunInv, CallTypes, ConsumerTypes
<1>2. released' = released /\ shelf' = shelf /\ cat' = cat
  BY DEF shelfVars
<1>3. disk' = disk /\ state' = state => HeldInv'
  BY <1>1, HeldKeeps
<1>4. ASSUME Call PROVE HeldInv' /\ RunInv'
  <2>1. /\ call' = [NoCall EXCEPT !.view = cat, !.cur = state.current]
        /\ UNCHANGED <<shelfVars, disk, state, faults>>
        /\ \/ standPat(cat, state.current) /\ changedUnderUs(state.current)
           \/ ~standPat(cat, state.current) /\ pc' = "choose"
    BY <1>4 DEF Call
  <2>2. NoBuild \notin DOMAIN cat
    BY ShelfFacts, Params DEF UInv, TypeInv, ShelfInv
  <2>3. standPat(cat, state.current) => state.current # NoBuild
    BY <2>2 DEF standPat, Listed
  <2>4. ~standPat(cat, state.current) /\ pc' = "choose"
    BY <1>1, <2>1, <2>3, HeldIsUnchanged
  <2>5. /\ call'.view = cat /\ call'.cur = state.current /\ call'.road = "none"
    BY <2>1 DEF NoCall
  <2>6. DOMAIN cat # {}
    BY <2>4, <2>5 DEF CallOK, CallInv
  <2>7. Latest(cat) \in DOMAIN cat /\ DOMAIN cat \subseteq DOMAIN released
    BY <2>6, NewestAreListed DEF UInv, TypeInv, ShelfInv
  <2>8. Latest(cat) # state.current
    BY <2>2, <2>4, <2>7 DEF standPat
  <2>9. ViewInv'
    BY <1>1, <1>2, <2>5, <2>6, <2>7, <2>8 DEF ViewInv, DaysInv, HeldInv, Covers, Day
  <2>10. InUseInv' /\ FetchInv' /\ ChainInv' /\ EndInv'
    BY <2>1, <2>4, <2>5 DEF InUseInv, FetchInv, ChainInv, EndInv, Patching, Ending
  <2> QED BY <1>3, <2>1, <2>9, <2>10 DEF RunInv
<1>5. ASSUME Choose PROVE HeldInv' /\ RunInv'
  <2> DEFINE r == cheapest(call.view, call.cur, Latest(call.view))
  <2>1. pc = "choose" /\ UNCHANGED <<shelfVars, disk, state, faults>>
    BY <1>5 DEF Choose
  <2>2. DOMAIN call.view # {}
    BY <1>1, <2>1 DEF CallInv
  <2>3. r.steps = <<>> /\ r.seed # NoBuild => r.seed = Latest(call.view)
    BY <1>1, <2>2, RoadFacts
  <2>4. \/ r.seed # NoBuild /\ StartFetch(r.seed, "cheapest", r.steps)
        \/ /\ pc' = "wipe"
           /\ call' = [call EXCEPT !.road = "cheapest", !.base = call.cur, !.steps = r.steps]
        \/ pc' = "full" /\ UNCHANGED call
    BY <1>5 DEF Choose
  <2> HIDE DEF r
  <2>5. CASE r.seed # NoBuild /\ StartFetch(r.seed, "cheapest", r.steps)
    <3>1. r.steps = <<>> => Onto(r.seed)
      BY <1>1, <2>1, <2>3, <2>5, NewestIsOnto
    <3> QED BY <1>1, <2>1, <2>5, <3>1, StartFetchKeeps
  <2>6. CASE /\ pc' = "wipe"
             /\ call' = [call EXCEPT !.road = "cheapest", !.base = call.cur, !.steps = r.steps]
    <3>1. call'.view = call.view /\ call'.cur = call.cur /\ call'.road = "cheapest"
      BY <1>1, <2>6 DEF Calls
    <3>2. ViewInv' /\ InUseInv'
      BY <1>1, <1>2, <2>1, <2>6, <3>1 DEF ViewInv, InUseInv, Covers, Day
    <3>3. FetchInv' /\ ChainInv' /\ EndInv'
      BY <2>6, <3>1 DEF FetchInv, ChainInv, EndInv, Patching, Ending
    <3> QED BY <1>3, <2>1, <3>2, <3>3 DEF RunInv
  <2>7. CASE pc' = "full" /\ UNCHANGED call
    <3>1. ViewInv' /\ InUseInv'
      BY <1>1, <1>2, <2>1, <2>7 DEF ViewInv, InUseInv, Covers, Day
    <3>2. FetchInv' /\ ChainInv' /\ EndInv'
      BY <2>7 DEF FetchInv, ChainInv, EndInv, Patching, Ending
    <3> QED BY <1>3, <2>1, <3>1, <3>2 DEF RunInv
  <2> QED BY <2>4, <2>5, <2>6, <2>7
<1>6. ASSUME TakeFull PROVE HeldInv' /\ RunInv'
  <2> DEFINE full == LatestFull(call.view)
  <2>1. /\ pc = "full" /\ full # NoBuild /\ UNCHANGED <<shelfVars, disk, state, faults>>
        /\ \/ refusesFull(call.view, call.cur, full) /\ changedUnderUs(call.cur)
           \/ Return
           \/ ~refusesFull(call.view, call.cur, full) /\ StartFetch(full, "full", <<>>)
    BY <1>6 DEF TakeFull
  <2>2. full \in DOMAIN call.view /\ NoBuild \notin DOMAIN call.view
    BY <1>1, <2>1, NewestAreListed, ShelfFacts, Params
  <2>3. CASE refusesFull(call.view, call.cur, full) /\ changedUnderUs(call.cur)
    <3>1. call.cur # NoBuild
      BY <2>2, <2>3 DEF refusesFull, Listed
    <3> QED BY <1>1, <2>3, <3>1, HeldIsUnchanged
  <2>4. CASE Return
    BY <1>3, <2>1, <2>4, ReturnKeeps
  <2>5. CASE ~refusesFull(call.view, call.cur, full) /\ StartFetch(full, "full", <<>>)
    <3>1. call.view[full].through = Day(full)
      BY <1>1, <2>1, <2>2 DEF ViewInv
    <3>2. ASSUME call.cur # NoBuild PROVE Day(call.cur) <= Day(full)
      <4>1. Covers(call.view, call.cur)
        BY <1>1, <2>1, <3>2 DEF ViewInv
      <4>2. CASE ~Listed(call.view, call.cur)
        BY <3>1, <4>1, <4>2 DEF Covers, Listed
      <4>3. CASE Listed(call.view, call.cur) /\ newer(call.view, full, call.cur)
        <5>1. call.view[full].through > call.view[call.cur].through
          BY <3>2, <4>3 DEF newer
        <5>2. call.view[call.cur].through = Day(call.cur)
          BY <1>1, <2>1, <4>3 DEF ViewInv, Listed
        <5>3. call.view[full].through \in Nat /\ call.view[call.cur].through \in Nat
          BY <1>1, <2>2, <4>3, NewestDays DEF Listed
        <5> QED BY <3>1, <5>1, <5>2, <5>3
      <4> QED BY <2>5, <4>2, <4>3 DEF refusesFull
    <3>3. Onto(full)
      BY <2>2, <3>2 DEF Onto
    <3> HIDE DEF full
    <3> QED BY <1>1, <2>1, <2>5, <3>3, StartFetchKeeps
  <2> QED BY <2>1, <2>3, <2>4, <2>5
<1>7. ~Retake
  BY <1>1 DEF Retake, InUseInv
<1>8. ASSUME Fetch PROVE HeldInv' /\ RunInv'
  <2>1. /\ pc = "fetch" /\ UNCHANGED <<shelfVars, state, pc, faults>> /\ call.todo # {}
        /\ disk' = [disk EXCEPT ![call.base][file] = [content |-> call.want, raw |-> TRUE]]
        /\ call' = [call EXCEPT !.todo = @ \ {file}] /\ call.want # NoContent
    BY <1>8 DEF Fetch, CanFetch
  <2>2. call.base \in Ids /\ file \in call.todo /\ call.todo \subseteq Files
    BY <1>1, <2>1 DEF CallInv, Calls, file
  <2>3. call.want = Original(call.base)
    BY <1>1, <2>1 DEF FetchInv
  <2>4. disk'[call.base][file].content = Original(call.base)
    BY <1>1, <2>1, <2>2, <2>3 DEF ConsumerTypes
  <2>5. \A y \in Ids, f \in Files : y # call.base \/ f # file => disk'[y][f] = disk[y][f]
    BY <1>1, <2>1, <2>2 DEF ConsumerTypes
  <2> HIDE DEF file
  <2>6. HeldInv'
    <3>1. ASSUME state.current # NoBuild, NEW f \in Files
          PROVE  disk'[state.current][f].content = disk[state.current][f].content
      BY <1>1, <2>2, <2>4, <2>5, <3>1 DEF HeldInv, Whole
    <3> QED BY <1>1, <2>1, <3>1, HeldKeeps
  <2>7. /\ call'.view = call.view /\ call'.cur = call.cur /\ call'.road = call.road
        /\ call'.base = call.base /\ call'.steps = call.steps /\ call'.want = call.want
        /\ call'.todo = call.todo \ {file} /\ state' = state /\ pc' = pc
    BY <1>1, <2>1 DEF Calls
  <2>8. ViewInv' /\ InUseInv'
    BY <1>1, <1>2, <2>1, <2>7 DEF ViewInv, InUseInv, Covers, Day
  <2>9. \A f \in Files \ call'.todo : disk'[call.base][f].content = Original(call.base)
    BY <1>1, <2>1, <2>2, <2>4, <2>5, <2>7 DEF FetchInv
  <2>10. FetchInv'
    BY <1>1, <1>2, <2>1, <2>7, <2>9 DEF FetchInv, Onto, Day, Original
  <2>11. ChainInv' /\ EndInv'
    BY <2>1 DEF ChainInv, EndInv, Patching, Ending
  <2> QED BY <2>6, <2>8, <2>10, <2>11 DEF RunInv
<1>9. ASSUME NEW steps, Onward(steps), UNCHANGED <<disk, state>>, pc \in {"fetch", "onward"},
             Whole(call.base), steps = <<>> => Onto(call.base), call.road \in {"full", "cheapest"},
             call.road = "full" => Onto(call.base) /\ call.base # Latest(call.view)
      PROVE  HeldInv' /\ RunInv'
  <2>1. /\ call'.view = call.view /\ call'.cur = call.cur /\ call'.road = call.road
        /\ call'.base = call.base /\ (steps = <<>> => call'.dest = call.base)
        /\ \/ steps = <<>> /\ pc' = "finish"
           \/ steps # <<>> /\ pc' = "wipe"
    BY <1>1, <1>9 DEF Onward, Calls
  <2>2. ViewInv' /\ InUseInv'
    BY <1>1, <1>2, <1>9, <2>1 DEF ViewInv, InUseInv, Covers, Day
  <2>3. FetchInv'
    BY <2>1 DEF FetchInv
  <2>4. ChainInv'
    BY <1>2, <1>9, <2>1 DEF ChainInv, Patching, Whole, Onto, Original, Day
  <2>5. EndInv'
    BY <1>2, <1>9, <2>1 DEF EndInv, Ending, Whole, Onto, Original, Day
  <2> QED BY <1>3, <1>9, <2>2, <2>3, <2>4, <2>5 DEF RunInv
<1>10. ASSUME EndFetch PROVE HeldInv' /\ RunInv'
  <2>1. pc = "fetch" /\ call.todo = {} /\ UNCHANGED <<shelfVars, disk, state, faults>>
        /\ \/ call.road = "full" /\ call.base # Latest(call.view) /\ pc' = "onward" /\ UNCHANGED call
           \/ ~(call.road = "full" /\ call.base # Latest(call.view)) /\ Onward(call.steps)
    BY <1>10 DEF EndFetch
  <2>2. /\ Whole(call.base) /\ call.road \in {"full", "cheapest"}
        /\ call.steps = <<>> => Onto(call.base)
        /\ call.road = "full" => call.steps = <<>>
    BY <1>1, <2>1 DEF FetchInv, Whole
  <2>3. CASE call.road = "full" /\ call.base # Latest(call.view) /\ pc' = "onward" /\ UNCHANGED call
    <3>1. ViewInv' /\ InUseInv'
      BY <1>1, <1>2, <2>1, <2>3 DEF ViewInv, InUseInv, Covers, Day
    <3>2. FetchInv' /\ EndInv'
      BY <2>3 DEF FetchInv, EndInv, Ending
    <3>3. ChainInv'
      BY <1>2, <2>1, <2>2, <2>3 DEF ChainInv, Patching, Whole, Onto, Original, Day
    <3> QED BY <1>3, <2>1, <3>1, <3>2, <3>3 DEF RunInv
  <2>4. CASE call.road # "full" /\ Onward(call.steps)
    BY <1>9, <2>1, <2>2, <2>4
  <2>5. CASE call.road = "full" /\ call.base = Latest(call.view) /\ Onward(call.steps)
    <3>1. /\ call'.view = call.view /\ call'.cur = call.cur /\ call'.road = call.road
          /\ call'.dest = call.base /\ pc' = "finish"
      BY <1>1, <2>2, <2>5 DEF Onward, Calls
    <3>2. ViewInv' /\ InUseInv'
      BY <1>1, <1>2, <2>1, <3>1 DEF ViewInv, InUseInv, Covers, Day
    <3>3. FetchInv' /\ ChainInv'
      BY <3>1 DEF FetchInv, ChainInv, Patching
    <3>4. EndInv'
      BY <1>2, <2>1, <2>2, <2>5, <3>1 DEF EndInv, Ending, Whole, Onto, Original, Day
    <3> QED BY <1>3, <2>1, <3>2, <3>3, <3>4 DEF RunInv
  <2> QED BY <2>1, <2>3, <2>4, <2>5
<1>11. ASSUME ChooseOnward PROVE HeldInv' /\ RunInv'
  <2>1. pc = "onward" /\ UNCHANGED <<shelfVars, disk, state, faults>>
        /\ Onward(cheapest(call.view, call.base, Latest(call.view)).steps)
    BY <1>11 DEF ChooseOnward
  <2>2. call.road = "full" /\ Whole(call.base) /\ Onto(call.base) /\ call.base # Latest(call.view)
    BY <1>1, <2>1 DEF ChainInv
  <2> QED BY <1>9, <2>1, <2>2
<1>12. ASSUME Wipe \/ Carry PROVE HeldInv' /\ RunInv'
  <2>1. /\ UNCHANGED <<shelfVars, state>> /\ pc \in Patching /\ pc' \in Patching
        /\ call'.view = call.view /\ call'.cur = call.cur /\ call'.road = call.road
        /\ call'.base = call.base
    BY <1>1, <1>12 DEF Wipe, Carry, Patching, Calls
  <2>2. \/ disk' = [disk EXCEPT ![target] = NoFiles]
        \/ disk' = [disk EXCEPT ![target][file] = disk[call.base][file]]
    BY <1>12 DEF Wipe, Carry
  <2> HIDE DEF file
  <2> QED BY <2>1, <2>2, BuildKeeps
<1>13. ASSUME Apply PROVE HeldInv' /\ RunInv'
  <2>1. /\ UNCHANGED <<shelfVars, state>> /\ pc \in Patching /\ pc' \in Patching
        /\ call'.view = call.view /\ call'.cur = call.cur /\ call'.road = call.road
        /\ call'.base = call.base
    BY <1>1, <1>13 DEF Apply, Patching, Calls
  <2>2. disk' = [disk EXCEPT ![target][file] = applied]
    BY <1>13 DEF Apply
  <2> QED BY <2>1, <2>2, BuildKeeps
<1>14. ASSUME Verify PROVE HeldInv' /\ RunInv'
  <2>1. pc = "verify" /\ proven /\ pc' = "finish" /\ UNCHANGED <<shelfVars, disk, state, call, faults>>
    BY <1>14 DEF Verify
  <2>2. /\ call.dest = target /\ target = Latest(call.view)
    BY <1>1, <2>1 DEF CallInv, Patching
  <2>3. Onto(target)
    BY <1>1, <2>1, <2>2, NewestIsOnto
  <2>4. ContentOf(target) = Original(target)
    BY <1>1, <2>1 DEF proven, DaysInv, OnShelf, ContentOf, Original
  <2>5. Whole(target)
    BY <2>1, <2>4 DEF proven, Whole
  <2>6. Onto(call.dest) /\ Whole(call.dest)
    BY <2>2, <2>3, <2>5
  <2>7. ViewInv' /\ InUseInv'
    BY <1>1, <1>2, <2>1 DEF ViewInv, InUseInv, Covers, Day
  <2>8. FetchInv' /\ ChainInv'
    BY <2>1 DEF FetchInv, ChainInv, Patching
  <2>9. EndInv'
    BY <1>2, <2>1, <2>6 DEF EndInv, Whole, Onto, Original, Day
  <2> QED BY <1>3, <2>1, <2>7, <2>8, <2>9 DEF RunInv
<1>15. ASSUME ChainFails PROVE HeldInv' /\ RunInv'
  BY <1>15, AbandonKeeps DEF ChainFails, ChainBlocked
<1>16. ASSUME Finish PROVE HeldInv' /\ RunInv'
  <2>1. pc = "finish" /\ pc' = "commit" /\ UNCHANGED <<shelfVars, state, call, faults>>
        /\ disk' = [disk EXCEPT ![call.dest][Core].raw = FALSE]
    BY <1>16 DEF Finish
  <2>2. call.dest \in Ids /\ Whole(call.dest) /\ Onto(call.dest)
    BY <1>1, <2>1 DEF CallInv, EndInv, Ending
  <2>3. \A y \in Ids, f \in Files : disk'[y][f].content = disk[y][f].content
    BY <1>1, <2>1, <2>2, RebuildKeeps
  <2>4. HeldInv'
    BY <1>1, <2>1, <2>3, HeldKeeps
  <2>5. ViewInv' /\ InUseInv'
    BY <1>1, <1>2, <2>1 DEF ViewInv, InUseInv, Covers, Day
  <2>6. FetchInv' /\ ChainInv'
    BY <2>1 DEF FetchInv, ChainInv, Patching
  <2>7. EndInv'
    BY <1>2, <2>1, <2>2, <2>3 DEF EndInv, Whole, Onto, Original, Day
  <2> QED BY <2>4, <2>5, <2>6, <2>7 DEF RunInv
<1>17. ASSUME Commit PROVE HeldInv' /\ RunInv'
  <2>1. pc = "commit" /\ pc' = "record" /\ state' = NoState /\ UNCHANGED <<shelfVars, disk, call, faults>>
    BY <1>17 DEF Commit
  <2>2. HeldInv'
    BY <2>1 DEF HeldInv, NoState, NoContent, Original
  <2>3. ViewInv' /\ InUseInv'
    BY <1>1, <1>2, <2>1 DEF ViewInv, InUseInv, Covers, Day, NoState
  <2>4. FetchInv' /\ ChainInv'
    BY <2>1 DEF FetchInv, ChainInv, Patching
  <2>5. EndInv'
    BY <1>1, <1>2, <2>1 DEF EndInv, Ending, Whole, Onto, Original, Day
  <2> QED BY <2>2, <2>3, <2>4, <2>5 DEF RunInv
<1>18. ASSUME Record PROVE HeldInv' /\ RunInv'
  <2>1. pc = "record" /\ Return /\ UNCHANGED <<shelfVars, disk, faults>>
        /\ state' = [current |-> call.dest, content |-> disk[call.dest][Core].content]
    BY <1>18 DEF Record
  <2>2. Whole(call.dest) /\ call.dest \in DOMAIN released
    BY <1>1, <2>1 DEF EndInv, Ending, Onto, ViewInv
  <2>3. state'.current = call.dest /\ state'.content = Original(call.dest)
    BY <2>1, <2>2, Params DEF Whole
  <2>4. HeldInv'
    BY <1>2, <2>1, <2>2, <2>3 DEF HeldInv, Whole, Original
  <2> QED BY <2>1, <2>4, ReturnKeeps
<1>19. ASSUME GiveUp PROVE HeldInv' /\ RunInv'
  <2>1. /\ Return /\ UNCHANGED <<shelfVars, state>>
        /\ \/ disk' = disk
           \/ pc = "finish" /\ disk' = [disk EXCEPT ![call.dest][Core].raw = FALSE]
    BY <1>19 DEF GiveUp
  <2>2. pc = "finish" => call.dest \in Ids
    BY <1>1 DEF CallInv, Ending
  <2>3. CASE disk' = disk
    BY <1>3, <2>1, <2>3, ReturnKeeps
  <2>4. CASE pc = "finish" /\ disk' = [disk EXCEPT ![call.dest][Core].raw = FALSE]
    <3>1. \A y \in Ids, f \in Files : disk'[y][f].content = disk[y][f].content
      BY <1>1, <2>2, <2>4, RebuildKeeps
    <3>2. HeldInv'
      BY <1>1, <2>1, <3>1, HeldKeeps
    <3> QED BY <2>1, <3>2, ReturnKeeps
  <2> QED BY <2>1, <2>3, <2>4
<1>20. ASSUME NetworkFails PROVE HeldInv' /\ RunInv'
  <2>1. \/ Return /\ disk' = disk /\ state' = state
        \/ pc \in {"apply", "verify"} /\ AbandonChain /\ state' = state
    BY <1>20 DEF NetworkFails
  <2> QED BY <1>3, <2>1, ReturnKeeps, AbandonKeeps
<1>21. ASSUME Crash PROVE HeldInv' /\ RunInv'
  <2>1. /\ Return /\ state' = state
        /\ \/ disk' = disk
           \/ pc \in {"carry", "apply"} /\ disk' = [disk EXCEPT ![target][file] = Junk]
    BY <1>21 DEF Crash
  <2>2. CASE disk' = disk
    BY <1>3, <2>1, <2>2, ReturnKeeps
  <2>3. CASE pc \in {"carry", "apply"} /\ disk' = [disk EXCEPT ![target][file] = Junk]
    <3>1. target = Latest(call.view) /\ target \in Ids /\ target # state.current
      BY <1>1, <2>3, NewestIsOnto DEF CallInv, Patching, ViewInv, InUseInv
    <3>2. \A y \in Ids \ {target} : disk'[y] = disk[y]
      BY <1>1, <2>3, <3>1, OtherDirs
    <3>3. HeldInv'
      BY <1>1, <2>1, <3>1, <3>2, HeldKeeps
    <3> QED BY <2>1, <3>3, ReturnKeeps
  <2> QED BY <2>1, <2>2, <2>3
<1> QED BY <1>4, <1>5, <1>6, <1>7, <1>8, <1>10, <1>11, <1>12, <1>13, <1>14, <1>15, <1>16, <1>17,
       <1>18, <1>19, <1>20, <1>21 DEF UpdaterStep

\* The invariant of the whole, on a shelf where builds are immutable.
LEMMA UInvHolds ==
  ASSUME Immutable
  PROVE  Spec => []UInv
<1>1. Init => DaysInv /\ HeldInv /\ RunInv
  <2> SUFFICES ASSUME Init PROVE DaysInv /\ HeldInv /\ RunInv
    OBVIOUS
  <2>1. /\ cat = EmptyCatalog /\ shelf = EmptyCatalog /\ released = EmptyCatalog
        /\ state = NoState /\ pc = "idle" /\ call = NoCall
    BY DEF Init, ShelfInit
  <2>2. DOMAIN EmptyCatalog = {}
    BY DEF EmptyCatalog
  <2>3. DaysInv
    BY <2>1, <2>2 DEF DaysInv
  <2>4. HeldInv
    BY <2>1 DEF HeldInv, NoState, NoContent, Original
  <2>5. RunInv
    BY <2>1 DEF RunInv, ViewInv, InUseInv, FetchInv, ChainInv, EndInv, NoCall, Patching, Ending
  <2> QED BY <2>3, <2>4, <2>5
<1>2. TypeInv /\ TypeInv' /\ DaysInv /\ HeldInv /\ RunInv /\ [Next]_vars
        => (DaysInv /\ HeldInv /\ RunInv)'
  <2> SUFFICES ASSUME TypeInv, TypeInv', DaysInv, HeldInv, RunInv, [Next]_vars
               PROVE  (DaysInv /\ HeldInv /\ RunInv)'
    OBVIOUS
  <2>1. CASE ShelfNext /\ UNCHANGED consumerVars
    <3>1. /\ DaysInv' /\ DOMAIN released \subseteq DOMAIN released'
          /\ \A id \in DOMAIN released : released'[id] = released[id]
      BY <2>1, DaysSteps DEF TypeInv
    <3>2. disk' = disk /\ state' = state /\ pc' = pc /\ call' = call
      BY <2>1 DEF consumerVars
    <3>3. HeldInv'
      BY <3>1, <3>2 DEF HeldInv, Whole, Original
    <3>4. RunInv'
      BY <3>1, <3>2, RunInvFrame
    <3> QED BY <3>1, <3>3, <3>4
  <2>2. CASE UNCHANGED vars
    <3>1. /\ cat' = cat /\ shelf' = shelf /\ released' = released
          /\ disk' = disk /\ state' = state /\ pc' = pc /\ call' = call
      BY <2>2 DEF vars, shelfVars, consumerVars
    <3>2. DaysInv'
      BY <3>1 DEF DaysInv, Covers, Day
    <3>3. HeldInv'
      BY <3>1 DEF HeldInv, Whole, Original
    <3>4. RunInv'
      BY <3>1, RunInvFrame
    <3> QED BY <3>2, <3>3, <3>4
  <2>3. CASE Choose \/ ChooseOnward \/ UpdaterStep \/ NetworkFails \/ Crash
    <3>1. UNCHANGED shelfVars
      BY <2>3, ConsumerLeavesShelf
    <3>2. DaysInv'
      BY <3>1 DEF shelfVars, DaysInv, Covers, Day
    <3>3. HeldInv' /\ RunInv'
      BY <2>3, <3>1, ConsumerKeeps DEF UInv, CallOK, TypeInv
    <3> QED BY <3>2, <3>3
  <2>4. \A id \in Ids : ~Install(id)
    BY DEF Immutable, Install
  <2> QED BY <2>1, <2>2, <2>3, <2>4 DEF Next
<1> QED BY <1>1, <1>2, TypeInvHolds, PTL DEF Spec, UInv

\* The build in use is whole, at every moment of every call and after every
\* failure and crash: what state.json names is in its directory with the content
\* that it was committed as.
THEOREM HoldsWhatItSays ==
  ASSUME Immutable
  PROVE  Spec => []HeldIsWhole
<1>1. UInv => HeldIsWhole
  BY DEF UInv, HeldInv, HeldIsWhole, Whole, Original
<1> QED BY <1>1, UInvHolds, PTL

\* The same between calls, which is what the caller sees.
THEOREM CallsLeaveItWhole ==
  ASSUME Immutable
  PROVE  Spec => []HeldSurvivesCalls
<1>1. HeldIsWhole => HeldSurvivesCalls
  BY DEF HeldSurvivesCalls
<1> QED BY <1>1, HoldsWhatItSays, PTL

----------------------------------------------------------------------------
\* What Lineage sees of a step.
PublishedDays == [b \in DOMAIN released |-> released[b].through]

Held == IF pc = "record" THEN call.cur ELSE state.current

\* The consumer moves, loses track, or stays where it is.
LEMMA ConsumerMoves ==
  ASSUME Immutable, UInv, UInv', UNCHANGED shelfVars,
         Choose \/ ChooseOnward \/ UpdaterStep \/ NetworkFails \/ Crash
  PROVE  \/ Held' = Held
         \/ Held' = NoBuild
         \/ /\ Held' \in DOMAIN released
            /\ Held # NoBuild => Held \in DOMAIN released /\ Day(Held') >= Day(Held)
<1>1. /\ CallOK /\ CallInv /\ DaysInv /\ HeldInv /\ ViewInv /\ InUseInv /\ EndInv
      /\ call \in Calls(call.view)
  BY DEF UInv, TypeInv, CallOK, RunInv, CallTypes
<1>2. CASE Record
  <2>1. pc = "record" /\ Held' = call.dest /\ Held = call.cur
    BY <1>2 DEF Record, Return, Held
  <2>2. call.dest \in DOMAIN released /\ Onto(call.dest)
    BY <1>1, <2>1 DEF EndInv, Ending, Onto, ViewInv
  <2>3. call.cur # NoBuild =>
          call.cur \in DOMAIN released /\ Day(call.cur) <= Day(call.dest)
    BY <1>1, <2>1, <2>2 DEF Onto, ViewInv, Covers
  <2>4. \A x \in DOMAIN released : Day(x) \in Nat
    BY <1>1, Params DEF DaysInv
  <2> QED BY <2>1, <2>2, <2>3, <2>4
<1>3. CASE Commit
  BY <1>1, <1>3 DEF Commit, InUseInv, Held
<1>4. CASE Crash
  <2>1. pc' = "idle" /\ state' = state
    BY <1>4 DEF Crash, Return
  <2> QED BY <1>1, <2>1 DEF Held, InUseInv
<1>5. CASE ~Record /\ ~Commit /\ ~Crash
  <2>1. state' = state /\ pc # "record" /\ pc' # "record"
    BY <1>5 DEF Choose, ChooseOnward, UpdaterStep, NetworkFails, Call, TakeFull, Retake, Fetch, EndFetch,
       Wipe, Carry, Apply, Verify, ChainFails, ChainBlocked, AbandonChain, Finish, GiveUp, Refused, Return,
       StartFetch, Onward
  <2> QED BY <2>1 DEF Held
<1> QED BY <1>2, <1>3, <1>4, <1>5

\* The consumer implements Lineage: what it holds is a published build and it only
\* moves to content at least as late, whatever the shelf does, whatever fails, and
\* wherever it dies; dying between the two writes of a commit is what it loses it by.
THEOREM ImplementsLineage ==
  ASSUME Immutable
  PROVE  Spec => KeepsPromise
<1>1. Init => Promise!Init
  <2> SUFFICES ASSUME Init PROVE Promise!Init
    OBVIOUS
  <2>1. DOMAIN released = {} /\ inUse = NoBuild
    BY DEF Init, ShelfInit, EmptyCatalog, inUse, HeldIsWhole, NoState
  <2> QED BY <2>1 DEF Promise!Init
<1>2. UInv /\ UInv' /\ [Next]_vars => [Promise!Next]_<<PublishedDays, inUse>>
  <2> SUFFICES ASSUME UInv, UInv', [Next]_vars PROVE [Promise!Next]_<<PublishedDays, inUse>>
    OBVIOUS
  <2>1. inUse = Held /\ inUse' = Held'
    BY DEF UInv, HeldInv, HeldIsWhole, Whole, Original, inUse, Held
  <2>2. CASE ShelfNext /\ UNCHANGED consumerVars
    <3>1. Held' = Held
      BY <2>2 DEF Held, consumerVars
    <3>2. CASE released' = released
      BY <2>1, <3>1, <3>2 DEF PublishedDays
    <3>3. ASSUME NEW id \in Ids, NEW kind \in Kinds, NEW through \in Days, Grows(id, kind, through)
          PROVE  Promise!Publish
      <4>1. /\ id \notin DOMAIN released /\ DOMAIN released' = DOMAIN released \cup {id}
            /\ released'[id].through = through
            /\ \A x \in DOMAIN released : released'[x] = released[x]
        BY <3>3 DEF Grows, Recorded
      <4>2. DOMAIN PublishedDays = DOMAIN released
        BY DEF PublishedDays
      <4>3. PublishedDays' = [x \in DOMAIN PublishedDays \cup {id} |-> IF x = id THEN through ELSE PublishedDays[x]]
        BY <4>1, <4>2 DEF PublishedDays
      <4> QED BY <2>1, <3>1, <4>1, <4>2, <4>3 DEF Promise!Publish, PublishedDays
    <3>4. ASSUME NEW id \in DOMAIN cat, Withdraw(id) \/ Rewrite(id)
          PROVE  released' = released
      BY <3>4 DEF Withdraw, Rewrite
    <3> QED BY <2>2, <3>2, <3>3, <3>4, ShelfGrows DEF UInv, TypeInv, Promise!Next
  <2>3. CASE UNCHANGED vars
    BY <2>1, <2>3 DEF vars, shelfVars, consumerVars, PublishedDays, Held
  <2>4. CASE Choose \/ ChooseOnward \/ UpdaterStep \/ NetworkFails \/ Crash
    <3>1. UNCHANGED shelfVars
      BY <2>4, ConsumerLeavesShelf
    <3>2. PublishedDays' = PublishedDays /\ DOMAIN PublishedDays = DOMAIN released
          /\ \A x \in DOMAIN released : PublishedDays[x] = Day(x)
      BY <3>1 DEF PublishedDays, shelfVars, Day
    <3>3. \/ Held' = Held
          \/ Held' = NoBuild
          \/ /\ Held' \in DOMAIN released
             /\ Held # NoBuild => Held \in DOMAIN released /\ Day(Held') >= Day(Held)
      BY <2>4, <3>1, ConsumerMoves
    <3>4. CASE Held' = Held
      BY <2>1, <3>2, <3>4
    <3>5. CASE Held' = NoBuild
      BY <2>1, <3>2, <3>5 DEF Promise!Next, Promise!Lose, PublishedDays
    <3>6. CASE /\ Held' \in DOMAIN released
               /\ Held # NoBuild => Held \in DOMAIN released /\ Day(Held') >= Day(Held)
      <4>1. Held # NoBuild => PublishedDays[Held'] >= PublishedDays[Held]
        BY <3>2, <3>6
      <4> QED BY <2>1, <3>2, <3>6, <4>1 DEF Promise!Next, Promise!Move, PublishedDays
    <3> QED BY <3>3, <3>4, <3>5, <3>6
  <2>5. \A id \in Ids : ~Install(id)
    BY DEF Immutable, Install
  <2> QED BY <2>2, <2>3, <2>4, <2>5 DEF Next
<1> QED BY <1>1, <1>2, UInvHolds, PTL DEF Spec, KeepsPromise, Promise!Spec, PublishedDays

=============================================================================
