------------------------------ MODULE Updater ------------------------------
(***************************************************************************)
(* Update: one consumer directory, brought to the newest build by calls    *)
(* that may fail or be killed at any point, while the shelf moves on.      *)
(*                                                                         *)
(* The directory holds one subdirectory per build and state.json, which    *)
(* names the build in use and the content it was committed as.  A call     *)
(* reads the catalog once and works from that snapshot; every manifest,    *)
(* database and patch it asks for later comes from the shelf of the        *)
(* moment.  A file is what its bytes mean: the build whose content it has, *)
(* and whether its bytes are still the published ones, which rebuilding    *)
(* the full-text index ends.                                               *)
(***************************************************************************)
EXTENDS Shelf, FiniteSetsExt

CONSTANTS MaxFaults,  \* the bound on calls that fail or die for a reason of their own
          OldClient   \* whether an older client's state, with no content hash, may be found

ASSUME UpdaterAssumption == MaxFaults \in Nat /\ OldClient \in BOOLEAN

VARIABLES disk,    \* the consumer's databases, per build directory
          state,   \* state.json
          pc, call,  \* the running call: its phase and locals
          faults   \* how many faults have struck

consumerVars == <<disk, state, pc, call, faults>>
vars == <<shelfVars, consumerVars>>

NoContent == [build |-> NoBuild, gen |-> 0]
Missing == [content |-> NoContent, raw |-> FALSE]
Junk == [content |-> [build |-> NoBuild, gen |-> 1], raw |-> FALSE]

\* What state.json says; a missing or half-written one says nothing.
NoState == [current |-> NoBuild, content |-> NoContent]

\* A call's locals: its catalog, the build it found held, the road it is on,
\* the build whose files it starts from, the patch steps and the one it is at,
\* the files it has still to do, the content the manifest of a whole download
\* states, and the build it will commit.
NoCall == [view |-> EmptyCatalog, cur |-> NoBuild, road |-> "none", base |-> NoBuild,
           steps |-> <<>>, k |-> 0, todo |-> {}, want |-> NoContent, dest |-> NoBuild]

Phases == {"idle", "choose", "full", "retake", "fetch", "onward", "wipe", "carry", "apply",
           "verify", "finish", "commit", "record"}

NoFiles == [f \in Files |-> Missing]

target == call.steps[Len(call.steps)].id

----------------------------------------------------------------------------
\* Whether the client can verify a build at all: it is there, and its hashes
\* follow rules the client knows.
Verifiable(id) == OnShelf(id) /\ ~shelf[id].newRules

\* Mutant: a state without a hash gets the benefit of the doubt.
changedUnderUs_trusting(id) ==
  /\ state.current = id /\ state.content # NoContent
  /\ OnShelf(id) /\ ContentOf(id) # state.content

\* changedUnderUs: the held build is not the one published under its id, or its
\* state cannot tell.
changedUnderUs(id) ==
  /\ state.current = id
  /\ \/ state.content = NoContent
     \/ OnShelf(id) /\ ContentOf(id) # state.content

\* Mutant: nothing is newer than a build the catalog does not list.
standPat_unlisted(c, cur) == cur # NoBuild /\ ~newer(c, Latest(c), cur)

\* Stand pat only when the catalog positively says that nothing is newer.
standPat(c, cur) ==
  \/ cur # NoBuild /\ cur = Latest(c)
  \/ Listed(c, cur) /\ ~newer(c, Latest(c), cur)

\* Never downgrade: only a held build that is still listed can refuse the full.
refusesFull(c, cur, full) == Listed(c, cur) /\ ~newer(c, full, cur)

\* Start fetching a build's databases whole: its manifest is read, once.
StartFetch(id, road, steps) ==
  /\ pc' = "fetch"
  /\ call' = [call EXCEPT !.road = road, !.base = id, !.steps = steps, !.k = 0,
                          !.todo = Files, !.want = IF OnShelf(id) THEN ContentOf(id) ELSE NoContent]

\* The database at hand: they are done one at a time, in one order throughout.
file == CHOOSE f \in call.todo : TRUE

Return == pc' = "idle" /\ call' = NoCall

----------------------------------------------------------------------------
Init ==
  /\ ShelfInit
  /\ disk = [id \in Ids |-> NoFiles]
  /\ state = NoState
  /\ pc = "idle" /\ call = NoCall /\ faults = 0

\* An older client's install: a whole build, and a state that records no hash.
Install(id) ==
  /\ OldClient /\ state = NoState /\ pc = "idle" /\ OnShelf(id)
  /\ disk' = [disk EXCEPT ![id] = [f \in Files |-> [content |-> ContentOf(id), raw |-> FALSE]]]
  /\ state' = [current |-> id, content |-> NoContent]
  /\ UNCHANGED <<shelfVars, pc, call, faults>>

\* The catalog is read.  With nothing newer the call ends, unless the held
\* build was rewritten.
Call ==
  /\ pc = "idle" /\ cat # EmptyCatalog
  /\ IF standPat(cat, state.current)
     THEN /\ changedUnderUs(state.current)
          /\ pc' = "retake"
     ELSE pc' = "choose"
  /\ call' = [NoCall EXCEPT !.view = cat, !.cur = state.current]
  /\ UNCHANGED <<shelfVars, disk, state, faults>>

\* The newest build must be verifiable; then the cheapest road to it is taken.
Choose ==
  /\ pc = "choose"
  /\ Verifiable(Latest(call.view))
  /\ \E r \in {cheapest(call.view, call.cur, Latest(call.view))} :
       IF r.seed # NoBuild THEN StartFetch(r.seed, "cheapest", r.steps)
       ELSE IF r.steps # <<>>
       THEN /\ pc' = "wipe"
            /\ call' = [call EXCEPT !.road = "cheapest", !.base = call.cur, !.steps = r.steps]
       ELSE pc' = "full" /\ UNCHANGED call
  /\ UNCHANGED <<shelfVars, disk, state, faults>>

\* The full road: the newest full whole, unless that would be a downgrade.
TakeFull ==
  LET full == LatestFull(call.view)
  IN  /\ pc = "full"
      /\ full # NoBuild
      /\ IF refusesFull(call.view, call.cur, full)
         THEN IF changedUnderUs(call.cur) THEN pc' = "retake" /\ UNCHANGED call ELSE Return
         ELSE StartFetch(full, "full", <<>>)
      /\ UNCHANGED <<shelfVars, disk, state, faults>>

\* retakeFull: the held copy goes, and then the build is fetched again.
Retake ==
  /\ pc = "retake"
  /\ disk' = [disk EXCEPT ![call.cur] = NoFiles]
  /\ StartFetch(call.cur, "retake", <<>>)
  /\ UNCHANGED <<shelfVars, state, faults>>

\* Whether the database at hand is there already, byte for byte as the manifest
\* has it, and whether fetchFull can have it at all.
HasFile == disk[call.base][file] = [content |-> call.want, raw |-> TRUE]

CanFetch ==
  /\ call.want # NoContent
  /\ HasFile \/ (OnShelf(call.base) /\ shelf[call.base].hosted /\ ContentOf(call.base) = call.want)

\* fetchFull, one database: kept if its bytes are the published ones, otherwise
\* downloaded, verified and renamed into place.
Fetch ==
  /\ pc = "fetch" /\ call.todo # {}
  /\ CanFetch
  /\ disk' = [disk EXCEPT ![call.base][file] = [content |-> call.want, raw |-> TRUE]]
  /\ call' = [call EXCEPT !.todo = @ \ {file}]
  /\ UNCHANGED <<shelfVars, state, pc, faults>>

\* What follows the download: the patches from there, or the finish.
Onward(steps) ==
  /\ call' = [call EXCEPT !.steps = steps, !.dest = IF steps = <<>> THEN call.base ELSE @]
  /\ pc' = IF steps = <<>> THEN "finish" ELSE "wipe"

EndFetch ==
  /\ pc = "fetch" /\ call.todo = {}
  /\ IF call.road = "full" /\ call.base # Latest(call.view)
     THEN pc' = "onward" /\ UNCHANGED call
     ELSE Onward(call.steps)
  /\ UNCHANGED <<shelfVars, disk, state, faults>>

\* From the newest full, the cheapest patches to the tip are looked up again;
\* a full to download first, if the search names one, is not.
ChooseOnward ==
  /\ pc = "onward"
  /\ \E r \in {cheapest(call.view, call.base, Latest(call.view))} : Onward(r.steps)
  /\ UNCHANGED <<shelfVars, disk, state, faults>>

----------------------------------------------------------------------------
\* Mutant: it is the directory the chain starts from that is emptied first.
Wipe_base ==
  /\ pc = "wipe"
  /\ disk' = [disk EXCEPT ![call.base] = NoFiles]
  /\ call' = [call EXCEPT !.todo = Files, !.k = 1, !.dest = target]
  /\ pc' = "carry"
  /\ UNCHANGED <<shelfVars, state, faults>>

\* applyChain: the target's directory is emptied, the base's files are copied
\* into it, every step's patches are applied in order, and the result must be
\* the target build.
Wipe ==
  /\ pc = "wipe"
  /\ disk' = [disk EXCEPT ![target] = NoFiles]
  /\ call' = [call EXCEPT !.todo = Files, !.k = 1, !.dest = target]
  /\ pc' = "carry"
  /\ UNCHANGED <<shelfVars, state, faults>>

Carry ==
  /\ pc = "carry"
  /\ disk[call.base][file] # Missing
  /\ disk' = [disk EXCEPT ![target][file] = disk[call.base][file]]
  /\ call' = [call EXCEPT !.todo = IF @ = {file} THEN Files ELSE @ \ {file}]
  /\ pc' = IF call.todo = {file} THEN "apply" ELSE "carry"
  /\ UNCHANGED <<shelfVars, state, faults>>

step == call.steps[call.k]

\* What a step makes of a database: an honest patch gives the build's content
\* only from its source's, and a database with no patch is taken whole.
applied ==
  LET kind == shelf[step.id].patch[step.from][file]
  IN  CASE kind = "missing" -> [content |-> ContentOf(step.id), raw |-> TRUE]
        [] kind = "honest" /\ disk[target][file].content = [build |-> step.from, gen |-> 0]
             -> [content |-> ContentOf(step.id), raw |-> FALSE]
        [] OTHER -> Junk

CanApply ==
  /\ OnShelf(step.id)
  /\ shelf[step.id].patch[step.from][file] = "missing" => shelf[step.id].hosted

\* Mutant: the step counter runs past the last step.
Apply_past ==
  /\ pc = "apply"
  /\ CanApply
  /\ disk' = [disk EXCEPT ![target][file] = applied]
  /\ LET stepDone == call.todo = {file}
     IN  call' = [call EXCEPT !.todo = IF stepDone THEN Files ELSE @ \ {file},
                              !.k = IF stepDone THEN @ + 1 ELSE @]
  /\ pc' = IF call.k > Len(call.steps) THEN "verify" ELSE "apply"
  /\ UNCHANGED <<shelfVars, state, faults>>

Apply ==
  /\ pc = "apply"
  /\ CanApply
  /\ disk' = [disk EXCEPT ![target][file] = applied]
  /\ LET stepDone == call.todo = {file}
         allDone  == stepDone /\ call.k = Len(call.steps)
         left     == IF allDone THEN {} ELSE IF stepDone THEN Files ELSE call.todo \ {file}
     IN  /\ call' = [call EXCEPT !.todo = left,
                                 !.k = IF stepDone /\ ~allDone THEN @ + 1 ELSE @]
         /\ pc' = IF allDone THEN "verify" ELSE "apply"
  /\ UNCHANGED <<shelfVars, state, faults>>

\* Mutant: only the core database is checked.
proven_coreOnly == OnShelf(target) /\ disk[target][Core].content = ContentOf(target)

\* Every database of the target has the content its manifest states.
proven == OnShelf(target) /\ \A f \in Files : disk[target][f].content = ContentOf(target)

Verify ==
  /\ pc = "verify"
  /\ proven
  /\ pc' = "finish"
  /\ UNCHANGED <<shelfVars, disk, state, call, faults>>

\* Any failure on the patch road discards the target, whole.  The cheapest road
\* gives way to the full; a road onward from the full ends on the full.
AbandonChain ==
  /\ disk' = [disk EXCEPT ![target] = NoFiles]
  /\ IF call.road = "cheapest"
     THEN pc' = "full" /\ UNCHANGED call
     ELSE pc' = "finish" /\ call' = [call EXCEPT !.dest = call.base]

ChainBlocked ==
  \/ pc = "carry" /\ disk[call.base][file] = Missing
  \/ pc = "apply" /\ ~CanApply
  \/ pc = "verify" /\ ~proven

ChainFails ==
  /\ ChainBlocked
  /\ AbandonChain
  /\ UNCHANGED <<shelfVars, state, faults>>

----------------------------------------------------------------------------
\* finishBuild: the index is rebuilt in place, the core database is verified,
\* and then state.json is rewritten: truncated first, and that is the commit.
Finishable ==
  Verifiable(call.dest) /\ disk[call.dest][Core].content = ContentOf(call.dest)

Finish ==
  /\ pc = "finish"
  /\ Finishable
  /\ disk' = [disk EXCEPT ![call.dest][Core].raw = FALSE]
  /\ pc' = "commit"
  /\ UNCHANGED <<shelfVars, state, call, faults>>

Commit ==
  /\ pc = "commit"
  /\ state' = NoState
  /\ pc' = "record"
  /\ UNCHANGED <<shelfVars, disk, call, faults>>

Record ==
  /\ pc = "record"
  /\ state' = [current |-> call.dest, content |-> disk[call.dest][Core].content]
  /\ Return
  /\ UNCHANGED <<shelfVars, disk, faults>>

----------------------------------------------------------------------------
\* The call returns an error because it cannot go on: what it needs is not on
\* the shelf, or cannot be verified, which is found out at the finish with the
\* index rebuilt.
Refused ==
  \/ pc = "choose" /\ ~Verifiable(Latest(call.view))
  \/ pc = "full" /\ LatestFull(call.view) = NoBuild
  \/ pc = "fetch" /\ call.todo # {} /\ ~CanFetch
  \/ pc = "finish" /\ ~Finishable

GiveUp ==
  /\ Refused
  /\ Return
  /\ disk' = IF pc = "finish" /\ OnShelf(call.dest)
             THEN [disk EXCEPT ![call.dest][Core].raw = FALSE] ELSE disk
  /\ UNCHANGED <<shelfVars, state, faults>>

\* The network, or the caller's context, fails a call; on the patch road that is
\* one more reason to abandon it.
NetworkFails ==
  /\ faults < MaxFaults /\ faults' = faults + 1
  /\ \/ pc \in {"choose", "full", "fetch", "finish"} /\ Return /\ UNCHANGED disk
     \/ pc \in {"apply", "verify"} /\ AbandonChain
  /\ UNCHANGED <<shelfVars, state>>

\* The process dies.  The database being copied or patched is left half-done;
\* a download is not visible until it is whole.
Crash ==
  /\ faults < MaxFaults /\ faults' = faults + 1
  /\ pc # "idle"
  /\ \/ UNCHANGED disk
     \/ /\ pc \in {"carry", "apply"}
        /\ disk' = [disk EXCEPT ![target][file] = Junk]
  /\ Return
  /\ UNCHANGED <<shelfVars, state>>

UpdaterStep ==
  \/ Call \/ TakeFull \/ Retake \/ Fetch \/ EndFetch
  \/ Wipe \/ Carry \/ Apply \/ Verify \/ ChainFails
  \/ Finish \/ Commit \/ Record \/ GiveUp

Next ==
  \/ ShelfNext /\ UNCHANGED consumerVars
  \/ \E id \in Ids : Install(id)
  \/ Choose \/ ChooseOnward \/ UpdaterStep \/ NetworkFails \/ Crash

Spec == Init /\ [][Next]_vars

\* A call runs to its end unless it dies, and the caller keeps calling.  Of the
\* route search only the effect is stated, that it ends: the call can take a
\* step for as long as it is in such a phase, so this is weak fairness too,
\* without the search in an ENABLED.
FairSpec == Spec /\ WF_vars(UpdaterStep) /\ []<>(pc \notin {"choose", "onward"})

----------------------------------------------------------------------------
Contents == [build: Ids \cup {NoBuild}, gen: 0 .. 1]

\* Every variable of the consumer has its type.
TypeOK ==
  /\ IsCatalog(cat, Ids)
  /\ disk \in [Ids -> [Files -> [content: Contents, raw: BOOLEAN]]]
  /\ state \in [current: Ids \cup {NoBuild}, content: Contents]
  /\ pc \in Phases
  /\ IsCatalog(call.view, Ids)
  /\ \A i \in DOMAIN call.steps : {call.steps[i].id, call.steps[i].from} \subseteq Ids
  /\ call.k \in 0 .. Len(call.steps) /\ call.todo \subseteq Files
  /\ faults \in 0 .. MaxFaults

\* The build in use is whole: every database of the build that state.json names
\* is in its directory, with the content it was committed as.
HeldIsWhole ==
  state.current # NoBuild =>
    \A f \in Files :
      LET c == disk[state.current][f].content
      IN  c.build = state.current /\ state.content \in {NoContent, c}

\* Between calls the build in use is whole, whatever became of the call before:
\* builds land in directories of their own, so no interrupted call damages it.
HeldSurvivesCalls == pc = "idle" => HeldIsWhole

\* A name no build has, for a consumer that holds less than it says.
Damaged == Max(Ids) + 1

\* What the consumer holds.  While state.json is being rewritten it is still the
\* build the call found in use: only dying there loses it.
inUse == IF pc = "record" THEN call.cur ELSE IF HeldIsWhole THEN state.current ELSE Damaged

\* The consumer implements Lineage: what it holds is a published build, whole,
\* and it only moves to content at least as late, even when the build held, or the
\* newest, was withdrawn or could not be patched to.  A build rewritten under its
\* own id is not whole to the consumer that holds it: that is FullsAreRetaken's.
Promise == INSTANCE Lineage WITH
  Builds <- Ids, Days <- Days, None <- NoBuild,
  released <- [b \in DOMAIN released |-> released[b].through],
  held <- inUse

KeepsPromise == Promise!Spec

\* A shelf with nothing faulty on it, and nothing the client cannot verify.
Sound == Faulty(shelf) = {} /\ \A id \in DOMAIN shelf : ~shelf[id].newRules

\* One on which, besides, no build was rewritten and no epoch opened with content
\* older than what was there, and a consumer whose state vouches for what it holds.
Untouched ==
  /\ Sound /\ \A id \in DOMAIN shelf : shelf[id].gen = 0
  /\ \A a, b \in DOMAIN cat : cat[a].epoch > cat[b].epoch => cat[a].through >= cat[b].through
  /\ state.current # NoBuild => state.content # NoContent

CaughtUp ==
  cat = EmptyCatalog \/
  (state.current # NoBuild /\ released[state.current].through = cat[tip].through)

\* Once the shelf is quiet the consumer comes to hold content as late as the
\* newest build's, whatever it held, whatever was withdrawn meanwhile and
\* wherever a call had failed or died.
CatchesUp == []Untouched => <>[]CaughtUp

\* A full that was rewritten where it is published, or whose holder's state
\* cannot vouch for it, is taken again: in the end whoever holds a full holds,
\* whole, what is published under its name.
FullsAreRetaken ==
  []Sound => <>[](OnShelf(state.current) /\ shelf[state.current].hosted =>
                    HeldIsWhole /\ state.content = ContentOf(state.current))

\* Opening an epoch retires what is held: every consumer comes to hold a build
\* of the newest build's epoch.
LeavesRetiredEpochs ==
  []Sound => <>[](cat = EmptyCatalog \/
                  (state.current # NoBuild /\ released[state.current].epoch = cat[tip].epoch))

=============================================================================
