---------------------------- MODULE Generations ----------------------------
(***************************************************************************)
(* What the container promises about the reuse of space: a generation is a *)
(* set of places, a commit replaces the current one, and what it no longer *)
(* names waits in limbo, under the number of the commit that gave it up,   *)
(* until nobody can be reading it.                                         *)
(*                                                                         *)
(*   cur, names  the current generation                                    *)
(*   staged      the next one, as far as it is built                       *)
(*   spare       places that may be written                                *)
(*   limbo       places given up, each with the commit that did            *)
(*   saved       spare and limbo as the current generation records them    *)
(*   pinned      the places of the generation a reader works on            *)
(*   phase, gate where the commit is, and whether it may recycle           *)
(***************************************************************************)
EXTENDS Naturals

CONSTANTS Readers, Space

VARIABLES cur, names, staged, spare, limbo, saved, pinned, phase, gate

genVars == <<cur, names, staged, spare, limbo, saved, pinned, phase, gate>>

UpTo(l, txn) == {x \in l : x[1] <= txn}
Places(l) == {x[2] : x \in l}

Init ==
  /\ cur \in Nat /\ names \subseteq Space /\ staged = names
  /\ spare \subseteq Space \ names /\ limbo = {}
  /\ saved = [spare |-> spare, limbo |-> {}]
  /\ pinned = [r \in Readers |-> {}]
  /\ phase = "idle" /\ gate = FALSE

(* A reader adopts the current generation; between an open gate and the    *)
(* flip nobody does.                                                       *)
Pin(r) ==
  /\ pinned[r] = {} /\ ~(gate /\ phase \in {"decided", "written"})
  /\ pinned' = [pinned EXCEPT ![r] = names]
  /\ UNCHANGED <<phase, gate, cur, names, staged, spare, limbo, saved>>

Unpin(r) ==
  /\ pinned' = [pinned EXCEPT ![r] = {}]
  /\ UNCHANGED <<phase, gate, cur, names, staged, spare, limbo, saved>>

(* Copy on write: what is new comes out of sp, what it replaces goes into  *)
(* limbo under the commit to come.                                         *)
Build(sp, l) ==
  /\ staged' \subseteq Space
  /\ staged' \ staged \subseteq sp
  /\ spare' = sp \ staged'
  /\ limbo' = l \cup {cur + 1} \X (staged \ staged')

Stage ==
  /\ phase = "idle"
  /\ Build(spare, limbo)
  /\ UNCHANGED <<cur, names, saved, pinned, phase, gate>>

(* Another connection takes over, with what the generation records. *)
Reload ==
  /\ phase = "idle"
  /\ staged' = names /\ spare' = saved.spare /\ limbo' = saved.limbo
  /\ UNCHANGED <<cur, names, saved, pinned, phase, gate>>

BeginCommit ==
  /\ phase = "idle" /\ phase' = "probing"
  /\ UNCHANGED <<cur, names, staged, spare, limbo, saved, pinned, gate>>

(* The gate opens only if nobody has a generation pinned. *)
Decide ==
  /\ phase = "probing" /\ phase' = "decided"
  /\ gate' \in BOOLEAN
  /\ gate' => \A r \in Readers : pinned[r] = {}
  /\ UNCHANGED <<cur, names, staged, spare, limbo, saved, pinned>>

(* What earlier commits gave up may be used by this one, what it gives up  *)
(* itself may not.                                                         *)
Prepare ==
  /\ phase = "decided" /\ phase' = "written"
  /\ IF gate THEN Build(spare \cup Places(UpTo(limbo, cur)), limbo \ UpTo(limbo, cur))
     ELSE Build(spare, limbo)
  /\ UNCHANGED <<cur, names, saved, pinned, gate>>

Flip ==
  /\ phase = "written" /\ phase' = "flipped"
  /\ cur' = cur + 1 /\ names' = staged
  /\ saved' = [spare |-> spare, limbo |-> limbo]
  /\ UNCHANGED <<staged, spare, limbo, pinned, gate>>

Land ==
  /\ phase = "flipped" /\ phase' = "idle"
  /\ IF gate THEN spare' = spare \cup Places(UpTo(limbo, cur)) /\ limbo' = limbo \ UpTo(limbo, cur)
     ELSE UNCHANGED <<spare, limbo>>
  /\ gate' = FALSE
  /\ UNCHANGED <<cur, names, staged, saved, pinned>>

Fail ==
  /\ phase = "written" /\ phase' = "idle"
  /\ staged' = names /\ spare' = saved.spare /\ limbo' = saved.limbo /\ gate' = FALSE
  /\ UNCHANGED <<cur, names, saved, pinned>>

Next == \/ \E r \in Readers : Unpin(r) \/ Pin(r)
        \/ BeginCommit \/ Decide \/ Prepare \/ Flip \/ Land \/ Fail \/ Reload \/ Stage

Spec == Init /\ [][Next]_genVars

(* No place a reader's generation or the current one names may be written. *)
PlacesAreKept == /\ names \cap spare = {}
                 /\ \A r \in Readers : pinned[r] \cap spare = {}
=============================================================================
