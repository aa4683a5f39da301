------------------------- MODULE GenerationsProofs -------------------------
(* The gate protocol of Generations never makes a place reusable that the  *)
(* current generation or a reader's generation still names.                *)
EXTENDS Generations, TLAPS

TypeInv ==
  /\ cur \in Nat /\ names \subseteq Space /\ staged \subseteq Space
  /\ spare \subseteq Space /\ limbo \subseteq Nat \X Space
  /\ saved \in [spare : SUBSET Space, limbo : SUBSET (Nat \X Space)]
  /\ pinned \in [Readers -> SUBSET Space]
  /\ phase \in {"idle", "probing", "decided", "written", "flipped"} /\ gate \in BOOLEAN

(* A place is in limbo once at most, and then it is neither spare nor part *)
(* of n.                                                                   *)
Apart(l, sp, n) ==
  /\ \A x \in l : x[2] \notin sp /\ x[2] \notin n
  /\ \A x, y \in l : x[2] = y[2] => x = y

(* The generation being built and the current one, with what is spare and  *)
(* in limbo for them.  Only the commit to come, cur + 1, may have put      *)
(* places of the current generation into limbo.                            *)
Separate ==
  /\ Apart(limbo, spare, staged) /\ staged \cap spare = {}
  /\ names \cap spare = {}
  /\ \A x \in limbo : x[1] <= cur + 1 /\ (x[1] <= cur => x[2] \notin names)
  /\ phase = "flipped" => staged = names /\ \A x \in limbo : x[1] <= cur

(* The same of the lists another connection would load. *)
SavedSeparate ==
  /\ Apart(saved.limbo, saved.spare, names) /\ names \cap saved.spare = {}
  /\ \A x \in saved.limbo : x[1] <= cur

(* A reader's places stay out of reach also for a connection that loads    *)
(* the lists, and an open gate means that there is no reader but those     *)
(* that came after the flip, to the generation it made current.            *)
PinsSafe ==
  /\ \A r \in Readers : pinned[r] \cap spare = {} /\ pinned[r] \cap saved.spare = {}
  /\ gate => /\ phase \in {"decided", "written", "flipped"}
             /\ \A r \in Readers : pinned[r] = {} \/ (phase = "flipped" /\ pinned[r] = names)

IInv == TypeInv /\ Separate /\ SavedSeparate /\ PinsSafe

----------------------------------------------------------------------------

LEMMA InitIInv == Init => IInv
<1> SUFFICES ASSUME Init PROVE IInv
  OBVIOUS
<1>1. saved.spare = spare /\ saved.limbo = {}
  BY DEF Init
<1>2. TypeInv
  BY DEF Init, TypeInv
<1>3. Separate /\ SavedSeparate
  BY <1>1 DEF Init, Separate, SavedSeparate, Apart
<1>4. PinsSafe
  BY <1>1 DEF Init, PinsSafe
<1> QED BY <1>2, <1>3, <1>4 DEF IInv

(* Building keeps what was apart apart: a new place comes out of sp, and a *)
(* place given up was in the generation built, so in neither sp nor limbo. *)
LEMMA BuildApart ==
  ASSUME NEW sp \in SUBSET Space, NEW l \in SUBSET (Nat \X Space),
         cur \in Nat, staged \subseteq Space,
         Apart(l, sp, staged), staged \cap sp = {}, Build(sp, l)
  PROVE  /\ staged' \subseteq Space /\ spare' \subseteq sp
         /\ limbo' \subseteq Nat \X Space
         /\ Apart(limbo', spare', staged') /\ staged' \cap spare' = {}
         /\ \A x \in limbo' : x \in l \/ (x[1] = cur + 1 /\ x[2] \in staged)
<1> DEFINE given == {cur + 1} \X (staged \ staged')
<1>1. limbo' = l \cup given /\ spare' = sp \ staged' /\ staged' \ staged \subseteq sp
      /\ staged' \subseteq Space
  BY DEF Build
<1>2. \A x \in given : x = <<cur + 1, x[2]>> /\ x[1] = cur + 1 /\ x[2] \in staged /\ x[2] \notin staged'
  OBVIOUS
<1>3. given \subseteq Nat \X Space
  BY <1>2, <1>1
<1>4. \A x \in l : x[2] \notin sp /\ x[2] \notin staged
  BY DEF Apart
<1>5. \A x \in limbo' : x[2] \notin spare' /\ x[2] \notin staged'
  BY <1>1, <1>2, <1>4
<1>6. \A x, y \in limbo' : x[2] = y[2] => x = y
  <2>1. SUFFICES ASSUME NEW x \in limbo', NEW y \in limbo', x[2] = y[2] PROVE x = y
    OBVIOUS
  <2>2. CASE x \in l /\ y \in l
    BY <2>1, <2>2 DEF Apart
  <2>3. CASE x \in given /\ y \in given
    BY <2>1, <2>3, <1>2
  <2>4. CASE (x \in l /\ y \in given) \/ (x \in given /\ y \in l)
    BY <2>1, <2>4, <1>2, <1>4
  <2> QED BY <1>1, <2>2, <2>3, <2>4
<1>7. staged' \cap spare' = {}
  BY <1>1
<1> QED BY <1>1, <1>2, <1>3, <1>5, <1>6, <1>7 DEF Apart

LEMMA PinStep == IInv /\ (\E r \in Readers : Pin(r) \/ Unpin(r)) => IInv'
<1> SUFFICES ASSUME IInv, NEW r \in Readers, Pin(r) \/ Unpin(r) PROVE IInv'
  OBVIOUS
<1>1. UNCHANGED <<cur, names, staged, spare, limbo, saved, phase, gate>>
      /\ \/ ~(gate /\ phase \in {"decided", "written"}) /\ pinned' = [pinned EXCEPT ![r] = names]
         \/ pinned' = [pinned EXCEPT ![r] = {}]
  BY DEF Pin, Unpin
<1>2. TypeInv'
  BY <1>1 DEF IInv, TypeInv
<1>3. Separate' /\ SavedSeparate'
  BY <1>1 DEF IInv, Separate, SavedSeparate
<1>4. \A s \in Readers : \/ pinned'[s] = pinned[s] \/ pinned'[s] = {}
                        \/ (~(gate /\ phase \in {"decided", "written"}) /\ pinned'[s] = names)
  BY <1>1 DEF IInv, TypeInv
<1>5. PinsSafe'
  BY <1>1, <1>4 DEF IInv, PinsSafe, Separate, SavedSeparate
<1> QED BY <1>2, <1>3, <1>5 DEF IInv

LEMMA StageStep == IInv /\ Stage => IInv'
<1> SUFFICES ASSUME IInv, Stage PROVE IInv'
  OBVIOUS
<1>1. Build(spare, limbo) /\ UNCHANGED <<cur, names, saved, pinned, phase, gate>> /\ phase = "idle"
  BY DEF Stage
<1>2. /\ staged' \subseteq Space /\ spare' \subseteq spare /\ limbo' \subseteq Nat \X Space
      /\ Apart(limbo', spare', staged') /\ staged' \cap spare' = {}
      /\ \A x \in limbo' : x \in limbo \/ (x[1] = cur + 1 /\ x[2] \in staged)
  BY <1>1, BuildApart DEF IInv, TypeInv, Separate
<1>3. TypeInv'
  BY <1>1, <1>2 DEF IInv, TypeInv
<1>4. \A x \in limbo' : x[1] <= cur + 1 /\ (x[1] <= cur => x[2] \notin names)
  BY <1>2 DEF IInv, TypeInv, Separate
<1>5. Separate'
  BY <1>1, <1>2, <1>4 DEF IInv, Separate
<1>6. SavedSeparate' /\ PinsSafe'
  BY <1>1, <1>2 DEF IInv, SavedSeparate, PinsSafe
<1> QED BY <1>3, <1>5, <1>6 DEF IInv

(* What earlier commits gave up is named by nothing that is kept. *)
LEMMA ReleaseApart ==
  ASSUME IInv, gate
  PROVE  LET sp == spare \cup Places(UpTo(limbo, cur))
             l  == limbo \ UpTo(limbo, cur)
         IN  /\ sp \in SUBSET Space /\ l \in SUBSET (Nat \X Space)
             /\ Apart(l, sp, staged) /\ staged \cap sp = {} /\ names \cap sp = {}
<1> DEFINE sp == spare \cup Places(UpTo(limbo, cur))
           l  == limbo \ UpTo(limbo, cur)
<1>1. \A g \in sp : g \in spare \/ \E x \in limbo : x[1] <= cur /\ x[2] = g
  BY DEF Places, UpTo
<1>2. \A x \in l : x \in limbo /\ ~(x[1] <= cur)
  BY DEF UpTo
<1>3. sp \in SUBSET Space /\ l \in SUBSET (Nat \X Space)
  BY <1>1, <1>2 DEF IInv, TypeInv
<1>4. staged \cap sp = {} /\ names \cap sp = {}
  BY <1>1 DEF IInv, Separate, Apart
<1>5. \A x \in l : x[2] \notin sp /\ x[2] \notin staged
  BY <1>1, <1>2 DEF IInv, Separate, Apart
<1>6. \A x, y \in l : x[2] = y[2] => x = y
  BY <1>2 DEF IInv, Separate, Apart
<1> QED BY <1>3, <1>4, <1>5, <1>6 DEF Apart

LEMMA PrepareStep == IInv /\ Prepare => IInv'
<1> SUFFICES ASSUME IInv, Prepare PROVE IInv'
  OBVIOUS
<1>1. UNCHANGED <<cur, names, saved, pinned, gate>> /\ phase = "decided" /\ phase' = "written"
  BY DEF Prepare
<1>2. CASE ~gate
  <2>1. Build(spare, limbo)
    BY <1>2 DEF Prepare
  <2>2. /\ staged' \subseteq Space /\ spare' \subseteq spare /\ limbo' \subseteq Nat \X Space
        /\ Apart(limbo', spare', staged') /\ staged' \cap spare' = {}
        /\ \A x \in limbo' : x \in limbo \/ (x[1] = cur + 1 /\ x[2] \in staged)
    BY <2>1, BuildApart DEF IInv, TypeInv, Separate
  <2>3. TypeInv'
    BY <1>1, <2>2 DEF IInv, TypeInv
  <2>4. \A x \in limbo' : x[1] <= cur + 1 /\ (x[1] <= cur => x[2] \notin names)
    BY <2>2 DEF IInv, TypeInv, Separate
  <2>5. Separate'
    BY <1>1, <2>2, <2>4 DEF IInv, Separate
  <2>6. SavedSeparate' /\ PinsSafe'
    BY <1>1, <1>2, <2>2 DEF IInv, SavedSeparate, PinsSafe
  <2> QED BY <2>3, <2>5, <2>6 DEF IInv
<1>3. CASE gate
  <2> DEFINE sp == spare \cup Places(UpTo(limbo, cur))
             l  == limbo \ UpTo(limbo, cur)
  <2>1. Build(sp, l)
    BY <1>3 DEF Prepare
  <2>2. /\ sp \in SUBSET Space /\ l \in SUBSET (Nat \X Space)
        /\ Apart(l, sp, staged) /\ staged \cap sp = {} /\ names \cap sp = {}
    BY <1>3, ReleaseApart
  <2>3. l \subseteq limbo
    OBVIOUS
  <2> HIDE DEF sp, l
  <2>4. /\ staged' \subseteq Space /\ spare' \subseteq sp /\ limbo' \subseteq Nat \X Space
        /\ Apart(limbo', spare', staged') /\ staged' \cap spare' = {}
        /\ \A x \in limbo' : x \in l \/ (x[1] = cur + 1 /\ x[2] \in staged)
    BY <2>1, <2>2, BuildApart DEF IInv, TypeInv
  <2>5. TypeInv'
    BY <1>1, <2>2, <2>4 DEF IInv, TypeInv
  <2>6. \A x \in limbo' : x[1] <= cur + 1 /\ (x[1] <= cur => x[2] \notin names)
    BY <2>3, <2>4 DEF IInv, TypeInv, Separate
  <2>7. names \cap spare' = {}
    BY <2>2, <2>4
  <2>8. Separate'
    BY <1>1, <2>4, <2>6, <2>7 DEF Separate
  <2>9. \A r \in Readers : pinned[r] = {}
    BY <1>1, <1>3 DEF IInv, PinsSafe
  <2>10. SavedSeparate' /\ PinsSafe'
    BY <1>1, <2>9 DEF IInv, SavedSeparate, PinsSafe
  <2> QED BY <2>5, <2>8, <2>10 DEF IInv
<1> QED BY <1>2, <1>3 DEF IInv, TypeInv

LEMMA FlipStep == IInv /\ Flip => IInv'
<1> SUFFICES ASSUME IInv, Flip PROVE IInv'
  OBVIOUS
<1>1. /\ cur' = cur + 1 /\ names' = staged /\ saved' = [spare |-> spare, limbo |-> limbo]
      /\ phase = "written" /\ phase' = "flipped"
      /\ UNCHANGED <<staged, spare, limbo, pinned, gate>>
  BY DEF Flip
<1>2. saved'.spare = spare /\ saved'.limbo = limbo
  BY <1>1
<1>3. \A x \in limbo : x[1] \in Nat /\ x[1] <= cur + 1 /\ x[2] \notin staged
  BY DEF IInv, TypeInv, Separate, Apart
<1>4. TypeInv'
  BY <1>1 DEF IInv, TypeInv
<1>5. Separate'
  BY <1>1, <1>3 DEF IInv, TypeInv, Separate
<1>6. SavedSeparate' /\ PinsSafe'
  BY <1>1, <1>2, <1>3 DEF IInv, Separate, SavedSeparate, PinsSafe
<1> QED BY <1>4, <1>5, <1>6 DEF IInv

LEMMA LandStep == IInv /\ Land => IInv'
<1> SUFFICES ASSUME IInv, Land PROVE IInv'
  OBVIOUS
<1>1. /\ phase = "flipped" /\ phase' = "idle" /\ gate' = FALSE
      /\ UNCHANGED <<cur, names, staged, saved, pinned>>
  BY DEF Land
<1>2. staged = names /\ \A x \in limbo : x[1] \in Nat /\ x[1] <= cur
  BY <1>1 DEF IInv, TypeInv, Separate
<1>3. CASE ~gate
  <2>1. UNCHANGED <<spare, limbo>>
    BY <1>3 DEF Land
  <2>2. TypeInv' /\ Separate' /\ SavedSeparate' /\ PinsSafe'
    BY <1>1, <2>1 DEF IInv, TypeInv, Separate, SavedSeparate, PinsSafe
  <2> QED BY <2>2 DEF IInv
<1>4. CASE gate
  <2> DEFINE sp == spare \cup Places(UpTo(limbo, cur))
             l  == limbo \ UpTo(limbo, cur)
  <2>1. spare' = sp /\ limbo' = l
    BY <1>4 DEF Land
  <2>2. /\ sp \in SUBSET Space /\ l \in SUBSET (Nat \X Space)
        /\ Apart(l, sp, staged) /\ staged \cap sp = {} /\ names \cap sp = {}
    BY <1>4, ReleaseApart
  <2>3. l \subseteq limbo
    OBVIOUS
  <2> HIDE DEF sp, l
  <2>4. TypeInv'
    BY <1>1, <2>1, <2>2 DEF IInv, TypeInv
  <2>5. Separate'
    BY <1>1, <2>1, <2>2, <2>3 DEF IInv, Separate
  <2>6. \A r \in Readers : pinned[r] = {} \/ pinned[r] = names
    BY <1>4 DEF IInv, PinsSafe
  <2>7. SavedSeparate' /\ PinsSafe'
    BY <1>1, <2>1, <2>2, <2>6 DEF IInv, SavedSeparate, PinsSafe
  <2> QED BY <2>4, <2>5, <2>7 DEF IInv
<1> QED BY <1>3, <1>4 DEF IInv, TypeInv

LEMMA BackStep == IInv /\ (Reload \/ Fail) => IInv'
<1> SUFFICES ASSUME IInv, Reload \/ Fail PROVE IInv'
  OBVIOUS
<1>1. /\ staged' = names /\ spare' = saved.spare /\ limbo' = saved.limbo
      /\ phase' = "idle" /\ (gate' = FALSE \/ (gate' = gate /\ phase = "idle"))
      /\ UNCHANGED <<cur, names, saved, pinned>>
  BY DEF Reload, Fail
<1>2. TypeInv'
  BY <1>1 DEF IInv, TypeInv
<1>3. \A x \in saved.limbo : x[1] \in Nat /\ x[1] <= cur
  BY DEF IInv, TypeInv, SavedSeparate
<1>4. Separate'
  BY <1>1, <1>3 DEF IInv, TypeInv, Separate, SavedSeparate, Apart
<1>5. gate' = FALSE
  BY <1>1 DEF IInv, TypeInv, PinsSafe
<1>6. SavedSeparate' /\ PinsSafe'
  BY <1>1, <1>5 DEF IInv, SavedSeparate, PinsSafe
<1> QED BY <1>2, <1>4, <1>6 DEF IInv

LEMMA GateStep == IInv /\ (BeginCommit \/ Decide) => IInv'
<1> SUFFICES ASSUME IInv, BeginCommit \/ Decide PROVE IInv'
  OBVIOUS
<1>1. /\ UNCHANGED <<cur, names, staged, spare, limbo, saved, pinned>>
      /\ \/ phase = "idle" /\ phase' = "probing" /\ gate' = gate
         \/ phase = "probing" /\ phase' = "decided" /\ gate' \in BOOLEAN
            /\ (gate' => \A r \in Readers : pinned[r] = {})
  BY DEF BeginCommit, Decide
<1>2. TypeInv' /\ Separate' /\ SavedSeparate'
  BY <1>1 DEF IInv, TypeInv, Separate, SavedSeparate
<1>3. PinsSafe'
  BY <1>1 DEF IInv, TypeInv, PinsSafe
<1> QED BY <1>2, <1>3 DEF IInv

LEMMA IInvInductive == IInv /\ [Next]_genVars => IInv'
<1> SUFFICES ASSUME IInv, [Next]_genVars PROVE IInv'
  OBVIOUS
<1>1. CASE UNCHANGED genVars
  BY <1>1 DEF genVars, IInv, TypeInv, Separate, SavedSeparate, PinsSafe
<1>2. CASE Next
  BY <1>2, PinStep, StageStep, PrepareStep, FlipStep, LandStep, BackStep, GateStep DEF Next
<1> QED BY <1>1, <1>2

(* For any number of readers and places: what the current generation or a  *)
(* reader's generation names is never among the places that may be         *)
(* written, whichever commits fail, whichever connection takes over and    *)
(* whatever is recycled.                                                   *)
THEOREM GenerationsKeepPlaces == Spec => []PlacesAreKept
<1>1. IInv => PlacesAreKept
  BY DEF IInv, Separate, PinsSafe, PlacesAreKept
<1> QED BY <1>1, InitIInv, IInvInductive, PTL DEF Spec
=============================================================================
