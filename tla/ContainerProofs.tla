-------------------------- MODULE ContainerProofs --------------------------
(***************************************************************************)
(* The container keeps one whole generation on the disk at every moment,   *)
(* through failed writes, crashes, compactions and rebuilds, and never     *)
(* hands out a granule that this generation, the one being built or a      *)
(* record in limbo needs (IInv, WholeGeneration, SpaceHolds).              *)
(*                                                                         *)
(* Its pages are the ones the pager wrote (DataInv, ReadsHold), and what a *)
(* crash may leave is the last acknowledged image or, while a header is    *)
(* being written, the new one: it implements AtomicFile (CommitHolds).     *)
(*                                                                         *)
(* Endless: the file may grow.  Journaled: a failed write is rolled back   *)
(* before a VACUUM starts; without it the accounting does not hold.        *)
(***************************************************************************)
EXTENDS Container, RecordsProofs

HdrRec == [txn : Nat \ {0}, root : Granules, freeOff : Granules, pendOff : Granules,
           eof : Nat, count : 0 .. NPages]

\* What a header stands for, that of an empty file included.
TabOf(d, h)   == IF h.txn = 0 THEN Empty ELSE d[h.root].tab
AllocOf(d, h) == IF h.txn = 0 THEN NewAlloc ELSE Load(d, h)
Held(h, t)    == Lists(h) \cup Span(t)

\* Of the granules in use, u, those to be had and those in limbo no two share one.
Ledger(a, u) ==
  /\ Sound(a)
  /\ u \cap (Room(a) \cup HoleSet) = {}
  /\ Pending(a) \subseteq Granules /\ Pending(a) \cap (u \cup Room(a) \cup HoleSet) = {}
  /\ \A x, y \in Limbo(a) : x[2] = y[2] => x = y

\* And none is forgotten.
Full(a, u) == Granules \subseteq u \cup Room(a) \cup Pending(a) \cup HoleSet

\* Map t, of n pages, over the disk d next to the lists of h.
Mapped(d, h, t, n) ==
  /\ Stored(d, t) /\ Lists(h) \cap Span(t) = {}
  /\ n \in 0 .. NPages /\ \A p \in Pages : p > n => t[p] = Absent

\* The generation h is whole on d.
Gen(d, h, l) ==
  LET t == TabOf(d, h)
      a == AllocOf(d, h)
  IN  /\ h \in HdrRec \cup {ZeroHdr} /\ (h.txn # 0 => Reads(d, h))
      /\ Mapped(d, h, t, h.count)
      /\ Ledger(a, Held(h, t)) /\ a.append = FALSE /\ (l \/ Full(a, Held(h, t)))

PlainKept(d) == \A g \in 1 .. PlainEof - 1 : d[g] = PlainBytes
Sits(d, h, m, l) == Gen(d, h, l) /\ (m = "plain" => h = ZeroHdr /\ PlainKept(d))

\* What must stay as it is until another generation has landed.
KeptOf(d, h, m) == Held(h, TabOf(d, h)) \cup (IF m = "plain" THEN 1 .. PlainEof - 1 ELSE {})
Old  == Held(hdr, TabOf(disk, hdr))
Kept == KeptOf(disk, hdr, mode)

\* Header copies s of which k is picked, h.
Loses(x, h, i) == ~Valid(x) \/ x.txn < h.txn \/ (x = h /\ i = 1)
HdrAll == HdrRec \cup {ZeroHdr, TornHdr, PlainHdr}
AtRest(s, h, k, m) ==
  /\ s \in [{0, 1} -> HdrAll]
  /\ \/ h \in HdrRec /\ m = "container" /\ k \in {0, 1} /\ s[k] = h /\ Loses(s[1 - k], h, 1 - k)
     \/ /\ h = ZeroHdr /\ k = -1
        /\ \/ m = "container" /\ s[0] = ZeroHdr /\ s[1] = ZeroHdr
           \/ m = "plain" /\ s[0] = PlainHdr /\ s[1] \in {PlainHdr, TornHdr}

SlotInv ==
  /\ pc \in {"idle", "pack", "written"} =>
       AtRest(slot, hdr, which, mode) /\ AtRest(slotDur, hdr, which, mode)
  /\ pc = "copied" => /\ mode = "plain" /\ AtRest(slotDur, hdr, which, mode)
                      /\ slot = [slotDur EXCEPT ![1] = cm.hdr]
  /\ pc = "flipped" => \/ /\ mode = "container" /\ AtRest(slotDur, hdr, which, mode)
                          /\ slot = [slotDur EXCEPT ![Target] = cm.hdr]
                       \/ /\ mode = "plain" /\ hdr = ZeroHdr /\ which = -1
                          /\ slotDur = [i \in {0, 1} |-> IF i = 0 THEN PlainHdr ELSE cm.hdr]
                          /\ slot = [i \in {0, 1} |-> cm.hdr]

KeptInv ==
  /\ Sits(disk, hdr, mode, leaky) /\ \A g \in Kept : dur[g] = disk[g]
  /\ clock \in Nat /\ leaky \in BOOLEAN /\ dirty \in BOOLEAN /\ rb.on \in BOOLEAN
  /\ DOMAIN disk = Granules /\ DOMAIN dur = Granules
  /\ pc \in {"idle", "pack", "written", "copied", "flipped"}

WorkInv ==
  pc \in {"idle", "pack"} =>
    /\ Ledger(alloc, Held(hdr, tab)) /\ alloc.append = rb.on
    /\ rb.on \/ leaky \/ Full(alloc, Held(hdr, tab))
    /\ Mapped(disk, hdr, tab, count)
    /\ ~dirty \/ rb.on => tab = TabOf(disk, hdr) /\ count = hdr.count
    /\ Old \cap Room(alloc) = {} /\ \A x \in Limbo(alloc) : x[2] \in Old => x[1] > hdr.txn
    /\ mode = "plain" /\ ~rb.on => ~dirty /\ pc = "idle"
    /\ pc = "pack" => ~dirty /\ ~rb.on

StreamRec == [on : BOOLEAN, tab : [Pages -> [off : Nat, len : Nat]], count : -1 .. NPages,
              base : Nat \ {0}]
StreamInv ==
  pc = "idle" /\ rb.on =>
    /\ rb.base = IF mode = "plain" THEN PlainEof ELSE hdr.eof
    /\ rb.base \in Nat \ {0} /\ rb.base <= alloc.eof
    /\ mode = "container" => hdr.txn > 0
    /\ mode = "plain" => (1 .. PlainEof - 1) \cap Room(alloc) = {}
    /\ Stored(disk, rb.tab) /\ Span(rb.tab) \cap (Room(alloc) \cup HoleSet) = {}
    /\ \A g \in Span(rb.tab) : rb.base <= g
    /\ rb \in StreamRec

CommitInv ==
  pc \in {"written", "copied", "flipped"} =>
    /\ Gen(disk, cm.hdr, leaky) /\ cm.hdr.txn = TxnOf
    /\ tab = TabOf(disk, cm.hdr) /\ count = cm.hdr.count /\ alloc = Load(disk, cm.hdr)
    /\ pc # "written" => dur = disk

IInv == KeptInv /\ SlotInv /\ WorkInv /\ StreamInv /\ CommitInv

----------------------------------------------------------------------------
(* The ledger *)

LEMMA PendingIs ==
  ASSUME NEW a, Sound(a)
  PROVE  \A g : g \in Pending(a) <=> \E x \in Limbo(a) : x[2] = g
BY LimboIsPending

\* A step gives up some of what was in use, F, and takes room for the rest.
LEMMA LedgerStep ==
  ASSUME NEW a, NEW u, Ledger(a, u), NEW b, Sound(b), NEW v, NEW txn,
         Room(b) \subseteq Room(a), v \subseteq u \cup Room(a), v \cap Room(b) = {},
         u \subseteq Granules, Endless, Limbo(b) = Limbo(a) \cup ({txn} \X (u \ v))
  PROVE  /\ Ledger(b, v)
         /\ Full(a, u) /\ Room(a) \ Room(b) \subseteq v => Full(b, v)
<1>1. Sound(a) /\ u \cap (Room(a) \cup HoleSet) = {} /\ Pending(a) \subseteq Granules
      /\ Pending(a) \cap (u \cup Room(a) \cup HoleSet) = {}
      /\ \A x, y \in Limbo(a) : x[2] = y[2] => x = y
  BY DEF Ledger
<1>2. \A x : x \in Limbo(b) <=> x \in Limbo(a) \/ \E g \in u \ v : x = <<txn, g>>
  BY InProduct
<1>3. \A g : g \in Pending(b) <=> g \in Pending(a) \/ g \in u \ v
  <2>1. \A g : g \in Pending(b) <=> \E x \in Limbo(b) : x[2] = g
    BY PendingIs
  <2>2. \A g : g \in Pending(a) <=> \E x \in Limbo(a) : x[2] = g
    BY <1>1, PendingIs
  <2>3. ASSUME NEW g \in u \ v PROVE \E x \in Limbo(b) : x[2] = g
    <3>1. <<txn, g>> \in Limbo(b) /\ <<txn, g>>[2] = g
      BY <1>2
    <3> QED BY <3>1
  <2>4. ASSUME NEW x, NEW g \in u \ v, x = <<txn, g>> PROVE x[2] = g
    BY <2>4
  <2> QED BY <1>2, <2>1, <2>2, <2>3, <2>4
<1>4. Room(a) \cap HoleSet = {}
  BY <1>1, RoomIs
<1>5. v \cap HoleSet = {}
  BY <1>1, <1>4
<1>6. Pending(b) \cap (v \cup Room(b) \cup HoleSet) = {} /\ Pending(b) \subseteq Granules
  BY <1>1, <1>3
<1>7. ASSUME NEW x \in Limbo(b), NEW y \in Limbo(b), x[2] = y[2] PROVE x = y
  <2>1. \A z \in Limbo(a) : z[2] \in Pending(a)
    BY <1>1, PendingIs
  <2>2. CASE x \in Limbo(a) /\ y \in Limbo(a)
    BY <1>1, <1>7, <2>2
  <2>3. CASE x \notin Limbo(a) /\ y \notin Limbo(a)
    <3>1. PICK g \in u \ v : x = <<txn, g>>
      BY <1>2, <2>3
    <3>2. PICK k \in u \ v : y = <<txn, k>>
      BY <1>2, <2>3
    <3> QED BY <1>7, <3>1, <3>2
  <2>4. CASE x \notin Limbo(a) /\ y \in Limbo(a)
    <3>1. PICK g \in u \ v : x = <<txn, g>>
      BY <1>2, <2>4
    <3> QED BY <1>1, <1>7, <2>1, <2>4, <3>1
  <2>5. CASE x \in Limbo(a) /\ y \notin Limbo(a)
    <3>1. PICK g \in u \ v : y = <<txn, g>>
      BY <1>2, <2>5
    <3> QED BY <1>1, <1>7, <2>1, <2>5, <3>1
  <2> QED BY <2>2, <2>3, <2>4, <2>5
<1>8. Ledger(b, v)
  BY <1>5, <1>6, <1>7 DEF Ledger
<1>9. ASSUME Full(a, u), Room(a) \ Room(b) \subseteq v PROVE Full(b, v)
  BY <1>3, <1>9 DEF Full
<1> QED BY <1>8, <1>9

LEMMA NoProduct == \A t, S, T : S \subseteq T => {t} \X (S \ T) = {}
OBVIOUS

\* The same use, less room: what a stream takes is in no ledger until its map is the map.
LEMMA LedgerShrinks ==
  ASSUME NEW a, NEW u, Ledger(a, u), NEW b, Sound(b), Room(b) \subseteq Room(a),
         Limbo(b) = Limbo(a), u \subseteq Granules, Endless
  PROVE  Ledger(b, u) /\ (Full(a, u) /\ Room(b) = Room(a) => Full(b, u))
<1>1. u \cap Room(b) = {}
  BY DEF Ledger
<1>2. Limbo(b) = Limbo(a) \cup ({0} \X (u \ u))
  BY NoProduct
<1> QED BY <1>1, <1>2, LedgerStep

LEMMA LedgerBelowEof ==
  ASSUME NEW a, NEW u, Ledger(a, u), Endless
  PROVE  /\ \A g \in Pending(a) : 1 <= g /\ g < a.eof /\ g \notin HoleSet
         /\ u \subseteq Granules => \A g \in u : 1 <= g /\ g < a.eof /\ g \notin HoleSet
<1>1. Sound(a) /\ u \cap (Room(a) \cup HoleSet) = {} /\ Pending(a) \subseteq Granules
      /\ Pending(a) \cap (u \cup Room(a) \cup HoleSet) = {}
  BY DEF Ledger
<1>2. \A g \in Nat : g \notin Room(a) /\ g \notin HoleSet => g < a.eof
  BY <1>1, RoomIs
<1> QED BY <1>1, <1>2 DEF Endless

\* A landed commit frees what the commits up to it gave up.
LEMMA LedgerRelease ==
  ASSUME NEW a, NEW u, Ledger(a, u), Endless, NEW upto \in Nat
  PROVE  LET r == Release(a, upto)
         IN  /\ Ledger(r, u) /\ r.append = a.append /\ (Full(a, u) => Full(r, u))
             /\ Limbo(r) = {x \in Limbo(a) : x[1] > upto}
             /\ \A g \in Room(r) : g \in Room(a) \/ \E x \in Limbo(a) : x[2] = g /\ x[1] <= upto
<1> DEFINE r == Release(a, upto)
           old == {x \in Limbo(a) : x[1] <= upto}
<1>1. Sound(a) /\ u \cap (Room(a) \cup HoleSet) = {} /\ Pending(a) \subseteq Granules
      /\ Pending(a) \cap (u \cup Room(a) \cup HoleSet) = {}
      /\ \A x, y \in Limbo(a) : x[2] = y[2] => x = y
  BY DEF Ledger
<1>2. /\ Sound(r) /\ r.append = a.append
      /\ Room(r) = Room(a) \cup {x[2] : x \in old} /\ Limbo(r) = Limbo(a) \ old
  BY <1>1, LedgerBelowEof, ReleaseLimbo
<1> HIDE DEF r
<1>3. \A x \in Limbo(a) : x[1] \in Nat /\ x[2] \in Pending(a)
  BY <1>1, LimboIsPending
<1>4. Limbo(r) = {x \in Limbo(a) : x[1] > upto}
  BY <1>2, <1>3
<1>5. \A g : g \in Room(r) <=> g \in Room(a) \/ \E x \in Limbo(a) : x[2] = g /\ x[1] <= upto
  BY <1>2
<1>6. \A g : g \in Pending(r) <=> \E x \in Limbo(a) : x[2] = g /\ x[1] > upto
  BY <1>2, <1>4, PendingIs
<1>7. \A g : g \in Pending(a) <=> \E x \in Limbo(a) : x[2] = g
  BY <1>1, PendingIs
<1>8. u \cap (Room(r) \cup HoleSet) = {}
  BY <1>1, <1>3, <1>5
<1>9. Pending(r) \subseteq Granules /\ Pending(r) \cap (u \cup Room(r) \cup HoleSet) = {}
  <2>1. ASSUME NEW g \in Pending(r), g \in Room(r) PROVE FALSE
    <3>1. PICK x \in Limbo(a) : x[2] = g /\ x[1] > upto
      BY <1>6, <2>1
    <3>2. g \in Pending(a)
      BY <1>3, <3>1
    <3>3. PICK y \in Limbo(a) : y[2] = g /\ y[1] <= upto
      BY <1>1, <1>5, <2>1, <3>2
    <3>4. x = y
      BY <1>1, <3>1, <3>3
    <3> QED BY <1>3, <3>1, <3>3, <3>4
  <2>2. Pending(r) \subseteq Pending(a)
    BY <1>6, <1>7
  <2> QED BY <1>1, <2>1, <2>2
<1>10. \A x, y \in Limbo(r) : x[2] = y[2] => x = y
  BY <1>1, <1>2
<1>11. Full(a, u) => Full(r, u)
  <2>1. \A g \in Pending(a) : g \in Pending(r) \/ g \in Room(r)
    BY <1>3, <1>5, <1>6, <1>7
  <2>2. Room(a) \subseteq Room(r)
    BY <1>5
  <2> QED BY <2>1, <2>2 DEF Full
<1> QED BY <1>2, <1>4, <1>5, <1>8, <1>9, <1>10, <1>11 DEF Ledger, r

\* o is what zalloc_release, if the gate is open, and zalloc_trim make of a.
Opens(o, a, upto, gate) == o = Trim(IF gate THEN Release(a, upto) ELSE a)

\* It accounts for the same granules; its room is a's and what was in limbo up to upto.
IsOpened(o, a, u, upto) ==
  /\ Ledger(o, u) /\ o.append = a.append /\ (Full(a, u) => Full(o, u))
  /\ \A g \in Room(o) : g \in Room(a) \/ \E x \in Limbo(a) : x[2] = g /\ x[1] <= upto

\* What every commit begins with.
LEMMA LedgerOpened ==
  ASSUME NEW a, NEW u, Ledger(a, u), u \subseteq Granules, Endless, NEW upto \in Nat, NEW gate \in BOOLEAN,
         NEW o, Opens(o, a, upto, gate)
  PROVE  IsOpened(o, a, u, upto)
<1> DEFINE r == IF gate THEN Release(a, upto) ELSE a
<1>1. /\ Ledger(r, u) /\ r.append = a.append /\ (Full(a, u) => Full(r, u))
      /\ Limbo(r) \subseteq Limbo(a) /\ \A x \in Limbo(a) : x[1] > upto => x \in Limbo(r)
      /\ \A g \in Room(r) : g \in Room(a) \/ \E x \in Limbo(a) : x[2] = g /\ x[1] <= upto
  BY LedgerRelease
<1> HIDE DEF r
<1>2. Sound(r)
  BY <1>1 DEF Ledger
<1>3. Sound(Trim(r)) /\ Room(Trim(r)) = Room(r) /\ Limbo(Trim(r)) = Limbo(r)
      /\ Trim(r).append = r.append
  BY <1>2, TrimKeepsSpace, TrimLimbo
<1>4. Ledger(Trim(r), u) /\ (Full(r, u) => Full(Trim(r), u))
  BY <1>1, <1>3, LedgerShrinks
<1>5. o = Trim(r)
  BY DEF Opens, r
<1> QED BY ONLY <1>1, <1>3, <1>4, <1>5 DEF IsOpened

----------------------------------------------------------------------------
(* Generations *)

LEMMA HdrIs ==
  ASSUME NEW h \in HdrRec \cup {ZeroHdr}
  PROVE  /\ h.txn \in Nat /\ (h.txn = 0 <=> h = ZeroHdr) /\ (h.txn # 0 <=> h \in HdrRec)
         /\ h.count \in 0 .. NPages /\ h.eof \in Nat
         /\ Lists(h) = IF h = ZeroHdr THEN {} ELSE {h.freeOff, h.pendOff, h.root}
         /\ Lists(h) \subseteq Granules
<1>1. ZeroHdr.txn = 0 /\ ZeroHdr.count = 0 /\ ZeroHdr.eof = 0 /\ 0 \in 0 .. NPages
  BY PagesAssumption DEF ZeroHdr
<1> QED BY <1>1 DEF HdrRec, Lists

LEMMA EmptySpan ==
  /\ Span(Empty) = {} /\ \A p \in Pages : Empty[p] = Absent
  /\ \A d : Stored(d, Empty)
<1>1. \A p \in Pages : Empty[p] = Absent
  BY DEF Empty
<1>2. Absent.off = 0 /\ Absent.len = 0 /\ Absent \in [off : Nat, len : Nat]
  BY DEF Absent
<1>3. Ext(0, 0) = {}
  BY DEF Ext
<1>4. Empty \in [Pages -> [off : Nat, len : Nat]]
  BY <1>2 DEF Empty
<1> QED BY <1>1, <1>2, <1>3, <1>4 DEF Span, Stored, Serves

LEMMA NewLedger ==
  ASSUME Endless, NEW e \in Nat \ {0}, e <= Hole0
  PROVE  LET a == [NewAlloc EXCEPT !.eof = e]
         IN  /\ Sound(a) /\ Limbo(a) = {} /\ Ledger(a, {}) /\ a.append = FALSE /\ a.eof = e
             /\ \A g \in Room(a) : e <= g
             /\ e = 1 => Full(a, {})
<1> DEFINE a == [NewAlloc EXCEPT !.eof = e]
<1>1. NewAlloc \in AllocRec
  <2>1. {} \in SUBSET Nat /\ [t \in {} |-> {}] \in [{} -> SUBSET Nat]
    OBVIOUS
  <2>2. [t \in {} |-> {}] \in UNION {[T -> SUBSET Nat] : T \in SUBSET Nat}
    BY <2>1
  <2> QED BY <2>2 DEF AllocRec, NewAlloc
<1>2. a \in AllocRec /\ a.free = {} /\ a.eof = e /\ a.append = FALSE /\ DOMAIN a.pend = {}
  <2>1. NewAlloc.free = {} /\ NewAlloc.append = FALSE /\ DOMAIN NewAlloc.pend = {}
    BY DEF NewAlloc
  <2>2. a \in AllocRec /\ a.free = NewAlloc.free /\ a.eof = e /\ a.append = NewAlloc.append
        /\ a.pend = NewAlloc.pend
    BY <1>1 DEF AllocRec
  <2> QED BY <2>1, <2>2
<1> HIDE DEF a
<1>3. Sound(a)
  BY <1>2 DEF Sound
<1>4. Limbo(a) = {} /\ Pending(a) = {}
  BY <1>2 DEF Limbo, Pending
<1>5. Ledger(a, {})
  BY <1>3, <1>4 DEF Ledger
<1>6. \A g : g \in Room(a) <=> g \in Nat /\ e <= g /\ g \notin HoleSet
  BY <1>2 DEF Room
<1>7. e = 1 => Full(a, {})
  BY <1>6 DEF Full, Endless
<1> QED BY <1>2, <1>3, <1>4, <1>5, <1>6, <1>7 DEF a

LEMMA NewAllocIs ==
  ASSUME Endless
  PROVE  /\ Ledger(NewAlloc, {}) /\ Full(NewAlloc, {}) /\ Limbo(NewAlloc) = {}
         /\ NewAlloc.append = FALSE
<1>1. NewAlloc = [NewAlloc EXCEPT !.eof = 1]
  <2>1. NewAlloc.eof = 1
    BY DEF NewAlloc
  <2> QED BY <2>1, Zenon DEF NewAlloc
<1>2. 1 \in Nat \ {0} /\ 1 <= Hole0
  BY HoleAssumption
<1> QED BY ONLY <1>1, <1>2, NewLedger, Endless

LEMMA GenIs ==
  ASSUME Endless, NEW d, NEW h, NEW l, Gen(d, h, l)
  PROVE  LET t == TabOf(d, h)
             u == Held(h, t)
         IN  /\ h \in HdrRec \cup {ZeroHdr} /\ Mapped(d, h, t, h.count)
             /\ Ledger(AllocOf(d, h), u) /\ AllocOf(d, h).append = FALSE
             /\ l \/ Full(AllocOf(d, h), u)
             /\ u \subseteq Granules /\ u \cap HoleSet = {}
             /\ h \in HdrRec => /\ Reads(d, h) /\ t = d[h.root].tab /\ AllocOf(d, h) = Load(d, h)
                                /\ AllocOf(d, h).eof = h.eof /\ \A g \in u : 1 <= g /\ g < h.eof
             /\ h = ZeroHdr => t = Empty /\ AllocOf(d, h) = NewAlloc /\ u = {}
<1> DEFINE t == TabOf(d, h)
           u == Held(h, t)
           a == AllocOf(d, h)
<1>1. /\ h \in HdrRec \cup {ZeroHdr} /\ (h.txn # 0 => Reads(d, h)) /\ Mapped(d, h, t, h.count)
      /\ Ledger(a, u) /\ a.append = FALSE /\ (l \/ Full(a, u))
  BY DEF Gen
<1>2. h \in HdrRec => Reads(d, h) /\ t = d[h.root].tab /\ a = Load(d, h) /\ a.eof = h.eof
  BY <1>1, HdrIs DEF TabOf, AllocOf, Load
<1>3. h = ZeroHdr => t = Empty /\ a = NewAlloc /\ u = {}
  BY <1>1, HdrIs, EmptySpan DEF TabOf, AllocOf, Held
<1>4. u \subseteq Granules
  <2>1. Stored(d, t)
    BY <1>1 DEF Mapped
  <2>2. Span(t) \subseteq Granules
    <3> HIDE DEF t
    <3> QED BY <2>1, SpanIsNat DEF Endless
  <2> QED BY <1>1, <2>2, HdrIs DEF Held
<1> HIDE DEF a, u, t
<1>5. \A g \in u : 1 <= g /\ g < a.eof /\ g \notin HoleSet
  BY <1>1, <1>4, LedgerBelowEof
<1>6. u \cap HoleSet = {}
  BY <1>1 DEF Ledger
<1> QED BY <1>1, <1>2, <1>3, <1>4, <1>5, <1>6 DEF a, u, t

LEMMA ListsRead ==
  ASSUME Endless, NEW h \in HdrRec, NEW d, NEW d2, \A g \in Lists(h) : d2[g] = d[g]
  PROVE  /\ d2[h.root] = d[h.root] /\ Load(d2, h) = Load(d, h)
         /\ Reads(d, h) => Reads(d2, h)
<1>1. d2[h.root] = d[h.root] /\ d2[h.freeOff] = d[h.freeOff] /\ d2[h.pendOff] = d[h.pendOff]
  BY DEF HdrRec, Lists
<1>2. Ext(h.root, 1) = {h.root} /\ Ext(h.freeOff, 1) = {h.freeOff} /\ Ext(h.pendOff, 1) = {h.pendOff}
  BY ExtOne DEF HdrRec, Endless
<1> QED BY <1>1, <1>2 DEF Reads, Whole, Load

\* A generation is as it was where what it holds is.
LEMMA GenFrame ==
  ASSUME Endless, NEW d, NEW h, NEW l, Gen(d, h, l), NEW d2,
         \A g \in Held(h, TabOf(d, h)) : d2[g] = d[g]
  PROVE  /\ Gen(d2, h, l) /\ TabOf(d2, h) = TabOf(d, h) /\ AllocOf(d2, h) = AllocOf(d, h)
         /\ \A p \in Pages : ValAt(d2, TabOf(d2, h)[p]) = ValAt(d, TabOf(d, h)[p])
<1> DEFINE t == TabOf(d, h)
<1>1. h \in HdrRec \cup {ZeroHdr}
  BY DEF Gen
<1>2. TabOf(d2, h) = t /\ AllocOf(d2, h) = AllocOf(d, h) /\ (h.txn # 0 => Reads(d2, h))
  <2>1. CASE h = ZeroHdr
    BY <2>1, <1>1, HdrIs DEF TabOf, AllocOf
  <2>2. CASE h \in HdrRec
    <3>1. \A g \in Lists(h) : d2[g] = d[g]
      BY DEF Held
    <3>2. Reads(d, h)
      BY <1>1, <2>2, HdrIs DEF Gen
    <3>3. d2[h.root] = d[h.root] /\ Load(d2, h) = Load(d, h) /\ Reads(d2, h)
      BY <2>2, <3>1, <3>2, ListsRead
    <3> QED BY <1>1, <2>2, <3>3, HdrIs DEF TabOf, AllocOf
  <2> QED BY <1>1, <2>1, <2>2
<1>3. Stored(d2, t) /\ \A p \in Pages : ValAt(d2, t[p]) = ValAt(d, t[p])
  <2>1. Stored(d, t) /\ \A g \in Span(t) : d2[g] = d[g]
    BY DEF Gen, Mapped, Held
  <2> HIDE DEF t
  <2> QED BY ONLY <2>1, StoredFrame
<1>4. Gen(d2, h, l)
  BY <1>1, <1>2, <1>3 DEF Gen, Mapped
<1> QED BY <1>2, <1>3, <1>4

LEMMA GenWeaker ==
  ASSUME NEW d, NEW h, NEW l, NEW k, Gen(d, h, l), l => k
  PROVE  Gen(d, h, k)
BY DEF Gen

----------------------------------------------------------------------------
(* The two header copies *)

LEMMA HdrAllIs ==
  /\ \A x \in HdrAll : x.txn \in Int /\ (Valid(x) <=> x \in HdrRec)
  /\ {ZeroHdr, TornHdr, PlainHdr} \cap HdrRec = {}
  /\ PlainHdr # ZeroHdr /\ PlainHdr # TornHdr /\ TornHdr # ZeroHdr
<1>1. ZeroHdr.txn = 0 /\ TornHdr.txn = -1 /\ PlainHdr.txn = -2
  BY DEF ZeroHdr, TornHdr, PlainHdr
<1>2. \A x \in HdrRec : x.txn \in Nat /\ x.txn > 0
  BY DEF HdrRec
<1> QED BY <1>1, <1>2 DEF HdrAll, Valid

LEMMA AtRestIs ==
  ASSUME NEW s, NEW h, NEW k, NEW m, AtRest(s, h, k, m)
  PROVE  /\ Picked(s) = k /\ h \in HdrRec \cup {ZeroHdr} /\ s \in [{0, 1} -> HdrAll]
         /\ k \in {-1, 0, 1} /\ (k = -1 <=> h = ZeroHdr) /\ (k # -1 => s[k] = h)
         /\ m = IF k = -1 /\ s[0] = PlainHdr THEN "plain" ELSE "container"
         /\ m = "plain" => h = ZeroHdr
<1>1. s \in [{0, 1} -> HdrAll]
  BY DEF AtRest
<1>2. s[0] \in HdrAll /\ s[1] \in HdrAll
  BY <1>1
<1>3. CASE h \in HdrRec /\ m = "container" /\ k \in {0, 1} /\ s[k] = h /\ Loses(s[1 - k], h, 1 - k)
  <2>1. CASE k = 0
    BY <1>1, <1>2, <1>3, <2>1, HdrAllIs DEF Loses, Picked
  <2>2. CASE k = 1
    BY <1>1, <1>2, <1>3, <2>2, HdrAllIs DEF Loses, Picked
  <2> QED BY <1>3, <2>1, <2>2
<1>4. CASE h = ZeroHdr /\ k = -1 /\ m = "container" /\ s[0] = ZeroHdr /\ s[1] = ZeroHdr
  BY <1>1, <1>2, <1>4, HdrAllIs DEF Picked
<1>5. CASE h = ZeroHdr /\ k = -1 /\ m = "plain" /\ s[0] = PlainHdr /\ s[1] \in {PlainHdr, TornHdr}
  BY <1>1, <1>2, <1>5, HdrAllIs DEF Picked
<1> QED BY <1>3, <1>4, <1>5 DEF AtRest

\* SQLite's hot journal restores the first page of a plain database.
Restored(s) == IF Picked(s) = -1 /\ s[0] = PlainHdr THEN [i \in {0, 1} |-> PlainHdr] ELSE s

LEMMA RestoredIs ==
  ASSUME NEW s, NEW h, NEW k, NEW m, AtRest(s, h, k, m)
  PROVE  AtRest(Restored(s), h, k, m)
<1>1. CASE m = "plain"
  BY <1>1, AtRestIs, HdrAllIs DEF AtRest, Restored, HdrAll
<1>2. CASE m # "plain"
  BY <1>2, AtRestIs DEF Restored
<1> QED BY <1>1, <1>2

LEMMA CrashIs ==
  ASSUME slot \in [{0, 1} -> HdrAll], slotDur \in [{0, 1} -> HdrAll], NEW s \in SlotsAfterCrash
  PROVE  /\ s \in [{0, 1} -> HdrAll]
         /\ \A i \in {0, 1} : \/ s[i] \in {slot[i], slotDur[i]}
                              \/ s[i] = TornHdr /\ slot[i] # slotDur[i] /\ MayTear(slotDur, i)
<1>1. PICK a \in CopyAfterCrash(0), b \in CopyAfterCrash(1) :
         s = [i \in {0, 1} |-> IF i = 0 THEN a ELSE b]
  BY DEF SlotsAfterCrash
<1>2. s[0] = a /\ s[1] = b
  BY <1>1
<1>3. /\ a \in {slot[0], slotDur[0]} \/ (a = TornHdr /\ slot[0] # slotDur[0] /\ MayTear(slotDur, 0))
      /\ b \in {slot[1], slotDur[1]} \/ (b = TornHdr /\ slot[1] # slotDur[1] /\ MayTear(slotDur, 1))
  BY DEF CopyAfterCrash
<1>4. a \in HdrAll /\ b \in HdrAll
  BY <1>3 DEF HdrAll
<1> QED BY <1>1, <1>2, <1>3, <1>4

\* Whatever of two states of the copies at rest the medium holds is at rest too.
LEMMA CrashAtRest ==
  ASSUME NEW h, NEW k, NEW m, AtRest(slot, h, k, m), AtRest(slotDur, h, k, m),
         NEW s \in SlotsAfterCrash
  PROVE  AtRest(s, h, k, m)
<1>1. /\ s \in [{0, 1} -> HdrAll]
      /\ \A i \in {0, 1} : \/ s[i] \in {slot[i], slotDur[i]}
                           \/ s[i] = TornHdr /\ slot[i] # slotDur[i] /\ MayTear(slotDur, i)
  BY AtRestIs, CrashIs
<1>2. CASE h \in HdrRec
  <2>1. /\ m = "container" /\ k \in {0, 1} /\ 1 - k \in {0, 1}
        /\ slot[k] = h /\ Loses(slot[1 - k], h, 1 - k)
        /\ slotDur[k] = h /\ Loses(slotDur[1 - k], h, 1 - k)
    BY <1>2, HdrAllIs DEF AtRest
  <2>2. s[k] = h
    BY <1>1, <2>1
  <2>3. Loses(TornHdr, h, 1 - k)
    BY HdrAllIs DEF Loses, HdrAll
  <2>4. Loses(s[1 - k], h, 1 - k)
    BY <1>1, <2>1, <2>3
  <2> QED BY <1>1, <1>2, <2>1, <2>2, <2>4 DEF AtRest
<1>3. CASE h \notin HdrRec
  <2>1. /\ h = ZeroHdr /\ k = -1
        /\ \/ /\ m = "container" /\ slot[0] = ZeroHdr /\ slot[1] = ZeroHdr
              /\ slotDur[0] = ZeroHdr /\ slotDur[1] = ZeroHdr
           \/ /\ m = "plain" /\ slot[0] = PlainHdr /\ slot[1] \in {PlainHdr, TornHdr}
              /\ slotDur[0] = PlainHdr /\ slotDur[1] \in {PlainHdr, TornHdr}
    BY <1>3 DEF AtRest
  <2> QED BY <1>1, <2>1 DEF AtRest
<1> QED BY <1>2, <1>3

\* A commit in the copies: the new header is a generation ahead of the adopted one.
Ahead == cm.hdr \in HdrRec /\ hdr \in HdrRec \cup {ZeroHdr} /\ cm.hdr.txn = hdr.txn + 1

LEMMA SlotType ==
  ASSUME SlotInv, pc \in {"idle", "pack", "written", "copied", "flipped"},
         pc \in {"copied", "flipped"} => Ahead
  PROVE  slot \in [{0, 1} -> HdrAll] /\ slotDur \in [{0, 1} -> HdrAll]
<1>1. CASE pc \in {"idle", "pack", "written"}
  BY <1>1 DEF SlotInv, AtRest
<1>2. CASE pc = "copied"
  <2>1. AtRest(slotDur, hdr, which, mode) /\ slot = [slotDur EXCEPT ![1] = cm.hdr] /\ cm.hdr \in HdrAll
    BY <1>2 DEF SlotInv, Ahead, HdrAll
  <2> QED BY <2>1 DEF AtRest
<1>3. CASE pc = "flipped" /\ mode = "container"
  <2>1. AtRest(slotDur, hdr, which, mode) /\ slot = [slotDur EXCEPT ![Target] = cm.hdr] /\ cm.hdr \in HdrAll
    BY <1>3 DEF SlotInv, Ahead, HdrAll
  <2> QED BY <2>1 DEF AtRest
<1>4. CASE pc = "flipped" /\ mode # "container"
  BY <1>4 DEF SlotInv, Ahead, HdrAll
<1> QED BY <1>1, <1>2, <1>3, <1>4

\* The second copy of a conversion is written when the first has landed.
LEMMA BothNew ==
  ASSUME SlotInv, pc = "flipped", mode = "plain", Ahead, NEW s \in SlotsAfterCrash
  PROVE  \E k \in {0, 1} : AtRest(s, cm.hdr, k, "container")
<1>1. slot \in [{0, 1} -> HdrAll] /\ slotDur \in [{0, 1} -> HdrAll]
  BY SlotType
<1>2. /\ s \in [{0, 1} -> HdrAll]
      /\ \A i \in {0, 1} : \/ s[i] \in {slot[i], slotDur[i]}
                           \/ s[i] = TornHdr /\ slot[i] # slotDur[i] /\ MayTear(slotDur, i)
  BY <1>1, CrashIs
<1>3. \A i : Loses(TornHdr, cm.hdr, i) /\ Loses(PlainHdr, cm.hdr, i) /\ (i = 1 => Loses(cm.hdr, cm.hdr, i))
  BY HdrAllIs DEF Loses, HdrAll
<1>4. slotDur[0] = PlainHdr /\ slotDur[1] = cm.hdr /\ slot[0] = cm.hdr /\ slot[1] = cm.hdr
  BY HdrAllIs, HdrIs DEF SlotInv, AtRest
<1>5. s[1] = cm.hdr /\ s[0] \in {cm.hdr, PlainHdr, TornHdr}
  BY <1>2, <1>4
<1>6. s[0] = cm.hdr => AtRest(s, cm.hdr, 0, "container")
  BY <1>2, <1>3, <1>5 DEF AtRest, Ahead
<1>7. s[0] # cm.hdr => AtRest(s, cm.hdr, 1, "container")
  BY <1>2, <1>3, <1>5 DEF AtRest, Ahead
<1> QED BY <1>6, <1>7

\* While a header is being written, the copies name the old generation or the new one.
LEMMA CrashInCommit ==
  ASSUME SlotInv, pc \in {"copied", "flipped"}, Ahead, NEW s \in SlotsAfterCrash
  PROVE  AtRest(s, hdr, which, mode) \/ \E k \in {0, 1} : AtRest(s, cm.hdr, k, "container")
<1>1. slot \in [{0, 1} -> HdrAll] /\ slotDur \in [{0, 1} -> HdrAll]
  BY SlotType
<1>2. /\ s \in [{0, 1} -> HdrAll]
      /\ \A i \in {0, 1} : \/ s[i] \in {slot[i], slotDur[i]}
                           \/ s[i] = TornHdr /\ slot[i] # slotDur[i] /\ MayTear(slotDur, i)
  BY <1>1, CrashIs
<1>3. \A i : Loses(TornHdr, cm.hdr, i) /\ Loses(ZeroHdr, cm.hdr, i) /\ Loses(PlainHdr, cm.hdr, i)
             /\ Loses(TornHdr, hdr, i) /\ Loses(hdr, cm.hdr, i) /\ (i = 1 => Loses(cm.hdr, cm.hdr, i))
  BY HdrAllIs DEF Loses, Ahead, HdrAll, HdrRec, ZeroHdr
<1>4. CASE pc = "copied"
  <2>1. /\ mode = "plain" /\ hdr = ZeroHdr /\ which = -1
        /\ slotDur[0] = PlainHdr /\ slotDur[1] \in {PlainHdr, TornHdr}
        /\ slot = [slotDur EXCEPT ![1] = cm.hdr]
    BY <1>4, AtRestIs DEF SlotInv, AtRest
  <2>2. slot[0] = PlainHdr /\ slot[1] = cm.hdr
    BY <1>1, <2>1
  <2>3. s[0] = PlainHdr /\ s[1] \in {cm.hdr, PlainHdr, TornHdr}
    BY <1>2, <2>1, <2>2
  <2>4. s[1] = cm.hdr => AtRest(s, cm.hdr, 1, "container")
    BY <1>2, <1>3, <2>3 DEF AtRest, Ahead
  <2>5. s[1] # cm.hdr => AtRest(s, hdr, which, mode)
    BY <1>2, <2>1, <2>3 DEF AtRest
  <2> QED BY <2>4, <2>5
<1>5. CASE pc = "flipped" /\ mode = "plain"
  BY <1>5, BothNew
<1>6. CASE pc = "flipped" /\ mode # "plain" /\ hdr \in HdrRec
  <2>1. /\ which \in {0, 1} /\ slotDur[which] = hdr /\ Loses(slotDur[1 - which], hdr, 1 - which)
        /\ slot = [slotDur EXCEPT ![Target] = cm.hdr] /\ mode = "container"
    BY <1>6, HdrAllIs DEF SlotInv, AtRest
  <2>2. Target = 1 - which /\ 1 - which \in {0, 1} /\ 1 - (1 - which) = which /\ which # 1 - which
    BY <2>1 DEF Target
  <2>3. slot[which] = hdr /\ slot[1 - which] = cm.hdr
    BY <1>1, <2>1, <2>2
  <2>4. s[which] = hdr /\ s[1 - which] \in {cm.hdr, slotDur[1 - which], TornHdr}
    BY <1>2, <2>1, <2>2, <2>3
  <2>5. s[1 - which] = cm.hdr => AtRest(s, cm.hdr, 1 - which, "container")
    BY <1>2, <1>3, <2>2, <2>4 DEF AtRest, Ahead
  <2>6. s[1 - which] # cm.hdr => AtRest(s, hdr, which, mode)
    BY <1>2, <1>3, <1>6, <2>1, <2>2, <2>4 DEF AtRest
  <2> QED BY <2>2, <2>5, <2>6
<1>7. CASE pc = "flipped" /\ mode # "plain" /\ hdr \notin HdrRec
  <2>1. /\ which = -1 /\ slotDur[0] = ZeroHdr /\ slotDur[1] = ZeroHdr /\ hdr = ZeroHdr
        /\ slot = [slotDur EXCEPT ![Target] = cm.hdr] /\ mode = "container" /\ Target = 0
    BY <1>7, HdrAllIs DEF SlotInv, AtRest, Target
  <2>2. slot[0] = cm.hdr /\ slot[1] = ZeroHdr
    BY <1>1, <2>1
  <2>3. ~MayTear(slotDur, 0)
    BY <2>1, HdrAllIs DEF MayTear, HdrAll
  <2>4. s[1] = ZeroHdr /\ s[0] \in {cm.hdr, ZeroHdr}
    BY <1>2, <2>1, <2>2, <2>3
  <2>5. s[0] = cm.hdr => AtRest(s, cm.hdr, 0, "container")
    BY <1>2, <1>3, <2>4 DEF AtRest, Ahead
  <2>6. s[0] # cm.hdr => AtRest(s, hdr, which, mode)
    BY <1>2, <2>1, <2>4 DEF AtRest
  <2> QED BY <2>5, <2>6
<1>8. pc = "flipped" => mode \in {"plain", "container"}
  BY DEF SlotInv
<1> QED BY <1>4, <1>5, <1>6, <1>7, <1>8

\* Once the new header is in the cache, it is the one that is picked.
LEMMA NewPicked ==
  ASSUME SlotInv, pc = "flipped", Ahead
  PROVE  AtRest(slot, cm.hdr, Target, "container")
<1>1. slot \in [{0, 1} -> HdrAll] /\ slotDur \in [{0, 1} -> HdrAll]
  BY SlotType
<1>2. \A i : Loses(ZeroHdr, cm.hdr, i) /\ Loses(hdr, cm.hdr, i) /\ (i = 1 => Loses(cm.hdr, cm.hdr, i))
  BY HdrAllIs DEF Loses, Ahead, HdrAll, HdrRec, ZeroHdr
<1>3. CASE mode = "plain"
  <2>1. which = -1 /\ slot[0] = cm.hdr /\ slot[1] = cm.hdr
    BY <1>3 DEF SlotInv
  <2> QED BY <1>1, <1>2, <2>1 DEF AtRest, Ahead, Target
<1>4. CASE mode # "plain"
  <2>1. AtRest(slotDur, hdr, which, mode) /\ slot = [slotDur EXCEPT ![Target] = cm.hdr] /\ mode = "container"
    BY <1>4 DEF SlotInv
  <2>2. Target \in {0, 1} /\ 1 - Target \in {0, 1} /\ Target # 1 - Target
    BY DEF Target
  <2>3. slot[Target] = cm.hdr /\ slot[1 - Target] = slotDur[1 - Target]
    BY <1>1, <2>1, <2>2
  <2>4. slotDur[1 - Target] \in {hdr, ZeroHdr}
    BY <2>1, HdrAllIs DEF AtRest, Target
  <2> QED BY <1>1, <1>2, <2>2, <2>3, <2>4 DEF AtRest, Ahead
<1> QED BY <1>3, <1>4

\* Nor does a copy that tore while it was written change what is picked.
LEMMA TearAtRest ==
  ASSUME NEW h, NEW k, NEW m, AtRest(slot, h, k, m), k = which, m = mode,
         MayTear(slot, FirstCopy)
  PROVE  AtRest([slot EXCEPT ![FirstCopy] = TornHdr], h, k, m)
<1> DEFINE s == [slot EXCEPT ![FirstCopy] = TornHdr]
<1>1. slot \in [{0, 1} -> HdrAll] /\ FirstCopy \in {0, 1} /\ TornHdr \in HdrAll
  BY DEF AtRest, FirstCopy, Target, HdrAll
<1>2. s \in [{0, 1} -> HdrAll] /\ s[FirstCopy] = TornHdr /\ \A i \in {0, 1} \ {FirstCopy} : s[i] = slot[i]
  BY <1>1
<1> HIDE DEF s
<1>3. CASE h \in HdrRec
  <2>1. k \in {0, 1} /\ m = "container" /\ slot[k] = h
    BY <1>3, HdrAllIs DEF AtRest
  <2>2. FirstCopy = 1 - k /\ k # 1 - k
    BY <2>1 DEF FirstCopy, Target
  <2>3. Loses(TornHdr, h, 1 - k)
    BY HdrAllIs DEF Loses, HdrAll
  <2> QED BY <1>2, <1>3, <2>1, <2>2, <2>3 DEF AtRest
<1>4. CASE h \notin HdrRec
  <2>1. /\ h = ZeroHdr /\ k = -1
        /\ \/ m = "container" /\ slot[0] = ZeroHdr /\ slot[1] = ZeroHdr
           \/ m = "plain" /\ slot[0] = PlainHdr /\ slot[1] \in {PlainHdr, TornHdr}
    BY <1>4 DEF AtRest
  <2>2. CASE m = "container"
    <3>1. FirstCopy = 0 /\ slot[0] = ZeroHdr /\ slot[1] = ZeroHdr
      BY <2>1, <2>2 DEF FirstCopy, Target
    <3> QED BY <3>1, HdrAllIs DEF MayTear, HdrAll
  <2>3. CASE m # "container"
    <3>1. FirstCopy = 1 /\ slot[0] = PlainHdr
      BY <2>1, <2>3 DEF FirstCopy
    <3> QED BY <1>2, <2>1, <2>3, <3>1 DEF AtRest
  <2> QED BY <2>2, <2>3
<1> QED BY <1>3, <1>4 DEF s

----------------------------------------------------------------------------
(* Failures: back to a generation that is whole *)

LEMMA KeptFrame ==
  ASSUME Endless, NEW d, NEW h, NEW m, NEW l, Sits(d, h, m, l), NEW d2,
         \A g \in KeptOf(d, h, m) : d2[g] = d[g]
  PROVE  /\ Sits(d2, h, m, l) /\ KeptOf(d2, h, m) = KeptOf(d, h, m)
         /\ TabOf(d2, h) = TabOf(d, h) /\ AllocOf(d2, h) = AllocOf(d, h)
         /\ \A p \in Pages : ValAt(d2, TabOf(d2, h)[p]) = ValAt(d, TabOf(d, h)[p])
<1>1. \A g \in Held(h, TabOf(d, h)) : d2[g] = d[g]
  BY DEF KeptOf
<1>2. /\ Gen(d2, h, l) /\ TabOf(d2, h) = TabOf(d, h) /\ AllocOf(d2, h) = AllocOf(d, h)
      /\ \A p \in Pages : ValAt(d2, TabOf(d2, h)[p]) = ValAt(d, TabOf(d, h)[p])
  BY <1>1, GenFrame DEF Sits
<1>3. m = "plain" => h = ZeroHdr /\ PlainKept(d2)
  BY DEF Sits, PlainKept, KeptOf
<1> QED BY <1>2, <1>3 DEF Sits, KeptOf

\* What a crash leaves in the granules of a generation that is settled.
LEMMA AdoptKeeps ==
  ASSUME Endless, NEW d, NEW s, NEW h, NEW k, NEW m, AtRest(s, h, k, m), Sits(d, h, m, leaky),
         Adopt(d, s), disk' = d, \A g \in KeptOf(d, h, m) : dur'[g] = d[g],
         AtRest(slot', h, k, m), AtRest(slotDur', h, k, m), leaky' = leaky, leaky \in BOOLEAN,
         clock' \in Nat, DOMAIN disk' = Granules, DOMAIN dur' = Granules
  PROVE  /\ IInv'
         /\ hdr' = h /\ which' = k /\ mode' = m /\ tab' = TabOf(d, h) /\ count' = h.count
<1>1. /\ Picked(s) = k /\ h \in HdrRec \cup {ZeroHdr} /\ (k = -1 <=> h = ZeroHdr)
      /\ (k # -1 => s[k] = h) /\ m = (IF k = -1 /\ s[0] = PlainHdr THEN "plain" ELSE "container")
  BY AtRestIs
<1>2. /\ hdr' = h /\ which' = k /\ mode' = m
      /\ tab' = TabOf(d, h) /\ alloc' = AllocOf(d, h) /\ count' = h.count
      /\ dirty' = FALSE /\ rb' = NoRebuild /\ pc' = "idle"
  BY <1>1, HdrIs DEF Adopt, TabOf, AllocOf
<1>3. rb'.on = FALSE
  BY <1>2 DEF NoRebuild
<1>4. KeptInv'
  BY <1>2, <1>3 DEF KeptInv, Kept
<1>5. SlotInv'
  BY <1>2 DEF SlotInv
<1>6. WorkInv'
  <2>1. /\ Ledger(AllocOf(d, h), Held(h, TabOf(d, h))) /\ AllocOf(d, h).append = FALSE
        /\ leaky \/ Full(AllocOf(d, h), Held(h, TabOf(d, h)))
        /\ Mapped(d, h, TabOf(d, h), h.count)
    BY DEF Sits, Gen
  <2>2. Held(h, TabOf(d, h)) \cap Room(AllocOf(d, h)) = {}
    BY <2>1 DEF Ledger
  <2>3. \A x \in Limbo(AllocOf(d, h)) : x[2] \notin Held(h, TabOf(d, h))
    BY <2>1, PendingIs DEF Ledger
  <2> QED BY <1>2, <1>3, <2>1, <2>2, <2>3 DEF WorkInv, Old
<1>7. StreamInv' /\ CommitInv'
  BY <1>2, <1>3 DEF StreamInv, CommitInv
<1> QED BY <1>2, <1>4, <1>5, <1>6, <1>7 DEF IInv

LEMMA CommitIs ==
  ASSUME Endless, IInv, pc \in {"written", "copied", "flipped"}
  PROVE  /\ Ahead /\ Sits(disk, cm.hdr, "container", leaky)
         /\ KeptOf(disk, cm.hdr, "container") = Held(cm.hdr, tab)
         /\ tab = disk[cm.hdr.root].tab
<1>1. /\ Gen(disk, cm.hdr, leaky) /\ cm.hdr.txn = hdr.txn + 1 /\ tab = TabOf(disk, cm.hdr)
  BY DEF IInv, CommitInv, TxnOf
<1>2. hdr \in HdrRec \cup {ZeroHdr}
  BY DEF IInv, KeptInv, Sits, Gen
<1>3. hdr.txn \in Nat
  BY <1>2, HdrIs
<1>4. cm.hdr \in HdrRec
  BY <1>1, <1>3, HdrIs DEF Gen
<1> QED BY <1>1, <1>2, <1>4, HdrAllIs DEF Ahead, Sits, KeptOf, TabOf, HdrRec

\* Whatever the copies say after a crash or a failure, what they name is whole.
LEMMA Whichever ==
  ASSUME Endless, IInv, NEW s \in SlotsAfterCrash
  PROVE  \E h, k, m : /\ AtRest(s, h, k, m) /\ Sits(disk, h, m, leaky)
                      /\ \A g \in KeptOf(disk, h, m) : dur[g] = disk[g]
                      /\ \/ h = hdr /\ m = mode
                         \/ pc \in {"copied", "flipped"} /\ h = cm.hdr /\ m = "container"
<1>1. Sits(disk, hdr, mode, leaky) /\ \A g \in KeptOf(disk, hdr, mode) : dur[g] = disk[g]
  BY DEF IInv, KeptInv, Kept
<1>2. CASE pc \in {"copied", "flipped"}
  <2>1. Ahead /\ Sits(disk, cm.hdr, "container", leaky) /\ dur = disk
    BY <1>2, CommitIs DEF IInv, CommitInv
  <2>2. AtRest(s, hdr, which, mode) \/ \E k \in {0, 1} : AtRest(s, cm.hdr, k, "container")
    BY <1>2, <2>1, CrashInCommit DEF IInv
  <2> QED BY <1>1, <1>2, <2>1, <2>2
<1>3. CASE pc \notin {"copied", "flipped"}
  <2>1. AtRest(slot, hdr, which, mode) /\ AtRest(slotDur, hdr, which, mode)
    BY <1>3 DEF IInv, KeptInv, SlotInv
  <2>2. AtRest(s, hdr, which, mode)
    BY <2>1, CrashAtRest
  <2> QED BY <1>1, <2>2
<1> QED BY <1>2, <1>3

LEMMA BothCopies ==
  ASSUME IInv, Endless
  PROVE  slot \in SlotsAfterCrash /\ slotDur \in SlotsAfterCrash
<1>1. slot \in [{0, 1} -> HdrAll] /\ slotDur \in [{0, 1} -> HdrAll]
  BY CommitIs, SlotType DEF IInv, KeptInv
<1>2. /\ slot = [i \in {0, 1} |-> IF i = 0 THEN slot[0] ELSE slot[1]]
      /\ slotDur = [i \in {0, 1} |-> IF i = 0 THEN slotDur[0] ELSE slotDur[1]]
  BY <1>1
<1>3. \A i : slot[i] \in CopyAfterCrash(i) /\ slotDur[i] \in CopyAfterCrash(i)
  BY DEF CopyAfterCrash
<1>4. ASSUME NEW a \in CopyAfterCrash(0), NEW b \in CopyAfterCrash(1)
      PROVE  [i \in {0, 1} |-> IF i = 0 THEN a ELSE b] \in SlotsAfterCrash
  BY <1>4 DEF SlotsAfterCrash
<1>5. /\ [i \in {0, 1} |-> IF i = 0 THEN slot[0] ELSE slot[1]] \in SlotsAfterCrash
      /\ [i \in {0, 1} |-> IF i = 0 THEN slotDur[0] ELSE slotDur[1]] \in SlotsAfterCrash
  BY <1>3, <1>4
<1> QED BY ONLY <1>2, <1>5

LEMMA CrashKeeps ==
  ASSUME Endless, IInv, Crash
  PROVE  IInv'
<1>1. PICK s \in SlotsAfterCrash, kept \in {{}, Unsynced} :
         LET d == [g \in Granules |-> IF g \in kept THEN disk[g] ELSE dur[g]]
         IN  /\ disk' = d /\ dur' = d /\ slot' = Restored(s) /\ slotDur' = Restored(s)
             /\ Adopt(d, Restored(s))
  BY DEF Crash, Restored
<1> DEFINE d == [g \in Granules |-> IF g \in kept THEN disk[g] ELSE dur[g]]
<1>2. PICK h, k, m : /\ AtRest(s, h, k, m) /\ Sits(disk, h, m, leaky)
                     /\ \A g \in KeptOf(disk, h, m) : dur[g] = disk[g]
  BY Whichever
<1>3. AtRest(Restored(s), h, k, m)
  BY <1>2, RestoredIs
<1>4. KeptOf(disk, h, m) \subseteq Granules
  <2>1. Held(h, TabOf(disk, h)) \subseteq Granules
    BY <1>2, GenIs DEF Sits
  <2>2. 1 .. PlainEof - 1 \subseteq Granules
    BY SizeAssumption, HoleAssumption DEF Endless
  <2> QED BY <2>1, <2>2 DEF KeptOf
<1>5. \A g \in KeptOf(disk, h, m) : d[g] = disk[g]
  BY <1>2, <1>4
<1>6. Sits(d, h, m, leaky)
  <2> HIDE DEF d
  <2> QED BY <1>2, <1>5, KeptFrame
<1>7. leaky' = leaky /\ clock' = clock /\ DOMAIN d = Granules
  BY DEF Crash
<1>8. disk' = d /\ dur' = d /\ slot' = Restored(s) /\ slotDur' = Restored(s) /\ Adopt(d, Restored(s))
  BY <1>1
<1> HIDE DEF d
<1>9. leaky \in BOOLEAN /\ clock \in Nat
  BY DEF IInv, KeptInv
<1> QED BY <1>3, <1>6, <1>7, <1>8, <1>9, AdoptKeeps

LEMMA FlipFailsKeeps ==
  ASSUME Endless, IInv, FlipFails
  PROVE  IInv'
<1>1. slot' \in SlotsAfterCrash /\ slotDur' = slot' /\ Adopt(disk, slot')
  BY BothCopies DEF FlipFails
<1>2. PICK h, k, m : /\ AtRest(slot', h, k, m) /\ Sits(disk, h, m, leaky)
                     /\ \A g \in KeptOf(disk, h, m) : dur[g] = disk[g]
  BY <1>1, Whichever
<1>3. UNCHANGED <<disk, dur, leaky, clock, crashes>>
  BY DEF FlipFails
<1> QED BY <1>1, <1>2, <1>3, AdoptKeeps DEF IInv, KeptInv

LEMMA PrepareFailsKeeps ==
  ASSUME Endless, IInv, PrepareFails \/ \E g \in BOOLEAN : WalkFails(g)
  PROVE  IInv'
<1>1. /\ pc \in {"idle", "written", "pack"} /\ Adopt(disk, slot)
      /\ UNCHANGED <<disk, dur, slot, slotDur, leaky, clock, crashes>>
  BY DEF PrepareFails, WalkFails
<1>2. AtRest(slot, hdr, which, mode) /\ AtRest(slotDur, hdr, which, mode)
  BY <1>1 DEF IInv, SlotInv
<1>3. /\ Sits(disk, hdr, mode, leaky) /\ \A g \in KeptOf(disk, hdr, mode) : dur[g] = disk[g]
      /\ leaky \in BOOLEAN /\ clock \in Nat /\ DOMAIN disk = Granules /\ DOMAIN dur = Granules
  BY DEF IInv, KeptInv, Kept
<1> QED BY <1>1, <1>2, <1>3, AdoptKeeps

LEMMA HeaderWriteFailsKeeps ==
  ASSUME Endless, IInv, HeaderWriteFails
  PROVE  IInv'
<1>1. /\ pc = "written" /\ dur' = disk /\ slotDur' = slot /\ Adopt(disk, slot')
      /\ UNCHANGED <<disk, leaky, clock, crashes>>
      /\ slot' = slot \/ (MayTear(slot, FirstCopy) /\ slot' = [slot EXCEPT ![FirstCopy] = TornHdr])
  BY DEF HeaderWriteFails
<1>2. AtRest(slot, hdr, which, mode)
  BY <1>1 DEF IInv, SlotInv
<1>3. AtRest(slot', hdr, which, mode)
  BY <1>1, <1>2, TearAtRest
<1>4. /\ Sits(disk, hdr, mode, leaky)
      /\ leaky \in BOOLEAN /\ clock \in Nat /\ DOMAIN disk = Granules
  BY DEF IInv, KeptInv
<1> QED BY <1>1, <1>2, <1>3, <1>4, AdoptKeeps

----------------------------------------------------------------------------
(* Steps of the pager *)

\* The parts of the invariant that most steps start from.
LEMMA AtWork ==
  ASSUME Endless, IInv, pc \in {"idle", "pack"}
  PROVE  /\ Sits(disk, hdr, mode, leaky) /\ Gen(disk, hdr, leaky)
         /\ hdr \in HdrRec \cup {ZeroHdr} /\ hdr.txn \in Nat
         /\ Ledger(alloc, Held(hdr, tab)) /\ Sound(alloc) /\ alloc.append = rb.on
         /\ Mapped(disk, hdr, tab, count) /\ Stored(disk, tab)
         /\ Lists(hdr) \subseteq Granules /\ Span(tab) \subseteq Granules
         /\ Held(hdr, tab) \cap (Room(alloc) \cup HoleSet) = {}
         /\ AtRest(slot, hdr, which, mode) /\ AtRest(slotDur, hdr, which, mode)
         /\ mode \in {"plain", "container"} /\ rb.on \in BOOLEAN /\ dirty \in BOOLEAN
<1>1. Sits(disk, hdr, mode, leaky) /\ Gen(disk, hdr, leaky) /\ hdr \in HdrRec \cup {ZeroHdr}
  BY DEF IInv, KeptInv, Sits, Gen
<1>2. /\ Ledger(alloc, Held(hdr, tab)) /\ alloc.append = rb.on /\ Mapped(disk, hdr, tab, count)
      /\ Stored(disk, tab)
  BY DEF IInv, WorkInv, Mapped
<1>3. Span(tab) \subseteq Granules
  BY <1>2, SpanIsNat DEF Endless
<1>4. AtRest(slot, hdr, which, mode) /\ AtRest(slotDur, hdr, which, mode)
  BY DEF IInv, SlotInv
<1>5. mode \in {"plain", "container"}
  BY <1>4, AtRestIs
<1>6. rb.on \in BOOLEAN /\ dirty \in BOOLEAN
  BY DEF IInv, KeptInv
<1> QED BY <1>1, <1>2, <1>3, <1>4, <1>5, <1>6, HdrIs DEF Ledger

\* What must stay is never to be had.
LEMMA KeptApart ==
  ASSUME Endless, IInv, pc \in {"idle", "pack"}, mode = "plain" => rb.on
  PROVE  Kept \cap Room(alloc) = {} /\ Kept \subseteq Granules /\ Kept \cap HoleSet = {}
<1>1. Old \cap Room(alloc) = {}
  BY DEF IInv, WorkInv
<1>2. mode = "plain" => (1 .. PlainEof - 1) \cap Room(alloc) = {}
  <2>1. pc = "pack" => ~rb.on
    BY DEF IInv, WorkInv
  <2> QED BY <2>1 DEF IInv, StreamInv
<1>3. Old \subseteq Granules /\ Old \cap HoleSet = {}
  BY AtWork, GenIs DEF Old
<1>4. 1 .. PlainEof - 1 \subseteq Granules /\ (1 .. PlainEof - 1) \cap HoleSet = {}
  BY SizeAssumption, HoleAssumption, InHole DEF Endless
<1> QED BY <1>1, <1>2, <1>3, <1>4 DEF Kept, KeptOf, Old

LEMMA RoomWrite ==
  ASSUME Endless, IInv, pc \in {"idle", "pack"}, mode = "plain" => rb.on,
         NEW d2, \A g \in Granules \ (Room(alloc) \cup HoleSet) : d2[g] = disk[g]
  PROVE  /\ Sits(d2, hdr, mode, leaky) /\ KeptOf(d2, hdr, mode) = Kept
         /\ TabOf(d2, hdr) = TabOf(disk, hdr) /\ AllocOf(d2, hdr) = AllocOf(disk, hdr)
         /\ \A g \in Kept : d2[g] = disk[g] /\ dur[g] = d2[g]
         /\ \A p \in Pages : ValAt(d2, TabOf(d2, hdr)[p]) = ValAt(disk, TabOf(disk, hdr)[p])
<1>1. \A g \in Kept : d2[g] = disk[g] /\ dur[g] = disk[g]
  BY KeptApart DEF IInv, KeptInv
<1> QED BY <1>1, AtWork, KeptFrame DEF Kept

\* A step of a transaction: map t2 with n2 pages instead of the map there is.
LEMMA WorkStep ==
  ASSUME Endless, IInv, pc = "idle", ~rb.on, mode = "container",
         NEW b, NEW t2, NEW n2, Sound(b), b.append = FALSE, Room(b) \subseteq Room(alloc),
         Held(hdr, t2) \subseteq Held(hdr, tab) \cup Room(alloc), Held(hdr, t2) \cap Room(b) = {},
         Room(alloc) \ Room(b) \subseteq Held(hdr, t2),
         Limbo(b) = Limbo(alloc) \cup ({TxnOf} \X (Held(hdr, tab) \ Held(hdr, t2))),
         \A g \in Granules \ (Room(alloc) \cup HoleSet) : disk'[g] = disk[g],
         Mapped(disk', hdr, t2, n2), DOMAIN disk' = Granules, clock' \in Nat,
         tab' = t2, count' = n2, alloc' = b, dirty' = TRUE,
         UNCHANGED <<dur, slot, slotDur, mode, hdr, which, rb, pc, cm, leaky>>
  PROVE  IInv'
<1>1. /\ Sits(disk', hdr, mode, leaky) /\ KeptOf(disk', hdr, mode) = Kept
      /\ TabOf(disk', hdr) = TabOf(disk, hdr) /\ \A g \in Kept : dur[g] = disk'[g]
  BY RoomWrite
<1>2. KeptInv'
  BY <1>1 DEF IInv, KeptInv, Kept
<1>3. SlotInv'
  BY AtWork DEF SlotInv
<1>4. Held(hdr, tab) \subseteq Granules
  BY AtWork DEF Held
<1>5. /\ Ledger(b, Held(hdr, t2))
      /\ Full(alloc, Held(hdr, tab)) => Full(b, Held(hdr, t2))
  BY <1>4, AtWork, LedgerStep
<1>6. Old' = Old
  BY <1>1 DEF Old
<1>7. Old \cap Room(b) = {} /\ \A x \in Limbo(b) : x[2] \in Old => x[1] > hdr.txn
  <2>1. Old \cap Room(alloc) = {} /\ \A x \in Limbo(alloc) : x[2] \in Old => x[1] > hdr.txn
    BY DEF IInv, WorkInv
  <2>2. \A x \in Limbo(b) : x \in Limbo(alloc) \/ x[1] = hdr.txn + 1
    BY DEF TxnOf
  <2> QED BY <2>1, <2>2, AtWork
<1>8. leaky \/ Full(b, Held(hdr, t2))
  BY <1>5 DEF IInv, WorkInv
<1>9. WorkInv'
  <2>1. rb.on = FALSE
    BY AtWork
  <2> QED BY <1>5, <1>6, <1>7, <1>8, <2>1 DEF WorkInv
<1>10. StreamInv' /\ CommitInv'
  BY DEF StreamInv, CommitInv
<1> QED BY <1>2, <1>3, <1>9, <1>10 DEF IInv

LEMMA SizeIs ==
  ASSUME IInv, clock < MaxWrites
  PROVE  Size[clock + 1] \in Nat \ {0} /\ clock + 1 \in Nat
BY SizeAssumption DEF IInv, KeptInv

LEMMA WriteDomain == \A d, r : DOMAIN Write(d, r) = Granules
BY DEF Write

LEMMA WritePageKeeps ==
  ASSUME Endless, IInv, NEW p \in Pages, WritePage(p)
  PROVE  /\ IInv' /\ ValAt(disk', tab'[p]) = clock + 1
         /\ \A q \in Pages \ {p} : ValAt(disk', tab'[q]) = ValAt(disk, tab[q])
<1> DEFINE n  == Size[clock + 1]
           t  == Take(alloc, n)
           t2 == [tab EXCEPT ![p] = [off |-> t.off, len |-> n]]
           b  == FreeEntry(t.a, tab[p], TxnOf)
           E  == Ext(tab[p].off, tab[p].len)
           X  == Ext(t.off, n)
<1>1. /\ pc = "idle" /\ ~rb.on /\ mode = "container" /\ n \in Nat \ {0}
      /\ disk' = Write(disk, PageRec(t.off, n, p, clock + 1)) /\ clock' \in Nat
      /\ tab' = t2 /\ count' = Grown(count, p) /\ alloc' = b /\ dirty' = TRUE
      /\ UNCHANGED <<dur, slot, slotDur, mode, hdr, which, rb, pc, cm, leaky>>
  BY SizeIs DEF WritePage
<1>2. /\ t.off \in Nat \ {0} /\ X \subseteq Room(alloc) /\ X \cap HoleSet = {} /\ Sound(t.a)
      /\ Room(t.a) = Room(alloc) \ X /\ t.a.append = FALSE /\ Limbo(t.a) = Limbo(alloc)
  <2>1. Sound(alloc) /\ alloc.append = FALSE
    BY <1>1, AtWork
  <2> HIDE DEF n
  <2> QED BY <1>1, <2>1, TakeIsFresh, TakeLimbo
<1> HIDE DEF n, t
<1>3. HasPage(disk', disk, t.off, n, p, clock + 1)
  BY <1>1, <1>2, PageWritten
<1>4. \A g \in Granules \ (Room(alloc) \cup HoleSet) : disk'[g] = disk[g]
  BY <1>2, <1>3 DEF HasPage
<1>5. /\ Stored(disk', t2) /\ Span(t2) = (Span(tab) \ E) \cup X
      /\ \A q \in Pages \ {p} : t2[q] = tab[q] /\ ValAt(disk', t2[q]) = ValAt(disk, tab[q])
      /\ t2[p] # Absent /\ ValAt(disk', t2[p]) = disk'[t.off].val
  <2>1. \A g \in Span(tab) \ E : disk'[g] = disk[g]
    BY <1>1, <1>4, AtWork DEF Held
  <2>2. Whole(disk', t.off, n, "page") /\ disk'[t.off].page = p
    BY <1>3 DEF HasPage
  <2>3. tab \in [Pages -> [off : Nat, len : Nat]] /\ Stored(disk, tab)
    BY <1>1, AtWork DEF Stored
  <2>4. /\ t2 \in [Pages -> [off : Nat, len : Nat]] /\ t2[p].off = t.off /\ t2[p].len = n
        /\ \A q \in Pages \ {p} : t2[q] = tab[q]
    BY <1>1, <1>2, <2>3
  <2> HIDE DEF t2
  <2>5. Repoint(disk, tab, p, disk', t2)
    BY <1>1, <1>2, <2>1, <2>2, <2>4 DEF Repoint
  <2> QED BY <2>3, <2>4, <2>5, StoredPut
<1>6. E \subseteq Span(tab)
  BY InSpan
<1>7. /\ Sound(b) /\ Room(b) = Room(alloc) \ X /\ b.append = FALSE
      /\ Limbo(b) = Limbo(alloc) \cup ({TxnOf} \X E)
  <2>1. CASE tab[p] = Absent
    <3>1. E = {}
      BY <2>1 DEF Absent, Ext
    <3>2. {TxnOf} \X E = {}
      BY <3>1
    <3> QED BY <1>2, <2>1, <3>2 DEF FreeEntry
  <2>2. CASE tab[p] # Absent
    <3>1. b = FreeSpan(t.a, E, TxnOf)
      BY <2>2 DEF FreeEntry
    <3>2. E \in SUBSET Nat /\ TxnOf \in Nat
      BY <1>1, <1>6, AtWork DEF Endless, TxnOf
    <3> HIDE DEF E
    <3> QED BY <1>2, <3>1, <3>2, FreeSpanLimbo
  <2> QED BY <2>1, <2>2
<1> HIDE DEF b, E, X
<1>8. Held(hdr, t2) = (Held(hdr, tab) \ E) \cup X /\ Held(hdr, tab) \ Held(hdr, t2) = E
  <2>1. Lists(hdr) \cap Span(tab) = {}
    BY <1>1, AtWork DEF Mapped
  <2>2. X \cap Held(hdr, tab) = {}
    BY <1>1, <1>2, AtWork
  <2> HIDE DEF t2
  <2> QED BY <1>5, <1>6, <2>1, <2>2 DEF Held
<1>9. Mapped(disk', hdr, t2, Grown(count, p))
  <2>1. Lists(hdr) \cap Span(tab) = {} /\ count \in 0 .. NPages /\ \A q \in Pages : q > count => tab[q] = Absent
    BY <1>1, AtWork DEF Mapped
  <2>2. Lists(hdr) \cap X = {}
    BY <1>1, <1>2, AtWork DEF Held
  <2>3. Lists(hdr) \cap Span(t2) = {}
    BY <1>5, <2>1, <2>2
  <2>4. Grown(count, p) \in 0 .. NPages /\ \A q \in Pages : q > Grown(count, p) => q # p /\ q > count
    BY <2>1 DEF Grown, Pages
  <2> QED BY <1>5, <2>1, <2>3, <2>4 DEF Mapped
<1>10. DOMAIN disk' = Granules
  BY <1>1, WriteDomain
<1> HIDE DEF t2
<1>11. /\ Room(b) \subseteq Room(alloc) /\ Held(hdr, t2) \subseteq Held(hdr, tab) \cup Room(alloc)
       /\ Held(hdr, t2) \cap Room(b) = {} /\ Room(alloc) \ Room(b) \subseteq Held(hdr, t2)
       /\ Limbo(b) = Limbo(alloc) \cup ({TxnOf} \X (Held(hdr, tab) \ Held(hdr, t2)))
  BY <1>1, <1>2, <1>7, <1>8, AtWork
<1>12. IInv'
  BY <1>1, <1>4, <1>7, <1>9, <1>10, <1>11, WorkStep
<1>13. disk'[t.off].val = clock + 1
  BY <1>3 DEF HasPage
<1> QED BY <1>1, <1>5, <1>12, <1>13

Without(t, S) == [p \in Pages |-> IF p \in S THEN Absent ELSE t[p]]

LEMMA DropPages ==
  ASSUME NEW d, NEW t, Stored(d, t), NEW S \in SUBSET Pages, NEW t2, t2 = Without(t, S)
  PROVE  /\ Stored(d, t2) /\ Span(t2) \subseteq Span(t)
         /\ \A g : g \in Span(t) \ Span(t2) <=>
                   \E p \in S : t[p] # Absent /\ g \in Ext(t[p].off, t[p].len)
         /\ \A p \in Pages : t2[p] = IF p \in S THEN Absent ELSE t[p]
<1>1. \A p \in Pages : t2[p] = IF p \in S THEN Absent ELSE t[p]
  BY DEF Without
<1>2. Absent \in [off : Nat, len : Nat] /\ Ext(Absent.off, Absent.len) = {}
  BY DEF Absent, Ext
<1>3. Stored(d, t2)
  <2>1. t2 \in [Pages -> [off : Nat, len : Nat]]
    BY <1>2 DEF Stored, Without
  <2>2. \A p \in Pages : Serves(d, t2, p) /\ (t2[p] # Absent => t2[p].off >= 1 /\ t2[p].len >= 1)
    BY <1>1 DEF Stored, Serves
  <2> QED BY <2>1, <2>2 DEF Stored
<1>4. \A g : g \in Span(t2) <=> \E p \in Pages \ S : g \in Ext(t[p].off, t[p].len)
  BY <1>1, <1>2, InSpan
<1>5. \A g : g \in Span(t) <=> \E p \in Pages : g \in Ext(t[p].off, t[p].len)
  BY InSpan
<1>6. ASSUME NEW p \in Pages, NEW q \in Pages, NEW g \in Ext(t[p].off, t[p].len),
             g \in Ext(t[q].off, t[q].len)
      PROVE  p = q /\ t[p] # Absent
  BY <1>6, PlaceOfPage
<1>7. ASSUME NEW g
      PROVE  g \in Span(t) \ Span(t2) <=>
                   \E p \in S : t[p] # Absent /\ g \in Ext(t[p].off, t[p].len)
  <2>1. ASSUME NEW p \in S, t[p] # Absent, g \in Ext(t[p].off, t[p].len)
        PROVE  g \in Span(t) /\ g \notin Span(t2)
    <3>1. g \in Span(t)
      BY <1>5, <2>1
    <3>2. ASSUME NEW q \in Pages \ S, g \in Ext(t[q].off, t[q].len) PROVE FALSE
      BY <1>6, <2>1, <3>2
    <3> QED BY <1>4, <3>1, <3>2
  <2>2. ASSUME g \in Span(t), g \notin Span(t2)
        PROVE  \E p \in S : t[p] # Absent /\ g \in Ext(t[p].off, t[p].len)
    <3>1. PICK p \in Pages : g \in Ext(t[p].off, t[p].len)
      BY <1>5, <2>2
    <3>2. p \in S /\ t[p] # Absent
      BY <1>4, <1>6, <2>2, <3>1
    <3> QED BY <3>1, <3>2
  <2> QED BY <2>1, <2>2
<1>8. Span(t2) \subseteq Span(t)
  BY <1>4, <1>5
<1> QED BY <1>1, <1>3, <1>7, <1>8

LEMMA TruncateKeeps ==
  ASSUME Endless, IInv, NEW n \in 0 .. NPages - 1, Truncate(n)
  PROVE  IInv'
<1> DEFINE S       == n + 1 .. count
           t2      == Without(tab, S)
           dropped == {p \in S : tab[p] # Absent}
           span    == UNION {Ext(tab[p].off, tab[p].len) : p \in dropped}
           b       == IF dropped = {} THEN alloc ELSE FreeSpan(alloc, span, TxnOf)
<1>1. /\ pc = "idle" /\ ~rb.on /\ mode = "container" /\ n < count
      /\ tab' = t2 /\ count' = n /\ alloc' = b /\ dirty' = TRUE
      /\ UNCHANGED <<disk, dur, slot, slotDur, mode, hdr, which, rb, pc, cm, leaky, clock>>
  BY DEF Truncate, Without
<1>2. /\ Stored(disk, tab) /\ Lists(hdr) \cap Span(tab) = {} /\ count \in 0 .. NPages
      /\ \A p \in Pages : p > count => tab[p] = Absent
  BY <1>1, AtWork DEF Mapped
<1>3. S \in SUBSET Pages /\ n \in 0 .. NPages
  <2>1. n \in Nat /\ count \in Nat /\ count <= NPages /\ NPages \in Nat
    BY <1>2, PagesAssumption
  <2>2. \A p \in S : p \in Int /\ 1 <= p /\ p <= NPages
    BY <2>1
  <2> QED BY <2>1, <2>2 DEF Pages
<1> HIDE DEF S
<1>4. /\ Stored(disk, t2) /\ Span(t2) \subseteq Span(tab)
      /\ \A g : g \in Span(tab) \ Span(t2) <=>
                   \E p \in S : tab[p] # Absent /\ g \in Ext(tab[p].off, tab[p].len)
      /\ \A p \in Pages : t2[p] = IF p \in S THEN Absent ELSE tab[p]
  BY <1>2, <1>3, DropPages
<1>5. span = Span(tab) \ Span(t2)
  BY <1>4
<1>6. Held(hdr, tab) \ Held(hdr, t2) = span /\ Held(hdr, t2) \subseteq Held(hdr, tab)
  <2> HIDE DEF span, t2
  <2> QED BY <1>2, <1>4, <1>5 DEF Held
<1>7. /\ Sound(b) /\ b.append = FALSE /\ Room(b) = Room(alloc)
      /\ Limbo(b) = Limbo(alloc) \cup ({TxnOf} \X span)
  <2>1. Sound(alloc) /\ alloc.append = FALSE /\ span \in SUBSET Nat /\ TxnOf \in Nat
    <3>1. Span(tab) \subseteq Nat
      BY <1>1, AtWork DEF Endless
    <3> HIDE DEF span
    <3> QED BY <1>1, <1>5, <3>1, AtWork DEF TxnOf
  <2>2. CASE dropped = {}
    <3>1. span = {}
      BY <2>2
    <3>2. {TxnOf} \X span = {}
      BY <3>1
    <3> HIDE DEF span
    <3> QED BY <2>1, <2>2, <3>2
  <2>3. CASE dropped # {}
    <3>1. b = FreeSpan(alloc, span, TxnOf)
      BY <2>3
    <3> HIDE DEF span, b
    <3> QED BY <2>1, <3>1, FreeSpanLimbo
  <2> QED BY <2>2, <2>3
<1>8. Mapped(disk', hdr, t2, n)
  <2>1. \A p \in Pages : p > n => t2[p] = Absent
    BY <1>1, <1>2, <1>4 DEF S, Pages
  <2> HIDE DEF t2
  <2>2. Lists(hdr) \cap Span(t2) = {} /\ Stored(disk', t2)
    BY <1>1, <1>2, <1>4
  <2> QED BY <1>3, <2>1, <2>2 DEF Mapped
<1> HIDE DEF b, span, t2
<1>9. /\ Held(hdr, t2) \subseteq Held(hdr, tab) \cup Room(alloc)
      /\ Held(hdr, t2) \cap Room(b) = {} /\ Room(alloc) \ Room(b) \subseteq Held(hdr, t2)
      /\ Limbo(b) = Limbo(alloc) \cup ({TxnOf} \X (Held(hdr, tab) \ Held(hdr, t2)))
  BY <1>1, <1>6, <1>7, AtWork
<1>10. DOMAIN disk' = Granules /\ clock' \in Nat
  BY <1>1 DEF IInv, KeptInv
<1> QED BY <1>1, <1>7, <1>8, <1>9, <1>10, WorkStep

----------------------------------------------------------------------------
(* Steps of the stream *)

\* In append mode an extent comes from behind eof.
LEMMA AppendTake ==
  ASSUME NEW a, Sound(a), a.append = TRUE, NEW n \in Nat \ {0}
  PROVE  LET t == Take(a, n)
         IN  t.off >= a.eof /\ t.a.eof = t.off + n /\ t.off \in Nat
<1>1. a \in AllocRec /\ a.eof \in Nat
  BY DEF Sound, AllocRec
<1> DEFINE r == ReserveEof(a, n)
<1>2. Sound(r)
  BY ReserveKeepsTheGap
<1>3. r.eof >= a.eof
  BY <1>1, HoleAssumption DEF ReserveEof, AllocRec
<1>4. Take(a, n) = [off |-> r.eof, a |-> [r EXCEPT !.eof = @ + n]]
  BY DEF Take, Extend
<1> HIDE DEF r
<1> DEFINE e == [r EXCEPT !.eof = @ + n]
<1>5. r.eof \in Nat /\ e.eof = r.eof + n
  BY <1>2 DEF Sound, AllocRec
<1> HIDE DEF e
<1>6. Take(a, n).off = r.eof /\ Take(a, n).a.eof = r.eof + n
  <2>1. Take(a, n) = [off |-> r.eof, a |-> e]
    BY <1>4 DEF e
  <2> QED BY ONLY <1>5, <2>1
<1> QED BY <1>3, <1>5, <1>6

\* What a write that failed took is given back.
LEMMA UntakeUndoes ==
  ASSUME NEW a, Sound(a), NEW n \in Nat \ {0}
  PROVE  LET t == Take(a, n)
             b == Untake(t.a, t.off, n)
         IN  /\ Sound(b) /\ Room(b) = Room(a) /\ Limbo(b) = Limbo(a) /\ b.append = a.append
             /\ a.append = TRUE => a.eof <= b.eof
             /\ Ext(t.off, n) \subseteq Room(a)
<1> DEFINE t == Take(a, n)
           b == Untake(t.a, t.off, n)
           X == Ext(t.off, n)
<1>1. /\ t.off \in Nat \ {0} /\ X \subseteq Room(a) /\ X \cap HoleSet = {} /\ Sound(t.a)
      /\ Room(t.a) = Room(a) \ X /\ Limbo(t.a) = Limbo(a) /\ t.a.append = a.append
  <2> HIDE DEF t
  <2>1. Sound(a) /\ n \in Nat \ {0} /\ t = Take(a, n)
    BY DEF t
  <2>2. /\ t.off \in Nat /\ 1 <= t.off /\ X \subseteq Room(a) /\ X \cap HoleSet = {} /\ Sound(t.a)
        /\ Room(t.a) = Room(a) \ X
    BY ONLY <2>1, TakeIsFresh
  <2>3. Limbo(t.a) = Limbo(a) /\ t.a.append = a.append
    BY ONLY <2>1, TakeLimbo
  <2> QED BY <2>2, <2>3
<1>2. a.append = TRUE => t.off >= a.eof /\ t.a.eof = t.off + n
  BY AppendTake
<1> HIDE DEF t
<1>3. t.a \in AllocRec /\ t.a.eof \in Nat
  BY <1>1 DEF Sound, AllocRec
<1>4. t.off + n <= t.a.eof
  <2>1. t.off + n - 1 \in X /\ t.off + n - 1 \in Nat
    BY <1>1, InExt
  <2>2. t.off + n - 1 \notin Room(t.a) /\ t.off + n - 1 \notin HoleSet
    BY <1>1, <2>1
  <2> QED BY <1>1, <1>3, <2>1, <2>2, RoomIs
<1>5. Sound(b) /\ b.pend = t.a.pend /\ Room(b) = Room(t.a) \cup X
  <2>1. X \cap Room(t.a) = {}
    BY <1>1
  <2> QED BY <1>1, <1>4, <2>1, UntakeGivesBack
<1>6. Limbo(b) = Limbo(t.a)
  BY <1>5 DEF Limbo
<1>7. b.append = t.a.append /\ (t.off + n = t.a.eof => b.eof = t.off)
  BY <1>3 DEF Untake, FrInsert, AllocRec
<1> QED BY <1>1, <1>2, <1>5, <1>6, <1>7 DEF t, b, X

\* A step that leaves the map alone and takes no more than room.
LEMMA RestStep ==
  ASSUME Endless, IInv, pc = "idle", mode = "plain" => rb.on,
         NEW b, Sound(b), b.append = alloc.append, Room(b) \subseteq Room(alloc),
         rb.on \/ Room(b) = Room(alloc), Limbo(b) = Limbo(alloc),
         \A g \in Granules \ (Room(alloc) \cup HoleSet) : disk'[g] = disk[g],
         DOMAIN disk' = Granules, clock' \in Nat, alloc' = b,
         dirty' \in BOOLEAN, rb.on \/ dirty' = dirty, rb'.on = rb.on,
         UNCHANGED <<dur, slot, slotDur, mode, hdr, which, tab, count, pc, cm, leaky>>
  PROVE  /\ KeptInv' /\ SlotInv' /\ WorkInv' /\ CommitInv'
         /\ \A q \in Pages : ValAt(disk', tab[q]) = ValAt(disk, tab[q])
<1>1. /\ Sits(disk', hdr, mode, leaky) /\ KeptOf(disk', hdr, mode) = Kept
      /\ TabOf(disk', hdr) = TabOf(disk, hdr) /\ \A g \in Kept : dur[g] = disk'[g]
  BY RoomWrite
<1>2. rb.on \in BOOLEAN
  BY AtWork
<1>3. KeptInv'
  BY <1>1, <1>2 DEF IInv, KeptInv, Kept
<1>4. SlotInv'
  BY AtWork DEF SlotInv
<1>5. Held(hdr, tab) \subseteq Granules /\ Ledger(alloc, Held(hdr, tab))
  BY AtWork DEF Held
<1>6. Ledger(b, Held(hdr, tab)) /\ (Full(alloc, Held(hdr, tab)) /\ Room(b) = Room(alloc) => Full(b, Held(hdr, tab)))
  BY <1>5, LedgerShrinks
<1>7. Old' = Old
  BY <1>1 DEF Old
<1>8. /\ Mapped(disk', hdr, tab, count)
      /\ \A q \in Pages : ValAt(disk', tab[q]) = ValAt(disk, tab[q])
  <2>1. Stored(disk, tab) /\ \A g \in Span(tab) : disk'[g] = disk[g]
    BY AtWork DEF Held
  <2>2. Stored(disk', tab) /\ \A q \in Pages : ValAt(disk', tab[q]) = ValAt(disk, tab[q])
    BY <2>1, StoredFrame
  <2>3. Mapped(disk, hdr, tab, count)
    BY AtWork
  <2> QED BY <2>2, <2>3 DEF Mapped
<1>9. WorkInv'
  <2>1. /\ alloc.append = rb.on /\ (rb.on \/ leaky \/ Full(alloc, Held(hdr, tab)))
        /\ (~dirty \/ rb.on => tab = TabOf(disk, hdr) /\ count = hdr.count)
        /\ Old \cap Room(alloc) = {} /\ (\A x \in Limbo(alloc) : x[2] \in Old => x[1] > hdr.txn)
        /\ (mode = "plain" /\ ~rb.on => ~dirty)
    BY DEF IInv, WorkInv
  <2>2. Old \cap Room(b) = {} /\ (\A x \in Limbo(b) : x[2] \in Old => x[1] > hdr.txn)
    BY <2>1
  <2> QED BY <1>1, <1>2, <1>6, <1>7, <1>8, <2>1, <2>2 DEF WorkInv
<1>10. CommitInv'
  BY DEF CommitInv
<1> QED BY <1>3, <1>4, <1>8, <1>9, <1>10

\* The stream as it is, on another disk and with another allocator.
LEMMA StreamRest ==
  ASSUME Endless, IInv, pc = "idle", rb.on, StreamInv,
         Room(alloc') = Room(alloc), alloc.eof <= alloc'.eof, alloc.eof \in Nat, alloc'.eof \in Nat,
         \A g \in Granules \ (Room(alloc) \cup HoleSet) : disk'[g] = disk[g],
         rb'.on = rb.on, rb'.tab = rb.tab, rb'.base = rb.base, 
         rb' \in StreamRec,
         UNCHANGED <<mode, hdr>>
  PROVE  StreamInv' /\ \A q \in Pages : ValAt(disk', rb.tab[q]) = ValAt(disk, rb.tab[q])
<1>1. /\ rb.base = (IF mode = "plain" THEN PlainEof ELSE hdr.eof)
      /\ rb.base \in Nat \ {0} /\ rb.base <= alloc.eof
      /\ mode = "container" => hdr.txn > 0
      /\ mode = "plain" => (1 .. PlainEof - 1) \cap Room(alloc) = {}
      /\ Stored(disk, rb.tab) /\ Span(rb.tab) \cap (Room(alloc) \cup HoleSet) = {}
      /\ \A g \in Span(rb.tab) : rb.base <= g
  BY DEF StreamInv
<1>2. Span(rb.tab) \subseteq Granules
  BY <1>1, SpanIsNat DEF Endless
<1>3. \A g \in Span(rb.tab) : disk'[g] = disk[g]
  BY <1>1, <1>2
<1>4. Stored(disk', rb.tab) /\ \A q \in Pages : ValAt(disk', rb.tab[q]) = ValAt(disk, rb.tab[q])
  BY <1>1, <1>3, StoredFrame
<1>5. rb.base <= alloc'.eof
  BY <1>1
<1> QED BY <1>1, <1>4, <1>5 DEF StreamInv

LEMMA WriteFailsKeeps ==
  ASSUME Endless, IInv, NEW p \in Pages, WriteFails(p)
  PROVE  /\ IInv'
         /\ \A q \in Pages : ValAt(disk', tab[q]) = ValAt(disk, tab[q])
         /\ rb.on => \A q \in Pages : ValAt(disk', rb.tab[q]) = ValAt(disk, rb.tab[q])
<1> DEFINE n == Size[clock + 1]
           t == Take(alloc, n)
           b == Untake(t.a, t.off, n)
           X == Ext(t.off, n)
<1>1. /\ pc = "idle" /\ (mode = "container" \/ rb.on) /\ n \in Nat \ {0}
      /\ disk' = [g \in Granules |-> IF g \in X THEN Garbage ELSE disk[g]]
      /\ alloc' = b /\ dirty' = (dirty \/ rb.on)
      /\ UNCHANGED <<dur, slot, slotDur, mode, hdr, which, tab, count, rb, pc, cm, leaky, clock>>
  BY SizeIs DEF WriteFails
<1>2. /\ Sound(b) /\ Room(b) = Room(alloc) /\ Limbo(b) = Limbo(alloc) /\ b.append = alloc.append
      /\ alloc.append = TRUE => alloc.eof <= b.eof
      /\ X \subseteq Room(alloc)
  <2>1. Sound(alloc)
    BY <1>1, AtWork
  <2> HIDE DEF n
  <2> QED BY <1>1, <2>1, UntakeUndoes
<1> HIDE DEF b, X
<1>3. \A g \in Granules \ (Room(alloc) \cup HoleSet) : disk'[g] = disk[g]
  BY <1>1, <1>2
<1>4. /\ rb.on \in BOOLEAN /\ dirty \in BOOLEAN /\ Sound(alloc) /\ alloc.append = rb.on
      /\ mode \in {"plain", "container"}
  BY <1>1, AtWork
<1>5. DOMAIN disk' = Granules /\ clock' \in Nat /\ dirty' \in BOOLEAN /\ (rb.on \/ dirty' = dirty)
  BY <1>1, <1>4 DEF IInv, KeptInv
<1>6. /\ KeptInv' /\ SlotInv' /\ WorkInv' /\ CommitInv'
      /\ \A q \in Pages : ValAt(disk', tab[q]) = ValAt(disk, tab[q])
  <2>1. mode = "plain" => rb.on
    BY <1>1, <1>4
  <2> QED BY <1>1, <1>2, <1>3, <1>5, <2>1, RestStep
<1>7. StreamInv' /\ (rb.on => \A q \in Pages : ValAt(disk', rb.tab[q]) = ValAt(disk, rb.tab[q]))
  <2>1. CASE ~rb.on
    BY <1>1, <2>1 DEF StreamInv
  <2>2. CASE rb.on
    <3>1. alloc.eof \in Nat /\ b.eof \in Nat /\ alloc.eof <= b.eof
      BY <1>2, <1>4, <2>2 DEF Sound, AllocRec
    <3>2. StreamInv 
          /\ rb' \in StreamRec
      BY <1>1, <2>2 DEF IInv, StreamInv
    <3> QED BY <1>1, <1>2, <1>3, <2>2, <3>1, <3>2, StreamRest
  <2> QED BY <2>1, <2>2
<1> QED BY <1>6, <1>7 DEF IInv

LEMMA RebuildWriteKeeps ==
  ASSUME Endless, IInv, NEW p \in Pages, RebuildWrite(p)
  PROVE  /\ IInv' /\ rb'.count = rb.count /\ rb'.tab[p] # Absent /\ ValAt(disk', rb'.tab[p]) = clock + 1
         /\ \A q \in Pages \ {p} : /\ rb'.tab[q] = rb.tab[q]
                                  /\ ValAt(disk', rb'.tab[q]) = ValAt(disk, rb.tab[q])
         /\ \A q \in Pages : ValAt(disk', tab[q]) = ValAt(disk, tab[q])
<1> DEFINE n  == Size[clock + 1]
           t  == Take(alloc, n)
           t2 == [rb.tab EXCEPT ![p] = [off |-> t.off, len |-> n]]
           E  == Ext(rb.tab[p].off, rb.tab[p].len)
           X  == Ext(t.off, n)
<1>1. /\ pc = "idle" /\ rb.on /\ n \in Nat \ {0}
      /\ disk' = Write(disk, PageRec(t.off, n, p, clock + 1)) /\ clock' \in Nat
      /\ rb' = [rb EXCEPT !.tab[p] = [off |-> t.off, len |-> n]] /\ alloc' = t.a /\ dirty' = TRUE
      /\ UNCHANGED <<dur, slot, slotDur, mode, hdr, which, tab, count, pc, cm, leaky>>
  BY SizeIs DEF RebuildWrite
<1>0. rb \in StreamRec
  BY <1>1 DEF IInv, StreamInv
<1>2. /\ rb.base = (IF mode = "plain" THEN PlainEof ELSE hdr.eof)
      /\ rb.base \in Nat \ {0} /\ rb.base <= alloc.eof
      /\ mode = "container" => hdr.txn > 0
      /\ mode = "plain" => (1 .. PlainEof - 1) \cap Room(alloc) = {}
      /\ Stored(disk, rb.tab) /\ Span(rb.tab) \cap (Room(alloc) \cup HoleSet) = {}
      /\ \A g \in Span(rb.tab) : rb.base <= g
      
  BY <1>1 DEF IInv, StreamInv
<1>3. Sound(alloc) /\ alloc.append = TRUE
  BY <1>1, AtWork
<1>4. /\ t.off \in Nat \ {0} /\ X \subseteq Room(alloc) /\ X \cap HoleSet = {} /\ Sound(t.a)
      /\ Room(t.a) = Room(alloc) \ X /\ t.a.append = TRUE /\ Limbo(t.a) = Limbo(alloc)
      /\ t.off >= alloc.eof /\ t.a.eof = t.off + n
  <2> HIDE DEF n, t
  <2>1. n \in Nat \ {0} /\ Sound(alloc) /\ alloc.append = TRUE /\ t = Take(alloc, n)
    BY <1>1, <1>3 DEF t
  <2>2. t.off >= alloc.eof /\ t.a.eof = t.off + n
    BY ONLY <2>1, AppendTake
  <2>3. /\ t.off \in Nat /\ 1 <= t.off /\ X \subseteq Room(alloc) /\ X \cap HoleSet = {}
        /\ Sound(t.a) /\ Room(t.a) = Room(alloc) \ X
    BY ONLY <2>1, TakeIsFresh
  <2>4. t.a.append = alloc.append /\ Limbo(t.a) = Limbo(alloc)
    BY ONLY <2>1, TakeLimbo
  <2> QED BY <2>1, <2>2, <2>3, <2>4
<1>5. /\ rb'.on = rb.on /\ rb'.tab = t2 /\ rb'.base = rb.base /\ rb'.count = rb.count
      /\ rb' \in StreamRec
  <2>1. rb' = [rb EXCEPT !.tab = t2]
    BY <1>1
  <2>2. t2 \in [Pages -> [off : Nat, len : Nat]]
    BY <1>0, <1>1, <1>4 DEF StreamRec
  <2> HIDE DEF t2
  <2>3. rb'.on = rb.on /\ rb'.tab = t2 /\ rb'.base = rb.base /\ rb'.count = rb.count
    BY ONLY <1>0, <2>1, <2>2 DEF StreamRec
  <2>4. rb' \in StreamRec
    BY ONLY <1>0, <2>1, <2>2 DEF StreamRec
  <2> QED BY <2>3, <2>4
<1> HIDE DEF n, t
<1>6. HasPage(disk', disk, t.off, n, p, clock + 1)
  BY <1>1, <1>4, PageWritten
<1>7. \A g \in Granules \ (Room(alloc) \cup HoleSet) : disk'[g] = disk[g]
  BY <1>4, <1>6 DEF HasPage
<1>8. /\ Stored(disk', t2) /\ Span(t2) = (Span(rb.tab) \ E) \cup X
      /\ t2[p] # Absent /\ ValAt(disk', t2[p]) = clock + 1
      /\ \A q \in Pages \ {p} : t2[q] = rb.tab[q] /\ ValAt(disk', t2[q]) = ValAt(disk, rb.tab[q])
  <2>1. Span(rb.tab) \subseteq Granules
    BY <1>2, SpanIsNat DEF Endless
  <2>2. \A g \in Span(rb.tab) \ E : disk'[g] = disk[g]
    BY <1>2, <1>7, <2>1
  <2>3. Whole(disk', t.off, n, "page") /\ disk'[t.off].page = p /\ disk'[t.off].val = clock + 1
    BY <1>6 DEF HasPage
  <2>4. rb.tab \in [Pages -> [off : Nat, len : Nat]] /\ Stored(disk, rb.tab)
    BY <1>2 DEF Stored
  <2>5. /\ t2 \in [Pages -> [off : Nat, len : Nat]] /\ t2[p].off = t.off /\ t2[p].len = n
        /\ \A q \in Pages \ {p} : t2[q] = rb.tab[q]
    BY <1>1, <1>4, <2>4
  <2> HIDE DEF t2
  <2>6. Repoint(disk, rb.tab, p, disk', t2)
    BY <1>1, <1>4, <2>2, <2>3, <2>5 DEF Repoint
  <2>7. /\ Stored(disk', t2) /\ Span(t2) = (Span(rb.tab) \ E) \cup X /\ t2[p] # Absent
        /\ ValAt(disk', t2[p]) = disk'[t2[p].off].val
        /\ \A q \in Pages \ {p} : ValAt(disk', t2[q]) = ValAt(disk, rb.tab[q])
    BY <2>4, <2>5, <2>6, StoredPut
  <2> QED BY <2>3, <2>5, <2>7
<1> HIDE DEF t2
<1>9. \A g \in X : rb.base <= g
  <2>1. alloc.eof \in Nat /\ rb.base <= t.off
    BY <1>2, <1>3, <1>4 DEF Sound, AllocRec
  <2>2. \A g \in X : g \in Nat /\ t.off <= g
    BY <1>1, <1>4, InExt
  <2> QED BY <1>2, <1>4, <2>1, <2>2
<1>10. rb.base <= t.a.eof
  BY <1>1, <1>2, <1>3, <1>4 DEF Sound, AllocRec
<1> HIDE DEF X, E
<1>11. StreamInv'
  <2>1. Span(t2) \cap (Room(t.a) \cup HoleSet) = {} /\ \A g \in Span(t2) : rb.base <= g
    BY <1>2, <1>4, <1>8, <1>9
  <2>2. mode = "plain" => (1 .. PlainEof - 1) \cap Room(t.a) = {}
    BY <1>2, <1>4
  <2> QED BY <1>1, <1>2, <1>5, <1>8, <1>10, <2>1, <2>2 DEF StreamInv
<1>12. DOMAIN disk' = Granules
  BY <1>1, WriteDomain
<1>13. /\ KeptInv' /\ SlotInv' /\ WorkInv' /\ CommitInv'
       /\ \A q \in Pages : ValAt(disk', tab[q]) = ValAt(disk, tab[q])
  <2>1. Room(t.a) \subseteq Room(alloc) /\ t.a.append = alloc.append /\ dirty' \in BOOLEAN
    BY <1>1, <1>3, <1>4
  <2> QED BY <1>1, <1>4, <1>5, <1>7, <1>12, <2>1, RestStep
<1> QED BY <1>5, <1>8, <1>11, <1>13 DEF IInv

LEMMA RebuildTruncateKeeps ==
  ASSUME Endless, IInv, NEW n \in Pages, RebuildTruncate(n)
  PROVE  IInv'
<1>1. /\ pc = "idle" /\ rb.on /\ rb' = [rb EXCEPT !.count = n]
      /\ UNCHANGED <<disk, dur, slot, slotDur, mode, hdr, which, tab, count, alloc, dirty, pc,
                     cm, leaky, clock>>
  BY DEF RebuildTruncate
<1>2. StreamInv /\ rb \in StreamRec
  BY <1>1 DEF IInv, StreamInv
<1>3. n \in -1 .. NPages
  BY PagesAssumption DEF Pages
<1>4. rb'.on = rb.on /\ rb'.tab = rb.tab /\ rb'.base = rb.base /\ rb' \in StreamRec
  BY ONLY <1>1, <1>2, <1>3 DEF StreamRec
<1>5. Sound(alloc) /\ dirty \in BOOLEAN
  BY <1>1, AtWork
<1>6. alloc.eof \in Nat /\ alloc.eof <= alloc.eof
  BY <1>5 DEF Sound, AllocRec
<1>7. StreamInv'
  BY <1>1, <1>2, <1>4, <1>6, StreamRest
<1>8. DOMAIN disk' = Granules /\ clock' \in Nat
  BY <1>1 DEF IInv, KeptInv
<1>9. KeptInv' /\ SlotInv' /\ WorkInv' /\ CommitInv'
  BY <1>1, <1>4, <1>5, <1>8, RestStep
<1> QED BY <1>7, <1>9 DEF IInv

LEMMA AppendMode ==
  ASSUME NEW a, Sound(a), NEW v \in BOOLEAN
  PROVE  LET b == [a EXCEPT !.append = v]
         IN  /\ Sound(b) /\ Room(b) = Room(a) /\ Limbo(b) = Limbo(a) /\ Pending(b) = Pending(a)
             /\ b.append = v /\ b.eof = a.eof
<1> DEFINE b == [a EXCEPT !.append = v]
<1>1. /\ b \in AllocRec /\ b.free = a.free /\ b.pend = a.pend /\ b.eof = a.eof /\ b.append = v
  BY DEF Sound, AllocRec
<1> HIDE DEF b
<1>2. Sound(b) /\ Room(b) = Room(a)
  BY <1>1 DEF Sound, Room
<1>3. Limbo(b) = Limbo(a) /\ Pending(b) = Pending(a)
  BY <1>1 DEF Limbo, Pending
<1> QED BY <1>1, <1>2, <1>3 DEF b

LEMMA BeginOverwriteKeeps ==
  ASSUME Endless, Journaled, IInv, BeginOverwrite
  PROVE  IInv'
<1> DEFINE base == IF mode = "plain" THEN PlainEof ELSE hdr.eof
           a    == IF mode = "plain" THEN [NewAlloc EXCEPT !.eof = PlainEof] ELSE alloc
           b    == [a EXCEPT !.append = TRUE]
           u    == Held(hdr, tab)
<1>1. /\ pc = "idle" /\ ~rb.on /\ ~dirty /\ alloc' = b
      /\ rb' = [NoRebuild EXCEPT !.on = TRUE, !.base = base]
      /\ mode = "plain" \/ (hdr.txn > 0 /\ hdr.eof <= alloc.eof)
      /\ UNCHANGED <<disk, dur, slot, slotDur, mode, hdr, which, tab, count, dirty, pc, cm,
                     leaky, clock>>
  BY DEF BeginOverwrite
<1>2. tab = TabOf(disk, hdr) /\ count = hdr.count
  BY <1>1 DEF IInv, WorkInv
<1>3. /\ Sits(disk, hdr, mode, leaky) /\ Gen(disk, hdr, leaky) /\ hdr \in HdrRec \cup {ZeroHdr}
      /\ Mapped(disk, hdr, tab, count) /\ AtRest(slot, hdr, which, mode)
      /\ AtRest(slotDur, hdr, which, mode) /\ mode \in {"plain", "container"}
      /\ Ledger(alloc, u)
  BY <1>1, AtWork
<1>4. mode = "plain" => hdr = ZeroHdr /\ u = {}
  BY <1>2, <1>3, GenIs DEF Sits
<1>5. PlainEof \in Nat \ {0} /\ PlainEof <= Hole0
  BY SizeAssumption, HoleAssumption
<1>6. /\ Ledger(a, u) /\ base \in Nat \ {0} /\ base <= a.eof
      /\ mode = "plain" => (1 .. PlainEof - 1) \cap Room(a) = {}
      /\ u \cap Room(a) = {} /\ \A x \in Limbo(a) : x[2] \notin u
  <2>1. CASE mode = "plain"
    <3>1. a = [NewAlloc EXCEPT !.eof = PlainEof]
      BY <2>1
    <3>2. Ledger(a, {}) /\ Limbo(a) = {} /\ a.eof = PlainEof /\ \A g \in Room(a) : PlainEof <= g
      BY ONLY <1>5, <3>1, NewLedger, Endless
    <3> HIDE DEF a
    <3>3. (1 .. PlainEof - 1) \cap Room(a) = {}
      BY <1>5, <3>2
    <3> QED BY <1>4, <1>5, <2>1, <3>2, <3>3
  <2>2. CASE mode # "plain"
    <3>1. a = alloc /\ base = hdr.eof /\ hdr.txn > 0 /\ hdr.eof <= alloc.eof
      BY <1>1, <2>2
    <3>2. hdr \in HdrRec
      BY <1>3, <3>1, HdrIs
    <3>3. Sound(AllocOf(disk, hdr)) /\ AllocOf(disk, hdr).eof = hdr.eof
      BY <1>3, <3>2, GenIs DEF Ledger
    <3>4. hdr.eof \in Nat \ {0}
      BY <3>3 DEF Sound, AllocRec
    <3>5. u \cap Room(alloc) = {} /\ \A x \in Limbo(alloc) : x[2] \notin u
      BY <1>3, PendingIs DEF Ledger
    <3> QED BY <1>3, <2>2, <3>1, <3>4, <3>5
  <2> QED BY <2>1, <2>2
<1>7. /\ Sound(b) /\ Room(b) = Room(a) /\ Limbo(b) = Limbo(a) /\ Pending(b) = Pending(a)
      /\ b.append = TRUE /\ b.eof = a.eof
  <2>1. Sound(a)
    BY <1>6 DEF Ledger
  <2> HIDE DEF a
  <2> QED BY <2>1, AppendMode
<1> HIDE DEF a, b
<1>8. Ledger(b, u)
  BY <1>6, <1>7 DEF Ledger
<1>9. rb'.on = TRUE /\ rb'.tab = Empty /\ rb'.base = base /\ rb' \in StreamRec
  <2>1. Empty \in [Pages -> [off : Nat, len : Nat]] /\ -1 \in -1 .. NPages
    BY EmptySpan, PagesAssumption DEF Stored
  <2>2. rb' = [on |-> TRUE, tab |-> Empty, count |-> -1, base |-> base]
    BY <1>1 DEF NoRebuild
  <2> HIDE DEF base
  <2> QED BY <1>6, <2>1, <2>2 DEF StreamRec
<1>10. KeptInv'
  BY <1>1, <1>9 DEF IInv, KeptInv, Kept
<1>11. SlotInv'
  BY <1>1, <1>3 DEF SlotInv
<1>12. WorkInv'
  <2>1. Old' = u
    BY <1>1, <1>2 DEF Old
  <2> HIDE DEF u
  <2> QED BY <1>1, <1>2, <1>3, <1>6, <1>7, <1>8, <1>9, <2>1 DEF WorkInv, u
<1>13. StreamInv'
  <2>1. Stored(disk, Empty) /\ Span(Empty) = {}
    BY EmptySpan
  <2> QED BY <1>1, <1>3, <1>6, <1>7, <1>9, <2>1 DEF StreamInv
<1> QED BY <1>1, <1>10, <1>11, <1>12, <1>13 DEF IInv, CommitInv

LEMMA RebuildAbandonKeeps ==
  ASSUME Endless, IInv, RebuildAbandon
  PROVE  IInv'
<1> DEFINE a == AllocOf(disk, hdr)
<1>1. /\ pc = "idle" /\ rb.on /\ rb' = NoRebuild
      /\ alloc' = IF mode = "plain" THEN NewAlloc ELSE Load(disk, hdr)
      /\ dirty' = (dirty /\ mode = "container")
      /\ UNCHANGED <<disk, dur, slot, slotDur, mode, hdr, which, tab, count, pc, cm, leaky, clock>>
  BY DEF RebuildAbandon
<1>2. tab = TabOf(disk, hdr) /\ count = hdr.count
  BY <1>1 DEF IInv, WorkInv
<1>3. /\ Sits(disk, hdr, mode, leaky) /\ Gen(disk, hdr, leaky) /\ hdr \in HdrRec \cup {ZeroHdr}
      /\ Mapped(disk, hdr, tab, count) /\ AtRest(slot, hdr, which, mode)
      /\ AtRest(slotDur, hdr, which, mode) /\ mode \in {"plain", "container"} /\ dirty \in BOOLEAN
  BY <1>1, AtWork
<1>4. alloc' = a
  <2>1. mode = "container" => hdr.txn > 0
    BY <1>1 DEF IInv, StreamInv
  <2>2. mode = "plain" => hdr = ZeroHdr
    BY <1>3 DEF Sits
  <2> QED BY <1>1, <1>3, <2>1, <2>2, HdrIs DEF AllocOf
<1>5. rb'.on = FALSE
  BY <1>1 DEF NoRebuild
<1>6. /\ Ledger(a, Held(hdr, tab)) /\ a.append = FALSE /\ (leaky \/ Full(a, Held(hdr, tab)))
  BY <1>2, <1>3 DEF Gen
<1> HIDE DEF a
<1>7. Held(hdr, tab) \cap Room(a) = {} /\ \A x \in Limbo(a) : x[2] \notin Held(hdr, tab)
  BY <1>6, PendingIs DEF Ledger
<1>8. KeptInv'
  BY <1>1, <1>3, <1>5 DEF IInv, KeptInv, Kept
<1>9. SlotInv'
  BY <1>1, <1>3 DEF SlotInv
<1>10. WorkInv'
  <2>1. Old' = Held(hdr, tab)
    BY <1>1, <1>2 DEF Old
  <2> QED BY <1>1, <1>2, <1>3, <1>4, <1>5, <1>6, <1>7, <2>1 DEF WorkInv
<1> QED BY <1>1, <1>5, <1>8, <1>9, <1>10 DEF IInv, StreamInv, CommitInv

----------------------------------------------------------------------------
(* Barriers *)

LEMMA SyncCleanKeeps ==
  ASSUME Endless, IInv, SyncClean
  PROVE  IInv'
<1>1. /\ pc = "idle" /\ dur' = disk /\ slotDur' = slot
      /\ UNCHANGED <<disk, slot, mode, hdr, which, tab, count, alloc, dirty, rb, pc, cm, leaky, clock>>
  BY DEF SyncClean
<1>2. KeptInv'
  BY <1>1 DEF IInv, KeptInv, Kept
<1>3. SlotInv'
  BY <1>1, AtWork DEF SlotInv
<1>4. WorkInv' /\ StreamInv'
  BY <1>1 DEF IInv, WorkInv, StreamInv, Old
<1> QED BY <1>1, <1>2, <1>3, <1>4 DEF IInv, CommitInv

LEMMA BarrierKeeps ==
  ASSUME Endless, IInv, Barrier
  PROVE  IInv'
<1>1. /\ pc = "written" /\ dur' = disk /\ slotDur' = slot
      /\ slot' = [slot EXCEPT ![FirstCopy] = cm.hdr]
      /\ pc' = (IF mode = "plain" THEN "copied" ELSE "flipped")
      /\ UNCHANGED <<disk, mode, hdr, which, tab, count, alloc, dirty, rb, cm, leaky, clock>>
  BY DEF Barrier
<1>2. AtRest(slot, hdr, which, mode)
  BY <1>1 DEF IInv, SlotInv
<1>3. mode \in {"plain", "container"}
  BY <1>2, AtRestIs
<1>4. KeptInv'
  BY <1>1 DEF IInv, KeptInv, Kept
<1>5. SlotInv'
  BY <1>1, <1>2, <1>3 DEF SlotInv, FirstCopy, Target
<1>6. CommitInv'
  BY <1>1 DEF IInv, CommitInv, TxnOf
<1> QED BY <1>1, <1>4, <1>5, <1>6 DEF IInv, WorkInv, StreamInv

LEMMA SecondCopyKeeps ==
  ASSUME Endless, IInv, SecondCopy
  PROVE  IInv'
<1>1. /\ pc = "copied" /\ slotDur' = slot /\ slot' = [slot EXCEPT ![0] = cm.hdr] /\ pc' = "flipped"
      /\ UNCHANGED <<disk, dur, mode, hdr, which, tab, count, alloc, dirty, rb, cm, leaky, clock>>
  BY DEF SecondCopy
<1>2. mode = "plain" /\ AtRest(slotDur, hdr, which, mode) /\ slot = [slotDur EXCEPT ![1] = cm.hdr]
  BY <1>1 DEF IInv, SlotInv
<1>3. hdr = ZeroHdr /\ which = -1 /\ slotDur \in [{0, 1} -> HdrAll] /\ slotDur[0] = PlainHdr
  BY <1>2, AtRestIs DEF AtRest
<1>4. slot \in [{0, 1} -> HdrAll \cup {cm.hdr}] /\ slot[0] = PlainHdr /\ slot[1] = cm.hdr
  BY <1>2, <1>3
<1>5. SlotInv'
  <2>1. slot = [i \in {0, 1} |-> IF i = 0 THEN PlainHdr ELSE cm.hdr]
    BY <1>4
  <2>2. slot' = [i \in {0, 1} |-> cm.hdr]
    BY <1>1, <1>4
  <2> QED BY <1>1, <1>2, <1>3, <2>1, <2>2 DEF SlotInv
<1>6. KeptInv' /\ CommitInv'
  BY <1>1 DEF IInv, KeptInv, Kept, CommitInv, TxnOf
<1> QED BY <1>1, <1>5, <1>6 DEF IInv, WorkInv, StreamInv

LEMMA LandKeeps ==
  ASSUME Endless, IInv, Land
  PROVE  IInv'
<1> DEFINE a == IF cm.gate THEN Release(alloc, TxnOf) ELSE alloc
           u == Held(cm.hdr, tab)
<1>1. /\ pc = "flipped" /\ slotDur' = slot /\ hdr' = cm.hdr /\ which' = Target /\ mode' = "container"
      /\ alloc' = a /\ dirty' = FALSE /\ rb' = NoRebuild /\ pc' \in {"pack", "idle"}
      /\ UNCHANGED <<disk, dur, slot, tab, count, leaky, clock>>
  BY DEF Land
<1>2. Ahead /\ Sits(disk, cm.hdr, "container", leaky)
  BY <1>1, CommitIs
<1>3. /\ Gen(disk, cm.hdr, leaky) /\ tab = TabOf(disk, cm.hdr) /\ count = cm.hdr.count
      /\ alloc = Load(disk, cm.hdr) /\ dur = disk
  BY <1>1 DEF IInv, CommitInv
<1>4. AtRest(slot, cm.hdr, Target, "container")
  BY <1>1, <1>2, NewPicked DEF IInv
<1>5. rb'.on = FALSE
  BY <1>1 DEF NoRebuild
<1>6. /\ Ledger(alloc, u) /\ alloc.append = FALSE /\ (leaky \/ Full(alloc, u))
      /\ Mapped(disk, cm.hdr, tab, count)
  <2>1. alloc = AllocOf(disk, cm.hdr)
    BY <1>2, <1>3, HdrIs DEF Ahead, AllocOf
  <2> QED BY <1>3, <2>1 DEF Gen
<1>7. TxnOf \in Nat
  BY <1>2, HdrIs DEF Ahead, TxnOf
<1>8. Ledger(a, u) /\ a.append = FALSE /\ (leaky \/ Full(a, u))
  <2> HIDE DEF u
  <2>1. CASE cm.gate
    BY <1>6, <1>7, <2>1, LedgerRelease
  <2>2. CASE ~cm.gate
    BY <1>6, <2>2
  <2> QED BY <2>1, <2>2
<1> HIDE DEF a
<1>9. u \cap Room(a) = {} /\ \A x \in Limbo(a) : x[2] \notin u
  BY <1>8, PendingIs DEF Ledger
<1>10. KeptInv'
  BY <1>1, <1>2, <1>3, <1>5 DEF IInv, KeptInv, Kept
<1>11. SlotInv'
  BY <1>1, <1>4 DEF SlotInv
<1>12. WorkInv'
  <2>1. Old' = u
    BY <1>1, <1>3 DEF Old
  <2> HIDE DEF u
  <2> QED BY <1>1, <1>3, <1>5, <1>6, <1>8, <1>9, <2>1 DEF WorkInv, u
<1> QED BY <1>1, <1>5, <1>10, <1>11, <1>12 DEF IInv, StreamInv, CommitInv

----------------------------------------------------------------------------
(* What a commit writes before its header *)

\* The map that a commit makes the file's, and of how many pages.
MadeCount == IF rb.on THEN ChunkCount(rb) ELSE count
Made      == IF rb.on THEN Without(rb.tab, {p \in Pages : p > ChunkCount(rb)}) ELSE tab

\* w is the generation it writes, from the room R.
Built(w, R, l) ==
  /\ Gen(w.disk, w.hdr, l) /\ w.hdr \in HdrRec /\ w.hdr.txn = TxnOf /\ w.hdr.count = MadeCount
  /\ w.tab = w.disk[w.hdr.root].tab /\ w.count = MadeCount /\ w.a = Load(w.disk, w.hdr)
  /\ DOMAIN w.disk = Granules
  /\ R \cap Kept = {} /\ \A g \in Granules \ (R \cup HoleSet) : w.disk[g] = disk[g]
  /\ \A p \in Pages : ValAt(w.disk, w.tab[p]) = ValAt(disk, Made[p])

LEMMA BuiltKeeps ==
  ASSUME Endless, IInv, pc \in {"idle", "pack"}, mode = "plain" => rb.on,
         leaky' \in BOOLEAN, leaky => leaky', NEW w, NEW R, Built(w, R, leaky'),
         disk' = w.disk, alloc' = w.a, tab' = w.tab, count' = w.count, cm'.hdr = w.hdr,
         pc' = "written", UNCHANGED <<dur, slot, slotDur, mode, hdr, which, dirty, rb, clock>>
  PROVE  IInv'
<1>1. Kept \subseteq Granules /\ Kept \cap HoleSet = {}
  BY KeptApart
<1>2. \A g \in Kept : disk'[g] = disk[g] /\ dur[g] = disk[g]
  BY <1>1 DEF Built, IInv, KeptInv
<1>3. Sits(disk', hdr, mode, leaky) /\ KeptOf(disk', hdr, mode) = Kept
  BY <1>2, AtWork, KeptFrame DEF Kept
<1>4. Sits(disk', hdr, mode, leaky')
  BY <1>3, GenWeaker DEF Sits
<1>5. KeptInv'
  BY <1>2, <1>3, <1>4 DEF IInv, KeptInv, Kept, Built
<1>6. SlotInv'
  BY AtWork DEF SlotInv
<1>7. CommitInv'
  BY HdrAllIs, HdrIs DEF CommitInv, Built, TabOf, TxnOf
<1> QED BY <1>5, <1>6, <1>7 DEF IInv, WorkInv, StreamInv

\* A record of what Laid says of the lists, the root and the map.
LEMMA GenOf ==
  ASSUME Endless, NEW w, NEW l, w.hdr \in HdrRec, Reads(w.disk, w.hdr), w.disk[w.hdr.root].tab = w.tab,
         Load(w.disk, w.hdr) = w.a, Mapped(w.disk, w.hdr, w.tab, w.hdr.count),
         Ledger(w.a, Held(w.hdr, w.tab)), w.a.append = FALSE, l \/ Full(w.a, Held(w.hdr, w.tab))
  PROVE  Gen(w.disk, w.hdr, l)
BY HdrIs DEF Gen, TabOf, AllocOf

LEMMA CommitBuilds ==
  ASSUME Endless, IInv, pc \in {"idle", "pack"}, ~rb.on, mode = "container", NEW gate \in BOOLEAN,
         NEW w, w = Committed(Moved(Opened(gate)))
  PROVE  Built(w, Room(Opened(gate)), leaky)
<1> DEFINE a   == Opened(gate)
           c   == Compact(a, disk, tab, hdr.root, TxnOf)
           u   == Held(hdr, tab)
           cut == [p \in Pages |-> IF p <= count THEN c.tab[p] ELSE Absent]
<1>1. /\ hdr \in HdrRec \cup {ZeroHdr} /\ hdr.txn \in Nat /\ Ledger(alloc, u) /\ Sound(alloc)
      /\ alloc.append = FALSE /\ Mapped(disk, hdr, tab, count) /\ Stored(disk, tab)
      /\ u \subseteq Granules /\ Gen(disk, hdr, leaky)
  BY AtWork DEF Held
<1>2. a = Trim(IF gate THEN Release(alloc, hdr.txn) ELSE alloc)
  BY DEF Opened
<1>3. /\ Ledger(a, u) /\ a.append = FALSE /\ (Full(alloc, u) => Full(a, u))
      /\ \A g \in Room(a) : g \in Room(alloc) \/ \E x \in Limbo(alloc) : x[2] = g /\ x[1] <= hdr.txn
  <2> HIDE DEF a, u
  <2> DEFINE upto == hdr.txn
  <2>1. /\ Ledger(alloc, u) /\ u \subseteq Granules /\ upto \in Nat /\ gate \in BOOLEAN
        /\ Opens(a, alloc, upto, gate)
    BY <1>1, <1>2 DEF Opens
  <2> HIDE DEF upto
  <2>2. IsOpened(a, alloc, u, upto)
    BY ONLY Endless, <2>1, LedgerOpened
  <2> QED BY <1>1, <2>2 DEF IsOpened, upto
<1> HIDE DEF a
<1>4. Sound(a) /\ u \cap (Room(a) \cup HoleSet) = {}
  BY <1>3 DEF Ledger
<1>5. /\ hdr.root \in Nat /\ Lists(hdr) \subseteq Granules /\ (hdr.txn = 0 => hdr.root = 0)
      /\ (hdr.txn # 0 => disk[hdr.root].kind = "node") /\ Lists(hdr) \cap Span(tab) = {}
  <2>1. CASE hdr = ZeroHdr
    BY <1>1, <2>1, HdrIs DEF ZeroHdr, Mapped
  <2>2. CASE hdr \in HdrRec
    <3>1. Reads(disk, hdr) /\ hdr.root \in Granules
      BY <1>1, <2>2, HdrIs DEF Gen, HdrRec
    <3> QED BY <1>1, <2>2, <3>1, HdrIs DEF Reads, Whole, Mapped, Endless
  <2> QED BY <1>1, <2>1, <2>2
<1>6. Walked(c, a, disk, tab, TxnOf)
  <2>1. Standing(a, disk, tab, hdr.root)
    <3>1. hdr.txn # 0 => hdr.root \in Lists(hdr)
      BY DEF Lists
    <3> QED BY <1>1, <1>4, <1>5, <3>1 DEF Standing, Held
  <2>2. TxnOf \in Nat
    BY <1>1 DEF TxnOf
  <2> QED BY ONLY Endless, <1>1, <1>3, <1>4, <1>5, <2>1, <2>2, CompactKeepsPages
<1>7. cut = c.tab
  <2>1. \A p \in Pages : p > count => c.tab[p] = Absent
    BY <1>1, <1>6 DEF Walked, Mapped
  <2>2. c.tab \in [Pages -> [off : Nat, len : Nat]]
    BY <1>6 DEF Walked, Stored
  <2>3. count \in Nat /\ \A p \in Pages : p \in Nat
    BY <1>1 DEF Mapped, Pages
  <2>4. \A p \in Pages : ~(p <= count) => p > count
    BY <2>3
  <2> HIDE DEF c
  <2> QED BY <2>1, <2>2, <2>4
<1>8. w = Renewed(a, disk, tab, hdr, count)
  <2>1. Moved(a) = c
    BY DEF Moved
  <2>2. w = Laid(c, Placement(OldLists(c.a, hdr)), count, cut, TxnOf)
    <3> HIDE DEF c
    <3> QED BY <2>1 DEF Committed, a
  <2> QED BY <1>7, <2>2 DEF Renewed, TxnOf
<1>9. Replaces(w, a, disk, tab, hdr, count)
  <2>1. Replaces(Renewed(a, disk, tab, hdr, count), a, disk, tab, hdr, count)
    <3>1. (Lists(hdr) \cup Span(tab)) \cap (Room(a) \cup HoleSet) = {}
      BY <1>4 DEF Held
    <3> QED BY ONLY Endless, <1>1, <1>3, <1>4, <1>5, <3>1, CommitReplaces
  <2> QED BY ONLY <1>8, <2>1
<1> DEFINE v == Held(w.hdr, w.tab)
<1>10. /\ Sound(w.a) /\ w.a.append = FALSE
       /\ Room(w.a) = Room(a) \ v /\ v \ u \subseteq Room(a)
       /\ Limbo(w.a) = Limbo(a) \cup ({TxnOf} \X (u \ v))
  BY <1>9 DEF Replaces, Held, TxnOf
<1>11. /\ w.hdr \in [txn : {TxnOf}, root : Granules, freeOff : Granules, pendOff : Granules,
                    eof : Nat, count : {count}]
       /\ w.count = count
       /\ Reads(w.disk, w.hdr) /\ w.disk[w.hdr.root].tab = w.tab /\ Load(w.disk, w.hdr) = w.a
       /\ Stored(w.disk, w.tab) /\ Lists(w.hdr) \cap Span(w.tab) = {}
       /\ \A p \in Pages : /\ w.tab[p] = Absent <=> tab[p] = Absent
                           /\ ValAt(w.disk, w.tab[p]) = ValAt(disk, tab[p])
       /\ \A g \in Granules \ (Room(a) \cup HoleSet) : w.disk[g] = disk[g]
  BY <1>9 DEF Replaces, TxnOf
<1>12. DOMAIN w.disk = Granules
  BY ONLY <1>8 DEF Renewed, Laid
<1> HIDE DEF u, v
<1>13. Ledger(w.a, v) /\ (Full(a, u) => Full(w.a, v))
  <2>1. Room(w.a) \subseteq Room(a) /\ v \subseteq u \cup Room(a) /\ v \cap Room(w.a) = {}
    BY <1>10
  <2>2. Room(a) \ Room(w.a) \subseteq v
    BY <1>10
  <2> DEFINE b == w.a
  <2>3. /\ Ledger(a, u) /\ Sound(b) /\ Room(b) \subseteq Room(a) /\ v \subseteq u \cup Room(a)
        /\ v \cap Room(b) = {} /\ u \subseteq Granules
        /\ Limbo(b) = Limbo(a) \cup ({TxnOf} \X (u \ v)) /\ Room(a) \ Room(b) \subseteq v
    BY <1>1, <1>3, <1>10, <2>1, <2>2 DEF u
  <2> HIDE DEF b
  <2>4. Ledger(b, v) /\ (Full(a, u) => Full(b, v))
    BY ONLY Endless, <2>3, LedgerStep
  <2> QED BY <2>4 DEF b
<1>14. leaky \/ Full(w.a, v)
  BY <1>3, <1>13 DEF IInv, WorkInv, u
<1>15. w.hdr \in HdrRec /\ w.hdr.txn = TxnOf /\ w.hdr.count = count
  BY <1>1, <1>11 DEF HdrRec, Mapped, TxnOf
<1>16. Mapped(w.disk, w.hdr, w.tab, count)
  BY <1>1, <1>11 DEF Mapped
<1>17. Gen(w.disk, w.hdr, leaky)
  BY <1>10, <1>11, <1>13, <1>14, <1>15, <1>16, GenOf DEF v
<1>18. Room(a) \cap Kept = {}
  <2>1. Old \cap Room(alloc) = {} /\ \A x \in Limbo(alloc) : x[2] \in Old => x[1] > hdr.txn
    BY DEF IInv, WorkInv
  <2>2. \A x \in Limbo(alloc) : x[1] \in Nat
    BY <1>1, LimboIsPending
  <2>3. Kept = Old
    BY DEF Kept, KeptOf, Old
  <2> QED BY <1>1, <1>3, <2>1, <2>2, <2>3
<1>19. MadeCount = count /\ Made = tab
  BY DEF MadeCount, Made
<1> QED BY <1>11, <1>12, <1>15, <1>17, <1>18, <1>19 DEF Built, a

LEMMA ChunkCountIs ==
  ASSUME NEW r, r.count \in -1 .. NPages
  PROVE  /\ ChunkCount(r) \in 0 .. NPages
         /\ r.count >= 0 => ChunkCount(r) = r.count
         /\ ~(r.count >= 0) => \A p \in Placed(r.tab) : p <= ChunkCount(r)
<1>1. CASE r.count >= 0
  BY <1>1, PagesAssumption DEF ChunkCount
<1>2. CASE ~(r.count >= 0)
  <2> DEFINE S == Placed(r.tab)
             T == {k \in Nat : \A p \in S : p <= k}
  <2>1. S \subseteq Nat /\ \A p \in S : 1 <= p /\ p <= NPages
    BY PagesAssumption DEF Placed, Pages
  <2> HIDE DEF S
  <2>2. NPages \in T
    BY <2>1, PagesAssumption
  <2>3. PICK k \in T : \A j \in T : k <= j
    BY <2>2, NatMin
  <2>4. k = 0 \/ k \in S
    <3>1. SUFFICES ASSUME k # 0, k \notin S PROVE FALSE
      OBVIOUS
    <3>2. k - 1 \in T
      BY <2>1, <2>3, <3>1
    <3> QED BY <2>3, <3>2
  <2>5. k \in 0 .. NPages /\ \A p \in S : p <= k
    BY <2>2, <2>3, PagesAssumption
  <2> DEFINE P(n) == (n = 0 \/ n \in S) /\ \A p \in S : p <= n
  <2>6. \E n \in 0 .. NPages : P(n)
    BY <2>4, <2>5
  <2>7. ChunkCount(r) = CHOOSE n \in 0 .. NPages : P(n)
    BY <1>2 DEF ChunkCount, S
  <2> HIDE DEF P
  <2>8. ChunkCount(r) \in 0 .. NPages /\ P(ChunkCount(r))
    BY ONLY <2>6, <2>7
  <2> QED BY <1>2, <2>8 DEF P, S
<1> QED BY <1>1, <1>2

\* zalloc_reset_span: all that was below the stream is in limbo, under one number.
Resets(b, a, base, txn) == b = [ResetSpan(a, 1, base, a.eof, txn) EXCEPT !.append = FALSE]

LEMMA ResetIs ==
  ASSUME Endless, NEW a, Sound(a), NEW base \in Nat \ {0}, base <= a.eof, NEW txn \in Nat,
         NEW u, u \subseteq Granules, u \cap (Room(a) \cup HoleSet) = {}, \A g \in u : base <= g,
         NEW b, Resets(b, a, base, txn)
  PROVE  /\ Ledger(b, u) /\ b.append = FALSE /\ Room(b) \subseteq Room(a) /\ b.eof = a.eof
         /\ \A x \in Limbo(b) : x[1] = txn
         /\ (u = (base .. a.eof - 1) \ HoleSet) => Full(b, u)
<1> DEFINE span == Ext(1, base - 1) \ HoleSet
           pend == IF span = {} THEN [t \in {} |-> {}] ELSE [t \in {txn} |-> span]
<1>1. \A g : g \in span <=> g \in Nat /\ 1 <= g /\ g < base /\ g \notin HoleSet
  <2>1. base \in Nat \ {0}
    OBVIOUS
  <2> QED BY ONLY <2>1 DEF Ext
<1>2. a \in AllocRec /\ a.eof \in Nat /\ 1 <= a.eof
  BY DEF Sound, AllocRec
<1> HIDE DEF span
<1>3. pend \in UNION {[T -> SUBSET Nat] : T \in SUBSET Nat}
  <2>1. CASE span = {}
    <3>1. {} \in SUBSET Nat /\ pend \in [{} -> SUBSET Nat]
      BY <2>1
    <3> HIDE DEF pend
    <3> QED BY <3>1
  <2>2. CASE span # {}
    <3>1. {txn} \in SUBSET Nat /\ pend \in [{txn} -> SUBSET Nat]
      BY <1>1, <2>2
    <3> HIDE DEF pend
    <3> QED BY <3>1
  <2> QED BY <2>1, <2>2
<1>4. \A t \in DOMAIN pend : t = txn /\ pend[t] = span
  OBVIOUS
<1>5. span # {} => txn \in DOMAIN pend
  OBVIOUS
<1>6. b = [[[[a EXCEPT !.free = {}] EXCEPT !.eof = a.eof] EXCEPT !.pend = pend] EXCEPT !.append = FALSE]
  BY DEF Resets, ResetSpan, span
<1> HIDE DEF pend
<1>7. b \in AllocRec /\ b.free = {} /\ b.eof = a.eof /\ b.pend = pend /\ b.append = FALSE
  BY <1>2, <1>3, <1>6 DEF AllocRec
<1>8. Sound(b)
  BY <1>7 DEF Sound
<1>9. \A g : g \in Room(b) <=> g \in Nat /\ a.eof <= g /\ g \notin HoleSet
  BY <1>7 DEF Room
<1>10. Room(b) \subseteq Room(a)
  BY <1>9 DEF Room
<1>11. \A x \in Limbo(b) : x[1] = txn /\ x = <<txn, x[2]>> /\ x[2] \in span
  <2>1. \A x : x \in Limbo(b) <=> \E t \in DOMAIN b.pend : \E g \in b.pend[t] : x = <<t, g>>
    BY ONLY InLimbo
  <2>2. ASSUME NEW x \in Limbo(b) PROVE x[1] = txn /\ x = <<txn, x[2]>> /\ x[2] \in span
    <3>1. PICK t \in DOMAIN pend : \E g \in pend[t] : x = <<t, g>>
      BY ONLY <1>7, <2>1, <2>2
    <3>2. PICK g \in pend[t] : x = <<t, g>>
      BY ONLY <3>1
    <3> QED BY ONLY <1>4, <3>1, <3>2
  <2> QED BY ONLY <2>2
<1>12. Pending(b) = span
  <2>1. \A g : g \in Pending(b) <=> \E t \in DOMAIN pend : g \in pend[t]
    BY <1>7 DEF Pending
  <2> QED BY <1>4, <1>5, <2>1
<1>13. Ledger(b, u)
  <2>1. u \cap (Room(b) \cup HoleSet) = {}
    BY <1>10
  <2>2. ASSUME NEW g \in span PROVE g \in Granules /\ g \notin u /\ g \notin Room(b) /\ g \notin HoleSet
    <3>1. g \in Nat /\ 1 <= g /\ g < base /\ g \notin HoleSet
      BY ONLY <1>1, <2>2
    <3>2. base \in Nat /\ base <= a.eof /\ a.eof \in Nat /\ (\A k \in u : base <= k) /\ Granules = Nat \ {0}
      BY <1>2 DEF Endless
    <3> QED BY ONLY <1>9, <3>1, <3>2
  <2>3. \A x, y \in Limbo(b) : x[2] = y[2] => x = y
    BY <1>11
  <2> QED BY <1>8, <1>12, <2>1, <2>2, <2>3 DEF Ledger
<1>14. ASSUME u = (base .. a.eof - 1) \ HoleSet PROVE Full(b, u)
  <2>1. ASSUME NEW g \in Granules PROVE g \in u \cup Room(b) \cup Pending(b) \cup HoleSet
    <3>1. g \in Nat /\ 1 <= g /\ base \in Nat /\ a.eof \in Nat
      BY <1>2 DEF Endless
    <3>2. g \in HoleSet \/ g < base \/ a.eof <= g \/ (g \in base .. a.eof - 1 /\ g \notin HoleSet)
      BY ONLY <3>1
    <3> QED BY ONLY <1>1, <1>9, <1>12, <1>14, <3>1, <3>2
  <2> QED BY <2>1 DEF Full
<1> QED BY <1>7, <1>10, <1>11, <1>13, <1>14

\* LaidIs, of a record.
IsLaid(w, c, a, n, t, txn) ==
  LET lists == {w.hdr.root, w.hdr.freeOff, w.hdr.pendOff}
  IN  /\ Sound(w.a) /\ w.a.append = FALSE /\ Limbo(w.a) = Limbo(a)
      /\ lists \subseteq Room(a) /\ Room(w.a) = Room(a) \ lists
      /\ w.tab = t /\ w.count = n /\ w.hdr.txn = txn /\ w.hdr.count = n
      /\ Reads(w.disk, w.hdr) /\ w.disk[w.hdr.root].tab = t /\ Load(w.disk, w.hdr) = w.a
      /\ \A g \in Granules : g \notin Room(a) /\ g \notin HoleSet => w.disk[g] = c.disk[g]
      /\ w.hdr \in [txn : {txn}, root : Granules, freeOff : Granules, pendOff : Granules,
                    eof : Nat, count : {n}]

LEMMA LaidOne ==
  ASSUME Endless, NEW c, NEW a, Sound(a), a.append = FALSE, NEW n, NEW t, NEW txn
  PROVE  IsLaid(Laid(c, Placement(a), n, t, txn), c, a, n, t, txn)
<1> DEFINE v     == Laid(c, Placement(a), n, t, txn)
           lists == {v.hdr.root, v.hdr.freeOff, v.hdr.pendOff}
<1>1. Sound(a) /\ a.append = FALSE
  OBVIOUS
<1>2. /\ Sound(v.a) /\ v.a.append = FALSE /\ Limbo(v.a) = Limbo(a)
      /\ lists \subseteq Room(a) /\ Room(v.a) = Room(a) \ lists
      /\ v.tab = t /\ v.count = n /\ v.hdr.txn = txn /\ v.hdr.count = n
      /\ v.hdr.eof = v.a.eof
      /\ Reads(v.disk, v.hdr) /\ v.disk[v.hdr.root].tab = t /\ Load(v.disk, v.hdr) = v.a
      /\ \A g \in Granules : g \notin Room(a) /\ g \notin HoleSet => v.disk[g] = c.disk[g]
      /\ v.hdr \in [txn : {txn}, root : Granules, freeOff : Granules, pendOff : Granules,
                    eof : Nat, count : {n}]
  BY ONLY Endless, <1>1, LaidIs
<1> HIDE DEF v
<1>3. IsLaid(v, c, a, n, t, txn)
  BY ONLY <1>2 DEF IsLaid
<1> QED BY ONLY <1>3 DEF v

LEMMA RebuildBuilds ==
  ASSUME Endless, IInv, pc = "idle", rb.on, NEW gate \in BOOLEAN,
         NEW w, w = Committed(Moved(Opened(gate))), NEW l \in BOOLEAN, ~StreamLoses \/ l
  PROVE  Built(w, Room(Opened(gate)), l)
<1> DEFINE n == ChunkCount(rb)
           S == {p \in Pages : p > n}
           t == Without(rb.tab, S)
           u == Span(t)
           z == [ResetSpan(alloc, 1, rb.base, alloc.eof, TxnOf) EXCEPT !.append = FALSE]
           a == Opened(gate)
           c == [a |-> a, disk |-> disk, tab |-> rb.tab, moved |-> 0]
<1>1. /\ rb.base \in Nat \ {0} /\ rb.base <= alloc.eof
      /\ Stored(disk, rb.tab) /\ Span(rb.tab) \cap (Room(alloc) \cup HoleSet) = {}
      /\ \A g \in Span(rb.tab) : rb.base <= g
      /\ rb \in StreamRec
  BY DEF IInv, StreamInv
<1>2. n \in 0 .. NPages
  BY <1>1, ChunkCountIs DEF StreamRec
<1>3. /\ hdr \in HdrRec \cup {ZeroHdr} /\ hdr.txn \in Nat /\ Sound(alloc) /\ TxnOf \in Nat
      /\ TxnOf > hdr.txn
  BY AtWork DEF TxnOf
<1>4. /\ Stored(disk, t) /\ u \subseteq Span(rb.tab)
      /\ \A p \in Pages : t[p] = IF p \in S THEN Absent ELSE rb.tab[p]
  BY <1>1, DropPages
<1>5. u \subseteq Granules /\ u \cap (Room(alloc) \cup HoleSet) = {} /\ \A g \in u : rb.base <= g
  <2> HIDE DEF t
  <2> QED BY <1>1, <1>4, SpanIsNat DEF Endless
<1>6. ~StreamLoses => u = (rb.base .. alloc.eof - 1) \ HoleSet
  <2>1. \A g : g \in u <=> \E p \in Pages : g \in Ext(t[p].off, t[p].len)
    BY InSpan
  <2>2. Ext(Absent.off, Absent.len) = {}
    BY DEF Absent, Ext
  <2>3. \A p : p \in 1 .. n <=> p \in Pages \ S
    BY <1>2, PagesAssumption DEF Pages
  <2>4. \A g : g \in u <=> \E p \in 1 .. n : g \in Ext(rb.tab[p].off, rb.tab[p].len)
    <3> HIDE DEF S, t, n, u
    <3> QED BY <1>4, <2>1, <2>2, <2>3
  <2>5. u = UNION {Ext(rb.tab[p].off, rb.tab[p].len) : p \in 1 .. n}
    <3> HIDE DEF u, n
    <3> QED BY <2>4
  <2> HIDE DEF u
  <2> QED BY <2>5 DEF StreamLoses
<1> HIDE DEF n, t, S, u
<1>7. /\ Ledger(z, u) /\ z.append = FALSE /\ Room(z) \subseteq Room(alloc)
      /\ \A x \in Limbo(z) : x[1] = TxnOf
      /\ ~StreamLoses => Full(z, u)
  <2> HIDE DEF z
  <2>1. Resets(z, alloc, rb.base, TxnOf)
    BY DEF z, Resets
  <2> DEFINE base == rb.base
             txn  == TxnOf
  <2>2. /\ Sound(alloc) /\ base \in Nat \ {0} /\ base <= alloc.eof /\ txn \in Nat
        /\ u \subseteq Granules /\ u \cap (Room(alloc) \cup HoleSet) = {} /\ \A g \in u : base <= g
        /\ Resets(z, alloc, base, txn)
    BY <1>1, <1>3, <1>5, <2>1
  <2> HIDE DEF base, txn
  <2>3. /\ Ledger(z, u) /\ z.append = FALSE /\ Room(z) \subseteq Room(alloc) /\ z.eof = alloc.eof
        /\ \A x \in Limbo(z) : x[1] = txn
        /\ (u = (base .. alloc.eof - 1) \ HoleSet) => Full(z, u)
    BY ONLY Endless, <2>2, ResetIs
  <2> QED BY <1>6, <2>3 DEF base, txn
<1> HIDE DEF z
<1>8. a = Trim(IF gate THEN Release(z, hdr.txn) ELSE z)
  BY DEF Opened, z
<1>9. /\ Ledger(a, u) /\ a.append = FALSE /\ (Full(z, u) => Full(a, u))
      /\ \A g \in Room(a) : g \in Room(z) \/ \E x \in Limbo(z) : x[2] = g /\ x[1] <= hdr.txn
  <2> HIDE DEF a
  <2> DEFINE upto == hdr.txn
  <2>1. /\ Ledger(z, u) /\ u \subseteq Granules /\ upto \in Nat /\ gate \in BOOLEAN
        /\ Opens(a, z, upto, gate)
    BY <1>3, <1>5, <1>7, <1>8 DEF Opens
  <2> HIDE DEF upto
  <2>2. IsOpened(a, z, u, upto)
    BY ONLY Endless, <2>1, LedgerOpened
  <2> QED BY <1>7, <2>2 DEF IsOpened, upto
<1> HIDE DEF a
<1>10. Room(a) \subseteq Room(alloc)
  BY <1>3, <1>7, <1>9
<1>11. Sound(a) /\ u \cap (Room(a) \cup HoleSet) = {}
  BY <1>9 DEF Ledger
<1>12. w = Laid(c, Placement(a), n, t, TxnOf)
  <2>1. Moved(a) = c
    BY DEF Moved
  <2>2. c.tab = rb.tab /\ c.a = a
    OBVIOUS
  <2>3. t = [p \in Pages |-> IF p <= n THEN rb.tab[p] ELSE Absent]
    <3>1. n \in Nat /\ \A p \in Pages : p \in Nat
      BY <1>2 DEF Pages
    <3>2. \A p \in Pages : p \in S <=> ~(p <= n)
      BY <3>1 DEF S
    <3> QED BY <3>2 DEF t, Without
  <2> HIDE DEF c
  <2> QED BY <2>1, <2>2, <2>3 DEF Committed, a, n
<1> DEFINE lists == {w.hdr.root, w.hdr.freeOff, w.hdr.pendOff}
           v     == lists \cup u
<1> HIDE DEF c
<1>13. /\ Sound(w.a) /\ w.a.append = FALSE /\ Limbo(w.a) = Limbo(a)
       /\ lists \subseteq Room(a) /\ Room(w.a) = Room(a) \ lists
       /\ w.tab = t /\ w.count = n /\ w.hdr.txn = TxnOf /\ w.hdr.count = n
       /\ Reads(w.disk, w.hdr) /\ w.disk[w.hdr.root].tab = t /\ Load(w.disk, w.hdr) = w.a
       /\ \A g \in Granules : g \notin Room(a) /\ g \notin HoleSet => w.disk[g] = c.disk[g]
       /\ w.hdr \in [txn : {TxnOf}, root : Granules, freeOff : Granules, pendOff : Granules,
                     eof : Nat, count : {n}]
  <2> DEFINE txn == TxnOf
  <2> HIDE DEF lists, txn
  <2>1. IsLaid(Laid(c, Placement(a), n, t, txn), c, a, n, t, txn)
    BY ONLY Endless, <1>9, <1>11, LaidOne
  <2>2. IsLaid(w, c, a, n, t, txn)
    BY ONLY <1>12, <2>1 DEF txn
  <2> QED BY <2>2 DEF IsLaid, txn, lists
<1>14. \A g \in Granules \ (Room(a) \cup HoleSet) : w.disk[g] = disk[g]
  BY <1>13 DEF c
<1>15. DOMAIN w.disk = Granules
  BY <1>12 DEF Laid
<1>16. w.hdr \in HdrRec /\ Held(w.hdr, t) = v /\ Lists(w.hdr) = lists
  <2>1. w.hdr \in HdrRec
    BY <1>2, <1>3, <1>13 DEF HdrRec
  <2> QED BY <2>1, <1>3, <1>13 DEF Held, Lists, u
<1> HIDE DEF lists
<1>17. Ledger(w.a, v) /\ (Full(a, u) => Full(w.a, v))
  <2>1. Limbo(w.a) = Limbo(a) \cup ({TxnOf} \X (u \ v))
    <3>1. u \subseteq v
      OBVIOUS
    <3> HIDE DEF v
    <3> QED BY <1>13, <3>1, NoProduct
  <2>2. Room(w.a) \subseteq Room(a) /\ v \subseteq u \cup Room(a) /\ v \cap Room(w.a) = {}
    BY <1>11, <1>13
  <2>3. Room(a) \ Room(w.a) \subseteq v
    BY <1>13
  <2> DEFINE b   == w.a
             txn == TxnOf
  <2>4. /\ Ledger(a, u) /\ u \subseteq Granules /\ Sound(b) /\ Room(b) \subseteq Room(a)
        /\ v \subseteq u \cup Room(a) /\ v \cap Room(b) = {} /\ Room(a) \ Room(b) \subseteq v
        /\ Limbo(b) = Limbo(a) \cup ({txn} \X (u \ v))
    BY <1>5, <1>9, <1>13, <2>1, <2>2, <2>3
  <2> HIDE DEF v, b, txn
  <2>5. Ledger(b, v) /\ (Full(a, u) => Full(b, v))
    BY ONLY Endless, <2>4, LedgerStep
  <2> QED BY <2>5 DEF b
<1>18. l \/ Full(w.a, v)
  BY <1>7, <1>9, <1>17
<1>19. Stored(w.disk, t) /\ \A p \in Pages : ValAt(w.disk, t[p]) = ValAt(disk, t[p])
  <2>1. \A g \in Span(t) : w.disk[g] = disk[g]
    BY <1>5, <1>11, <1>14 DEF u
  <2> QED BY ONLY <1>4, <2>1, StoredFrame
<1>20. Mapped(w.disk, w.hdr, t, n)
  <2>1. Lists(w.hdr) \cap Span(t) = {}
    BY <1>11, <1>13, <1>16 DEF u
  <2>2. \A p \in Pages : p > n => t[p] = Absent
    BY <1>4 DEF S
  <2> QED BY <1>2, <1>19, <2>1, <2>2 DEF Mapped
<1>21. Gen(w.disk, w.hdr, l)
  BY <1>13, <1>16, <1>17, <1>18, <1>20, GenOf
<1>22. Room(a) \cap Kept = {}
  BY <1>10, KeptApart
<1>23. MadeCount = n /\ Made = t
  BY DEF MadeCount, Made, n, t, S
<1> QED BY <1>13, <1>14, <1>15, <1>16, <1>19, <1>21, <1>22, <1>23 DEF Built, a

LEMMA PrepareKeeps ==
  ASSUME Endless, IInv, NEW gate \in BOOLEAN, SyncDirty(gate) \/ (PackPass /\ gate = TRUE)
  PROVE  /\ IInv' /\ count' = MadeCount
         /\ \A p \in Pages : ValAt(disk', tab'[p]) = ValAt(disk, Made[p])
<1>1. /\ pc \in {"idle", "pack"} /\ Prepare(gate) /\ (pc = "idle" => dirty)
  BY DEF SyncDirty, PackPass
<1>2. PICK w : /\ w = Committed(Moved(Opened(gate)))
               /\ disk' = w.disk /\ alloc' = w.a /\ tab' = w.tab /\ count' = w.count
               /\ cm' = [hdr |-> w.hdr, gate |-> gate, moved |-> w.moved, before |-> alloc.eof]
  BY <1>1 DEF Prepare
<1>3. /\ pc' = "written" /\ leaky' = (leaky \/ (rb.on /\ StreamLoses))
      /\ UNCHANGED <<dur, slot, slotDur, mode, hdr, which, dirty, rb, clock>>
  BY <1>1 DEF Prepare
<1>4. leaky \in BOOLEAN /\ rb.on \in BOOLEAN /\ mode \in {"plain", "container"}
  BY <1>1, AtWork DEF IInv, KeptInv
<1>5. mode = "plain" => rb.on
  BY <1>1, <1>4 DEF IInv, WorkInv
<1>6. Built(w, Room(Opened(gate)), leaky')
  <2>1. CASE rb.on
    <3>1. pc = "idle"
      BY <1>1, <2>1 DEF IInv, WorkInv
    <3>2. leaky' \in BOOLEAN /\ (~StreamLoses \/ leaky')
      BY <1>3, <1>4, <2>1
    <3> QED BY <1>2, <2>1, <3>1, <3>2, RebuildBuilds
  <2>2. CASE ~rb.on
    <3>1. leaky' = leaky
      BY <1>3, <1>4, <2>2
    <3>2. Built(w, Room(Opened(gate)), leaky)
      BY <1>1, <1>2, <1>4, <1>5, <2>2, CommitBuilds
    <3> QED BY <3>1, <3>2
  <2> QED BY <2>1, <2>2
<1>7. leaky' \in BOOLEAN /\ (leaky => leaky')
  BY <1>3, <1>4
<1>8. cm'.hdr = w.hdr
  BY <1>2
<1>9. IInv'
  BY <1>1, <1>2, <1>3, <1>5, <1>6, <1>7, <1>8, BuiltKeeps
<1> QED BY <1>2, <1>6, <1>9 DEF Built

----------------------------------------------------------------------------
(* The invariant *)

LEMMA InitHolds ==
  ASSUME Endless, Init
  PROVE  IInv
<1>1. /\ mode \in {"plain", "container"} /\ dur = disk /\ slotDur = slot
      /\ disk = [g \in Granules |-> IF mode = "plain" /\ g < PlainEof THEN PlainBytes ELSE Blank]
      /\ slot = [i \in {0, 1} |-> IF mode = "plain" THEN PlainHdr ELSE ZeroHdr]
      /\ hdr = ZeroHdr /\ which = -1 /\ tab = Empty /\ count = 0 /\ alloc = NewAlloc
      /\ dirty = FALSE /\ rb = NoRebuild /\ pc = "idle" /\ leaky = FALSE /\ clock = 0
  BY DEF Init
<1>2. rb.on = FALSE
  BY <1>1 DEF NoRebuild
<1>3. TabOf(disk, hdr) = Empty /\ AllocOf(disk, hdr) = NewAlloc /\ Held(hdr, Empty) = {}
      /\ hdr.count = 0 /\ hdr.txn = 0
  BY <1>1, HdrIs, EmptySpan DEF TabOf, AllocOf, Held, ZeroHdr
<1>4. Mapped(disk, hdr, Empty, 0)
  <2>1. Stored(disk, Empty) /\ Span(Empty) = {} /\ (\A p \in Pages : Empty[p] = Absent)
    BY EmptySpan
  <2> QED BY <2>1, PagesAssumption DEF Mapped
<1>5. Ledger(NewAlloc, {}) /\ Full(NewAlloc, {}) /\ Limbo(NewAlloc) = {} /\ NewAlloc.append = FALSE
  BY NewAllocIs
<1>6. Gen(disk, hdr, leaky)
  BY <1>1, <1>3, <1>4, <1>5 DEF Gen
<1>7. mode = "plain" => PlainKept(disk)
  BY <1>1, SizeAssumption DEF PlainKept, Endless
<1>8. AtRest(slot, hdr, which, mode)
  BY <1>1 DEF AtRest, HdrAll
<1>9. KeptInv
  BY <1>1, <1>2, <1>6, <1>7 DEF KeptInv, Sits
<1>10. SlotInv
  BY <1>1, <1>8 DEF SlotInv
<1>11. WorkInv
  <2>1. Old = {}
    BY <1>3 DEF Old
  <2> QED BY <1>1, <1>2, <1>3, <1>4, <1>5, <2>1 DEF WorkInv
<1> QED BY <1>1, <1>2, <1>9, <1>10, <1>11 DEF IInv, StreamInv, CommitInv

LEMMA StutterKeeps ==
  ASSUME IInv, UNCHANGED vars
  PROVE  IInv'
<1>1. UNCHANGED <<disk, dur, slot, slotDur, mode, hdr, which, tab, count, alloc, dirty, rb, pc,
                  cm, leaky, clock>>
  BY DEF vars
<1> QED BY <1>1 DEF IInv, KeptInv, SlotInv, WorkInv, StreamInv, CommitInv, Kept, Old, Target, TxnOf

LEMMA StepKeeps ==
  ASSUME Endless, Journaled, IInv, [Next]_vars
  PROVE  IInv'
<1>1. CASE UNCHANGED vars
  BY <1>1, StutterKeeps
<1>2. ASSUME NEW p \in Pages, WritePage(p) \/ WriteFails(p) \/ RebuildWrite(p) PROVE IInv'
  BY <1>2, WritePageKeeps, WriteFailsKeeps, RebuildWriteKeeps
<1>3. ASSUME NEW n \in 0 .. NPages - 1, Truncate(n) PROVE IInv'
  BY <1>3, TruncateKeeps
<1>4. ASSUME NEW n \in Pages, RebuildTruncate(n) PROVE IInv'
  BY <1>4, RebuildTruncateKeeps
<1>5. ASSUME NEW g \in BOOLEAN, SyncDirty(g) \/ WalkFails(g) PROVE IInv'
  BY <1>5, PrepareKeeps, PrepareFailsKeeps
<1>6. CASE PackPass
  BY <1>6, PrepareKeeps
<1>7. CASE BeginOverwrite \/ RebuildAbandon
  BY <1>7, BeginOverwriteKeeps, RebuildAbandonKeeps
<1>8. CASE SyncClean \/ Barrier \/ SecondCopy \/ Land
  BY <1>8, SyncCleanKeeps, BarrierKeeps, SecondCopyKeeps, LandKeeps
<1>9. CASE PrepareFails \/ HeaderWriteFails \/ FlipFails \/ Crash
  BY <1>9, PrepareFailsKeeps, HeaderWriteFailsKeeps, FlipFailsKeeps, CrashKeeps
<1> QED BY <1>1, <1>2, <1>3, <1>4, <1>5, <1>6, <1>7, <1>8, <1>9 DEF Next

\* One whole generation is on the disk at every moment, and the granules are accounted for.
THEOREM WholeGeneration ==
  ASSUME Endless, Journaled
  PROVE  Spec => []IInv
<1>1. Init => IInv
  BY InitHolds
<1>2. IInv /\ [Next]_vars => IInv'
  BY StepKeeps
<1> QED BY <1>1, <1>2, PTL DEF Spec

LEMMA TypeFollows ==
  ASSUME Endless, IInv
  PROVE  TypeOK
<1>1. /\ DOMAIN disk = Granules /\ DOMAIN dur = Granules /\ dirty \in BOOLEAN /\ rb.on \in BOOLEAN
      /\ pc \in {"idle", "written", "copied", "flipped", "pack"}
  BY DEF IInv, KeptInv
<1>2. \A i \in {0, 1} : slot[i].txn >= -2 /\ slotDur[i].txn >= -2
  <2>1. slot \in [{0, 1} -> HdrAll] /\ slotDur \in [{0, 1} -> HdrAll]
    BY <1>1, CommitIs, SlotType DEF IInv
  <2>2. \A x \in HdrAll : x.txn >= -2
    BY DEF HdrAll, HdrRec, ZeroHdr, TornHdr, PlainHdr
  <2> QED BY <2>1, <2>2
<1>3. mode \in {"plain", "container"} /\ which \in {-1, 0, 1}
  <2>1. CASE pc \in {"idle", "pack", "written", "copied"}
    <3>1. AtRest(slot, hdr, which, mode) \/ AtRest(slotDur, hdr, which, mode)
      BY <2>1 DEF IInv, SlotInv
    <3> QED BY <3>1, AtRestIs
  <2>2. CASE pc = "flipped"
    <3>1. AtRest(slotDur, hdr, which, mode) \/ (mode = "plain" /\ which = -1)
      BY <2>2 DEF IInv, SlotInv
    <3> QED BY <3>1, AtRestIs
  <2> QED BY <1>1, <2>1, <2>2
<1>4. Stored(disk, tab) /\ count \in 0 .. NPages /\ Sound(alloc)
  <2>1. CASE pc \in {"idle", "pack"}
    BY <2>1, AtWork DEF Mapped
  <2>2. CASE pc \in {"written", "copied", "flipped"}
    <3>1. /\ Gen(disk, cm.hdr, leaky) /\ cm.hdr \in HdrRec /\ tab = TabOf(disk, cm.hdr)
          /\ count = cm.hdr.count /\ alloc = Load(disk, cm.hdr)
      BY <2>2, CommitIs DEF IInv, CommitInv, Ahead
    <3>2. Mapped(disk, cm.hdr, tab, count) /\ Ledger(alloc, Held(cm.hdr, tab))
      BY <3>1, HdrIs DEF Gen, AllocOf
    <3> QED BY <3>2 DEF Mapped, Ledger
  <2> QED BY <1>1, <2>1, <2>2
<1>5. tab \in [Pages -> [off : {0} \cup Granules, len : Nat]]
  BY <1>4 DEF Stored, Endless
<1>6. alloc.free \subseteq Granules /\ alloc.eof >= 1 /\ 1 .. alloc.eof - 1 \subseteq Granules
  BY <1>4 DEF Sound, AllocRec, Endless
<1> QED BY <1>1, <1>2, <1>3, <1>4, <1>5, <1>6 DEF TypeOK

\* Every variable keeps its type.
THEOREM TypeHolds ==
  ASSUME Endless, Journaled
  PROVE  Spec => []TypeOK
<1>1. IInv => TypeOK
  BY TypeFollows
<1> QED BY <1>1, WholeGeneration, PTL

\* zctr_write, zctr_truncate, the commit, the compaction and the rebuild hand out no granule
\* twice and, but for what a rebuild leaves behind, lose none.
THEOREM SpaceHolds ==
  ASSUME Endless, Journaled
  PROVE  Spec => []SpaceIsAccounted
<1>1. IInv => SpaceIsAccounted
  <2> SUFFICES ASSUME IInv, pc \in {"idle", "pack"}, mode = "container", ~rb.on
               PROVE  LET used == Named(hdr, tab) \ {0}
                          held == used \cup alloc.free \cup Pending(alloc)
                      IN  /\ used \cap (alloc.free \cup Pending(alloc)) = {}
                          /\ alloc.free \cap Pending(alloc) = {}
                          /\ held \subseteq 1 .. alloc.eof - 1 /\ held \cap HoleSet = {}
                          /\ ~leaky => 1 .. alloc.eof - 1 \subseteq held \cup HoleSet
    BY DEF SpaceIsAccounted
  <2> DEFINE u == Held(hdr, tab)
  <2>1. /\ hdr \in HdrRec \cup {ZeroHdr} /\ Ledger(alloc, u) /\ Span(tab) \subseteq Granules
        /\ Sound(alloc) /\ u \subseteq Granules
    BY AtWork DEF Held
  <2>2. Named(hdr, tab) \ {0} = u
    <3>1. CASE hdr = ZeroHdr
      <4>1. Named(hdr, tab) = {0} \cup Span(tab)
        BY <3>1 DEF Named, ZeroHdr
      <4> QED BY <2>1, <3>1, <4>1, HdrIs DEF Held, Endless
    <3>2. CASE hdr \in HdrRec
      <4>1. Named(hdr, tab) = Lists(hdr) \cup Span(tab)
        BY <2>1, <3>2, HdrAllIs, HdrIs DEF Named
      <4> QED BY <2>1, <4>1 DEF Held, Endless
    <3> QED BY <2>1, <3>1, <3>2
  <2> HIDE DEF u
  <2>3. /\ \A g \in Pending(alloc) : 1 <= g /\ g < alloc.eof /\ g \notin HoleSet
        /\ \A g \in u : 1 <= g /\ g < alloc.eof /\ g \notin HoleSet
        /\ Pending(alloc) \subseteq Nat /\ u \subseteq Nat
    BY <2>1, LedgerBelowEof DEF Ledger, Endless
  <2>4. /\ alloc.free \subseteq Nat /\ alloc.eof \in Nat /\ alloc.free \subseteq Room(alloc)
        /\ \A g \in alloc.free : 1 <= g /\ g < alloc.eof /\ g \notin HoleSet
    BY <2>1 DEF Sound, AllocRec, Room
  <2>5. u \cap Room(alloc) = {} /\ Pending(alloc) \cap (u \cup Room(alloc)) = {}
    BY <2>1 DEF Ledger
  <2>6. ASSUME ~leaky, NEW g \in 1 .. alloc.eof - 1
        PROVE  g \in u \cup alloc.free \cup Pending(alloc) \cup HoleSet
    <3>1. Full(alloc, u)
      BY <2>6 DEF IInv, WorkInv, u
    <3>2. g \in Granules /\ ~(alloc.eof <= g)
      BY <2>4 DEF Endless
    <3> QED BY <3>1, <3>2 DEF Full, Room
  <2> DEFINE held == u \cup alloc.free \cup Pending(alloc)
  <2>7. \A g \in held : g \in Nat /\ 1 <= g /\ g < alloc.eof /\ g \notin HoleSet
    BY <2>3, <2>4
  <2>8. u \cap (alloc.free \cup Pending(alloc)) = {} /\ alloc.free \cap Pending(alloc) = {}
    BY <2>4, <2>5
  <2>9. ~leaky => 1 .. alloc.eof - 1 \subseteq held \cup HoleSet
    BY <2>6
  <2> HIDE DEF held
  <2>10. held \subseteq 1 .. alloc.eof - 1 /\ held \cap HoleSet = {}
    BY <2>4, <2>7
  <2> QED BY <2>2, <2>8, <2>9, <2>10 DEF held
<1> QED BY <1>1, WholeGeneration, PTL

----------------------------------------------------------------------------
(* What the file holds, and what a crash can make of it *)

ImageOf(d, t, n) == Image(n, [p \in Pages |-> ValAt(d, t[p])])

\* The image of a generation, or of the plain database.
Hold(d, h, m) == IF m = "plain" THEN PlainImage ELSE ImageOf(d, TabOf(d, h), h.count)

\* What the stream has, of the pages that the file will have.
StreamAgrees ==
  \A p \in Pages : rb.tab[p] # Absent /\ p <= staged.count => staged.val[p] = ValAt(disk, rb.tab[p])

DataInv ==
  /\ staged \in AllImages /\ settled \in AllImages /\ clock \in 0 .. MaxWrites
  /\ settled = Hold(dur, hdr, mode)
  /\ pc \in {"idle", "pack"} /\ ~rb.on =>
       staged = IF dirty THEN ImageOf(disk, tab, count) ELSE settled
  /\ pc = "idle" /\ rb.on =>
       /\ \A p \in Pages : p > staged.count => staged.val[p] = 0
       /\ IF Placed(rb.tab) = {} THEN staged = settled
          ELSE staged.count = ChunkCount(rb) /\ StreamAgrees
  /\ pc \in {"written", "copied", "flipped"} => staged = ImageOf(disk, tab, count)

LEMMA ImageIs ==
  ASSUME NEW n, NEW v
  PROVE  /\ Image(n, v).count = n
         /\ \A p \in Pages : Image(n, v).val[p] = IF p <= n THEN v[p] ELSE 0
BY DEF Image

LEMMA ImageSame ==
  ASSUME NEW n, NEW v, NEW w, \A p \in Pages : p <= n => v[p] = w[p]
  PROVE  Image(n, v) = Image(n, w)
<1> DEFINE f == [p \in Pages |-> IF p <= n THEN v[p] ELSE 0]
           g == [p \in Pages |-> IF p <= n THEN w[p] ELSE 0]
<1>1. f = g
  OBVIOUS
<1>2. Image(n, v) = [count |-> n, val |-> f] /\ Image(n, w) = [count |-> n, val |-> g]
  BY DEF Image
<1> QED BY ONLY <1>1, <1>2

LEMMA ImageTyped ==
  ASSUME NEW n \in 0 .. NPages, NEW v, \A p \in Pages : p <= n => v[p] \in 0 .. MaxWrites + 1
  PROVE  Image(n, v) \in AllImages
<1> DEFINE f == [p \in Pages |-> IF p <= n THEN v[p] ELSE 0]
<1>1. f \in [Pages -> 0 .. MaxWrites + 1]
  BY SizeAssumption
<1>2. Image(n, v) = [count |-> n, val |-> f]
  BY DEF Image
<1> HIDE DEF f
<1> QED BY <1>1, <1>2 DEF AllImages

\* An image is its number of pages and what they hold.
LEMMA ImageWhole ==
  ASSUME NEW x \in AllImages, \A p \in Pages : p > x.count => x.val[p] = 0,
         NEW v, \A p \in Pages : p <= x.count => x.val[p] = v[p]
  PROVE  x = Image(x.count, v)
<1> DEFINE f == [p \in Pages |-> IF p <= x.count THEN v[p] ELSE 0]
<1>1. x = [count |-> x.count, val |-> x.val] /\ x.val \in [Pages -> 0 .. MaxWrites + 1]
      /\ x.count \in 0 .. NPages
  BY DEF AllImages
<1>2. \A p \in Pages : x.val[p] = IF p <= x.count THEN v[p] ELSE 0
  <2>1. \A p \in Pages : p \in Nat
    BY DEF Pages
  <2> QED BY <1>1, <2>1
<1>3. x.val = f
  BY <1>1, <1>2
<1>4. Image(x.count, v) = [count |-> x.count, val |-> f]
  BY DEF Image
<1> QED BY ONLY <1>1, <1>3, <1>4

\* Beyond the last page a map names nothing, so an image tells all.
LEMMA ImageOfIs ==
  ASSUME NEW d, NEW h, NEW t, NEW n, Mapped(d, h, t, n)
  PROVE  /\ ImageOf(d, t, n).count = n /\ n \in 0 .. NPages
         /\ \A p \in Pages : ImageOf(d, t, n).val[p] = ValAt(d, t[p])
         /\ \A p \in Pages : p > n => ImageOf(d, t, n).val[p] = 0
<1>1. n \in 0 .. NPages /\ \A p \in Pages : p > n => t[p] = Absent
  BY DEF Mapped
<1>2. \A p \in Pages : t[p] = Absent => ValAt(d, t[p]) = 0
  BY DEF ValAt
<1> DEFINE v == [p \in Pages |-> ValAt(d, t[p])]
<1>3. ImageOf(d, t, n).count = n /\ \A p \in Pages : ImageOf(d, t, n).val[p] = IF p <= n THEN v[p] ELSE 0
  BY ImageIs DEF ImageOf
<1>4. \A p \in Pages : v[p] = ValAt(d, t[p]) /\ p \in Nat
  BY DEF Pages
<1> HIDE DEF v
<1> QED BY <1>1, <1>2, <1>3, <1>4

LEMMA ImageOfSame ==
  ASSUME NEW d, NEW t, NEW n, NEW d2, NEW t2, \A p \in Pages : ValAt(d2, t2[p]) = ValAt(d, t[p])
  PROVE  ImageOf(d2, t2, n) = ImageOf(d, t, n)
<1> DEFINE v == [p \in Pages |-> ValAt(d, t[p])]
           w == [p \in Pages |-> ValAt(d2, t2[p])]
<1>1. \A p \in Pages : w[p] = v[p]
  OBVIOUS
<1>2. ImageOf(d, t, n) = Image(n, v) /\ ImageOf(d2, t2, n) = Image(n, w)
  BY DEF ImageOf
<1> HIDE DEF v, w
<1> QED BY <1>1, <1>2, ImageSame

LEMMA PlainTyped ==
  /\ PlainImage \in AllImages /\ \A p \in Pages : p > PlainImage.count => PlainImage.val[p] = 0
<1> DEFINE v == [p \in Pages |-> MaxWrites + 1]
<1>1. PlainImage = Image(1, v) /\ 1 \in 0 .. NPages /\ \A p \in Pages : v[p] \in 0 .. MaxWrites + 1
  BY PagesAssumption, SizeAssumption DEF PlainImage
<1> HIDE DEF v
<1>2. Image(1, v) \in AllImages
  BY <1>1, ImageTyped
<1>3. \A p \in Pages : Image(1, v).count = 1 /\ (p > 1 => Image(1, v).val[p] = 0)
  <2>1. \A p \in Pages : p > 1 => ~(p <= 1)
    BY DEF Pages
  <2> QED BY <2>1, ImageIs
<1> QED BY <1>1, <1>2, <1>3

\* A generation that must stay holds what it held.
LEMMA HoldFrame ==
  ASSUME Endless, NEW d, NEW h, NEW m, NEW l, Sits(d, h, m, l), NEW d2,
         \A g \in KeptOf(d, h, m) : d2[g] = d[g]
  PROVE  Hold(d2, h, m) = Hold(d, h, m)
<1>1. \A p \in Pages : ValAt(d2, TabOf(d2, h)[p]) = ValAt(d, TabOf(d, h)[p])
  BY KeptFrame
<1>2. ImageOf(d2, TabOf(d2, h), h.count) = ImageOf(d, TabOf(d, h), h.count)
  <2> DEFINE t == TabOf(d, h)
             t2 == TabOf(d2, h)
  <2>1. \A p \in Pages : ValAt(d2, t2[p]) = ValAt(d, t[p])
    BY <1>1
  <2> HIDE DEF t, t2
  <2>2. ImageOf(d2, t2, h.count) = ImageOf(d, t, h.count)
    BY <2>1, ImageOfSame
  <2> QED BY <2>2 DEF t, t2
<1> QED BY <1>2 DEF Hold

LEMMA SettledIs ==
  ASSUME Endless, IInv, DataInv
  PROVE  /\ settled = Hold(disk, hdr, mode)
         /\ \A p \in Pages : p > settled.count => settled.val[p] = 0
<1>1. Sits(disk, hdr, mode, leaky) /\ \A g \in KeptOf(disk, hdr, mode) : dur[g] = disk[g]
  BY DEF IInv, KeptInv, Kept
<1>2. settled = Hold(disk, hdr, mode)
  BY <1>1, HoldFrame DEF DataInv
<1>3. CASE mode = "plain"
  BY <1>2, <1>3, PlainTyped DEF Hold
<1>4. CASE mode # "plain"
  <2>1. Mapped(disk, hdr, TabOf(disk, hdr), hdr.count)
    BY <1>1 DEF Sits, Gen
  <2> DEFINE t == TabOf(disk, hdr)
             n == hdr.count
  <2>2. settled = ImageOf(disk, t, n) /\ Mapped(disk, hdr, t, n)
    BY <1>2, <1>4, <2>1 DEF Hold
  <2> HIDE DEF t, n
  <2>3. /\ ImageOf(disk, t, n).count = n
        /\ \A p \in Pages : p > n => ImageOf(disk, t, n).val[p] = 0
    BY <2>2, ImageOfIs
  <2>4. \A p \in Pages : p > settled.count => settled.val[p] = 0
    BY ONLY <2>2, <2>3
  <2> QED BY <1>2, <2>4
<1> QED BY <1>2, <1>3, <1>4

\* What the copies name, the file holds.
LEMMA FileHolds ==
  ASSUME Endless, NEW d, NEW s, NEW h, NEW k, NEW m, NEW l, AtRest(s, h, k, m), Sits(d, h, m, l)
  PROVE  FileImage(d, s) = Hold(d, h, m)
<1>1. /\ Picked(s) = k /\ h \in HdrRec \cup {ZeroHdr} /\ (k = -1 <=> h = ZeroHdr)
      /\ (k # -1 => s[k] = h) /\ (m = "plain" => h = ZeroHdr)
      /\ m = (IF k = -1 /\ s[0] = PlainHdr THEN "plain" ELSE "container")
  BY AtRestIs
<1>2. CASE h \in HdrRec
  <2>1. k # -1 /\ m = "container"
    BY <1>1, <1>2, HdrAllIs
  <2> DEFINE t == d[h.root].tab
             n == h.count
             v == [p \in Pages |-> ValAt(d, t[p])]
             f == [p \in Pages |-> IF p <= n THEN ValAt(d, t[p]) ELSE 0]
  <2>2. Reads(d, h) /\ Mapped(d, h, t, n) /\ TabOf(d, h) = t
    <3>1. Gen(d, h, l)
      BY DEF Sits
    <3> QED BY <1>2, <3>1, HdrIs DEF Gen, TabOf
  <2>3. FileImage(d, s) = ImageIn(d, n, t)
    BY <1>1, <2>1, <2>2 DEF FileImage, ImageAt
  <2>4. \A p \in 1 .. n : Serves(d, t, p)
    <3> HIDE DEF t, n
    <3>1. n \in 0 .. NPages /\ \A p \in Pages : Serves(d, t, p)
      BY <2>2 DEF Mapped, Stored
    <3>2. 1 .. n \subseteq Pages
      BY <3>1, PagesAssumption DEF Pages
    <3> QED BY ONLY <3>1, <3>2
  <2>5. ImageIn(d, n, t) = Image(n, f)
    BY <2>4 DEF ImageIn
  <2>6. \A p \in Pages : p <= n => f[p] = v[p]
    OBVIOUS
  <2>7. ImageOf(d, t, n) = Image(n, v)
    BY DEF ImageOf
  <2>8. Hold(d, h, m) = ImageOf(d, t, n)
    BY <2>1, <2>2 DEF Hold
  <2> HIDE DEF t, n, v, f
  <2> QED BY <2>3, <2>5, <2>6, <2>7, <2>8, ImageSame
<1>3. CASE h \notin HdrRec /\ m = "plain"
  <2>1. k = -1 /\ s[0] = PlainHdr /\ PlainKept(d)
    BY <1>1, <1>3 DEF Sits
  <2> QED BY <1>1, <1>3, <2>1 DEF FileImage, PlainKept, Hold
<1>4. CASE h \notin HdrRec /\ m # "plain"
  <2>1. h = ZeroHdr /\ k = -1 /\ s[0] = ZeroHdr /\ s[1] = ZeroHdr
    BY <1>1, <1>4 DEF AtRest
  <2>2. FileImage(d, s) = Image(0, Zeros)
    BY <1>1, <2>1, HdrAllIs DEF FileImage
  <2>3. Hold(d, h, m) = Image(0, [p \in Pages |-> ValAt(d, Empty[p])])
    BY <1>4, <2>1, HdrIs DEF Hold, ImageOf, TabOf, ZeroHdr
  <2> DEFINE v == [p \in Pages |-> ValAt(d, Empty[p])]
  <2>4. \A p \in Pages : p <= 0 => Zeros[p] = v[p]
    BY DEF Pages
  <2> HIDE DEF v
  <2>5. Image(0, Zeros) = Image(0, v)
    BY <2>4, ImageSame
  <2> QED BY <2>2, <2>3, <2>5 DEF v
<1> QED BY <1>2, <1>3, <1>4

\* What may be on the medium after a crash: of the disk, or what was synced.
LEMMA CrashImage ==
  ASSUME Endless, IInv, DataInv, NEW s \in SlotsAfterCrash, NEW d,
         \A g \in Granules : d[g] \in {disk[g], dur[g]}
  PROVE  /\ FileImage(d, s) = FileImage(disk, s) /\ FileImage(d, Restored(s)) = FileImage(disk, s)
         /\ FileImage(disk, s) \in {settled, staged}
<1>1. PICK h, k, m : /\ AtRest(s, h, k, m) /\ Sits(disk, h, m, leaky)
                     /\ \A g \in KeptOf(disk, h, m) : dur[g] = disk[g]
                     /\ \/ h = hdr /\ m = mode
                        \/ pc \in {"copied", "flipped"} /\ h = cm.hdr /\ m = "container"
  BY Whichever
<1>2. AtRest(Restored(s), h, k, m)
  BY <1>1, RestoredIs
<1>3. KeptOf(disk, h, m) \subseteq Granules
  <2>1. Held(h, TabOf(disk, h)) \subseteq Granules
    BY <1>1, GenIs DEF Sits
  <2>2. 1 .. PlainEof - 1 \subseteq Granules
    BY SizeAssumption, HoleAssumption DEF Endless
  <2> QED BY <2>1, <2>2 DEF KeptOf
<1>4. \A g \in KeptOf(disk, h, m) : d[g] = disk[g]
  BY <1>1, <1>3
<1>5. Sits(d, h, m, leaky) /\ Hold(d, h, m) = Hold(disk, h, m)
  BY <1>1, <1>4, KeptFrame, HoldFrame
<1>6. FileImage(d, s) = Hold(d, h, m) /\ FileImage(d, Restored(s)) = Hold(d, h, m)
  BY <1>1, <1>2, <1>5, FileHolds
<1>7. FileImage(disk, s) = Hold(disk, h, m)
  BY <1>1, FileHolds
<1>8. Hold(disk, h, m) \in {settled, staged}
  <2>1. CASE h = hdr /\ m = mode
    BY <2>1, SettledIs
  <2>2. CASE pc \in {"copied", "flipped"} /\ h = cm.hdr /\ m = "container"
    <3>1. staged = ImageOf(disk, tab, count) /\ tab = TabOf(disk, cm.hdr) /\ count = cm.hdr.count
      BY <2>2 DEF DataInv, IInv, CommitInv
    <3> QED BY <2>2, <3>1 DEF Hold
  <2> QED BY <1>1, <2>1, <2>2
<1> QED BY <1>5, <1>6, <1>7, <1>8

LEMMA RecoverableIs ==
  ASSUME Endless, IInv, DataInv
  PROVE  /\ \A x \in Recoverable : \E s \in SlotsAfterCrash : x = FileImage(disk, s)
         /\ \A s \in SlotsAfterCrash : FileImage(disk, s) \in Recoverable
<1> DEFINE D(kept) == [g \in Granules |-> IF g \in kept THEN disk[g] ELSE dur[g]]
           K(s)    == SUBSET (Unsynced \cap Reach(s))
<1>1. ASSUME NEW s \in SlotsAfterCrash, NEW kept
      PROVE  FileImage(D(kept), s) = FileImage(disk, s)
  <2> DEFINE d == D(kept)
  <2>1. \A g \in Granules : d[g] \in {disk[g], dur[g]}
    OBVIOUS
  <2> HIDE DEF d
  <2>2. FileImage(d, s) = FileImage(disk, s)
    BY <1>1, <2>1, CrashImage
  <2> QED BY <2>2 DEF d
<1>2. Recoverable = UNION {{FileImage(D(kept), s) : kept \in K(s)} : s \in SlotsAfterCrash}
  BY DEF Recoverable
<1> HIDE DEF D
<1>3. \A s : {} \in K(s)
  OBVIOUS
<1> HIDE DEF K
<1>4. ASSUME NEW x \in Recoverable PROVE \E s \in SlotsAfterCrash : x = FileImage(disk, s)
  BY <1>1, <1>2, <1>4
<1>5. ASSUME NEW s \in SlotsAfterCrash PROVE FileImage(disk, s) \in Recoverable
  <2>1. FileImage(D({}), s) \in {FileImage(D(kept), s) : kept \in K(s)}
    BY <1>3
  <2>2. FileImage(D({}), s) \in Recoverable
    BY <1>2, <1>5, <2>1
  <2> QED BY <1>1, <1>5, <2>2
<1> QED BY <1>4, <1>5

\* While the first header is written either image may be left; once a conversion has its
\* second copy to write, only the new one.
CrashLeaves ==
  /\ pc \in {"idle", "pack", "written"} => Recoverable = {settled}
  /\ pc = "copied" \/ (pc = "flipped" /\ mode # "plain") => Recoverable = {settled, staged}
  /\ pc = "flipped" /\ mode = "plain" => Recoverable = {staged}

LEMMA CrashLeavesOne ==
  ASSUME Endless, IInv, DataInv
  PROVE  CrashLeaves
<1>1. slot \in SlotsAfterCrash /\ slotDur \in SlotsAfterCrash
  BY BothCopies
<1>2. /\ \A x \in Recoverable : \E s \in SlotsAfterCrash : x = FileImage(disk, s)
      /\ \A s \in SlotsAfterCrash : FileImage(disk, s) \in Recoverable
  BY RecoverableIs
<1>3. Sits(disk, hdr, mode, leaky) /\ settled = Hold(disk, hdr, mode)
  BY SettledIs DEF IInv, KeptInv
<1>4. \A s \in SlotsAfterCrash : FileImage(disk, s) \in {settled, staged}
  <2>1. \A g \in Granules : disk[g] \in {disk[g], dur[g]}
    OBVIOUS
  <2> QED BY <2>1, CrashImage
<1>5. ASSUME NEW s \in SlotsAfterCrash, AtRest(s, hdr, which, mode)
      PROVE  FileImage(disk, s) = settled
  BY <1>3, <1>5, FileHolds
<1>6. ASSUME pc \in {"copied", "flipped"}
      PROVE  /\ Ahead
             /\ \A s \in SlotsAfterCrash, k \in {0, 1} :
                  AtRest(s, cm.hdr, k, "container") => FileImage(disk, s) = staged
  <2>1. Ahead /\ Sits(disk, cm.hdr, "container", leaky)
    BY <1>6, CommitIs
  <2>2. staged = Hold(disk, cm.hdr, "container")
    BY <1>6 DEF DataInv, IInv, CommitInv, Hold
  <2> QED BY <2>1, <2>2, FileHolds
<1>7. ASSUME pc \in {"idle", "pack", "written"} PROVE Recoverable = {settled}
  <2>1. AtRest(slot, hdr, which, mode) /\ AtRest(slotDur, hdr, which, mode)
    BY <1>7 DEF IInv, SlotInv
  <2>2. \A s \in SlotsAfterCrash : FileImage(disk, s) = settled
    BY <1>5, <2>1, CrashAtRest
  <2> QED BY <1>1, <1>2, <2>2
<1>8. ASSUME pc = "copied" \/ (pc = "flipped" /\ mode # "plain")
      PROVE  Recoverable = {settled, staged}
  <2>1. AtRest(slotDur, hdr, which, mode)
    BY <1>8 DEF IInv, SlotInv
  <2>2. \E k \in {0, 1} : AtRest(slot, cm.hdr, k, "container")
    <3>1. CASE pc = "flipped"
      <4>1. AtRest(slot, cm.hdr, Target, "container") /\ Target \in {0, 1}
        BY <1>6, <3>1, NewPicked DEF IInv, Target
      <4> QED BY <4>1
    <3>2. CASE pc = "copied"
      <4>1. /\ mode = "plain" /\ slotDur \in [{0, 1} -> HdrAll] /\ slotDur[0] = PlainHdr
            /\ slot = [slotDur EXCEPT ![1] = cm.hdr] /\ cm.hdr \in HdrRec
        BY <1>6, <2>1, <3>2 DEF IInv, SlotInv, AtRest, Ahead
      <4>2. slot \in [{0, 1} -> HdrAll] /\ slot[0] = PlainHdr /\ slot[1] = cm.hdr
        BY <4>1 DEF HdrAll
      <4>3. Loses(PlainHdr, cm.hdr, 0)
        BY HdrAllIs DEF Loses, HdrAll
      <4>4. AtRest(slot, cm.hdr, 1, "container")
        BY <4>1, <4>2, <4>3 DEF AtRest
      <4> QED BY <4>4
    <3> QED BY <1>8, <3>1, <3>2
  <2>3. FileImage(disk, slotDur) = settled /\ FileImage(disk, slot) = staged
    BY <1>1, <1>5, <1>6, <1>8, <2>1, <2>2
  <2> QED BY <1>1, <1>2, <1>4, <2>3
<1>9. ASSUME pc = "flipped", mode = "plain" PROVE Recoverable = {staged}
  <2>1. Ahead
    BY <1>6, <1>9
  <2>2. \A s \in SlotsAfterCrash : \E k \in {0, 1} : AtRest(s, cm.hdr, k, "container")
    BY <1>9, <2>1, BothNew DEF IInv
  <2>3. \A s \in SlotsAfterCrash : FileImage(disk, s) = staged
    BY <1>6, <1>9, <2>2
  <2> QED BY <1>1, <1>2, <2>3
<1> QED BY <1>7, <1>8, <1>9 DEF CrashLeaves

----------------------------------------------------------------------------
(* The image of a transaction, step by step *)

\* Outside a rebuild the map holds the image that the transaction has built.
LEMMA StagedIs ==
  ASSUME Endless, IInv, DataInv, pc \in {"idle", "pack"}, ~rb.on, mode = "container"
  PROVE  /\ staged = ImageOf(disk, tab, count) /\ Mapped(disk, hdr, tab, count)
         /\ staged.count = count /\ count \in 0 .. NPages
         /\ \A p \in Pages : staged.val[p] = ValAt(disk, tab[p]) /\ staged.val[p] \in 0 .. MaxWrites + 1
<1>1. Mapped(disk, hdr, tab, count)
  BY AtWork
<1>2. staged = ImageOf(disk, tab, count)
  <2>1. CASE dirty
    BY <2>1 DEF DataInv
  <2>2. CASE ~dirty
    <3>1. staged = settled /\ settled = Hold(disk, hdr, mode)
      BY <2>2, SettledIs DEF DataInv
    <3>2. tab = TabOf(disk, hdr) /\ count = hdr.count
      BY <2>2 DEF IInv, WorkInv
    <3> QED BY <3>1, <3>2 DEF Hold
  <2> QED BY <2>1, <2>2
<1>3. \A p \in Pages : staged.val[p] \in 0 .. MaxWrites + 1
  BY DEF DataInv, AllImages
<1> QED BY <1>1, <1>2, <1>3, ImageOfIs

\* During a rebuild it holds what is settled.
LEMMA SettledInTab ==
  ASSUME Endless, IInv, DataInv, pc \in {"idle", "pack"}, ~dirty \/ rb.on, mode = "container"
  PROVE  /\ settled = ImageOf(disk, tab, count) /\ Mapped(disk, hdr, tab, count)
         /\ \A p \in Pages : settled.val[p] = ValAt(disk, tab[p])
<1>1. Mapped(disk, hdr, tab, count)
  BY AtWork
<1>2. settled = Hold(disk, hdr, mode)
  BY SettledIs
<1>3. tab = TabOf(disk, hdr) /\ count = hdr.count
  BY DEF IInv, WorkInv
<1>4. settled = ImageOf(disk, tab, count)
  BY <1>2, <1>3 DEF Hold
<1> QED BY <1>1, <1>4, ImageOfIs

LEMMA WritePageData ==
  ASSUME Endless, IInv, DataInv, NEW p \in Pages, WritePage(p)
  PROVE  DataInv'
<1> DEFINE v == [staged.val EXCEPT ![p] = clock + 1]
           w == [q \in Pages |-> ValAt(disk', tab'[q])]
<1>1. /\ pc = "idle" /\ mode = "container" /\ ~rb.on /\ clock < MaxWrites
      /\ staged' = Image(count', v) /\ clock' = clock + 1 /\ dirty' = TRUE
      /\ UNCHANGED <<dur, mode, hdr, rb, pc, settled>>
  BY DEF WritePage
<1>2. /\ IInv' /\ ValAt(disk', tab'[p]) = clock + 1
      /\ \A q \in Pages \ {p} : ValAt(disk', tab'[q]) = ValAt(disk, tab[q])
  BY WritePageKeeps
<1>3. \A q \in Pages : staged.val[q] = ValAt(disk, tab[q]) /\ staged.val[q] \in 0 .. MaxWrites + 1
  BY <1>1, StagedIs
<1>4. staged.val \in [Pages -> 0 .. MaxWrites + 1]
  BY DEF DataInv, AllImages
<1>5. clock \in 0 .. MaxWrites /\ clock + 1 \in 0 .. MaxWrites /\ clock + 1 \in 0 .. MaxWrites + 1
  BY <1>1, SizeAssumption DEF DataInv
<1>6. \A q \in Pages : v[q] = IF q = p THEN clock + 1 ELSE staged.val[q]
  BY <1>4
<1>7. \A q \in Pages : v[q] = w[q] /\ v[q] \in 0 .. MaxWrites + 1
  BY <1>2, <1>3, <1>5, <1>6
<1>8. count' \in 0 .. NPages
  BY <1>1, <1>2 DEF IInv, WorkInv, Mapped
<1>9. ImageOf(disk', tab', count') = Image(count', w)
  BY DEF ImageOf
<1> HIDE DEF v, w
<1>10. staged' = ImageOf(disk', tab', count')
  BY <1>1, <1>7, <1>9, ImageSame
<1>11. staged' \in AllImages
  BY <1>1, <1>7, <1>8, ImageTyped
<1>12. settled' \in AllImages /\ settled' = Hold(dur', hdr', mode')
  BY <1>1 DEF DataInv
<1> QED BY <1>1, <1>5, <1>10, <1>11, <1>12 DEF DataInv

LEMMA WriteFailsData ==
  ASSUME Endless, IInv, DataInv, NEW p \in Pages, WriteFails(p)
  PROVE  DataInv'
<1>1. /\ pc = "idle" /\ (mode = "container" \/ rb.on) /\ dirty' = (dirty \/ rb.on)
      /\ UNCHANGED <<dur, mode, hdr, tab, count, rb, pc, staged, settled, clock>>
  BY DEF WriteFails
<1>2. /\ \A q \in Pages : ValAt(disk', tab[q]) = ValAt(disk, tab[q])
      /\ rb.on => \A q \in Pages : ValAt(disk', rb.tab[q]) = ValAt(disk, rb.tab[q])
  BY WriteFailsKeeps
<1>3. ImageOf(disk', tab', count') = ImageOf(disk, tab, count)
  BY <1>1, <1>2, ImageOfSame
<1>4. ~rb.on => dirty' = dirty
  BY <1>1 DEF IInv, KeptInv
<1>5. rb.on => (StreamAgrees => StreamAgrees') /\ ChunkCount(rb') = ChunkCount(rb)
  BY <1>1, <1>2 DEF StreamAgrees
<1>6. Placed(rb'.tab) = Placed(rb.tab)
  BY <1>1
<1> QED BY <1>1, <1>3, <1>4, <1>5, <1>6 DEF DataInv

LEMMA TruncateData ==
  ASSUME Endless, IInv, DataInv, NEW n \in 0 .. NPages - 1, Truncate(n)
  PROVE  DataInv'
<1> DEFINE v == staged.val
           w == [q \in Pages |-> ValAt(disk, tab'[q])]
<1>1. /\ pc = "idle" /\ mode = "container" /\ ~rb.on /\ count' = n /\ dirty' = TRUE
      /\ tab' = [q \in Pages |-> IF q \in n + 1 .. count THEN Absent ELSE tab[q]]
      /\ staged' = Image(n, v)
      /\ UNCHANGED <<disk, dur, mode, hdr, rb, pc, settled, clock>>
  BY DEF Truncate
<1>2. \A q \in Pages : v[q] = ValAt(disk, tab[q]) /\ v[q] \in 0 .. MaxWrites + 1
  BY <1>1, StagedIs
<1>3. \A q \in Pages : q <= n => v[q] = w[q]
  <2>1. \A q \in Pages : q <= n => q \notin n + 1 .. count
    BY DEF Pages
  <2> QED BY <1>1, <1>2, <2>1
<1>4. ImageOf(disk', tab', count') = Image(n, w)
  BY <1>1 DEF ImageOf
<1>5. n \in 0 .. NPages
  BY PagesAssumption
<1> HIDE DEF v, w
<1>6. staged' = ImageOf(disk', tab', count')
  BY <1>1, <1>3, <1>4, ImageSame
<1>7. staged' \in AllImages
  BY <1>1, <1>2, <1>5, ImageTyped
<1> QED BY <1>1, <1>6, <1>7 DEF DataInv

LEMMA BeginOverwriteData ==
  ASSUME Endless, IInv, DataInv, BeginOverwrite
  PROVE  DataInv'
<1>1. /\ pc = "idle" /\ ~rb.on /\ ~dirty
      /\ rb'.on /\ rb'.tab = Empty
      /\ UNCHANGED <<disk, dur, mode, hdr, tab, count, dirty, pc, staged, settled, clock>>
  BY DEF BeginOverwrite, NoRebuild
<1>2. staged = settled
  BY <1>1 DEF DataInv
<1>3. \A p \in Pages : p > settled.count => settled.val[p] = 0
  BY SettledIs
<1>4. Placed(rb'.tab) = {}
  BY <1>1, EmptySpan DEF Placed
<1> QED BY <1>1, <1>2, <1>3, <1>4 DEF DataInv

\* What the stream holds of a page that it has.
LEMMA StreamHolds ==
  ASSUME IInv, DataInv, pc = "idle", rb.on
  PROVE  /\ rb.count \in -1 .. NPages /\ rb.tab \in [Pages -> [off : Nat, len : Nat]]
         /\ \A p \in Pages : staged.val[p] \in 0 .. MaxWrites + 1
         /\ \A p \in Pages : p > staged.count => staged.val[p] = 0
         /\ staged.val \in [Pages -> 0 .. MaxWrites + 1] /\ staged.count \in 0 .. NPages
         /\ \A p \in Pages : rb.tab[p] # Absent => staged.count = ChunkCount(rb)
         /\ \A p \in Pages : rb.tab[p] # Absent /\ p <= staged.count =>
              staged.val[p] = ValAt(disk, rb.tab[p])
<1>1. rb \in StreamRec
  BY DEF IInv, StreamInv
<1>2. rb.count \in -1 .. NPages /\ rb.tab \in [Pages -> [off : Nat, len : Nat]]
  BY <1>1 DEF StreamRec
<1>3. staged \in AllImages
  BY DEF DataInv
<1>4. \A p \in Pages : p > staged.count => staged.val[p] = 0
  BY DEF DataInv
<1>5. \A p \in Pages : rb.tab[p] # Absent =>
        /\ staged.count = ChunkCount(rb)
        /\ p <= staged.count => staged.val[p] = ValAt(disk, rb.tab[p])
  BY DEF DataInv, Placed, StreamAgrees
<1> QED BY <1>2, <1>3, <1>4, <1>5 DEF AllImages

LEMMA RebuildWriteData ==
  ASSUME Endless, IInv, DataInv, NEW p \in Pages, RebuildWrite(p)
  PROVE  DataInv'
<1> DEFINE v == [staged.val EXCEPT ![p] = clock + 1]
           n == ChunkCount(rb')
<1>1. /\ pc = "idle" /\ rb.on /\ clock < MaxWrites /\ rb'.on = rb.on
      /\ staged' = Image(n, v) /\ clock' = clock + 1
      /\ UNCHANGED <<dur, mode, hdr, pc, settled>>
  <2>1. /\ pc = "idle" /\ rb.on /\ clock < MaxWrites
        /\ staged' = Image(n, v) /\ clock' = clock + 1
        /\ UNCHANGED <<dur, mode, hdr, pc, settled>>
    BY DEF RebuildWrite
  <2>2. rb \in StreamRec
    BY <2>1 DEF IInv, StreamInv
  <2>3. \E x : rb' = [rb EXCEPT !.tab[p] = x]
    BY DEF RebuildWrite
  <2>4. rb'.on = rb.on
    BY ONLY <2>2, <2>3 DEF StreamRec
  <2> QED BY <2>1, <2>4
<1>2. /\ IInv' /\ rb'.count = rb.count /\ rb'.tab[p] # Absent /\ ValAt(disk', rb'.tab[p]) = clock + 1
      /\ \A q \in Pages \ {p} : /\ rb'.tab[q] = rb.tab[q]
                               /\ ValAt(disk', rb'.tab[q]) = ValAt(disk, rb.tab[q])
  BY RebuildWriteKeeps
<1>3. /\ rb.count \in -1 .. NPages
      /\ \A q \in Pages : staged.val[q] \in 0 .. MaxWrites + 1
      /\ staged.val \in [Pages -> 0 .. MaxWrites + 1]
      /\ \A q \in Pages : rb.tab[q] # Absent => staged.count = ChunkCount(rb)
      /\ \A q \in Pages : rb.tab[q] # Absent /\ q <= staged.count =>
           staged.val[q] = ValAt(disk, rb.tab[q])
  BY <1>1, StreamHolds
<1>4. clock \in 0 .. MaxWrites /\ clock + 1 \in 0 .. MaxWrites /\ clock + 1 \in 0 .. MaxWrites + 1
  BY <1>1, SizeAssumption DEF DataInv
<1>5. \A q \in Pages : v[q] = (IF q = p THEN clock + 1 ELSE staged.val[q]) /\ v[q] \in 0 .. MaxWrites + 1
  BY <1>3, <1>4
<1>6. /\ n \in 0 .. NPages /\ (rb.count >= 0 => n = rb.count)
  BY <1>2, <1>3, ChunkCountIs
<1>7. /\ rb.count >= 0 => ChunkCount(rb) = rb.count
      /\ ~(rb.count >= 0) => \A q \in Placed(rb.tab) : q <= ChunkCount(rb)
  BY <1>3, ChunkCountIs
<1> HIDE DEF v, n
<1>8. /\ staged'.count = n /\ \A q \in Pages : staged'.val[q] = IF q <= n THEN v[q] ELSE 0
  BY <1>1, ImageIs
<1>9. staged' \in AllImages
  BY <1>1, <1>5, <1>6, ImageTyped
<1>10. \A q \in Pages : q > n => staged'.val[q] = 0
  <2>1. \A q \in Pages : q > n => ~(q <= n)
    BY <1>6 DEF Pages
  <2> QED BY <1>8, <2>1
<1>11. ASSUME NEW q \in Pages, rb'.tab[q] # Absent, q <= n
       PROVE  staged'.val[q] = ValAt(disk', rb'.tab[q])
  <2>1. CASE q = p
    BY <1>2, <1>5, <1>8, <1>11, <2>1
  <2>2. CASE q # p
    <3>1. rb.tab[q] # Absent /\ ValAt(disk', rb'.tab[q]) = ValAt(disk, rb.tab[q])
      BY <1>2, <1>11, <2>2
    <3>2. q <= staged.count
      BY <1>3, <1>6, <1>7, <1>11, <3>1 DEF Placed
    <3> QED BY <1>3, <1>5, <1>8, <1>11, <2>2, <3>1, <3>2
  <2> QED BY <2>1, <2>2
<1>12. p \in Placed(rb'.tab)
  BY <1>2 DEF Placed
<1>13. staged'.count = ChunkCount(rb') /\ StreamAgrees'
  BY <1>8, <1>11 DEF StreamAgrees, n
<1> QED BY <1>1, <1>4, <1>8, <1>9, <1>10, <1>12, <1>13 DEF DataInv

LEMMA RebuildTruncateData ==
  ASSUME Endless, IInv, DataInv, NEW n \in Pages, RebuildTruncate(n)
  PROVE  DataInv'
<1>1. /\ pc = "idle" /\ rb.on /\ rb.count = -1 /\ Placed(rb.tab) # {}
      /\ rb' = [rb EXCEPT !.count = n] /\ staged' = Image(n, staged.val)
      /\ UNCHANGED <<disk, dur, mode, hdr, pc, settled, clock>>
  BY DEF RebuildTruncate
<1>2. rb \in StreamRec
  BY <1>1 DEF IInv, StreamInv
<1>3. rb'.on = rb.on /\ rb'.tab = rb.tab /\ rb'.count = n
  BY <1>1, <1>2 DEF StreamRec
<1>4. /\ \A q \in Pages : staged.val[q] \in 0 .. MaxWrites + 1
      /\ \A q \in Pages : rb.tab[q] # Absent => staged.count = ChunkCount(rb)
      /\ \A q \in Pages : rb.tab[q] # Absent /\ q <= staged.count =>
           staged.val[q] = ValAt(disk, rb.tab[q])
  BY <1>1, StreamHolds
<1>5. n \in 0 .. NPages /\ n >= 0
  BY PagesAssumption DEF Pages
<1>6. ChunkCount(rb') = n
  BY <1>3, <1>5 DEF ChunkCount
<1>7. \A q \in Placed(rb.tab) : q <= ChunkCount(rb)
  <2>1. rb.count \in -1 .. NPages /\ ~(rb.count >= 0)
    BY <1>1, <1>2 DEF StreamRec
  <2> QED BY <2>1, ChunkCountIs
<1>8. /\ staged'.count = n /\ \A q \in Pages : staged'.val[q] = IF q <= n THEN staged.val[q] ELSE 0
  BY <1>1, ImageIs
<1>9. staged' \in AllImages
  BY <1>1, <1>4, <1>5, ImageTyped
<1>10. \A q \in Pages : q > n => staged'.val[q] = 0
  <2>1. \A q \in Pages : q > n => ~(q <= n)
    BY DEF Pages
  <2> QED BY <1>8, <2>1
<1>11. \A q \in Pages : rb.tab[q] # Absent /\ q <= n => staged'.val[q] = ValAt(disk, rb.tab[q])
  BY <1>4, <1>7, <1>8 DEF Placed
<1>12. StreamAgrees'
  BY <1>1, <1>3, <1>8, <1>11 DEF StreamAgrees
<1> QED BY <1>1, <1>3, <1>6, <1>8, <1>9, <1>10, <1>12 DEF DataInv

LEMMA RebuildAbandonData ==
  ASSUME Endless, IInv, DataInv, RebuildAbandon
  PROVE  DataInv'
<1>1. /\ pc = "idle" /\ rb.on /\ ~rb'.on /\ staged' = settled
      /\ dirty' = (dirty /\ mode = "container")
      /\ UNCHANGED <<disk, dur, mode, hdr, tab, count, pc, settled, clock>>
  BY DEF RebuildAbandon, NoRebuild
<1>2. mode = "container" => settled = ImageOf(disk, tab, count)
  BY <1>1, SettledInTab
<1> QED BY <1>1, <1>2 DEF DataInv

LEMMA PrepareData ==
  ASSUME Endless, IInv, DataInv, NEW gate \in BOOLEAN, SyncDirty(gate) \/ (PackPass /\ gate = TRUE)
  PROVE  DataInv'
<1> DEFINE w == [q \in Pages |-> ValAt(disk', tab'[q])]
<1>1. /\ pc \in {"idle", "pack"} /\ pc' = "written"
      /\ rb.on => pc = "idle" /\ Complete(rb)
      /\ ~rb.on => mode = "container"
      /\ UNCHANGED <<dur, mode, hdr, rb, staged, settled, clock>>
  <2>1. CASE SyncDirty(gate)
    <3>1. /\ pc = "idle" /\ dirty /\ (rb.on => Complete(rb)) /\ pc' = "written"
          /\ UNCHANGED <<dur, mode, hdr, rb, staged, settled, clock>>
      BY <2>1 DEF SyncDirty, Prepare
    <3>2. mode \in {"plain", "container"} /\ (mode = "plain" /\ ~rb.on => ~dirty)
      BY <3>1, AtWork DEF IInv, WorkInv
    <3> QED BY <3>1, <3>2
  <2>2. CASE PackPass
    <3>1. /\ pc = "pack" /\ pc' = "written"
          /\ UNCHANGED <<dur, mode, hdr, rb, staged, settled, clock>>
      BY <2>2 DEF PackPass, Prepare
    <3>2. /\ mode \in {"plain", "container"} /\ ~rb.on /\ (mode = "plain" /\ ~rb.on => pc = "idle")
      BY <3>1, AtWork DEF IInv, WorkInv
    <3> QED BY <3>1, <3>2
  <2> QED BY <2>1, <2>2
<1>2. IInv' /\ count' = MadeCount /\ \A q \in Pages : ValAt(disk', tab'[q]) = ValAt(disk, Made[q])
  BY PrepareKeeps
<1>3. staged \in AllImages
  BY DEF DataInv
<1>4. /\ staged.count = MadeCount
      /\ \A q \in Pages : q > staged.count => staged.val[q] = 0
      /\ \A q \in Pages : q <= staged.count => staged.val[q] = ValAt(disk, Made[q])
  <2>1. CASE ~rb.on
    <3>1. /\ staged = ImageOf(disk, tab, count) /\ Mapped(disk, hdr, tab, count)
      BY <1>1, <2>1, StagedIs
    <3>2. /\ ImageOf(disk, tab, count).count = count
          /\ \A p \in Pages : ImageOf(disk, tab, count).val[p] = ValAt(disk, tab[p])
          /\ \A p \in Pages : p > count => ImageOf(disk, tab, count).val[p] = 0
      BY <3>1, ImageOfIs
    <3>3. MadeCount = count /\ Made = tab
      BY <2>1 DEF MadeCount, Made
    <3> QED BY <3>1, <3>2, <3>3
  <2>2. CASE rb.on
    <3>1. Placed(rb.tab) # {} /\ 1 .. ChunkCount(rb) \subseteq Placed(rb.tab)
      BY <1>1, <2>2 DEF Complete
    <3>2. PICK p \in Pages : rb.tab[p] # Absent
      BY <3>1 DEF Placed
    <3>3. /\ staged.count = ChunkCount(rb) /\ staged.count \in 0 .. NPages
          /\ \A q \in Pages : q > staged.count => staged.val[q] = 0
          /\ \A q \in Pages : rb.tab[q] # Absent /\ q <= staged.count =>
               staged.val[q] = ValAt(disk, rb.tab[q])
      BY <1>1, <2>2, <3>2, StreamHolds
    <3>4. ASSUME NEW q \in Pages, q <= staged.count
          PROVE  staged.val[q] = ValAt(disk, Made[q])
      <4>1. q \in 1 .. ChunkCount(rb)
        BY <3>3, <3>4 DEF Pages
      <4>2. rb.tab[q] # Absent
        BY <3>1, <4>1 DEF Placed
      <4>3. ~(q > ChunkCount(rb))
        BY <4>1, <3>3
      <4>4. Made[q] = rb.tab[q]
        BY <2>2, <4>3 DEF Made, Without
      <4> QED BY <3>3, <3>4, <4>2, <4>4
    <3>5. MadeCount = ChunkCount(rb)
      BY <2>2 DEF MadeCount
    <3> QED BY <3>3, <3>4, <3>5
  <2> QED BY <1>1, <2>1, <2>2
<1>5. \A q \in Pages : q <= staged.count => staged.val[q] = w[q]
  BY <1>2, <1>4
<1>6. ImageOf(disk', tab', count') = Image(staged.count, w)
  BY <1>2, <1>4 DEF ImageOf
<1> HIDE DEF w
<1>7. staged = Image(staged.count, w)
  BY <1>3, <1>4, <1>5, ImageWhole
<1> QED BY <1>1, <1>6, <1>7 DEF DataInv

LEMMA SyncCleanData ==
  ASSUME Endless, IInv, DataInv, SyncClean
  PROVE  DataInv'
<1>1. /\ dur' = disk
      /\ UNCHANGED <<disk, mode, hdr, tab, count, dirty, rb, pc, staged, settled, clock>>
  BY DEF SyncClean
<1>2. settled' = Hold(dur', hdr', mode')
  BY <1>1, SettledIs
<1> QED BY <1>1, <1>2 DEF DataInv, StreamAgrees

LEMMA BarrierData ==
  ASSUME Endless, IInv, DataInv, Barrier \/ SecondCopy
  PROVE  DataInv'
<1>1. /\ pc \in {"written", "copied"} /\ pc' \in {"copied", "flipped"} /\ dur' \in {disk, dur}
      /\ UNCHANGED <<disk, mode, hdr, tab, count, staged, settled, clock>>
  BY DEF Barrier, SecondCopy
<1>2. settled' = Hold(dur', hdr', mode')
  BY <1>1, SettledIs DEF DataInv
<1> QED BY <1>1, <1>2 DEF DataInv

LEMMA LandData ==
  ASSUME Endless, IInv, DataInv, Land
  PROVE  DataInv'
<1>1. /\ pc = "flipped" /\ pc' \in {"pack", "idle"} /\ settled' = staged /\ hdr' = cm.hdr
      /\ mode' = "container" /\ dirty' = FALSE /\ ~rb'.on
      /\ UNCHANGED <<disk, dur, tab, count, staged, clock>>
  BY DEF Land, NoRebuild
<1>2. staged = ImageOf(disk, tab, count) /\ staged \in AllImages /\ clock \in 0 .. MaxWrites
  BY <1>1 DEF DataInv
<1>3. tab = TabOf(disk, cm.hdr) /\ count = cm.hdr.count /\ dur = disk
  BY <1>1 DEF IInv, CommitInv
<1>4. settled' = Hold(dur', hdr', mode')
  BY <1>1, <1>2, <1>3 DEF Hold
<1> QED BY <1>1, <1>2, <1>4 DEF DataInv

\* After a failure or a crash the image is the one that is read back.
LEMMA AdoptData ==
  ASSUME Endless, DataInv, IInv', Adopt(disk', slot'), clock' = clock,
         FileImage(disk', slot') \in {settled, staged}
  PROVE  DataInv'
<1>1. /\ settled' = FileImage(disk', slot') /\ staged' = settled' /\ dirty' = FALSE
      /\ ~rb'.on /\ pc' = "idle"
  BY DEF Adopt, NoRebuild
<1>2. AtRest(slot', hdr', which', mode') /\ Sits(disk', hdr', mode', leaky')
  BY <1>1 DEF IInv, SlotInv, KeptInv
<1>3. \A g \in KeptOf(disk', hdr', mode') : dur'[g] = disk'[g]
  BY DEF IInv, KeptInv, Kept
<1>4. FileImage(disk', slot') = Hold(disk', hdr', mode')
  BY <1>2, FileHolds
<1>5. Hold(dur', hdr', mode') = Hold(disk', hdr', mode')
  BY <1>2, <1>3, HoldFrame
<1>6. settled' \in AllImages /\ clock' \in 0 .. MaxWrites
  BY <1>1 DEF DataInv
<1> QED BY <1>1, <1>4, <1>5, <1>6 DEF DataInv

\* What is read back is an image that a crash could have left.
LEMMA CrashData ==
  ASSUME Endless, IInv, DataInv, Crash
  PROVE  DataInv' /\ settled' \in Recoverable /\ staged' = settled'
<1>1. PICK s \in SlotsAfterCrash, kept \in {{}, Unsynced} :
         LET d == [g \in Granules |-> IF g \in kept THEN disk[g] ELSE dur[g]]
         IN  /\ disk' = d /\ dur' = d /\ slot' = Restored(s) /\ slotDur' = Restored(s)
             /\ Adopt(d, Restored(s))
  BY DEF Crash, Restored
<1>2. Adopt(disk', slot') /\ slot' = Restored(s) /\ \A g \in Granules : disk'[g] \in {disk[g], dur[g]}
  BY <1>1
<1>3. FileImage(disk', slot') = FileImage(disk, s) /\ FileImage(disk, s) \in {settled, staged}
  BY <1>2, CrashImage
<1>4. IInv' /\ clock' = clock
  BY CrashKeeps DEF Crash
<1>5. FileImage(disk, s) \in Recoverable
  BY RecoverableIs
<1>6. settled' = FileImage(disk', slot') /\ staged' = settled'
  BY <1>2 DEF Adopt
<1> QED BY <1>2, <1>3, <1>4, <1>5, <1>6, AdoptData

LEMMA FailureData ==
  ASSUME Endless, IInv, DataInv,
         PrepareFails \/ HeaderWriteFails \/ FlipFails \/ \E g \in BOOLEAN : WalkFails(g)
  PROVE  DataInv' /\ settled' \in Recoverable /\ staged' = settled'
<1>1. Adopt(disk', slot') /\ disk' = disk /\ clock' = clock /\ dur' \in {dur, disk}
  BY DEF PrepareFails, HeaderWriteFails, FlipFails, WalkFails
<1>2. IInv'
  BY PrepareFailsKeeps, HeaderWriteFailsKeeps, FlipFailsKeeps
<1>3. settled' = FileImage(disk, slot') /\ staged' = settled'
  BY <1>1 DEF Adopt
<1>4. FileImage(disk, slot') \in {settled, staged} /\ FileImage(disk, slot') \in Recoverable
  <2>1. \A g \in Granules : disk[g] \in {disk[g], dur[g]}
    OBVIOUS
  <2>2. \A s \in SlotsAfterCrash : FileImage(disk, s) \in {settled, staged} /\ FileImage(disk, s) \in Recoverable
    BY <2>1, CrashImage, RecoverableIs
  <2>3. CASE slot' \in {slot, slotDur}
    BY <2>2, <2>3, BothCopies
  <2>4. CASE slot' \notin {slot, slotDur}
    <3>1. pc = "written" /\ MayTear(slot, FirstCopy) /\ slot' = [slot EXCEPT ![FirstCopy] = TornHdr]
      BY <2>4 DEF PrepareFails, HeaderWriteFails, FlipFails, WalkFails
    <3>2. AtRest(slot, hdr, which, mode) /\ Sits(disk, hdr, mode, leaky)
      BY <3>1 DEF IInv, SlotInv, KeptInv
    <3>3. AtRest(slot', hdr, which, mode)
      BY <3>1, <3>2, TearAtRest
    <3>4. FileImage(disk, slot') = Hold(disk, hdr, mode)
      BY <3>2, <3>3, FileHolds
    <3>5. settled = Hold(disk, hdr, mode) /\ CrashLeaves
      BY SettledIs, CrashLeavesOne
    <3> QED BY <3>1, <3>4, <3>5 DEF CrashLeaves
  <2> QED BY <2>3, <2>4
<1> QED BY <1>1, <1>2, <1>3, <1>4, AdoptData

LEMMA InitData ==
  ASSUME Endless, Init
  PROVE  DataInv
<1>1. /\ hdr = ZeroHdr /\ tab = Empty /\ count = 0 /\ dirty = FALSE /\ ~rb.on /\ pc = "idle"
      /\ mode \in {"plain", "container"} /\ settled = staged /\ clock = 0
      /\ staged = IF mode = "plain" THEN PlainImage ELSE Image(0, Zeros)
  BY DEF Init, NoRebuild
<1>2. 0 \in 0 .. MaxWrites
  BY SizeAssumption
<1>3. Image(0, Zeros) \in AllImages
  <2>1. \A p \in Pages : p <= 0 => Zeros[p] \in 0 .. MaxWrites + 1
    BY DEF Pages
  <2>2. 0 \in 0 .. NPages
    BY PagesAssumption
  <2> QED BY <2>1, <2>2, ImageTyped
<1>4. mode # "plain" => settled = Hold(dur, hdr, mode)
  <2> DEFINE v == [p \in Pages |-> ValAt(dur, Empty[p])]
  <2>1. mode # "plain" => Hold(dur, hdr, mode) = Image(0, v)
    BY <1>1 DEF Hold, ImageOf, TabOf, ZeroHdr
  <2>2. \A p \in Pages : p <= 0 => Zeros[p] = v[p]
    BY DEF Pages
  <2> HIDE DEF v
  <2> QED BY <1>1, <2>1, <2>2, ImageSame
<1>5. settled = Hold(dur, hdr, mode)
  BY <1>1, <1>4 DEF Hold
<1>6. staged \in AllImages
  BY <1>1, <1>3, PlainTyped
<1> QED BY <1>1, <1>2, <1>5, <1>6 DEF DataInv

LEMMA StepData ==
  ASSUME Endless, IInv, DataInv, [Next]_vars
  PROVE  DataInv'
<1>1. CASE \E p \in Pages : WritePage(p) \/ WriteFails(p) \/ RebuildWrite(p)
  BY <1>1, WritePageData, WriteFailsData, RebuildWriteData
<1>2. CASE \E n \in 0 .. NPages - 1 : Truncate(n)
  BY <1>2, TruncateData
<1>3. CASE \E n \in Pages : RebuildTruncate(n)
  BY <1>3, RebuildTruncateData
<1>4. CASE BeginOverwrite \/ RebuildAbandon
  BY <1>4, BeginOverwriteData, RebuildAbandonData
<1>5. CASE (\E g \in BOOLEAN : SyncDirty(g)) \/ PackPass
  BY <1>5, PrepareData
<1>6. CASE SyncClean
  BY <1>6, SyncCleanData
<1>7. CASE Barrier \/ SecondCopy
  BY <1>7, BarrierData
<1>8. CASE Land
  BY <1>8, LandData
<1>9. CASE PrepareFails \/ HeaderWriteFails \/ FlipFails \/ \E g \in BOOLEAN : WalkFails(g)
  BY <1>9, FailureData
<1>10. CASE Crash
  BY <1>10, CrashData
<1>11. CASE UNCHANGED vars
  BY <1>11 DEF DataInv, StreamAgrees, vars
<1> QED BY <1>1, <1>2, <1>3, <1>4, <1>5, <1>6, <1>7, <1>8, <1>9, <1>10, <1>11 DEF Next

\* The file holds the last acknowledged image, and the maps the one of the transaction.
THEOREM HoldsItsImage ==
  ASSUME Endless, Journaled
  PROVE  Spec => []DataInv
<1>1. Init => DataInv
  BY InitData
<1>2. IInv /\ DataInv /\ [Next]_vars => DataInv'
  BY StepData
<1> QED BY <1>1, <1>2, WholeGeneration, PTL DEF Spec

\* zctr_read answers with what the pager wrote last.
THEOREM ReadsHold ==
  ASSUME Endless, Journaled
  PROVE  Spec => []ReadsWhatWasWritten
<1>1. IInv /\ DataInv => ReadsWhatWasWritten
  <2> SUFFICES ASSUME IInv, DataInv, pc = "idle", mode = "container"
               PROVE  /\ ~rb.on => count = staged.count
                      /\ \A p \in 1 .. count :
                           ~InStream(p) \/ p <= staged.count =>
                             /\ Serves(disk, [q \in Pages |-> Entry(q)], p)
                             /\ ValAt(disk, Entry(p)) = Wrote(p)
    BY DEF ReadsWhatWasWritten
  <2>1. Stored(disk, tab) /\ Mapped(disk, hdr, tab, count)
    BY AtWork
  <2>2. 1 .. count \subseteq Pages
    BY <2>1, PagesAssumption DEF Mapped, Pages
  <2>3. ~rb.on => /\ count = staged.count
                  /\ \A p \in Pages : staged.val[p] = ValAt(disk, tab[p])
    BY StagedIs
  <2>4. rb.on => \A p \in Pages : settled.val[p] = ValAt(disk, tab[p])
    BY SettledInTab
  <2>5. ASSUME NEW p \in 1 .. count, ~InStream(p) \/ p <= staged.count
        PROVE  /\ Serves(disk, [q \in Pages |-> Entry(q)], p)
               /\ ValAt(disk, Entry(p)) = Wrote(p)
    <3> DEFINE e == [q \in Pages |-> Entry(q)]
    <3>1. p \in Pages /\ e[p] = Entry(p)
      BY <2>2, <2>5
    <3>2. CASE ~InStream(p)
      <4>1. Entry(p) = tab[p] /\ Wrote(p) = IF rb.on THEN settled.val[p] ELSE staged.val[p]
        BY <3>2 DEF Entry, Wrote
      <4>2. Serves(disk, tab, p)
        BY <2>1, <3>1 DEF Stored
      <4>3. ValAt(disk, Entry(p)) = Wrote(p)
        BY <2>3, <2>4, <3>1, <4>1
      <4>4. Serves(disk, e, p)
        BY <3>1, <4>1, <4>2 DEF Serves
      <4> QED BY <4>3, <4>4
    <3>3. CASE InStream(p)
      <4>1. /\ rb.on /\ rb.tab[p] # Absent /\ p <= staged.count
            /\ Entry(p) = rb.tab[p] /\ Wrote(p) = staged.val[p]
        BY <2>5, <3>3 DEF Entry, Wrote, InStream
      <4>2. Serves(disk, rb.tab, p)
        BY <3>1, <4>1 DEF IInv, StreamInv, Stored
      <4>3. staged.val[p] = ValAt(disk, rb.tab[p])
        BY <3>1, <4>1, StreamHolds
      <4>4. Serves(disk, e, p)
        BY <3>1, <4>1, <4>2 DEF Serves
      <4> QED BY <4>1, <4>3, <4>4
    <3> QED BY <3>2, <3>3
  <2> QED BY <2>3, <2>5
<1> QED BY <1>1, WholeGeneration, HoldsItsImage, PTL

\* Up to the data barrier a crash leaves what is settled.
Calm == pc \in {"idle", "pack", "written"}

LEMMA CalmSteps ==
  ASSUME IInv, DataInv,
         \/ \E p \in Pages : WritePage(p) \/ WriteFails(p) \/ RebuildWrite(p)
         \/ \E n \in 0 .. NPages - 1 : Truncate(n)
         \/ \E n \in Pages : RebuildTruncate(n)
         \/ BeginOverwrite \/ RebuildAbandon
         \/ \E g \in BOOLEAN : SyncDirty(g)
         \/ PackPass \/ SyncClean
  PROVE  Calm /\ Calm' /\ settled' = settled
BY DEF Calm, WritePage, WriteFails, RebuildWrite, Truncate, RebuildTruncate, BeginOverwrite,
       RebuildAbandon, SyncDirty, PackPass, SyncClean, Prepare

\* What the pager above sees of a step.
LEMMA StepIsAtomic ==
  ASSUME Endless, IInv, DataInv, IInv', DataInv', CrashLeaves, CrashLeaves', [Next]_vars
  PROVE  [File!Next]_<<staged, settled, Recoverable>>
<1>1. settled' \in AllImages /\ staged' \in AllImages
  BY DEF DataInv
<1>2. CASE \/ \E p \in Pages : WritePage(p) \/ WriteFails(p) \/ RebuildWrite(p)
           \/ \E n \in 0 .. NPages - 1 : Truncate(n)
           \/ \E n \in Pages : RebuildTruncate(n)
           \/ BeginOverwrite \/ RebuildAbandon
           \/ \E g \in BOOLEAN : SyncDirty(g)
           \/ PackPass \/ SyncClean
  <2>1. Calm /\ Calm' /\ settled' = settled
    BY <1>2, CalmSteps
  <2>2. Recoverable = {settled} /\ Recoverable' = {settled'}
    BY <2>1 DEF CrashLeaves, Calm
  <2>3. File!Stage(Recoverable, Recoverable')
    BY <1>1, <2>1, <2>2 DEF File!Stage
  <2> QED BY <2>3 DEF File!Next
<1>3. CASE Barrier
  <2>1. /\ pc = "written" /\ UNCHANGED <<mode, staged, settled>>
        /\ pc' = IF mode = "plain" THEN "copied" ELSE "flipped"
    BY <1>3 DEF Barrier
  <2>2. Recoverable = {settled} /\ Recoverable' = {settled, staged}
    BY <2>1 DEF CrashLeaves
  <2>3. File!Attempt(Recoverable, Recoverable')
    BY <2>1, <2>2 DEF File!Attempt
  <2> QED BY <2>3 DEF File!Next
<1>4. CASE SecondCopy
  <2>1. pc = "copied" /\ UNCHANGED <<mode, staged, settled>> /\ pc' = "flipped" /\ mode = "plain"
    BY <1>4 DEF SecondCopy, IInv, SlotInv
  <2>2. Recoverable = {settled, staged} /\ Recoverable' = {staged}
    BY <2>1 DEF CrashLeaves
  <2>3. File!Harden(Recoverable, Recoverable')
    BY <2>1, <2>2 DEF File!Harden
  <2> QED BY <2>3 DEF File!Next
<1>5. CASE Land \/ Crash \/ PrepareFails \/ HeaderWriteFails \/ FlipFails \/ \E g \in BOOLEAN : WalkFails(g)
  <2>1. settled' \in Recoverable /\ staged' = settled' /\ pc' \in {"idle", "pack"}
    <3>1. CASE Land
      <4>1. pc = "flipped" /\ settled' = staged /\ staged' = staged /\ pc' \in {"idle", "pack"}
        BY <3>1 DEF Land
      <4> QED BY <4>1 DEF CrashLeaves
    <3>2. CASE Crash
      <4>1. pc' = "idle"
        BY <3>2 DEF Crash, Adopt
      <4> QED BY <3>2, <4>1, CrashData
    <3>3. CASE PrepareFails \/ HeaderWriteFails \/ FlipFails \/ \E g \in BOOLEAN : WalkFails(g)
      <4>1. pc' = "idle"
        BY <3>3 DEF PrepareFails, HeaderWriteFails, FlipFails, WalkFails, Adopt
      <4> QED BY <3>3, <4>1, FailureData
    <3> QED BY <1>5, <3>1, <3>2, <3>3
  <2>2. Recoverable' = {settled'}
    BY <2>1 DEF CrashLeaves
  <2>3. File!Settle(Recoverable, Recoverable')
    BY <2>1, <2>2 DEF File!Settle
  <2> QED BY <2>3 DEF File!Next
<1>6. CASE UNCHANGED vars
  <2>1. UNCHANGED <<pc, mode, staged, settled>>
    BY <1>6 DEF vars
  <2>2. pc \in {"idle", "pack", "written", "copied", "flipped"}
    BY DEF IInv, KeptInv
  <2>3. Recoverable' = Recoverable
    BY <2>1, <2>2 DEF CrashLeaves
  <2> QED BY <2>1, <2>3
<1> QED BY <1>2, <1>3, <1>4, <1>5, <1>6 DEF Next

\* The commit is atomic, whatever fails: the container implements AtomicFile.
THEOREM CommitHolds ==
  ASSUME Endless, Journaled
  PROVE  Spec => CommitIsAtomic
<1>1. Init => File!Init
  <2> SUFFICES ASSUME Init PROVE File!Init
    OBVIOUS
  <2>1. IInv /\ DataInv
    BY InitHolds, InitData
  <2>2. CrashLeaves
    BY <2>1, CrashLeavesOne
  <2>3. pc = "idle" /\ staged = settled
    BY DEF Init
  <2> QED BY <2>1, <2>2, <2>3 DEF File!Init, CrashLeaves, DataInv
<1>2. IInv /\ DataInv => CrashLeaves
  BY CrashLeavesOne
<1>3. IInv /\ DataInv /\ IInv' /\ DataInv' /\ CrashLeaves /\ CrashLeaves' /\ [Next]_vars
        => [File!Next]_<<staged, settled, Recoverable>>
  BY StepIsAtomic
<1> QED BY <1>1, <1>2, <1>3, WholeGeneration, HoldsItsImage, PTL DEF Spec, CommitIsAtomic

=============================================================================
