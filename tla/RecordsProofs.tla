--------------------------- MODULE RecordsProofs ---------------------------
(***************************************************************************)
(* The allocator of Alloc neither loses space nor hands it out twice, for  *)
(* every placement of the lock hole and every size: what each operation    *)
(* does to the set of granules that can be had, Room.  On it rests what    *)
(* the compaction and the rest of a commit do to records, map and lists.   *)
(***************************************************************************)
EXTENDS Records, TLAPS, WellFoundedInduction

AllocRec == [free : SUBSET Nat, pend : UNION {[T -> SUBSET Nat] : T \in SUBSET Nat},
             eof : Nat, append : BOOLEAN]

\* The extents in fr[] lie below eof and outside the hole, and eof is not inside it.
Sound(a) ==
  /\ a \in AllocRec
  /\ \A g \in a.free : 1 <= g /\ g < a.eof /\ g \notin HoleSet
  /\ 1 <= a.eof /\ (a.eof <= Hole0 \/ Hole1 <= a.eof)

\* The granules that can still be handed out: what fr[] lists, and all beyond eof.
Room(a) == a.free \cup {g \in Nat : a.eof <= g /\ g \notin HoleSet}

----------------------------------------------------------------------------

LEMMA NatMin ==
  ASSUME NEW T \in SUBSET Nat, T # {}
  PROVE  \E x \in T : \A y \in T : x <= y
<1>1. PICK x \in T : \A y \in T : ~ (<<y, x>> \in OpToRel(<, Nat))
  BY WFMin, NatLessThanWellFounded
<1>2. \A y \in T : ~ (y < x)
  BY <1>1 DEF OpToRel
<1> QED BY <1>2

LEMMA InExt ==
  ASSUME NEW s \in Nat, NEW n \in Nat
  PROVE  /\ Ext(s, n) \subseteq Nat
         /\ \A g : g \in Ext(s, n) <=> g \in Nat /\ s <= g /\ g < s + n
BY DEF Ext

LEMMA InHole == \A g : g \in HoleSet <=> g \in Nat /\ Hole0 <= g /\ g < Hole1
BY HoleAssumption DEF HoleSet

\* Making room behind eof: the extent to come misses the hole, and the gap before the
\* hole is not lost but listed in fr[] (zalloc_reserve_eof).
THEOREM ReserveKeepsTheGap ==
  ASSUME NEW a, Sound(a), NEW n \in Nat
  PROVE  LET r == ReserveEof(a, n)
         IN  /\ Sound(r) /\ Room(r) = Room(a) /\ r.pend = a.pend
             /\ Ext(r.eof, n) \cap HoleSet = {}
<1> DEFINE r == ReserveEof(a, n)
<1>1. a \in AllocRec /\ a.eof \in Nat
  BY DEF Sound, AllocRec
<1>2. CASE a.eof < Hole1 /\ a.eof + n > Hole0
  <2> DEFINE gap == a.eof .. (Hole0 - 1)
  <2>1. r = [a EXCEPT !.free = @ \cup gap, !.eof = Hole1]
    BY <1>2 DEF ReserveEof
  <2>2. r.free = a.free \cup gap /\ r.eof = Hole1 /\ r.pend = a.pend
    BY <1>1, <2>1 DEF AllocRec
  <2>3. \A g : g \in gap <=> g \in Nat /\ a.eof <= g /\ g < Hole0
    BY <1>1, HoleAssumption
  <2>4. r \in AllocRec
    BY <1>1, <2>1, <2>3, HoleAssumption DEF AllocRec
  <2>5. \A g \in r.free : 1 <= g /\ g < r.eof /\ g \notin HoleSet
    <3>1. TAKE g \in r.free
    <3>2. CASE g \in gap
      BY <1>1, <2>2, <2>3, <3>2, InHole, HoleAssumption DEF Sound
    <3>3. CASE g \in a.free
      BY <1>1, <1>2, <2>2, <3>3, HoleAssumption DEF Sound, AllocRec
    <3> QED BY <2>2, <3>1, <3>2, <3>3
  <2>6. Sound(r)
    BY <2>2, <2>4, <2>5, HoleAssumption DEF Sound
  <2>7. Room(r) = Room(a)
    <3> HIDE DEF r, gap
    <3>1. a.eof <= Hole0
      BY <1>2, <1>1, HoleAssumption DEF Sound
    <3>2. \A g \in Nat : (g \in gap \/ (Hole1 <= g /\ g \notin HoleSet)) <=> (a.eof <= g /\ g \notin HoleSet)
      BY <1>1, <1>2, <2>3, <3>1, InHole, HoleAssumption
    <3>3. a.free \subseteq Nat /\ gap \subseteq Nat
      BY <1>1, <2>3 DEF AllocRec
    <3> QED BY <2>2, <3>2, <3>3 DEF Room
  <2>8. Ext(r.eof, n) \cap HoleSet = {}
    BY <2>2, InExt, InHole, HoleAssumption
  <2> QED BY <2>2, <2>6, <2>7, <2>8
<1>3. CASE ~(a.eof < Hole1 /\ a.eof + n > Hole0)
  <2>1. r = a
    BY <1>3 DEF ReserveEof
  <2>2. Ext(a.eof, n) \cap HoleSet = {}
    BY <1>1, <1>3, InExt, InHole, HoleAssumption
  <2> QED BY <2>1, <2>2
<1> QED BY <1>2, <1>3

\* Space taken from behind eof.
LEMMA ExtendIsFresh ==
  ASSUME NEW a, Sound(a), NEW n \in Nat \ {0}
  PROVE  LET t == Extend(a, n)
         IN  /\ t.off \in Nat /\ 1 <= t.off
             /\ Ext(t.off, n) \subseteq Room(a) /\ Ext(t.off, n) \cap HoleSet = {}
             /\ Sound(t.a) /\ t.a.pend = a.pend
             /\ Room(t.a) = Room(a) \ Ext(t.off, n)
<1> DEFINE r == ReserveEof(a, n)
           t == Extend(a, n)
<1>1. Sound(r) /\ Room(r) = Room(a) /\ r.pend = a.pend /\ Ext(r.eof, n) \cap HoleSet = {}
  BY ReserveKeepsTheGap
<1>2. t = [off |-> r.eof, a |-> [r EXCEPT !.eof = @ + n]]
  BY DEF Extend
<1> HIDE DEF r
<1>3. r \in AllocRec /\ r.eof \in Nat /\ 1 <= r.eof
  BY <1>1 DEF Sound, AllocRec
<1>4. t.off = r.eof /\ t.a.eof = r.eof + n /\ t.a.free = r.free /\ t.a.pend = r.pend /\ t.a \in AllocRec
  BY <1>2, <1>3 DEF AllocRec
<1> HIDE DEF t
<1>5. r.eof + n <= Hole0 \/ Hole1 <= r.eof + n
  <2>1. CASE Hole1 <= r.eof
    BY <2>1, <1>3, HoleAssumption
  <2>2. CASE r.eof <= Hole0
    <3>1. r.eof + n > Hole0 => Hole0 \in Ext(r.eof, n)
      BY <1>3, <2>2, InExt, HoleAssumption
    <3>2. Hole0 \in HoleSet
      BY InHole, HoleAssumption
    <3> QED BY <1>1, <1>3, <3>1, <3>2, HoleAssumption
  <2> QED BY <1>1, <2>1, <2>2 DEF Sound
<1>6. Sound(t.a)
  <2>1. \A g \in t.a.free : 1 <= g /\ g < t.a.eof /\ g \notin HoleSet
    BY <1>1, <1>3, <1>4 DEF Sound, AllocRec
  <2> QED BY <1>3, <1>4, <1>5, <2>1 DEF Sound
<1>7. Ext(t.off, n) \subseteq Room(a)
  <2>1. \A g \in Ext(r.eof, n) : g \in Nat /\ r.eof <= g /\ g \notin HoleSet
    BY <1>1, <1>3, InExt
  <2> QED BY <1>1, <1>4, <2>1 DEF Room
<1>8. Room(t.a) = Room(a) \ Ext(t.off, n)
  <2>1. \A g \in Ext(r.eof, n) : g \notin r.free
    BY <1>1, <1>3, InExt DEF Sound, AllocRec
  <2>2. \A g \in Nat : r.eof + n <= g <=> r.eof <= g /\ g \notin Ext(r.eof, n)
    BY <1>3, InExt
  <2>3. Room(t.a) = Room(r) \ Ext(r.eof, n)
    BY <1>4, <2>1, <2>2 DEF Room
  <2> QED BY <1>1, <1>4, <2>3
<1> QED BY <1>1, <1>3, <1>4, <1>6, <1>7, <1>8 DEF t

\* Where fr[] has an extent that is large enough, the best fit exists.
LEMMA PeekFits ==
  ASSUME NEW a, Sound(a), NEW n \in Nat \ {0}
  PROVE  Peek(a, n) = 0 \/ Peek(a, n) \in Fits(a.free, n)
<1> DEFINE fits    == Fits(a.free, n)
           size(s) == RunEnd(a.free, s) - s
<1>1. a.free \subseteq Nat /\ a.eof \in Nat /\ \A g \in a.free : g < a.eof
  BY DEF Sound, AllocRec
<1>2. \A s \in fits : s \in a.free
  BY DEF Fits, Starts
<1>3. \A s \in fits : size(s) \in Nat
  <2>1. TAKE s \in fits
  <2> DEFINE ends == {e \in Nat : s < e /\ e \notin a.free}
  <2>2. s \in Nat /\ s \in a.free /\ s < a.eof
    BY <1>1, <1>2, <2>1
  <2>3. a.eof \in ends
    BY <1>1, <2>2
  <2>4. PICK e \in ends : \A x \in ends : e <= x
    BY <2>3, NatMin
  <2>5. \A g \in Nat : s <= g /\ g < e => g \in a.free
    BY <2>2, <2>4
  <2>6. e - s \in Nat /\ Ext(s, e - s) \subseteq a.free
    BY <2>2, <2>4, <2>5, InExt
  <2>7. e \in {g + 1 : g \in a.free}
    <3>1. e - 1 \in a.free /\ (e - 1) + 1 = e
      BY <2>2, <2>4, <2>5
    <3> QED BY <3>1
  <2>8. \E x \in {g + 1 : g \in a.free} : s < x /\ x \notin a.free /\ Ext(s, x - s) \subseteq a.free
    BY <2>4, <2>6, <2>7
  <2>9. RunEnd(a.free, s) \in {g + 1 : g \in a.free} /\ s < RunEnd(a.free, s)
    BY <2>8 DEF RunEnd
  <2>10. RunEnd(a.free, s) \in Nat
    BY <1>1, <2>9
  <2> QED BY <2>2, <2>9, <2>10
<1>4. CASE fits = {}
  BY <1>4 DEF Peek
<1>5. CASE fits # {}
  <2> DEFINE sizes == {size(s) : s \in fits}
  <2>1. sizes \in SUBSET Nat /\ sizes # {}
    BY <1>3, <1>5
  <2>2. PICK m \in sizes : \A x \in sizes : m <= x
    <3> HIDE DEF sizes
    <3> QED BY <2>1, NatMin
  <2> DEFINE best == {s \in fits : size(s) = m}
  <2>3. best \in SUBSET Nat /\ best # {}
    BY <1>1, <1>2, <2>2
  <2>4. PICK s \in best : \A t \in best : s <= t
    <3> HIDE DEF best
    <3> QED BY <2>3, NatMin
  <2>5. \A t \in fits : size(t) \in sizes
    OBVIOUS
  <2>6. \A t \in fits : size(s) < size(t) \/ (size(s) = size(t) /\ s <= t)
    <3>1. TAKE t \in fits
    <3>2. size(s) = m /\ size(s) \in Nat /\ size(t) \in Nat /\ m <= size(t)
      BY <1>3, <2>2, <2>4, <2>5
    <3>3. size(t) = m => s <= t
      BY <2>4
    <3> HIDE DEF size
    <3> QED BY <3>2, <3>3
  <2>7. s \in fits
    BY <2>4
  <2> HIDE DEF fits
  <2>8. Peek(a, n) = CHOOSE u \in fits : \A t \in fits :
             size(u) < size(t) \/ (size(u) = size(t) /\ u <= t)
    BY <1>5 DEF Peek, fits
  <2> HIDE DEF size
  <2>9. Peek(a, n) \in fits
    BY <2>6, <2>7, <2>8
  <2> QED BY <2>9 DEF fits
<1> QED BY <1>4, <1>5

\* zalloc_take: the extent comes out of what can be had, lies outside the hole, and is
\* the only space that cannot be had any more.
THEOREM TakeIsFresh ==
  ASSUME NEW a, Sound(a), NEW n \in Nat \ {0}
  PROVE  LET t == Take(a, n)
         IN  /\ t.off \in Nat /\ 1 <= t.off
             /\ Ext(t.off, n) \subseteq Room(a) /\ Ext(t.off, n) \cap HoleSet = {}
             /\ Sound(t.a) /\ t.a.pend = a.pend
             /\ Room(t.a) = Room(a) \ Ext(t.off, n)
<1> DEFINE best == Peek(a, n)
           t    == Take(a, n)
<1>1. CASE a.append \/ best = 0
  BY <1>1, ExtendIsFresh DEF Take
<1>2. CASE ~(a.append \/ best = 0)
  <2>1. best \in Fits(a.free, n)
    BY <1>2, PeekFits
  <2>2. t = [off |-> best, a |-> [a EXCEPT !.free = @ \ Ext(best, n)]]
    BY <1>2 DEF Take
  <2> HIDE DEF best
  <2>3. best \in a.free /\ Ext(best, n) \subseteq a.free
    BY <2>1 DEF Fits, Starts
  <2>4. a \in AllocRec /\ a.eof \in Nat /\ a.free \subseteq Nat
    BY DEF Sound, AllocRec
  <2>5. /\ t.off = best /\ t.a.free = a.free \ Ext(best, n)
        /\ t.a.eof = a.eof /\ t.a.pend = a.pend /\ t.a \in AllocRec
    BY <2>2, <2>4 DEF AllocRec
  <2> HIDE DEF t
  <2>6. best \in Nat /\ 1 <= best
    BY <2>3, <2>4 DEF Sound
  <2>7. Sound(t.a)
    BY <2>5 DEF Sound
  <2>8. Ext(best, n) \subseteq Room(a) /\ Ext(best, n) \cap HoleSet = {}
    BY <2>3 DEF Room, Sound
  <2>9. Room(t.a) = Room(a) \ Ext(best, n)
    <3>1. \A g \in Nat : a.eof <= g => g \notin Ext(best, n)
      BY <2>3, <2>4 DEF Sound
    <3> QED BY <2>5, <3>1 DEF Room
  <2> QED BY <2>5, <2>6, <2>7, <2>8, <2>9 DEF t, best
<1> QED BY <1>1, <1>2

\* zalloc_untake: an extent handed out and not kept can be had again, wherever it lay.
THEOREM UntakeGivesBack ==
  ASSUME NEW a, Sound(a), NEW off \in Nat \ {0}, NEW n \in Nat \ {0},
         off + n <= a.eof, Ext(off, n) \cap Room(a) = {}, Ext(off, n) \cap HoleSet = {}
  PROVE  LET u == Untake(a, off, n)
         IN  Sound(u) /\ u.pend = a.pend /\ Room(u) = Room(a) \cup Ext(off, n)
<1> DEFINE u == Untake(a, off, n)
<1>1. a \in AllocRec /\ a.eof \in Nat /\ a.free \subseteq Nat
  BY DEF Sound, AllocRec
<1>2. \A g : g \in Ext(off, n) <=> g \in Nat /\ off <= g /\ g < off + n
  BY InExt
<1>3. CASE off + n = a.eof
  <2>1. u.free = a.free /\ u.eof = off /\ u.pend = a.pend /\ u \in AllocRec
    BY <1>1, <1>3 DEF Untake, AllocRec
  <2> HIDE DEF u
  <2>2. \A g \in a.free : g < off
    BY <1>1, <1>2, <1>3 DEF Sound, Room
  <2>3. off <= Hole0 \/ Hole1 <= off
    <3>1. off \in Ext(off, n)
      BY <1>2
    <3>2. off \notin HoleSet
      BY <3>1
    <3> QED BY <3>2, InHole, HoleAssumption
  <2>4. Sound(u)
    BY <2>1, <2>2, <2>3 DEF Sound
  <2>5. \A g \in Nat : (off <= g /\ g \notin HoleSet) <=> (a.eof <= g /\ g \notin HoleSet) \/ g \in Ext(off, n)
    BY <1>1, <1>2, <1>3
  <2>6. Room(u) = Room(a) \cup Ext(off, n)
    BY <1>2, <2>1, <2>5 DEF Room
  <2> QED BY <2>1, <2>4, <2>6 DEF u
<1>4. CASE off + n # a.eof
  <2>1. u = [a EXCEPT !.free = @ \cup Ext(off, n)]
    BY <1>4 DEF Untake, FrInsert
  <2>2. u.free = a.free \cup Ext(off, n) /\ u.eof = a.eof /\ u.pend = a.pend /\ u \in AllocRec
    BY <1>1, <1>2, <2>1 DEF AllocRec
  <2> HIDE DEF u
  <2>3. Sound(u)
    BY <1>1, <1>2, <2>2 DEF Sound
  <2>4. Room(u) = Room(a) \cup Ext(off, n)
    BY <2>2 DEF Room
  <2> QED BY <2>2, <2>3, <2>4 DEF u
<1> QED BY <1>3, <1>4

\* zalloc_free: space that is given up cannot be had until its generation is released.
THEOREM FreeOnlyPends ==
  ASSUME NEW a, Sound(a), NEW span \in SUBSET Nat, NEW txn \in Nat
  PROVE  LET f == FreeSpan(a, span, txn)
         IN  Sound(f) /\ Room(f) = Room(a) /\ Pending(f) = Pending(a) \cup span
<1> DEFINE f == FreeSpan(a, span, txn)
           D == DOMAIN a.pend \cup {txn}
           p == [t \in D |-> IF t = txn THEN PendAt(a, txn) \cup span ELSE a.pend[t]]
<1>1. PICK T \in SUBSET Nat : a.pend \in [T -> SUBSET Nat]
  BY DEF Sound, AllocRec
<1>2. DOMAIN a.pend = T /\ D \in SUBSET Nat
  BY <1>1
<1>3. PendAt(a, txn) \in SUBSET Nat
  BY <1>1 DEF PendAt
<1>4. p \in [D -> SUBSET Nat]
  BY <1>1, <1>2, <1>3
<1>5. f = [a EXCEPT !.pend = p] /\ a \in AllocRec
  BY DEF FreeSpan, Sound
<1>6. DOMAIN p = D /\ p[txn] = PendAt(a, txn) \cup span /\ \A t \in D \ {txn} : p[t] = a.pend[t]
  OBVIOUS
<1> HIDE DEF p
<1>7. f.free = a.free /\ f.eof = a.eof /\ f.append = a.append /\ f.pend = p
  BY <1>5 DEF AllocRec
<1>8. f \in AllocRec
  <2>1. p \in UNION {[S -> SUBSET Nat] : S \in SUBSET Nat}
    BY <1>2, <1>4
  <2> QED BY <1>5, <2>1 DEF AllocRec
<1> HIDE DEF f
<1>9. Sound(f) /\ Room(f) = Room(a)
  BY <1>7, <1>8 DEF Sound, Room
<1>10. Pending(f) = Pending(a) \cup span
  <2>1. Pending(f) = UNION {p[t] : t \in D}
    BY <1>6, <1>7 DEF Pending
  <2>2. ASSUME NEW g, g \in Pending(f) PROVE g \in Pending(a) \cup span
    <3>1. PICK t \in D : g \in p[t]
      BY <2>1, <2>2
    <3>2. CASE t = txn
      BY <1>6, <3>1, <3>2 DEF PendAt, Pending
    <3>3. CASE t # txn
      BY <1>6, <3>1, <3>3 DEF Pending
    <3> QED BY <3>2, <3>3
  <2>3. ASSUME NEW g, g \in Pending(a) \cup span PROVE g \in Pending(f)
    <3>1. CASE g \in span
      BY <1>6, <2>1, <3>1
    <3>2. CASE g \in Pending(a)
      <4>1. PICK t \in DOMAIN a.pend : g \in a.pend[t]
        BY <3>2 DEF Pending
      <4>2. t \in D /\ g \in p[t]
        BY <1>6, <4>1 DEF PendAt
      <4> QED BY <2>1, <4>2
    <3> QED BY <2>3, <3>1, <3>2
  <2> QED BY <2>2, <2>3
<1> QED BY <1>9, <1>10 DEF f

\* zalloc_release: exactly the generations up to upto can be had again, the later ones
\* stay pending.
THEOREM ReleaseFreesTheOld ==
  ASSUME NEW a, Sound(a), NEW upto \in Nat,
         \A g \in Pending(a) : 1 <= g /\ g < a.eof /\ g \notin HoleSet
  PROVE  LET r == Release(a, upto)
         IN  /\ Sound(r)
             /\ Room(r) = Room(a) \cup UNION {a.pend[t] : t \in {s \in DOMAIN a.pend : s <= upto}}
             /\ \A t : t \in DOMAIN r.pend <=> t \in DOMAIN a.pend /\ upto < t
             /\ \A t \in DOMAIN r.pend : r.pend[t] = a.pend[t]
<1> DEFINE r    == Release(a, upto)
           open == {t \in DOMAIN a.pend : upto < t}
           old  == UNION {a.pend[t] : t \in DOMAIN a.pend \ open}
           p    == [t \in open |-> a.pend[t]]
<1>1. PICK T \in SUBSET Nat : a.pend \in [T -> SUBSET Nat]
  BY DEF Sound, AllocRec
<1>2. DOMAIN a.pend = T /\ open \in SUBSET Nat /\ p \in [open -> SUBSET Nat]
  BY <1>1
<1>3. DOMAIN a.pend \ open = {s \in DOMAIN a.pend : s <= upto}
  <2>1. \A s \in DOMAIN a.pend : s \in Nat
    BY <1>2
  <2>2. \A s \in DOMAIN a.pend : s \notin open <=> s <= upto
    BY <2>1
  <2> HIDE DEF open
  <2> QED BY <2>2
<1>4. r = [a EXCEPT !.free = @ \cup old, !.pend = p] /\ a \in AllocRec
  BY DEF Release, Sound
<1>5. DOMAIN p = open /\ \A t \in open : p[t] = a.pend[t]
  OBVIOUS
<1>6. old \subseteq Pending(a) /\ old \subseteq Nat
  BY <1>1 DEF Pending
<1> HIDE DEF p, old
<1>7. r.free = a.free \cup old /\ r.eof = a.eof /\ r.append = a.append /\ r.pend = p
  BY <1>4 DEF AllocRec
<1>8. r \in AllocRec
  <2>1. p \in UNION {[S -> SUBSET Nat] : S \in SUBSET Nat}
    BY <1>2
  <2> QED BY <1>4, <1>6, <2>1 DEF AllocRec
<1> HIDE DEF r
<1>9. Sound(r)
  BY <1>6, <1>7, <1>8 DEF Sound
<1>10. Room(r) = Room(a) \cup old
  BY <1>7 DEF Room
<1> QED BY <1>3, <1>5, <1>7, <1>9, <1>10 DEF old, r

\* zalloc_trim: giving the tail of the file back to the system loses no space.
THEOREM TrimKeepsSpace ==
  ASSUME NEW a, Sound(a)
  PROVE  LET t == Trim(a)
         IN  Sound(t) /\ t.pend = a.pend /\ t.eof <= a.eof /\ Room(t) = Room(a)
<1> DEFINE idle == a.free \cup HoleSet
           ends == {x \in 1 .. a.eof : Ext(x, a.eof - x) \subseteq idle}
           e    == TrimmedEof(a)
           t    == Trim(a)
<1>1. a \in AllocRec /\ a.eof \in Nat /\ 1 <= a.eof /\ a.free \subseteq Nat
  BY DEF Sound, AllocRec
<1>2. Ext(a.eof, a.eof - a.eof) = {}
  BY <1>1 DEF Ext
<1>3. ends \in SUBSET Nat /\ a.eof \in ends
  BY <1>1, <1>2
<1>4. PICK m \in ends : \A x \in ends : m <= x
  <2> HIDE DEF ends
  <2> QED BY <1>3, NatMin
<1>5. m \in 1 .. a.eof /\ m \in Nat /\ Ext(m, a.eof - m) \subseteq idle
  BY <1>3, <1>4
<1>6. m = 1 \/ (m - 1) \notin idle
  <2>1. SUFFICES ASSUME m # 1, m - 1 \in idle PROVE FALSE
    OBVIOUS
  <2>2. m - 1 \in 1 .. a.eof
    BY <1>1, <1>5, <2>1
  <2>3. \A g \in Ext(m - 1, a.eof - (m - 1)) : g = m - 1 \/ g \in Ext(m, a.eof - m)
    BY <1>1, <1>5, <2>2 DEF Ext
  <2>4. m - 1 \in ends
    BY <1>5, <2>1, <2>2, <2>3
  <2> QED BY <1>4, <1>5, <2>4
<1>7. /\ e \in 1 .. a.eof /\ Ext(e, a.eof - e) \subseteq idle
      /\ e = 1 \/ (e - 1) \notin idle
  BY <1>5, <1>6 DEF TrimmedEof
<1>8. t = [a EXCEPT !.eof = e, !.free = @ \ Ext(e, a.eof - e)]
  BY DEF Trim
<1> HIDE DEF e
<1>9. e \in Nat /\ 1 <= e /\ e <= a.eof
  BY <1>1, <1>7
<1>10. \A g : g \in Ext(e, a.eof - e) <=> g \in Nat /\ e <= g /\ g < a.eof
  BY <1>1, <1>9 DEF Ext
<1>11. t.free = a.free \ Ext(e, a.eof - e) /\ t.eof = e /\ t.pend = a.pend /\ t \in AllocRec
  BY <1>1, <1>8, <1>9 DEF AllocRec
<1> HIDE DEF t
<1>12. e <= Hole0 \/ Hole1 <= e
  <2>1. Hole0 < e /\ e < Hole1 => e - 1 \in HoleSet /\ e # 1
    BY <1>9, InHole, HoleAssumption
  <2> QED BY <1>7, <1>9, <2>1, HoleAssumption
<1>13. \A g \in t.free : 1 <= g /\ g < t.eof /\ g \notin HoleSet
  BY <1>1, <1>9, <1>10, <1>11 DEF Sound
<1>14. Sound(t)
  BY <1>9, <1>11, <1>12, <1>13 DEF Sound
<1>15. Room(t) = Room(a)
  <2>1. ASSUME NEW g \in Nat PROVE g \in Room(t) <=> g \in Room(a)
    <3>1. CASE g \in Ext(e, a.eof - e)
      BY <1>1, <1>7, <1>9, <1>10, <1>11, <3>1 DEF Room, Sound
    <3>2. CASE g \notin Ext(e, a.eof - e)
      BY <1>1, <1>9, <1>10, <1>11, <3>2 DEF Room, Sound
    <3> QED BY <3>1, <3>2
  <2>2. Room(t) \subseteq Nat /\ Room(a) \subseteq Nat
    BY <1>1, <1>11 DEF Room
  <2> QED BY <2>1, <2>2
<1> QED BY <1>9, <1>11, <1>14, <1>15 DEF t

----------------------------------------------------------------------------
(* What is given up, with the commit that did. *)

LEMMA InProduct ==
  ASSUME NEW t, NEW S, NEW x
  PROVE  x \in {t} \X S <=> \E g \in S : x = <<t, g>>
OBVIOUS

LEMMA InLimbo ==
  ASSUME NEW a
  PROVE  \A x : x \in Limbo(a) <=> \E t \in DOMAIN a.pend : \E g \in a.pend[t] : x = <<t, g>>
<1> TAKE x
<1>1. \A t : x \in {t} \X a.pend[t] <=> \E g \in a.pend[t] : x = <<t, g>>
  BY InProduct
<1>2. x \in Limbo(a) <=> \E t \in DOMAIN a.pend : x \in {t} \X a.pend[t]
  BY DEF Limbo
<1> QED BY <1>1, <1>2

LEMMA LimboIsPending ==
  ASSUME NEW a, Sound(a)
  PROVE  /\ Limbo(a) \subseteq Nat \X Nat
         /\ Pending(a) = {x[2] : x \in Limbo(a)}
<1>1. PICK T \in SUBSET Nat : a.pend \in [T -> SUBSET Nat]
  BY DEF Sound, AllocRec
<1>2. \A t \in DOMAIN a.pend : t \in Nat /\ a.pend[t] \in SUBSET Nat
  BY <1>1
<1>3. \A x \in Limbo(a) : x \in Nat \X Nat /\ x[2] \in Pending(a)
  BY <1>2, InLimbo DEF Pending
<1>4. ASSUME NEW g \in Pending(a) PROVE \E t : <<t, g>> \in Limbo(a)
  <2>1. PICK t \in DOMAIN a.pend : g \in a.pend[t]
    BY DEF Pending
  <2>2. <<t, g>> \in Limbo(a)
    BY ONLY <2>1, InLimbo
  <2> QED BY <2>2
<1>5. ASSUME NEW g \in Pending(a) PROVE g \in {x[2] : x \in Limbo(a)}
  <2>1. PICK t : <<t, g>> \in Limbo(a)
    BY <1>4
  <2>2. <<t, g>>[2] = g
    OBVIOUS
  <2> QED BY <2>1, <2>2
<1> QED BY <1>3, <1>5

\* A set of granules more under one number.
LEMMA LimboGrows ==
  ASSUME NEW a, NEW f, NEW span, NEW txn,
         DOMAIN f.pend = DOMAIN a.pend \cup {txn}, f.pend[txn] = PendAt(a, txn) \cup span,
         \A t \in DOMAIN a.pend \ {txn} : f.pend[t] = a.pend[t]
  PROVE  Limbo(f) = Limbo(a) \cup ({txn} \X span)
<1> SUFFICES ASSUME NEW x PROVE x \in Limbo(f) <=> x \in Limbo(a) \cup ({txn} \X span)
  OBVIOUS
<1>1. /\ x \in Limbo(f) <=> \E t \in DOMAIN f.pend : \E g \in f.pend[t] : x = <<t, g>>
      /\ x \in Limbo(a) <=> \E t \in DOMAIN a.pend : \E g \in a.pend[t] : x = <<t, g>>
      /\ x \in {txn} \X span <=> \E g \in span : x = <<txn, g>>
  BY InLimbo, InProduct
<1>2. PendAt(a, txn) = IF txn \in DOMAIN a.pend THEN a.pend[txn] ELSE {}
  BY DEF PendAt
<1>3. ASSUME x \in Limbo(f) PROVE x \in Limbo(a) \cup ({txn} \X span)
  <2>1. PICK t \in DOMAIN f.pend : \E g \in f.pend[t] : x = <<t, g>>
    BY <1>1, <1>3
  <2>2. PICK g \in f.pend[t] : x = <<t, g>>
    BY <2>1
  <2>3. CASE t = txn
    BY <1>1, <1>2, <2>2, <2>3
  <2>4. CASE t # txn
    BY <1>1, <2>2, <2>4
  <2> QED BY <2>3, <2>4
<1>4. ASSUME x \in Limbo(a) PROVE x \in Limbo(f)
  <2>1. PICK t \in DOMAIN a.pend : \E g \in a.pend[t] : x = <<t, g>>
    BY <1>1, <1>4
  <2>2. PICK g \in a.pend[t] : x = <<t, g>>
    BY <2>1
  <2>3. g \in f.pend[t]
    BY <1>2, <2>2
  <2> QED BY <1>1, <2>2, <2>3
<1>5. ASSUME x \in {txn} \X span PROVE x \in Limbo(f)
  BY <1>1, <1>5
<1> QED BY <1>3, <1>4, <1>5

\* zalloc_free adds to limbo under the number of the commit.
LEMMA FreeSpanLimbo ==
  ASSUME NEW a, Sound(a), NEW span \in SUBSET Nat, NEW txn \in Nat
  PROVE  LET f == FreeSpan(a, span, txn)
         IN  /\ Sound(f) /\ Room(f) = Room(a) /\ f.append = a.append /\ f.eof = a.eof
             /\ Limbo(f) = Limbo(a) \cup ({txn} \X span)
<1> DEFINE f == FreeSpan(a, span, txn)
           D == DOMAIN a.pend \cup {txn}
           p == [t \in D |-> IF t = txn THEN PendAt(a, txn) \cup span ELSE a.pend[t]]
<1>1. Sound(f) /\ Room(f) = Room(a)
  BY FreeOnlyPends
<1>2. f = [a EXCEPT !.pend = p] /\ a \in AllocRec
  BY DEF FreeSpan, Sound
<1>3. f.pend = p /\ f.append = a.append /\ f.eof = a.eof
  BY <1>2 DEF AllocRec
<1>4. DOMAIN p = D /\ p[txn] = PendAt(a, txn) \cup span /\ \A t \in D \ {txn} : p[t] = a.pend[t]
  OBVIOUS
<1> HIDE DEF p, f
<1>5. Limbo(f) = Limbo(a) \cup ({txn} \X span)
  <2>1. /\ DOMAIN f.pend = DOMAIN a.pend \cup {txn} /\ f.pend[txn] = PendAt(a, txn) \cup span
        /\ \A t \in DOMAIN a.pend \ {txn} : f.pend[t] = a.pend[t]
    BY <1>3, <1>4
  <2> QED BY ONLY <2>1, LimboGrows
<1> QED BY <1>1, <1>3, <1>5 DEF f

\* zalloc_release takes out of limbo what commits up to upto gave up, and only that
\* can be had again.
LEMMA ReleaseLimbo ==
  ASSUME NEW a, Sound(a), NEW upto \in Nat,
         \A g \in Pending(a) : 1 <= g /\ g < a.eof /\ g \notin HoleSet
  PROVE  LET r   == Release(a, upto)
             old == {x \in Limbo(a) : x[1] <= upto}
         IN  /\ Sound(r) /\ r.append = a.append
             /\ Room(r) = Room(a) \cup {x[2] : x \in old} /\ Limbo(r) = Limbo(a) \ old
<1> DEFINE r   == Release(a, upto)
           old == {x \in Limbo(a) : x[1] <= upto}
<1>1. /\ Sound(r)
      /\ Room(r) = Room(a) \cup UNION {a.pend[t] : t \in {s \in DOMAIN a.pend : s <= upto}}
      /\ \A t : t \in DOMAIN r.pend <=> t \in DOMAIN a.pend /\ upto < t
      /\ \A t \in DOMAIN r.pend : r.pend[t] = a.pend[t]
  BY ReleaseFreesTheOld
<1>2. PICK T \in SUBSET Nat : a.pend \in [T -> SUBSET Nat]
  BY DEF Sound, AllocRec
<1>3. r.append = a.append
  BY DEF Release, Sound, AllocRec
<1> HIDE DEF r
<1>4. ASSUME NEW x PROVE x \in Limbo(r) <=> x \in Limbo(a) \ old
  <2>1. x \in Limbo(r) <=> \E t \in DOMAIN r.pend : \E g \in r.pend[t] : x = <<t, g>>
    BY InLimbo
  <2>2. x \in Limbo(a) <=> \E t \in DOMAIN a.pend : \E g \in a.pend[t] : x = <<t, g>>
    BY InLimbo
  <2>3. \A t \in DOMAIN a.pend : t \in Nat
    BY <1>2
  <2>4. ASSUME x \in Limbo(r) PROVE x \in Limbo(a) /\ ~(x[1] <= upto)
    <3>0. PICK t \in DOMAIN r.pend : \E g \in r.pend[t] : x = <<t, g>>
      BY <2>1, <2>4
    <3>1. PICK g \in r.pend[t] : x = <<t, g>>
      BY <3>0
    <3>2. t \in DOMAIN a.pend /\ upto < t /\ g \in a.pend[t] /\ x[1] = t
      BY <1>1, <3>1
    <3> QED BY <2>2, <2>3, <3>1, <3>2
  <2>5. ASSUME x \in Limbo(a), ~(x[1] <= upto) PROVE x \in Limbo(r)
    <3>0. PICK t \in DOMAIN a.pend : \E g \in a.pend[t] : x = <<t, g>>
      BY <2>2, <2>5
    <3>1. PICK g \in a.pend[t] : x = <<t, g>>
      BY <3>0
    <3>2. x[1] = t /\ upto < t
      BY <2>3, <2>5, <3>1
    <3> QED BY <1>1, <2>1, <3>1, <3>2
  <2> QED BY <2>4, <2>5
<1>5. UNION {a.pend[t] : t \in {s \in DOMAIN a.pend : s <= upto}} = {x[2] : x \in old}
  <2>1. ASSUME NEW g, NEW t \in DOMAIN a.pend, t <= upto, g \in a.pend[t]
        PROVE  g \in {x[2] : x \in old}
    <3>1. <<t, g>> \in old
      BY <2>1, InLimbo
    <3> QED BY <3>1
  <2>2. ASSUME NEW x \in old
        PROVE  \E t \in DOMAIN a.pend : t <= upto /\ x[2] \in a.pend[t]
    BY InLimbo
  <2> HIDE DEF old
  <2> QED BY <2>1, <2>2
<1> QED BY <1>1, <1>3, <1>4, <1>5 DEF r

LEMMA TakeLimbo ==
  ASSUME NEW a, Sound(a), NEW n \in Nat \ {0}
  PROVE  LET t == Take(a, n)
         IN  /\ t.a.append = a.append /\ Limbo(t.a) = Limbo(a)
             /\ ~a.append /\ Peek(a, n) # 0 => t.off = Peek(a, n)
<1>1. Take(a, n).a.pend = a.pend
  BY TakeIsFresh
<1>2. Take(a, n).a.append = a.append
  BY DEF Take, Extend, ReserveEof, Sound, AllocRec
<1> QED BY <1>1, <1>2 DEF Limbo, Take

LEMMA TrimLimbo ==
  ASSUME NEW a, Sound(a)
  PROVE  Trim(a).append = a.append /\ Limbo(Trim(a)) = Limbo(a)
<1>1. Trim(a).pend = a.pend
  BY TrimKeepsSpace
<1>2. Trim(a).append = a.append
  BY DEF Trim, Sound, AllocRec
<1> QED BY <1>1, <1>2 DEF Limbo

----------------------------------------------------------------------------
(* Records and maps, on a disk without end. *)

Endless == Granules = Nat \ {0}

\* The record of every page a map names is where the map says.
Stored(d, t) ==
  /\ t \in [Pages -> [off : Nat, len : Nat]]
  /\ \A p \in Pages : Serves(d, t, p) /\ (t[p] # Absent => t[p].off >= 1 /\ t[p].len >= 1)

LEMMA InSpan ==
  ASSUME NEW t
  PROVE  \A g : g \in Span(t) <=> \E p \in Pages : g \in Ext(t[p].off, t[p].len)
BY DEF Span

\* A granule of a page's record says whose it is, so no two pages share one.
LEMMA PlaceOfPage ==
  ASSUME NEW d, NEW t, Stored(d, t), NEW p \in Pages, NEW g \in Ext(t[p].off, t[p].len)
  PROVE  /\ t[p] # Absent /\ g \in Nat \ {0}
         /\ d[g] = d[t[p].off] /\ d[g].kind = "page" /\ d[g].page = p
<1>1. t[p] \in [off : Nat, len : Nat]
  BY DEF Stored
<1>2. g \in Nat /\ t[p].off <= g /\ g < t[p].off + t[p].len
  BY <1>1 DEF Ext
<1>3. t[p] # Absent
  BY <1>1, <1>2 DEF Absent
<1>4. t[p].off >= 1 /\ Whole(d, t[p].off, t[p].len, "page") /\ d[t[p].off].page = p
  BY <1>3 DEF Stored, Serves
<1>5. d[g] = d[t[p].off]
  BY <1>4 DEF Whole
<1> QED BY <1>1, <1>2, <1>3, <1>4, <1>5 DEF Whole

LEMMA FirstOfPage ==
  ASSUME NEW d, NEW t, Stored(d, t), NEW p \in Pages, t[p] # Absent
  PROVE  t[p].off \in Ext(t[p].off, t[p].len)
BY DEF Stored, Ext

LEMMA SpanIsNat ==
  ASSUME NEW d, NEW t, Stored(d, t)
  PROVE  Span(t) \subseteq Nat \ {0}
BY PlaceOfPage, InSpan

\* A map holds, and its pages read the same, on a disk with the same records there.
LEMMA StoredFrame ==
  ASSUME NEW d, NEW t, Stored(d, t), NEW d2, \A g \in Span(t) : d2[g] = d[g]
  PROVE  Stored(d2, t) /\ \A p \in Pages : ValAt(d2, t[p]) = ValAt(d, t[p])
<1>1. ASSUME NEW p \in Pages, t[p] # Absent
      PROVE  Serves(d2, t, p) /\ d2[t[p].off] = d[t[p].off]
  <2>1. \A g \in Ext(t[p].off, t[p].len) : d2[g] = d[g]
    BY InSpan
  <2>2. t[p].off \in Ext(t[p].off, t[p].len)
    BY <1>1, FirstOfPage
  <2>3. Whole(d, t[p].off, t[p].len, "page") /\ d[t[p].off].page = p
    BY <1>1 DEF Stored, Serves
  <2> QED BY <2>1, <2>2, <2>3 DEF Serves, Whole
<1>2. ASSUME NEW p \in Pages PROVE Serves(d2, t, p)
  BY <1>1 DEF Serves
<1>3. Stored(d2, t)
  BY <1>2 DEF Stored
<1> QED BY <1>1, <1>3 DEF ValAt

\* Map t2 is t with a new place for page p, where disk d2 has its record.
Repoint(d, t, p, d2, t2) ==
  /\ t2 \in [Pages -> [off : Nat, len : Nat]] /\ t2[p].off >= 1 /\ t2[p].len >= 1
  /\ \A q \in Pages \ {p} : t2[q] = t[q]
  /\ Whole(d2, t2[p].off, t2[p].len, "page") /\ d2[t2[p].off].page = p
  /\ \A g \in Span(t) \ Ext(t[p].off, t[p].len) : d2[g] = d[g]

LEMMA StoredPut ==
  ASSUME NEW d, NEW t, Stored(d, t), NEW p \in Pages, NEW d2, NEW t2, Repoint(d, t, p, d2, t2)
  PROVE  /\ Stored(d2, t2)
         /\ Span(t2) = (Span(t) \ Ext(t[p].off, t[p].len)) \cup Ext(t2[p].off, t2[p].len)
         /\ \A q \in Pages \ {p} : ValAt(d2, t2[q]) = ValAt(d, t[q])
         /\ t2[p] # Absent /\ ValAt(d2, t2[p]) = d2[t2[p].off].val
<1>1. /\ t2 \in [Pages -> [off : Nat, len : Nat]] /\ t2[p].off >= 1 /\ t2[p].len >= 1
      /\ \A q \in Pages \ {p} : t2[q] = t[q]
      /\ Whole(d2, t2[p].off, t2[p].len, "page") /\ d2[t2[p].off].page = p
      /\ \A g \in Span(t) \ Ext(t[p].off, t[p].len) : d2[g] = d[g]
  BY DEF Repoint
<1>2. t2[p] # Absent
  BY <1>1 DEF Absent
<1>3. ASSUME NEW q \in Pages \ {p}, NEW g \in Ext(t[q].off, t[q].len)
      PROVE  g \in Span(t) \ Ext(t[p].off, t[p].len)
  <2>1. d[g].page = q
    BY <1>3, PlaceOfPage
  <2>2. g \in Ext(t[p].off, t[p].len) => d[g].page = p
    BY PlaceOfPage
  <2> QED BY <1>3, <2>1, <2>2, InSpan
<1>4. ASSUME NEW q \in Pages \ {p}, t[q] # Absent
      PROVE  Serves(d2, t2, q) /\ d2[t[q].off] = d[t[q].off]
  <2>1. \A g \in Ext(t[q].off, t[q].len) : d2[g] = d[g]
    BY <1>1, <1>3
  <2>2. t[q].off \in Ext(t[q].off, t[q].len)
    BY <1>4, FirstOfPage
  <2>3. Whole(d, t[q].off, t[q].len, "page") /\ d[t[q].off].page = q
    BY <1>4 DEF Stored, Serves
  <2> QED BY <1>1, <2>1, <2>2, <2>3 DEF Serves, Whole
<1>5. Stored(d2, t2)
  <2>1. ASSUME NEW q \in Pages PROVE Serves(d2, t2, q) /\ (t2[q] # Absent => t2[q].off >= 1 /\ t2[q].len >= 1)
    <3>1. CASE q = p
      BY <1>1, <3>1 DEF Serves
    <3>2. CASE q # p
      BY <1>1, <1>4, <3>2 DEF Serves, Stored
    <3> QED BY <3>1, <3>2
  <2> QED BY <1>1, <2>1 DEF Stored
<1>6. Span(t2) = (Span(t) \ Ext(t[p].off, t[p].len)) \cup Ext(t2[p].off, t2[p].len)
  <2>1. ASSUME NEW g \in Span(t2)
        PROVE  g \in (Span(t) \ Ext(t[p].off, t[p].len)) \cup Ext(t2[p].off, t2[p].len)
    <3>1. PICK q \in Pages : g \in Ext(t2[q].off, t2[q].len)
      BY <2>1, InSpan
    <3> QED BY <1>1, <1>3, <3>1
  <2>2. ASSUME NEW g \in Span(t) \ Ext(t[p].off, t[p].len) PROVE g \in Span(t2)
    <3>1. PICK q \in Pages : g \in Ext(t[q].off, t[q].len)
      BY InSpan
    <3>2. q # p
      BY <3>1
    <3> QED BY <1>1, <3>1, <3>2, InSpan
  <2>3. ASSUME NEW g \in Ext(t2[p].off, t2[p].len) PROVE g \in Span(t2)
    BY <2>3, InSpan
  <2> QED BY <2>1, <2>2, <2>3
<1>7. \A q \in Pages \ {p} : ValAt(d2, t2[q]) = ValAt(d, t[q])
  BY <1>1, <1>4 DEF ValAt
<1>8. ValAt(d2, t2[p]) = d2[t2[p].off].val
  BY <1>2 DEF ValAt
<1> QED BY <1>2, <1>5, <1>6, <1>7, <1>8

\* Table u is table t with page p moved to the blob at off, the disk going from d to d2.
MovesTo(d, d2, t, u, p, off, len) ==
  /\ Stored(d2, u)
  /\ Span(u) = (Span(t) \ Ext(t[p].off, t[p].len)) \cup Ext(off, len)
  /\ \A q \in Pages \ {p} : u[q] = t[q] /\ ValAt(d2, u[q]) = ValAt(d, t[q])
  /\ u[p] # Absent /\ ValAt(d2, u[p]) = d2[off].val

\* A new place for one page.
LEMMA StoredSet ==
  ASSUME NEW d, NEW t, Stored(d, t), NEW p \in Pages, NEW off \in Nat \ {0}, NEW len \in Nat \ {0},
         NEW d2, \A g \in Span(t) \ Ext(t[p].off, t[p].len) : d2[g] = d[g],
         Whole(d2, off, len, "page"), d2[off].page = p,
         NEW u, u = [t EXCEPT ![p] = [off |-> off, len |-> len]]
  PROVE  MovesTo(d, d2, t, u, p, off, len)
<1> DEFINE e  == [off |-> off, len |-> len]
<1>1. t \in [Pages -> [off : Nat, len : Nat]] /\ e \in [off : Nat, len : Nat]
      /\ e.off = off /\ e.len = len /\ u = [t EXCEPT ![p] = e]
  BY DEF Stored
<1> HIDE DEF e
<1>2. u \in [Pages -> [off : Nat, len : Nat]] /\ u[p] = e /\ \A q \in Pages \ {p} : u[q] = t[q]
  BY ONLY <1>1
<1>3. Repoint(d, t, p, d2, u)
  BY <1>1, <1>2 DEF Repoint
<1>4. /\ Stored(d2, u) /\ u[p] # Absent /\ ValAt(d2, u[p]) = d2[off].val
      /\ Span(u) = (Span(t) \ Ext(t[p].off, t[p].len)) \cup Ext(off, len)
      /\ \A q \in Pages \ {p} : ValAt(d2, u[q]) = ValAt(d, t[q])
  <2>1. Stored(d, t) /\ p \in Pages
    OBVIOUS
  <2>2. /\ Stored(d2, u)
        /\ Span(u) = (Span(t) \ Ext(t[p].off, t[p].len)) \cup Ext(u[p].off, u[p].len)
        /\ \A q \in Pages \ {p} : ValAt(d2, u[q]) = ValAt(d, t[q])
        /\ u[p] # Absent /\ ValAt(d2, u[p]) = d2[u[p].off].val
    BY ONLY <2>1, <1>3, StoredPut
  <2> QED BY ONLY <1>1, <1>2, <2>2
<1> QED BY ONLY <1>2, <1>4 DEF MovesTo

LEMMA WriteIs ==
  ASSUME NEW d, NEW r
  PROVE  \A g \in Granules : Write(d, r)[g] = IF g \in Ext(r.off, r.len) THEN r ELSE d[g]
BY DEF Write

\* Disk d2 is d with page p, of content v, in the extent that begins at off.
HasPage(d2, d, off, len, p, v) ==
  /\ Whole(d2, off, len, "page") /\ d2[off].page = p /\ d2[off].val = v
  /\ \A g \in Granules \ Ext(off, len) : d2[g] = d[g]

LEMMA PageWritten ==
  ASSUME Endless, NEW d, NEW off \in Nat \ {0}, NEW len \in Nat \ {0}, NEW p, NEW v
  PROVE  HasPage(Write(d, PageRec(off, len, p, v)), d, off, len, p, v)
<1> DEFINE r == PageRec(off, len, p, v)
<1>1. r.off = off /\ r.len = len /\ r.kind = "page" /\ r.page = p /\ r.val = v
  BY DEF PageRec
<1> HIDE DEF r
<1>2. off \in Ext(off, len) /\ Ext(off, len) \subseteq Granules
  BY DEF Endless, Ext
<1> QED BY <1>1, <1>2, WriteIs DEF HasPage, Whole, r

----------------------------------------------------------------------------
(* The compaction *)

\* How far a walk s over the records of map t has come, with a the allocator and d the
\* disk it began with.  Every page reads as before, what the map names now is what it
\* named then or was room then, and what it names no longer waits in limbo.
Walked(s, a, d, t, txn) ==
  /\ s = [a |-> s.a, disk |-> s.disk, tab |-> s.tab, moved |-> s.moved]
  /\ Sound(s.a) /\ s.a.append = FALSE
  /\ Stored(s.disk, s.tab)
  /\ Span(s.tab) \subseteq Span(t) \cup Room(a)
  /\ Room(s.a) = Room(a) \ Span(s.tab)
  /\ Limbo(s.a) = Limbo(a) \cup ({txn} \X (Span(t) \ Span(s.tab)))
  /\ \A g \in Granules \ Room(a) : s.disk[g] = d[g]
  /\ \A p \in Pages : (s.tab[p] = Absent <=> t[p] = Absent) /\ ValAt(s.disk, s.tab[p]) = ValAt(d, t[p])

\* The live records that the walk has yet to meet are where they were.
ToMeet(todo, s, t, root) ==
  \A o \in todo : /\ o \in Nat \ {0}
                  /\ \/ o = root
                     \/ \E p \in Pages : t[p] # Absent /\ s.tab[p] = t[p] /\ o = t[p].off

\* What a commit may take for granted of the generation it replaces.
Standing(a, d, t, root) ==
  /\ Span(t) \cap Room(a) = {}
  /\ root = 0 \/ (root \in Granules \ Room(a) /\ d[root].kind = "node")

LEMMA ProductGrows ==
  ASSUME NEW t, NEW S, NEW A, NEW B, B = S \cup A
  PROVE  {t} \X B = ({t} \X S) \cup ({t} \X A)
OBVIOUS

LEMMA MoveKeeps ==
  ASSUME Endless, NEW a, NEW d, NEW t, NEW root, NEW txn \in Nat, Standing(a, d, t, root),
         NEW s, Walked(s, a, d, t, txn), NEW todo, ToMeet(todo, s, t, root), NEW off \in todo
  PROVE  /\ Walked(MoveRecord(s, off, txn), a, d, t, txn)
         /\ ToMeet(todo \ {off}, MoveRecord(s, off, txn), t, root)
<1> DEFINE s2  == MoveRecord(s, off, txn)
           n   == s.disk[off].len
           dst == Peek(s.a, n)
           p   == s.disk[off].page
<1>1. CASE dst = 0 \/ dst >= off
  <2>1. s2 = s
    BY <1>1 DEF MoveRecord
  <2> HIDE DEF s2
  <2>2. Walked(s2, a, d, t, txn) /\ ToMeet(todo \ {off}, s2, t, root)
    BY <2>1 DEF ToMeet
  <2> QED BY <2>2 DEF s2
<1>2. CASE ~(dst = 0 \/ dst >= off) /\ s.disk[off].kind = "node"
  <2>1. s2 = [s EXCEPT !.moved = @ + 1]
    BY <1>2 DEF MoveRecord
  <2>2. s = [a |-> s.a, disk |-> s.disk, tab |-> s.tab, moved |-> s.moved]
    BY DEF Walked
  <2> HIDE DEF s2
  <2>3. s2.a = s.a /\ s2.disk = s.disk /\ s2.tab = s.tab
        /\ s2 = [a |-> s2.a, disk |-> s2.disk, tab |-> s2.tab, moved |-> s2.moved]
    BY <2>1, <2>2
  <2>4. ToMeet(todo \ {off}, s2, t, root)
    BY <2>3 DEF ToMeet
  <2>5. Walked(s2, a, d, t, txn)
    BY <2>3 DEF Walked
  <2> QED BY <2>4, <2>5 DEF s2
<1>3. CASE ~(dst = 0 \/ dst >= off) /\ s.disk[off].kind # "node"
  <2>1. off \in Nat \ {0} /\ off # root
    <3>1. off = root => root \in Granules \ Room(a) /\ d[root].kind = "node"
      BY DEF ToMeet, Standing
    <3>2. off # root
      BY <1>3, <3>1 DEF Walked
    <3> QED BY <3>2 DEF ToMeet
  <2>2. PICK q \in Pages : t[q] # Absent /\ s.tab[q] = t[q] /\ off = t[q].off
    BY <2>1 DEF ToMeet
  <2>3. Stored(s.disk, s.tab)
    BY DEF Walked
  <2>4. off \in Ext(s.tab[q].off, s.tab[q].len)
    BY <2>2, <2>3, FirstOfPage
  <2>5. p = q
    BY <2>3, <2>4, PlaceOfPage
  <2>6. n = s.tab[q].len /\ n \in Nat \ {0} /\ off = s.tab[q].off
    <3>1. Serves(s.disk, s.tab, q) /\ s.tab[q].len >= 1 /\ s.tab[q] \in [off : Nat, len : Nat]
      BY <2>2, <2>3 DEF Stored
    <3> QED BY <2>2, <3>1 DEF Serves, Whole
  <2> DEFINE k == Take(s.a, n)
  <2>7. Sound(s.a) /\ s.a.append = FALSE
    BY DEF Walked
  <2> HIDE DEF n, p
  <2>8. /\ Ext(k.off, n) \subseteq Room(s.a) /\ Sound(k.a) /\ Room(k.a) = Room(s.a) \ Ext(k.off, n)
        /\ k.off \in Nat /\ 1 <= k.off
    BY <2>6, <2>7, TakeIsFresh
  <2>9. k.off = dst /\ k.a.append = FALSE /\ Limbo(k.a) = Limbo(s.a)
    BY <1>3, <2>6, <2>7, TakeLimbo
  <2> DEFINE old == Ext(off, n)
             new == Ext(dst, n)
             f   == FreeSpan(k.a, old, txn)
             rec == PageRec(dst, n, p, s.disk[off].val)
             d2  == Write(s.disk, rec)
             t2  == [s.tab EXCEPT ![p] = [off |-> dst, len |-> n]]
  <2> HIDE DEF k, dst
  <2>10. /\ Sound(f) /\ f.append = FALSE /\ Room(f) = Room(s.a) \ new
         /\ Limbo(f) = Limbo(s.a) \cup ({txn} \X old)
    <3>1. old \in SUBSET Nat
      BY <2>1, <2>6, InExt
    <3> HIDE DEF old
    <3> QED BY <2>8, <2>9, <3>1, FreeSpanLimbo
  <2>11. s2 = [a |-> f, disk |-> d2, tab |-> t2, moved |-> s.moved + 1]
    BY <1>3 DEF MoveRecord, k, n, p, dst
  <2>12. s2.a = f /\ s2.disk = d2 /\ s2.tab = t2
         /\ s2 = [a |-> s2.a, disk |-> s2.disk, tab |-> s2.tab, moved |-> s2.moved]
    BY <2>11
  <2> HIDE DEF s2, f
  <2> DEFINE v == s.disk[off].val
  <2>13. /\ Whole(d2, dst, n, "page") /\ d2[dst].page = q /\ d2[dst].val = v
         /\ \A g \in Granules \ new : d2[g] = s.disk[g]
    <3>1. dst \in Nat \ {0} /\ n \in Nat \ {0} /\ Endless
      BY <2>6, <2>8, <2>9
    <3>2. d2 = Write(s.disk, PageRec(dst, n, q, v))
      BY <2>5
    <3> HIDE DEF d2, v
    <3>3. HasPage(d2, s.disk, dst, n, q, v)
      BY ONLY <3>1, <3>2, PageWritten
    <3> QED BY ONLY <3>3 DEF HasPage
  <2> HIDE DEF v
  <2>14. new \subseteq Room(a) /\ new \cap Span(s.tab) = {}
    BY <2>8, <2>9 DEF Walked
  <2>15. Span(s.tab) \subseteq Granules
    BY <2>3, SpanIsNat DEF Endless
  <2>16. \A g \in Span(s.tab) : d2[g] = s.disk[g]
    BY <2>13, <2>14, <2>15
  <2> HIDE DEF d2, rec
  <2>17. /\ Stored(d2, t2) /\ Span(t2) = (Span(s.tab) \ old) \cup new
         /\ \A x \in Pages \ {q} : t2[x] = s.tab[x] /\ ValAt(d2, t2[x]) = ValAt(s.disk, s.tab[x])
         /\ t2[q] # Absent /\ ValAt(d2, t2[q]) = d2[dst].val
    <3>1. dst \in Nat \ {0} /\ n \in Nat \ {0} /\ old = Ext(s.tab[q].off, s.tab[q].len)
      BY <2>6, <2>8, <2>9
    <3>2. \A g \in Span(s.tab) \ Ext(s.tab[q].off, s.tab[q].len) : d2[g] = s.disk[g]
      BY <2>16
    <3>3. t2 = [s.tab EXCEPT ![q] = [off |-> dst, len |-> n]]
      BY <2>5
    <3>4. q \in Pages /\ new = Ext(dst, n)
      OBVIOUS
    <3> HIDE DEF t2, old, new
    <3>5. MovesTo(s.disk, d2, s.tab, t2, q, dst, n)
      BY ONLY <2>3, <2>13, <3>1, <3>2, <3>3, <3>4, StoredSet
    <3> QED BY ONLY <3>1, <3>4, <3>5 DEF MovesTo
  <2> HIDE DEF t2
  <2>18. old \subseteq Span(s.tab) /\ old \subseteq Span(t) /\ old \cap Room(a) = {}
    <3>1. old \subseteq Span(s.tab)
      BY <2>6, InSpan
    <3>2. old \subseteq Span(t)
      BY <2>2, <2>6, InSpan
    <3> QED BY <3>1, <3>2 DEF Standing
  <2> HIDE DEF old, new
  <2>19. Span(t2) \subseteq Span(t) \cup Room(a) /\ Room(f) = Room(a) \ Span(t2)
    BY <2>10, <2>14, <2>17, <2>18 DEF Walked
  <2>20. Limbo(f) = Limbo(a) \cup ({txn} \X (Span(t) \ Span(t2)))
    <3>1. Span(t) \ Span(t2) = (Span(t) \ Span(s.tab)) \cup old
      BY <2>14, <2>17, <2>18 DEF Standing
    <3>2. {txn} \X (Span(t) \ Span(t2)) = ({txn} \X (Span(t) \ Span(s.tab))) \cup ({txn} \X old)
      BY ONLY <3>1, ProductGrows
    <3>3. Limbo(s.a) = Limbo(a) \cup ({txn} \X (Span(t) \ Span(s.tab)))
      BY DEF Walked
    <3> QED BY ONLY <2>10, <3>2, <3>3
  <2>21. \A g \in Granules \ Room(a) : d2[g] = d[g]
    BY <2>13, <2>14 DEF Walked
  <2>22. ASSUME NEW x \in Pages
         PROVE  (t2[x] = Absent <=> t[x] = Absent) /\ ValAt(d2, t2[x]) = ValAt(d, t[x])
    <3>1. CASE x = q
      <4>1. ValAt(d, t[q]) = ValAt(s.disk, s.tab[q])
        BY DEF Walked
      <4>2. ValAt(s.disk, s.tab[q]) = v
        BY <2>2 DEF ValAt, v
      <4> QED BY <2>2, <2>13, <2>17, <3>1, <4>1, <4>2
    <3>2. CASE x # q
      BY <2>17, <3>2 DEF Walked
    <3> QED BY <3>1, <3>2
  <2>23. Walked(s2, a, d, t, txn)
    BY <2>10, <2>12, <2>17, <2>19, <2>20, <2>21, <2>22 DEF Walked
  <2>24. ToMeet(todo \ {off}, s2, t, root)
    <3> SUFFICES ASSUME NEW o \in todo \ {off}, o # root
                 PROVE  \E x \in Pages : t[x] # Absent /\ s2.tab[x] = t[x] /\ o = t[x].off
      BY DEF ToMeet
    <3>1. PICK x \in Pages : t[x] # Absent /\ s.tab[x] = t[x] /\ o = t[x].off
      BY DEF ToMeet
    <3>2. x # q
      BY <2>2, <3>1
    <3> QED BY <2>12, <2>17, <3>1, <3>2
  <2> QED BY <2>23, <2>24 DEF s2
<1> QED BY <1>1, <1>2, <1>3

\* The walk always finds a record to go on with, as the live ones are bounded.
LEMMA NextIsToMeet ==
  ASSUME NEW free \in SUBSET Nat, NEW todo \in SUBSET Nat, todo # {},
         NEW b \in Nat, \A o \in todo : o <= b
  PROVE  NextLive(free, todo) \in todo
<1> DEFINE above == {x \in Nat : \A o \in todo : o <= x}
           topmost == {o \in todo : \A g \in free : o < g => \A x \in todo : x < g}
<1>1. b \in above
  OBVIOUS
<1>2. PICK m \in above : \A x \in above : m <= x
  <2> HIDE DEF above
  <2>1. above \in SUBSET Nat
    BY DEF above
  <2> QED BY <1>1, <2>1, NatMin
<1>3. m \in todo
  <2> SUFFICES ASSUME m \notin todo PROVE FALSE
    OBVIOUS
  <2>1. \A o \in todo : o \in Nat /\ o <= m - 1
    BY <1>2
  <2>2. m - 1 \in Nat
    <3>1. PICK o \in todo : TRUE
      OBVIOUS
    <3>2. o \in Nat /\ o <= m - 1 /\ m \in Nat
      BY <2>1
    <3> QED BY <3>2
  <2>3. m - 1 \in above
    BY <2>1, <2>2
  <2> QED BY <1>2, <2>2, <2>3
<1>4. m \in topmost
  BY <1>2, <1>3
<1>5. topmost \in SUBSET Nat /\ topmost \subseteq todo
  OBVIOUS
<1> HIDE DEF topmost
<1>6. PICK o \in topmost : \A x \in topmost : o <= x
  BY <1>4, <1>5, NatMin
<1>7. NextLive(free, todo) = CHOOSE y \in topmost : \A x \in topmost : y <= x
  BY DEF NextLive, topmost
<1> QED BY <1>5, <1>6, <1>7

\* The walk after each of its first k records; such a function exists.
IsWalk(f, z, free, txn, k) ==
  f = [n \in 0 .. k |-> IF n = 0 THEN z ELSE WalkOn(f[n - 1], free, txn)]

LEMMA WalkExists ==
  ASSUME NEW z, NEW free, NEW txn, NEW N \in Nat
  PROVE  \E f : IsWalk(f, z, free, txn, N)
<1> DEFINE Bad == {k \in Nat : ~ \E f : IsWalk(f, z, free, txn, k)}
<1> SUFFICES ASSUME Bad # {} PROVE FALSE
  OBVIOUS
<1>1. PICK k \in Bad : \A j \in Bad : k <= j
  BY NatMin
<1>2. CASE k = 0
  <2> DEFINE g == [n \in 0 .. 0 |-> z]
  <2>1. IsWalk(g, z, free, txn, 0)
    BY DEF IsWalk
  <2> QED BY <1>1, <1>2, <2>1
<1>3. CASE k # 0
  <2>1. k - 1 \in Nat /\ k - 1 \notin Bad
    BY <1>1, <1>3
  <2>2. PICK f : IsWalk(f, z, free, txn, k - 1)
    BY <2>1
  <2> DEFINE g == [n \in 0 .. k |-> IF n = k THEN WalkOn(f[k - 1], free, txn) ELSE f[n]]
             h == [n \in 0 .. k |-> IF n = 0 THEN z ELSE WalkOn(g[n - 1], free, txn)]
  <2>3. ASSUME NEW n \in 0 .. k PROVE g[n] = h[n]
    <3>1. CASE n = k
      <4>1. k - 1 \in 0 .. k /\ g[k - 1] = f[k - 1]
        BY <1>1, <1>3
      <4> QED BY <1>3, <3>1, <4>1
    <3>2. CASE n # k
      <4>1. n \in 0 .. k - 1
        BY <1>1, <3>2
      <4>2. f[n] = IF n = 0 THEN z ELSE WalkOn(f[n - 1], free, txn)
        BY <2>2, <4>1 DEF IsWalk
      <4>3. n # 0 => n - 1 \in 0 .. k /\ g[n - 1] = f[n - 1]
        BY <1>1, <3>2, <4>1
      <4> QED BY <1>1, <3>2, <4>2, <4>3
    <3> QED BY <3>1, <3>2
  <2>4. g = h
    BY <2>3
  <2>5. IsWalk(g, z, free, txn, k)
    BY <2>4 DEF IsWalk
  <2> QED BY <1>1, <2>5
<1> QED BY <1>2, <1>3

\* zcompact_step: every page stays readable with its content, the space records are
\* moved to was free, and the space they leave waits for its commit.
THEOREM CompactKeepsPages ==
  ASSUME Endless, NEW a, Sound(a), a.append = FALSE, NEW d, NEW t, Stored(d, t),
         NEW root \in Nat, NEW txn \in Nat, Standing(a, d, t, root)
  PROVE  Walked(Compact(a, d, t, root, txn), a, d, t, txn)
<1> DEFINE start == [a |-> a, disk |-> d, tab |-> t, moved |-> 0]
           live  == ({t[p].off : p \in Pages} \cup {root}) \ {0}
           z     == [at |-> start, todo |-> live]
           N     == NPages + 1
           f     == CHOOSE g : IsWalk(g, z, a.free, txn, N)
<1>1. start.a = a /\ start.disk = d /\ start.tab = t
      /\ start = [a |-> start.a, disk |-> start.disk, tab |-> start.tab, moved |-> start.moved]
  OBVIOUS
<1>2. Walked(start, a, d, t, txn)
  <2> HIDE DEF start
  <2>1. {txn} \X (Span(t) \ Span(t)) = {}
    OBVIOUS
  <2>2. Room(a) = Room(a) \ Span(t)
    BY DEF Standing
  <2> QED BY <1>1, <2>1, <2>2 DEF Walked
<1>3. CASE a.free = {}
  BY <1>2, <1>3 DEF Compact
<1>4. CASE a.free # {}
  <2>1. N \in Nat
    BY PagesAssumption
  <2>2. Compact(a, d, t, root, txn) = f[N].at
    BY <1>4 DEF Compact, IsWalk
  <2>3. IsWalk(f, z, a.free, txn, N)
    <3> HIDE DEF z, N
    <3> QED BY <2>1, WalkExists
  <2> HIDE DEF f
  <2>4. f[0] = z /\ \A n \in 1 .. N : f[n] = WalkOn(f[n - 1], a.free, txn)
    <3> HIDE DEF z, N
    <3> QED BY <2>1, <2>3 DEF IsWalk
  <2>5. ASSUME NEW o \in live PROVE o \in Nat \ {0} /\ o \notin Room(a)
                                  /\ (o = root \/ \E p \in Pages : t[p] # Absent /\ o = t[p].off)
    <3>1. CASE o = root
      BY <2>5, <3>1 DEF Standing
    <3>2. CASE o # root
      <4>1. PICK p \in Pages : o = t[p].off
        BY <2>5, <3>2
      <4>2. t[p] # Absent
        BY <2>5, <4>1 DEF Absent
      <4>3. o \in Ext(t[p].off, t[p].len)
        BY <4>1, <4>2, FirstOfPage
      <4>4. o \in Span(t) /\ o \in Nat \ {0}
        BY <4>3, InSpan, SpanIsNat
      <4> QED BY <4>1, <4>2, <4>4 DEF Standing
    <3> QED BY <3>1, <3>2
  <2> DEFINE b == a.eof + Hole1
  <2>6. b \in Nat /\ \A o \in live : o \in Nat /\ o <= b
    <3>1. a.eof \in Nat /\ b \in Nat
      BY HoleAssumption DEF Sound, AllocRec
    <3> HIDE DEF live
    <3>2. ASSUME NEW o \in live PROVE o \in Nat /\ o <= b
      <4>1. o < a.eof \/ o \in HoleSet
        BY <2>5, <3>1 DEF Room
      <4> QED BY <2>5, <3>1, <4>1, InHole, HoleAssumption
    <3> QED BY <3>1, <3>2
  <2>7. ToMeet(live, start, t, root)
    <3> HIDE DEF live, start
    <3> QED BY <1>1, <2>5 DEF ToMeet
  <2>8. z.at = start /\ z.todo = live
    OBVIOUS
  <2> HIDE DEF live, start, z, N, b
  <2> DEFINE Good(n) == /\ f[n].todo \subseteq live /\ Walked(f[n].at, a, d, t, txn)
                        /\ ToMeet(f[n].todo, f[n].at, t, root)
             Bad == {n \in 0 .. N : ~Good(n)}
  <2>9. Bad = {}
    <3> SUFFICES ASSUME Bad # {} PROVE FALSE
      OBVIOUS
    <3>1. Bad \in SUBSET Nat
      OBVIOUS
    <3>2. PICK n \in Bad : \A m \in Bad : n <= m
      <4> HIDE DEF Bad
      <4> QED BY <3>1, NatMin
    <3>3. CASE n = 0
      BY <1>2, <2>4, <2>7, <2>8, <3>2, <3>3
    <3>4. CASE n # 0
      <4>1. n - 1 \in 0 .. N /\ n - 1 \in Nat /\ ~(n <= n - 1) /\ n \in 1 .. N
        BY <2>1, <3>2, <3>4
      <4>2. Good(n - 1)
        BY <3>2, <4>1
      <4> DEFINE w   == f[n - 1]
                 off == NextLive(a.free, w.todo)
      <4>3. f[n] = WalkOn(w, a.free, txn)
        BY <2>4, <4>1
      <4>4. CASE w.todo = {}
        <5>1. f[n] = w
          BY <4>3, <4>4 DEF WalkOn
        <5>2. Good(n)
          BY <4>2, <5>1
        <5> QED BY <3>2, <5>2
      <4>5. CASE w.todo # {}
        <5>1. a.free \in SUBSET Nat /\ w.todo \in SUBSET Nat /\ \A o \in w.todo : o <= b
          BY <2>6, <4>2 DEF Sound, AllocRec
        <5>2. off \in w.todo
          BY <2>6, <4>5, <5>1, NextIsToMeet
        <5>3. f[n] = [at |-> MoveRecord(w.at, off, txn), todo |-> w.todo \ {off}]
          BY <4>3, <4>5 DEF WalkOn
        <5>4. f[n].at = MoveRecord(w.at, off, txn) /\ f[n].todo = w.todo \ {off}
          BY <5>3
        <5> HIDE DEF off, w
        <5>5. Walked(w.at, a, d, t, txn) /\ ToMeet(w.todo, w.at, t, root) /\ w.todo \subseteq live
          BY <4>2 DEF w
        <5>6. /\ Walked(MoveRecord(w.at, off, txn), a, d, t, txn)
              /\ ToMeet(w.todo \ {off}, MoveRecord(w.at, off, txn), t, root)
          BY <5>2, <5>5, MoveKeeps
        <5>7. Good(n)
          BY <5>4, <5>5, <5>6
        <5> QED BY <3>2, <5>7
      <4> QED BY <4>4, <4>5
    <3> QED BY <3>3, <3>4
  <2>10. Good(N)
    <3>1. N \in 0 .. N
      BY <2>1
    <3> QED BY <2>9, <3>1
  <2> QED BY <2>2, <2>10
<1> QED BY <1>3, <1>4

----------------------------------------------------------------------------
(* What a commit writes *)

LEMMA ExtOne == \A off \in Nat : Ext(off, 1) = {off}
BY DEF Ext

LEMMA RoomIs ==
  ASSUME NEW a, Sound(a)
  PROVE  /\ Room(a) \subseteq Nat \ {0} /\ Room(a) \cap HoleSet = {}
         /\ \A g \in Nat : g \notin Room(a) /\ g \notin HoleSet => g < a.eof
<1>1. a.free \subseteq Nat /\ a.eof \in Nat
  BY DEF Sound, AllocRec
<1> QED BY <1>1 DEF Room, Sound

\* The new root and lists are placed where there was room, each in a place of its own.
LEMMA TakeOne ==
  ASSUME NEW a, Sound(a)
  PROVE  LET r == Take(a, 1)
         IN  /\ r.off \in Room(a) /\ Sound(r.a) /\ Room(r.a) = Room(a) \ {r.off}
             /\ r.a.append = a.append /\ Limbo(r.a) = Limbo(a)
<1> DEFINE r == Take(a, 1)
<1>0. 1 \in Nat \ {0}
  OBVIOUS
<1>1. /\ r.off \in Nat /\ Ext(r.off, 1) \subseteq Room(a)
      /\ Sound(r.a) /\ Room(r.a) = Room(a) \ Ext(r.off, 1)
  BY <1>0, TakeIsFresh
<1>2. r.a.append = a.append /\ Limbo(r.a) = Limbo(a)
  BY <1>0, TakeLimbo
<1> HIDE DEF r
<1>3. Ext(r.off, 1) = {r.off}
  BY <1>1, ExtOne
<1> QED BY <1>1, <1>2, <1>3 DEF r

\* The new root and lists are placed where there was room, each in a place of its own.
LEMMA PlacementIs ==
  ASSUME NEW a, Sound(a)
  PROVE  LET o == Placement(a)
         IN  /\ Sound(o.a) /\ o.a.append = a.append /\ Limbo(o.a) = Limbo(a)
             /\ {o.root, o.freeOff, o.pendOff} \subseteq Room(a)
             /\ o.root # o.freeOff /\ o.root # o.pendOff /\ o.freeOff # o.pendOff
             /\ Room(o.a) = Room(a) \ {o.root, o.freeOff, o.pendOff}
<1> DEFINE r == Take(a, 1)
           f == Take(r.a, 1)
           l == Take(f.a, 1)
           o == Placement(a)
<1>1. o.root = r.off /\ o.freeOff = f.off /\ o.pendOff = l.off /\ o.a = l.a
  BY DEF Placement
<1> HIDE DEF o
<1>2. /\ r.off \in Room(a) /\ Sound(r.a) /\ Room(r.a) = Room(a) \ {r.off}
      /\ r.a.append = a.append /\ Limbo(r.a) = Limbo(a)
  BY TakeOne
<1> HIDE DEF r
<1>3. /\ f.off \in Room(r.a) /\ Sound(f.a) /\ Room(f.a) = Room(r.a) \ {f.off}
      /\ f.a.append = r.a.append /\ Limbo(f.a) = Limbo(r.a)
  BY <1>2, TakeOne
<1> HIDE DEF f
<1>4. /\ l.off \in Room(f.a) /\ Sound(l.a) /\ Room(l.a) = Room(f.a) \ {l.off}
      /\ l.a.append = f.a.append /\ Limbo(l.a) = Limbo(f.a)
  BY <1>3, TakeOne
<1> HIDE DEF l
<1> QED BY <1>1, <1>2, <1>3, <1>4 DEF o

\* commit_once up to its data barrier: what it writes reads back as the map and the lists
\* in memory, and nothing but room was written.
LEMMA LaidIs ==
  ASSUME Endless, NEW c, NEW a, Sound(a), a.append = FALSE, NEW n, NEW t, NEW txn
  PROVE  LET w     == Laid(c, Placement(a), n, t, txn)
             lists == {w.hdr.root, w.hdr.freeOff, w.hdr.pendOff}
         IN  /\ Sound(w.a) /\ w.a.append = FALSE /\ Limbo(w.a) = Limbo(a)
             /\ lists \subseteq Room(a) /\ Room(w.a) = Room(a) \ lists
             /\ w.tab = t /\ w.count = n /\ w.hdr.txn = txn /\ w.hdr.count = n
             /\ w.hdr.eof = w.a.eof
             /\ Reads(w.disk, w.hdr) /\ w.disk[w.hdr.root].tab = t /\ Load(w.disk, w.hdr) = w.a
             /\ \A g \in Granules : g \notin Room(a) /\ g \notin HoleSet => w.disk[g] = c.disk[g]
             /\ w.hdr \in [txn : {txn}, root : Granules, freeOff : Granules, pendOff : Granules,
                           eof : Nat, count : {n}]
<1> DEFINE o == Placement(a)
           w == Laid(c, o, n, t, txn)
<1>1. /\ Sound(o.a) /\ o.a.append = FALSE /\ Limbo(o.a) = Limbo(a)
      /\ {o.root, o.freeOff, o.pendOff} \subseteq Room(a)
      /\ o.root # o.freeOff /\ o.root # o.pendOff /\ o.freeOff # o.pendOff
      /\ Room(o.a) = Room(a) \ {o.root, o.freeOff, o.pendOff}
  BY PlacementIs
<1> HIDE DEF o
<1>2. /\ w.a = o.a /\ w.tab = t /\ w.count = n
      /\ w.hdr.txn = txn /\ w.hdr.root = o.root /\ w.hdr.freeOff = o.freeOff
      /\ w.hdr.pendOff = o.pendOff /\ w.hdr.eof = o.a.eof /\ w.hdr.count = n
  BY DEF Laid
<1>3. \A g \in Granules : w.disk[g] = IF g >= o.a.eof THEN Blank
               ELSE IF g = o.root THEN NodeRec(g, t)
               ELSE IF g = o.freeOff THEN FreeRec(g, o.a)
               ELSE IF g = o.pendOff THEN PendRec(g, o.a) ELSE c.disk[g]
  BY DEF Laid
<1>3a. w.hdr = [txn |-> txn, root |-> o.root, freeOff |-> o.freeOff, pendOff |-> o.pendOff,
                eof |-> o.a.eof, count |-> n]
  BY DEF Laid
<1> HIDE DEF w
<1>4. Room(a) \subseteq Granules /\ Room(a) \cap HoleSet = {}
  BY RoomIs DEF Endless
<1>5. o.a.eof \in Nat /\ o.a.free \in SUBSET Nat
  BY <1>1 DEF Sound, AllocRec
<1>6. \A g \in Granules : g \notin Room(o.a) /\ g \notin HoleSet => g \in Nat /\ ~(g >= o.a.eof)
  BY <1>1, <1>5, RoomIs DEF Endless
<1>7. /\ w.disk[o.root] = NodeRec(o.root, t) /\ w.disk[o.freeOff] = FreeRec(o.freeOff, o.a)
      /\ w.disk[o.pendOff] = PendRec(o.pendOff, o.a)
  BY <1>1, <1>3, <1>4, <1>6
<1>8. Reads(w.disk, w.hdr)
  <2>1. \A g \in Granules : Ext(g, 1) = {g}
    BY ExtOne DEF Endless
  <2>2. o.root \in Granules /\ o.freeOff \in Granules /\ o.pendOff \in Granules
    BY <1>1, <1>4
  <2> QED BY <1>2, <1>7, <2>1, <2>2 DEF Reads, Whole, NodeRec, FreeRec, PendRec
<1>9. w.disk[w.hdr.root].tab = t
  BY <1>2, <1>7 DEF NodeRec
<1>10. Load(w.disk, w.hdr) = w.a
  <2>1. Load(w.disk, w.hdr) = [free |-> o.a.free, pend |-> o.a.pend, eof |-> o.a.eof, append |-> FALSE]
    BY <1>2, <1>7 DEF Load, FreeRec, PendRec
  <2>2. o.a \in AllocRec
    BY <1>1 DEF Sound
  <2>3. o.a = [free |-> o.a.free, pend |-> o.a.pend, eof |-> o.a.eof, append |-> o.a.append]
    BY <2>2 DEF AllocRec
  <2> QED BY <1>1, <1>2, <2>1, <2>3
<1>11. \A g \in Granules : g \notin Room(a) /\ g \notin HoleSet => w.disk[g] = c.disk[g]
  BY <1>1, <1>3, <1>6
<1>12. w.hdr \in [txn : {txn}, root : Granules, freeOff : Granules, pendOff : Granules,
                  eof : Nat, count : {n}]
  BY <1>1, <1>3a, <1>4, <1>5
<1> QED BY <1>1, <1>2, <1>8, <1>9, <1>10, <1>11, <1>12 DEF w, o

\* The lists and the root a header names, if it is not that of an empty file.
Lists(h) == IF h.txn = 0 THEN {} ELSE {h.freeOff, h.pendOff, h.root}

\* What commit_once writes over map t on disk d, before the header: it compacts, gives up
\* the lists of h and places its own.
Renewed(a, d, t, h, n) ==
  LET c == Compact(a, d, t, h.root, h.txn + 1)
  IN  Laid(c, Placement(OldLists(c.a, h)), n, c.tab, h.txn + 1)

\* w replaces what h and t name: every page is kept, room only is written, and what is
\* named no longer waits in limbo under the number of the commit.
Replaces(w, a, d, t, h, n) ==
  LET old == Lists(h) \cup Span(t)
      new == Lists(w.hdr) \cup Span(w.tab)
  IN  /\ Sound(w.a) /\ w.a.append = FALSE
      /\ Room(w.a) = Room(a) \ new /\ new \ old \subseteq Room(a)
      /\ Limbo(w.a) = Limbo(a) \cup ({h.txn + 1} \X (old \ new))
      /\ w.hdr \in [txn : {h.txn + 1}, root : Granules, freeOff : Granules, pendOff : Granules,
                    eof : Nat, count : {n}]
      /\ w.count = n /\ w.hdr.eof = w.a.eof
      /\ Reads(w.disk, w.hdr) /\ w.disk[w.hdr.root].tab = w.tab /\ Load(w.disk, w.hdr) = w.a
      /\ Stored(w.disk, w.tab) /\ Lists(w.hdr) \cap Span(w.tab) = {}
      /\ \A p \in Pages : /\ w.tab[p] = Absent <=> t[p] = Absent
                          /\ ValAt(w.disk, w.tab[p]) = ValAt(d, t[p])
      /\ \A g \in Granules \ (Room(a) \cup HoleSet) : w.disk[g] = d[g]

\* A commit that compacts replaces one generation by another with the same pages.
THEOREM CommitReplaces ==
  ASSUME Endless, NEW a, Sound(a), a.append = FALSE, NEW d, NEW t, Stored(d, t), NEW h, NEW n,
         h.txn \in Nat, h.root \in Nat, Lists(h) \subseteq Granules,
         h.txn = 0 => h.root = 0, h.txn # 0 => d[h.root].kind = "node",
         (Lists(h) \cup Span(t)) \cap (Room(a) \cup HoleSet) = {}, Lists(h) \cap Span(t) = {}
  PROVE  Replaces(Renewed(a, d, t, h, n), a, d, t, h, n)
<1> DEFINE txn == h.txn + 1
           c   == Compact(a, d, t, h.root, txn)
           x   == OldLists(c.a, h)
           w   == Laid(c, Placement(x), n, c.tab, txn)
           old == Lists(h) \cup Span(t)
           new == Lists(w.hdr) \cup Span(w.tab)
<1>1. Walked(c, a, d, t, txn)
  <2>1. Standing(a, d, t, h.root)
    BY DEF Standing, Lists
  <2>2. txn \in Nat /\ h.root \in Nat
    OBVIOUS
  <2> HIDE DEF txn
  <2>3. Sound(a) /\ a.append = FALSE /\ Stored(d, t)
    OBVIOUS
  <2> QED BY ONLY Endless, <2>1, <2>2, <2>3, CompactKeepsPages
<1> HIDE DEF c
<1>2. /\ Sound(x) /\ x.append = FALSE /\ Room(x) = Room(c.a)
      /\ Limbo(x) = Limbo(c.a) \cup ({txn} \X Lists(h))
  <2>1. Sound(c.a) /\ c.a.append = FALSE
    BY <1>1 DEF Walked
  <2>2. CASE h.txn = 0
    <3>1. {txn} \X {} = {}
      OBVIOUS
    <3> QED BY <2>1, <2>2, <3>1 DEF OldLists, Lists
  <2>3. CASE h.txn # 0
    <3>1. Lists(h) \in SUBSET Nat /\ txn \in Nat /\ x = FreeSpan(c.a, Lists(h), txn)
      BY <2>3 DEF OldLists, Lists, Endless
    <3> HIDE DEF x, txn
    <3> QED BY <2>1, <3>1, FreeSpanLimbo
  <2> QED BY <2>2, <2>3
<1> HIDE DEF x
<1>3. /\ Sound(w.a) /\ w.a.append = FALSE /\ Limbo(w.a) = Limbo(x)
      /\ {w.hdr.root, w.hdr.freeOff, w.hdr.pendOff} \subseteq Room(x)
      /\ Room(w.a) = Room(x) \ {w.hdr.root, w.hdr.freeOff, w.hdr.pendOff}
      /\ w.tab = c.tab /\ w.count = n /\ w.hdr.txn = txn /\ w.hdr.eof = w.a.eof
      /\ Reads(w.disk, w.hdr) /\ w.disk[w.hdr.root].tab = c.tab /\ Load(w.disk, w.hdr) = w.a
      /\ \A g \in Granules : g \notin Room(x) /\ g \notin HoleSet => w.disk[g] = c.disk[g]
      /\ w.hdr \in [txn : {txn}, root : Granules, freeOff : Granules, pendOff : Granules,
                     eof : Nat, count : {n}]
  <2> DEFINE u == c.tab
  <2>1. w = Laid(c, Placement(x), n, u, txn) /\ u = c.tab
    OBVIOUS
  <2>2. Sound(x) /\ x.append = FALSE
    BY <1>2
  <2> HIDE DEF txn, w, u, old, new
  <2> DEFINE v == Laid(c, Placement(x), n, u, txn)
             lists == {v.hdr.root, v.hdr.freeOff, v.hdr.pendOff}
  <2>3. /\ Sound(v.a) /\ v.a.append = FALSE /\ Limbo(v.a) = Limbo(x)
        /\ lists \subseteq Room(x) /\ Room(v.a) = Room(x) \ lists
        /\ v.tab = u /\ v.count = n /\ v.hdr.txn = txn /\ v.hdr.count = n
        /\ v.hdr.eof = v.a.eof
        /\ Reads(v.disk, v.hdr) /\ v.disk[v.hdr.root].tab = u /\ Load(v.disk, v.hdr) = v.a
        /\ \A g \in Granules : g \notin Room(x) /\ g \notin HoleSet => v.disk[g] = c.disk[g]
        /\ v.hdr \in [txn : {txn}, root : Granules, freeOff : Granules, pendOff : Granules,
                      eof : Nat, count : {n}]
    BY ONLY Endless, <2>2, LaidIs
  <2> QED BY <2>1, <2>3
<1> HIDE DEF w
<1>4. Lists(w.hdr) = {w.hdr.root, w.hdr.freeOff, w.hdr.pendOff}
  BY <1>3 DEF Lists
<1>5. /\ Span(c.tab) \subseteq Span(t) \cup Room(a) /\ Room(c.a) = Room(a) \ Span(c.tab)
      /\ Limbo(c.a) = Limbo(a) \cup ({txn} \X (Span(t) \ Span(c.tab)))
      /\ Stored(c.disk, c.tab) /\ \A g \in Granules \ Room(a) : c.disk[g] = d[g]
      /\ \A p \in Pages : (c.tab[p] = Absent <=> t[p] = Absent) /\ ValAt(c.disk, c.tab[p]) = ValAt(d, t[p])
  BY <1>1 DEF Walked
<1>6. Room(w.a) = Room(a) \ new /\ new \ old \subseteq Room(a)
  BY <1>2, <1>3, <1>4, <1>5
<1>7. Limbo(w.a) = Limbo(a) \cup ({txn} \X (old \ new))
  <2>1. old \ new = (Span(t) \ Span(c.tab)) \cup Lists(h)
    BY <1>2, <1>3, <1>4, <1>5
  <2>2. {txn} \X (old \ new) = ({txn} \X (Span(t) \ Span(c.tab))) \cup ({txn} \X Lists(h))
    BY ONLY <2>1, ProductGrows
  <2>3. Limbo(w.a) = Limbo(a) \cup ({txn} \X (Span(t) \ Span(c.tab))) \cup ({txn} \X Lists(h))
    BY ONLY <1>2, <1>3, <1>5
  <2> QED BY ONLY <2>2, <2>3
<1>8. Span(c.tab) \cap (Room(x) \cup HoleSet) = {}
  BY <1>2, <1>5, RoomIs
<1>9. \A g \in Span(c.tab) : w.disk[g] = c.disk[g]
  BY <1>3, <1>5, <1>8, SpanIsNat DEF Endless
<1>10. Stored(w.disk, c.tab) /\ \A p \in Pages : ValAt(w.disk, c.tab[p]) = ValAt(c.disk, c.tab[p])
  BY <1>5, <1>9, StoredFrame
<1>11. \A g \in Granules \ (Room(a) \cup HoleSet) : w.disk[g] = d[g]
  BY <1>2, <1>3, <1>5
<1>12. Lists(w.hdr) \cap Span(w.tab) = {}
  BY <1>3, <1>4, <1>8
<1>13. w = Renewed(a, d, t, h, n)
  BY DEF w, x, c, Renewed
<1> QED BY <1>3, <1>5, <1>6, <1>7, <1>10, <1>11, <1>12, <1>13 DEF Replaces
=============================================================================
