---------------------------- MODULE WalGateProofs ----------------------------
(***************************************************************************)
(* Readers keep their snapshots and the log with the container keeps every *)
(* transaction, for any number of readers, slots, pages and transactions.  *)
(*                                                                         *)
(* Two layers.  Below, what is on the disk: every step is a step of        *)
(* Generations or leaves its variables alone, so the inductive invariant   *)
(* of that module holds here, and with it nobody writes where a reader's   *)
(* generation or the current one is.  Above, what the log and the          *)
(* container say together: at every moment of a checkpoint a page is the   *)
(* old one, or the frame it is to be replaced by.                          *)
(***************************************************************************)
EXTENDS WalGate, RecordsProofs

P == INSTANCE GenerationsProofs WITH
  cur <- hdr.txn, names <- Current(hdr), staged <- Building, spare <- Spare(conn.alloc),
  limbo <- Limbo(conn.alloc), saved <- Recorded, pinned <- Pinned, phase <- Phase,
  gate <- MayRecycle

HdrRec == [txn : Nat \ {0}, root : Granules, freeOff : Granules, pendOff : Granules,
           eof : Nat, count : {NPages}]

\* A generation: the header's lists and root are on the disk, and a record for every page.
Generation(d, h) ==
  /\ h \in HdrRec /\ Reads(d, h) /\ Stored(d, d[h.root].tab)
  /\ Lists(h) \cap Span(d[h.root].tab) = {}

Frames == [page : Pages, val : Nat]

ReaderRec == [pc : {"idle", "hdr", "marked", "locked", "reading"}, mx : 0 .. MaxFrames, salt : Nat,
              slot : {None} \cup (0 .. NReader - 1), want : 0 .. NotUsed, hdr : HdrRec \cup {ZeroHdr},
              minFrame : Nat, pick : 0 .. NReader - 1, snap : [Pages -> Nat],
              late : BOOLEAN, overtaken : BOOLEAN]

CkptRec == [pc : {"idle", "scan", "copy", "probe", "commit", "written", "flipped", "done"},
            mx : 0 .. MaxFrames, salt : Nat, safe : 0 .. MaxFrames, at : 0 .. NReader,
            gate : BOOLEAN, todo : SUBSET Pages, ok : BOOLEAN, hdr : HdrRec \cup {ZeroHdr}]

TypeInv ==
  /\ wal \in Seq(Frames) /\ clock \in 0 .. MaxFrames /\ Len(wal) <= clock
  /\ salt \in Nat /\ nBackfill \in 0 .. Len(wal) /\ base \in [Pages -> Nat]
  /\ mark \in [Slots -> 0 .. NotUsed] /\ lost \subseteq Pages
  /\ reader \in [Readers -> ReaderRec] /\ ck \in CkptRec
  /\ conn \in [hdr : HdrRec, tab : [Pages -> [off : Nat, len : Nat]], alloc : AllocRec,
               dirty : BOOLEAN]

\* The readers the gate answers for.
Pins(v) == v.pc \in {"locked", "reading"} /\ ~v.late

\* Who holds which slot, and what a checkpoint knows of the log.  Who holds a slot that the
\* gate has tried came late.
LockInv ==
  /\ \A r \in Readers : /\ reader[r].slot # None <=> reader[r].pc \in {"locked", "reading"}
                        /\ reader[r].pc = "marked" => reader[r].pick \in Slots
                        /\ reader[r].pc = "locked" => reader[r].slot # 0
                        /\ reader[r].slot = 0 => ~CkptHoldsZero
  /\ ck.pc = "probe" => /\ ck.gate /\ ck.at \in Slots
                        /\ \A r \in Readers : reader[r].slot \in 1 .. ck.at - 1 => reader[r].late
  /\ ck.pc = "scan" => ck.salt <= salt /\ ck.safe <= ck.mx /\ (ck.salt = salt => ck.mx <= mxFrame)
  /\ CkptHoldsZero => nBackfill < ck.safe /\ ck.safe <= ck.mx /\ ck.mx <= mxFrame

\* The generations that somebody may read are whole, and so is the one that is being built.
DiskInv ==
  /\ Generation(disk, hdr) /\ Sound(Load(disk, hdr))
  /\ \A r \in Readers : Pins(reader[r]) => Generation(disk, reader[r].hdr)
  /\ Sound(conn.alloc) /\ conn.alloc.append = FALSE /\ Stored(disk, conn.tab)
  /\ ck.pc # "flipped" => conn.hdr = hdr
  /\ ck.pc \in {"idle", "scan", "done"} => ~conn.dirty
  /\ ck.pc \notin {"written", "flipped"} => /\ Lists(conn.hdr) \cap Span(conn.tab) = {}
                                            /\ ~conn.dirty => conn.tab = disk[hdr.root].tab
  /\ ck.pc \in {"written", "flipped"} => /\ Generation(disk, ck.hdr)
                                         /\ ck.hdr.txn = conn.hdr.txn + 1
                                         /\ disk[ck.hdr.root].tab = conn.tab
                                         /\ Load(disk, ck.hdr) = conn.alloc
  /\ ck.pc = "flipped" => hdr = ck.hdr

\* The log as a value w, over the content b it began with: the frames of a page, the newest
\* of them, the database after n frames, and the pages a checkpoint is to copy.
FramesIn(w, p, from, to) == {f \in from .. to : f \in DOMAIN w /\ w[f].page = p}
Newest(w, p, from, to) == w[Latest(FramesIn(w, p, from, to))].val
Content(w, b, n) == [p \in Pages |-> IF FramesIn(w, p, 1, n) = {} THEN b[p] ELSE Newest(w, p, 1, n)]
Due(w, n, mx, safe) == {p \in Pages : /\ FramesIn(w, p, n + 1, mx) # {}
                                     /\ Latest(FramesIn(w, p, n + 1, mx)) <= safe}

\* Page p of the generation h names; and that this generation, with frames n + 1 .. to on
\* top of it, is the database after to frames, but for the pages x.
Page(d, h, p) == ValAt(d, d[h.root].tab[p])
CaughtUp(d, h, w, b, n, to, x) ==
  \A p \in Pages \ x : FramesIn(w, p, n + 1, to) = {} => Page(d, h, p) = Content(w, b, n)[p]

\* What a reader v that came in time and was not overtaken may rely on, s being the salt of
\* the log, n nBackfill, and x the pages that are lost.
ReaderLog(v, w, b, s, n, d, x) ==
  /\ v.salt <= s
  /\ v.pc \in {"hdr", "marked", "locked"} /\ v.salt = s => v.mx <= Len(w) /\ v.snap = Content(w, b, v.mx)
  /\ v.pc = "locked" /\ ~v.late /\ ~v.overtaken /\ v.salt = s =>
       CaughtUp(d, v.hdr, w, b, n, Len(w), x)
  /\ v.pc = "reading" /\ v.slot # 0 /\ ~v.late /\ ~v.overtaken =>
       /\ v.mx <= Len(w) /\ v.snap = Content(w, b, v.mx) /\ v.minFrame - 1 \in 0 .. v.mx
       /\ CaughtUp(d, v.hdr, w, b, v.minFrame - 1, v.mx, x)
  /\ v.pc = "reading" /\ v.slot = 0 /\ ~v.late => \A p \in Pages \ x : Page(d, v.hdr, p) = v.snap[p]

\* What a checkpoint has done so far: a page is the old one, or the frame it is due for.
Fresh(p)  == Newest(wal, p, nBackfill + 1, ck.mx)
Copied(p) == ValAt(disk, conn.tab[p])
Dues      == Due(wal, nBackfill, ck.mx, ck.safe)
CkptLog ==
  /\ ck.todo \subseteq Dues /\ (ck.pc # "copy" => ck.todo = {})
  /\ \A p \in Pages : Copied(p) = Page(disk, hdr, p) \/ (p \in Dues /\ Copied(p) = Fresh(p))
  /\ ck.ok => \A p \in Dues \ (ck.todo \cup lost) : Copied(p) = Fresh(p)

LogInv == /\ CaughtUp(disk, hdr, wal, base, nBackfill, Len(wal), lost)
          /\ \A r \in Readers : ReaderLog(reader[r], wal, base, salt, nBackfill, disk, lost)
          /\ CkptHoldsZero => CkptLog

\* The layer below, and a step of it.
Base == TypeInv /\ LockInv /\ DiskInv /\ P!IInv
BaseStep == TypeInv' /\ LockInv' /\ DiskInv' /\ [P!Next]_(P!genVars)

----------------------------------------------------------------------------
(* The state functions of the mapping *)

LEMMA SpaceIs == ASSUME Endless PROVE \A g : g \in Space <=> g \in Nat /\ g >= 1 /\ g \notin HoleSet
BY DEF Endless, Space

LEMMA SpareIsRoom ==
  ASSUME Endless, NEW a, Sound(a)
  PROVE  Spare(a) = Room(a) /\ Room(a) \subseteq Space
<1>1. a.free \subseteq Nat /\ a.eof \in Nat /\ a.eof >= 1
  BY DEF Sound, AllocRec
<1>2. Spare(a) = Room(a)
  BY <1>1, SpaceIs DEF Spare, Room
<1>3. Room(a) \subseteq Space
  BY <1>1, SpaceIs DEF Room, Sound
<1> QED BY <1>2, <1>3

LEMMA NamedIs ==
  ASSUME NEW h \in HdrRec
  PROVE  /\ Lists(h) = {h.freeOff, h.pendOff, h.root}
         /\ \A t : Named(h, t) = Lists(h) \cup Span(t)
BY DEF HdrRec, Lists, Named

\* A generation is as it was where what it names is.
LEMMA GenerationFrame ==
  ASSUME Endless, NEW d, NEW h, Generation(d, h), NEW d2,
         \A g \in Named(h, d[h.root].tab) : d2[g] = d[g]
  PROVE  /\ Generation(d2, h) /\ d2[h.root].tab = d[h.root].tab /\ Load(d2, h) = Load(d, h)
         /\ \A p \in Pages : ValAt(d2, d2[h.root].tab[p]) = ValAt(d, d[h.root].tab[p])
<1> DEFINE t == d[h.root].tab
<1>1. h \in HdrRec /\ Reads(d, h) /\ Stored(d, t) /\ Lists(h) \cap Span(t) = {}
  BY DEF Generation
<1>2. Named(h, t) = {h.freeOff, h.pendOff, h.root} \cup Span(t)
  BY <1>1, NamedIs
<1>3. d2[h.root] = d[h.root] /\ d2[h.freeOff] = d[h.freeOff] /\ d2[h.pendOff] = d[h.pendOff]
  BY <1>2
<1>4. Ext(h.root, 1) = {h.root} /\ Ext(h.freeOff, 1) = {h.freeOff} /\ Ext(h.pendOff, 1) = {h.pendOff}
  BY <1>1, ExtOne DEF HdrRec, Endless
<1>5. Reads(d2, h)
  BY <1>1, <1>3, <1>4 DEF Reads, Whole
<1>6. Stored(d2, t) /\ \A p \in Pages : ValAt(d2, t[p]) = ValAt(d, t[p])
  <2>1. Stored(d, t) /\ \A g \in Span(t) : d2[g] = d[g]
    BY <1>1, <1>2
  <2> HIDE DEF t
  <2> QED BY ONLY <2>1, StoredFrame
<1>7. Load(d2, h) = Load(d, h)
  BY <1>3 DEF Load
<1> QED BY <1>1, <1>3, <1>5, <1>6, <1>7 DEF Generation

\* What a page reads as under a header: the value of its record.
LEMMA PageOfIs ==
  ASSUME NEW h, Generation(disk, h), NEW p \in Pages
  PROVE  PageOf(h, p) = ValAt(disk, disk[h.root].tab[p])
BY DEF PageOf, Generation, Reads, Stored

----------------------------------------------------------------------------
(* Steps that leave the container alone *)

LEMMA Stutters ==
  ASSUME UNCHANGED <<disk, hdr, conn>>, Pinned' = Pinned, Phase' = Phase,
         MayRecycle' = MayRecycle, Building' = Building
  PROVE  UNCHANGED P!genVars
<1>1. UNCHANGED <<Current(hdr), Spare(conn.alloc), Limbo(conn.alloc), Recorded, hdr.txn>>
  BY DEF Current, Spare, Recorded
<1> QED BY <1>1 DEF P!genVars

\* The same readers have the same generations pinned.
LEMMA SamePins ==
  ASSUME disk' = disk,
         \A r \in Readers :
            /\ Pins(reader'[r]) <=> Pins(reader[r])
            /\ Pins(reader[r]) => reader'[r].hdr = reader[r].hdr
  PROVE  Pinned' = Pinned
BY DEF Pinned, Pins, Current

LEMMA SameBuilding ==
  ASSUME conn' = conn, ck'.pc \in {"written", "flipped"} <=> ck.pc \in {"written", "flipped"},
         ck.pc \in {"written", "flipped"} => ck'.hdr = ck.hdr
  PROVE  Building' = Building
BY DEF Building

----------------------------------------------------------------------------
(* Frames *)

LEMMA LatestIs ==
  ASSUME NEW fs \in SUBSET Nat, fs # {}, NEW b \in Nat, \A f \in fs : f <= b
  PROVE  Latest(fs) \in fs /\ \A g \in fs : g <= Latest(fs)
<1> DEFINE above == {x \in Nat : \A f \in fs : f <= x}
<1>1. PICK m \in above : \A x \in above : m <= x
  <2>1. above \in SUBSET Nat /\ b \in above
    OBVIOUS
  <2> HIDE DEF above
  <2> QED BY <2>1, NatMin
<1>2. m \in fs
  <2> SUFFICES ASSUME m \notin fs PROVE FALSE
    OBVIOUS
  <2>1. \A f \in fs : f \in Nat /\ f <= m - 1
    BY <1>1
  <2>2. m - 1 \in Nat
    <3>1. PICK f \in fs : TRUE
      OBVIOUS
    <3>2. f \in Nat /\ f <= m - 1 /\ m \in Nat
      BY <2>1
    <3> QED BY <3>2
  <2>3. m - 1 \in above
    BY <2>1, <2>2
  <2> QED BY <1>1, <2>2, <2>3
<1>3. \A g \in fs : g <= m
  BY <1>1
<1> QED BY <1>2, <1>3 DEF Latest

LEMMA FramesInIs ==
  ASSUME NEW w, NEW p, NEW from \in Nat, NEW to \in Nat
  PROVE  /\ FramesIn(w, p, from, to) \in SUBSET Nat
         /\ \A f : f \in FramesIn(w, p, from, to) <=>
                     f \in Nat /\ from <= f /\ f <= to /\ f \in DOMAIN w /\ w[f].page = p
BY DEF FramesIn

LEMMA LatestFrame ==
  ASSUME NEW w, NEW p, NEW from \in Nat, NEW to \in Nat, FramesIn(w, p, from, to) # {}
  PROVE  /\ Latest(FramesIn(w, p, from, to)) \in FramesIn(w, p, from, to)
         /\ \A g \in FramesIn(w, p, from, to) : g <= Latest(FramesIn(w, p, from, to))
<1> DEFINE fs == FramesIn(w, p, from, to)
<1>1. fs \in SUBSET Nat /\ \A f \in fs : f <= to
  BY FramesInIs
<1> HIDE DEF fs
<1>2. Latest(fs) \in fs /\ \A g \in fs : g <= Latest(fs)
  BY <1>1, LatestIs DEF fs
<1> QED BY <1>2 DEF fs

LEMMA ContentType ==
  ASSUME NEW w \in Seq(Frames), NEW b \in [Pages -> Nat], NEW n \in Nat
  PROVE  Content(w, b, n) \in [Pages -> Nat]
<1> SUFFICES ASSUME NEW p \in Pages, FramesIn(w, p, 1, n) # {}
             PROVE  Newest(w, p, 1, n) \in Nat
  BY DEF Content
<1>1. Latest(FramesIn(w, p, 1, n)) \in DOMAIN w
  BY LatestFrame, FramesInIs
<1>2. \A f \in DOMAIN w : w[f] \in Frames
  OBVIOUS
<1> QED BY <1>1, <1>2 DEF Frames, Newest

LEMMA ContentIs ==
  /\ \A p, from, to : FramesOf(p, from, to) = FramesIn(wal, p, from, to)
  /\ \A n : ContentAt(n) = Content(wal, base, n)
BY DEF FramesOf, FramesIn, ContentAt, Content, Newest

----------------------------------------------------------------------------
(* The layer below: the initial state, and the steps of writers and readers *)

LEMMA RestingType == Resting \in ReaderRec /\ NoCkpt \in CkptRec
<1>1. Zeros \in [Pages -> Nat]
  BY DEF Zeros
<1> QED BY <1>1, WalAssumption DEF Resting, ReaderRec, NotUsed, NoCkpt, CkptRec

LEMMA InitBase ==
  ASSUME Endless, Init
  PROVE  Base /\ P!Init
<1> USE WalAssumption, PagesAssumption, HoleAssumption
<1>1. /\ FirstHdr.txn = 1 /\ FirstHdr.root = NPages + 1 /\ FirstHdr.freeOff = NPages + 2
      /\ FirstHdr.pendOff = NPages + 3 /\ FirstHdr.eof = NPages + 4 /\ FirstHdr.count = NPages
      /\ FirstHdr \in HdrRec
  BY DEF FirstHdr, HdrRec, Endless
<1>2. /\ FirstAlloc.free = {} /\ FirstAlloc.eof = NPages + 4 /\ FirstAlloc.append = FALSE
      /\ DOMAIN FirstAlloc.pend = {} /\ FirstAlloc \in AllocRec
  <2>1. {} \in SUBSET Nat /\ [t \in {} |-> {}] \in [{} -> SUBSET Nat]
    OBVIOUS
  <2>2. [t \in {} |-> {}] \in UNION {[T -> SUBSET Nat] : T \in SUBSET Nat}
    BY <2>1
  <2>3. NewAlloc \in AllocRec
    BY <2>2 DEF AllocRec, NewAlloc
  <2>4. NewAlloc.free = {} /\ NewAlloc.append = FALSE /\ DOMAIN NewAlloc.pend = {}
    BY DEF NewAlloc
  <2>5. FirstAlloc \in AllocRec /\ FirstAlloc.eof = NPages + 4 /\ FirstAlloc.free = NewAlloc.free
        /\ FirstAlloc.append = NewAlloc.append /\ FirstAlloc.pend = NewAlloc.pend
    BY <2>3 DEF FirstAlloc, AllocRec
  <2> QED BY <2>4, <2>5
<1>3. Sound(FirstAlloc) /\ Limbo(FirstAlloc) = {}
  BY <1>2 DEF Sound, Limbo
<1>4. /\ disk[FirstHdr.root] = NodeRec(NPages + 1, FirstTab)
      /\ disk[FirstHdr.freeOff] = FreeRec(NPages + 2, FirstAlloc)
      /\ disk[FirstHdr.pendOff] = PendRec(NPages + 3, FirstAlloc)
      /\ \A p \in Pages : disk[p] = PageRec(p, 1, p, 0)
  BY <1>1 DEF Init, Endless, Pages
<1>5. \A g \in Nat \ {0} : Ext(g, 1) = {g}
  BY ExtOne
<1>6. Reads(disk, FirstHdr)
  BY <1>1, <1>4, <1>5 DEF Reads, Whole, NodeRec, FreeRec, PendRec, Endless
<1>7. disk[FirstHdr.root].tab = FirstTab /\ Load(disk, FirstHdr) = FirstAlloc
  <2>1. FirstAlloc = [free |-> FirstAlloc.free, pend |-> FirstAlloc.pend, eof |-> FirstAlloc.eof,
                      append |-> FirstAlloc.append]
    BY <1>2 DEF AllocRec
  <2>2. /\ disk[FirstHdr.root].tab = FirstTab /\ disk[FirstHdr.freeOff].free = FirstAlloc.free
        /\ disk[FirstHdr.pendOff].pend = FirstAlloc.pend /\ FirstHdr.eof = FirstAlloc.eof
    BY <1>1, <1>2, <1>4 DEF NodeRec, FreeRec, PendRec
  <2> QED BY <1>2, <2>1, <2>2 DEF Load
<1>8. Stored(disk, FirstTab) /\ Span(FirstTab) = Pages
  <2>1. \A p \in Pages : /\ FirstTab[p] = [off |-> p, len |-> 1] /\ p \in Nat \ {0}
                         /\ FirstTab[p].off = p /\ FirstTab[p].len = 1
    BY DEF FirstTab, Pages
  <2>2. FirstTab \in [Pages -> [off : Nat, len : Nat]]
    BY DEF FirstTab, Pages
  <2>3. \A p \in Pages : Serves(disk, FirstTab, p)
    <3>1. TAKE p \in Pages
    <3>2. /\ disk[p].kind = "page" /\ disk[p].off = p /\ disk[p].len = 1 /\ disk[p].page = p
      <4>1. disk[p] = PageRec(p, 1, p, 0)
        BY <1>4
      <4> QED BY ONLY <4>1 DEF PageRec
    <3>3. Ext(p, 1) = {p} /\ {p} \subseteq Granules
      BY <1>5, <2>1 DEF Endless
    <3>4. FirstTab[p].off = p /\ FirstTab[p].len = 1
      BY <2>1
    <3>5. Whole(disk, p, 1, "page")
      BY ONLY <3>2, <3>3 DEF Whole
    <3> QED BY ONLY <3>2, <3>4, <3>5 DEF Serves
  <2>4. Stored(disk, FirstTab)
    BY <2>1, <2>2, <2>3 DEF Stored
  <2>5. Span(FirstTab) = Pages
    <3>1. \A p \in Pages : Ext(FirstTab[p].off, FirstTab[p].len) = {p}
      BY <1>5, <2>1
    <3>2. \A g : g \in Span(FirstTab) <=> \E p \in Pages : g \in {p}
      BY <3>1, InSpan
    <3> QED BY ONLY <3>2
  <2> QED BY <2>4, <2>5
<1>9. Lists(FirstHdr) = {NPages + 1, NPages + 2, NPages + 3}
  BY <1>1, NamedIs
<1>10. Generation(disk, FirstHdr)
  BY <1>1, <1>6, <1>7, <1>8, <1>9 DEF Generation, Pages
<1>11. TypeInv
  <2>1. Resting.hdr = ZeroHdr /\ NoCkpt.hdr = ZeroHdr
    BY DEF Resting, NoCkpt
  <2>2. wal \in Seq(Frames) /\ Len(wal) = 0
    BY DEF Init
  <2>3. mark \in [Slots -> 0 .. NotUsed]
    BY DEF Init, Slots, NotUsed
  <2>4. Zeros \in [Pages -> Nat]
    BY DEF Zeros
  <2>5. Resting \in ReaderRec
    BY RestingType
  <2>6. NoCkpt \in CkptRec
    BY RestingType
  <2>7. FirstTab \in [Pages -> [off : Nat, len : Nat]]
    BY <1>8 DEF Stored
  <2>8. reader = [r \in Readers |-> Resting] /\ ck = NoCkpt /\ base = Zeros
        /\ conn = [hdr |-> FirstHdr, tab |-> FirstTab, alloc |-> FirstAlloc, dirty |-> FALSE]
        /\ salt = 0 /\ nBackfill = 0 /\ clock = 0 /\ lost = {}
    BY DEF Init
  <2>9. conn \in [hdr : HdrRec, tab : [Pages -> [off : Nat, len : Nat]], alloc : AllocRec,
                 dirty : BOOLEAN]
    BY <1>1, <1>2, <2>7, <2>8
  <2> QED BY ONLY <2>2, <2>3, <2>4, <2>5, <2>6, <2>8, <2>9, WalAssumption DEF TypeInv
<1>12. LockInv
  <2>1. /\ \A r \in Readers : reader[r].pc = "idle" /\ reader[r].slot = None
        /\ ck.pc = "idle" /\ None # 0
    BY DEF Init, Resting, NoCkpt, None
  <2> QED BY <2>1 DEF LockInv, CkptHoldsZero
<1>13. DiskInv
  <2>1. /\ \A r \in Readers : ~Pins(reader[r])
        /\ ck.pc = "idle" /\ hdr = FirstHdr /\ conn.hdr = FirstHdr /\ conn.tab = FirstTab
        /\ conn.alloc = FirstAlloc /\ conn.dirty = FALSE
    BY DEF Init, Pins, Resting, NoCkpt
  <2> QED BY <1>1, <1>2, <1>3, <1>7, <1>8, <1>9, <1>10, <2>1 DEF DiskInv, Pages
<1>14. P!IInv /\ P!Init
  <2>1. hdr = FirstHdr /\ conn.alloc = FirstAlloc /\ conn.hdr = FirstHdr /\ conn.tab = FirstTab
    BY DEF Init
  <2>2. Current(hdr) = Pages \cup {NPages + 1, NPages + 2, NPages + 3} /\ Building = Current(hdr)
    BY <1>1, <1>7, <1>8, <1>9, <2>1, NamedIs DEF Current, Building, Init, NoCkpt
  <2>3. Current(hdr) \subseteq Space /\ Spare(FirstAlloc) \subseteq Space \ Current(hdr)
    BY <1>2, <2>2, SpaceIs, InHole DEF Pages, Spare
  <2>4. Recorded = [spare |-> Spare(FirstAlloc), limbo |-> {}]
    BY <1>3, <1>7, <2>1 DEF Recorded
  <2>5. Pinned = [r \in Readers |-> {}] /\ Phase = "idle" /\ MayRecycle = FALSE
    BY DEF Init, Pinned, Phase, MayRecycle, Resting, NoCkpt
  <2>6. P!Init
    BY <1>1, <1>3, <2>1, <2>2, <2>3, <2>4, <2>5 DEF P!Init
  <2> QED BY <2>6, P!InitIInv
<1> QED BY <1>11, <1>12, <1>13, <1>14 DEF Base

LEMMA QuietDisk ==
  ASSUME DiskInv, UNCHANGED <<disk, hdr, conn>>,
         ck' = ck \/ {ck.pc, ck'.pc} \cap {"written", "flipped"} = {},
         ck'.pc \in {"idle", "scan", "done"} => ck.pc \in {"idle", "scan", "done"} \/ ~conn.dirty,
         \A r \in Readers : Pins(reader'[r]) => Generation(disk, reader'[r].hdr)
  PROVE  DiskInv'
BY DEF DiskInv

\* CommitFrame and RestartLog.
LEMMA WriterBase ==
  ASSUME Base, (\E p \in Pages : CommitFrame(p)) \/ RestartLog
  PROVE  BaseStep
<1>1. UNCHANGED <<disk, hdr, conn, reader, ck, lost>>
  BY DEF CommitFrame, RestartLog
<1>2. TypeInv'
  <2>1. CASE \E p \in Pages : CommitFrame(p)
    <3>1. PICK p \in Pages : CommitFrame(p)
      BY <2>1
    <3> DEFINE fr == [page |-> p, val |-> clock + 1]
    <3>2. fr \in Frames /\ wal \in Seq(Frames) /\ wal' = Append(wal, fr) /\ clock \in Nat
      BY <3>1 DEF CommitFrame, Base, TypeInv, Frames
    <3> HIDE DEF fr
    <3>3. wal' \in Seq(Frames) /\ Len(wal') = Len(wal) + 1 /\ Len(wal) \in Nat
      BY <3>2
    <3>4. /\ clock' \in 0 .. MaxFrames /\ Len(wal') <= clock' /\ nBackfill' \in 0 .. Len(wal')
          /\ UNCHANGED <<salt, nBackfill, mark, base>>
      BY <3>1, <3>3, WalAssumption DEF CommitFrame, Base, TypeInv
    <3> QED BY <1>1, <3>3, <3>4 DEF Base, TypeInv
  <2>2. CASE RestartLog
    <3>1. ContentAt(mxFrame) \in [Pages -> Nat]
      <4>1. wal \in Seq(Frames) /\ base \in [Pages -> Nat]
        BY DEF Base, TypeInv
      <4>2. mxFrame \in Nat
        BY <4>1 DEF mxFrame
      <4> QED BY <4>1, <4>2, ContentType, ContentIs
    <3>2. wal' \in Seq(Frames) /\ Len(wal') = 0
      BY <2>2 DEF RestartLog
    <3>3. mark' \in [Slots -> 0 .. NotUsed]
      BY <2>2, WalAssumption DEF RestartLog, NotUsed
    <3>4. /\ clock' = clock /\ nBackfill' = 0 /\ base' = ContentAt(mxFrame) /\ salt' = salt + 1
      BY <2>2 DEF RestartLog
    <3> QED BY <1>1, <3>1, <3>2, <3>3, <3>4 DEF Base, TypeInv
  <2> QED BY <2>1, <2>2
<1>3. LockInv'
  <2>1. /\ wal \in Seq(Frames) /\ mxFrame \in Nat /\ salt \in Nat /\ nBackfill \in Nat
        /\ ck.mx \in Nat /\ ck.salt \in Nat
    <3>1. wal \in Seq(Frames) /\ salt \in Nat /\ nBackfill \in Nat /\ ck \in CkptRec
      BY DEF Base, TypeInv
    <3> QED BY <3>1, WalAssumption DEF mxFrame, CkptRec
  <2>2. \/ mxFrame' = mxFrame + 1 /\ UNCHANGED <<salt, nBackfill>>
        \/ salt' = salt + 1 /\ ~CkptHoldsZero
    <3>1. CASE \E p \in Pages : CommitFrame(p)
      <4>1. PICK p \in Pages : CommitFrame(p)
        BY <3>1
      <4> DEFINE fr == [page |-> p, val |-> clock + 1]
      <4>2. fr \in Frames /\ wal' = Append(wal, fr)
        BY <4>1 DEF CommitFrame, Base, TypeInv, Frames
      <4> HIDE DEF fr
      <4> QED BY <2>1, <4>1, <4>2 DEF CommitFrame, mxFrame
    <3>2. CASE RestartLog
      BY <3>2 DEF RestartLog
    <3> QED BY <3>1, <3>2
  <2>3. /\ ck.pc = "scan" => ck.salt <= salt' /\ ck.safe <= ck.mx /\ (ck.salt = salt' => ck.mx <= mxFrame')
        /\ CkptHoldsZero => nBackfill' < ck.safe /\ ck.safe <= ck.mx /\ ck.mx <= mxFrame'
    BY <2>1, <2>2 DEF Base, LockInv
  <2>4. CkptHoldsZero' = CkptHoldsZero /\ \A s : Holders(s)' = Holders(s)
    BY <1>1 DEF CkptHoldsZero, Holders
  <2> QED BY <1>1, <2>3, <2>4 DEF Base, LockInv
<1>4. DiskInv'
  BY <1>1, QuietDisk DEF Base, DiskInv
<1>5. Pinned' = Pinned /\ Phase' = Phase /\ MayRecycle' = MayRecycle /\ Building' = Building
  BY <1>1, SamePins, SameBuilding DEF Phase, MayRecycle
<1>6. UNCHANGED P!genVars
  BY <1>1, <1>5, Stutters
<1> QED BY <1>2, <1>3, <1>4, <1>6 DEF BaseStep

LEMMA BestIsUsable ==
  ASSUME TypeInv, NEW r \in Readers, Usable(r) # {}
  PROVE  Best(r) \in Usable(r)
<1> DEFINE marks == {mark[s] : s \in Usable(r)}
<1>1. \A s \in Usable(r) : s \in Nat /\ s <= NReader /\ mark[s] \in Nat /\ mark[s] <= NotUsed
  BY WalAssumption DEF TypeInv, Usable, Slots, NotUsed
<1>2. Latest(marks) \in marks /\ \A m \in marks : m <= Latest(marks)
  <2>1. marks \in SUBSET Nat /\ marks # {} /\ NotUsed \in Nat /\ \A m \in marks : m <= NotUsed
    BY <1>1, WalAssumption DEF NotUsed
  <2> HIDE DEF marks
  <2> QED BY <2>1, LatestIs
<1> DEFINE highest == {s \in Usable(r) : mark[s] = Latest(marks)}
<1>3. Latest(highest) \in highest /\ \A s \in highest : s <= Latest(highest)
  <2>1. highest \in SUBSET Nat /\ highest # {} /\ NReader \in Nat /\ \A s \in highest : s <= NReader
    BY <1>1, <1>2, WalAssumption
  <2> HIDE DEF highest
  <2> QED BY <2>1, LatestIs
<1>4. \A t \in Usable(r) : mark[t] <= mark[Latest(highest)]
                           /\ (mark[t] = mark[Latest(highest)] => t <= Latest(highest))
  <2>1. mark[Latest(highest)] = Latest(marks)
    BY <1>3
  <2>2. \A t \in Usable(r) : mark[t] \in marks
    OBVIOUS
  <2>3. \A t \in Usable(r) : mark[t] = Latest(marks) => t \in highest
    OBVIOUS
  <2> HIDE DEF marks, highest
  <2> QED BY <1>2, <1>3, <2>1, <2>2, <2>3
<1>5. \E s \in Usable(r) : \A t \in Usable(r) : mark[t] < mark[s] \/ (mark[t] = mark[s] /\ t <= s)
  <2>1. Latest(highest) \in Usable(r)
    BY <1>3
  <2> HIDE DEF highest
  <2> QED BY <1>1, <1>4, <2>1
<1> QED BY <1>5 DEF Best

\* A reader goes on to v: it lets go of its slot, keeps what it has pinned, or takes a slot
\* and with it the generation that is current, late if the gate has passed the slot.
LEMMA ReaderSet ==
  ASSUME Base, NEW r \in Readers, NEW v \in ReaderRec, reader' = [reader EXCEPT ![r] = v],
         UNCHANGED <<wal, salt, nBackfill, ck, conn, disk, hdr, base, lost, clock>>,
         mark' \in [Slots -> 0 .. NotUsed],
         v.slot # None <=> v.pc \in {"locked", "reading"},
         v.pc = "marked" => v.pick \in Slots, v.pc = "locked" => v.slot # 0,
         v.slot = 0 => ~CkptHoldsZero,
         \/ v.slot = None
         \/ v.slot = reader[r].slot /\ v.hdr = reader[r].hdr /\ v.late = reader[r].late
         \/ reader[r].slot = None /\ v.hdr = hdr /\ (Passed(v.slot) => v.late)
  PROVE  BaseStep
<1>1. /\ reader \in [Readers -> ReaderRec] /\ reader' \in [Readers -> ReaderRec]
      /\ reader'[r] = v /\ \A s \in Readers \ {r} : reader'[s] = reader[s]
  BY DEF Base, TypeInv
<1>2. TypeInv'
  BY <1>1 DEF Base, TypeInv
<1>3. \A s \in Readers : reader[s].slot # None <=> reader[s].pc \in {"locked", "reading"}
  BY DEF Base, LockInv
<1>4. LockInv'
  <2>1. \A s \in Readers : /\ reader'[s].slot # None <=> reader'[s].pc \in {"locked", "reading"}
                           /\ reader'[s].pc = "marked" => reader'[s].pick \in Slots
                           /\ reader'[s].pc = "locked" => reader'[s].slot # 0
                           /\ reader'[s].slot = 0 => ~CkptHoldsZero
    BY <1>1 DEF Base, LockInv
  <2>2. ASSUME ck.pc = "probe", NEW s \in Readers, reader'[s].slot \in 1 .. ck.at - 1
        PROVE  reader'[s].late
    <3>1. ck.at \in Nat /\ \A q \in Readers : reader[q].slot \in 1 .. ck.at - 1 => reader[q].late
      BY <2>2 DEF Base, LockInv, Slots
    <3>2. v.slot \in 1 .. ck.at - 1 => v.late
      BY <2>2, <3>1 DEF Passed, None
    <3> QED BY <1>1, <2>2, <3>1, <3>2
  <2>5. CkptHoldsZero' = CkptHoldsZero
    BY DEF CkptHoldsZero
  <2>6. ck.pc = "probe" => ck.gate /\ ck.at \in Slots
    BY DEF Base, LockInv
  <2>7. mxFrame' = mxFrame
    BY DEF mxFrame
  <2> QED BY <2>1, <2>2, <2>5, <2>6, <2>7 DEF Base, LockInv
<1>5. DiskInv'
  <2>1. \A s \in Readers : Pins(reader'[s]) => Generation(disk, reader'[s].hdr)
    BY <1>1, <1>3 DEF Base, DiskInv, Pins
  <2> QED BY <2>1, QuietDisk DEF Base, DiskInv
<1>6. /\ UNCHANGED <<Current(hdr), Spare(conn.alloc), Limbo(conn.alloc), Recorded, hdr.txn>>
      /\ UNCHANGED <<Building, Phase, MayRecycle>>
  BY DEF Current, Spare, Recorded, Building, Phase, MayRecycle
<1>7. CASE v.slot = None
  <2>1. Pinned' = [Pinned EXCEPT ![r] = {}]
    BY <1>1, <1>7 DEF Pinned, Current
  <2>2. P!Unpin(r)
    BY <1>6, <2>1 DEF P!Unpin
  <2> QED BY <1>2, <1>4, <1>5, <2>2 DEF BaseStep, P!Next
<1>8. CASE v.slot # None /\ v.slot = reader[r].slot /\ v.hdr = reader[r].hdr /\ v.late = reader[r].late
  <2>1. Pinned' = Pinned
    BY <1>1, <1>3, <1>8 DEF Pinned, Current
  <2>2. UNCHANGED P!genVars
    BY <1>6, <2>1 DEF P!genVars
  <2> QED BY <1>2, <1>4, <1>5, <2>2 DEF BaseStep
<1>9. CASE v.slot # None /\ reader[r].slot = None /\ v.hdr = hdr /\ (Passed(v.slot) => v.late)
  <2>1. CASE v.late
    <3>1. Pinned' = [Pinned EXCEPT ![r] = {}]
      BY <1>1, <2>1 DEF Pinned, Current
    <3>2. P!Unpin(r)
      BY <1>6, <3>1 DEF P!Unpin
    <3> QED BY <1>2, <1>4, <1>5, <3>2 DEF BaseStep, P!Next
  <2>2. CASE ~v.late
    <3>1. Pinned' = [Pinned EXCEPT ![r] = Current(hdr)]
      BY <1>1, <1>9, <2>2 DEF Pinned, Current
    <3>2. Pinned[r] = {}
      BY <1>3, <1>9 DEF Pinned
    <3>3. ~(MayRecycle /\ Phase \in {"decided", "written"})
      BY <1>9, <2>2 DEF Passed, MayRecycle, Phase
    <3>4. P!Pin(r)
      BY <1>6, <3>1, <3>2, <3>3 DEF P!Pin
    <3> QED BY <1>2, <1>4, <1>5, <3>4 DEF BaseStep, P!Next
  <2> QED BY <2>1, <2>2
<1> QED BY <1>7, <1>8, <1>9

LEMMA ReaderBase ==
  ASSUME Base, NEW r \in Readers,
         ReadHeader(r) \/ LockZero(r) \/ MarkSlot(r) \/ LockMark(r) \/ BeginRead(r) \/ EndRead(r)
  PROVE  BaseStep
<1> USE WalAssumption
<1>1. /\ reader \in [Readers -> ReaderRec] /\ reader[r] \in ReaderRec
      /\ mark \in [Slots -> 0 .. NotUsed] /\ mxFrame \in 0 .. MaxFrames /\ salt \in Nat
      /\ nBackfill \in Nat /\ hdr \in HdrRec
  <2>1. wal \in Seq(Frames) /\ Len(wal) <= clock /\ clock \in 0 .. MaxFrames
    BY DEF Base, TypeInv
  <2>2. mxFrame \in 0 .. MaxFrames
    BY <2>1 DEF mxFrame
  <2> QED BY <2>2 DEF Base, TypeInv, DiskInv, Generation
<1>2. /\ reader[r].slot # None <=> reader[r].pc \in {"locked", "reading"}
      /\ reader[r].pc = "marked" => reader[r].pick \in Slots
      /\ reader[r].pc = "locked" => reader[r].slot # 0
      /\ reader[r].slot = 0 => ~CkptHoldsZero
  BY DEF Base, LockInv
<1>3. Resting \in ReaderRec /\ Resting.slot = None /\ Resting.pc = "idle"
  BY RestingType DEF Resting
<1> DEFINE Allowed(v) ==
             /\ v.slot # None <=> v.pc \in {"locked", "reading"}
             /\ v.pc = "marked" => v.pick \in Slots
             /\ v.pc = "locked" => v.slot # 0
             /\ v.slot = 0 => ~CkptHoldsZero
             /\ \/ v.slot = None
                \/ v.slot = reader[r].slot /\ v.hdr = reader[r].hdr /\ v.late = reader[r].late
                \/ reader[r].slot = None /\ v.hdr = hdr /\ (Passed(v.slot) => v.late)
<1>S. ASSUME NEW v, v \in ReaderRec, SetReader(r, v), mark' \in [Slots -> 0 .. NotUsed], Allowed(v)
      PROVE  BaseStep
  <2>1. /\ reader' = [reader EXCEPT ![r] = v]
        /\ UNCHANGED <<wal, salt, nBackfill, ck, conn, disk, hdr, base, lost, clock>>
    BY <1>S DEF SetReader
  <2>2. Base /\ r \in Readers
    OBVIOUS
  <2> QED BY ONLY <1>S, <2>1, <2>2, ReaderSet
<1>N. None # 0 /\ None \notin Slots
  BY DEF None, Slots
<1>4. ASSUME mark' = mark, SetReader(r, Resting)
      PROVE  BaseStep
  <2>1. Allowed(Resting)
    BY <1>3, <1>N
  <2> QED BY ONLY <1>S, <1>1, <1>3, <1>4, <2>1
<1>5. CASE ReadHeader(r)
  <2> DEFINE v == [Resting EXCEPT !.pc = "hdr", !.mx = mxFrame, !.salt = salt,
                                  !.snap = ContentAt(mxFrame)]
  <2>1. ContentAt(mxFrame) \in [Pages -> Nat]
    <3>1. wal \in Seq(Frames) /\ base \in [Pages -> Nat] /\ mxFrame \in Nat
      BY <1>1 DEF Base, TypeInv
    <3> QED BY <3>1, ContentType, ContentIs
  <2>2. v \in ReaderRec /\ v.slot = None /\ v.pc = "hdr"
    BY <1>1, <1>3, <2>1 DEF ReaderRec
  <2>3. SetReader(r, v) /\ mark' = mark
    BY <1>5 DEF ReadHeader
  <2> HIDE DEF v
  <2>4. Allowed(v)
    BY <2>2, <1>N
  <2> HIDE DEF Allowed
  <2> QED BY ONLY <1>S, <1>1, <2>2, <2>3, <2>4
<1>6. CASE LockZero(r)
  <2> DEFINE v == [reader[r] EXCEPT !.pc = "reading", !.slot = 0, !.hdr = hdr]
  <2>0. 0 \in {None} \cup (0 .. NReader - 1)
    OBVIOUS
  <2>1. v \in ReaderRec /\ v.slot = 0 /\ v.pc = "reading" /\ v.hdr = hdr
    BY ONLY <1>1, <2>0 DEF ReaderRec
  <2>2. ~CkptHoldsZero /\ ~Passed(0) /\ mark' = mark /\ reader[r].slot = None
    BY <1>2, <1>6 DEF LockZero, Passed, CkptHoldsZero
  <2>3. SetReader(r, v) \/ SetReader(r, Resting)
    BY <1>6 DEF LockZero
  <2> HIDE DEF v
  <2>4. Allowed(v)
    BY <2>1, <2>2, <1>N
  <2> HIDE DEF Allowed
  <2> QED BY ONLY <1>S, <1>1, <1>4, <2>1, <2>2, <2>3, <2>4
<1>7. CASE MarkSlot(r)
  <2> DEFINE low == CHOOSE s \in FreeSlots : \A t \in FreeSlots : s <= t
             own == [reader[r] EXCEPT !.pc = "marked", !.pick = low, !.want = reader[r].mx]
             v   == [reader[r] EXCEPT !.pc = "marked", !.pick = Best(r), !.want = mark[Best(r)]]
  <2>0. reader[r].pc = "hdr" /\ reader[r].slot = None
    BY <1>2, <1>7 DEF MarkSlot
  <2>1. CASE FreeSlots # {} /\ mark' = [mark EXCEPT ![low] = reader[r].mx] /\ SetReader(r, own)
    <3>1. low \in Slots
      <4>1. FreeSlots \in SUBSET Nat
        BY DEF FreeSlots, Slots
      <4>2. \E s \in FreeSlots : \A t \in FreeSlots : s <= t
        BY <2>1, <4>1, NatMin
      <4>3. low \in FreeSlots
        BY <4>2
      <4> QED BY <4>3 DEF FreeSlots
    <3> HIDE DEF low
    <3>2. low \in 0 .. NReader - 1
      BY <3>1 DEF Slots
    <3>3. reader[r].mx \in 0 .. NotUsed
      BY <1>1 DEF ReaderRec, NotUsed
    <3>4. own \in ReaderRec /\ own.slot = None /\ own.pc = "marked" /\ own.pick = low
      BY ONLY <1>1, <2>0, <3>2, <3>3 DEF ReaderRec
    <3>5. mark' \in [Slots -> 0 .. NotUsed]
      BY ONLY <1>1, <2>1, <3>3
    <3> HIDE DEF own
    <3>6. Allowed(own)
      BY <3>1, <3>4, <1>N
    <3> HIDE DEF Allowed
    <3> QED BY ONLY <1>S, <2>1, <3>4, <3>5, <3>6
  <2>2. CASE mark' = mark /\ Usable(r) # {} /\ SetReader(r, v)
    <3>1. Best(r) \in Slots
      BY <2>2, BestIsUsable DEF Base, Usable
    <3>2. Best(r) \in 0 .. NReader - 1 /\ mark[Best(r)] \in 0 .. NotUsed
      BY <1>1, <3>1 DEF Slots
    <3>3. v \in ReaderRec /\ v.slot = None /\ v.pc = "marked" /\ v.pick = Best(r)
      BY ONLY <1>1, <2>0, <3>2 DEF ReaderRec
    <3> HIDE DEF v
    <3>4. Allowed(v)
      BY <3>1, <3>3, <1>N
    <3> HIDE DEF Allowed
    <3> QED BY ONLY <1>S, <1>1, <2>2, <3>3, <3>4
  <2>3. CASE mark' = mark /\ SetReader(r, Resting)
    BY <1>4, <2>3
  <2> QED BY <1>7, <2>1, <2>2, <2>3 DEF MarkSlot
<1>8. CASE LockMark(r)
  <2> DEFINE v == [reader[r] EXCEPT !.pc = "locked", !.slot = reader[r].pick, !.pick = 0, !.hdr = hdr,
                                    !.late = Passed(reader[r].pick)]
  <2>0. reader[r].pick \in Slots /\ Slots \subseteq 0 .. NReader - 1 /\ 0 \in 0 .. NReader - 1
        /\ 0 \notin Slots /\ reader[r].slot = None
    BY <1>2, <1>8 DEF LockMark, Slots
  <2>P. Passed(reader[r].pick) \in BOOLEAN
    BY DEF Passed
  <2>1. v \in ReaderRec /\ v.slot = reader[r].pick /\ v.pc = "locked" /\ v.hdr = hdr
        /\ v.late = Passed(v.slot)
    BY ONLY <1>1, <2>0, <2>P DEF ReaderRec
  <2>2. mark' = mark /\ SetReader(r, v)
    BY <1>8 DEF LockMark
  <2> HIDE DEF v
  <2>3. Allowed(v)
    BY <2>0, <2>1, <2>2, <1>N
  <2> HIDE DEF Allowed
  <2> QED BY ONLY <1>S, <1>1, <2>1, <2>2, <2>3
<1>9. CASE BeginRead(r)
  <2> DEFINE v == [reader[r] EXCEPT !.pc = "reading", !.minFrame = nBackfill + 1]
  <2>0. nBackfill + 1 \in Nat /\ reader[r].slot # None /\ reader[r].slot # 0
    BY <1>1, <1>2, <1>9 DEF BeginRead
  <2>1. /\ v \in ReaderRec /\ v.slot = reader[r].slot /\ v.pc = "reading"
        /\ v.hdr = reader[r].hdr /\ v.late = reader[r].late
    BY ONLY <1>1, <2>0 DEF ReaderRec
  <2>2. mark' = mark /\ (SetReader(r, v) \/ SetReader(r, Resting))
    BY <1>9 DEF BeginRead
  <2> HIDE DEF v
  <2>3. Allowed(v)
    BY <1>2, <2>0, <2>1
  <2> HIDE DEF Allowed
  <2> QED BY ONLY <1>S, <1>1, <1>4, <2>1, <2>2, <2>3
<1>10. CASE EndRead(r)
  BY <1>4, <1>10 DEF EndRead
<1> QED BY <1>5, <1>6, <1>7, <1>8, <1>9, <1>10

----------------------------------------------------------------------------
(* The layer below: steps of a checkpoint that write nothing *)

\* The same reader, but for what its history says of a checkpoint that overtook it.
Alike(v, w) == /\ v.pc = w.pc /\ v.slot = w.slot /\ v.pick = w.pick /\ v.hdr = w.hdr
               /\ v.late = w.late
AlikeReaders == reader' \in [Readers -> ReaderRec] /\ \A r \in Readers : Alike(reader'[r], reader[r])

\* What every step of this kind has in common.
LEMMA CkptSet ==
  ASSUME Base, NEW v \in CkptRec, ck' = v, AlikeReaders,
         UNCHANGED <<wal, salt, base, lost, clock, conn, disk, hdr>>,
         mark' \in [Slots -> 0 .. NotUsed], nBackfill' \in 0 .. Len(wal),
         {ck.pc, v.pc} \cap {"written", "flipped"} = {},
         v.pc \in {"idle", "scan", "done"} => ck.pc \in {"idle", "scan", "done"} \/ ~conn.dirty,
         v.pc = "probe" => /\ v.gate /\ v.at \in Slots
                           /\ \A r \in Readers : reader[r].slot \in 1 .. v.at - 1 => reader[r].late,
         v.pc = "scan" => v.salt <= salt /\ v.safe <= v.mx /\ (v.salt = salt => v.mx <= mxFrame),
         v.pc \in {"copy", "probe", "commit", "done"} =>
           Holders(0) = {} /\ nBackfill' < v.safe /\ v.safe <= v.mx /\ v.mx <= mxFrame
  PROVE  /\ TypeInv' /\ LockInv' /\ DiskInv' /\ Pinned' = Pinned /\ Building' = Building
         /\ UNCHANGED <<Current(hdr), Spare(conn.alloc), Limbo(conn.alloc), Recorded, hdr.txn>>
<1>A. \A r \in Readers : /\ reader'[r].pc = reader[r].pc /\ reader'[r].slot = reader[r].slot
                         /\ reader'[r].pick = reader[r].pick /\ reader'[r].hdr = reader[r].hdr
                         /\ reader'[r].late = reader[r].late
  BY DEF AlikeReaders, Alike
<1>1. TypeInv'
  BY DEF Base, TypeInv, AlikeReaders
<1>2. LockInv'
  <2>1. /\ CkptHoldsZero' <=> v.pc \in {"copy", "probe", "commit", "done"}
        /\ mxFrame' = mxFrame
    BY DEF CkptHoldsZero, mxFrame
  <2>2. \A r \in Readers : reader[r].slot = 0 => ~CkptHoldsZero'
    BY <2>1 DEF Holders
  <2> QED BY <1>A, <2>1, <2>2 DEF Base, LockInv
<1>3. DiskInv'
  <2>1. \A r \in Readers : Pins(reader'[r]) => Generation(disk, reader'[r].hdr)
    BY <1>A DEF Base, DiskInv, Pins
  <2> QED BY <2>1, QuietDisk DEF Base, DiskInv
<1>4. Pinned' = Pinned /\ Building' = Building
  BY <1>A, SamePins, SameBuilding DEF Pins
<1>5. UNCHANGED <<Current(hdr), Spare(conn.alloc), Limbo(conn.alloc), Recorded, hdr.txn>>
  BY DEF Current, Spare, Recorded
<1> QED BY <1>1, <1>2, <1>3, <1>4, <1>5

LEMMA CkptBase ==
  ASSUME Base, \/ BeginCkpt \/ ScanMark \/ CopyStops \/ CkptDone \/ ProbeSlot \/ EndCkpt
               \/ (StartCopy /\ conn' = conn)
  PROVE  BaseStep
<1> USE WalAssumption
<1>1. /\ wal \in Seq(Frames) /\ mxFrame \in 0 .. MaxFrames /\ salt \in Nat /\ nBackfill \in 0 .. mxFrame
      /\ mark \in [Slots -> 0 .. NotUsed] /\ ck \in CkptRec
  <2>1. wal \in Seq(Frames) /\ Len(wal) <= clock /\ clock \in 0 .. MaxFrames
    BY DEF Base, TypeInv
  <2>2. mxFrame \in 0 .. MaxFrames
    BY <2>1 DEF mxFrame
  <2> QED BY <2>2 DEF Base, TypeInv, mxFrame
<1>2. /\ ck.mx \in 0 .. MaxFrames /\ ck.salt \in Nat /\ ck.safe \in 0 .. MaxFrames /\ ck.at \in 0 .. NReader
      /\ ck.gate \in BOOLEAN /\ ck.pc # "idle" => ck # NoCkpt
  BY <1>1 DEF CkptRec, NoCkpt
<1>3. /\ ck.pc = "scan" => ck.salt <= salt /\ ck.safe <= ck.mx /\ (ck.salt = salt => ck.mx <= mxFrame)
      /\ CkptHoldsZero => nBackfill < ck.safe /\ ck.safe <= ck.mx /\ ck.mx <= mxFrame
      /\ CkptHoldsZero => Holders(0) = {}
      /\ ck.pc = "probe" => /\ ck.gate /\ ck.at \in Slots
                            /\ \A r \in Readers : reader[r].slot \in 1 .. ck.at - 1 => reader[r].late
  BY DEF Base, LockInv, Holders
<1> DEFINE Allowed(v) ==
             /\ {ck.pc, v.pc} \cap {"written", "flipped"} = {}
             /\ v.pc \in {"idle", "scan", "done"} => ck.pc \in {"idle", "scan", "done"} \/ ~conn.dirty
             /\ v.pc = "probe" => /\ v.gate /\ v.at \in Slots
                                  /\ \A r \in Readers : reader[r].slot \in 1 .. v.at - 1 => reader[r].late
             /\ v.pc = "scan" => v.salt <= salt /\ v.safe <= v.mx /\ (v.salt = salt => v.mx <= mxFrame)
             /\ v.pc \in {"copy", "probe", "commit", "done"} =>
                  Holders(0) = {} /\ nBackfill' < v.safe /\ v.safe <= v.mx /\ v.mx <= mxFrame
           Kept == UNCHANGED <<Current(hdr), Spare(conn.alloc), Limbo(conn.alloc), Recorded,
                               hdr.txn, Pinned, Building>>
<1>3a. reader' = reader => AlikeReaders
  BY DEF Base, TypeInv, AlikeReaders, Alike
<1>4. ASSUME NEW v, v \in CkptRec, SetCkpt(v), UNCHANGED <<lost, conn, disk, hdr>>, AlikeReaders,
             mark' \in [Slots -> 0 .. NotUsed], nBackfill' \in 0 .. mxFrame, Allowed(v)
      PROVE  /\ TypeInv' /\ LockInv' /\ DiskInv' /\ Kept
             /\ Phase' = Phase /\ MayRecycle' = MayRecycle => BaseStep
  <2>1. ck' = v /\ UNCHANGED <<wal, salt, base, lost, clock, conn, disk, hdr>>
        /\ nBackfill' \in 0 .. Len(wal)
    BY <1>4 DEF SetCkpt, mxFrame
  <2>2. Base
    OBVIOUS
  <2>3. TypeInv' /\ LockInv' /\ DiskInv' /\ Kept
    BY ONLY <1>4, <2>1, <2>2, CkptSet
  <2>4. Phase' = Phase /\ MayRecycle' = MayRecycle => UNCHANGED P!genVars
    BY <2>3 DEF P!genVars
  <2> QED BY <2>3, <2>4 DEF BaseStep
<1>5. CASE BeginCkpt
  <2> DEFINE v == [NoCkpt EXCEPT !.pc = "scan", !.mx = mxFrame, !.salt = salt, !.safe = mxFrame, !.at = 1]
  <2>0. 1 \in 0 .. NReader
    OBVIOUS
  <2>1. v \in CkptRec /\ v.pc = "scan" /\ v.salt = salt /\ v.safe = mxFrame /\ v.mx = mxFrame /\ v.gate = FALSE
    BY ONLY <1>1, <2>0, RestingType DEF CkptRec, NoCkpt
  <2>2. SetCkpt(v) /\ UNCHANGED <<nBackfill, reader, lost, mark, conn, disk, hdr>> /\ ck.pc = "idle"
    BY <1>5 DEF BeginCkpt
  <2> HIDE DEF v
  <2>3. Allowed(v)
    BY <1>1, <2>1, <2>2
  <2>4. Phase' = Phase /\ MayRecycle' = MayRecycle
    BY <2>1, <2>2 DEF Phase, MayRecycle, SetCkpt
  <2> HIDE DEF Allowed, Kept
  <2> QED BY ONLY <1>1, <1>3a, <1>4, <2>1, <2>2, <2>3, <2>4
<1>6. CASE ScanMark
  <2> DEFINE y  == mark[ck.at]
             sf == IF ck.safe > y /\ Holders(ck.at) # {} THEN y ELSE ck.safe
             v  == [ck EXCEPT !.at = ck.at + 1, !.safe = sf]
  <2>1. /\ SetCkpt(v) /\ UNCHANGED <<nBackfill, reader, lost, conn, disk, hdr>> /\ ck.pc = "scan" /\ ck.at \in Slots
        /\ mark' \in {mark, [mark EXCEPT ![ck.at] = ck.safe], [mark EXCEPT ![ck.at] = NotUsed]}
    BY <1>1, <1>6 DEF ScanMark, CkptRec
  <2>2. y \in 0 .. NotUsed /\ sf \in 0 .. MaxFrames /\ sf <= ck.safe /\ ck.at + 1 \in 0 .. NReader
    <3>1. y \in 0 .. NotUsed
      BY <1>1, <2>1
    <3>2. ck.at \in 1 .. NReader - 1
      BY <2>1 DEF Slots
    <3> HIDE DEF y
    <3>3. ck.safe > y => y \in 0 .. MaxFrames /\ y <= ck.safe
      BY ONLY <1>2, <3>1, WalAssumption DEF NotUsed
    <3>4. ck.safe <= ck.safe /\ ck.at + 1 \in 0 .. NReader
      BY ONLY <1>2, <3>2, WalAssumption
    <3> QED BY <1>2, <3>1, <3>3, <3>4
  <2> HIDE DEF sf
  <2>3. v \in CkptRec /\ v.pc = "scan" /\ v.salt = ck.salt /\ v.safe = sf /\ v.mx = ck.mx /\ v.gate = ck.gate
    BY ONLY <1>1, <2>1, <2>2 DEF CkptRec
  <2> HIDE DEF v
  <2>4. Allowed(v)
    BY <1>1, <1>2, <1>3, <2>1, <2>2, <2>3
  <2>5. mark' \in [Slots -> 0 .. NotUsed]
    <3>1. ck.safe \in 0 .. NotUsed /\ NotUsed \in 0 .. NotUsed
      BY <1>2 DEF NotUsed
    <3> QED BY ONLY <1>1, <2>1, <3>1
  <2>6. Phase' = Phase /\ MayRecycle' = MayRecycle
    BY <2>1, <2>3 DEF Phase, MayRecycle, SetCkpt
  <2> HIDE DEF Allowed, Kept
  <2> QED BY ONLY <1>1, <1>3a, <1>4, <2>1, <2>3, <2>4, <2>5, <2>6
<1>7. CASE CopyStops
  <2> DEFINE v == [ck EXCEPT !.todo = {}, !.ok = FALSE]
  <2>1. v \in CkptRec /\ v.pc = ck.pc /\ v.safe = ck.safe /\ v.mx = ck.mx /\ v.gate = ck.gate
    BY ONLY <1>1 DEF CkptRec
  <2>2. SetCkpt(v) /\ UNCHANGED <<nBackfill, reader, lost, mark, conn, disk, hdr>> /\ ck.pc = "copy"
    BY <1>7 DEF CopyStops
  <2> HIDE DEF v
  <2>3. Allowed(v)
    BY <1>3, <2>1, <2>2 DEF CkptHoldsZero
  <2>4. Phase' = Phase /\ MayRecycle' = MayRecycle
    BY <2>1, <2>2 DEF Phase, MayRecycle, SetCkpt
  <2> HIDE DEF Allowed, Kept
  <2> QED BY ONLY <1>1, <1>3a, <1>4, <2>1, <2>2, <2>3, <2>4
<1>8. CASE CkptDone
  <2> DEFINE to == IF conn.dirty THEN "probe" ELSE "done"
             v  == [ck EXCEPT !.pc = to, !.at = 1, !.gate = TRUE]
  <2>0. to \in {"probe", "done"} /\ 1 \in 0 .. NReader /\ 1 \in Slots
    BY DEF Slots
  <2>1. /\ v \in CkptRec /\ v.pc = to /\ v.safe = ck.safe /\ v.mx = ck.mx /\ v.gate = TRUE /\ v.at = 1
    BY ONLY <1>1, <2>0 DEF CkptRec
  <2>2. SetCkpt(v) /\ UNCHANGED <<nBackfill, reader, lost, mark, conn, disk, hdr>> /\ ck.pc = "copy"
    BY <1>8 DEF CkptDone
  <2> HIDE DEF v
  <2>3. Allowed(v)
    BY <1>3, <2>0, <2>1, <2>2 DEF CkptHoldsZero
  <2>4. Phase = "idle" /\ MayRecycle = FALSE /\ MayRecycle' = FALSE
        /\ Phase' = IF conn.dirty THEN "probing" ELSE "idle"
    BY <2>1, <2>2 DEF Phase, MayRecycle, SetCkpt
  <2> HIDE DEF Allowed
  <2>5. TypeInv' /\ LockInv' /\ DiskInv' /\ Kept /\ (Phase' = Phase => BaseStep)
    BY ONLY <1>1, <1>3a, <1>4, <2>1, <2>2, <2>3, <2>4
  <2>6. conn.dirty => P!BeginCommit
    BY <2>4, <2>5 DEF P!BeginCommit
  <2> QED BY <2>4, <2>5, <2>6 DEF BaseStep, P!Next
<1>9. CASE ProbeSlot
  <2> DEFINE shut == [ck EXCEPT !.pc = "commit", !.gate = FALSE, !.at = NReader]
             to   == IF ck.at = NReader - 1 THEN "commit" ELSE "probe"
             on   == [ck EXCEPT !.at = ck.at + 1, !.pc = to]
             v    == IF Holders(ck.at) # {} THEN shut ELSE on
  <2>1. /\ SetCkpt(v) /\ UNCHANGED <<nBackfill, reader, lost, mark, conn, disk, hdr>> /\ ck.pc = "probe"
        /\ ck.gate /\ ck.at \in Slots
    BY <1>1, <1>3, <1>9 DEF ProbeSlot, CkptRec
  <2>2. ck.at + 1 \in 0 .. NReader /\ to \in {"commit", "probe"}
        /\ (to = "probe" => ck.at + 1 \in Slots)
    BY <1>2, <2>1 DEF Slots
  <2>2a. NReader \in 0 .. NReader
    BY <1>2
  <2>3. /\ shut \in CkptRec /\ shut.pc = "commit" /\ shut.safe = ck.safe /\ shut.mx = ck.mx /\ shut.gate = FALSE
        /\ on \in CkptRec /\ on.pc = to /\ on.safe = ck.safe /\ on.mx = ck.mx /\ on.gate = ck.gate
        /\ on.at = ck.at + 1
    BY ONLY <1>1, <2>2, <2>2a DEF CkptRec
  <2>4. Holders(ck.at) = {} => \A r \in Readers : reader[r].slot \in 1 .. ck.at => reader[r].late
    BY <1>2, <1>3, <2>1 DEF Holders
  <2> HIDE DEF shut, on
  <2>5. v \in CkptRec /\ v.pc \in {"commit", "probe"}
    BY <2>2, <2>3
  <2>6. Allowed(v)
    <3>1. CkptHoldsZero
      BY <2>1 DEF CkptHoldsZero
    <3>2. nBackfill' < ck.safe /\ ck.safe <= ck.mx /\ ck.mx <= mxFrame /\ Holders(0) = {}
      BY <1>3, <2>1, <3>1
    <3>3. CASE Holders(ck.at) # {}
      BY <2>1, <2>3, <3>2, <3>3
    <3>4. CASE Holders(ck.at) = {}
      <4>1. \A r \in Readers : reader[r].slot \in 1 .. on.at - 1 => reader[r].late
        BY <1>2, <2>3, <2>4, <3>4
      <4> QED BY <2>1, <2>2, <2>3, <3>2, <3>4, <4>1
    <3> QED BY <3>3, <3>4
  <2>7. /\ Phase = "probing" /\ MayRecycle = FALSE
        /\ v.pc = "probe" => Phase' = "probing" /\ MayRecycle' = FALSE
        /\ v.pc = "commit" => Phase' = "decided" /\ MayRecycle' = v.gate
    <3>1. ck' = v /\ ck.pc = "probe" /\ v.gate \in BOOLEAN
      BY <2>1, <2>5 DEF SetCkpt, CkptRec
    <3> HIDE DEF v
    <3>2. Phase = "probing" /\ MayRecycle = FALSE
      BY ONLY <3>1 DEF Phase, MayRecycle
    <3>3. ASSUME v.pc = "probe" PROVE Phase' = "probing" /\ MayRecycle' = FALSE
      BY ONLY <3>1, <3>3 DEF Phase, MayRecycle
    <3>4. ASSUME v.pc = "commit" PROVE Phase' = "decided" /\ MayRecycle' = v.gate
      BY ONLY <3>1, <3>4 DEF Phase, MayRecycle
    <3> QED BY <3>2, <3>3, <3>4
  <2>8. v.pc = "commit" /\ v.gate => \A r \in Readers : Pinned[r] = {}
    <3> SUFFICES ASSUME v.pc = "commit", v.gate, NEW r \in Readers PROVE Pinned[r] = {}
      OBVIOUS
    <3>1. Holders(ck.at) = {} /\ ck.at = NReader - 1
      BY <2>3
    <3>2. \A q \in Readers : reader[q].slot \in 1 .. NReader - 1 => reader[q].late
      BY <2>4, <3>1
    <3>3. Holders(0) = {}
      BY <1>3, <2>1 DEF CkptHoldsZero
    <3>4. reader[r].slot \in {None} \cup (0 .. NReader - 1)
      <4>1. reader[r] \in ReaderRec
        BY DEF Base, TypeInv
      <4> QED BY ONLY <4>1 DEF ReaderRec
    <3>5. reader[r].slot = None \/ reader[r].late
      BY <3>2, <3>3, <3>4 DEF Holders
    <3> QED BY <3>5 DEF Base, LockInv, Pinned
  <2>9. v.gate \in BOOLEAN
    BY <2>5 DEF CkptRec
  <2> HIDE DEF Allowed, v
  <2>10. TypeInv' /\ LockInv' /\ DiskInv' /\ Kept /\ (Phase' = Phase /\ MayRecycle' = MayRecycle => BaseStep)
    BY ONLY <1>1, <1>3a, <1>4, <2>1, <2>5, <2>6
  <2>11. v.pc = "commit" => P!Decide
    BY <2>7, <2>8, <2>9, <2>10 DEF P!Decide
  <2> QED BY <2>5, <2>7, <2>10, <2>11 DEF BaseStep, P!Next
<1>10. CASE EndCkpt
  <2>1. NoCkpt \in CkptRec /\ NoCkpt.pc = "idle" /\ NoCkpt.gate = FALSE
    BY RestingType DEF NoCkpt
  <2>2. /\ SetCkpt(NoCkpt) /\ UNCHANGED <<lost, mark, conn, disk, hdr>> /\ ck.pc = "done"
        /\ nBackfill' \in {nBackfill, ck.safe} /\ reader' = Overtakes
    BY <1>10 DEF EndCkpt
  <2>6. AlikeReaders
    <3>1. ASSUME NEW r \in Readers
          PROVE  reader'[r] \in ReaderRec /\ Alike(reader'[r], reader[r])
      <4>1. reader[r] \in ReaderRec
        BY DEF Base, TypeInv
      <4> DEFINE o == reader[r].overtaken \/ (reader[r].pc = "locked" /\ ck.ok /\ reader[r].hdr # hdr)
      <4>2. o \in BOOLEAN /\ reader'[r] = [reader[r] EXCEPT !.overtaken = o]
        BY <2>2, <4>1 DEF Overtakes, ReaderRec
      <4> HIDE DEF o
      <4> QED BY ONLY <4>1, <4>2 DEF ReaderRec, Alike
    <3> QED BY <2>2, <3>1 DEF AlikeReaders, Overtakes
  <2>3. Allowed(NoCkpt)
    BY <2>1, <2>2
  <2>4. nBackfill' \in 0 .. mxFrame
    BY <1>1, <1>2, <1>3, <2>2 DEF CkptHoldsZero
  <2>5. Phase' = Phase /\ MayRecycle' = MayRecycle
    BY <2>1, <2>2 DEF Phase, MayRecycle, SetCkpt
  <2> HIDE DEF Allowed, Kept
  <2> QED BY ONLY <1>1, <1>4, <2>1, <2>2, <2>3, <2>4, <2>5, <2>6
<1>11. CASE StartCopy /\ conn' = conn
  <2> DEFINE v == [ck EXCEPT !.pc = "copy", !.todo = ToCopy]
  <2>0. ToCopy \subseteq Pages
    BY DEF ToCopy
  <2>1. v \in CkptRec /\ v.pc = "copy" /\ v.safe = ck.safe /\ v.mx = ck.mx /\ v.gate = ck.gate
    BY ONLY <1>1, <2>0 DEF CkptRec
  <2>2. NoCkpt \in CkptRec /\ NoCkpt.pc = "idle" /\ NoCkpt.gate = FALSE
    BY RestingType DEF NoCkpt
  <2>3. /\ UNCHANGED <<nBackfill, reader, lost, mark, conn, disk, hdr>> /\ ck.pc = "scan"
        /\ \/ SetCkpt(v) /\ nBackfill < ck.safe /\ Holders(0) = {} /\ ck.salt = salt
           \/ SetCkpt(NoCkpt)
    BY <1>11 DEF StartCopy
  <2> HIDE DEF v
  <2>4. Allowed(NoCkpt)
    BY <2>2, <2>3
  <2>5. SetCkpt(v) /\ nBackfill < ck.safe /\ Holders(0) = {} /\ ck.salt = salt => Allowed(v)
    BY <1>3, <2>1, <2>3
  <2>6. Phase' = Phase /\ MayRecycle' = MayRecycle
    BY <2>1, <2>2, <2>3 DEF Phase, MayRecycle, SetCkpt
  <2> HIDE DEF Allowed, Kept
  <2> QED BY ONLY <1>1, <1>3a, <1>4, <2>1, <2>2, <2>3, <2>4, <2>5, <2>6
<1> QED BY <1>5, <1>6, <1>7, <1>8, <1>9, <1>10, <1>11

----------------------------------------------------------------------------
(* The layer below: steps that change the container *)

\* What a step that writes only where there is room leaves as it was.
LEMMA WriteSpare ==
  ASSUME Endless, Base, NEW S, Current(hdr) \cap S = {}, \A r \in Readers : Pinned[r] \cap S = {},
         \A g \in Granules \ (S \cup HoleSet) : disk'[g] = disk[g], UNCHANGED <<hdr, reader>>
  PROVE  /\ Generation(disk', hdr) /\ disk'[hdr.root].tab = disk[hdr.root].tab
         /\ Load(disk', hdr) = Load(disk, hdr)
         /\ \A r \in Readers : Pins(reader[r]) => Generation(disk', reader[r].hdr)
         /\ UNCHANGED <<Current(hdr), Recorded, Pinned>>
<1>1. ASSUME NEW h, Generation(disk, h), Current(h) \cap S = {}, Current(h) \subseteq Space
      PROVE  /\ Generation(disk', h) /\ disk'[h.root].tab = disk[h.root].tab
             /\ Load(disk', h) = Load(disk, h)
  <2>1. \A g \in Named(h, disk[h.root].tab) : disk'[g] = disk[g]
    BY <1>1 DEF Current, Space
  <2> QED BY <1>1, <2>1, GenerationFrame
<1>2. Generation(disk, hdr) /\ Current(hdr) \subseteq Space
  BY DEF Base, DiskInv, P!IInv, P!TypeInv
<1>3. /\ Generation(disk', hdr) /\ disk'[hdr.root].tab = disk[hdr.root].tab
      /\ Load(disk', hdr) = Load(disk, hdr)
  BY <1>1, <1>2
<1>4. ASSUME NEW r \in Readers, Pins(reader[r])
      PROVE  Generation(disk', reader[r].hdr) /\ disk'[reader[r].hdr.root].tab = disk[reader[r].hdr.root].tab
  <2>1. Pinned[r] = Current(reader[r].hdr) /\ Pinned[r] \subseteq Space
    BY <1>4 DEF Pins, Pinned, Base, P!IInv, P!TypeInv
  <2>2. Generation(disk, reader[r].hdr)
    BY <1>4 DEF Base, DiskInv
  <2> QED BY <1>1, <2>1, <2>2
<1>5. UNCHANGED <<Current(hdr), Recorded>>
  BY <1>3 DEF Current, Recorded, Spare
<1>6. Pinned' = Pinned
  BY <1>4 DEF Pinned, Pins, Current
<1> QED BY <1>3, <1>4, <1>5, <1>6

\* A checkpoint goes on, with slot 0 in its hands before and after.
LEMMA LockSet ==
  ASSUME Base, NEW v, ck' = v, CkptHoldsZero, UNCHANGED <<wal, salt, reader, nBackfill>>,
         v.pc \in {"copy", "commit", "written", "flipped", "done"}, v.safe = ck.safe, v.mx = ck.mx
  PROVE  LockInv'
<1>1. CkptHoldsZero' /\ mxFrame' = mxFrame /\ v.pc # "probe" /\ v.pc # "scan"
  BY DEF CkptHoldsZero, mxFrame
<1> QED BY <1>1 DEF Base, LockInv

\* zctr_revalidate, and zctr_sync_abort: the container is what the file says.
LEMMA ReloadDisk ==
  ASSUME Base, UNCHANGED <<disk, hdr, reader>>, ck'.pc \in {"copy", "done"},
         conn' = [hdr |-> hdr, tab |-> disk[hdr.root].tab, alloc |-> Load(disk, hdr), dirty |-> FALSE]
  PROVE  /\ DiskInv' /\ Building' = Current(hdr) /\ conn'.alloc = Load(disk, hdr)
         /\ conn' \in [hdr : HdrRec, tab : [Pages -> [off : Nat, len : Nat]], alloc : AllocRec,
                       dirty : BOOLEAN]
<1>1. /\ conn'.hdr = hdr /\ conn'.tab = disk[hdr.root].tab /\ conn'.alloc = Load(disk, hdr)
      /\ conn'.dirty = FALSE
  OBVIOUS
<1>2. Generation(disk, hdr) /\ Sound(Load(disk, hdr)) /\ Load(disk, hdr).append = FALSE
  BY DEF Base, DiskInv, Load
<1>3. /\ hdr \in HdrRec /\ Stored(disk, disk[hdr.root].tab)
      /\ Lists(hdr) \cap Span(disk[hdr.root].tab) = {}
  BY <1>2 DEF Generation
<1>4. DiskInv'
  BY <1>1, <1>2, <1>3 DEF Base, DiskInv
<1>5. Building' = Current(hdr)
  BY <1>1 DEF Building, Current
<1>6. disk[hdr.root].tab \in [Pages -> [off : Nat, len : Nat]] /\ Load(disk, hdr) \in AllocRec
  BY <1>2, <1>3 DEF Stored, Sound
<1> QED BY <1>1, <1>3, <1>4, <1>5, <1>6

LEMMA ReloadBase ==
  ASSUME Base, StartCopy, conn' # conn
  PROVE  BaseStep
<1> DEFINE v == [ck EXCEPT !.pc = "copy", !.todo = ToCopy]
<1>1. /\ ck' = v /\ UNCHANGED <<wal, salt, reader, base, lost, clock, nBackfill, mark, disk, hdr>>
      /\ ck.pc = "scan" /\ nBackfill < ck.safe /\ Holders(0) = {} /\ ck.salt = salt
      /\ conn' = [hdr |-> hdr, tab |-> disk[hdr.root].tab, alloc |-> Load(disk, hdr), dirty |-> FALSE]
  BY DEF StartCopy, Adopted, SetCkpt
<1>2. ck \in CkptRec /\ ToCopy \subseteq Pages
  BY DEF Base, TypeInv, ToCopy
<1>3. v \in CkptRec /\ v.pc = "copy" /\ v.safe = ck.safe /\ v.mx = ck.mx
  BY ONLY <1>2 DEF CkptRec
<1> HIDE DEF v
<1>4. /\ DiskInv' /\ Building' = Current(hdr) /\ conn'.alloc = Load(disk, hdr)
      /\ conn' \in [hdr : HdrRec, tab : [Pages -> [off : Nat, len : Nat]], alloc : AllocRec,
                    dirty : BOOLEAN]
  BY <1>1, <1>3, ReloadDisk
<1>5. TypeInv'
  BY <1>1, <1>3, <1>4 DEF Base, TypeInv
<1>6. LockInv'
  <2>1. /\ mxFrame' = mxFrame /\ CkptHoldsZero' /\ \A s : Holders(s)' = Holders(s)
    BY <1>1, <1>3 DEF mxFrame, CkptHoldsZero, Holders
  <2>2. \A r \in Readers : reader[r].slot # 0
    BY <1>1 DEF Holders
  <2> QED BY <1>1, <1>3, <2>1, <2>2 DEF Base, LockInv
<1>7. P!Reload
  <2>1. UNCHANGED <<Current(hdr), Recorded, Pinned, hdr.txn>>
    BY <1>1 DEF Current, Recorded, Spare, Pinned
  <2>2. Phase = "idle" /\ Phase' = "idle" /\ MayRecycle = FALSE /\ MayRecycle' = FALSE
    BY <1>1, <1>3 DEF Phase, MayRecycle
  <2>3. Spare(conn.alloc)' = Recorded.spare /\ Limbo(conn.alloc)' = Recorded.limbo
    BY <1>4 DEF Recorded, Spare
  <2> QED BY <1>4, <2>1, <2>2, <2>3 DEF P!Reload
<1> QED BY <1>4, <1>5, <1>6, <1>7 DEF BaseStep, P!Next

LEMMA FailBase ==
  ASSUME Base, CommitFails
  PROVE  BaseStep
<1> DEFINE v == [ck EXCEPT !.pc = "done"]
<1>1. /\ ck' = v /\ UNCHANGED <<wal, salt, reader, base, clock, nBackfill, mark, disk, hdr>>
      /\ ck.pc = "written" /\ lost' \in {lost, lost \cup ToCopy}
      /\ conn' = [hdr |-> hdr, tab |-> disk[hdr.root].tab, alloc |-> Load(disk, hdr), dirty |-> FALSE]
  BY DEF CommitFails, SetCkpt
<1>2. ck \in CkptRec /\ ToCopy \subseteq Pages /\ lost \subseteq Pages
  BY DEF Base, TypeInv, ToCopy
<1>3. v \in CkptRec /\ v.pc = "done" /\ v.safe = ck.safe /\ v.mx = ck.mx
  BY ONLY <1>2 DEF CkptRec
<1> HIDE DEF v
<1>4. /\ DiskInv' /\ Building' = Current(hdr) /\ conn'.alloc = Load(disk, hdr)
      /\ conn' \in [hdr : HdrRec, tab : [Pages -> [off : Nat, len : Nat]], alloc : AllocRec,
                    dirty : BOOLEAN]
  BY <1>1, <1>3, ReloadDisk
<1>5. TypeInv'
  BY <1>1, <1>2, <1>3, <1>4 DEF Base, TypeInv
<1>6. LockInv'
  <2>1. CkptHoldsZero
    BY <1>1 DEF CkptHoldsZero
  <2> QED BY <1>1, <1>3, <2>1, LockSet
<1>7. P!Fail
  <2>1. UNCHANGED <<Current(hdr), Recorded, Pinned, hdr.txn>>
    BY <1>1 DEF Current, Recorded, Spare, Pinned
  <2>2. Phase = "written" /\ Phase' = "idle" /\ MayRecycle' = FALSE
    BY <1>1, <1>3 DEF Phase, MayRecycle
  <2>3. Spare(conn.alloc)' = Recorded.spare /\ Limbo(conn.alloc)' = Recorded.limbo
    BY <1>4 DEF Recorded, Spare
  <2> QED BY <1>4, <2>1, <2>2, <2>3 DEF P!Fail
<1> QED BY <1>4, <1>5, <1>6, <1>7 DEF BaseStep, P!Next

LEMMA FlipBase ==
  ASSUME Base, Flip
  PROVE  BaseStep
<1> DEFINE v == [ck EXCEPT !.pc = "flipped"]
<1>1. /\ ck' = v /\ UNCHANGED <<wal, salt, reader, base, lost, clock, nBackfill, mark, disk, conn>>
      /\ ck.pc = "written" /\ hdr' = ck.hdr
  BY DEF Flip, SetCkpt
<1>2. ck \in CkptRec
  BY DEF Base, TypeInv
<1>3. v \in CkptRec /\ v.pc = "flipped" /\ v.safe = ck.safe /\ v.mx = ck.mx /\ v.hdr = ck.hdr /\ v.gate = ck.gate
  BY ONLY <1>2 DEF CkptRec
<1> HIDE DEF v
<1>4. TypeInv'
  BY <1>1, <1>3 DEF Base, TypeInv
<1>5. LockInv'
  <2>1. CkptHoldsZero
    BY <1>1 DEF CkptHoldsZero
  <2> QED BY <1>1, <1>3, <2>1, LockSet
<1>6. /\ Generation(disk, ck.hdr) /\ ck.hdr.txn = conn.hdr.txn + 1 /\ conn.hdr = hdr
      /\ disk[ck.hdr.root].tab = conn.tab /\ Load(disk, ck.hdr) = conn.alloc /\ Sound(conn.alloc)
  BY <1>1 DEF Base, DiskInv
<1>7. DiskInv'
  BY <1>1, <1>3, <1>6 DEF Base, DiskInv
<1>8. P!Flip
  <2>1. UNCHANGED <<Building, Spare(conn.alloc), Limbo(conn.alloc), Pinned, MayRecycle>>
    BY <1>1, <1>3 DEF Building, Spare, Pinned, Current, MayRecycle
  <2>2. Phase = "written" /\ Phase' = "flipped"
    BY <1>1, <1>3 DEF Phase
  <2>3. Current(hdr)' = Building
    BY <1>1, <1>6 DEF Building, Current
  <2>4. Recorded' = [spare |-> Spare(conn.alloc), limbo |-> Limbo(conn.alloc)]
    BY <1>1, <1>6 DEF Recorded, Spare
  <2>5. (hdr.txn)' = hdr.txn + 1
    BY <1>1, <1>6
  <2> QED BY <2>1, <2>2, <2>3, <2>4, <2>5 DEF P!Flip
<1> QED BY <1>4, <1>5, <1>7, <1>8 DEF BaseStep, P!Next

\* Releasing what commits up to upto gave up is what Generations does with spare and limbo.
LEMMA ReleaseIs ==
  ASSUME Endless, Base, NEW upto \in Nat
  PROVE  LET r == Release(conn.alloc, upto)
         IN  /\ Sound(r) /\ r.append = FALSE
             /\ Spare(r) = Spare(conn.alloc) \cup P!Places(P!UpTo(Limbo(conn.alloc), upto))
             /\ Limbo(r) = Limbo(conn.alloc) \ P!UpTo(Limbo(conn.alloc), upto)
<1> DEFINE a   == conn.alloc
           r   == Release(a, upto)
           old == {x \in Limbo(a) : x[1] <= upto}
<1>1. Sound(a) /\ a.append = FALSE
  BY DEF Base, DiskInv
<1>2. Spare(a) = Room(a)
  BY <1>1, SpareIsRoom
<1>3. ASSUME NEW g \in Pending(a)
      PROVE  1 <= g /\ g < a.eof /\ g \notin HoleSet
  <2>1. PICK x \in Limbo(a) : x[2] = g
    BY <1>1, LimboIsPending
  <2>2. x[2] \in Space /\ x[2] \notin Spare(a)
    BY DEF Base, P!IInv, P!TypeInv, P!Separate, P!Apart
  <2> HIDE DEF a
  <2>3. g \in Nat /\ g >= 1 /\ g \notin HoleSet /\ g \notin Room(a)
    BY <1>2, <2>1, <2>2, SpaceIs
  <2> QED BY <1>1, <2>3, RoomIs
<1> HIDE DEF a
<1>4. Sound(r) /\ r.append = a.append /\ Room(r) = Room(a) \cup {x[2] : x \in old} /\ Limbo(r) = Limbo(a) \ old
  BY <1>1, <1>3, ReleaseLimbo
<1> HIDE DEF r
<1>5. Spare(r) = Room(r)
  BY <1>4, SpareIsRoom
<1>6. P!UpTo(Limbo(a), upto) = old /\ P!Places(old) = {x[2] : x \in old}
  BY DEF P!UpTo, P!Places
<1> QED BY <1>1, <1>2, <1>4, <1>5, <1>6 DEF r, a

LEMMA LandBase ==
  ASSUME Endless, Base, Land
  PROVE  BaseStep
<1> DEFINE v   == [ck EXCEPT !.pc = "done"]
           new == IF ck.gate THEN Release(conn.alloc, TxnOf) ELSE conn.alloc
<1>1. /\ ck' = v /\ UNCHANGED <<wal, salt, reader, base, lost, clock, nBackfill, mark, disk, hdr>>
      /\ ck.pc = "flipped"
      /\ conn' = [conn EXCEPT !.hdr = hdr, !.dirty = FALSE, !.alloc = new]
  BY DEF Land, SetCkpt, Base, TypeInv
<1>2. ck \in CkptRec /\ conn \in [hdr : HdrRec, tab : [Pages -> [off : Nat, len : Nat]],
                                  alloc : AllocRec, dirty : BOOLEAN]
  BY DEF Base, TypeInv
<1>3. v \in CkptRec /\ v.pc = "done" /\ v.safe = ck.safe /\ v.mx = ck.mx
  BY ONLY <1>2 DEF CkptRec
<1> HIDE DEF v
<1>4. /\ Generation(disk, ck.hdr) /\ ck.hdr.txn = conn.hdr.txn + 1 /\ hdr = ck.hdr
      /\ disk[ck.hdr.root].tab = conn.tab /\ Sound(conn.alloc) /\ conn.alloc.append = FALSE
  BY <1>1 DEF Base, DiskInv
<1>5. hdr \in HdrRec /\ Lists(hdr) \cap Span(conn.tab) = {} /\ TxnOf = hdr.txn /\ TxnOf \in Nat
  BY <1>4 DEF Generation, TxnOf, HdrRec
<1>6. /\ Sound(new) /\ new.append = FALSE
      /\ ck.gate => /\ Spare(new) = Spare(conn.alloc) \cup P!Places(P!UpTo(Limbo(conn.alloc), hdr.txn))
                    /\ Limbo(new) = Limbo(conn.alloc) \ P!UpTo(Limbo(conn.alloc), hdr.txn)
      /\ ~ck.gate => new = conn.alloc
  BY <1>4, <1>5, ReleaseIs
<1> HIDE DEF new
<1>7. /\ conn'.hdr = hdr /\ conn'.tab = conn.tab /\ conn'.alloc = new /\ conn'.dirty = FALSE
      /\ conn' \in [hdr : HdrRec, tab : [Pages -> [off : Nat, len : Nat]], alloc : AllocRec,
                    dirty : BOOLEAN]
  BY <1>1, <1>2, <1>5, <1>6 DEF Sound
<1>8. TypeInv'
  BY <1>1, <1>3, <1>7 DEF Base, TypeInv
<1>9. LockInv'
  <2>1. CkptHoldsZero
    BY <1>1 DEF CkptHoldsZero
  <2> QED BY <1>1, <1>3, <2>1, LockSet
<1>10. DiskInv'
  <2>1. Stored(disk, conn.tab)
    BY DEF Base, DiskInv
  <2> QED BY <1>1, <1>3, <1>4, <1>5, <1>6, <1>7, <2>1 DEF Base, DiskInv
<1>11. P!Land
  <2>1. UNCHANGED <<Current(hdr), Recorded, Pinned, hdr.txn>>
    BY <1>1 DEF Current, Recorded, Spare, Pinned
  <2>2. Phase = "flipped" /\ Phase' = "idle" /\ MayRecycle = ck.gate /\ MayRecycle' = FALSE
    <3>1. ck.gate \in BOOLEAN
      BY <1>2 DEF CkptRec
    <3> QED BY <1>1, <1>3, <3>1 DEF Phase, MayRecycle
  <2>3. Building' = Building
    BY <1>1, <1>3, <1>4, <1>7 DEF Building
  <2>4. Spare(conn.alloc)' = Spare(new) /\ Limbo(conn.alloc)' = Limbo(new)
    BY <1>7 DEF Spare
  <2> QED BY <1>6, <2>1, <2>2, <2>3, <2>4 DEF P!Land
<1> QED BY <1>8, <1>9, <1>10, <1>11 DEF BaseStep, P!Next

\* What the copying of a page does: the record of the page is new, in a place that was spare.
LEMMA CopyIs ==
  ASSUME Endless, Base, CopyPage
  PROVE  LET p == CHOOSE p \in ck.todo : \A q \in ck.todo : p <= q
             t == Take(conn.alloc, 1)
         IN  /\ p \in ck.todo /\ p \in Pages /\ t.off \in Spare(conn.alloc)
             /\ \A g \in Granules \ {t.off} : disk'[g] = disk[g]
             /\ conn' = [conn EXCEPT !.alloc = FreeEntry(t.a, conn.tab[p], TxnOf),
                                     !.tab = conn'.tab, !.dirty = TRUE]
             /\ ck' = [ck EXCEPT !.todo = @ \ {p}]
             /\ Stored(disk', conn'.tab)
             /\ Span(conn'.tab) = (Span(conn.tab) \ Ext(conn.tab[p].off, conn.tab[p].len)) \cup {t.off}
             /\ \A q \in Pages \ {p} : ValAt(disk', conn'.tab[q]) = ValAt(disk, conn.tab[q])
             /\ ValAt(disk', conn'.tab[p]) = Fresh(p)
<1> DEFINE p   == CHOOSE p \in ck.todo : \A q \in ck.todo : p <= q
           t   == Take(conn.alloc, 1)
           val == Fresh(p)
<1>1. /\ ck.pc = "copy" /\ ck.todo # {} /\ disk' = Write(disk, PageRec(t.off, 1, p, val))
      /\ conn' = [conn EXCEPT !.alloc = FreeEntry(t.a, conn.tab[p], TxnOf),
                              !.tab = [conn.tab EXCEPT ![p] = [off |-> t.off, len |-> 1]], !.dirty = TRUE]
      /\ ck' = [ck EXCEPT !.todo = ck.todo \ {p}]
  BY DEF CopyPage, SetCkpt, Fresh, Newest, FramesIn, FramesOf
<1>2. p \in ck.todo /\ p \in Pages
  <2>1. ck.todo \subseteq Pages
    BY DEF Base, TypeInv, CkptRec
  <2>2. ck.todo \in SUBSET Nat
    BY <2>1, PagesAssumption DEF Pages
  <2>3. \E q \in ck.todo : \A x \in ck.todo : q <= x
    BY <1>1, <2>2, NatMin
  <2> QED BY <2>1, <2>3
<1> HIDE DEF p, val
<1>3. /\ t.off \in Spare(conn.alloc) /\ t.off \in Nat \ {0}
  <2>1. Sound(conn.alloc)
    BY DEF Base, DiskInv
  <2>2. t.off \in Room(conn.alloc)
    BY <2>1, TakeOne
  <2> HIDE DEF t
  <2> QED BY <2>1, <2>2, SpareIsRoom, RoomIs
<1> HIDE DEF t
<1>4. Ext(t.off, 1) = {t.off} /\ 1 \in Nat \ {0}
  BY <1>3, ExtOne
<1>5. /\ Whole(disk', t.off, 1, "page") /\ disk'[t.off].page = p /\ disk'[t.off].val = val
      /\ \A g \in Granules \ {t.off} : disk'[g] = disk[g]
  <2>1. /\ Whole(disk', t.off, 1, "page") /\ disk'[t.off].page = p /\ disk'[t.off].val = val
        /\ \A g \in Granules \ Ext(t.off, 1) : disk'[g] = disk[g]
    <3> DEFINE rec == PageRec(t.off, 1, p, val)
    <3>1. rec.off = t.off /\ rec.len = 1 /\ rec.kind = "page" /\ rec.page = p /\ rec.val = val
      BY DEF PageRec
    <3> HIDE DEF rec
    <3>2. t.off \in Ext(t.off, 1) /\ Ext(t.off, 1) \subseteq Granules
      BY <1>3, <1>4 DEF Endless
    <3>3. disk' = Write(disk, rec)
      BY <1>1 DEF rec
    <3> QED BY <3>1, <3>2, <3>3, WriteIs DEF Whole
  <2> QED BY <1>4, <2>1
<1>6. Stored(disk, conn.tab) /\ Span(conn.tab) \cap Spare(conn.alloc) = {} /\ Span(conn.tab) \subseteq Granules
  <2>1. Stored(disk, conn.tab) /\ conn.hdr = hdr /\ hdr \in HdrRec
    BY <1>1 DEF Base, DiskInv, Generation
  <2>2. Span(conn.tab) \subseteq Building /\ Building \cap Spare(conn.alloc) = {} /\ Building \subseteq Space
    BY <1>1, <2>1, NamedIs DEF Building, Base, P!IInv, P!TypeInv, P!Separate
  <2> QED BY <2>1, <2>2 DEF Space
<1> DEFINE t2 == [conn.tab EXCEPT ![p] = [off |-> t.off, len |-> 1]]
<1>7. /\ Stored(disk', t2)
      /\ Span(t2) = (Span(conn.tab) \ Ext(conn.tab[p].off, conn.tab[p].len)) \cup Ext(t.off, 1)
      /\ \A q \in Pages \ {p} : t2[q] = conn.tab[q] /\ ValAt(disk', t2[q]) = ValAt(disk, conn.tab[q])
      /\ ValAt(disk', t2[p]) = disk'[t.off].val
  <2>1. \A g \in Span(conn.tab) \ Ext(conn.tab[p].off, conn.tab[p].len) : disk'[g] = disk[g]
    BY <1>3, <1>5, <1>6
  <2>2. Stored(disk, conn.tab) /\ t.off \in Nat \ {0} /\ 1 \in Nat \ {0} /\ p \in Pages
    BY <1>2, <1>3, <1>6
  <2> DEFINE d2  == disk'
             tb  == conn.tab
             off == t.off
             len == 1
  <2>3. /\ Stored(disk, tb) /\ off \in Nat \ {0} /\ len \in Nat \ {0} /\ p \in Pages
        /\ \A g \in Span(tb) \ Ext(tb[p].off, tb[p].len) : d2[g] = disk[g]
        /\ Whole(d2, off, len, "page") /\ d2[off].page = p /\ d2[off].val = val
        /\ t2 = [tb EXCEPT ![p] = [off |-> off, len |-> len]]
    BY <1>5, <2>1, <2>2
  <2> HIDE DEF d2, tb, off, len, t2
  <2>4. MovesTo(disk, d2, tb, t2, p, off, len)
    BY ONLY <2>3, StoredSet
  <2> QED BY ONLY <2>4 DEF MovesTo, d2, tb, off, len
<1>8. conn'.tab = t2
  BY <1>1 DEF Base, TypeInv
<1> HIDE DEF t2
<1>9. /\ Stored(disk', conn'.tab)
      /\ Span(conn'.tab) = (Span(conn.tab) \ Ext(conn.tab[p].off, conn.tab[p].len)) \cup {t.off}
      /\ \A q \in Pages \ {p} : ValAt(disk', conn'.tab[q]) = ValAt(disk, conn.tab[q])
      /\ ValAt(disk', conn'.tab[p]) = val
  BY <1>4, <1>5, <1>7, <1>8
<1>10. /\ conn' = [conn EXCEPT !.alloc = FreeEntry(t.a, conn.tab[p], TxnOf),
                               !.tab = conn'.tab, !.dirty = TRUE]
       /\ ck' = [ck EXCEPT !.todo = ck.todo \ {p}]
  BY <1>1, <1>8 DEF t2
<1> QED BY <1>2, <1>3, <1>5, <1>9, <1>10 DEF p, t, val

LEMMA CopyBase ==
  ASSUME Endless, Base, CopyPage
  PROVE  BaseStep
<1> DEFINE p == CHOOSE p \in ck.todo : \A q \in ck.todo : p <= q
           t == Take(conn.alloc, 1)
           e == conn.tab[p]
           E == Ext(e.off, e.len)
           v == [ck EXCEPT !.todo = ck.todo \ {p}]
           new == FreeEntry(t.a, e, TxnOf)
<1>1. /\ p \in Pages /\ t.off \in Spare(conn.alloc)
      /\ \A g \in Granules \ {t.off} : disk'[g] = disk[g]
      /\ conn' = [conn EXCEPT !.alloc = new, !.tab = conn'.tab, !.dirty = TRUE]
      /\ ck' = v
      /\ Stored(disk', conn'.tab)
      /\ Span(conn'.tab) = (Span(conn.tab) \ E) \cup {t.off}
  BY CopyIs
<1>2. /\ UNCHANGED <<wal, salt, reader, base, lost, clock, nBackfill, mark, hdr>> /\ ck.pc = "copy"
  BY DEF CopyPage, SetCkpt
<1>3. /\ ck \in CkptRec /\ conn \in [hdr : HdrRec, tab : [Pages -> [off : Nat, len : Nat]],
                                     alloc : AllocRec, dirty : BOOLEAN]
  BY DEF Base, TypeInv
<1>4. e \in [off : Nat, len : Nat] /\ E \in SUBSET Nat /\ (e = Absent => E = {})
  <2>1. e \in [off : Nat, len : Nat]
    BY <1>1, <1>3
  <2>2. E \in SUBSET Nat
    BY <2>1, InExt
  <2>3. Absent.off = 0 /\ Absent.len = 0 /\ Ext(0, 0) = {}
    BY DEF Absent, Ext
  <2> HIDE DEF e
  <2> QED BY <2>1, <2>2, <2>3
<1>5. ck.todo \ {p} \subseteq Pages
  BY <1>3 DEF CkptRec
<1>6. v \in CkptRec /\ v.pc = "copy" /\ v.safe = ck.safe /\ v.mx = ck.mx /\ v.gate = ck.gate
  <2> HIDE DEF p
  <2> QED BY ONLY <1>2, <1>3, <1>5 DEF CkptRec
<1> HIDE DEF v
<1>7. /\ Sound(conn.alloc) /\ conn.alloc.append = FALSE /\ conn.hdr = hdr /\ hdr \in HdrRec
      /\ Lists(conn.hdr) \cap Span(conn.tab) = {} /\ TxnOf = hdr.txn + 1 /\ TxnOf \in Nat
  BY <1>2 DEF Base, DiskInv, Generation, TxnOf, HdrRec
<1>8. /\ Sound(t.a) /\ Room(t.a) = Room(conn.alloc) \ {t.off} /\ t.a.append = FALSE
      /\ Limbo(t.a) = Limbo(conn.alloc)
  BY <1>7, TakeOne
<1> HIDE DEF t
<1>9. /\ Sound(new) /\ new.append = FALSE /\ Room(new) = Room(conn.alloc) \ {t.off}
      /\ Limbo(new) = Limbo(conn.alloc) \cup ({TxnOf} \X E)
  <2>1. CASE e = Absent
    <3>1. {TxnOf} \X E = {}
      BY <1>4, <2>1
    <3> HIDE DEF E
    <3> QED BY <1>8, <2>1, <3>1 DEF FreeEntry
  <2>2. CASE e # Absent
    <3>1. new = FreeSpan(t.a, E, TxnOf)
      BY <2>2 DEF FreeEntry
    <3> DEFINE b   == t.a
               txn == TxnOf
    <3> HIDE DEF E, new
    <3>2. Sound(b) /\ E \in SUBSET Nat /\ txn \in Nat /\ new = FreeSpan(b, E, txn)
      BY <1>4, <1>7, <1>8, <3>1
    <3> HIDE DEF b, txn
    <3>3. /\ Sound(new) /\ Room(new) = Room(b) /\ new.append = b.append
          /\ Limbo(new) = Limbo(b) \cup ({txn} \X E)
      BY ONLY <3>2, FreeSpanLimbo
    <3> QED BY <1>8, <3>3 DEF b, txn
  <2> QED BY <2>1, <2>2
<1> HIDE DEF new, E, p
<1>10. /\ conn'.hdr = conn.hdr /\ conn'.alloc = new /\ conn'.dirty = TRUE
       /\ conn' \in [hdr : HdrRec, tab : [Pages -> [off : Nat, len : Nat]], alloc : AllocRec,
                     dirty : BOOLEAN]
  <2>1. conn'.tab \in [Pages -> [off : Nat, len : Nat]] /\ new \in AllocRec
    BY <1>1, <1>9 DEF Stored, Sound
  <2> QED BY <1>1, <1>3, <2>1
<1>11. TypeInv'
  BY <1>1, <1>2, <1>6, <1>10 DEF Base, TypeInv
<1>12. LockInv'
  <2>1. CkptHoldsZero
    BY <1>2 DEF CkptHoldsZero
  <2> QED BY <1>1, <1>2, <1>6, <2>1, LockSet
<1>13. Spare(conn.alloc) = Room(conn.alloc) /\ Spare(new) = Room(new) /\ Spare(conn.alloc) \subseteq Space
  BY <1>7, <1>9, SpareIsRoom
<1>14. /\ Building = Lists(hdr) \cup Span(conn.tab) /\ Building' = Lists(hdr) \cup Span(conn'.tab)
  BY <1>1, <1>2, <1>6, <1>7, <1>10, NamedIs DEF Building
<1>15. /\ Building \subseteq Space /\ Building \cap Spare(conn.alloc) = {}
       /\ Current(hdr) \cap Spare(conn.alloc) = {}
       /\ \A r \in Readers : Pinned[r] \cap Spare(conn.alloc) = {}
  BY DEF Base, P!IInv, P!TypeInv, P!Separate, P!PinsSafe
<1>16. /\ Generation(disk', hdr) /\ disk'[hdr.root].tab = disk[hdr.root].tab
       /\ Load(disk', hdr) = Load(disk, hdr)
       /\ \A r \in Readers : Pins(reader[r]) => Generation(disk', reader[r].hdr)
       /\ UNCHANGED <<Current(hdr), Recorded, Pinned>>
  BY <1>1, <1>2, <1>15, WriteSpare
<1>17. DiskInv'
  <2>1. Lists(hdr) \cap Span(conn'.tab) = {}
    BY <1>1, <1>7, <1>14, <1>15
  <2>2. Sound(Load(disk, hdr))
    BY DEF Base, DiskInv
  <2> QED BY <1>1, <1>2, <1>6, <1>7, <1>9, <1>10, <1>16, <2>1, <2>2 DEF DiskInv
<1>18. P!Stage
  <2>1. Phase = "idle" /\ Phase' = "idle" /\ MayRecycle = FALSE /\ MayRecycle' = FALSE
    BY <1>1, <1>2, <1>6 DEF Phase, MayRecycle
  <2>2. E \subseteq Span(conn.tab)
    BY <1>1, InSpan DEF E
  <2>3. Building' \subseteq Space /\ Building' \ Building \subseteq Spare(conn.alloc)
    BY <1>1, <1>13, <1>14, <1>15
  <2>4. Spare(conn.alloc)' = Spare(conn.alloc) \ Building'
    BY <1>1, <1>9, <1>10, <1>13, <1>14, <1>15
  <2>5. Building \ Building' = E
    BY <1>1, <1>7, <1>14, <1>15, <2>2
  <2>6. Limbo(conn.alloc)' = Limbo(conn.alloc) \cup {hdr.txn + 1} \X (Building \ Building')
    BY <1>7, <1>9, <1>10, <2>5
  <2> QED BY <1>2, <1>16, <2>1, <2>3, <2>4, <2>6 DEF P!Stage, P!Build
<1> QED BY <1>11, <1>12, <1>17, <1>18 DEF BaseStep, P!Next

\* A commit is built: the gate is taken at its word, records are moved down, the new root
\* and lists are written where there was room.  h is the header to come, a the allocator
\* behind it, sp what could be written.
Built(h, a, sp) ==
  /\ Sound(a) /\ a.append = FALSE
  /\ Spare(a) = sp \ (Lists(h) \cup Span(conn'.tab))
  /\ sp = IF ck.gate THEN Spare(conn.alloc) \cup P!Places(P!UpTo(Limbo(conn.alloc), hdr.txn))
          ELSE Spare(conn.alloc)
  /\ sp \cap Building = {} /\ Lists(h) \cup Span(conn'.tab) \subseteq Building \cup sp
  /\ Current(hdr) \cap sp = {} /\ \A r \in Readers : Pinned[r] \cap sp = {}
  /\ Limbo(a) = (IF ck.gate THEN Limbo(conn.alloc) \ P!UpTo(Limbo(conn.alloc), hdr.txn)
                 ELSE Limbo(conn.alloc))
                \cup {hdr.txn + 1} \X (Building \ (Lists(h) \cup Span(conn'.tab)))
  /\ h \in HdrRec /\ h.txn = hdr.txn + 1 /\ Generation(disk', h)
  /\ disk'[h.root].tab = conn'.tab /\ Load(disk', h) = a /\ Stored(disk', conn'.tab)
  /\ \A p \in Pages : ValAt(disk', conn'.tab[p]) = ValAt(disk, conn.tab[p])
  /\ \A g \in Granules \ (sp \cup HoleSet) : disk'[g] = disk[g]
  /\ conn' = [conn EXCEPT !.alloc = a, !.tab = conn'.tab]
  /\ ck' = [ck EXCEPT !.pc = "written", !.hdr = h]

LEMMA PrepareIs ==
  ASSUME Endless, Base, Prepare
  PROVE  \E h, a, sp : Built(h, a, sp)
<1> DEFINE r == IF ck.gate THEN Release(conn.alloc, conn.hdr.txn) ELSE conn.alloc
           a == Trim(r)
           c == Compact(a, disk, conn.tab, conn.hdr.root, TxnOf)
           w == Laid(c, Placement(OldLists(c.a, conn.hdr)), NPages, c.tab, TxnOf)
           sp == IF ck.gate THEN Spare(conn.alloc) \cup P!Places(P!UpTo(Limbo(conn.alloc), hdr.txn))
                 ELSE Spare(conn.alloc)
           li == IF ck.gate THEN Limbo(conn.alloc) \ P!UpTo(Limbo(conn.alloc), hdr.txn)
                 ELSE Limbo(conn.alloc)
<1>1. /\ ck.pc = "commit" /\ disk' = w.disk /\ conn' = [conn EXCEPT !.alloc = w.a, !.tab = w.tab]
      /\ ck' = [ck EXCEPT !.pc = "written", !.hdr = w.hdr]
  BY DEF Prepare, SetCkpt
<1>2. /\ Sound(conn.alloc) /\ conn.alloc.append = FALSE /\ conn.hdr = hdr /\ hdr \in HdrRec
      /\ Generation(disk, hdr) /\ Stored(disk, conn.tab)
      /\ Lists(hdr) \cap Span(conn.tab) = {} /\ hdr.txn \in Nat \ {0} /\ TxnOf = hdr.txn + 1
  BY <1>1 DEF Base, DiskInv, Generation, TxnOf, HdrRec
<1>3. Building = Lists(hdr) \cup Span(conn.tab)
  BY <1>1, <1>2, NamedIs DEF Building
<1>4. Sound(r) /\ r.append = FALSE /\ Spare(r) = sp /\ Limbo(r) = li
  <2>1. CASE ck.gate
    BY <1>2, <2>1, ReleaseIs
  <2>2. CASE ~ck.gate
    BY <1>2, <2>2
  <2> QED BY <2>1, <2>2
<1> HIDE DEF r
<1>5. Sound(a) /\ a.append = FALSE /\ Room(a) = sp /\ Limbo(a) = li
  <2>1. Room(r) = sp
    BY <1>4, SpareIsRoom
  <2> HIDE DEF sp, li
  <2> QED BY <1>4, <2>1, TrimKeepsSpace, TrimLimbo
<1> HIDE DEF a
<1>6. sp \cap Building = {} /\ Building \subseteq Space
  <2>1. /\ Building \cap Spare(conn.alloc) = {} /\ Building \subseteq Space
        /\ \A x \in Limbo(conn.alloc) : x[2] \notin Building
    BY DEF Base, P!IInv, P!TypeInv, P!Separate, P!Apart
  <2>2. \A g \in P!Places(P!UpTo(Limbo(conn.alloc), hdr.txn)) : g \notin Building
    BY <2>1 DEF P!Places, P!UpTo
  <2> QED BY <2>1, <2>2
<1>C. Current(hdr) \cap sp = {} /\ \A x \in Readers : Pinned[x] \cap sp = {}
  <2>1. /\ Current(hdr) \cap Spare(conn.alloc) = {}
        /\ \A x \in Readers : Pinned[x] \cap Spare(conn.alloc) = {}
        /\ MayRecycle => \A x \in Readers : Pinned[x] = {} \/ Phase = "flipped"
        /\ \A x \in Limbo(conn.alloc) : x[1] <= hdr.txn => x[2] \notin Current(hdr)
    BY DEF Base, P!IInv, P!Separate, P!PinsSafe
  <2>2. MayRecycle = ck.gate /\ Phase = "decided"
    <3>1. ck \in CkptRec
      BY DEF Base, TypeInv
    <3>2. ck.gate \in BOOLEAN
      BY ONLY <3>1 DEF CkptRec
    <3> QED BY <1>1, <3>2 DEF MayRecycle, Phase
  <2>3. \A g \in P!Places(P!UpTo(Limbo(conn.alloc), hdr.txn)) : g \notin Current(hdr)
    BY <2>1 DEF P!Places, P!UpTo
  <2> QED BY <2>1, <2>2, <2>3
<1> HIDE DEF sp, li
<1> DEFINE old == Lists(hdr) \cup Span(conn.tab)
           new == Lists(w.hdr) \cup Span(w.tab)
<1>7. /\ Sound(w.a) /\ w.a.append = FALSE
      /\ Room(w.a) = Room(a) \ new /\ new \ old \subseteq Room(a)
      /\ Limbo(w.a) = Limbo(a) \cup ({hdr.txn + 1} \X (old \ new))
      /\ w.hdr \in [txn : {hdr.txn + 1}, root : Granules, freeOff : Granules, pendOff : Granules,
                    eof : Nat, count : {NPages}]
      /\ Reads(w.disk, w.hdr) /\ w.disk[w.hdr.root].tab = w.tab /\ Load(w.disk, w.hdr) = w.a
      /\ Stored(w.disk, w.tab) /\ Lists(w.hdr) \cap Span(w.tab) = {}
      /\ \A p \in Pages : ValAt(w.disk, w.tab[p]) = ValAt(disk, conn.tab[p])
      /\ \A g \in Granules \ (Room(a) \cup HoleSet) : w.disk[g] = disk[g]
  <2>1. /\ hdr.txn \in Nat /\ hdr.root \in Nat /\ Lists(hdr) \subseteq Granules
        /\ hdr.txn # 0 /\ disk[hdr.root].kind = "node"
    BY <1>2, NamedIs DEF HdrRec, Endless, Generation, Reads, Whole
  <2>2. (Lists(hdr) \cup Span(conn.tab)) \cap (Room(a) \cup HoleSet) = {}
    BY <1>3, <1>5, <1>6, SpaceIs, InHole DEF Space
  <2>3. /\ Sound(a) /\ a.append = FALSE /\ Stored(disk, conn.tab)
        /\ hdr.txn = 0 => hdr.root = 0
        /\ Lists(hdr) \cap Span(conn.tab) = {}
    BY <1>2, <1>5, <2>1
  <2>4. w = Renewed(a, disk, conn.tab, hdr, NPages)
    BY <1>2 DEF Renewed
  <2>5. Replaces(w, a, disk, conn.tab, hdr, NPages)
    <3>1. Replaces(Renewed(a, disk, conn.tab, hdr, NPages), a, disk, conn.tab, hdr, NPages)
      BY ONLY Endless, <2>1, <2>2, <2>3, CommitReplaces
    <3> HIDE DEF w
    <3> QED BY ONLY <2>4, <3>1
  <2> HIDE DEF w
  <2> QED BY <2>5 DEF Replaces
<1> HIDE DEF w
<1>8. w.hdr \in HdrRec /\ w.hdr.txn = hdr.txn + 1
  BY <1>2, <1>7 DEF HdrRec
<1>9. Generation(w.disk, w.hdr)
  BY <1>7, <1>8 DEF Generation
<1>10. conn'.tab = w.tab /\ conn' = [conn EXCEPT !.alloc = w.a, !.tab = conn'.tab]
  <2>1. conn \in [hdr : HdrRec, tab : [Pages -> [off : Nat, len : Nat]], alloc : AllocRec,
                  dirty : BOOLEAN]
    BY DEF Base, TypeInv
  <2> QED BY ONLY <1>1, <2>1
<1>11. Spare(w.a) = Room(w.a)
  BY <1>7, SpareIsRoom
<1>12. Built(w.hdr, w.a, sp)
  BY <1>1, <1>3, <1>5, <1>6, <1>C, <1>7, <1>8, <1>9, <1>10, <1>11 DEF Built, sp, li
<1> QED BY <1>12

LEMMA PrepareBase ==
  ASSUME Endless, Base, Prepare
  PROVE  BaseStep
<1>0. PICK h, a, sp : Built(h, a, sp)
  BY PrepareIs
<1>1. /\ Sound(a) /\ a.append = FALSE
      /\ Spare(a) = sp \ (Lists(h) \cup Span(conn'.tab))
      /\ sp = IF ck.gate THEN Spare(conn.alloc) \cup P!Places(P!UpTo(Limbo(conn.alloc), hdr.txn))
              ELSE Spare(conn.alloc)
      /\ sp \cap Building = {} /\ Lists(h) \cup Span(conn'.tab) \subseteq Building \cup sp
      /\ Limbo(a) = (IF ck.gate THEN Limbo(conn.alloc) \ P!UpTo(Limbo(conn.alloc), hdr.txn)
                     ELSE Limbo(conn.alloc))
                    \cup {hdr.txn + 1} \X (Building \ (Lists(h) \cup Span(conn'.tab)))
      /\ h \in HdrRec /\ h.txn = hdr.txn + 1 /\ Generation(disk', h)
      /\ disk'[h.root].tab = conn'.tab /\ Load(disk', h) = a /\ Stored(disk', conn'.tab)
      /\ \A g \in Granules \ (sp \cup HoleSet) : disk'[g] = disk[g]
      /\ conn' = [conn EXCEPT !.alloc = a, !.tab = conn'.tab]
      /\ ck' = [ck EXCEPT !.pc = "written", !.hdr = h]
  BY <1>0 DEF Built
<1> DEFINE v == [ck EXCEPT !.pc = "written", !.hdr = h]
           new == Lists(h) \cup Span(conn'.tab)
<1>2. UNCHANGED <<wal, salt, reader, base, lost, clock, nBackfill, mark, hdr>> /\ ck.pc = "commit"
  BY DEF Prepare, SetCkpt
<1>3. /\ ck \in CkptRec /\ conn \in [hdr : HdrRec, tab : [Pages -> [off : Nat, len : Nat]],
                                     alloc : AllocRec, dirty : BOOLEAN]
  BY DEF Base, TypeInv
<1>4. v \in CkptRec /\ v.pc = "written" /\ v.safe = ck.safe /\ v.mx = ck.mx /\ v.gate = ck.gate
      /\ v.hdr = h /\ ck.gate \in BOOLEAN
  <2>1. h \in HdrRec
    BY <1>1
  <2> QED BY ONLY <1>3, <2>1 DEF CkptRec
<1>5. ck' = v
  BY <1>1
<1> HIDE DEF v
<1>6. /\ conn'.hdr = conn.hdr /\ conn'.alloc = a /\ conn'.dirty = conn.dirty
      /\ conn' \in [hdr : HdrRec, tab : [Pages -> [off : Nat, len : Nat]], alloc : AllocRec,
                    dirty : BOOLEAN]
  <2>1. conn'.tab \in [Pages -> [off : Nat, len : Nat]] /\ a \in AllocRec
    BY <1>1 DEF Stored, Sound
  <2>2. conn' = [conn EXCEPT !.alloc = a, !.tab = conn'.tab]
    BY <1>1
  <2> QED BY <1>3, <2>1, <2>2
<1>7. TypeInv'
  BY <1>2, <1>4, <1>5, <1>6 DEF Base, TypeInv
<1>8. LockInv'
  <2>1. CkptHoldsZero
    BY <1>2 DEF CkptHoldsZero
  <2> QED BY <1>2, <1>4, <1>5, <2>1, LockSet
<1>9. conn.hdr = hdr /\ Sound(Load(disk, hdr))
  BY <1>2 DEF Base, DiskInv
<1>10. Current(hdr) \cap sp = {} /\ \A r \in Readers : Pinned[r] \cap sp = {}
  BY <1>0 DEF Built
<1>11. /\ Generation(disk', hdr) /\ disk'[hdr.root].tab = disk[hdr.root].tab
       /\ Load(disk', hdr) = Load(disk, hdr)
       /\ \A r \in Readers : Pins(reader[r]) => Generation(disk', reader[r].hdr)
       /\ UNCHANGED <<Current(hdr), Recorded, Pinned>>
  BY <1>1, <1>2, <1>10, WriteSpare
<1>12. DiskInv'
  BY <1>1, <1>2, <1>4, <1>5, <1>6, <1>9, <1>11 DEF DiskInv
<1>13. P!Prepare
  <2>1. Phase = "decided" /\ Phase' = "written" /\ MayRecycle = ck.gate /\ MayRecycle' = ck.gate
    BY <1>2, <1>4, <1>5 DEF Phase, MayRecycle
  <2>2. Building' = new
    BY <1>1, <1>4, <1>5, NamedIs DEF Building
  <2>3. new \subseteq Space /\ new \ Building \subseteq sp
    <3>1. Building \subseteq Space /\ Spare(conn.alloc) \subseteq Space
          /\ \A x \in Limbo(conn.alloc) : x[2] \in Space
      BY DEF Base, P!IInv, P!TypeInv
    <3>2. P!Places(P!UpTo(Limbo(conn.alloc), hdr.txn)) \subseteq Space
      BY <3>1 DEF P!Places, P!UpTo
    <3> QED BY <1>1, <3>1, <3>2
  <2>4. Spare(conn.alloc)' = sp \ new /\ Limbo(conn.alloc)' = Limbo(a)
    BY <1>1, <1>6 DEF Spare
  <2> HIDE DEF new
  <2>5. Limbo(a) = (IF ck.gate THEN Limbo(conn.alloc) \ P!UpTo(Limbo(conn.alloc), hdr.txn)
                    ELSE Limbo(conn.alloc)) \cup {hdr.txn + 1} \X (Building \ new)
    BY <1>1 DEF new
  <2>6. sp = IF ck.gate THEN Spare(conn.alloc) \cup P!Places(P!UpTo(Limbo(conn.alloc), hdr.txn))
             ELSE Spare(conn.alloc)
    BY <1>1
  <2>7. CASE ck.gate
    <3>1. P!Build(Spare(conn.alloc) \cup P!Places(P!UpTo(Limbo(conn.alloc), hdr.txn)),
                  Limbo(conn.alloc) \ P!UpTo(Limbo(conn.alloc), hdr.txn))
      BY <2>2, <2>3, <2>4, <2>5, <2>6, <2>7 DEF P!Build
    <3> QED BY <1>2, <1>11, <2>1, <2>7, <3>1 DEF P!Prepare
  <2>8. CASE ~ck.gate
    <3>1. P!Build(Spare(conn.alloc), Limbo(conn.alloc))
      BY <2>2, <2>3, <2>4, <2>5, <2>6, <2>8 DEF P!Build
    <3> QED BY <1>2, <1>11, <2>1, <2>8, <3>1 DEF P!Prepare
  <2> QED BY <2>7, <2>8
<1> QED BY <1>7, <1>8, <1>12, <1>13 DEF BaseStep, P!Next

----------------------------------------------------------------------------
(* The layer below, for every run *)

LEMMA BaseIsKept ==
  ASSUME Endless, Base, [Next]_vars
  PROVE  Base' /\ [P!Next]_(P!genVars)
<1>1. CASE UNCHANGED vars
  <2>1. UNCHANGED <<wal, salt, nBackfill, mark, reader, ck, conn, disk, hdr, base, lost, clock>>
    BY <1>1 DEF vars
  <2>2. /\ TypeInv' = TypeInv /\ LockInv' = LockInv /\ DiskInv' = DiskInv
    BY <2>1 DEF TypeInv, LockInv, DiskInv, CkptHoldsZero, Holders, mxFrame
  <2>3. Pinned' = Pinned /\ Phase' = Phase /\ MayRecycle' = MayRecycle /\ Building' = Building
    BY <2>1 DEF Pinned, Current, Phase, MayRecycle, Building
  <2>4. UNCHANGED P!genVars
    BY <2>1, <2>3, Stutters
  <2>5. P!IInv'
    BY <2>4, P!IInvInductive DEF Base
  <2> QED BY <2>2, <2>4, <2>5 DEF Base
<1>2. CASE Next
  <2>1. BaseStep
    <3>1. CASE (\E p \in Pages : CommitFrame(p)) \/ RestartLog
      BY <3>1, WriterBase
    <3>2. CASE \E r \in Readers : ReadHeader(r) \/ LockZero(r) \/ MarkSlot(r) \/ LockMark(r)
                                  \/ BeginRead(r) \/ EndRead(r)
      BY <3>2, ReaderBase
    <3>3. CASE BeginCkpt \/ ScanMark \/ CopyStops \/ CkptDone \/ ProbeSlot \/ EndCkpt
               \/ (StartCopy /\ conn' = conn)
      BY <3>3, CkptBase
    <3>4. CASE StartCopy /\ conn' # conn
      BY <3>4, ReloadBase
    <3>5. CASE CopyPage
      BY <3>5, CopyBase
    <3>6. CASE Prepare
      BY <3>6, PrepareBase
    <3>7. CASE Flip
      BY <3>7, FlipBase
    <3>8. CASE Land
      BY <3>8, LandBase
    <3>9. CASE CommitFails
      BY <3>9, FailBase
    <3> QED BY <1>2, <3>1, <3>2, <3>3, <3>4, <3>5, <3>6, <3>7, <3>8, <3>9 DEF Next
  <2>2. P!IInv'
    BY <2>1, P!IInvInductive DEF Base, BaseStep
  <2> QED BY <2>1, <2>2 DEF Base, BaseStep
<1> QED BY <1>1, <1>2

\* The frames, locks and marks stay what they are said to be, slot 0 is never shared
\* between a checkpoint and a reader, and the current generation is always whole.
THEOREM TypesHold ==
  ASSUME Endless
  PROVE  Spec => []TypeOK
<1>1. Base => TypeOK
  <2> SUFFICES ASSUME Base PROVE TypeOK
    OBVIOUS
  <2>1. /\ clock \in 0 .. MaxFrames /\ Len(wal) <= clock /\ nBackfill \in 0 .. mxFrame
        /\ mark \in [Slots -> 0 .. NotUsed] /\ reader \in [Readers -> ReaderRec] /\ ck \in CkptRec
    BY DEF Base, TypeInv, mxFrame
  <2>2. \A r \in Readers : /\ reader[r].pc \in {"idle", "hdr", "marked", "locked", "reading"}
                           /\ reader[r].slot \in {None} \cup (0 .. NReader - 1)
    BY <2>1 DEF ReaderRec
  <2>3. /\ ck.pc \in {"idle", "scan", "copy", "probe", "commit", "written", "flipped", "done"}
        /\ ck.todo \subseteq Pages /\ ck.safe \in 0 .. MaxFrames
    BY <2>1 DEF CkptRec
  <2>4. /\ conn.alloc.free \subseteq Granules /\ conn.alloc.eof >= 1
        /\ 1 .. conn.alloc.eof - 1 \subseteq Granules
    <3>1. Sound(conn.alloc)
      BY DEF Base, DiskInv
    <3>2. conn.alloc.free \subseteq Nat /\ conn.alloc.eof \in Nat
      BY <3>1 DEF Sound, AllocRec
    <3> QED BY <3>1, <3>2 DEF Sound, Endless
  <2>5. Reads(disk, hdr)
    BY DEF Base, DiskInv, Generation
  <2> QED BY <2>1, <2>2, <2>3, <2>4, <2>5 DEF TypeOK, Base, LockInv
<1>2. Init => Base
  BY InitBase
<1>3. Base /\ [Next]_vars => Base'
  BY BaseIsKept
<1> QED BY <1>1, <1>2, <1>3, PTL DEF Spec

\* Whatever the lists on disk and the connections that load them do, and however readers come
\* and go, the container recycles its space the way Generations says, for every reader but one
\* that took its lock on a slot the gate had already passed.
THEOREM RecyclesThePromisedWay ==
  ASSUME Endless
  PROVE  Spec => RecyclesAsPromised
<1>1. P!Init <=> Gens!Init
  BY DEF P!Init, Gens!Init
<1>2. [P!Next]_(P!genVars) => [Gens!Next]_(Gens!genVars)
  <2>1. P!genVars = Gens!genVars /\ P!genVars' = Gens!genVars'
    BY DEF P!genVars, Gens!genVars
  <2>2. P!Next => Gens!Next
    BY DEF P!Next, P!Pin, P!Unpin, P!Stage, P!Reload, P!BeginCommit, P!Decide, P!Prepare, P!Flip,
           P!Land, P!Fail, P!Build, P!UpTo, P!Places,
           Gens!Next, Gens!Pin, Gens!Unpin, Gens!Stage, Gens!Reload, Gens!BeginCommit, Gens!Decide,
           Gens!Prepare, Gens!Flip, Gens!Land, Gens!Fail, Gens!Build, Gens!UpTo, Gens!Places
  <2> QED BY <2>1, <2>2
<1>3. Init => Base /\ Gens!Init
  BY <1>1, InitBase
<1>4. Base /\ [Next]_vars => Base' /\ [Gens!Next]_(Gens!genVars)
  BY <1>2, BaseIsKept
<1> QED BY <1>3, <1>4, PTL DEF Spec, RecyclesAsPromised, Gens!Spec

----------------------------------------------------------------------------
(* The layer above: what the log as a value obeys *)

\* The newest frame up to n is the newest after m, if there is one after m.
Splits(w, b, m, n, p) ==
  Content(w, b, n)[p] = IF FramesIn(w, p, m + 1, n) = {} THEN Content(w, b, m)[p]
                        ELSE Newest(w, p, m + 1, n)

LEMMA ContentSplits ==
  ASSUME NEW w, NEW b, NEW m \in Nat, NEW n \in Nat, m <= n, NEW p \in Pages
  PROVE  Splits(w, b, m, n, p)
<1> DEFINE all  == FramesIn(w, p, 1, n)
           low  == FramesIn(w, p, 1, m)
           high == FramesIn(w, p, m + 1, n)
<1>1. all = low \cup high /\ \A f \in low : f \in Nat /\ f <= m
  BY DEF FramesIn
<1>2. ASSUME high = {}
      PROVE  Content(w, b, n)[p] = Content(w, b, m)[p]
  BY <1>1, <1>2 DEF Content, Newest
<1>3. ASSUME high # {}
      PROVE  Content(w, b, n)[p] = Newest(w, p, m + 1, n)
  <2>1. Latest(high) \in high /\ \A g \in high : g <= Latest(high)
    BY <1>3, LatestFrame
  <2>2. all # {} /\ Latest(all) \in all /\ \A g \in all : g <= Latest(all)
    <3>1. all # {}
      BY <1>1, <1>3
    <3> QED BY <3>1, LatestFrame
  <2>3. \A f \in high : f \in Nat /\ m < f
    BY FramesInIs
  <2> HIDE DEF all, low, high
  <2>4. Latest(all) = Latest(high)
    <3>1. Latest(high) \in all /\ Latest(high) <= Latest(all)
      BY <1>1, <2>1, <2>2
    <3>2. Latest(all) \in high
      BY <1>1, <2>1, <2>2, <2>3, <3>1
    <3> QED BY <2>1, <2>3, <3>1, <3>2
  <2> QED BY <1>3, <2>2, <2>4 DEF Content, Newest, all, high
<1>4. Content(w, b, n)[p] = IF FramesIn(w, p, m + 1, n) = {} THEN Content(w, b, m)[p]
                            ELSE Newest(w, p, m + 1, n)
  BY ONLY <1>2, <1>3 DEF high
<1> QED BY ONLY <1>4 DEF Splits

\* What earlier frames say is not changed by one more.
LEMMA FramesStay ==
  ASSUME NEW w \in Seq(Frames), NEW fr \in Frames, NEW p, NEW from \in Nat, NEW to \in Nat, to <= Len(w)
  PROVE  /\ FramesIn(Append(w, fr), p, from, to) = FramesIn(w, p, from, to)
         /\ FramesIn(w, p, from, to) # {} =>
              Newest(Append(w, fr), p, from, to) = Newest(w, p, from, to)
<1> DEFINE w2 == Append(w, fr)
<1>1. /\ DOMAIN w2 = 1 .. Len(w) + 1 /\ DOMAIN w = 1 .. Len(w) /\ Len(w) \in Nat
      /\ \A f \in 1 .. Len(w) : w2[f] = w[f]
  OBVIOUS
<1> HIDE DEF w2
<1>2. FramesIn(w2, p, from, to) = FramesIn(w, p, from, to)
  BY <1>1 DEF FramesIn
<1>3. ASSUME FramesIn(w, p, from, to) # {}
      PROVE  Newest(w2, p, from, to) = Newest(w, p, from, to)
  <2>1. Latest(FramesIn(w, p, from, to)) \in DOMAIN w
    BY <1>3, LatestFrame, FramesInIs
  <2> QED BY <1>1, <1>2, <1>3, <2>1 DEF Newest
<1> QED BY <1>2, <1>3 DEF w2

LEMMA LogGrows ==
  ASSUME NEW w \in Seq(Frames), NEW fr \in Frames, NEW b, NEW n \in Nat, n <= Len(w)
  PROVE  /\ Content(Append(w, fr), b, n) = Content(w, b, n)
         /\ \A p : FramesIn(Append(w, fr), p, n + 1, Len(Append(w, fr))) = {} =>
                     FramesIn(w, p, n + 1, Len(w)) = {}
<1> DEFINE w2 == Append(w, fr)
<1>1. Len(w2) = Len(w) + 1 /\ Len(w) \in Nat
  OBVIOUS
<1>2. \A p \in Pages : /\ FramesIn(w2, p, 1, n) = FramesIn(w, p, 1, n)
                       /\ FramesIn(w, p, 1, n) # {} => Newest(w2, p, 1, n) = Newest(w, p, 1, n)
  <2> TAKE p \in Pages
  <2> DEFINE one == 1
  <2>1. one \in Nat
    OBVIOUS
  <2> HIDE DEF one
  <2>2. /\ FramesIn(w2, p, one, n) = FramesIn(w, p, one, n)
        /\ FramesIn(w, p, one, n) # {} => Newest(w2, p, one, n) = Newest(w, p, one, n)
    BY <2>1, FramesStay
  <2> QED BY <2>2 DEF one
<1>3. ASSUME NEW p, NEW f \in FramesIn(w, p, n + 1, Len(w))
      PROVE  f \in FramesIn(w2, p, n + 1, Len(w2))
  <2>1. f \in DOMAIN w /\ w[f].page = p /\ f \in n + 1 .. Len(w)
    BY <1>3 DEF FramesIn
  <2>2. DOMAIN w = 1 .. Len(w) /\ DOMAIN w2 = 1 .. Len(w) + 1 /\ w2[f] = w[f]
    BY <2>1
  <2> HIDE DEF w2
  <2> QED BY <1>1, <2>1, <2>2 DEF FramesIn
<1> HIDE DEF w2
<1> QED BY <1>2, <1>3 DEF Content, w2

\* A generation that is caught up shows the whole database through the frames after it.
Shows(d, h, w, b, n, to, p) ==
  Content(w, b, to)[p] = IF FramesIn(w, p, n + 1, to) = {} THEN Page(d, h, p)
                         ELSE Newest(w, p, n + 1, to)

LEMMA SeenIsContent ==
  ASSUME NEW w, NEW b, NEW d, NEW h, NEW n \in Nat, NEW to \in Nat, n <= to,
         NEW x, CaughtUp(d, h, w, b, n, to, x), NEW p \in Pages \ x
  PROVE  Shows(d, h, w, b, n, to, p)
<1>1. Content(w, b, to)[p] = IF FramesIn(w, p, n + 1, to) = {} THEN Content(w, b, n)[p]
                             ELSE Newest(w, p, n + 1, to)
  <2>1. n \in Nat /\ to \in Nat /\ n <= to /\ p \in Pages
    OBVIOUS
  <2>2. Splits(w, b, n, to, p)
    BY ONLY <2>1, ContentSplits
  <2> QED BY ONLY <2>2 DEF Splits
<1>2. FramesIn(w, p, n + 1, to) = {} => Page(d, h, p) = Content(w, b, n)[p]
  BY DEF CaughtUp
<1> QED BY <1>1, <1>2 DEF Shows

----------------------------------------------------------------------------
(* The layer above: what its steps have in common *)

\* What a step that writes only where there is room leaves to be read.
LEMMA PagesKept ==
  ASSUME Endless, Base, NEW S, Current(hdr) \cap S = {}, \A r \in Readers : Pinned[r] \cap S = {},
         \A g \in Granules \ (S \cup HoleSet) : disk'[g] = disk[g]
  PROVE  /\ \A p \in Pages : Page(disk', hdr, p) = Page(disk, hdr, p)
         /\ \A r \in Readers : Pins(reader[r]) =>
              \A p \in Pages : Page(disk', reader[r].hdr, p) = Page(disk, reader[r].hdr, p)
<1>1. ASSUME NEW h, Generation(disk, h), Current(h) \cap S = {}, Current(h) \subseteq Space
      PROVE  \A p \in Pages : Page(disk', h, p) = Page(disk, h, p)
  <2>1. \A g \in Named(h, disk[h.root].tab) : disk'[g] = disk[g]
    BY <1>1 DEF Current, Space
  <2> QED BY <1>1, <2>1, GenerationFrame DEF Page
<1>2. Generation(disk, hdr) /\ Current(hdr) \subseteq Space
  BY DEF Base, DiskInv, P!IInv, P!TypeInv
<1>3. ASSUME NEW r \in Readers, Pins(reader[r])
      PROVE  \A p \in Pages : Page(disk', reader[r].hdr, p) = Page(disk, reader[r].hdr, p)
  <2>1. Pinned[r] = Current(reader[r].hdr) /\ Pinned[r] \subseteq Space
    BY <1>3 DEF Pins, Pinned, Base, P!IInv, P!TypeInv
  <2>2. Generation(disk, reader[r].hdr)
    BY <1>3 DEF Base, DiskInv
  <2> QED BY <1>1, <2>1, <2>2
<1> QED BY <1>1, <1>2, <1>3

LEMMA ReaderFrame ==
  ASSUME NEW v, NEW w, NEW b, NEW s, NEW n, NEW d, NEW x, ReaderLog(v, w, b, s, n, d, x),
         NEW d2, NEW x2, x \subseteq x2,
         Pins(v) => \A p \in Pages : Page(d2, v.hdr, p) = Page(d, v.hdr, p)
  PROVE  ReaderLog(v, w, b, s, n, d2, x2)
<1>1. ASSUME NEW m, NEW to, Pins(v), CaughtUp(d, v.hdr, w, b, m, to, x)
      PROVE  CaughtUp(d2, v.hdr, w, b, m, to, x2)
  BY <1>1 DEF CaughtUp
<1> QED BY <1>1 DEF ReaderLog, Pins

\* A step that leaves the log alone and what can be read of the disk.
LEMMA LogStays ==
  ASSUME LogInv, UNCHANGED <<wal, base, salt, nBackfill, reader, hdr>>, lost \subseteq lost',
         \A p \in Pages : Page(disk', hdr, p) = Page(disk, hdr, p),
         \A r \in Readers : Pins(reader[r]) =>
            \A p \in Pages : Page(disk', reader[r].hdr, p) = Page(disk, reader[r].hdr, p),
         CkptHoldsZero' => CkptLog'
  PROVE  LogInv'
<1>1. CaughtUp(disk', hdr, wal, base, nBackfill, Len(wal), lost')
  BY DEF LogInv, CaughtUp
<1>2. \A r \in Readers : ReaderLog(reader[r], wal, base, salt, nBackfill, disk', lost')
  BY ReaderFrame DEF LogInv
<1> QED BY <1>1, <1>2 DEF LogInv

LEMMA DuesStay ==
  ASSUME UNCHANGED <<wal, nBackfill>>, ck'.mx = ck.mx, ck'.safe = ck.safe
  PROVE  Dues' = Dues /\ \A p : Fresh(p)' = Fresh(p)
BY DEF Dues, Due, Fresh, Newest

\* A checkpoint that goes on with what it has copied.
LEMMA CkptStays ==
  ASSUME CkptLog, UNCHANGED <<wal, nBackfill, disk, hdr, lost>>, conn'.tab = conn.tab,
         ck'.mx = ck.mx, ck'.safe = ck.safe, ck'.todo \subseteq ck.todo,
         ck'.pc # "copy" => ck'.todo = {}, ck'.ok => ck.ok /\ ck'.todo = ck.todo
  PROVE  CkptLog'
<1>1. Dues' = Dues /\ \A p : Fresh(p)' = Fresh(p) /\ Copied(p)' = Copied(p)
  BY DuesStay DEF Copied
<1> QED BY <1>1 DEF CkptLog

----------------------------------------------------------------------------
(* The layer above: steps of writers and readers *)

LEMMA CommitLog ==
  ASSUME Base, LogInv, NEW q \in Pages, CommitFrame(q)
  PROVE  LogInv'
<1> DEFINE fr == [page |-> q, val |-> clock + 1]
<1>1. /\ wal' = Append(wal, fr) /\ wal \in Seq(Frames) /\ fr \in Frames
      /\ UNCHANGED <<salt, nBackfill, reader, ck, conn, disk, hdr, base, lost>>
  BY DEF CommitFrame, Base, TypeInv, Frames
<1> HIDE DEF fr
<1>2. /\ Len(wal') = Len(wal) + 1 /\ Len(wal) \in Nat
      /\ \A b : \A n \in Nat : n <= Len(wal) => Content(wal', b, n) = Content(wal, b, n)
  BY <1>1, LogGrows
<1>F. ASSUME NEW p, NEW from \in Nat, NEW to \in Nat, to <= Len(wal)
      PROVE  /\ FramesIn(wal', p, from, to) = FramesIn(wal, p, from, to)
             /\ FramesIn(wal, p, from, to) # {} => Newest(wal', p, from, to) = Newest(wal, p, from, to)
  <2> DEFINE w  == wal
             w2 == wal'
  <2>1. w \in Seq(Frames) /\ fr \in Frames /\ w2 = Append(w, fr) /\ to <= Len(w) /\ from \in Nat /\ to \in Nat
    BY <1>1, <1>F
  <2> HIDE DEF w, w2
  <2>2. /\ FramesIn(w2, p, from, to) = FramesIn(w, p, from, to)
        /\ FramesIn(w, p, from, to) # {} => Newest(w2, p, from, to) = Newest(w, p, from, to)
    BY ONLY <2>1, FramesStay
  <2> QED BY ONLY <2>2 DEF w, w2
<1>3. nBackfill \in Nat /\ nBackfill <= Len(wal)
  BY <1>1, <1>2 DEF Base, TypeInv
<1>4. ASSUME NEW h, CaughtUp(disk, h, wal, base, nBackfill, Len(wal), lost)
      PROVE  CaughtUp(disk, h, wal', base, nBackfill, Len(wal'), lost)
  <2>1. \A p : FramesIn(wal', p, nBackfill + 1, Len(wal')) = {} => FramesIn(wal, p, nBackfill + 1, Len(wal)) = {}
    BY <1>1, <1>3, LogGrows
  <2>2. Content(wal', base, nBackfill) = Content(wal, base, nBackfill)
    BY <1>2, <1>3
  <2> QED BY <1>4, <2>1, <2>2 DEF CaughtUp
<1>5. ASSUME NEW r \in Readers
      PROVE  ReaderLog(reader[r], wal', base, salt, nBackfill, disk, lost)
  <2> DEFINE v == reader[r]
  <2>1. ReaderLog(v, wal, base, salt, nBackfill, disk, lost)
    BY <1>5 DEF LogInv
  <2>2. v.mx \in Nat /\ v.minFrame \in Nat
    <3>1. v \in ReaderRec
      BY DEF Base, TypeInv
    <3> QED BY <3>1, WalAssumption DEF ReaderRec
  <2> HIDE DEF v
  <2>3. v.mx <= Len(wal) => Content(wal', base, v.mx) = Content(wal, base, v.mx)
    BY <1>2, <2>2
  <2>4. ASSUME v.mx <= Len(wal), v.minFrame - 1 \in 0 .. v.mx,
               CaughtUp(disk, v.hdr, wal, base, v.minFrame - 1, v.mx, lost)
        PROVE  CaughtUp(disk, v.hdr, wal', base, v.minFrame - 1, v.mx, lost)
    <3>1. v.minFrame - 1 \in Nat /\ v.minFrame - 1 <= Len(wal)
      BY <1>2, <2>2, <2>4
    <3>2. Content(wal', base, v.minFrame - 1) = Content(wal, base, v.minFrame - 1)
      BY <1>2, <3>1
    <3>3. \A p : FramesIn(wal', p, v.minFrame - 1 + 1, v.mx) = FramesIn(wal, p, v.minFrame - 1 + 1, v.mx)
      <4> TAKE p
      <4> DEFINE from == v.minFrame - 1 + 1
                 to   == v.mx
      <4>1. from \in Nat /\ to \in Nat /\ to <= Len(wal)
        BY <2>2, <2>4
      <4> HIDE DEF from, to
      <4>2. FramesIn(wal', p, from, to) = FramesIn(wal, p, from, to)
        BY ONLY <1>F, <4>1
      <4> QED BY <4>2 DEF from, to
    <3> QED BY ONLY <2>4, <3>2, <3>3 DEF CaughtUp
  <2>5. v.mx <= Len(wal) => v.mx <= Len(wal')
    BY <1>2, <2>2
  <2>6. CaughtUp(disk, v.hdr, wal, base, nBackfill, Len(wal), lost) => CaughtUp(disk, v.hdr, wal', base, nBackfill, Len(wal'), lost)
    BY <1>4
  <2>7. ReaderLog(v, wal', base, salt, nBackfill, disk, lost)
    BY ONLY <2>1, <2>3, <2>4, <2>5, <2>6 DEF ReaderLog
  <2> QED BY <2>7 DEF v
<1>6. CkptHoldsZero' => CkptLog'
  <2> SUFFICES ASSUME CkptHoldsZero PROVE CkptLog'
    BY <1>1 DEF CkptHoldsZero
  <2>1. ck.mx \in Nat /\ ck.mx <= Len(wal)
    <3>1. ck \in CkptRec /\ ck.mx <= Len(wal)
      BY DEF Base, LockInv, TypeInv, mxFrame
    <3> QED BY <3>1, WalAssumption DEF CkptRec
  <2>2. \A p \in Pages : FramesIn(wal', p, nBackfill + 1, ck.mx) = FramesIn(wal, p, nBackfill + 1, ck.mx)
    <3> TAKE p \in Pages
    <3> DEFINE from == nBackfill + 1
               to   == ck.mx
    <3>1. from \in Nat /\ to \in Nat /\ to <= Len(wal)
      BY <1>3, <2>1
    <3> HIDE DEF from, to
    <3>2. FramesIn(wal', p, from, to) = FramesIn(wal, p, from, to)
      BY ONLY <1>F, <3>1
    <3> QED BY <3>2 DEF from, to
  <2>3. Dues' = Dues
    BY <1>1, <2>2 DEF Dues, Due
  <2>4. \A p \in Dues : Fresh(p)' = Fresh(p)
    <3>1. TAKE p \in Dues
    <3>2. FramesIn(wal, p, nBackfill + 1, ck.mx) # {} /\ nBackfill + 1 \in Nat
      BY <1>3 DEF Dues, Due
    <3>3. Newest(wal', p, nBackfill + 1, ck.mx) = Newest(wal, p, nBackfill + 1, ck.mx)
      <4> DEFINE from == nBackfill + 1
                 to   == ck.mx
      <4>1. to \in Nat /\ to <= Len(wal) /\ from \in Nat /\ FramesIn(wal, p, from, to) # {}
        BY <2>1, <3>2
      <4> HIDE DEF from, to
      <4>2. Newest(wal', p, from, to) = Newest(wal, p, from, to)
        BY ONLY <1>F, <4>1
      <4> QED BY <4>2 DEF from, to
    <3> QED BY <1>1, <3>3 DEF Fresh
  <2>5. \A p : Copied(p)' = Copied(p)
    BY <1>1 DEF Copied
  <2> QED BY <1>1, <2>3, <2>4, <2>5 DEF LogInv, CkptLog
<1>7. CaughtUp(disk, hdr, wal', base, nBackfill, Len(wal'), lost)
  BY <1>4 DEF LogInv
<1> QED BY <1>1, <1>5, <1>6, <1>7 DEF LogInv

LEMMA NoFrames == \A w, p, n : n \in Nat => FramesIn(w, p, n + 1, n) = {} /\ FramesIn(<< >>, p, n + 1, n) = {}
BY DEF FramesIn

LEMMA RestartLogs ==
  ASSUME Base, LogInv, RestartLog
  PROVE  LogInv'
<1>1. /\ wal' = << >> /\ salt' = salt + 1 /\ nBackfill' = 0 /\ nBackfill = Len(wal)
      /\ base' = Content(wal, base, Len(wal)) /\ ~CkptHoldsZero /\ \A s \in Slots : Holders(s) = {}
      /\ UNCHANGED <<reader, ck, conn, disk, hdr, lost>>
  BY ContentIs DEF RestartLog, mxFrame
<1>2. Len(wal) \in Nat /\ salt \in Nat
  <2>1. wal \in Seq(Frames) /\ salt \in Nat
    BY DEF Base, TypeInv
  <2> QED BY <2>1
<1>3. \A p \in Pages \ lost : Page(disk, hdr, p) = base'[p]
  <2>1. CaughtUp(disk, hdr, wal, base, Len(wal), Len(wal), lost)
    BY <1>1 DEF LogInv
  <2>2. \A p \in Pages : FramesIn(wal, p, Len(wal) + 1, Len(wal)) = {}
    BY <1>2, NoFrames
  <2> QED BY <1>1, <2>1, <2>2 DEF CaughtUp
<1>4. CaughtUp(disk, hdr, << >>, base', 0, 0, lost)
  <2>1. \A p : FramesIn(<< >>, p, 1, 0) = {}
    BY DEF FramesIn
  <2> QED BY <1>3, <2>1 DEF CaughtUp, Content
<1>5. ASSUME NEW r \in Readers
      PROVE  ReaderLog(reader[r], << >>, base', salt + 1, 0, disk, lost)
  <2>1. ReaderLog(reader[r], wal, base, salt, nBackfill, disk, lost)
    BY <1>5 DEF LogInv
  <2>2. reader[r].salt \in Nat /\ reader[r].slot \in {None} \cup (0 .. NReader - 1)
    <3>1. reader[r] \in ReaderRec
      BY DEF Base, TypeInv
    <3> QED BY ONLY <3>1 DEF ReaderRec
  <2>3. reader[r].slot \notin Slots
    BY <1>1 DEF Holders
  <2>4. reader[r].pc = "reading" => reader[r].slot = 0
    BY <2>2, <2>3 DEF Base, LockInv, Slots
  <2>5. reader[r].salt <= salt + 1 /\ reader[r].salt # salt + 1
    BY <1>2, <2>1, <2>2 DEF ReaderLog
  <2> QED BY <2>1, <2>4, <2>5 DEF ReaderLog
<1>6. ~CkptHoldsZero' /\ Len(<< >>) = 0
  BY <1>1 DEF CkptHoldsZero
<1> QED BY <1>1, <1>4, <1>5, <1>6 DEF LogInv

\* One reader goes on to v.
LEMMA ReaderLogs ==
  ASSUME Base, LogInv, NEW r \in Readers, NEW v, reader' = [reader EXCEPT ![r] = v],
         UNCHANGED <<wal, salt, nBackfill, ck, conn, disk, hdr, base, lost>>,
         ReaderLog(v, wal, base, salt, nBackfill, disk, lost)
  PROVE  LogInv'
<1>1. reader'[r] = v /\ \A s \in Readers \ {r} : reader'[s] = reader[s]
  BY DEF Base, TypeInv
<1>2. CkptHoldsZero' = CkptHoldsZero /\ CkptLog' = CkptLog
  <2>1. Dues' = Dues /\ \A p : Fresh(p)' = Fresh(p) /\ Copied(p)' = Copied(p)
    BY DEF Dues, Fresh, Copied
  <2> QED BY <2>1 DEF CkptHoldsZero, CkptLog
<1>3. \A s \in Readers : ReaderLog(reader'[s], wal, base, salt, nBackfill, disk, lost)
  BY <1>1 DEF LogInv
<1> QED BY <1>2, <1>3 DEF LogInv

LEMMA ReadersLog ==
  ASSUME Base, LogInv, NEW r \in Readers,
         ReadHeader(r) \/ LockZero(r) \/ MarkSlot(r) \/ LockMark(r) \/ BeginRead(r) \/ EndRead(r)
  PROVE  LogInv'
<1> DEFINE Good(v) == ReaderLog(v, wal, base, salt, nBackfill, disk, lost)
<1>1. reader[r] \in ReaderRec /\ salt \in Nat /\ Len(wal) \in Nat /\ nBackfill \in 0 .. Len(wal)
  <2>1. wal \in Seq(Frames)
    BY DEF Base, TypeInv
  <2> QED BY <2>1 DEF Base, TypeInv
<1>2. CaughtUp(disk, hdr, wal, base, nBackfill, Len(wal), lost) /\ Good(reader[r])
  BY DEF LogInv
<1>3. reader[r].slot # None <=> reader[r].pc \in {"locked", "reading"}
  BY DEF Base, LockInv
<1>S. ASSUME NEW v, SetReader(r, v), Good(v)
      PROVE  LogInv'
  BY <1>S, ReaderLogs DEF SetReader
<1>R. Good(Resting)
  BY <1>1 DEF ReaderLog, Resting
<1>4. SetReader(r, Resting) => LogInv'
  BY <1>S, <1>R
<1>5. CASE ReadHeader(r)
  <2> DEFINE v == [Resting EXCEPT !.pc = "hdr", !.mx = mxFrame, !.salt = salt,
                                  !.snap = ContentAt(mxFrame)]
  <2>1. v.pc = "hdr" /\ v.mx = Len(wal) /\ v.salt = salt /\ v.snap = Content(wal, base, Len(wal))
    BY ContentIs DEF Resting, mxFrame
  <2>2. SetReader(r, v)
    BY <1>5 DEF ReadHeader
  <2> HIDE DEF v
  <2>3. Good(v)
    BY <1>1, <2>1 DEF ReaderLog
  <2> QED BY <1>S, <2>2, <2>3
<1>6. CASE LockZero(r)
  <2> DEFINE v == [reader[r] EXCEPT !.pc = "reading", !.slot = 0, !.hdr = hdr]
  <2>1. /\ v.pc = "reading" /\ v.mx = reader[r].mx /\ v.salt = reader[r].salt /\ v.slot = 0
        /\ v.snap = reader[r].snap /\ v.hdr = hdr
    BY ONLY <1>1 DEF ReaderRec
  <2>2. /\ reader[r].pc = "hdr" /\ nBackfill = reader[r].mx
        /\ SetReader(r, IF SameHeader(r) THEN v ELSE Resting)
    BY <1>6 DEF LockZero
  <2> HIDE DEF v
  <2>3. CASE SameHeader(r)
    <3> SUFFICES Good(v)
      BY <1>S, <2>2, <2>3
    <3>1. reader[r].mx = Len(wal) /\ reader[r].salt = salt
      BY <2>3 DEF SameHeader, mxFrame
    <3>2. reader[r].snap = Content(wal, base, Len(wal))
      BY <1>2, <2>2, <3>1 DEF ReaderLog
    <3>3. \A p \in Pages : FramesIn(wal, p, Len(wal) + 1, Len(wal)) = {}
      BY <1>1, NoFrames
    <3>4. \A p \in Pages \ lost : Page(disk, hdr, p) = v.snap[p]
      BY <1>2, <2>1, <2>2, <3>1, <3>2, <3>3 DEF CaughtUp
    <3> QED BY <1>1, <2>1, <3>1, <3>4 DEF ReaderLog
  <2>4. CASE ~SameHeader(r)
    BY <1>4, <2>2, <2>4
  <2> QED BY <2>3, <2>4
<1>7. CASE MarkSlot(r)
  <2>1. PICK x, y : SetReader(r, Resting) \/ SetReader(r, [reader[r] EXCEPT !.pc = "marked", !.pick = x, !.want = y])
    BY <1>7 DEF MarkSlot
  <2> DEFINE v == [reader[r] EXCEPT !.pc = "marked", !.pick = x, !.want = y]
  <2>2. v.pc = "marked" /\ v.mx = reader[r].mx /\ v.salt = reader[r].salt /\ v.snap = reader[r].snap
    BY ONLY <1>1 DEF ReaderRec
  <2>3. reader[r].pc = "hdr"
    BY <1>7 DEF MarkSlot
  <2> HIDE DEF v
  <2>4. Good(v)
    BY <1>2, <2>2, <2>3 DEF ReaderLog
  <2> QED BY <1>S, <1>4, <2>1, <2>4 DEF v
<1>8. CASE LockMark(r)
  <2> DEFINE v == [reader[r] EXCEPT !.pc = "locked", !.slot = reader[r].pick, !.pick = 0, !.hdr = hdr,
                                    !.late = Passed(reader[r].pick)]
  <2>1. v.pc = "locked" /\ v.mx = reader[r].mx /\ v.salt = reader[r].salt /\ v.snap = reader[r].snap /\ v.hdr = hdr
    BY ONLY <1>1 DEF ReaderRec
  <2>2. reader[r].pc = "marked" /\ SetReader(r, v)
    BY <1>8 DEF LockMark
  <2> HIDE DEF v
  <2>3. Good(v)
    BY <1>2, <2>1, <2>2 DEF ReaderLog
  <2> QED BY <1>S, <2>2, <2>3
<1>9. CASE BeginRead(r)
  <2> DEFINE v == [reader[r] EXCEPT !.pc = "reading", !.minFrame = nBackfill + 1]
  <2>1. /\ v.pc = "reading" /\ v.mx = reader[r].mx /\ v.salt = reader[r].salt /\ v.slot = reader[r].slot
        /\ v.snap = reader[r].snap /\ v.hdr = reader[r].hdr /\ v.minFrame = nBackfill + 1
        /\ v.late = reader[r].late /\ v.overtaken = reader[r].overtaken
    BY ONLY <1>1 DEF ReaderRec
  <2>2. /\ reader[r].pc = "locked" /\ reader[r].slot # 0
        /\ SetReader(r, Resting) \/ (SetReader(r, v) /\ SameHeader(r))
    BY <1>9 DEF BeginRead, Base, LockInv
  <2> HIDE DEF v
  <2>3. ASSUME SameHeader(r) PROVE Good(v)
    <3>1. reader[r].mx = Len(wal) /\ reader[r].salt = salt
      BY <2>3 DEF SameHeader, mxFrame
    <3>2. /\ reader[r].snap = Content(wal, base, Len(wal))
          /\ ~v.late /\ ~v.overtaken => CaughtUp(disk, v.hdr, wal, base, nBackfill, Len(wal), lost)
      BY <1>2, <2>1, <2>2, <2>3, <3>1 DEF ReaderLog
    <3>3. v.minFrame - 1 = nBackfill
      BY <1>1, <2>1
    <3> QED BY <1>1, <2>1, <2>2, <3>1, <3>2, <3>3 DEF ReaderLog
  <2> QED BY <1>S, <1>4, <2>2, <2>3
<1>10. CASE EndRead(r)
  BY <1>4, <1>10 DEF EndRead
<1> QED BY <1>5, <1>6, <1>7, <1>8, <1>9, <1>10

----------------------------------------------------------------------------
(* The layer above: steps of a checkpoint *)

\* Those that write nothing to the file.
LEMMA CkptLogs ==
  ASSUME Base, LogInv,
         BeginCkpt \/ ScanMark \/ StartCopy \/ CopyStops \/ CkptDone \/ ProbeSlot \/ Land \/ CommitFails
  PROVE  LogInv'
<1>1. /\ UNCHANGED <<wal, base, salt, nBackfill, reader, disk, hdr>>
      /\ lost' = lost \/ (CommitFails /\ lost' = IF ck.ok THEN lost \cup ToCopy ELSE lost)
  BY DEF BeginCkpt, ScanMark, StartCopy, CopyStops, CkptDone, ProbeSlot, Land, CommitFails, SetCkpt
<1>2. ck \in CkptRec
  BY DEF Base, TypeInv
<1>3. SUFFICES ASSUME CkptHoldsZero' PROVE CkptLog'
  BY <1>1, LogStays
<1>4. CkptHoldsZero => CkptLog
  BY DEF LogInv
<1>5. CASE BeginCkpt
  BY <1>3, <1>5 DEF BeginCkpt, SetCkpt, CkptHoldsZero, NoCkpt
<1>6. CASE ScanMark
  <2>1. ck'.pc = "scan"
    <3>1. \A x, y : [ck EXCEPT !.at = x, !.safe = y].pc = ck.pc
      BY ONLY <1>2 DEF CkptRec
    <3> QED BY <1>6, <3>1 DEF ScanMark, SetCkpt
  <2> QED BY <1>3, <2>1 DEF CkptHoldsZero
<1>7. CASE StartCopy
  <2>1. ck'.pc # "idle"
    BY <1>3 DEF CkptHoldsZero
  <2>2. /\ ck' = [ck EXCEPT !.pc = "copy", !.todo = ToCopy] /\ ck.pc = "scan"
        /\ conn' = conn \/ conn'.tab = disk[hdr.root].tab
    BY <1>7, <2>1 DEF StartCopy, SetCkpt, NoCkpt, Adopted
  <2>3. ck'.pc = "copy" /\ ck'.todo = ToCopy /\ ck'.mx = ck.mx /\ ck'.safe = ck.safe
    BY ONLY <1>2, <2>2 DEF CkptRec
  <2>4. conn'.tab = disk[hdr.root].tab
    BY <2>2 DEF Base, DiskInv
  <2>5. ToCopy = Dues
    BY ContentIs DEF ToCopy, Dues, Due
  <2>6. Dues' = Dues
    BY <1>1, <2>3, DuesStay
  <2>7. \A p \in Pages : Copied(p)' = Page(disk, hdr, p)
    BY <1>1, <2>4 DEF Copied, Page
  <2> QED BY <1>1, <2>3, <2>5, <2>6, <2>7 DEF CkptLog
<1>8. CASE CopyStops
  <2>1. ck' = [ck EXCEPT !.todo = {}, !.ok = FALSE] /\ ck.pc = "copy" /\ conn' = conn /\ lost' = lost
    BY <1>8 DEF CopyStops, SetCkpt
  <2>2. ck'.pc = "copy" /\ ck'.todo = {} /\ ck'.mx = ck.mx /\ ck'.safe = ck.safe /\ ck'.ok = FALSE
    BY ONLY <1>2, <2>1 DEF CkptRec
  <2>3. CkptLog
    BY <1>4, <2>1 DEF CkptHoldsZero
  <2> QED BY <1>1, <2>1, <2>2, <2>3, CkptStays
<1>9. CASE CkptDone
  <2>1. PICK to : ck' = [ck EXCEPT !.pc = to, !.at = 1, !.gate = TRUE] /\ ck.pc = "copy" /\ conn' = conn /\ lost' = lost
                  /\ ck.todo = {}
    BY <1>9 DEF CkptDone, SetCkpt
  <2>2. ck'.todo = ck.todo /\ ck'.mx = ck.mx /\ ck'.safe = ck.safe /\ ck'.ok = ck.ok
    BY ONLY <1>2, <2>1 DEF CkptRec
  <2>3. CkptLog
    BY <1>4, <2>1 DEF CkptHoldsZero
  <2> QED BY <1>1, <2>1, <2>2, <2>3, CkptStays
<1>10. CASE ProbeSlot
  <2>1. /\ ck.pc = "probe" /\ conn' = conn /\ lost' = lost
        /\ \E x, to : ck' = [ck EXCEPT !.pc = "commit", !.gate = FALSE, !.at = NReader]
                      \/ ck' = [ck EXCEPT !.at = x, !.pc = to]
    BY <1>10 DEF ProbeSlot, SetCkpt
  <2>2. ck'.todo = ck.todo /\ ck'.mx = ck.mx /\ ck'.safe = ck.safe /\ ck'.ok = ck.ok
    BY ONLY <1>2, <2>1 DEF CkptRec
  <2>3. CkptLog
    BY <1>4, <2>1 DEF CkptHoldsZero
  <2>4. ck.todo = {}
    BY <2>1, <2>3 DEF CkptLog
  <2> QED BY <1>1, <2>1, <2>2, <2>3, <2>4, CkptStays
<1>11. CASE Land
  <2>1. /\ ck' = [ck EXCEPT !.pc = "done"] /\ ck.pc = "flipped" /\ lost' = lost
        /\ \E x : conn' = [conn EXCEPT !.hdr = hdr, !.dirty = FALSE, !.alloc = x]
    BY <1>11 DEF Land, SetCkpt
  <2>2. ck'.todo = ck.todo /\ ck'.mx = ck.mx /\ ck'.safe = ck.safe /\ ck'.ok = ck.ok
    BY ONLY <1>2, <2>1 DEF CkptRec
  <2>3. CkptLog
    BY <1>4, <2>1 DEF CkptHoldsZero
  <2>4. ck.todo = {}
    BY <2>1, <2>3 DEF CkptLog
  <2>5. conn'.tab = conn.tab
    BY <2>1 DEF Base, TypeInv
  <2> QED BY <1>1, <2>1, <2>2, <2>3, <2>4, <2>5, CkptStays
<1>12. CASE CommitFails
  <2>1. /\ ck' = [ck EXCEPT !.pc = "done"] /\ ck.pc = "written"
        /\ lost' = IF ck.ok THEN lost \cup ToCopy ELSE lost
        /\ conn'.tab = disk[hdr.root].tab
    BY <1>12 DEF CommitFails, SetCkpt
  <2>2. ck'.todo = ck.todo /\ ck'.mx = ck.mx /\ ck'.safe = ck.safe /\ ck'.ok = ck.ok
    BY ONLY <1>2, <2>1 DEF CkptRec
  <2>3. CkptLog
    BY <1>4, <2>1 DEF CkptHoldsZero
  <2>4. ck.todo = {}
    BY <2>1, <2>3 DEF CkptLog
  <2>5. \A p \in Pages : Copied(p)' = Page(disk, hdr, p)
    BY <1>1, <2>1 DEF Copied, Page
  <2>6. ToCopy = Dues /\ Dues' = Dues
    BY <1>1, <2>2, ContentIs, DuesStay DEF ToCopy, Dues, Due
  <2> QED BY <1>1, <2>1, <2>2, <2>4, <2>5, <2>6 DEF CkptLog
<1> QED BY <1>5, <1>6, <1>7, <1>8, <1>9, <1>10, <1>11, <1>12

LEMMA CopyLogs ==
  ASSUME Endless, Base, LogInv, CopyPage
  PROVE  LogInv'
<1> DEFINE t == Take(conn.alloc, 1)
<1>1. PICK p \in Pages :
        /\ p \in ck.todo /\ t.off \in Spare(conn.alloc)
        /\ \A g \in Granules \ {t.off} : disk'[g] = disk[g]
        /\ ck' = [ck EXCEPT !.todo = @ \ {p}]
        /\ \A q \in Pages \ {p} : ValAt(disk', conn'.tab[q]) = ValAt(disk, conn.tab[q])
        /\ ValAt(disk', conn'.tab[p]) = Fresh(p)
  BY CopyIs
<1>2. UNCHANGED <<wal, salt, reader, base, lost, nBackfill, hdr>> /\ ck.pc = "copy" /\ ck \in CkptRec
  BY DEF CopyPage, SetCkpt, Base, TypeInv
<1> HIDE DEF t
<1>3. ck'.todo = ck.todo \ {p} /\ ck'.pc = "copy" /\ ck'.mx = ck.mx /\ ck'.safe = ck.safe /\ ck'.ok = ck.ok
  BY ONLY <1>1, <1>2 DEF CkptRec
<1>4. /\ Current(hdr) \cap Spare(conn.alloc) = {}
      /\ \A r \in Readers : Pinned[r] \cap Spare(conn.alloc) = {}
  BY DEF Base, P!IInv, P!Separate, P!PinsSafe
<1>5. /\ \A q \in Pages : Page(disk', hdr, q) = Page(disk, hdr, q)
      /\ \A r \in Readers : Pins(reader[r]) =>
           \A q \in Pages : Page(disk', reader[r].hdr, q) = Page(disk, reader[r].hdr, q)
  BY <1>1, <1>4, PagesKept
<1>6. CkptLog /\ Dues' = Dues /\ \A q : Fresh(q)' = Fresh(q)
  BY <1>2, <1>3, DuesStay DEF LogInv, CkptHoldsZero
<1>7. \A q \in Pages : /\ Copied(q)' = ValAt(disk', conn'.tab[q])
                       /\ Copied(q) = ValAt(disk, conn.tab[q])
  BY DEF Copied
<1>8. p \in Dues /\ Copied(p)' = Fresh(p) /\ \A q \in Pages \ {p} : Copied(q)' = Copied(q)
  <2>1. p \in Dues
    BY ONLY <1>1, <1>6 DEF CkptLog
  <2>2. Copied(p)' = Fresh(p)
    BY ONLY <1>1, <1>7
  <2>3. \A q \in Pages \ {p} : Copied(q)' = Copied(q)
    BY ONLY <1>1, <1>7
  <2> QED BY ONLY <2>1, <2>2, <2>3
<1>9. CkptLog'
  <2>1. ck'.todo \subseteq Dues' /\ (ck'.pc # "copy" => ck'.todo = {})
    BY ONLY <1>3, <1>6 DEF CkptLog
  <2>2. ASSUME NEW q \in Pages
        PROVE  Copied(q)' = Page(disk, hdr, q) \/ (q \in Dues /\ Copied(q)' = Fresh(q))
    <3>1. Copied(q) = Page(disk, hdr, q) \/ (q \in Dues /\ Copied(q) = Fresh(q))
      BY ONLY <1>6, <2>2 DEF CkptLog
    <3>2. CASE q = p
      BY ONLY <1>8, <3>2
    <3>3. CASE q # p
      BY ONLY <1>8, <2>2, <3>1, <3>3
    <3> QED BY ONLY <3>2, <3>3
  <2>3. ASSUME ck.ok, NEW q \in Dues \ ((ck.todo \ {p}) \cup lost)
        PROVE  Copied(q)' = Fresh(q)
    <3>1. q \in Pages
      BY <2>3 DEF Dues, Due
    <3>2. CASE q = p
      BY ONLY <1>8, <3>2
    <3>3. CASE q # p
      <4>1. Copied(q) = Fresh(q)
        BY ONLY <1>6, <2>3, <3>3 DEF CkptLog
      <4> QED BY ONLY <1>8, <3>1, <3>3, <4>1
    <3> QED BY ONLY <3>2, <3>3
  <2>4. \A q \in Pages : Page(disk', hdr', q) = Page(disk, hdr, q)
    BY <1>2, <1>5
  <2> QED BY ONLY <1>2, <1>3, <1>6, <2>1, <2>2, <2>3, <2>4 DEF CkptLog
<1> QED BY <1>2, <1>5, <1>9, LogStays

LEMMA PrepareLogs ==
  ASSUME Endless, Base, LogInv, Prepare
  PROVE  LogInv'
<1>1. PICK h, a, sp : Built(h, a, sp)
  BY PrepareIs
<1>2. /\ Current(hdr) \cap sp = {} /\ \A r \in Readers : Pinned[r] \cap sp = {}
      /\ \A g \in Granules \ (sp \cup HoleSet) : disk'[g] = disk[g]
      /\ \A p \in Pages : Copied(p)' = Copied(p)
      /\ ck' = [ck EXCEPT !.pc = "written", !.hdr = h]
  BY <1>1 DEF Built, Copied
<1>3. UNCHANGED <<wal, salt, reader, base, lost, nBackfill, hdr>> /\ ck.pc = "commit" /\ ck \in CkptRec
  BY DEF Prepare, SetCkpt, Base, TypeInv
<1>4. ck'.todo = ck.todo /\ ck'.mx = ck.mx /\ ck'.safe = ck.safe /\ ck'.ok = ck.ok
  BY ONLY <1>2, <1>3 DEF CkptRec
<1>5. /\ \A q \in Pages : Page(disk', hdr, q) = Page(disk, hdr, q)
      /\ \A r \in Readers : Pins(reader[r]) =>
           \A q \in Pages : Page(disk', reader[r].hdr, q) = Page(disk, reader[r].hdr, q)
  BY <1>2, PagesKept
<1>6. CkptLog /\ Dues' = Dues /\ \A q : Fresh(q)' = Fresh(q)
  BY <1>3, <1>4, DuesStay DEF LogInv, CkptHoldsZero
<1>7. CkptLog'
  BY <1>2, <1>3, <1>4, <1>5, <1>6 DEF CkptLog, Dues, Due
<1> QED BY <1>3, <1>5, <1>7, LogStays

----------------------------------------------------------------------------
(* The layer above: the header's flip, and the end of a checkpoint *)

\* What a checkpoint has put in place: the old page, or the new one where no frame is left out.
LEMMA FlipLogs ==
  ASSUME Base, LogInv, Flip
  PROVE  LogInv'
<1>1. /\ ck' = [ck EXCEPT !.pc = "flipped"] /\ ck.pc = "written" /\ hdr' = ck.hdr
      /\ UNCHANGED <<wal, salt, reader, base, lost, nBackfill, disk, conn>>
  BY DEF Flip, SetCkpt
<1>2. ck'.todo = ck.todo /\ ck'.mx = ck.mx /\ ck'.safe = ck.safe /\ ck'.ok = ck.ok /\ ck'.pc = "flipped"
  <2>1. ck \in CkptRec
    BY DEF Base, TypeInv
  <2> QED BY ONLY <1>1, <2>1 DEF CkptRec
<1>3. CkptLog /\ ck.mx <= Len(wal) /\ ck.mx \in Nat /\ nBackfill \in Nat /\ Len(wal) \in Nat
  <2>1. ck \in CkptRec /\ wal \in Seq(Frames) /\ nBackfill \in Nat
    BY DEF Base, TypeInv
  <2>2. ck.mx \in Nat /\ Len(wal) \in Nat
    BY <2>1, WalAssumption DEF CkptRec
  <2> QED BY <1>1, <2>1, <2>2 DEF LogInv, CkptHoldsZero, Base, LockInv, mxFrame
<1>4. \A p \in Pages : Page(disk, ck.hdr, p) = Copied(p)
  BY <1>1 DEF Base, DiskInv, Page, Copied
<1>5. Dues' = Dues /\ \A p : Fresh(p)' = Fresh(p) /\ Copied(p)' = Copied(p)
  BY <1>1, <1>2, DuesStay DEF Copied
<1>6. CkptLog'
  BY <1>1, <1>2, <1>3, <1>4, <1>5 DEF CkptLog
<1>7. ASSUME NEW p \in Pages \ lost, FramesIn(wal, p, nBackfill + 1, Len(wal)) = {}
      PROVE  Page(disk, ck.hdr, p) = Content(wal, base, nBackfill)[p]
  <2>1. FramesIn(wal, p, nBackfill + 1, ck.mx) = {}
    BY <1>3, <1>7 DEF FramesIn
  <2>2. Copied(p) = Page(disk, hdr, p)
    BY <1>3, <2>1 DEF CkptLog, Dues, Due
  <2> QED BY <1>4, <1>7, <2>2 DEF LogInv, CaughtUp
<1>8. CaughtUp(disk, ck.hdr, wal, base, nBackfill, Len(wal), lost)
  BY <1>7 DEF CaughtUp
<1> QED BY <1>1, <1>6, <1>8 DEF LogInv

\* The frames up to safe are in the generation that hdr names: a page they hold, and no later
\* frame does, was due.
LEMMA EndCaughtUp ==
  ASSUME Base, LogInv, ck.pc = "done", ck.ok
  PROVE  ck.safe \in 0 .. Len(wal) /\ CaughtUp(disk, hdr, wal, base, ck.safe, Len(wal), lost)
<1>1. /\ nBackfill < ck.safe /\ ck.safe <= ck.mx /\ ck.mx <= Len(wal)
      /\ nBackfill \in Nat /\ ck.safe \in Nat /\ ck.mx \in Nat /\ Len(wal) \in Nat
  <2>1. ck \in CkptRec /\ wal \in Seq(Frames) /\ nBackfill \in Nat
    BY DEF Base, TypeInv
  <2>2. ck.mx \in Nat /\ ck.safe \in Nat /\ Len(wal) \in Nat
    BY <2>1, WalAssumption DEF CkptRec
  <2> QED BY <2>1, <2>2 DEF Base, LockInv, CkptHoldsZero, mxFrame
<1>2. CkptLog /\ ck.todo = {} /\ CaughtUp(disk, hdr, wal, base, nBackfill, Len(wal), lost)
  BY DEF LogInv, CkptHoldsZero, CkptLog
<1>3. \A p \in Pages : Copied(p) = Page(disk, hdr, p)
  BY DEF Base, DiskInv, Page, Copied
<1>4. ASSUME NEW p \in Pages \ lost, FramesIn(wal, p, ck.safe + 1, Len(wal)) = {}
      PROVE  Page(disk, hdr, p) = Content(wal, base, ck.safe)[p]
  <2> DEFINE done == FramesIn(wal, p, nBackfill + 1, ck.safe)
  <2>1. Content(wal, base, ck.safe)[p] = IF done = {} THEN Content(wal, base, nBackfill)[p]
                                         ELSE Newest(wal, p, nBackfill + 1, ck.safe)
    <3>1. nBackfill <= ck.safe
      BY <1>1
    <3>2. Splits(wal, base, nBackfill, ck.safe, p)
      BY <1>1, <3>1, ContentSplits
    <3> QED BY <3>2 DEF Splits
  <2>2. FramesIn(wal, p, nBackfill + 1, ck.mx) = done /\ FramesIn(wal, p, nBackfill + 1, Len(wal)) = done
    BY <1>1, <1>4 DEF FramesIn
  <2>3. CASE done = {}
    BY <1>2, <2>1, <2>2, <2>3 DEF CaughtUp
  <2>4. CASE done # {}
    <3>1. Latest(done) \in done /\ nBackfill + 1 \in Nat
      BY <1>1, <2>4, LatestFrame
    <3>2. Latest(done) <= ck.safe
      BY <1>1, <3>1, FramesInIs
    <3>3. p \in Dues
      BY <2>2, <2>4, <3>2 DEF Dues, Due
    <3>4. Copied(p) = Fresh(p)
      BY <1>2, <3>3 DEF CkptLog
    <3>5. Fresh(p) = Newest(wal, p, nBackfill + 1, ck.safe)
      BY <2>2 DEF Fresh, Newest
    <3> QED BY <1>3, <2>1, <2>4, <3>4, <3>5
  <2> QED BY <2>3, <2>4
<1>5. CaughtUp(disk, hdr, wal, base, ck.safe, Len(wal), lost)
  BY <1>4 DEF CaughtUp
<1> QED BY <1>1, <1>5

\* A reader that waits with the lock and was not overtaken has the generation that is
\* current, or nBackfill stays where it was.
LEMMA EndLogs ==
  ASSUME Base, LogInv, EndCkpt
  PROVE  LogInv'
<1>1. /\ ck.pc = "done" /\ nBackfill' = (IF ck.ok THEN ck.safe ELSE nBackfill)
      /\ UNCHANGED <<wal, salt, base, lost, disk, hdr>> /\ reader' = Overtakes
      /\ ck' = NoCkpt
  BY DEF EndCkpt, SetCkpt
<1>2. CaughtUp(disk, hdr, wal, base, nBackfill', Len(wal), lost)
  BY <1>1, EndCaughtUp DEF LogInv
<1>3. ASSUME NEW r \in Readers
      PROVE  ReaderLog(reader'[r], wal, base, salt, nBackfill', disk, lost)
  <2> DEFINE o == reader[r].overtaken \/ (reader[r].pc = "locked" /\ ck.ok /\ reader[r].hdr # hdr)
             u == reader[r]
             v == reader'[r]
  <2>1. u \in ReaderRec /\ v = [u EXCEPT !.overtaken = o]
    BY <1>1 DEF Base, TypeInv, Overtakes
  <2>2. ReaderLog(u, wal, base, salt, nBackfill, disk, lost)
    BY DEF LogInv
  <2>3. ~o => ~u.overtaken /\ (u.pc = "locked" => ~ck.ok \/ u.hdr = hdr)
    OBVIOUS
  <2> HIDE DEF o, u, v
  <2>4. /\ v.pc = u.pc /\ v.mx = u.mx /\ v.salt = u.salt /\ v.slot = u.slot /\ v.snap = u.snap
        /\ v.hdr = u.hdr /\ v.minFrame = u.minFrame /\ v.late = u.late /\ v.overtaken = o
    BY ONLY <2>1 DEF ReaderRec
  <2>5. u.pc = "locked" /\ ~o /\ ~u.late /\ u.salt = salt =>
          CaughtUp(disk, u.hdr, wal, base, nBackfill', Len(wal), lost)
    BY <1>1, <1>2, <2>2, <2>3 DEF ReaderLog
  <2>6. ReaderLog(v, wal, base, salt, nBackfill', disk, lost)
    BY ONLY <2>2, <2>3, <2>4, <2>5 DEF ReaderLog
  <2> QED BY <2>6 DEF v
<1>4. ~CkptHoldsZero'
  BY <1>1 DEF CkptHoldsZero, NoCkpt
<1> QED BY <1>1, <1>2, <1>3, <1>4 DEF LogInv

----------------------------------------------------------------------------
(* The layer above, for every run *)

LEMMA InitLog ==
  ASSUME Endless, Init
  PROVE  LogInv
<1> USE WalAssumption, PagesAssumption, HoleAssumption
<1>1. /\ wal = << >> /\ salt = 0 /\ nBackfill = 0 /\ base = Zeros /\ hdr = FirstHdr /\ Len(wal) = 0
      /\ \A r \in Readers : reader[r] = Resting
      /\ ck.pc = "idle"
  BY DEF Init, NoCkpt
<1>2. \A p \in Pages : Page(disk, hdr, p) = 0
  <2>1. disk[NPages + 1] = NodeRec(NPages + 1, FirstTab) /\ \A p \in Pages : disk[p] = PageRec(p, 1, p, 0)
    BY DEF Init, Endless, Pages, FirstHdr
  <2>2. disk[hdr.root].tab = FirstTab
    BY <1>1, <2>1 DEF FirstHdr, NodeRec
  <2>3. \A p \in Pages : FirstTab[p] # Absent /\ FirstTab[p].off = p
    BY DEF FirstTab, Absent
  <2>4. \A p \in Pages : Page(disk, hdr, p) = disk[p].val
    BY ONLY <2>2, <2>3 DEF Page, ValAt
  <2>5. \A p \in Pages : PageRec(p, 1, p, 0).val = 0
    BY DEF PageRec
  <2> QED BY ONLY <2>1, <2>4, <2>5
<1>3. CaughtUp(disk, hdr, wal, base, nBackfill, Len(wal), lost)
  <2>1. \A p \in Pages : FramesIn(<< >>, p, 1, 0) = {}
    BY DEF FramesIn
  <2> QED BY <1>1, <1>2, <2>1 DEF CaughtUp, Content, Zeros
<1>4. \A r \in Readers : ReaderLog(reader[r], wal, base, salt, nBackfill, disk, lost)
  BY <1>1 DEF ReaderLog, Resting
<1> QED BY <1>1, <1>3, <1>4 DEF LogInv, CkptHoldsZero

LEMMA LogIsKept ==
  ASSUME Endless, Base, LogInv, [Next]_vars
  PROVE  LogInv'
<1>1. CASE UNCHANGED vars
  <2>1. UNCHANGED <<wal, base, salt, nBackfill, reader, disk, hdr, conn, ck, lost>>
    BY <1>1 DEF vars
  <2>2. CkptHoldsZero' = CkptHoldsZero /\ (CkptLog => CkptLog')
    <3>1. Dues' = Dues /\ \A p : Fresh(p)' = Fresh(p) /\ Copied(p)' = Copied(p)
      BY <2>1, DuesStay DEF Copied
    <3> QED BY <2>1, <3>1 DEF CkptLog, CkptHoldsZero
  <2> QED BY <2>1, <2>2, LogStays DEF LogInv
<1>2. CASE \E p \in Pages : CommitFrame(p)
  BY <1>2, CommitLog
<1>3. CASE RestartLog
  BY <1>3, RestartLogs
<1>4. CASE \E r \in Readers : ReadHeader(r) \/ LockZero(r) \/ MarkSlot(r) \/ LockMark(r)
                              \/ BeginRead(r) \/ EndRead(r)
  BY <1>4, ReadersLog
<1>5. CASE BeginCkpt \/ ScanMark \/ StartCopy \/ CopyStops \/ CkptDone \/ ProbeSlot \/ Land \/ CommitFails
  BY <1>5, CkptLogs
<1>6. CASE CopyPage
  BY <1>6, CopyLogs
<1>7. CASE Prepare
  BY <1>7, PrepareLogs
<1>8. CASE Flip
  BY <1>8, FlipLogs
<1>9. CASE EndCkpt
  BY <1>9, EndLogs
<1> QED BY <1>1, <1>2, <1>3, <1>4, <1>5, <1>6, <1>7, <1>8, <1>9 DEF Next

\* A read transaction sees the database of the log header it began with, from its first read
\* to its last, whatever checkpoints copy, compact, commit and recycle in between, unless it
\* took its lock behind the gate's back or was overtaken before it looked at nBackfill, and
\* but for the pages that a failed commit dropped.
THEOREM SnapshotsAreKept ==
  ASSUME Endless
  PROVE  Spec => []SnapshotsHold
<1>1. ASSUME Base, LogInv PROVE SnapshotsHold
  <2> SUFFICES ASSUME NEW r \in Readers, reader[r].pc = "reading", ~reader[r].late,
                      ~reader[r].overtaken, NEW p \in Pages \ lost
               PROVE  reader[r].snap[p] = ReadAs(reader[r])[p]
    BY DEF SnapshotsHold
  <2> DEFINE v == reader[r]
  <2>1. v.mx \in Nat /\ v.minFrame \in Nat
    <3>1. v \in ReaderRec
      BY <1>1 DEF Base, TypeInv
    <3> HIDE DEF v
    <3> QED BY ONLY <3>1, WalAssumption DEF ReaderRec
  <2>2. ReaderLog(v, wal, base, salt, nBackfill, disk, lost) /\ v.pc = "reading" /\ ~v.late
        /\ ~v.overtaken
    BY <1>1 DEF LogInv
  <2>3. PageOf(v.hdr, p) = Page(disk, v.hdr, p)
    <3>1. Generation(disk, v.hdr)
      BY <1>1, <2>2 DEF Base, DiskInv, Pins
    <3> QED BY <3>1, PageOfIs DEF Page
  <2> HIDE DEF v
  <2>4. CASE v.slot = 0
    <3>1. v.snap[p] = PageOf(v.hdr, p)
      BY <2>2, <2>3, <2>4 DEF ReaderLog
    <3>2. v.snap[p] = ReadAs(v)[p]
      BY <2>4, <3>1 DEF ReadAs
    <3> QED BY <3>2 DEF v
  <2>5. CASE v.slot # 0
    <3> DEFINE n == v.minFrame - 1
    <3>1. /\ v.snap = Content(wal, base, v.mx) /\ n \in 0 .. v.mx /\ n + 1 = v.minFrame
          /\ CaughtUp(disk, v.hdr, wal, base, n, v.mx, lost)
      BY ONLY <2>1, <2>2, <2>5 DEF ReaderLog
    <3>2. n \in Nat /\ n <= v.mx /\ p \in Pages \ lost
      BY <2>1, <3>1
    <3> HIDE DEF n
    <3>3. Shows(disk, v.hdr, wal, base, n, v.mx, p)
      BY ONLY <2>1, <3>1, <3>2, SeenIsContent
    <3>4. v.snap[p] = IF FramesIn(wal, p, v.minFrame, v.mx) = {} THEN Page(disk, v.hdr, p)
                      ELSE Newest(wal, p, v.minFrame, v.mx)
      BY ONLY <3>1, <3>3 DEF Shows
    <3>5. v.snap[p] = Seen(v.hdr, v.minFrame, v.mx)[p]
      BY <2>3, <3>4, ContentIs DEF Seen, Newest
    <3>6. v.snap[p] = ReadAs(v)[p]
      BY <2>5, <3>5 DEF ReadAs
    <3> QED BY <3>6 DEF v
  <2> QED BY <2>4, <2>5
<1>2. Init => Base /\ LogInv
  BY InitBase, InitLog
<1>3. Base /\ LogInv /\ [Next]_vars => Base' /\ LogInv'
  BY BaseIsKept, LogIsKept
<1> QED BY <1>1, <1>2, <1>3, PTL DEF Spec

\* The frames that nBackfill declares dispensable are in the generation that a new reader
\* would adopt: at every moment the log and the container hold every committed transaction
\* of every page but those that a failed commit dropped a whole copy of.
THEOREM NothingIsLost ==
  ASSUME Endless
  PROVE  Spec => []NothingElseIsLost
<1>1. ASSUME Base, LogInv PROVE NothingElseIsLost
  <2> SUFFICES ASSUME NEW p \in Pages \ lost
               PROVE  Seen(hdr, nBackfill + 1, Len(wal))[p] = Content(wal, base, Len(wal))[p]
    BY ContentIs DEF NothingElseIsLost, mxFrame
  <2>1. nBackfill \in Nat /\ Len(wal) \in Nat /\ nBackfill <= Len(wal)
    <3>1. wal \in Seq(Frames) /\ nBackfill \in 0 .. Len(wal)
      BY <1>1 DEF Base, TypeInv
    <3>2. Len(wal) \in Nat
      BY <3>1
    <3> QED BY <3>1, <3>2
  <2>2. PageOf(hdr, p) = Page(disk, hdr, p)
    <3>1. Generation(disk, hdr)
      BY <1>1 DEF Base, DiskInv
    <3> QED BY <3>1, PageOfIs DEF Page
  <2>3. Content(wal, base, Len(wal))[p] =
          IF FramesIn(wal, p, nBackfill + 1, Len(wal)) = {} THEN Page(disk, hdr, p)
          ELSE Newest(wal, p, nBackfill + 1, Len(wal))
    <3> DEFINE n  == nBackfill
               to == Len(wal)
    <3>1. CaughtUp(disk, hdr, wal, base, n, to, lost) /\ n \in Nat /\ to \in Nat /\ n <= to
          /\ p \in Pages \ lost
      BY <1>1, <2>1 DEF LogInv
    <3> HIDE DEF n, to
    <3>2. Shows(disk, hdr, wal, base, n, to, p)
      BY ONLY <3>1, SeenIsContent
    <3> QED BY ONLY <3>2 DEF Shows, n, to
  <2> QED BY <2>2, <2>3, ContentIs DEF Seen, Newest
<1>2. Init => Base /\ LogInv
  BY InitBase, InitLog
<1>3. Base /\ LogInv /\ [Next]_vars => Base' /\ LogInv'
  BY BaseIsKept, LogIsKept
<1> QED BY <1>1, <1>2, <1>3, PTL DEF Spec
=============================================================================
