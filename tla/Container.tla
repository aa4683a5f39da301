----------------------------- MODULE Container -----------------------------
(***************************************************************************)
(* The compressed container of internal/zstdvfs (container.c, compact.c,   *)
(* map.c): one connection, a disk that keeps unsynced writes in a cache,   *)
(* failing I/O, crashes, the copy-on-write commit with its two header      *)
(* copies, the whole-file rebuild that VACUUM drives, and the conversion   *)
(* of a plain database file.                                               *)
(***************************************************************************)
EXTENDS Records

CONSTANTS PlainEof,         \* the first granule after a plain database
          Size,             \* granules of the record of the n-th page written
          Journaled,        \* whether a failed write is rolled back before a VACUUM
          MaxWrites, MaxTxn, MaxFaults, MaxCrashes

ASSUME SizeAssumption == /\ PlainEof \in 2 .. Hole0
                         /\ Size \in [1 .. MaxWrites -> Nat \ {0}]
                         /\ Journaled \in BOOLEAN /\ MaxWrites \in Nat

VARIABLES
  disk,      \* what a read returns: the cache over the medium
  dur,       \* what is on the medium
  slot,      \* the two header copies in the cache
  slotDur,   \* and on the medium
  mode,      \* "plain", or "container" (the shim's p->mode)
  hdr,       \* c->hdr, the generation adopted
  which,     \* c->whichHdr
  tab,       \* what zmap_get answers: staged entries over the committed node
  count,     \* c->stagedCount
  alloc,     \* c->alloc
  dirty,     \* c->dirty
  rb,        \* c->pRb, the rebuild stream
  pc,        \* where the commit is
  cm,        \* the header it is about to write, and what it remembers
  pack,      \* the loop of pack passes after a rebuild
  staged, settled,  \* history: the image of the transaction and of the file
  leaky,     \* history: a rebuild chunk was written twice
  clock, faults, crashes

vars == <<disk, dur, slot, slotDur, mode, hdr, which, tab, count, alloc, dirty, rb, pc,
          cm, pack, staged, settled, leaky, clock, faults, crashes>>

----------------------------------------------------------------------------
(* Records and headers *)

Garbage == [kind |-> "garbage"]       \* what a failed write left
PlainBytes == [kind |-> "plain"]      \* of the plain database under conversion

TornHdr  == [ZeroHdr EXCEPT !.txn = -1]
PlainHdr == [ZeroHdr EXCEPT !.txn = -2]      \* the first bytes of a plain database
Valid(h) == h.txn > 0

(* zhdr_pick: the valid copy with the higher txn, copy A of equals. *)
Picked(s) == IF Valid(s[0]) /\ (~Valid(s[1]) \/ s[0].txn >= s[1].txn) THEN 0
             ELSE IF Valid(s[1]) THEN 1 ELSE -1

\* Mutant: counts one page too many.
Grown_offByOne(n, p) == IF n < p THEN p + 1 ELSE n
Grown(n, p) == IF n < p THEN p ELSE n
PlainImage == Image(1, [p \in Pages |-> MaxWrites + 1])

(* detect_mode and what it leads to: a container by either header copy, a  *)
(* plain database by its first bytes, an empty file by a header block of   *)
(* zeros; anything else is corrupt.                                        *)
FileImage(d, s) ==
  IF Picked(s) # -1 THEN ImageAt(d, s[Picked(s)])
  ELSE IF s[0] = PlainHdr
       THEN IF \A g \in 1 .. PlainEof - 1 : d[g] = PlainBytes THEN PlainImage ELSE Broken
  ELSE IF s[0] = ZeroHdr /\ s[1] = ZeroHdr THEN Image(0, Zeros) ELSE Broken

NoRebuild == [on |-> FALSE, tab |-> Empty, count |-> -1, base |-> 0]
NoCommit  == [hdr |-> ZeroHdr, gate |-> FALSE, moved |-> 0, before |-> 0]
NoPack    == [on |-> FALSE, stall |-> 0, last |-> 0]

TypeOK ==
  /\ DOMAIN disk = Granules /\ DOMAIN dur = Granules
  /\ \A i \in {0, 1} : slot[i].txn >= -2 /\ slotDur[i].txn >= -2
  /\ mode \in {"plain", "container"}
  /\ which \in {-1, 0, 1} /\ count \in 0 .. NPages
  /\ tab \in [Pages -> [off : {0} \cup Granules, len : Nat]]
  /\ alloc.free \subseteq Granules /\ alloc.eof >= 1 /\ 1 .. alloc.eof - 1 \subseteq Granules
  /\ dirty \in BOOLEAN /\ rb.on \in BOOLEAN
  /\ pc \in {"idle", "written", "copied", "flipped", "pack"}

Init ==
  /\ mode \in {"plain", "container"}
  /\ disk = [g \in Granules |-> IF mode = "plain" /\ g < PlainEof THEN PlainBytes ELSE Blank]
  /\ slot = [i \in {0, 1} |-> IF mode = "plain" THEN PlainHdr ELSE ZeroHdr]
  /\ dur = disk /\ slotDur = slot
  /\ hdr = ZeroHdr /\ which = -1 /\ tab = Empty /\ count = 0 /\ alloc = NewAlloc
  /\ dirty = FALSE /\ rb = NoRebuild /\ pc = "idle" /\ cm = NoCommit /\ pack = NoPack
  /\ staged = IF mode = "plain" THEN PlainImage ELSE Image(0, Zeros)
  /\ settled = staged /\ leaky = FALSE
  /\ clock = 0 /\ faults = 0 /\ crashes = 0

----------------------------------------------------------------------------
(* Writes of the pager *)

TxnOf == hdr.txn + 1

(* zctr_write: place the record, point the map at it, only then give up    *)
(* the extent it replaces.                                                 *)
WritePage(p) ==
  LET n == Size[clock + 1]
      t == Take(alloc, n)
  IN  /\ pc = "idle" /\ mode = "container" /\ ~rb.on
      /\ clock < MaxWrites /\ TxnOf < MaxTxn
      /\ disk' = Write(disk, PageRec(t.off, n, p, clock + 1))
      /\ alloc' = FreeEntry(t.a, tab[p], TxnOf)
      /\ tab' = [tab EXCEPT ![p] = [off |-> t.off, len |-> n]]
      /\ count' = Grown(count, p)
      /\ dirty' = TRUE
      /\ staged' = Image(count', [staged.val EXCEPT ![p] = clock + 1])
      /\ clock' = clock + 1
      /\ UNCHANGED <<dur, slot, slotDur, mode, hdr, which, rb, pc, cm, pack,
                     settled, leaky, faults, crashes>>

(* The record's write fails part way, in a transaction or in a rebuild's   *)
(* stream: the extent is handed back.                                      *)
WriteFails(p) ==
  LET n == Size[clock + 1]
      t == Take(alloc, n)
  IN  /\ pc = "idle" /\ (mode = "container" \/ rb.on)
      /\ clock < MaxWrites /\ TxnOf < MaxTxn /\ faults < MaxFaults
      /\ disk' = [g \in Granules |-> IF g \in Ext(t.off, n) THEN Garbage ELSE disk[g]]
      /\ alloc' = Untake(t.a, t.off, n)
      /\ dirty' = (dirty \/ rb.on)
      /\ faults' = faults + 1
      /\ UNCHANGED <<dur, slot, slotDur, mode, hdr, which, tab, count, rb, pc, cm,
                     pack, staged, settled, leaky, clock, crashes>>

(* zctr_truncate to fewer pages: each dropped page is cleared in the map   *)
(* and its extent given up.                                                *)
Truncate(n) ==
  LET dropped == {p \in n + 1 .. count : tab[p] # Absent}
      span    == UNION {Ext(tab[p].off, tab[p].len) : p \in dropped}
  IN  /\ pc = "idle" /\ mode = "container" /\ ~rb.on /\ TxnOf < MaxTxn
      /\ n < count
      /\ tab' = [p \in Pages |-> IF p \in n + 1 .. count THEN Absent ELSE tab[p]]
      /\ alloc' = IF dropped = {} THEN alloc ELSE FreeSpan(alloc, span, TxnOf)
      /\ count' = n
      /\ dirty' = TRUE
      /\ staged' = Image(n, staged.val)
      /\ UNCHANGED <<disk, dur, slot, slotDur, mode, hdr, which, rb, pc, cm, pack,
                     settled, leaky, clock, faults, crashes>>

----------------------------------------------------------------------------
(* The rebuild stream of VACUUM *)

(* zctr_begin_overwrite; on a plain file zctr_create_for_convert, whose    *)
(* stream starts above every byte of the plain database.  A failed write   *)
(* may have moved alloc.eof below hdr.eof; SQLite's rollback then writes   *)
(* pages back, and commits, before anything else - if there is a journal.  *)
BeginOverwrite ==
  LET base == IF mode = "plain" THEN PlainEof ELSE hdr.eof
      a    == IF mode = "plain" THEN [NewAlloc EXCEPT !.eof = PlainEof] ELSE alloc
  IN  /\ pc = "idle" /\ ~rb.on /\ ~dirty /\ TxnOf < MaxTxn
      /\ mode = "plain" \/ (hdr.txn > 0 /\ (Journaled => hdr.eof <= alloc.eof))
      /\ rb' = [NoRebuild EXCEPT !.on = TRUE, !.base = base]
      /\ alloc' = [a EXCEPT !.append = TRUE]
      /\ UNCHANGED <<disk, dur, slot, slotDur, mode, hdr, which, tab, count, dirty, pc, cm,
                     pack, staged, settled, leaky, clock, faults, crashes>>

Placed(t) == {p \in Pages : t[p] # Absent}
ChunkCount(r) == IF r.count >= 0 THEN r.count
                 ELSE CHOOSE n \in 0 .. NPages : /\ n = 0 \/ n \in Placed(r.tab)
                                                 /\ \A p \in Placed(r.tab) : p <= n
(* rebuild_check_complete, for a page size that does not change *)
Complete(r) == Placed(r.tab) # {} /\ 1 .. ChunkCount(r) \subseteq Placed(r.tab)

(* zctr_rebuild_write: pages arrive in any order, and again; a record that *)
(* is replaced in the stream is not given back.                            *)
RebuildWrite(p) ==
  LET n == Size[clock + 1]
      t == Take(alloc, n)
  IN  /\ pc = "idle" /\ rb.on /\ clock < MaxWrites
      /\ disk' = Write(disk, PageRec(t.off, n, p, clock + 1))
      /\ alloc' = t.a
      /\ rb' = [rb EXCEPT !.tab[p] = [off |-> t.off, len |-> n]]
      /\ dirty' = TRUE
      /\ staged' = Image(ChunkCount(rb'), [staged.val EXCEPT ![p] = clock + 1])
      /\ clock' = clock + 1
      /\ UNCHANGED <<dur, slot, slotDur, mode, hdr, which, tab, count, pc, cm, pack,
                     settled, leaky, faults, crashes>>

(* zctr_truncate during a rebuild only remembers the size. *)
RebuildTruncate(n) ==
  /\ pc = "idle" /\ rb.on /\ rb.count = -1 /\ Placed(rb.tab) # {}
  /\ rb' = [rb EXCEPT !.count = n]
  /\ staged' = Image(n, staged.val)
  /\ UNCHANGED <<disk, dur, slot, slotDur, mode, hdr, which, tab, count, alloc, dirty, pc,
                 cm, pack, settled, leaky, clock, faults, crashes>>

(* The transaction ends (zvUnlock) with nothing in the stream, or syncs an *)
(* incomplete one: the stream is forgotten; of a conversion nothing stays. *)
RebuildAbandon ==
  /\ pc = "idle" /\ rb.on /\ (~dirty \/ ~Complete(rb))
  /\ rb' = NoRebuild
  /\ alloc' = IF mode = "plain" THEN NewAlloc ELSE Load(disk, hdr)
  /\ dirty' = (dirty /\ mode = "container")
  /\ staged' = settled
  /\ UNCHANGED <<disk, dur, slot, slotDur, mode, hdr, which, tab, count, pc, cm, pack,
                 settled, leaky, clock, faults, crashes>>

----------------------------------------------------------------------------
(* The commit (commit_once) *)

(* Everything written before the data barrier, in the code's order:        *)
(* release, trim, compact, give up the old lists and root, place the new   *)
(* root and the lists, cut the file.                                       *)
\* Mutant: the extents this commit gives up may be used by this commit.
Opened_early(gate) ==
  LET a == IF rb.on THEN [ResetSpan(alloc, 1, rb.base, alloc.eof, TxnOf) EXCEPT !.append = FALSE]
           ELSE alloc
  IN  Trim(IF gate THEN Release(a, TxnOf) ELSE a)

Opened(gate) ==
  LET a == IF rb.on THEN [ResetSpan(alloc, 1, rb.base, alloc.eof, TxnOf) EXCEPT !.append = FALSE]
           ELSE alloc
  IN  Trim(IF gate THEN Release(a, hdr.txn) ELSE a)

WalkParses(a) == rb.on \/ a.free = {} \/ RunsParse(a, disk)

Moved(a) == IF rb.on THEN [a |-> a, disk |-> disk, tab |-> rb.tab, moved |-> 0]
            ELSE Compact(a, disk, tab, hdr.root, TxnOf)

Committed(c) ==
  LET n == IF rb.on THEN ChunkCount(rb) ELSE count
  IN  Laid(c, Placement(IF rb.on THEN c.a ELSE OldLists(c.a, hdr)), n,
           [p \in Pages |-> IF p <= n THEN c.tab[p] ELSE Absent], TxnOf)

(* What the stream placed and the new map does not name is named nowhere:  *)
(* an earlier record of a page, a page cut off, the gap before the hole.   *)
StreamLoses ==
  UNION {Ext(rb.tab[p].off, rb.tab[p].len) : p \in 1 .. ChunkCount(rb)}
    # (rb.base .. alloc.eof - 1) \ HoleSet

Prepare(gate) ==
  \E a \in {Opened(gate)} :
    /\ WalkParses(a)
    /\ \E w \in {Committed(Moved(a))} :
         /\ disk' = w.disk /\ alloc' = w.a /\ tab' = w.tab /\ count' = w.count
         /\ cm' = [hdr |-> w.hdr, gate |-> gate, moved |-> w.moved, before |-> alloc.eof]
    /\ pc' = "written"
    /\ leaky' = (leaky \/ (rb.on /\ StreamLoses))
    /\ UNCHANGED <<dur, slot, slotDur, mode, hdr, which, dirty, rb, pack, staged,
                   settled, clock, faults, crashes>>

(* zctr_sync of staged changes, from xSync or from the end of the          *)
(* transaction.  A rebuild runs under the EXCLUSIVE lock, so its gate is   *)
(* open; otherwise a reader of the write-ahead log may have closed it.     *)
SyncDirty(gate) ==
  /\ pc = "idle" /\ dirty /\ TxnOf <= MaxTxn
  /\ rb.on => gate /\ Complete(rb)
  /\ Prepare(gate)

(* zcompact_full *)
PackPass == pc = "pack" /\ Prepare(TRUE)

SyncClean ==
  /\ pc = "idle" /\ ~dirty /\ (dur # disk \/ slotDur # slot)
  /\ dur' = disk /\ slotDur' = slot
  /\ UNCHANGED <<disk, slot, mode, hdr, which, tab, count, alloc, dirty, rb, pc, cm, pack,
                 staged, settled, leaky, clock, faults, crashes>>

Target == IF which = 0 THEN 1 ELSE 0
FirstCopy == IF mode = "plain" THEN 1 ELSE Target

(* The data barrier, then the header to the older copy; a conversion       *)
(* writes copy B first and has a barrier between the two.                  *)
Barrier ==
  /\ pc = "written"
  /\ dur' = disk /\ slotDur' = slot
  /\ slot' = [slot EXCEPT ![FirstCopy] = cm.hdr]
  /\ pc' = IF mode = "plain" THEN "copied" ELSE "flipped"
  /\ UNCHANGED <<disk, mode, hdr, which, tab, count, alloc, dirty, rb, cm, pack, staged,
                 settled, leaky, clock, faults, crashes>>

SecondCopy ==
  /\ pc = "copied"
  /\ slotDur' = slot
  /\ slot' = [slot EXCEPT ![0] = cm.hdr]
  /\ pc' = "flipped"
  /\ UNCHANGED <<disk, dur, mode, hdr, which, tab, count, alloc, dirty, rb, cm, pack,
                 staged, settled, leaky, clock, faults, crashes>>

StallLimit == 4
AfterPass(eof) ==
  LET shrank   == eof < pack.last
      stall    == IF shrank THEN 0 ELSE pack.stall + 1
      progress == cm.moved > 0 \/ eof < cm.before
  IN  IF progress /\ stall < StallLimit
      THEN [on |-> TRUE, stall |-> stall, last |-> IF shrank THEN eof ELSE pack.last]
      ELSE NoPack

(* The flip barrier: the commit has landed, and only now may what it gave  *)
(* up be reused.  After a rebuild's commit the pack passes follow.         *)
Land ==
  /\ pc = "flipped"
  /\ slotDur' = slot
  /\ hdr' = cm.hdr /\ which' = Target /\ mode' = "container"
  /\ alloc' = IF cm.gate THEN Release(alloc, TxnOf) ELSE alloc
  /\ dirty' = FALSE /\ rb' = NoRebuild /\ cm' = NoCommit
  /\ settled' = staged
  /\ pack' = IF rb.on THEN [on |-> TRUE, stall |-> 0, last |-> alloc.eof]
             ELSE IF pack.on THEN AfterPass(alloc.eof) ELSE NoPack
  /\ pc' = IF pack'.on THEN "pack" ELSE "idle"
  /\ UNCHANGED <<disk, dur, slot, tab, count, staged, leaky, clock, faults, crashes>>

----------------------------------------------------------------------------
(* Failures *)

(* zctr_sync_abort: back to whichever header reads as valid.  A file that  *)
(* never had one becomes an empty container again, or, while converting,   *)
(* stays the plain database it is.                                         *)
Adopt(d, s) ==
  LET k == Picked(s)
      h == IF k = -1 THEN ZeroHdr ELSE s[k]
  IN  /\ hdr' = h /\ which' = k /\ count' = h.count
      /\ tab' = IF k = -1 THEN Empty ELSE d[h.root].tab
      /\ alloc' = IF k = -1 THEN NewAlloc ELSE Load(d, h)
      /\ mode' = IF k = -1 /\ s[0] = PlainHdr THEN "plain" ELSE "container"
      /\ settled' = FileImage(d, s) /\ staged' = settled'
      /\ dirty' = FALSE /\ rb' = NoRebuild /\ cm' = NoCommit /\ pack' = NoPack
      /\ pc' = "idle"

FailOnce == faults < MaxFaults /\ faults' = faults + 1

(* A write, the cut or the data barrier fails. *)
PrepareFails ==
  /\ pc = "written" /\ FailOnce
  /\ Adopt(disk, slot)
  /\ UNCHANGED <<disk, dur, slot, slotDur, leaky, clock, crashes>>

(* The compaction's walk meets bytes that are no record: the commit fails, *)
(* or the pack loop ends.                                                  *)
WalkFails(gate) ==
  /\ \/ pc = "idle" /\ dirty /\ ~rb.on /\ TxnOf <= MaxTxn
     \/ pc = "pack" /\ gate
  /\ ~WalkParses(Opened(gate))
  /\ Adopt(disk, slot)
  /\ UNCHANGED <<disk, dur, slot, slotDur, leaky, clock, faults, crashes>>

(* A header copy can tear where another record of the file's state stays   *)
(* readable.  The first header of an empty file is taken to land whole.    *)
MayTear(s, i) == Valid(s[1 - i]) \/ s[0] = PlainHdr

HeaderWriteFails ==
  /\ pc = "written" /\ FailOnce
  /\ dur' = disk /\ slotDur' = slot
  /\ slot' \in {slot} \cup {[slot EXCEPT ![i] = TornHdr] :
                              i \in {j \in {FirstCopy} : MayTear(slot, j)}}
  /\ Adopt(disk, slot')
  /\ UNCHANGED <<disk, leaky, clock, crashes>>

(* A barrier after a header fails: the header has landed, or it is lost    *)
(* from the cache too.  See the README for what a cache that keeps a       *)
(* header it could not write would do.                                     *)
FlipFails ==
  /\ pc \in {"copied", "flipped"} /\ FailOnce
  /\ \/ slotDur' = slot /\ slot' = slot
     \/ slot' = slotDur /\ slotDur' = slotDur
  /\ Adopt(disk, slot')
  /\ UNCHANGED <<disk, dur, leaky, clock, crashes>>

Unsynced == {g \in Granules : disk[g] # dur[g]}
CopyAfterCrash(i) ==
  {slot[i], slotDur[i]} \cup
  IF slot[i] # slotDur[i] /\ MayTear(slotDur, i) THEN {TornHdr} ELSE {}
SlotsAfterCrash == {[i \in {0, 1} |-> IF i = 0 THEN a ELSE b] :
                      a \in CopyAfterCrash(0), b \in CopyAfterCrash(1)}

(* Power is lost: of the unsynced writes any subset is on the medium.      *)
(* Recoverable looks at all of them; the run goes on from none or all.     *)
Crash ==
  /\ crashes < MaxCrashes /\ crashes' = crashes + 1
  /\ \E s \in SlotsAfterCrash, kept \in {{}, Unsynced} :
       LET d == [g \in Granules |-> IF g \in kept THEN disk[g] ELSE dur[g]]
           r == IF Picked(s) = -1 /\ s[0] = PlainHdr
                THEN [i \in {0, 1} |-> PlainHdr]         \* SQLite's hot journal restores page 1
                ELSE s
       IN  /\ disk' = d /\ dur' = d /\ slot' = r /\ slotDur' = r
           /\ Adopt(d, r)
  /\ UNCHANGED <<leaky, clock, faults>>

Next ==
  \/ \E p \in Pages : WritePage(p) \/ WriteFails(p) \/ RebuildWrite(p)
  \/ \E n \in 0 .. NPages - 1 : Truncate(n)
  \/ \E n \in Pages : RebuildTruncate(n)
  \/ BeginOverwrite \/ RebuildAbandon
  \/ \E g \in BOOLEAN : SyncDirty(g) \/ WalkFails(g)
  \/ SyncClean \/ PackPass
  \/ Barrier \/ SecondCopy \/ Land
  \/ PrepareFails \/ HeaderWriteFails \/ FlipFails
  \/ Crash

Spec == Init /\ [][Next]_vars

----------------------------------------------------------------------------
(* Properties *)

(* The images a crash at this moment could leave in the file, over every   *)
(* header outcome and every subset of the unsynced granules it refers to.  *)
Refs(d, h) == IF Whole(d, h.root, 1, "node")
              THEN {h.root, h.freeOff, h.pendOff} \cup
                   UNION {Ext(d[h.root].tab[p].off, d[h.root].tab[p].len) : p \in 1 .. h.count}
              ELSE {h.root}
Reach(s) ==
  IF Picked(s) # -1 THEN Refs(disk, s[Picked(s)]) \cup Refs(dur, s[Picked(s)])
  ELSE IF s[0] = PlainHdr THEN 1 .. PlainEof - 1 ELSE {}
Recoverable ==
  UNION {{FileImage([g \in Granules |-> IF g \in kept THEN disk[g] ELSE dur[g]], s) :
             kept \in SUBSET (Unsynced \cap Reach(s))} : s \in SlotsAfterCrash}

AllImages == [count : 0 .. NPages, val : [Pages -> 0 .. MaxWrites + 1]]
File == INSTANCE AtomicFile WITH Images <- AllImages, maybe <- Recoverable

(* The commit protocol is atomic: what a crash can leave is the last       *)
(* acknowledged image, or while a header is being written the new one.     *)
CommitIsAtomic == File!Init /\ [][File!Next]_<<staged, settled, Recoverable>>

(* zctr_read answers with what the pager wrote last, whatever the commit,  *)
(* the compaction or a failed write did to the records in between; during  *)
(* a rebuild the stream hides the committed pages it has already replaced. *)
InStream(p) == rb.on /\ rb.tab[p] # Absent
Entry(p)    == IF InStream(p) THEN rb.tab[p] ELSE tab[p]
Wrote(p)    == IF rb.on /\ ~InStream(p) THEN settled.val[p] ELSE staged.val[p]

ReadsWhatWasWritten ==
  pc = "idle" /\ mode = "container" =>
    /\ ~rb.on => count = staged.count
    /\ \A p \in 1 .. count :
         ~InStream(p) \/ p <= staged.count =>
           /\ Serves(disk, [q \in Pages |-> Entry(q)], p)
           /\ ValAt(disk, Entry(p)) = Wrote(p)

(* Between commits every granule below eof is in use, free or pending, and *)
(* only one of them; the lock hole is none.  A rebuild may lose space (the *)
(* history variable leaky), never hand it out twice.                       *)
SpaceIsAccounted ==
  pc \in {"idle", "pack"} /\ mode = "container" /\ ~rb.on =>
    LET used == Named(hdr, tab) \ {0}
        held == used \cup alloc.free \cup Pending(alloc)
    IN  /\ used \cap (alloc.free \cup Pending(alloc)) = {}
        /\ alloc.free \cap Pending(alloc) = {}
        /\ held \subseteq 1 .. alloc.eof - 1 /\ held \cap HoleSet = {}
        /\ ~leaky => 1 .. alloc.eof - 1 \subseteq held \cup HoleSet

(* compact.c takes every run between two free extents to be a chain of     *)
(* records: whenever a commit could start, its walk would get through.     *)
EveryRunParses ==
  pc = "pack" \/ (pc = "idle" /\ mode = "container" /\ ~rb.on) =>
    \A gate \in BOOLEAN : WalkParses(Opened(gate))

=============================================================================
