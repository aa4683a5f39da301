------------------------------ MODULE WalGate ------------------------------
(***************************************************************************)
(* Several connections to one compressed database in WAL mode: SQLite's    *)
(* write-ahead log and its read marks (sqlite3-binding.c) over a container *)
(* whose space is reused only when no reader needs it (vfs_shim.c,         *)
(* container.c).                                                           *)
(*                                                                         *)
(* A transaction writes one page, a frame of the log.  A reader pins the   *)
(* header it finds when it gets its lock (zctr_revalidate) and keeps that  *)
(* page map to its end.  A checkpoint copies frames into the container and *)
(* commits a generation from SQLITE_FCNTL_CKPT_DONE.  One checkpoint runs  *)
(* at a time (WAL_CKPT_LOCK), so one variable holds the connection it runs *)
(* on; every checkpoint may run on another.  The two header copies, torn   *)
(* writes and crashes are the business of module Container.                *)
(***************************************************************************)
EXTENDS Records, Sequences

CONSTANTS Readers,
          NReader,          \* WAL_NREADER, the number of read-lock slots
          MaxFrames,        \* transactions of a run
          MaxFaults

ASSUME WalAssumption ==
  /\ NReader \in Nat /\ NReader >= 2 /\ MaxFrames \in Nat
  /\ 1 .. NPages + 3 \subseteq Granules /\ NPages + 3 < Hole0   \* the database begins small

Slots   == 1 .. NReader - 1         \* slot 0 is the lock of those who ignore the log
NotUsed == MaxFrames + 1            \* READMARK_NOT_USED
None    == -1

VARIABLES
  wal,        \* the frames of the log, each a page and its content
  salt,       \* changes when the log is started again
  nBackfill,  \* pInfo->nBackfill
  mark,       \* pInfo->aReadMark
  reader,     \* the connections that read
  ck,         \* the checkpoint
  conn,       \* the container of the connection it runs on
  disk, hdr,  \* the file: its records and the header a connection would adopt
  base,       \* history: the database when the log was last started
  lost,       \* history: the pages a failed commit dropped a whole copy of
  clock, faults

vars == <<wal, salt, nBackfill, mark, reader, ck, conn, disk, hdr, base, lost, clock, faults>>

----------------------------------------------------------------------------
(* The log *)

mxFrame == Len(wal)
FramesOf(p, from, to) == {f \in from .. to : f \in DOMAIN wal /\ wal[f].page = p}
Latest(fs) == CHOOSE f \in fs : \A g \in fs : g <= f

(* The database after the first n frames. *)
ContentAt(n) ==
  [p \in Pages |-> IF FramesOf(p, 1, n) = {} THEN base[p]
                   ELSE wal[Latest(FramesOf(p, 1, n))].val]

(* What a page reads as: from the frames from .. to (walFindFrame), and    *)
(* from the container under header h when none of them holds it.           *)
PageOf(h, p) == IF Whole(disk, h.root, 1, "node") /\ Serves(disk, disk[h.root].tab, p)
                THEN ValAt(disk, disk[h.root].tab[p]) ELSE None
Seen(h, from, to) ==
  [p \in Pages |-> IF FramesOf(p, from, to) = {} THEN PageOf(h, p)
                   ELSE wal[Latest(FramesOf(p, from, to))].val]

----------------------------------------------------------------------------
(* Locks *)

Holders(s) == {r \in Readers : reader[r].slot = s}
CkptHoldsZero == ck.pc \in {"copy", "probe", "commit", "written", "flipped", "done"}

(* The gate has tried slot s, found nobody and will be used: a lock taken  *)
(* on the slot now goes unnoticed.                                         *)
Passed(s) == \/ (ck.pc = "probe" /\ s < ck.at)
             \/ (ck.pc \in {"commit", "written"} /\ ck.gate)

(* History: late, that the reader took its lock in that window; overtaken, *)
(* that a checkpoint moved nBackfill between its lock and its look at      *)
(* nBackfill, over frames that went to a newer generation than it adopted. *)
Resting == [pc |-> "idle", mx |-> 0, salt |-> 0, slot |-> None, want |-> 0, hdr |-> ZeroHdr,
            minFrame |-> 0, pick |-> 0, snap |-> Zeros, late |-> FALSE, overtaken |-> FALSE]
NoCkpt  == [pc |-> "idle", mx |-> 0, salt |-> 0, safe |-> 0, at |-> 0, gate |-> FALSE,
            todo |-> {}, ok |-> TRUE, hdr |-> ZeroHdr]

TypeOK ==
  /\ nBackfill \in 0 .. mxFrame /\ mark \in [Slots -> 0 .. NotUsed]
  /\ \A r \in Readers : /\ reader[r].pc \in {"idle", "hdr", "marked", "locked", "reading"}
                        /\ reader[r].slot \in {None} \cup (0 .. NReader - 1)
                        /\ reader[r].slot # None <=> reader[r].pc \in {"locked", "reading"}
                        /\ reader[r].slot = 0 => ~CkptHoldsZero
  /\ ck.pc \in {"idle", "scan", "copy", "probe", "commit", "written", "flipped", "done"}
  /\ ck.todo \subseteq Pages /\ ck.safe \in 0 .. MaxFrames
  /\ conn.alloc.free \subseteq Granules /\ conn.alloc.eof >= 1
  /\ 1 .. conn.alloc.eof - 1 \subseteq Granules
  /\ Reads(disk, hdr)

(* A database of one generation, its log empty. *)
FirstTab == [p \in Pages |-> [off |-> p, len |-> 1]]
FirstHdr == [txn |-> 1, root |-> NPages + 1, freeOff |-> NPages + 2, pendOff |-> NPages + 3,
             eof |-> NPages + 4, count |-> NPages]
FirstAlloc == [NewAlloc EXCEPT !.eof = NPages + 4]

Init ==
  /\ wal = <<>> /\ salt = 0 /\ nBackfill = 0 /\ base = Zeros
  /\ mark = [s \in Slots |-> IF s = 1 THEN 0 ELSE NotUsed]
  /\ reader = [r \in Readers |-> Resting] /\ ck = NoCkpt
  /\ hdr = FirstHdr
  /\ disk = [g \in Granules |-> IF g <= NPages THEN PageRec(g, 1, g, 0)
                                ELSE IF g = FirstHdr.root THEN NodeRec(g, FirstTab)
                                ELSE IF g = FirstHdr.freeOff THEN FreeRec(g, FirstAlloc)
                                ELSE IF g = FirstHdr.pendOff THEN PendRec(g, FirstAlloc)
                                ELSE Blank]
  /\ conn = [hdr |-> FirstHdr, tab |-> FirstTab, alloc |-> FirstAlloc, dirty |-> FALSE]
  /\ lost = {} /\ clock = 0 /\ faults = 0

----------------------------------------------------------------------------
(* Writers *)

(* sqlite3WalFrames of a transaction that changed page p. *)
CommitFrame(p) ==
  /\ clock < MaxFrames
  /\ clock' = clock + 1
  /\ wal' = Append(wal, [page |-> p, val |-> clock + 1])
  /\ UNCHANGED <<salt, nBackfill, mark, reader, ck, conn, disk, hdr, base, lost, faults>>

(* walRestartLog, by a writer that reads the database alone (so it holds   *)
(* slot 0) and finds nobody reading the log; the end of a TRUNCATE or      *)
(* RESTART checkpoint does the same.                                       *)
RestartLog ==
  /\ nBackfill > 0 /\ nBackfill = mxFrame /\ clock < MaxFrames
  /\ ~CkptHoldsZero
  /\ \A s \in Slots : Holders(s) = {}
  /\ wal' = <<>> /\ salt' = salt + 1 /\ nBackfill' = 0
  /\ mark' = [s \in Slots |-> IF s = 1 THEN 0 ELSE NotUsed]
  /\ base' = ContentAt(mxFrame)
  /\ UNCHANGED <<reader, ck, conn, disk, hdr, lost, clock, faults>>

----------------------------------------------------------------------------
(* Readers (walTryBeginRead).  A retry is a return to "idle". *)

SetReader(r, v) ==
  /\ reader' = [reader EXCEPT ![r] = v]
  /\ UNCHANGED <<wal, salt, nBackfill, ck, conn, disk, hdr, base, lost, clock, faults>>

ReadHeader(r) ==
  /\ reader[r].pc = "idle"
  /\ SetReader(r, [Resting EXCEPT !.pc = "hdr", !.mx = mxFrame, !.salt = salt,
                                  !.snap = ContentAt(mxFrame)])
  /\ UNCHANGED mark

SameHeader(r) == reader[r].mx = mxFrame /\ reader[r].salt = salt

(* Everything is in the database: take slot 0 and ignore the log. *)
LockZero(r) ==
  /\ reader[r].pc = "hdr" /\ nBackfill = reader[r].mx /\ ~CkptHoldsZero
  /\ SetReader(r, IF SameHeader(r)
                  THEN [reader[r] EXCEPT !.pc = "reading", !.slot = 0, !.hdr = hdr]
                  ELSE Resting)
  /\ UNCHANGED mark

(* The highest mark that is not beyond the header, in the last such slot;  *)
(* when it is lower than the header, the first slot nobody holds is given  *)
(* a mark of our own.                                                      *)
Usable(r) == {s \in Slots : mark[s] <= reader[r].mx}
Best(r) == CHOOSE s \in Usable(r) : \A t \in Usable(r) :
             mark[t] < mark[s] \/ (mark[t] = mark[s] /\ t <= s)
FreeSlots == {s \in Slots : Holders(s) = {}}

MarkSlot(r) ==
  /\ reader[r].pc = "hdr" /\ (nBackfill # reader[r].mx \/ CkptHoldsZero)
  /\ IF (Usable(r) = {} \/ mark[Best(r)] < reader[r].mx) /\ FreeSlots # {}
     THEN LET s == CHOOSE s \in FreeSlots : \A t \in FreeSlots : s <= t
          IN  /\ mark' = [mark EXCEPT ![s] = reader[r].mx]
              /\ SetReader(r, [reader[r] EXCEPT !.pc = "marked", !.pick = s,
                                                !.want = reader[r].mx])
     ELSE /\ mark' = mark
          /\ SetReader(r, IF Usable(r) = {} THEN Resting
                          ELSE [reader[r] EXCEPT !.pc = "marked", !.pick = Best(r),
                                                 !.want = mark[Best(r)]])

(* The SHARED lock on the slot, and with it (zvShmLock) the adoption of    *)
(* the header that is on disk now.                                         *)
\* Mutant: the lock is taken without looking at the header again.
LockMark_stale(r) ==
  /\ reader[r].pc = "marked"
  /\ SetReader(r, [reader[r] EXCEPT !.pc = "locked", !.slot = reader[r].pick,
                                    !.pick = 0, !.hdr = FirstHdr, !.late = Passed(reader[r].pick)])
  /\ UNCHANGED mark

LockMark(r) ==
  /\ reader[r].pc = "marked"
  /\ SetReader(r, [reader[r] EXCEPT !.pc = "locked", !.slot = reader[r].pick,
                                    !.pick = 0, !.hdr = hdr, !.late = Passed(reader[r].pick)])
  /\ UNCHANGED mark

(* Only now is nBackfill read: the frames up to it are left to the         *)
(* database.  A mark or a header that moved meanwhile means try again.     *)
BeginRead(r) ==
  /\ reader[r].pc = "locked"
  /\ SetReader(r, IF mark[reader[r].slot] = reader[r].want /\ SameHeader(r)
                  THEN [reader[r] EXCEPT !.pc = "reading", !.minFrame = nBackfill + 1]
                  ELSE Resting)
  /\ UNCHANGED mark

EndRead(r) ==
  /\ reader[r].pc = "reading"
  /\ SetReader(r, Resting)
  /\ UNCHANGED mark

----------------------------------------------------------------------------
(* The checkpoint (sqlite3WalCheckpoint, walCheckpoint) *)

SetCkpt(v) ==
  /\ ck' = v
  /\ UNCHANGED <<wal, salt, base, clock>>

BeginCkpt ==
  /\ ck.pc = "idle" /\ nBackfill < mxFrame
  /\ SetCkpt([NoCkpt EXCEPT !.pc = "scan", !.mx = mxFrame, !.salt = salt, !.safe = mxFrame,
                            !.at = 1])
  /\ UNCHANGED <<nBackfill, reader, lost, mark, conn, disk, hdr, faults>>

(* A mark below the frames to copy: if nobody holds its slot it is moved   *)
(* out of the way, otherwise the checkpoint stops at it.                   *)
ScanMark ==
  /\ ck.pc = "scan" /\ ck.at \in Slots
  /\ LET y    == mark[ck.at]
         busy == Holders(ck.at) # {}
     IN  /\ mark' = IF ck.safe > y /\ ~busy
                    THEN [mark EXCEPT ![ck.at] = IF ck.at = 1 THEN ck.safe ELSE NotUsed] ELSE mark
         /\ SetCkpt([ck EXCEPT !.at = @ + 1,
                               !.safe = IF ck.safe > y /\ busy THEN y ELSE @])
  /\ UNCHANGED <<nBackfill, reader, lost, conn, disk, hdr, faults>>

(* Slot 0 is taken exclusively, the header adopted: by the connection that *)
(* made it, which keeps its allocator as it is, or by another, which loads *)
(* the lists the header names.  A page whose latest frame lies beyond safe *)
(* is not copied at all.                                                   *)
ToCopy == {p \in Pages : LET fs == FramesOf(p, nBackfill + 1, ck.mx)
                         IN  fs # {} /\ Latest(fs) <= ck.safe}
Adopted(keep) ==
  IF keep THEN conn
  ELSE [hdr |-> hdr, tab |-> disk[hdr.root].tab, alloc |-> Load(disk, hdr), dirty |-> FALSE]

\* Mutant: without regard to the readers that trust the database alone.
StartCopy_blind ==
  /\ ck.pc = "scan" /\ ck.at = NReader
  /\ IF nBackfill < ck.safe /\ ck.salt = salt
     THEN /\ SetCkpt([ck EXCEPT !.pc = "copy", !.todo = ToCopy])
          /\ \E keep \in BOOLEAN : (keep => conn.hdr = hdr) /\ conn' = Adopted(keep)
     ELSE SetCkpt(NoCkpt) /\ UNCHANGED conn
  /\ UNCHANGED <<nBackfill, reader, lost, mark, disk, hdr, faults>>

StartCopy ==
  /\ ck.pc = "scan" /\ ck.at = NReader
  /\ IF nBackfill < ck.safe /\ Holders(0) = {} /\ ck.salt = salt
     THEN /\ SetCkpt([ck EXCEPT !.pc = "copy", !.todo = ToCopy])
          /\ \E keep \in BOOLEAN : (keep => conn.hdr = hdr) /\ conn' = Adopted(keep)
     ELSE SetCkpt(NoCkpt) /\ UNCHANGED conn
  /\ UNCHANGED <<nBackfill, reader, lost, mark, disk, hdr, faults>>

TxnOf == conn.hdr.txn + 1

(* sqlite3OsWrite of the next page: zctr_write stages it.                  *)
CopyPage ==
  /\ ck.pc = "copy" /\ ck.todo # {}
  /\ LET p == CHOOSE p \in ck.todo : \A q \in ck.todo : p <= q
         t == Take(conn.alloc, 1)
     IN  /\ disk' = Write(disk, PageRec(t.off, 1, p, wal[Latest(FramesOf(p, nBackfill + 1, ck.mx))].val))
         /\ conn' = [conn EXCEPT !.alloc = FreeEntry(t.a, conn.tab[p], TxnOf),
                                 !.tab[p] = [off |-> t.off, len |-> 1], !.dirty = TRUE]
         /\ SetCkpt([ck EXCEPT !.todo = @ \ {p}])
  /\ UNCHANGED <<nBackfill, reader, lost, mark, hdr, faults>>

(* A write fails, or the caller interrupts: what was copied so far is      *)
(* committed all the same, but nBackfill stays.  A stop before the first   *)
(* page leaves nothing behind, and is not counted.                         *)
CopyStops ==
  /\ ck.pc = "copy" /\ ck.todo # {} /\ (conn.dirty => faults < MaxFaults)
  /\ faults' = IF conn.dirty THEN faults + 1 ELSE faults
  /\ SetCkpt([ck EXCEPT !.todo = {}, !.ok = FALSE])
  /\ UNCHANGED <<nBackfill, reader, lost, mark, conn, disk, hdr>>

(* SQLITE_FCNTL_CKPT_DONE: nothing staged, nothing to commit. *)
CkptDone ==
  /\ ck.pc = "copy" /\ ck.todo = {}
  /\ SetCkpt([ck EXCEPT !.pc = IF conn.dirty THEN "probe" ELSE "done", !.at = 1, !.gate = TRUE])
  /\ UNCHANGED <<nBackfill, reader, lost, mark, conn, disk, hdr, faults>>

(* zvGateOk: slot 0 is ours exclusively; each other slot is tried in turn, *)
(* and one that somebody holds closes the gate.                            *)
ProbeSlot ==
  /\ ck.pc = "probe"
  /\ SetCkpt(IF Holders(ck.at) # {}
             THEN [ck EXCEPT !.pc = "commit", !.gate = FALSE, !.at = NReader]
             ELSE [ck EXCEPT !.at = @ + 1, !.pc = IF ck.at = NReader - 1 THEN "commit" ELSE @])
  /\ UNCHANGED <<nBackfill, reader, lost, mark, conn, disk, hdr, faults>>

(* commit_once up to its data barrier: with the gate open the generations  *)
(* up to the last are reusable; compact, place and write root and lists.   *)
Prepare ==
  /\ ck.pc = "commit"
  /\ \E a \in {Trim(IF ck.gate THEN Release(conn.alloc, conn.hdr.txn) ELSE conn.alloc)} :
     \E c \in {Compact(a, disk, conn.tab, conn.hdr.root, TxnOf)} :
     \E w \in {Laid(c, Placement(OldLists(c.a, conn.hdr)), NPages, c.tab, TxnOf)} :
       /\ disk' = w.disk
       /\ conn' = [conn EXCEPT !.alloc = w.a, !.tab = w.tab]
       /\ SetCkpt([ck EXCEPT !.pc = "written", !.hdr = w.hdr])
  /\ UNCHANGED <<nBackfill, reader, lost, mark, hdr, faults>>

(* The header is written: from here a connection that looks adopts it. *)
Flip ==
  /\ ck.pc = "written"
  /\ hdr' = ck.hdr
  /\ SetCkpt([ck EXCEPT !.pc = "flipped"])
  /\ UNCHANGED <<nBackfill, reader, lost, mark, conn, disk, faults>>

(* Behind the flip barrier, what the commit itself gave up is released too *)
(* -- on the word of the gate that was tried before the commit began.      *)
\* Mutant: released whatever the gate said.
Land_ungated ==
  /\ ck.pc = "flipped"
  /\ conn' = [conn EXCEPT !.hdr = hdr, !.dirty = FALSE, !.alloc = Release(@, TxnOf)]
  /\ SetCkpt([ck EXCEPT !.pc = "done"])
  /\ UNCHANGED <<nBackfill, reader, lost, mark, disk, hdr, faults>>

Land ==
  /\ ck.pc = "flipped"
  /\ conn' = [conn EXCEPT !.hdr = hdr, !.dirty = FALSE,
                          !.alloc = IF ck.gate THEN Release(@, TxnOf) ELSE @]
  /\ SetCkpt([ck EXCEPT !.pc = "done"])
  /\ UNCHANGED <<nBackfill, reader, lost, mark, disk, hdr, faults>>

(* The commit fails and what was staged is dropped (zctr_sync_abort).      *)
(* SQLite does not look at the result of CKPT_DONE: after a whole copy     *)
(* nBackfill moves on all the same.                                        *)
CommitFails ==
  /\ ck.pc = "written" /\ faults < MaxFaults
  /\ faults' = faults + 1
  /\ conn' = [hdr |-> hdr, tab |-> disk[hdr.root].tab, alloc |-> Load(disk, hdr), dirty |-> FALSE]
  /\ lost' = IF ck.ok THEN lost \cup ToCopy ELSE lost
  /\ SetCkpt([ck EXCEPT !.pc = "done"])
  /\ UNCHANGED <<nBackfill, reader, mark, disk, hdr>>

(* The frames up to safe are in the database, and slot 0 is let go. *)
Overtakes == [r \in Readers |->
  [reader[r] EXCEPT !.overtaken = @ \/ (reader[r].pc = "locked" /\ ck.ok /\ reader[r].hdr # hdr)]]

\* Mutant: the frames beyond a reader's mark count as copied too.
EndCkpt_all ==
  /\ ck.pc = "done"
  /\ nBackfill' = IF ck.ok THEN ck.mx ELSE nBackfill
  /\ reader' = Overtakes
  /\ SetCkpt(NoCkpt)
  /\ UNCHANGED <<lost, mark, conn, disk, hdr, faults>>

EndCkpt ==
  /\ ck.pc = "done"
  /\ nBackfill' = IF ck.ok THEN ck.safe ELSE nBackfill
  /\ reader' = Overtakes
  /\ SetCkpt(NoCkpt)
  /\ UNCHANGED <<lost, mark, conn, disk, hdr, faults>>

Next ==
  \/ \E p \in Pages : CommitFrame(p)
  \/ RestartLog
  \/ \E r \in Readers : \/ ReadHeader(r) \/ LockZero(r) \/ MarkSlot(r) \/ LockMark(r)
                        \/ BeginRead(r) \/ EndRead(r)
  \/ BeginCkpt \/ ScanMark \/ StartCopy \/ CopyPage \/ CopyStops \/ CkptDone
  \/ ProbeSlot \/ Prepare \/ Flip \/ Land \/ CommitFails \/ EndCkpt

Spec == Init /\ [][Next]_vars

----------------------------------------------------------------------------
(* Properties *)

(* A read transaction sees one snapshot from its first read to its last:   *)
(* the database as of the log header it began with, whatever checkpoints   *)
(* copy, compact, commit and recycle meanwhile -- unless it took its lock  *)
(* where the gate had already looked, or was overtaken while it started,   *)
(* and but for the pages of a failed commit.                               *)
ReadAs(v) == IF v.slot = 0 THEN [p \in Pages |-> PageOf(v.hdr, p)]
             ELSE Seen(v.hdr, v.minFrame, v.mx)

SnapshotsHold ==
  \A r \in Readers : LET v == reader[r] IN
    v.pc = "reading" /\ ~v.late /\ ~v.overtaken => \A p \in Pages \ lost : v.snap[p] = ReadAs(v)[p]

(* The same of every reader, as the comments promise: it fails. *)
EverySnapshotHolds ==
  \A r \in Readers : reader[r].pc = "reading" => reader[r].snap = ReadAs(reader[r])

(* Its space is recycled the way Generations says, for every reader that   *)
(* took its lock where the gate was still to look, whatever the lists on   *)
(* disk and the connections that load them do.  A late reader is promised  *)
(* nothing.                                                                *)
Space      == Granules \ HoleSet
Current(h) == Named(h, disk[h.root].tab)
Building   == Named(IF ck.pc \in {"written", "flipped"} THEN ck.hdr ELSE conn.hdr, conn.tab)
Spare(a)   == a.free \cup (Space \ 1 .. a.eof - 1)
Recorded   == [spare |-> Spare(Load(disk, hdr)), limbo |-> Limbo(Load(disk, hdr))]
Pinned     == [r \in Readers |-> IF reader[r].pc \in {"locked", "reading"} /\ ~reader[r].late
                                 THEN Current(reader[r].hdr) ELSE {}]
Phase      == CASE ck.pc = "probe"  -> "probing"
                [] ck.pc = "commit" -> "decided"
                [] ck.pc \in {"written", "flipped"} -> ck.pc
                [] OTHER -> "idle"
MayRecycle == ck.pc \in {"commit", "written", "flipped"} /\ ck.gate

Gens == INSTANCE Generations WITH
  cur <- hdr.txn, names <- Current(hdr), staged <- Building, spare <- Spare(conn.alloc),
  limbo <- Limbo(conn.alloc), saved <- Recorded, pinned <- Pinned, phase <- Phase,
  gate <- MayRecycle

RecyclesAsPromised == Gens!Spec

(* The log and the container together always hold every committed          *)
(* transaction: the frames nBackfill declares dispensable are in the       *)
(* generation a new reader would adopt.  Only what a failed commit dropped *)
(* after a whole copy is lost.                                             *)
NothingElseIsLost ==
  \A p \in Pages \ lost : Seen(hdr, nBackfill + 1, mxFrame)[p] = ContentAt(mxFrame)[p]

=============================================================================
