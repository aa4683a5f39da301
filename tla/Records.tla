------------------------------ MODULE Records ------------------------------
(***************************************************************************)
(* What a container's file is made of (container.c, map.c, compact.c): the *)
(* records, the page map, the lists a header names, the compaction that    *)
(* copies records downwards, and what a commit writes before its header.   *)
(* Pure operators over a disk, an allocator and a map; Container and       *)
(* WalGate give them a state.                                              *)
(*                                                                         *)
(* A granule of the disk holds one record, or part of one.  The page map   *)
(* is one root node, which is what the code has up to 256 pages.           *)
(***************************************************************************)
EXTENDS Alloc

CONSTANTS NPages,           \* page numbers are 1 .. NPages
          Granules          \* of the disk, which no run fills: all, or enough for TLC

ASSUME PagesAssumption == NPages \in Nat \ {0} /\ Granules \subseteq Nat \ {0}

Pages == 1 .. NPages

Blank   == [kind |-> "blank"]
PageRec(off, len, p, v)  == [kind |-> "page", off |-> off, len |-> len, page |-> p, val |-> v]
NodeRec(off, t)          == [kind |-> "node", off |-> off, len |-> 1, tab |-> t]
FreeRec(off, a)          == [kind |-> "free", off |-> off, len |-> 1, free |-> a.free]
PendRec(off, a)          == [kind |-> "pend", off |-> off, len |-> 1, pend |-> a.pend]
IsRecord(r) == r.kind \in {"page", "node", "free", "pend"}

Write(d, r) == [g \in Granules |-> IF g \in Ext(r.off, r.len) THEN r ELSE d[g]]
Whole(d, off, len, kind) ==
  /\ Ext(off, len) \subseteq Granules
  /\ d[off].kind = kind /\ d[off].off = off /\ d[off].len = len
  /\ \A g \in Ext(off, len) : d[g] = d[off]

Absent == [off |-> 0, len |-> 0]
Empty  == [p \in Pages |-> Absent]
ZeroHdr == [txn |-> 0, root |-> 0, freeOff |-> 0, pendOff |-> 0, eof |-> 0, count |-> 0]

(* What a page map names, and with the lists and the root, a generation.   *)
Span(t)     == UNION {Ext(t[p].off, t[p].len) : p \in Pages}
Named(h, t) == {h.root, h.freeOff, h.pendOff} \cup Span(t)

Image(n, v) == [count |-> n, val |-> [p \in Pages |-> IF p <= n THEN v[p] ELSE 0]]
Zeros      == [p \in Pages |-> 0]
Broken     == [count |-> -1, val |-> Zeros]

ValAt(d, e) == IF e = Absent THEN 0 ELSE d[e.off].val
Serves(d, t, p) == t[p] = Absent \/ (Whole(d, t[p].off, t[p].len, "page")
                                      /\ d[t[p].off].page = p)
ImageIn(d, n, t) == IF \A p \in 1 .. n : Serves(d, t, p)
                    THEN Image(n, [p \in Pages |-> IF p <= n THEN ValAt(d, t[p]) ELSE 0])
                    ELSE Broken

Reads(d, h) == /\ Whole(d, h.root, 1, "node")
               /\ Whole(d, h.freeOff, 1, "free") /\ Whole(d, h.pendOff, 1, "pend")
ImageAt(d, h) == IF Reads(d, h) THEN ImageIn(d, h.count, d[h.root].tab) ELSE Broken

(* zctr_load_alloc: the lists the header names.  Nothing else writes the   *)
(* file in between, so loading at once equals the code's loading on use.   *)
Load(d, h) == [free |-> d[h.freeOff].free, pend |-> d[h.pendOff].pend,
               eof |-> h.eof, append |-> FALSE]

FreeEntry(a, e, txn) == IF e = Absent THEN a ELSE FreeSpan(a, Ext(e.off, e.len), txn)

----------------------------------------------------------------------------
(* Compaction (compact.c).  Its byte budget never runs out at this size.   *)

(* The allocated region between two free extents must read as a chain of   *)
(* records; the walk starts at its first granule and ends at its last.     *)
Chained(d, from, to) ==
  LET walk[g \in Nat] ==
        IF g >= to THEN TRUE
        ELSE IF g \in HoleSet THEN walk[Hole1]
        ELSE IsRecord(d[g]) /\ d[g].off = g /\ walk[g + d[g].len]
  IN  walk[from]

RunStarts(a) == {1} \cup {RunEnd(a.free, s) : s \in Starts(a.free)}
RunsParse(a, d) ==
  \A s \in {g \in RunStarts(a) : g < a.eof /\ g \notin a.free} :
     Chained(d, s, CHOOSE e \in s + 1 .. a.eof :
                     /\ e = a.eof \/ e \in a.free
                     /\ Ext(s, e - s) \cap a.free = {})

(* The walk's order: the highest run first, upwards within a run.  todo    *)
(* are the live records it has yet to meet, free is the list as it was     *)
(* when the walk began.                                                    *)
NextLive(free, todo) ==
  LET topmost == {o \in todo : \A g \in free : o < g => \A x \in todo : x < g}
  IN  CHOOSE o \in topmost : \A x \in topmost : o <= x

(* One live record: a page with a lower gap that fits is copied there; the *)
(* root is left to the commit, which rewrites it anyway.                   *)
\* Mutant: the map still names the place the record was moved away from.
MoveRecord_unmapped(s, off, txn) ==
  LET n   == s.disk[off].len
      dst == Peek(s.a, n)
  IN  IF dst = 0 \/ dst >= off \/ s.disk[off].kind = "node" THEN s
      ELSE [s EXCEPT !.a = FreeSpan(Take(s.a, n).a, Ext(off, n), txn),
                     !.disk = Write(s.disk, PageRec(dst, n, s.disk[off].page, s.disk[off].val)),
                     !.moved = @ + 1]

MoveRecord(s, off, txn) ==
  LET n   == s.disk[off].len
      dst == Peek(s.a, n)
      p   == s.disk[off].page
  IN  IF dst = 0 \/ dst >= off THEN s
      ELSE IF s.disk[off].kind = "node" THEN [s EXCEPT !.moved = @ + 1]
      ELSE [a     |-> FreeSpan(Take(s.a, n).a, Ext(off, n), txn),
            disk  |-> Write(s.disk, PageRec(dst, n, p, s.disk[off].val)),
            tab   |-> [s.tab EXCEPT ![p] = [off |-> dst, len |-> n]],
            moved |-> s.moved + 1]

WalkOn(w, free, txn) ==
  LET off == NextLive(free, w.todo)
  IN  IF w.todo = {} THEN w
      ELSE [at |-> MoveRecord(w.at, off, txn), todo |-> w.todo \ {off}]

Compact(a, d, t, root, txn) ==
  LET start == [a |-> a, disk |-> d, tab |-> t, moved |-> 0]
      live  == ({t[p].off : p \in Pages} \cup {root}) \ {0}
      walk[n \in 0 .. NPages + 1] ==      \* after n live records
        IF n = 0 THEN [at |-> start, todo |-> live] ELSE WalkOn(walk[n - 1], a.free, txn)
  IN  IF a.free = {} THEN start ELSE walk[NPages + 1].at

----------------------------------------------------------------------------
(* What a commit writes before its header (commit_once): the lists and the *)
(* root it supersedes are given up, the new root, free list and pending    *)
(* list are placed and written, and the file is cut.                       *)

OldLists(a, h) == IF h.txn = 0 THEN a ELSE FreeSpan(a, {h.freeOff, h.pendOff, h.root}, h.txn + 1)

Placement(a) ==
  LET root == Take(a, 1)
      fl   == Take(root.a, 1)
      pl   == Take(fl.a, 1)
  IN  [root |-> root.off, freeOff |-> fl.off, pendOff |-> pl.off, a |-> pl.a]

Laid(c, o, n, t, txn) ==
  [a    |-> o.a, tab |-> t, count |-> n, moved |-> c.moved,
   disk |-> [g \in Granules |->
               IF g >= o.a.eof THEN Blank
               ELSE IF g = o.root THEN NodeRec(g, t)
               ELSE IF g = o.freeOff THEN FreeRec(g, o.a)
               ELSE IF g = o.pendOff THEN PendRec(g, o.a) ELSE c.disk[g]],
   hdr  |-> [txn |-> txn, root |-> o.root, freeOff |-> o.freeOff, pendOff |-> o.pendOff,
             eof |-> o.a.eof, count |-> n]]
=============================================================================
