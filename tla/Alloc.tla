------------------------------- MODULE Alloc -------------------------------
(***************************************************************************)
(* The extent allocator of the compressed container (internal/zstdvfs/     *)
(* alloc.c).  Space is counted in granules; granule 0 stands for the       *)
(* header block, so every extent offset is at least 1 and 0 can mean "no   *)
(* extent", as in the code.  The lock hole Hole0 .. Hole1-1 is the byte    *)
(* range SQLite locks: no extent may touch it.                             *)
(*                                                                         *)
(* fr[] is kept sorted and coalesced, so it is determined by the set of    *)
(* its granules: the extents are the maximal runs.  A generation gen[i] is *)
(* the set of granules that commit txn gave up.                            *)
(***************************************************************************)
EXTENDS Integers

CONSTANTS Hole0, Hole1      \* first granule of the lock hole, and the one after it

ASSUME HoleAssumption == Hole0 \in Nat /\ Hole1 \in Nat /\ 1 <= Hole0 /\ Hole0 < Hole1

HoleSet == Hole0 .. (Hole1 - 1)
Ext(off, len) == off .. (off + len - 1)

NewAlloc == [free |-> {}, pend |-> [t \in {} |-> {}], eof |-> 1, append |-> FALSE]

FrInsert(a, span) == [a EXCEPT !.free = @ \cup span]

PendAt(a, txn) == IF txn \in DOMAIN a.pend THEN a.pend[txn] ELSE {}
Pending(a) == UNION {a.pend[t] : t \in DOMAIN a.pend}
Limbo(a)   == UNION {{t} \X a.pend[t] : t \in DOMAIN a.pend}      \* with the commit that did

(* Extending over the hole skips it; what lay between eof and the hole     *)
(* becomes an ordinary free extent.                                        *)
\* Mutant: the gap is not kept.
ReserveEof_dropsGap(a, n) ==
  IF a.eof < Hole1 /\ a.eof + n > Hole0 THEN [a EXCEPT !.eof = Hole1] ELSE a

ReserveEof(a, n) ==
  IF a.eof < Hole1 /\ a.eof + n > Hole0
  THEN [a EXCEPT !.free = @ \cup (a.eof .. (Hole0 - 1)), !.eof = Hole1]
  ELSE a

Extend(a, n) ==
  LET r == ReserveEof(a, n)
  IN  [off |-> r.eof, a |-> [r EXCEPT !.eof = @ + n]]

Starts(free) == {g \in free : (g - 1) \notin free}
RunEnd(free, s) == CHOOSE e \in {g + 1 : g \in free} :
                      /\ s < e /\ e \notin free
                      /\ Ext(s, e - s) \subseteq free
Fits(free, n) == {s \in Starts(free) : Ext(s, n) \subseteq free}

(* Best fit, the lowest of equals; 0 when nothing in fr[] is large enough. *)
Peek(a, n) ==
  LET fits    == Fits(a.free, n)
      size(s) == RunEnd(a.free, s) - s
  IN  IF fits = {} THEN 0
      ELSE CHOOSE s \in fits : \A t \in fits :
             size(s) < size(t) \/ (size(s) = size(t) /\ s <= t)

Take(a, n) ==
  LET best == Peek(a, n)
  IN  IF a.append \/ best = 0 THEN Extend(a, n)
      ELSE [off |-> best, a |-> [a EXCEPT !.free = @ \ Ext(best, n)]]

Untake(a, off, n) ==
  IF off + n = a.eof THEN [a EXCEPT !.eof = off] ELSE FrInsert(a, Ext(off, n))

FreeSpan(a, span, txn) ==
  [a EXCEPT !.pend = [t \in DOMAIN a.pend \cup {txn} |->
                        IF t = txn THEN PendAt(a, txn) \cup span ELSE a.pend[t]]]

Release(a, upto) ==
  LET open == {t \in DOMAIN a.pend : upto < t}
  IN  [a EXCEPT !.free = @ \cup UNION {a.pend[t] : t \in DOMAIN a.pend \ open},
                !.pend = [t \in open |-> a.pend[t]]]

(* The rebuild's reset: everything below the appended stream becomes one   *)
(* generation, pending until the commit that supersedes it has landed.     *)
ResetSpan(a, from, to, eof, txn) ==
  LET span == Ext(from, to - from) \ HoleSet
  IN  [a EXCEPT !.free = {}, !.eof = eof,
                !.pend = IF span = {} THEN [t \in {} |-> {}] ELSE [t \in {txn} |-> span]]

(* The loop of zalloc_trim stops below everything that is free or hole;     *)
(* an eof at the far edge of the hole always steps back over it.           *)
TrimmedEof(a) ==
  LET idle == a.free \cup HoleSet
  IN  CHOOSE e \in 1 .. a.eof : /\ Ext(e, a.eof - e) \subseteq idle
                                /\ e = 1 \/ (e - 1) \notin idle

Trim(a) ==
  LET e == TrimmedEof(a)
  IN  [a EXCEPT !.eof = e, !.free = @ \ Ext(e, a.eof - e)]
=============================================================================
