----------------------------- MODULE AtomicFile -----------------------------
(***************************************************************************)
(* What the compressed container promises to the pager above it: the file  *)
(* changes from one whole image to the next and to nothing else, whatever  *)
(* fails and whenever the machine stops.                                   *)
(*                                                                         *)
(*   staged   the image the open transaction has built                     *)
(*   settled  the image the file is known to hold                          *)
(*   maybe    every image a crash now could leave in the file              *)
(***************************************************************************)
CONSTANT Images

VARIABLES staged, settled, maybe

fileVars == <<staged, settled, maybe>>

Init == /\ settled \in Images
        /\ staged = settled
        /\ maybe = {settled}

Stage(before, after) ==           \* only a transaction that has not started to commit
  before = {settled} /\ after = before /\ staged' \in Images /\ UNCHANGED settled

Attempt(before, after) ==         \* from here a crash leaves the old image or the new one
  before = {settled} /\ after = {settled, staged} /\ UNCHANGED <<staged, settled>>

Harden(before, after) ==          \* the new image can no longer be lost
  staged \in before /\ after = {staged} /\ UNCHANGED <<staged, settled>>

Settle(before, after) ==          \* acknowledged, given up, or decided by a crash
  settled' \in before /\ staged' = settled' /\ after = {settled'}

Next == LET before == maybe
            after  == maybe'
        IN  \/ Stage(before, after) \/ Attempt(before, after)
            \/ Harden(before, after) \/ Settle(before, after)

Spec == Init /\ [][Next]_fileVars
=============================================================================
