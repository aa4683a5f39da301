------------------------------ MODULE Lineage ------------------------------
(***************************************************************************)
(* What Update promises its caller, whatever road it takes and wherever a  *)
(* call is interrupted: the build in use is always one that was published, *)
(* it only ever moves to content at least as late, and losing track of it  *)
(* means starting over, never holding something else.                      *)
(***************************************************************************)
EXTENDS Naturals

CONSTANTS Builds, Days, None

VARIABLES released,  \* the content day of each build published so far
          held       \* the build in use, None when none is

Init == released = [b \in {} |-> 0] /\ held = None

Publish ==
  /\ \E b \in Builds \ DOMAIN released, d \in Days :
       released' = [x \in DOMAIN released \cup {b} |-> IF x = b THEN d ELSE released[x]]
  /\ UNCHANGED held

Move ==
  /\ held' \in DOMAIN released
  /\ held # None => released[held'] >= released[held]
  /\ UNCHANGED released

Lose ==
  /\ held' = None
  /\ UNCHANGED released

Next == Publish \/ Move \/ Lose

Spec == Init /\ [][Next]_<<released, held>>

=============================================================================
