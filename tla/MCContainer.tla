---------------------------- MODULE MCContainer ----------------------------
(* A disk of a few granules with the lock hole in the middle, two pages    *)
(* whose records are one or two granules long.                             *)
EXTENDS Container

MCGranules == 1 .. 18

MCSize == [n \in 1 .. MaxWrites |-> IF n % 3 = 2 THEN 2 ELSE 1]
=============================================================================
