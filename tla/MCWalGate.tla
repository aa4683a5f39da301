----------------------------- MODULE MCWalGate -----------------------------
(* Two pages, two readers, and two slots for their marks. *)
EXTENDS WalGate, TLC

MCGranules == 1 .. 20

Interchangeable == Permutations(Readers)
=============================================================================
