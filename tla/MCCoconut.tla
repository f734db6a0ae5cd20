----------------------------- MODULE MCCoconut -----------------------------
(***************************************************************************)
(* Coconut on small instances.                                             *)
(***************************************************************************)
EXTENDS Coconut, TLC

CONSTANTS s1, s2

\* Devices of one owner are interchangeable, and so are random numbers.
Symmetry == Permutations(Valid) \cup Permutations(Randoms)
=============================================================================
