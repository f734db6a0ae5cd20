-------------------------- MODULE MCDeviceRegistry --------------------------
(***************************************************************************)
(* DeviceRegistry on small instances.                                      *)
(***************************************************************************)
EXTENDS DeviceRegistry, TLC

\* Users are interchangeable, and so are calls and objects.
Symmetry == Permutations(User) \cup Permutations(Call) \cup Permutations(Object)
=============================================================================
