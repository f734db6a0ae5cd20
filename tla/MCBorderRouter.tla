--------------------------- MODULE MCBorderRouter ---------------------------
(* The instance of BorderRouter that TLC checks. *)
EXTENDS BorderRouter
=============================================================================
