----------------------------- MODULE MCSlipLine -----------------------------
(* The instance of SlipLine that TLC checks. *)
EXTENDS SlipLine

(* The first frame may be too long to copy, the third fills the ring from  *)
(* any place on, and the last is the one that begins as the third ends.    *)
MCMaxLength == <<3, 1, 5, 0>>
=============================================================================
