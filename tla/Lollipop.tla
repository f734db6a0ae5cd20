------------------------------ MODULE Lollipop ------------------------------
(***************************************************************************)
(* The versions of a DAG, in one byte (rpl-private.h:210-217,              *)
(* rpl-dag.c:91-103).  RPL_LOLLIPOP_INCREMENT masks its value, which        *)
(* nobody takes: the counter itself runs through all of its byte.          *)
(***************************************************************************)
EXTENDS Naturals

RPL_LOLLIPOP_INIT == 240

RPL_LOLLIPOP_CIRCULAR_REGION == 127

RPL_LOLLIPOP_SEQUENCE_WINDOWS == 16

RPL_LOLLIPOP_INCREMENT(v) == (v + 1) % 256

(* a is the newer one. *)
lollipop_greater_than(a, b) ==
  IF a > RPL_LOLLIPOP_CIRCULAR_REGION /\ b <= RPL_LOLLIPOP_CIRCULAR_REGION
  THEN 256 + b - a > RPL_LOLLIPOP_SEQUENCE_WINDOWS
  ELSE \/ a > b /\ a - b < RPL_LOLLIPOP_SEQUENCE_WINDOWS
       \/ a < b /\ b - a > RPL_LOLLIPOP_CIRCULAR_REGION + 1 - RPL_LOLLIPOP_SEQUENCE_WINDOWS
=============================================================================
