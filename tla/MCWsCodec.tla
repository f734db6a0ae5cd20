----------------------------- MODULE MCWsCodec -----------------------------
(***************************************************************************)
(* WsCodec on numbers around the borders of a byte and of a word.          *)
(***************************************************************************)
EXTENDS WsCodec

SomeIds == {0, 1, 2, 255, 256, 257, 258, 511, 512, 65279, 65280, 65535}
SomeLengths == {0, 1, 14, 255, 256, 257, 600, 65535}
=============================================================================
