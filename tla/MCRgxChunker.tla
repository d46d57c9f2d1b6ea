----------------------------- MODULE MCRgxChunker -----------------------------
(* Words of three bits and a window of as many bytes, as 64 and 64 are equal. *)
EXTENDS RgxChunker, TLC

MCGear == 0 :> {0, 1} @@ 1 :> {1}
MCMask == {0, 2}
================================================================================
