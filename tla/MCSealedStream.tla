---------------------------- MODULE MCSealedStream ----------------------------
(* Values for the run of the encrypted streams. *)
EXTENDS SealedStream
CONSTANTS x, y

\* Two faults where a text fits into one frame, with or without an empty one
\* behind it, one on longer texts.
MCMaxFaults == [n \in 0..MaxText |-> IF n <= FrameSize THEN 2 ELSE 1]
=============================================================================
