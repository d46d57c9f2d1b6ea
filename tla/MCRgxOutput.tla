------------------------------ MODULE MCRgxOutput ------------------------------
(* Up to three processes pack to one output. *)
EXTENDS RgxOutput, TLC

CONSTANTS one, two, three

Symmetric == Permutations(Process)
================================================================================
