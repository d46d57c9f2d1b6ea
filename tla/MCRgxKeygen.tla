------------------------------ MODULE MCRgxKeygen ------------------------------
(* Four runs of keygen over two paths. *)
EXTENDS RgxKeygen, TLC

CONSTANTS one, two, three, four, here, there

Symmetric == Permutations(Process) \union Permutations(Path)
================================================================================
