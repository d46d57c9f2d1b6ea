----------------------------- MODULE MCRgxExtract -----------------------------
(* Three processes extract two files each, or some of them. *)
EXTENDS RgxExtract, TLC

CONSTANTS one, two, three, f, g

Symmetric == Permutations(Process) \union Permutations(File)
================================================================================
