---------------------------- MODULE MCRgxSignature ----------------------------
(* Two processes pack to one output, two sign it and one verifies. *)
EXTENDS RgxSignature, TLC

CONSTANTS one, two, ann, bob

Symmetric == Permutations(Process) \union Permutations(Signer)
================================================================================
