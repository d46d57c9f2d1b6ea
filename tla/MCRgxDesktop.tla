----------------------------- MODULE MCRgxDesktop -----------------------------
(* A window with two archive paths. *)
EXTENDS RgxDesktop

CONSTANTS left, right
================================================================================
