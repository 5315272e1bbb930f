--------------------------- MODULE MC_FetchExact ---------------------------
(* Model checking of FetchExact with two mirrors.                          *)
EXTENDS FetchExact

CONSTANTS u1, u2
TwoMirrors == <<u1, u2>>
=============================================================================
