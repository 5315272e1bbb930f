--------------------------- MODULE MC_InstallLock ---------------------------
(* Model checking of InstallLock, and of the invariant its proof rests on. *)
(* Its properties are temporal too, so it declares no symmetry.            *)
EXTENDS InstallLock
=============================================================================
