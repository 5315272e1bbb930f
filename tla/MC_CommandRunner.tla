-------------------------- MODULE MC_CommandRunner --------------------------
(* Model checking of CommandRunner.                                        *)
EXTENDS CommandRunner
=============================================================================
