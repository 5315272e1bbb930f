---------------------------- MODULE MC_FirstUse ----------------------------
(* Model checking of FirstUse: the listed file has two different blocks;   *)
(* of the other catalog versions one changes only the asset's licence      *)
(* record, the other one its files.                                        *)
EXTENDS FirstUse

CONSTANTS a, b, v1, v2, v3, f1, f2
MCPinned == <<a, b>>
MCLists == [v \in Version |-> IF v = v3 THEN f2 ELSE f1]
MCBinds == [v \in Version |-> v]
=============================================================================
