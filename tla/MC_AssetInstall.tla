-------------------------- MODULE MC_AssetInstall --------------------------
(* Model checking of AssetInstall; threads and inodes are interchangeable. *)
EXTENDS AssetInstall, TLC

Symmetry == Permutations(Proc) \union Permutations(Inode)
=============================================================================
