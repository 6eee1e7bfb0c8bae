---------------------------- MODULE MCAssetCache ----------------------------
(* Instances of AssetCache: a small asset and one of two blocks.             *)
EXTENDS AssetCache, TLC

CONSTANTS p1, p2

MCSize == (1 :> 2) @@ (2 :> 1)

\* Which process is which does not matter to what is safe.
Alike == Permutations(Procs)
=============================================================================
