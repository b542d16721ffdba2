------------------------------ MODULE MCFsCache ------------------------------
(* Instances of FsCache for TLC; the .cfg files choose the constants. *)
EXTENDS FsCache, TLC

\* Flushers, paths and values are only compared for equality.
Symmetry == Permutations(Flusher) \union Permutations(Path) \union Permutations(Value)
=============================================================================
