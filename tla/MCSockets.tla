----------------------------- MODULE MCSockets ------------------------------
(* Sockets for TLC: the first connection starts below the middle of the      *)
(* sequence numbers and counts past it, the second wraps around to zero.     *)
EXTENDS Sockets

CONSTANTS r1, r2

MCRemotes == {r1, r2}
MCIsns == <<3, 7, 1, 5>>
Symmetry == Permutations(MCRemotes)
=============================================================================
