-------------------------------- MODULE MCPipe --------------------------------
(* Instance of Pipe: the process table entries are interchangeable. *)
EXTENDS Pipe, TLC

Symmetry == Permutations(Proc) \union Permutations(Byte)
=============================================================================
