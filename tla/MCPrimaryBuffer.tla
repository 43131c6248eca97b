--------------------------- MODULE MCPrimaryBuffer ---------------------------
EXTENDS PrimaryBuffer, TLC

(* The threads create, and release too often, alike.                       *)
ThreadSymmetry == Permutations(Threads)
=============================================================================
