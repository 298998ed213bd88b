------------------------------ MODULE MCQueue ------------------------------
(* Small instances of Queue for TLC.                                       *)
EXTENDS Queue, TLC

Symmetry == Permutations(Threads) \cup Permutations(Buffers)
              \cup Permutations(Commands)
=============================================================================
