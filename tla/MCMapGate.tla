----------------------------- MODULE MCMapGate -----------------------------
(* Small instances of MapGate for TLC.                                     *)
EXTENDS MapGate, TLC

Symmetry == Permutations(Threads)

\* Two overlapping ranges.
FewRanges == {<<0, 16>>, <<8, 24>>}
=============================================================================
