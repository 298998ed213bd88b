--------------------------- MODULE MCVulkanQueue ---------------------------
(* Small instances of VulkanQueue for TLC.                                 *)
EXTENDS VulkanQueue, TLC

Symmetry == Permutations(Threads)
=============================================================================
