------------------------------ MODULE MCDevice ------------------------------
(* Small instances of Device for TLC.                                      *)
EXTENDS Device, TLC
=============================================================================
