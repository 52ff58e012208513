---------------------------- MODULE MCRegistry ----------------------------
(* Small instances of Registry for TLC. *)
EXTENDS Registry

CONSTANTS t1, t2, a1, a2, mem, file
=============================================================================
