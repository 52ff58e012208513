-------------------------- MODULE MCArchiveCache --------------------------
(* Small instances of ArchiveCache for TLC. *)
EXTENDS ArchiveCache, TLC

CONSTANTS t1, t2, g1, g2, g3, c1, c2, c3, f1, f2, f3, d

MCChunk   == (g1 :> c1) @@ (g2 :> c2) @@ (g3 :> c3)
MCGroupOf == (f1 :> g1) @@ (f2 :> g2) @@ (f3 :> g3)
===========================================================================
