---------------------------- MODULE PathSegments ----------------------------
(* Iterator::filter, as the components use it for the segments of a path:  *)
(* s without its elements in drop, the others in their order.  A recursive *)
(* function, since what it computes is proved and not only checked.        *)
EXTENDS Naturals, Sequences

Without(s, drop) ==
  LET f[n \in 0..Len(s)] == IF n = 0 THEN <<>>
                            ELSE IF s[n] \in drop THEN f[n - 1]
                            ELSE Append(f[n - 1], s[n])
  IN  f[Len(s)]
=============================================================================
