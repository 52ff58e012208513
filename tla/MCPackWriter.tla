--------------------------- MODULE MCPackWriter ---------------------------
(* Small instances of PackWriter for TLC. *)
EXTENDS PackWriter, TLC

CONSTANTS p1, p2, i1, i2, i3, i4, o1, o2, t1, t2

MCTmp == (o1 :> t1) @@ (o2 :> t2)
SoloTmp == (o1 :> t1)

File(path, size) == [path |-> path, size |-> size]

(* Nothing at all; zero-byte files only, more than one row group takes; a  *)
(* path twice; rows out of order, which only an archive gives, the first   *)
(* of them a full group and the others one together; rows that pass the    *)
(* limit together, and are more than one row group takes.                  *)
FewInputs == { <<>>,
               <<File(1, 0), File(2, 0), File(3, 0)>>,
               <<File(1, 1), File(1, 2)>>,
               <<File(2, 2), File(1, 1), File(3, 1)>>,
               <<File(1, 0), File(2, 1), File(3, 2)>> }

SharedSymmetry == Permutations({p1, p2}) \cup Permutations({i1, i2, i3, i4})

(* Outputs are alike only together with their temp names. *)
MCSymmetry ==
  SharedSymmetry \cup {(o1 :> o2) @@ (o2 :> o1) @@ (t1 :> t2) @@ (t2 :> t1)}
=============================================================================
