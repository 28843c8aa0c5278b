----------------------------- MODULE MCCatalog -----------------------------
(* The catalog for TLC: one authored level, one id for admins' drafts, and a *)
(* few bodies of which one is cyclic, one masked and two do not fit it.      *)
EXTENDS LevelCatalog, TLC

CONSTANTS l1, l2

Symmetry == Permutations(Requests)

A(id, path, direction) == [id |-> id, path |-> path, direction |-> direction]

Line == <<A(1, <<<<0, 0, 0>>, <<0, 1, 0>>>>, "RIGHT")>>
Facing == <<A(1, <<<<0, 0, 0>>>>, "RIGHT"), A(2, <<<<0, 2, 0>>>>, "LEFT")>>
Gap == <<A(1, <<<<0, 0, 0>>, <<0, 2, 0>>>>, "RIGHT")>>

Unframed == [size |-> Absent, mask |-> Absent]

Body(arrows, frame) == [arrows |-> arrows, attempts |-> Absent, frame |-> frame]

Files == (l1 :> Body(Line, Unframed))

Bodies ==
  {Body(Line, [Unframed EXCEPT !.mask = <<<<0, 0, 0>>, <<0, 1, 0>>>>]),
   Body(Facing, Unframed), Body(Gap, Unframed)}
=============================================================================
