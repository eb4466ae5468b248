----------------------------- MODULE MCObjPool ------------------------------
(* ObjPool with small pools. *)
EXTENDS ObjPool, TLC

OwnerSymmetry == Permutations(Owners)

\* All objects, and the first ones.
FromTheFirst == {0} \X (1 .. count)

\* Ranges that begin anywhere.
Anywhere == {0, 1} \X {count}
=============================================================================
