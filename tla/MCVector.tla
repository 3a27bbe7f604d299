------------------------------ MODULE MCVector ------------------------------
(***************************************************************************)
(* Two vectors and two strings in chunks of five cells or a little more,   *)
(* aligned to two: vectors made for one element, that grow twice, the last *)
(* time to more than a chunk commonly has.                                 *)
(***************************************************************************)
EXTENDS Vector

MCStrings == {<<1>>, <<2, 1>>}
=============================================================================
