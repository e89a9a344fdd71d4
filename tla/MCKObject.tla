----------------------------- MODULE MCKObject -----------------------------
(* Three node addresses and two ids: lists with head, middle and tail, two *)
(* nodes of the same id, and an id that no node has.                       *)
EXTENDS KObject

CONSTANTS n1, n2, n3, i1, i2

ThreeNodes == {n1, n2, n3}
TwoIds == {i1, i2}
=============================================================================
