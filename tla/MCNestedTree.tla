---------------------------- MODULE MCNestedTree ----------------------------
(***************************************************************************)
(* Instances of NestedTree for TLC: paths of up to three labels, some of   *)
(* them inside others, over a level wide enough for rotations.             *)
(***************************************************************************)
EXTENDS NestedTree

NumberOrder(a, b) == a < b

WidePaths ==
  {<<>>, <<1>>, <<1, 1>>, <<1, 2>>, <<1, 3>>, <<2>>, <<2, 1>>, <<2, 1, 1>>, <<3, 1>>, <<4, 2>>, <<5>>}
=============================================================================
