---------------------------- MODULE MCBottomHalf ----------------------------
(* BottomHalf with a few work items and two interrupt levels. *)
EXTENDS BottomHalf
=============================================================================
