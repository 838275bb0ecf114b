------------------------------- MODULE Inputs -------------------------------
(***************************************************************************)
(* The functions of the program that only compute are modelled as           *)
(* operators and compared with reference definitions over bounded inputs:   *)
(* a behaviour has one state, an input of one of them.                       *)
(***************************************************************************)
VARIABLE input   \* a record; input.fn names the function
=============================================================================
