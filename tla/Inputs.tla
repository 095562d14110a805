------------------------------- MODULE Inputs -------------------------------
(***************************************************************************)
(* The modules of pure translations share one variable: the input that is  *)
(* being looked at.  Each states what must hold of the inputs that are its *)
(* own; a run visits them all.                                             *)
(***************************************************************************)
VARIABLE input    \* a record; input.of names the module it is for
=============================================================================
