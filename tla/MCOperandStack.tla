--------------------------- MODULE MCOperandStack ---------------------------
(***************************************************************************)
(* Model-checking instance of OperandStack: a stack that fills its bitmap  *)
(* and one that does not, deep enough for DUP2_X2.                         *)
(***************************************************************************)
EXTENDS OperandStack

=============================================================================
