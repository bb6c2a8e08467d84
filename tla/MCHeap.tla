------------------------------- MODULE MCHeap -------------------------------
(***************************************************************************)
(* Model-checking instance of Heap: list nodes with one reference, and     *)
(* arrays of two; for the violation, objects with two reference fields.    *)
(***************************************************************************)
EXTENDS Heap, TLC

CONSTANTS Node, PairArray, Cell

MCKinds == {Node, PairArray}
MCWords == Node :> 1 @@ PairArray :> 2
MCRefs == Node :> {0} @@ PairArray :> {0, 1}

MCFieldKinds == {Cell}
MCFieldWords == Cell :> 2
MCFieldRefs == Cell :> {0, 1}

=============================================================================
