---------------------------- MODULE MCClassInit ----------------------------
(***************************************************************************)
(* Model-checking instance of ClassInit: java.lang.Object without an       *)
(* initializer, a class Base whose initializer needs its own subclasses    *)
(* Left and Right, a subclass of Left without an initializer of its own,   *)
(* which that of Left needs, too.                                          *)
(***************************************************************************)
EXTENDS ClassInit, TLC

CONSTANTS Object, Base, Left, Right

MCClasses == {Object, Base, Left, Right}
MCParent == Object :> NULL @@ Base :> Object @@ Left :> Base @@ Right :> Left
MCWithClinit == {Base, Left}
MCUses == [c \in MCClasses |-> CASE c = Base -> {Base, Left, Right}
                                 [] c = Left -> {Left, Right}
                                 [] OTHER -> {}]

============================================================================
