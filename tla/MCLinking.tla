------------------------------ MODULE MCLinking ------------------------------
(***************************************************************************)
(* Model-checking instance of Linking: a main class, two classes and three *)
(* interfaces over java/lang/Object and java/lang/Class.                  *)
(***************************************************************************)
EXTENDS Linking

Method(name) == [name |-> name, virtual |-> TRUE]
Private(name) == [name |-> name, virtual |-> FALSE]
Field(size) == [size |-> size, static |-> FALSE]
Static(size) == [size |-> size, static |-> TRUE]

ClassFile(super, ifaces, methods, fields) ==
  [super |-> super, ifaces |-> ifaces, kind |-> "class", methods |-> methods, fields |-> fields]

InterfaceFile(ifaces, methods) ==
  [super |-> Object, ifaces |-> ifaces, kind |-> "interface", methods |-> methods, fields |-> <<>>]

\* Object has a method to override, I one to implement.  A or B may lack it, as an abstract
\* class may.  The main class needs A, or I, or neither.
ClassWorlds ==
  {[n \in {Object, JlClass, "Main", "A", "B", "I", "J", "K"} |->
      CASE n = Object -> ClassFile(NoName, <<>>, <<Private("<init>"), Method("toString")>>, <<>>)
        [] n = JlClass -> ClassFile(Object, <<>>, <<>>, <<Field(4)>>)
        [] n = "I" -> InterfaceFile(<<>>, <<Method("run")>>)
        [] n = "J" -> InterfaceFile(<<"I">>, <<>>)
        [] n = "K" -> InterfaceFile(k, <<Method("toString"), Method("go")>>)
        [] n = "A" -> ClassFile(Object, a, <<Private("go"), Method("run")>>, <<Static(4), Field(8)>>)
        [] n = "B" -> ClassFile(b[1], b[2], bm, <<Field(4), Field(4)>>)
        [] n = "Main" -> ClassFile(main[1], main[2], <<Method("run")>>, <<Field(4)>>)] :
    k \in {<<>>, <<"I">>},
    a \in {<<>>, <<"J">>},
    b \in {Object, "A"} \X {<<>>, <<"K">>, <<"K", "J">>},
    bm \in {<<Method("toString"), Method("run"), Method("go")>>, <<Method("go")>>},
    main \in {<<Object, <<>>>>, <<"A", <<"I">>>>}}

\* Interfaces that many classes share: the lists that one session leaves lead the next astray
\* or, unnoticed, past an interface.
SharedWorlds ==
  {[n \in {Object, JlClass, "Main", "A", "B", "I", "J", "K", "L"} |->
      CASE n = Object -> ClassFile(NoName, <<>>, <<>>, <<>>)
        [] n = JlClass -> ClassFile(Object, <<>>, <<>>, <<>>)
        [] n \in {"I", "L"} -> InterfaceFile(<<>>, <<>>)
        [] n = "J" -> InterfaceFile(<<"L">>, <<>>)
        [] n = "K" -> InterfaceFile(<<"L", "J", "I">>, <<>>)
        [] n = "Main" -> ClassFile(Object, <<"J">>, <<>>, <<>>)
        [] n = "A" -> ClassFile(Object, a, <<>>, <<>>)
        [] n = "B" -> ClassFile(Object, <<"K">>, <<>>, <<>>)] :
    a \in {<<"K">>, <<"I">>}}

\* An abstract class B between a private method and the public one of the same name.
PrivateWorlds ==
  {[n \in {Object, JlClass, "Main", "A", "B", "K"} |->
      CASE n = Object -> ClassFile(NoName, <<>>, <<Method("toString")>>, <<>>)
        [] n = JlClass -> ClassFile(Object, <<>>, <<>>, <<>>)
        [] n = "K" -> InterfaceFile(<<>>, <<Method("go")>>)
        [] n = "A" -> ClassFile(Object, <<>>, <<Private("go")>>, <<>>)
        [] n = "B" -> ClassFile("A", <<"K">>, <<>>, <<>>)
        [] n = "Main" -> ClassFile("B", <<>>, <<Method("go")>>, <<>>)]}

AllWorlds == ClassWorlds \cup SharedWorlds \cup PrivateWorlds

=============================================================================
