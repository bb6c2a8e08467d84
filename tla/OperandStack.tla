---------------------------- MODULE OperandStack ----------------------------
(***************************************************************************)
(* One frame of the interpreter (interpreter.c): its operand stack, its    *)
(* locals, and the shadow bits that tell the collector and the calls which *)
(* words are references.                                                   *)
(*                                                                         *)
(* A word is known by its kind, the type a verifier of the bytecode would  *)
(* give it: an int (or a float, a byte, a return address), a reference, or *)
(* the lower or upper half of a long or double.  The bytecode is taken to  *)
(* be well typed and to respect max_stack; the guards of the opcodes say   *)
(* so.  The shadow bits are what the macros of the release build make of   *)
(* them.  stack, locals, shadow_stack and shadow_locals follow each other  *)
(* in memory, in this order: writing past one writes the next.             *)
(*                                                                         *)
(* The opcodes are grouped by what they take from the stack and put on it. *)
(* Where the frame can no longer be what the bytecode means, the thread is *)
(* followed no further: the status says why.                               *)
(***************************************************************************)
EXTENDS Integers, FiniteSets

CONSTANTS
  MaxStacks,   \* values of max_stack
  MaxLocals,   \* max_locals
  BitsPerWord  \* bits in a word of a shadow bitmap, 32 in the code

ASSUME FrameAssumption ==
  /\ MaxStacks \subseteq Nat \ {0}
  /\ MaxLocals \in Nat \ {0}
  /\ BitsPerWord \in Nat \ {0}

VARIABLES
  frame,    \* the frame
  literal,  \* the string an LDC of this method refers to
  status    \* what the thread is doing with the frame

vars == <<frame, literal, status>>

Types == {"int", "ref", "wide"}
Kinds == {"int", "ref", "low", "high"}
Locals == 0..MaxLocals - 1

\* Running its bytecode, waiting for a call, on the way to a handler, gone.
\* Refused: JERR_TYPECHECK_FAILURE, which ends the thread.  Then the ways to go astray:
\* the collector took a word for a reference that is none, missed a reference, or freed
\* the exception on its way; LDC pushed a stale pointer; local 0 was overwritten; the
\* arguments of a call were counted wrongly.
Live == {"run", "call", "throwing"}
Astray == {"stray", "missed", "freed", "stale", "overwritten", "misread"}
Statuses == Live \cup {"left", "refused"} \cup Astray

Slots(t) == IF t = "wide" THEN 2 ELSE 1

\* The bits the shadow bitmap of a stack of m words has: whole words of it.
ShadowBits(m) == BitsPerWord * ((m + BitsPerWord - 1) \div BitsPerWord)

Frames(m) ==
  [max : {m}, sp : 0..m, stack : [0..m - 1 -> Kinds \cup {"dead"}],
   shadow : SUBSET (0..ShadowBits(m) - 1),
   locals : [Locals -> Kinds \cup {"thrown"}],
   shadowLocals : SUBSET Locals]

----------------------------------------------------------------------------
(* The macros *)

\* SHADOW_CLEAR_REF and SHADOW_SET_REF of a bit of the operand stack.  One bit past
\* the bitmap is the first bit of the locals' bitmap.
ClearBit(f, i) ==
  IF i < ShadowBits(f.max)
  THEN [f EXCEPT !.shadow = @ \ {i}]
  ELSE [f EXCEPT !.shadowLocals = @ \ {i - ShadowBits(f.max)}]

\* Mutant: the bit of the next word is set.
SetNextBit(f, i) == [f EXCEPT !.shadow = @ \cup {i + 1}]

SetBit(f, i) == [f EXCEPT !.shadow = @ \cup {i}]

ClearLocalBit(f, i) == [f EXCEPT !.shadowLocals = @ \ {i}]

PushWord(f, k) == [f EXCEPT !.stack[f.sp] = k, !.sp = @ + 1]

\* frame->sp -= n; what was there is dead.
Drop(f, n) ==
  [f EXCEPT !.sp = @ - n,
            !.stack = [i \in DOMAIN @ |-> IF i < f.sp - n THEN @[i] ELSE "dead"]]

\* Mutant: an int leaves the bit of the word it is pushed to alone.
PushIntBitKept(f) == PushWord(f, "int")

\* STACK_PUSH_INT and STACK_PUSH_FLOAT
PushInt(f) == PushWord(ClearBit(f, f.sp), "int")

\* STACK_PUSH_REF
PushRef(f) == PushWord(SetBit(f, f.sp), "ref")

\* STACK_PUSH_LONG and STACK_PUSH_DOUBLE clear the bit of the lower half, twice.
PushWide(f) == PushWord(PushWord(ClearBit(ClearBit(f, f.sp), f.sp), "low"), "high")

\* STACK_POP_INT, STACK_POP_FLOAT and STACK_POP_REF, and POP
PopOne(f) == ClearBit(Drop(f, 1), f.sp - 1)

\* STACK_POP_LONG and STACK_POP_DOUBLE clear the bit above the top, twice, before
\* they lower sp.
PopWide(f) == Drop(ClearBit(ClearBit(f, f.sp), f.sp), 2)

\* STACK_PUSH_GENERIC and STACK_POP_GENERIC
Push(f, t) == CASE t = "int" -> PushInt(f)
                [] t = "ref" -> PushRef(f)
                [] t = "wide" -> PushWide(f)

Pop(f, t) == IF t = "wide" THEN PopWide(f) ELSE PopOne(f)

\* The verifier knows that a value of type t is on top, that there is room for one.
OnTop(f, t) ==
  /\ f.sp >= Slots(t)
  /\ f.stack[f.sp - 1] = IF t = "wide" THEN "high" ELSE t

Room(f, t) == f.sp + Slots(t) <= f.max

\* LOCAL_STORE_*.  Half a long that is overwritten leaves an unusable word.
Halved(f, i) ==
  [f EXCEPT !.locals = [j \in Locals |->
     IF (j = i + 1 /\ @[j] = "high") \/ (j = i - 1 /\ @[j] = "low") THEN "int" ELSE @[j]]]

StoreInt(f, i) == ClearLocalBit([Halved(f, i) EXCEPT !.locals[i] = "int"], i)

StoreRef(f, i) ==
  [Halved(f, i) EXCEPT !.locals[i] = "ref", !.shadowLocals = @ \cup {i}]

StoreWide(f, i) ==
  ClearLocalBit(ClearLocalBit(
    [Halved(Halved(f, i + 1), i) EXCEPT !.locals[i] = "low", !.locals[i + 1] = "high"], i), i + 1)

StoreLocal(f, t, i) == CASE t = "int" -> StoreInt(f, i)
                         [] t = "ref" -> StoreRef(f, i)
                         [] t = "wide" -> StoreWide(f, i)

HoldsLocal(f, t, i) ==
  IF t = "wide" THEN i + 1 \in Locals /\ f.locals[i] = "low" /\ f.locals[i + 1] = "high"
  ELSE f.locals[i] = t

----------------------------------------------------------------------------

TypeOK ==
  /\ \E m \in MaxStacks : frame \in Frames(m)
  /\ literal \in {"unresolved", "inPlace", "moved"}
  /\ status \in Statuses

\* interpreter_frame_push: all zero but for the arguments, whose bits come from
\* args_bitmap.
Entered(m, l) ==
  [max |-> m, sp |-> 0, stack |-> [i \in 0..m - 1 |-> "dead"], shadow |-> {},
   locals |-> l, shadowLocals |-> {i \in Locals : l[i] = "ref"}]

Init ==
  /\ \E m \in MaxStacks, l \in [Locals -> Kinds] :
       /\ \A i \in Locals : /\ l[i] = "low" => i + 1 \in Locals /\ l[i + 1] = "high"
                            /\ l[i] = "high" => i - 1 \in Locals /\ l[i - 1] = "low"
       /\ frame = Entered(m, l)
  /\ literal \in {"unresolved", "inPlace", "moved"}
  /\ status = "run"

\* An opcode that makes f of the frame and goes on.
Becomes(f) == frame' = f /\ UNCHANGED <<literal, status>>

----------------------------------------------------------------------------
(* Opcodes by their effect on the stack *)

\* ILOAD, FLOAD, LLOAD, DLOAD, ALOAD
Load(t, i) ==
  /\ status = "run"
  /\ HoldsLocal(frame, t, i) /\ Room(frame, t)
  /\ Becomes(Push(frame, t))

\* ISTORE, FSTORE, LSTORE, DSTORE, ASTORE
Store(t, i) ==
  /\ status = "run"
  /\ OnTop(frame, t)
  /\ t = "wide" => i + 1 \in Locals
  /\ Becomes(StoreLocal(Pop(frame, t), t, i))

\* IINC
Increment(i) ==
  /\ status = "run"
  /\ HoldsLocal(frame, "int", i)
  /\ Becomes(StoreInt(frame, i))

Constants == Types            \* ACONST_NULL, ICONST, LCONST, FCONST, DCONST, BIPUSH, SIPUSH
Literals == Types             \* LDC of a number or a class
StaticReads == Types          \* GETSTATIC
NewObjects == {"ref"}         \* NEW
ReturnAddresses == {"int"}    \* JSR

Pushing == Constants \cup Literals \cup StaticReads \cup NewObjects \cup ReturnAddresses

PushOpcode(t) ==
  /\ status = "run"
  /\ Room(frame, t)
  /\ Becomes(Push(frame, t))

StaticWrites == Types                                        \* PUTSTATIC
ZeroBranches == {"int"}                                      \* IFEQ and its like
NullBranches == {"ref"}                                      \* IFNULL, IFNONNULL
Pops == {"int", "ref"}                                       \* POP

Discarding == StaticWrites \cup ZeroBranches \cup NullBranches \cup Pops

Negations == {<<t, t>> : t \in {"int", "wide"}}
Conversions == ({"int", "wide"}) \X ({"int", "wide"})
FieldReads == {"ref"} \X Types                               \* GETFIELD
ClassTests == {<<"ref", "int">>, <<"ref", "ref">>}           \* INSTANCEOF, CHECKCAST
NewArrays == {<<"int", "ref">>}                              \* NEWARRAY, ANEWARRAY
ArrayLengths == {<<"ref", "int">>}

Unary == Negations \cup Conversions \cup FieldReads \cup ClassTests \cup NewArrays
         \cup ArrayLengths

Arithmetic == {<<t, t, t>> : t \in {"int", "wide"}}
Shifts == {<<t, "int", t>> : t \in {"int", "wide"}}
Bitwises == {<<t, t, t>> : t \in {"int", "wide"}}
Comparisons == {<<t, t, "int">> : t \in {"int", "wide"}}
ArrayLoads == {<<"ref", "int", t>> : t \in Types}

Binary == Arithmetic \cup Shifts \cup Bitwises \cup Comparisons \cup ArrayLoads

IntBranches == {<<"int", "int">>}                            \* IF_ICMP*
RefBranches == {<<"ref", "ref">>}                            \* IF_ACMP*
FieldWrites == {"ref"} \X Types                              \* PUTFIELD
PairDiscarding == IntBranches \cup RefBranches \cup FieldWrites

ArrayStores == {<<"ref", "int", t>> : t \in Types}

DiscardOpcode(t) ==
  /\ status = "run"
  /\ OnTop(frame, t)
  /\ Becomes(Pop(frame, t))

UnaryOpcode(t, result) ==
  /\ status = "run"
  /\ OnTop(frame, t)
  /\ Room(Pop(frame, t), result)
  /\ Becomes(Push(Pop(frame, t), result))

PairDiscardOpcode(t, u) ==
  /\ status = "run"
  /\ OnTop(frame, u)
  /\ OnTop(Pop(frame, u), t)
  /\ Becomes(Pop(Pop(frame, u), t))

BinaryOpcode(t, u, result) ==
  /\ status = "run"
  /\ OnTop(frame, u)
  /\ OnTop(Pop(frame, u), t)
  /\ Becomes(Push(Pop(Pop(frame, u), t), result))

ArrayStoreOpcode(t, u, v) ==
  /\ status = "run"
  /\ OnTop(frame, v)
  /\ OnTop(Pop(frame, v), u)
  /\ OnTop(Pop(Pop(frame, v), u), t)
  /\ Becomes(Pop(Pop(Pop(frame, v), u), t))

\* POP2 clears the bits of both words; they are two ints or references, or a long.
Pop2 ==
  /\ status = "run"
  /\ frame.sp >= 2
  /\ frame.stack[frame.sp - 2] # "high"
  /\ Becomes(ClearBit(ClearBit(Drop(frame, 2), frame.sp - 2), frame.sp - 1))

\* DUP, DUP_X1, DUP_X2, DUP2, DUP2_X1, DUP2_X2 and SWAP replace the top n words by
\* copies of them, numbered from the top.
Orders == {<<1, <<1, 1>>>>, <<2, <<1, 2, 1>>>>, <<3, <<1, 3, 2, 1>>>>,
           <<2, <<2, 1, 2, 1>>>>, <<3, <<2, 1, 3, 2, 1>>>>, <<4, <<2, 1, 4, 3, 2, 1>>>>,
           <<2, <<1, 2>>>>}

OrderLength(order) == CHOOSE k \in 2..6 : DOMAIN order = 1..k

\* The word that ends up at index i.
SourceOf(f, n, order, i) == f.sp - order[i - (f.sp - n) + 1]

\* Mutant: the words are copied without their bits.
UnmovedBits(f, n, order) == f.shadow

MovedBits(f, n, order) ==
  LET new == f.sp - n .. f.sp - n + OrderLength(order) - 1
  IN  (f.shadow \ new) \cup {i \in new : SourceOf(f, n, order, i) \in f.shadow}

Rearranged(f, n, order) ==
  LET top == f.sp - n + OrderLength(order)
  IN  [f EXCEPT !.sp = top,
                !.stack = [i \in DOMAIN @ |->
                   IF i \in f.sp - n .. top - 1 THEN @[SourceOf(f, n, order, i)] ELSE @[i]],
                !.shadow = MovedBits(f, n, order)]

\* No long is cut in two.
WellPaired(f) ==
  \A i \in 0..f.sp - 1 :
    /\ f.stack[i] = "low" => i + 1 < f.sp /\ f.stack[i + 1] = "high"
    /\ f.stack[i] = "high" => i > 0 /\ f.stack[i - 1] = "low"

Rearrange(n, order) ==
  /\ status = "run"
  /\ frame.sp >= n
  /\ frame.sp - n + OrderLength(order) <= frame.max
  /\ WellPaired(Rearranged(frame, n, order))
  /\ Becomes(Rearranged(frame, n, order))

\* MONITORENTER and MONITOREXIT test the bit and lower sp.
MonitorOpcode ==
  /\ status = "run"
  /\ OnTop(frame, "ref")
  /\ IF frame.sp - 1 \in frame.shadow
     THEN Becomes(Drop(frame, 1))
     ELSE status' = "refused" /\ UNCHANGED <<frame, literal>>

\* LDC of a string resolves the symbol; the string, fresh from its constructor, may
\* have been moved by a collection of stringpool_get_java behind its back.  A resolved
\* symbol points to the object, and LDC pushes what the object's first word points to:
\* list.next, the object itself as long as it stays where it was linked to itself.
LoadLiteral ==
  /\ status = "run"
  /\ Room(frame, "ref")
  /\ \/ /\ literal \in {"unresolved", "inPlace"}
        /\ literal' = "inPlace"
        /\ frame' = Push(frame, "ref")
        /\ UNCHANGED status
     \/ /\ literal \in {"unresolved", "moved"}
        /\ status' = "stale"
        /\ UNCHANGED <<frame, literal>>

----------------------------------------------------------------------------
(* Calls, returns, exceptions *)

\* The top n words can be the arguments of a method: no long is cut in two.
Arguments(n) == n <= frame.sp /\ (n > 0 => frame.stack[frame.sp - n] # "high")

\* method->args_slots: parse_method_descriptor counts two words for an array of longs or
\* doubles.  wide is where such arrays are among the top n words.
ArgsSlots(n, wide) == n + Cardinality(wide)

\* method->args_bitmap, by generate_method_locals_bitmap
ArgsBitmap(n) == {i \in 0..n - 1 : frame.stack[frame.sp - n + i] = "ref"}

\* Mutant: the bits one word above are compared.
CheckArgumentsAbove(n) ==
  \A i \in 0..n - 1 : frame.sp - n + i + 1 \in frame.shadow <=> i \in ArgsBitmap(n)

\* check_arguments
CheckArguments(n) ==
  \A i \in 0..n - 1 : frame.sp - n + i \in frame.shadow <=> i \in ArgsBitmap(n)

\* INVOKESPECIAL, INVOKESTATIC, INVOKEVIRTUAL, INVOKEINTERFACE of a bytecode method.  If
\* the arguments are counted wrongly, the bits of other words are compared, and the call
\* is refused or takes words of the caller with it.
Invoke(n, wide) ==
  /\ status = "run"
  /\ Arguments(n)
  /\ UNCHANGED literal
  /\ IF ArgsSlots(n, wide) # n
     THEN status' = "misread" /\ UNCHANGED frame
     ELSE IF CheckArguments(n)
     THEN status' = "call" /\ frame' = Drop(frame, n)
     ELSE status' = "refused" /\ UNCHANGED frame

\* The callee's RETURN pops its frame.
ReturnVoid ==
  /\ status = "call"
  /\ status' = "run"
  /\ UNCHANGED <<frame, literal>>

\* IRETURN, FRETURN, LRETURN, DRETURN, ARETURN of the callee push the result here.
ReturnValue(t) ==
  /\ status = "call"
  /\ Room(frame, t)
  /\ frame' = Push(frame, t)
  /\ status' = "run"
  /\ UNCHANGED literal

\* native_method_invoke; only INVOKEVIRTUAL and INVOKEINTERFACE check its arguments.
NativeReturnsVoid(n) ==
  /\ status = "run"
  /\ Arguments(n)
  /\ Becomes(Drop(frame, n))

NativeReturns(n, t) ==
  /\ status = "run"
  /\ Arguments(n)
  /\ Room(Drop(frame, n), t)
  /\ Becomes(Push(Drop(frame, n), t))

\* A native that returns JERR_EXCEPTION has its exception pushed above the arguments,
\* and popped at exit.  If the stack is full, the word above it is local 0.
PushedAndPopped(f) ==
  IF f.sp < f.max THEN ClearBit(f, f.sp)
  ELSE ClearBit([f EXCEPT !.locals[0] = "thrown"], f.sp)

NativeThrows ==
  /\ status = "run"
  /\ frame' = PushedAndPopped(frame)
  /\ status' = "throwing"
  /\ UNCHANGED literal

\* ATHROW
Throw ==
  /\ status = "run"
  /\ OnTop(frame, "ref")
  /\ frame' = PopOne(frame)
  /\ status' = "throwing"
  /\ UNCHANGED literal

\* An opcode or a call fails with an error that has an exception class.  The exception is
\* made on the way out, by a constructor that runs above this frame.
Fault ==
  /\ status = "run"
  /\ status' = "throwing"
  /\ UNCHANGED <<frame, literal>>

\* throw_exception finds a handler here for an exception of this frame or of a callee.
Emptied(f) == PushRef(Drop(f, f.sp))

Handle ==
  /\ status \in {"throwing", "call"}
  /\ frame' = Emptied(frame)
  /\ status' = IF frame.locals[0] = "thrown" THEN "overwritten" ELSE "run"
  /\ UNCHANGED literal

\* A return, or an exception without a handler here.
Leave ==
  /\ status \in Live
  /\ status' = "left"
  /\ UNCHANGED <<frame, literal>>

----------------------------------------------------------------------------
(* A collection, as one step: this thread is at a check, in a call, blocked, or        *)
(* allocates, also for the type of a handler                                           *)

StackRoots == frame.shadow \cap 0..frame.sp - 1

\* The collector reads every word below sp with a set bit as a pointer.
TakesHalf == \E i \in StackRoots : frame.stack[i] # "ref"
Misses ==
  \/ \E i \in 0..frame.sp - 1 : frame.stack[i] = "ref" /\ i \notin frame.shadow
  \/ \E i \in Locals : frame.locals[i] = "ref" /\ i \notin frame.shadowLocals

\* The string of the LDC moves or stays; what the collector does to a frame it reads
\* wrongly may do no harm, if the half of a long is 0 or the object does not move.
Collect ==
  /\ status \in Live
  /\ \/ UNCHANGED status
     \/ TakesHalf /\ status' = "stray"
     \/ Misses /\ status' = "missed"
     \/ status = "throwing" /\ status' = "freed"
  /\ IF literal = "unresolved" THEN UNCHANGED literal ELSE literal' \in {"inPlace", "moved"}
  /\ UNCHANGED frame

----------------------------------------------------------------------------

Locally == \E t \in Types, i \in Locals : Load(t, i) \/ Store(t, i) \/ Increment(i)

Compute ==
  \/ \E t \in Pushing : PushOpcode(t)
  \/ \E t \in Discarding : DiscardOpcode(t)
  \/ \E s \in Unary : UnaryOpcode(s[1], s[2])
  \/ \E s \in PairDiscarding : PairDiscardOpcode(s[1], s[2])
  \/ \E s \in Binary : BinaryOpcode(s[1], s[2], s[3])
  \/ \E s \in ArrayStores : ArrayStoreOpcode(s[1], s[2], s[3])
  \/ Pop2
  \/ \E o \in Orders : Rearrange(o[1], o[2])
  \/ MonitorOpcode
  \/ LoadLiteral

Transfer ==
  \/ \E n \in 0..frame.max :
       \/ \E wide \in SUBSET {i \in 0..frame.sp - 1 : i >= frame.sp - n /\ frame.stack[i] = "ref"} :
            Invoke(n, wide)
       \/ NativeReturnsVoid(n)
       \/ \E t \in Types : NativeReturns(n, t)
  \/ ReturnVoid \/ (\E t \in Types : ReturnValue(t))
  \/ NativeThrows \/ Throw \/ Fault \/ Handle \/ Leave

Next == Locally \/ Compute \/ Transfer \/ Collect

Spec == Init /\ [][Next]_vars

----------------------------------------------------------------------------
(* Properties *)

\* Every reference bytecode holds has its bit, so that the collector sees and updates
\* it, through whatever opcodes, calls and handlers it came.  The exception is local 0
\* of a frame whose stack fills its bitmap: popping a long off the full stack clears
\* the bit behind the bitmap.
ReferencesAreRoots ==
  status \in Live =>
    /\ \A i \in 0..frame.sp - 1 : frame.stack[i] = "ref" => i \in frame.shadow
    /\ \A i \in Locals :
         frame.locals[i] = "ref" =>
           i \in frame.shadowLocals \/ (i = 0 /\ frame.max % BitsPerWord = 0)

\* A set bit the collector looks at is a reference's, but for the upper half of a long
\* or double: its bit is what the word's last owner left.
BitsAreReferences ==
  status \in Live =>
    /\ \A i \in StackRoots : frame.stack[i] \in {"ref", "high"}
    /\ \A i \in frame.shadowLocals : frame.locals[i] \in {"ref", "thrown"}

\* No opcode is refused for a type error the bytecode does not have, except a call one
\* of whose arguments is a long or double whose upper half has a bit left over.
RefusedForHalf ==
  status = "refused" => \E i \in StackRoots : frame.stack[i] = "high"

=============================================================================
