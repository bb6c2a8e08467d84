------------------------- MODULE OperandStackProofs -------------------------
(***************************************************************************)
(* Proofs about OperandStack for frames of any size and bitmaps of any     *)
(* word length.                                                            *)
(***************************************************************************)
EXTENDS OperandStack, TLAPS

\* What a frame in use promises the collector: the references have their bits, and the
\* other words do not, but for upper halves.
Typed(f) == \E m \in MaxStacks : f \in Frames(m)

Rooted(f) ==
  /\ \A i \in 0..f.sp - 1 : f.stack[i] = "ref" => i \in f.shadow
  /\ \A i \in Locals :
       f.locals[i] = "ref" => i \in f.shadowLocals \/ (i = 0 /\ f.max % BitsPerWord = 0)

Honest(f) ==
  /\ \A i \in 0..f.sp - 1 : i \in f.shadow => f.stack[i] \in {"ref", "high"}
  /\ \A i \in f.shadowLocals : f.locals[i] \in {"ref", "thrown"}

Good(f) == Typed(f) /\ Rooted(f) /\ Honest(f)

\* The collector takes a word for a reference only if it is an upper half, and misses
\* only local 0 of a frame whose stack fills its bitmap.
AstrayHasCause ==
  /\ status = "stray" => \E i \in StackRoots : frame.stack[i] = "high"
  /\ status = "missed" => frame.max % BitsPerWord = 0 /\ frame.locals[0] = "ref"

IInv ==
  /\ TypeOK
  /\ status \in Live => Good(frame)
  /\ RefusedForHalf
  /\ AstrayHasCause

----------------------------------------------------------------------------
(* Frames *)

\* The bitmap has a bit for every word, and none more only if the words fill it.
LEMMA ShadowFacts ==
  ASSUME NEW m \in Nat \ {0}
  PROVE  /\ ShadowBits(m) \in Nat
         /\ ShadowBits(m) >= m
         /\ ShadowBits(m) = m => m % BitsPerWord = 0
  <1> DEFINE B == BitsPerWord
             q == (m + B - 1) \div B
  <1>1. B \in Nat \ {0}
    BY FrameAssumption
  <1> HIDE DEF B
  <1>2. /\ q \in Nat
        /\ B * q <= m + B - 1
        /\ m + B - 1 < B * q + B
    BY <1>1
  <1>3. ShadowBits(m) = B * q
    BY DEF ShadowBits, B
  <1> HIDE DEF q
  <1>4. B * q \in Nat
    BY <1>1, <1>2
  <1>5. B * q = m => m % B = 0
    BY <1>1, <1>2
  <1>6. QED
    BY <1>1, <1>2, <1>3, <1>4, <1>5 DEF B

LEMMA FrameFacts ==
  ASSUME NEW f, Typed(f)
  PROVE  /\ f.max \in MaxStacks /\ f.max \in Nat \ {0} /\ f \in Frames(f.max)
         /\ f.sp \in 0..f.max /\ f.sp \in Nat
         /\ DOMAIN f.stack = 0..f.max - 1
         /\ f.stack \in [0..f.max - 1 -> Kinds \cup {"dead"}]
         /\ f.shadow \in SUBSET (0..ShadowBits(f.max) - 1)
         /\ f.locals \in [Locals -> Kinds \cup {"thrown"}]
         /\ f.shadowLocals \in SUBSET Locals
         /\ 0 \in Locals
  <1>1. PICK m \in MaxStacks : f \in Frames(m)
    BY DEF Typed
  <1>2. f.max = m
    BY <1>1 DEF Frames
  <1>3. m \in Nat \ {0}
    BY FrameAssumption
  <1>4. 0 \in Locals
    BY FrameAssumption DEF Locals
  <1>5. QED
    BY <1>1, <1>2, <1>3, <1>4 DEF Frames

\* The bit of a word above sp, or the one behind it.
LEMMA ClearBitGood ==
  ASSUME NEW f, Good(f), NEW i \in f.sp..f.max
  PROVE  /\ Good(ClearBit(f, i))
         /\ ClearBit(f, i).max = f.max
         /\ ClearBit(f, i).sp = f.sp
         /\ ClearBit(f, i).stack = f.stack
         /\ i < f.max => i \notin ClearBit(f, i).shadow
  <1> DEFINE g == ClearBit(f, i)
             m == f.max
  <1>1. /\ m \in MaxStacks /\ m \in Nat \ {0} /\ f \in Frames(m)
        /\ f.sp \in 0..m /\ f.sp \in Nat /\ i \in Nat
        /\ f.shadow \in SUBSET (0..ShadowBits(m) - 1)
        /\ f.shadowLocals \in SUBSET Locals
    BY FrameFacts DEF Good
  <1>2. ShadowBits(m) \in Nat /\ ShadowBits(m) >= m /\ (ShadowBits(m) = m => m % BitsPerWord = 0)
    BY <1>1, ShadowFacts
  <1>3. CASE i < ShadowBits(m)
    <2>1. g = [f EXCEPT !.shadow = @ \ {i}]
      BY <1>3 DEF ClearBit
    <2>2. g \in Frames(m)
      BY <1>1, <2>1 DEF Frames
    <2>3. /\ g.max = m /\ g.sp = f.sp /\ g.stack = f.stack /\ g.locals = f.locals
          /\ g.shadowLocals = f.shadowLocals /\ g.shadow = f.shadow \ {i}
      BY <1>1, <2>1 DEF Frames
    <2> HIDE DEF g
    <2>4. Rooted(g) /\ Honest(g)
      BY <1>1, <2>3 DEF Good, Rooted, Honest
    <2>5. QED
      BY <1>1, <2>2, <2>3, <2>4 DEF Good, Typed, g
  <1>4. CASE ~(i < ShadowBits(m))
    <2>1. i = m /\ ShadowBits(m) = m
      BY <1>1, <1>2, <1>4
    <2>2. g = [f EXCEPT !.shadowLocals = @ \ {0}]
      <3>1. i - ShadowBits(m) = 0
        BY <1>1, <2>1
      <3>2. g = [f EXCEPT !.shadowLocals = @ \ {i - ShadowBits(m)}]
        BY <1>4 DEF ClearBit
      <3>3. QED
        BY <3>1, <3>2
    <2>3. g \in Frames(m)
      BY <1>1, <2>2 DEF Frames
    <2>4. /\ g.max = m /\ g.sp = f.sp /\ g.stack = f.stack /\ g.locals = f.locals
          /\ g.shadowLocals = f.shadowLocals \ {0} /\ g.shadow = f.shadow
      BY <1>1, <2>2 DEF Frames
    <2> HIDE DEF g
    <2>5. Rooted(g) /\ Honest(g)
      BY <1>1, <1>2, <2>1, <2>4 DEF Good, Rooted, Honest
    <2>6. QED
      BY <1>1, <2>1, <2>3, <2>4, <2>5 DEF Good, Typed, g
  <1>5. QED
    BY <1>3, <1>4

LEMMA SetBitGood ==
  ASSUME NEW f, Good(f), f.sp < f.max
  PROVE  /\ Good(SetBit(f, f.sp))
         /\ SetBit(f, f.sp).max = f.max
         /\ SetBit(f, f.sp).sp = f.sp
         /\ f.sp \in SetBit(f, f.sp).shadow
  <1> DEFINE g == SetBit(f, f.sp)
             m == f.max
  <1>1. /\ m \in MaxStacks /\ m \in Nat \ {0} /\ f \in Frames(m)
        /\ f.sp \in 0..m /\ f.sp \in Nat
        /\ f.shadow \in SUBSET (0..ShadowBits(m) - 1)
    BY FrameFacts DEF Good
  <1>2. f.sp \in 0..ShadowBits(m) - 1
    BY <1>1, ShadowFacts
  <1>3. g \in Frames(m)
    BY <1>1, <1>2 DEF SetBit, Frames
  <1>4. /\ g.max = m /\ g.sp = f.sp /\ g.stack = f.stack /\ g.locals = f.locals
        /\ g.shadowLocals = f.shadowLocals /\ g.shadow = f.shadow \cup {f.sp}
    BY <1>1 DEF SetBit, Frames
  <1> HIDE DEF g
  <1>5. Rooted(g) /\ Honest(g)
    BY <1>1, <1>4 DEF Good, Rooted, Honest
  <1>6. QED
    BY <1>1, <1>3, <1>4, <1>5 DEF Good, Typed, g

LEMMA PushWordGood ==
  ASSUME NEW f, Good(f), f.sp < f.max, NEW k \in Kinds,
         k = "ref" => f.sp \in f.shadow,
         f.sp \in f.shadow => k \in {"ref", "high"}
  PROVE  /\ Good(PushWord(f, k))
         /\ PushWord(f, k).max = f.max
         /\ PushWord(f, k).sp = f.sp + 1
         /\ PushWord(f, k).shadow = f.shadow
  <1> DEFINE g == PushWord(f, k)
             m == f.max
  <1>1. /\ m \in MaxStacks /\ m \in Nat \ {0} /\ f \in Frames(m)
        /\ f.sp \in 0..m /\ f.sp \in Nat
        /\ f.stack \in [0..m - 1 -> Kinds \cup {"dead"}]
    BY FrameFacts DEF Good
  <1>2. /\ g.max = m /\ g.sp = f.sp + 1 /\ g.locals = f.locals
        /\ g.stack = [f.stack EXCEPT ![f.sp] = k]
        /\ g.shadowLocals = f.shadowLocals /\ g.shadow = f.shadow
    BY <1>1 DEF PushWord, Frames
  <1>3. g.stack \in [0..m - 1 -> Kinds \cup {"dead"}] /\ g.sp \in 0..m
    BY <1>1, <1>2
  <1>4. g = [f EXCEPT !.stack = g.stack, !.sp = g.sp]
    BY <1>1, <1>2 DEF PushWord, Frames
  <1>5. g \in Frames(m)
    BY <1>1, <1>3, <1>4 DEF Frames
  <1> HIDE DEF g
  <1>6. g.stack[f.sp] = k /\ \A i \in 0..f.sp - 1 : g.stack[i] = f.stack[i]
    BY <1>1, <1>2
  <1>7. \A i \in 0..g.sp - 1 : i = f.sp \/ i \in 0..f.sp - 1
    BY <1>1, <1>2
  <1>8. Rooted(g) /\ Honest(g)
    BY <1>1, <1>2, <1>6, <1>7 DEF Good, Rooted, Honest
  <1>9. QED
    BY <1>1, <1>2, <1>5, <1>8 DEF Good, Typed, g

LEMMA DropGood ==
  ASSUME NEW f, Good(f), NEW n \in 0..f.sp
  PROVE  /\ Good(Drop(f, n))
         /\ Drop(f, n).max = f.max
         /\ Drop(f, n).sp = f.sp - n
  <1> DEFINE g == Drop(f, n)
             m == f.max
  <1>1. /\ m \in MaxStacks /\ m \in Nat \ {0} /\ f \in Frames(m)
        /\ f.sp \in 0..m /\ f.sp \in Nat /\ n \in Nat
        /\ DOMAIN f.stack = 0..m - 1
        /\ f.stack \in [0..m - 1 -> Kinds \cup {"dead"}]
    BY FrameFacts DEF Good
  <1>2. /\ g.max = m /\ g.sp = f.sp - n /\ g.locals = f.locals
        /\ g.stack = [i \in 0..m - 1 |-> IF i < f.sp - n THEN f.stack[i] ELSE "dead"]
        /\ g.shadowLocals = f.shadowLocals /\ g.shadow = f.shadow
    BY <1>1 DEF Drop, Frames
  <1>3. g.stack \in [0..m - 1 -> Kinds \cup {"dead"}] /\ g.sp \in 0..m
    BY <1>1, <1>2
  <1>4. g = [f EXCEPT !.sp = g.sp, !.stack = g.stack]
    BY <1>1, <1>2 DEF Drop, Frames
  <1>5. g \in Frames(m)
    BY <1>1, <1>3, <1>4 DEF Frames
  <1> HIDE DEF g
  <1>6. \A i \in 0..g.sp - 1 : i \in 0..f.sp - 1 /\ g.stack[i] = f.stack[i]
    BY <1>1, <1>2
  <1>7. Rooted(g) /\ Honest(g)
    BY <1>1, <1>2, <1>6 DEF Good, Rooted, Honest
  <1>8. QED
    BY <1>1, <1>2, <1>5, <1>7 DEF Good, Typed, g

----------------------------------------------------------------------------
(* Pushing and popping values *)

LEMMA PushGood ==
  ASSUME NEW f, Good(f), NEW t \in Types, Room(f, t)
  PROVE  Good(Push(f, t)) /\ Push(f, t).max = f.max
  <1>1. f.sp \in Nat /\ f.max \in Nat /\ f.sp \in 0..f.max
    BY FrameFacts DEF Good
  <1>2. f.sp < f.max /\ (t = "wide" => f.sp + 1 < f.max)
    BY <1>1 DEF Room, Slots, Types
  <1>3. f.sp \in f.sp..f.max
    BY <1>1
  <1>4. CASE t = "int"
    <2> DEFINE g == ClearBit(f, f.sp)
    <2>1. Good(g) /\ g.max = f.max /\ g.sp = f.sp /\ f.sp \notin g.shadow
      BY <1>2, <1>3, ClearBitGood
    <2> HIDE DEF g
    <2>2. Good(PushWord(g, "int")) /\ PushWord(g, "int").max = f.max
      BY <1>2, <2>1, PushWordGood DEF Kinds
    <2>3. Push(f, t) = PushWord(g, "int")
      BY <1>4, <2>1 DEF Push, PushInt, g
    <2>4. QED
      BY <2>2, <2>3
  <1>5. CASE t = "ref"
    <2> DEFINE g == SetBit(f, f.sp)
    <2>1. Good(g) /\ g.max = f.max /\ g.sp = f.sp /\ f.sp \in g.shadow
      BY <1>2, SetBitGood
    <2> HIDE DEF g
    <2>2. Good(PushWord(g, "ref")) /\ PushWord(g, "ref").max = f.max
      BY <1>2, <2>1, PushWordGood DEF Kinds
    <2>3. Push(f, t) = PushWord(g, "ref")
      BY <1>5, <2>1 DEF Push, PushRef, g
    <2>4. QED
      BY <2>2, <2>3
  <1>6. CASE t = "wide"
    <2> DEFINE g == ClearBit(f, f.sp)
               h == ClearBit(g, f.sp)
               k == PushWord(h, "low")
    <2>1. Good(g) /\ g.max = f.max /\ g.sp = f.sp
      BY <1>2, <1>3, ClearBitGood
    <2> HIDE DEF g
    <2>2. Good(h) /\ h.max = f.max /\ h.sp = f.sp /\ h.sp \notin h.shadow
      BY <1>2, <1>3, <2>1, ClearBitGood
    <2> HIDE DEF h
    <2>3. Good(k) /\ k.max = f.max /\ k.sp = f.sp + 1
      BY <1>2, <2>2, PushWordGood DEF Kinds
    <2> HIDE DEF k
    <2>4. Good(PushWord(k, "high")) /\ PushWord(k, "high").max = f.max
      BY <1>2, <1>6, <2>3, PushWordGood DEF Kinds
    <2>5. Push(f, t) = PushWord(k, "high")
      <3>1. Push(f, t) = PushWide(f)
        BY <1>6 DEF Push
      <3>2. PushWide(f) = PushWord(k, "high")
        BY DEF PushWide, g, h, k
      <3>3. QED
        BY <3>1, <3>2
    <2>6. QED
      BY <2>4, <2>5
  <1>7. QED
    BY <1>4, <1>5, <1>6 DEF Types

LEMMA PopGood ==
  ASSUME NEW f, Good(f), NEW t \in Types, OnTop(f, t)
  PROVE  /\ Good(Pop(f, t))
         /\ Pop(f, t).max = f.max
         /\ Pop(f, t).sp = f.sp - Slots(t)
  <1>1. f.sp \in Nat /\ f.max \in Nat /\ f.sp \in 0..f.max
    BY FrameFacts DEF Good
  <1>2. Slots(t) \in 0..f.sp
    BY <1>1 DEF OnTop, Slots, Types
  <1>3. CASE t = "wide"
    <2> DEFINE g == ClearBit(f, f.sp)
               h == ClearBit(g, f.sp)
    <2>1. Good(g) /\ g.max = f.max /\ g.sp = f.sp
      BY <1>1, ClearBitGood
    <2> HIDE DEF g
    <2>2. Good(h) /\ h.max = f.max /\ h.sp = f.sp
      BY <1>1, <2>1, ClearBitGood
    <2> HIDE DEF h
    <2>3. Good(Drop(h, 2)) /\ Drop(h, 2).max = f.max /\ Drop(h, 2).sp = f.sp - 2
      BY <1>2, <1>3, <2>2, DropGood DEF Slots
    <2>4. Pop(f, t) = Drop(h, 2)
      BY <1>3 DEF Pop, PopWide, g, h
    <2>5. QED
      BY <1>3, <2>3, <2>4 DEF Slots
  <1>4. CASE t # "wide"
    <2> DEFINE g == Drop(f, 1)
    <2>1. Good(g) /\ g.max = f.max /\ g.sp = f.sp - 1
      BY <1>2, <1>4, DropGood DEF Slots
    <2>2. f.sp - 1 \in g.sp..g.max
      BY <1>1, <1>2, <1>4, <2>1 DEF Slots
    <2> HIDE DEF g
    <2>3. /\ Good(ClearBit(g, f.sp - 1))
          /\ ClearBit(g, f.sp - 1).max = f.max
          /\ ClearBit(g, f.sp - 1).sp = f.sp - 1
      BY <2>1, <2>2, ClearBitGood
    <2>4. Pop(f, t) = ClearBit(g, f.sp - 1)
      BY <1>4 DEF Pop, PopOne, g
    <2>5. QED
      BY <1>4, <2>3, <2>4 DEF Slots
  <1>5. QED
    BY <1>3, <1>4

\* The exception is all that is left on the stack of a frame that handles it.
LEMMA EmptiedGood ==
  ASSUME NEW f, Good(f)
  PROVE  Good(Emptied(f))
  <1> DEFINE g == Drop(f, f.sp)
  <1>1. f.sp \in 0..f.sp /\ f.max \in Nat \ {0} /\ f.sp - f.sp = 0
    BY FrameFacts DEF Good
  <1>2. Good(g) /\ g.sp = 0 /\ g.max = f.max
    BY <1>1, DropGood
  <1> HIDE DEF g
  <1>3. Room(g, "ref")
    BY <1>1, <1>2 DEF Room, Slots
  <1>4. Good(Push(g, "ref"))
    BY <1>2, <1>3, PushGood DEF Types
  <1>5. Emptied(f) = Push(g, "ref")
    BY DEF Emptied, Push, g
  <1>6. QED
    BY <1>4, <1>5

----------------------------------------------------------------------------
(* Locals *)

\* Half a long that is overwritten is no reference, and had no bit.
LEMMA HalvedGood ==
  ASSUME NEW f, Good(f), NEW i \in Locals
  PROVE  /\ Good(Halved(f, i))
         /\ Halved(f, i).max = f.max
         /\ Halved(f, i).sp = f.sp
  <1> DEFINE g == Halved(f, i)
             m == f.max
  <1>1. /\ m \in MaxStacks /\ f \in Frames(m)
        /\ f.locals \in [Locals -> Kinds \cup {"thrown"}]
        /\ f.shadowLocals \in SUBSET Locals
    BY FrameFacts DEF Good
  <1>2. g = [f EXCEPT !.locals = g.locals]
    BY <1>1 DEF Halved, Frames
  <1>3. /\ g.max = m /\ g.sp = f.sp /\ g.stack = f.stack
        /\ g.shadowLocals = f.shadowLocals /\ g.shadow = f.shadow
    BY <1>1 DEF Halved, Frames
  <1>4. g.locals = [j \in Locals |->
                      IF (j = i + 1 /\ f.locals[j] = "high") \/ (j = i - 1 /\ f.locals[j] = "low")
                      THEN "int" ELSE f.locals[j]]
    BY <1>1 DEF Halved, Frames
  <1> HIDE DEF g
  <1>5. /\ g.locals \in [Locals -> Kinds \cup {"thrown"}]
        /\ \A j \in Locals : \/ g.locals[j] = f.locals[j]
                             \/ g.locals[j] = "int" /\ f.locals[j] \in {"high", "low"}
    BY <1>1, <1>4 DEF Kinds
  <1>6. g \in Frames(m)
    BY <1>1, <1>2, <1>5 DEF Frames
  <1>7. Rooted(g) /\ Honest(g)
    BY <1>1, <1>3, <1>5 DEF Good, Rooted, Honest
  <1>8. QED
    BY <1>1, <1>3, <1>6, <1>7 DEF Good, Typed, g

\* A word is written to local i, and its bit.
Written(f, i, k, bits) == [f EXCEPT !.locals[i] = k, !.shadowLocals = bits]

LEMMA WrittenGood ==
  ASSUME NEW f, Good(f), NEW i \in Locals, NEW k \in Kinds,
         NEW bits, bits = IF k = "ref" THEN f.shadowLocals \cup {i} ELSE f.shadowLocals \ {i}
  PROVE  /\ Good(Written(f, i, k, bits))
         /\ Written(f, i, k, bits).max = f.max
         /\ Written(f, i, k, bits).sp = f.sp
  <1> DEFINE g == Written(f, i, k, bits)
             m == f.max
  <1>1. /\ m \in MaxStacks /\ f \in Frames(m)
        /\ f.locals \in [Locals -> Kinds \cup {"thrown"}]
        /\ f.shadowLocals \in SUBSET Locals
    BY FrameFacts DEF Good
  <1>2. bits \in SUBSET Locals
    BY <1>1
  <1>3. g \in Frames(m)
    BY <1>1, <1>2 DEF Written, Frames
  <1>4. /\ g.max = m /\ g.sp = f.sp /\ g.stack = f.stack /\ g.shadow = f.shadow
        /\ g.shadowLocals = bits /\ g.locals = [f.locals EXCEPT ![i] = k]
    BY <1>1 DEF Written, Frames
  <1> HIDE DEF g
  <1>5. g.locals[i] = k /\ \A j \in Locals \ {i} : g.locals[j] = f.locals[j]
    BY <1>1, <1>4
  <1>6. Rooted(g) /\ Honest(g)
    BY <1>1, <1>2, <1>4, <1>5 DEF Good, Rooted, Honest
  <1>7. QED
    BY <1>1, <1>3, <1>4, <1>6 DEF Good, Typed, g

LEMMA StoreGood ==
  ASSUME NEW f, Good(f), NEW t \in Types, NEW i \in Locals, t = "wide" => i + 1 \in Locals
  PROVE  Good(StoreLocal(f, t, i))
  <1>1. CASE t = "int"
    <2> DEFINE g == Halved(f, i)
               b == g.shadowLocals \ {i}
    <2>1. Good(g)
      BY HalvedGood
    <2>2. g \in Frames(g.max)
      BY <2>1, FrameFacts DEF Good
    <2> HIDE DEF g
    <2>3. Good(Written(g, i, "int", b))
      BY <2>1, WrittenGood DEF Kinds
    <2>4. Written(g, i, "int", b) = ClearLocalBit([g EXCEPT !.locals[i] = "int"], i)
      BY <2>2 DEF Written, ClearLocalBit, Frames
    <2>5. StoreLocal(f, t, i) = ClearLocalBit([g EXCEPT !.locals[i] = "int"], i)
      BY <1>1 DEF StoreLocal, StoreInt, g
    <2>6. QED
      BY <2>3, <2>4, <2>5
  <1>2. CASE t = "ref"
    <2> DEFINE g == Halved(f, i)
               b == g.shadowLocals \cup {i}
    <2>1. Good(g)
      BY HalvedGood
    <2>2. g \in Frames(g.max)
      BY <2>1, FrameFacts DEF Good
    <2> HIDE DEF g
    <2>3. Good(Written(g, i, "ref", b))
      BY <2>1, WrittenGood DEF Kinds
    <2>4. Written(g, i, "ref", b) = [g EXCEPT !.locals[i] = "ref", !.shadowLocals = @ \cup {i}]
      BY <2>2 DEF Written, Frames
    <2>5. StoreLocal(f, t, i) = [g EXCEPT !.locals[i] = "ref", !.shadowLocals = @ \cup {i}]
      BY <1>2 DEF StoreLocal, StoreRef, g
    <2>6. QED
      BY <2>3, <2>4, <2>5
  <1>3. CASE t = "wide"
    <2> DEFINE g == Halved(Halved(f, i + 1), i)
               h == Written(g, i, "low", g.shadowLocals \ {i})
               k == Written(h, i + 1, "high", h.shadowLocals \ {i + 1})
    <2>1. Good(g)
      BY <1>3, HalvedGood
    <2>2. g \in Frames(g.max)
      BY <2>1, FrameFacts DEF Good
    <2> HIDE DEF g
    <2>3. Good(h)
      BY <2>1, WrittenGood DEF Kinds
    <2>4. Good(k)
      BY <1>3, <2>3, WrittenGood DEF Kinds
    <2>5. k = ClearLocalBit(ClearLocalBit(
                [g EXCEPT !.locals[i] = "low", !.locals[i + 1] = "high"], i), i + 1)
      BY <2>2 DEF Written, ClearLocalBit, Frames
    <2>6. StoreLocal(f, t, i) = k
      <3>1. StoreLocal(f, t, i) = StoreWide(f, i)
        BY <1>3 DEF StoreLocal
      <3>2. QED
        BY <2>5, <3>1 DEF StoreWide, g
    <2>7. QED
      BY <2>4, <2>6
  <1>4. QED
    BY <1>1, <1>2, <1>3 DEF Types

\* An exception that a native leaves is pushed past the stack when the stack is full.
LEMMA PushedAndPoppedGood ==
  ASSUME NEW f, Good(f)
  PROVE  Good(PushedAndPopped(f))
  <1> DEFINE m == f.max
  <1>1. /\ m \in MaxStacks /\ m \in Nat /\ f \in Frames(m) /\ f.sp \in 0..m
        /\ f.locals \in [Locals -> Kinds \cup {"thrown"}]
        /\ 0 \in Locals
    BY FrameFacts DEF Good
  <1>2. f.sp \in f.sp..f.max
    BY <1>1
  <1>3. CASE f.sp < m
    BY <1>2, <1>3, ClearBitGood DEF PushedAndPopped
  <1>4. CASE ~(f.sp < m)
    <2> DEFINE g == [f EXCEPT !.locals[0] = "thrown"]
    <2>1. g \in Frames(m)
      BY <1>1 DEF Frames
    <2>2. /\ g.max = m /\ g.sp = f.sp /\ g.stack = f.stack /\ g.shadow = f.shadow
          /\ g.shadowLocals = f.shadowLocals /\ g.locals = [f.locals EXCEPT ![0] = "thrown"]
      BY <1>1 DEF Frames
    <2> HIDE DEF g
    <2>3. g.locals[0] = "thrown" /\ \A j \in Locals \ {0} : g.locals[j] = f.locals[j]
      BY <1>1, <2>2
    <2>4. f.shadowLocals \in SUBSET Locals
      BY FrameFacts DEF Good
    <2>5. Rooted(g) /\ Honest(g)
      BY <2>2, <2>3, <2>4 DEF Good, Rooted, Honest
    <2>6. Good(g) /\ f.sp \in g.sp..g.max
      BY <1>1, <1>2, <2>1, <2>2, <2>5 DEF Good, Typed
    <2>7. Good(ClearBit(g, f.sp))
      BY <2>6, ClearBitGood
    <2>8. PushedAndPopped(f) = ClearBit(g, f.sp)
      BY <1>4 DEF PushedAndPopped, g
    <2>9. QED
      BY <2>7, <2>8
  <1>5. QED
    BY <1>3, <1>4

----------------------------------------------------------------------------
(* DUP, DUP_X1, DUP_X2, DUP2, DUP2_X1, DUP2_X2 and SWAP *)

\* The words of an order are among the top n.
LEMMA OrderFacts ==
  ASSUME NEW o \in Orders
  PROVE  /\ o[1] \in Nat
         /\ OrderLength(o[2]) \in Nat
         /\ \A j \in 1..OrderLength(o[2]) : o[2][j] \in 1..o[1]
  <1>1. ASSUME NEW n \in 1..4, NEW l \in 2..6, NEW s \in [1..l -> 1..n], o = <<n, s>>
        PROVE  /\ o[1] \in Nat
               /\ OrderLength(o[2]) \in Nat
               /\ \A j \in 1..OrderLength(o[2]) : o[2][j] \in 1..o[1]
    <2>1. \A k \in 2..6 : 1..l = 1..k => k = l
      OBVIOUS
    <2>2. OrderLength(s) = l
      BY <2>1 DEF OrderLength
    <2>3. QED
      BY <1>1, <2>2
  <1>2. \E n \in 1..4, l \in 2..6 : \E s \in [1..l -> 1..n] : o = <<n, s>>
    <2>1. CASE o = <<1, <<1, 1>>>>
      <3>1. <<1, 1>> \in [1..2 -> 1..1]
        OBVIOUS
      <3>2. QED
        BY <2>1, <3>1
    <2>2. CASE o = <<2, <<1, 2, 1>>>>
      <3>1. <<1, 2, 1>> \in [1..3 -> 1..2]
        OBVIOUS
      <3>2. QED
        BY <2>2, <3>1
    <2>3. CASE o = <<3, <<1, 3, 2, 1>>>>
      <3>1. <<1, 3, 2, 1>> \in [1..4 -> 1..3]
        OBVIOUS
      <3>2. QED
        BY <2>3, <3>1
    <2>4. CASE o = <<2, <<2, 1, 2, 1>>>>
      <3>1. <<2, 1, 2, 1>> \in [1..4 -> 1..2]
        OBVIOUS
      <3>2. QED
        BY <2>4, <3>1
    <2>5. CASE o = <<3, <<2, 1, 3, 2, 1>>>>
      <3>1. <<2, 1, 3, 2, 1>> \in [1..5 -> 1..3]
        OBVIOUS
      <3>2. QED
        BY <2>5, <3>1
    <2>6. CASE o = <<4, <<2, 1, 4, 3, 2, 1>>>>
      <3>1. <<2, 1, 4, 3, 2, 1>> \in [1..6 -> 1..4]
        OBVIOUS
      <3>2. QED
        BY <2>6, <3>1
    <2>7. CASE o = <<2, <<1, 2>>>>
      <3>1. <<1, 2>> \in [1..2 -> 1..2]
        OBVIOUS
      <3>2. QED
        BY <2>7, <3>1
    <2>8. QED
      BY <2>1, <2>2, <2>3, <2>4, <2>5, <2>6, <2>7 DEF Orders
  <1>3. QED
    BY <1>1, <1>2

\* The bits go where the words go.
LEMMA RearrangedGood ==
  ASSUME NEW f, Good(f), NEW n \in Nat, NEW order, OrderLength(order) \in Nat,
         \A j \in 1..OrderLength(order) : order[j] \in 1..n,
         f.sp >= n, f.sp - n + OrderLength(order) <= f.max
  PROVE  Good(Rearranged(f, n, order))
  <1> DEFINE g == Rearranged(f, n, order)
             m == f.max
             l == OrderLength(order)
             low == f.sp - n
             top == f.sp - n + l
             src(i) == SourceOf(f, n, order, i)
             moved == MovedBits(f, n, order)
  <1>1. /\ m \in MaxStacks /\ m \in Nat \ {0} /\ f \in Frames(m)
        /\ f.sp \in 0..m /\ f.sp \in Nat
        /\ DOMAIN f.stack = 0..m - 1
        /\ f.stack \in [0..m - 1 -> Kinds \cup {"dead"}]
        /\ f.shadow \in SUBSET (0..ShadowBits(m) - 1)
    BY FrameFacts DEF Good
  <1>2. ShadowBits(m) \in Nat /\ ShadowBits(m) >= m
    BY <1>1, ShadowFacts
  <1>3. /\ l \in Nat /\ low \in Nat /\ top \in 0..m /\ top \in Nat
        /\ low + n = f.sp /\ top = low + l
    BY <1>1
  <1>4. \A i \in low..top - 1 : i \in 0..m - 1 /\ src(i) \in 0..f.sp - 1
    <2> SUFFICES ASSUME NEW i \in low..top - 1
                 PROVE  i \in 0..m - 1 /\ src(i) \in 0..f.sp - 1
      OBVIOUS
    <2>1. src(i) = f.sp - order[i - low + 1]
      BY DEF SourceOf
    <2>2. \A j \in 1..l : order[j] \in 1..n
      OBVIOUS
    <2> HIDE DEF src, l, low, top, m
    <2>3. i - low + 1 \in 1..l /\ i \in 0..m - 1
      <3>1. /\ low \in Nat /\ l \in Nat /\ top = low + l /\ top \in 0..m /\ m \in Nat
            /\ i \in Int /\ low <= i /\ i <= top - 1
        BY <1>1, <1>3
      <3>2. i - low + 1 \in 1..l
        BY ONLY <3>1
      <3>3. i \in 0..m - 1
        BY ONLY <3>1
      <3>4. QED
        BY <3>2, <3>3
    <2>4. order[i - low + 1] \in 1..n
      BY <2>2, <2>3
    <2>5. f.sp - order[i - low + 1] \in 0..f.sp - 1
      <3>1. f.sp \in Nat /\ low \in Nat /\ low + n = f.sp /\ order[i - low + 1] \in 1..n
        BY <1>1, <1>3, <2>4
      <3>2. QED
        BY ONLY n \in Nat, <3>1
    <2>6. QED
      BY <2>1, <2>3, <2>5
  <1>5. moved = (f.shadow \ (low..top - 1)) \cup {i \in low..top - 1 : src(i) \in f.shadow}
    <2>1. low..top - 1 = f.sp - n .. f.sp - n + OrderLength(order) - 1
      <3>1. f.sp \in Int /\ l \in Int
        BY <1>1
      <3>2. QED
        BY ONLY n \in Nat, <3>1
    <2>2. moved = (f.shadow \ (f.sp - n .. f.sp - n + OrderLength(order) - 1))
                  \cup {i \in f.sp - n .. f.sp - n + OrderLength(order) - 1 :
                          SourceOf(f, n, order, i) \in f.shadow}
      BY Zenon DEF MovedBits
    <2> HIDE DEF moved, low, top
    <2>3. QED
      BY Zenon, <2>1, <2>2
  <1>6. g = [f EXCEPT !.sp = top,
                      !.stack = [i \in 0..m - 1 |->
                         IF i \in low..top - 1 THEN f.stack[src(i)] ELSE f.stack[i]],
                      !.shadow = moved]
    BY <1>1 DEF Rearranged
  <1> HIDE DEF l, low, top, src, moved
  <1> DEFINE stack == [i \in 0..m - 1 |->
                         IF i \in low..top - 1 THEN f.stack[src(i)] ELSE f.stack[i]]
  <1>7. stack \in [0..m - 1 -> Kinds \cup {"dead"}]
    <2>1. \A j \in 0..f.sp - 1 : f.stack[j] \in Kinds \cup {"dead"}
      BY <1>1
    <2>2. \A i \in 0..m - 1 : i \in low..top - 1 => f.stack[src(i)] \in Kinds \cup {"dead"}
      BY <1>4, <2>1
    <2>3. \A i \in 0..m - 1 : f.stack[i] \in Kinds \cup {"dead"}
      BY <1>1
    <2> HIDE DEF m
    <2>4. QED
      BY <2>2, <2>3
  <1>8. moved \in SUBSET (0..ShadowBits(m) - 1)
    BY <1>1, <1>2, <1>4, <1>5
  <1>9. /\ \A i \in low..top - 1 : stack[i] = f.stack[src(i)]
        /\ \A i \in 0..low - 1 : i \in 0..m - 1 /\ stack[i] = f.stack[i]
    BY <1>1, <1>3, <1>4
  <1> HIDE DEF stack, g, m
  <1>10. g = [f EXCEPT !.sp = top, !.stack = stack, !.shadow = moved]
    BY <1>6 DEF stack, m
  <1>11. g \in Frames(m)
    BY <1>1, <1>3, <1>7, <1>8, <1>10 DEF Frames
  <1>12. /\ g.max = m /\ g.sp = top /\ g.locals = f.locals
         /\ g.stack = stack /\ g.shadowLocals = f.shadowLocals /\ g.shadow = moved
    BY <1>1, <1>10 DEF Frames
  <1>13. \A i \in 0..top - 1 : i \in low..top - 1 \/ (i \in 0..low - 1 /\ i \in 0..f.sp - 1)
    BY <1>1, <1>3
  <1>14. Rooted(g)
    <2>1. \A i \in 0..top - 1 : stack[i] = "ref" => i \in moved
      <3> SUFFICES ASSUME NEW i \in 0..top - 1, stack[i] = "ref"
                   PROVE  i \in moved
        OBVIOUS
      <3>1. CASE i \in low..top - 1
        BY <1>4, <1>5, <1>9, <3>1 DEF Good, Rooted
      <3>2. CASE i \in 0..low - 1 /\ i \in 0..f.sp - 1
        <4>1. i \in f.shadow
          BY <1>9, <3>2 DEF Good, Rooted
        <4>2. i \notin low..top - 1
          BY <1>3, <3>2
        <4>3. QED
          BY <1>5, <4>1, <4>2
      <3>3. QED
        BY <1>13, <3>1, <3>2
    <2>2. QED
      BY <1>12, <2>1 DEF Good, Rooted, m
  <1>15. Honest(g)
    <2>1. \A i \in 0..top - 1 : i \in moved => stack[i] \in {"ref", "high"}
      <3> SUFFICES ASSUME NEW i \in 0..top - 1, i \in moved
                   PROVE  stack[i] \in {"ref", "high"}
        OBVIOUS
      <3>1. CASE i \in low..top - 1
        BY <1>4, <1>5, <1>9, <3>1 DEF Good, Honest
      <3>2. CASE i \in 0..low - 1 /\ i \in 0..f.sp - 1
        <4>1. i \notin low..top - 1
          BY <1>3, <3>2
        <4>2. QED
          BY <1>5, <1>9, <3>2, <4>1 DEF Good, Honest
      <3>3. QED
        BY <1>13, <3>1, <3>2
    <2>2. QED
      BY <1>12, <2>1 DEF Good, Honest
  <1>16. QED
    BY <1>1, <1>11, <1>14, <1>15 DEF Good, Typed, g

----------------------------------------------------------------------------
(* Steps *)

\* A frame in use stays good, or the thread is followed no further.
LEMMA GoesOn ==
  ASSUME Typed(frame'), status' \in Live => Good(frame'),
         status' \in Statuses \ {"refused", "stray", "missed"},
         literal' \in {"unresolved", "inPlace", "moved"}
  PROVE  IInv'
  <1>1. TypeOK'
    BY DEF TypeOK, Typed
  <1>2. RefusedForHalf' /\ AstrayHasCause'
    BY DEF RefusedForHalf, AstrayHasCause
  <1>3. (status \in Live => Good(frame))'
    BY DEF Good, Typed, Rooted, Honest, Frames, ShadowBits
  <1>4. QED
    BY <1>1, <1>2, <1>3 DEF IInv

LEMMA BecomesKeeps ==
  ASSUME IInv, status = "run", NEW f, Good(f), Becomes(f)
  PROVE  IInv'
  <1>1. frame' = f /\ literal' = literal /\ status' = "run"
    BY DEF Becomes
  <1>2. literal' \in {"unresolved", "inPlace", "moved"}
    BY <1>1 DEF IInv, TypeOK
  <1>3. Typed(frame') /\ Good(frame')
    BY <1>1 DEF Good
  <1>4. status' \in Statuses \ {"refused", "stray", "missed"}
    BY <1>1 DEF Statuses, Live, Astray
  <1>5. QED
    BY <1>2, <1>3, <1>4, GoesOn

LEMMA RunIsGood ==
  ASSUME IInv, status \in Live
  PROVE  /\ Good(frame) /\ Typed(frame)
         /\ literal \in {"unresolved", "inPlace", "moved"}
  BY DEF IInv, TypeOK, Good

LEMMA OpcodeTypes ==
  /\ Pushing \subseteq Types
  /\ Discarding \subseteq Types
  /\ \A s \in Unary : s[1] \in Types /\ s[2] \in Types
  /\ \A s \in PairDiscarding : s[1] \in Types /\ s[2] \in Types
  /\ \A s \in Binary : /\ s[1] \in Types /\ s[2] \in Types /\ s[3] \in Types
                       /\ Slots(s[3]) <= Slots(s[1]) + Slots(s[2])
  /\ \A s \in ArrayStores : s[1] \in Types /\ s[2] \in Types /\ s[3] \in Types
  <1>1. Pushing \subseteq Types
    BY DEF Pushing, Constants, Literals, StaticReads, NewObjects, ReturnAddresses, Types
  <1>2. Discarding \subseteq Types
    BY DEF Discarding, StaticWrites, ZeroBranches, NullBranches, Pops, Types
  <1>3. \A s \in Unary : s[1] \in Types /\ s[2] \in Types
    BY DEF Unary, Negations, Conversions, FieldReads, ClassTests, NewArrays, ArrayLengths, Types
  <1>4. \A s \in PairDiscarding : s[1] \in Types /\ s[2] \in Types
    BY DEF PairDiscarding, IntBranches, RefBranches, FieldWrites, Types
  <1>5. \A s \in Binary : /\ s[1] \in Types /\ s[2] \in Types /\ s[3] \in Types
                          /\ Slots(s[3]) <= Slots(s[1]) + Slots(s[2])
    BY DEF Binary, Arithmetic, Shifts, Bitwises, Comparisons, ArrayLoads, Types, Slots
  <1>6. \A s \in ArrayStores : s[1] \in Types /\ s[2] \in Types /\ s[3] \in Types
    BY DEF ArrayStores, Types
  <1>7. QED
    BY <1>1, <1>2, <1>3, <1>4, <1>5, <1>6

LEMMA LocallyKeeps ==
  ASSUME IInv, NEW t \in Types, NEW i \in Locals, Load(t, i) \/ Store(t, i) \/ Increment(i)
  PROVE  IInv'
  <1>1. status = "run"
    BY DEF Load, Store, Increment
  <1>2. Good(frame)
    BY <1>1, RunIsGood DEF Live
  <1>3. CASE Load(t, i)
    BY <1>1, <1>2, <1>3, PushGood, BecomesKeeps DEF Load
  <1>4. CASE Store(t, i)
    <2>1. Good(Pop(frame, t))
      BY <1>2, <1>4, PopGood DEF Store
    <2>2. Good(StoreLocal(Pop(frame, t), t, i))
      BY <1>4, <2>1, StoreGood DEF Store
    <2>3. QED
      BY <1>1, <1>4, <2>2, BecomesKeeps DEF Store
  <1>5. CASE Increment(i)
    <2>1. StoreInt(frame, i) = StoreLocal(frame, "int", i)
      BY DEF StoreLocal
    <2>2. Good(StoreInt(frame, i))
      BY <1>2, <2>1, StoreGood DEF Types
    <2>3. QED
      BY <1>1, <1>5, <2>2, BecomesKeeps DEF Increment
  <1>6. QED
    BY <1>3, <1>4, <1>5

LEMMA OpcodeKeeps ==
  ASSUME IInv, NEW t \in Types, NEW u \in Types, NEW v \in Types,
         \/ PushOpcode(t) \/ DiscardOpcode(t) \/ UnaryOpcode(t, u) \/ PairDiscardOpcode(t, u)
         \/ Slots(v) <= Slots(t) + Slots(u) /\ BinaryOpcode(t, u, v)
         \/ ArrayStoreOpcode(t, u, v)
  PROVE  IInv'
  <1>1. status = "run"
    BY DEF PushOpcode, DiscardOpcode, UnaryOpcode, PairDiscardOpcode, BinaryOpcode,
           ArrayStoreOpcode
  <1>2. Good(frame)
    BY <1>1, RunIsGood DEF Live
  <1>3. CASE PushOpcode(t)
    BY <1>1, <1>2, <1>3, PushGood, BecomesKeeps DEF PushOpcode
  <1>4. CASE DiscardOpcode(t)
    BY <1>1, <1>2, <1>4, PopGood, BecomesKeeps DEF DiscardOpcode
  <1>5. CASE UnaryOpcode(t, u)
    <2>1. Good(Pop(frame, t))
      BY <1>2, <1>5, PopGood DEF UnaryOpcode
    <2>2. Good(Push(Pop(frame, t), u))
      BY <1>5, <2>1, PushGood DEF UnaryOpcode
    <2>3. QED
      BY <1>1, <1>5, <2>2, BecomesKeeps DEF UnaryOpcode
  <1>6. CASE PairDiscardOpcode(t, u)
    <2>1. Good(Pop(frame, u))
      BY <1>2, <1>6, PopGood DEF PairDiscardOpcode
    <2>2. Good(Pop(Pop(frame, u), t))
      BY <1>6, <2>1, PopGood DEF PairDiscardOpcode
    <2>3. QED
      BY <1>1, <1>6, <2>2, BecomesKeeps DEF PairDiscardOpcode
  <1>7. CASE Slots(v) <= Slots(t) + Slots(u) /\ BinaryOpcode(t, u, v)
    <2> DEFINE f == Pop(frame, u)
               g == Pop(f, t)
    <2>1. Good(f) /\ f.max = frame.max /\ f.sp = frame.sp - Slots(u)
      BY <1>2, <1>7, PopGood DEF BinaryOpcode
    <2>2. OnTop(f, t) /\ Becomes(Push(g, v))
      BY <1>7 DEF BinaryOpcode
    <2> HIDE DEF f
    <2>3. Good(g) /\ g.max = f.max /\ g.sp = f.sp - Slots(t)
      BY <2>1, <2>2, PopGood
    <2> HIDE DEF g
    <2>4. frame.sp \in 0..frame.max /\ frame.max \in Nat /\ frame.sp \in Nat
      BY <1>2, FrameFacts DEF Good
    <2>5. Room(g, v)
      BY <1>7, <2>1, <2>3, <2>4 DEF Room, Slots
    <2>6. QED
      BY <1>1, <2>2, <2>3, <2>5, PushGood, BecomesKeeps
  <1>8. CASE ArrayStoreOpcode(t, u, v)
    <2>1. Good(Pop(frame, v))
      BY <1>2, <1>8, PopGood DEF ArrayStoreOpcode
    <2>2. Good(Pop(Pop(frame, v), u))
      BY <1>8, <2>1, PopGood DEF ArrayStoreOpcode
    <2>3. Good(Pop(Pop(Pop(frame, v), u), t))
      BY <1>8, <2>2, PopGood DEF ArrayStoreOpcode
    <2>4. QED
      BY <1>1, <1>8, <2>3, BecomesKeeps DEF ArrayStoreOpcode
  <1>9. QED
    BY <1>3, <1>4, <1>5, <1>6, <1>7, <1>8

LEMMA ComputeKeeps ==
  ASSUME IInv, Compute
  PROVE  IInv'
  <1> USE DEF Live
  <1>1. CASE \/ \E t \in Pushing : PushOpcode(t)
             \/ \E t \in Discarding : DiscardOpcode(t)
             \/ \E s \in Unary : UnaryOpcode(s[1], s[2])
    BY <1>1, OpcodeTypes, OpcodeKeeps
  <1>2. CASE \E s \in PairDiscarding : PairDiscardOpcode(s[1], s[2])
    BY <1>2, OpcodeTypes, OpcodeKeeps
  <1>3. CASE \/ \E s \in Binary : BinaryOpcode(s[1], s[2], s[3])
             \/ \E s \in ArrayStores : ArrayStoreOpcode(s[1], s[2], s[3])
    BY <1>3, OpcodeTypes, OpcodeKeeps
  <1>4. CASE Pop2
    <2> DEFINE f == Drop(frame, 2)
               g == ClearBit(f, frame.sp - 2)
    <2>1. status = "run" /\ frame.sp >= 2 /\ Becomes(ClearBit(g, frame.sp - 1))
      BY <1>4 DEF Pop2
    <2>2. Good(frame)
      BY <2>1, RunIsGood
    <2>3. frame.sp \in Nat /\ frame.max \in Nat /\ frame.sp \in 0..frame.max
      BY <2>2, FrameFacts DEF Good
    <2>4. Good(f) /\ f.max = frame.max /\ f.sp = frame.sp - 2
      BY <2>1, <2>2, <2>3, DropGood
    <2> HIDE DEF f
    <2>5. frame.sp - 2 \in f.sp..f.max /\ frame.sp - 1 \in f.sp..f.max
      BY <2>1, <2>3, <2>4
    <2>6. Good(g) /\ g.max = f.max /\ g.sp = f.sp
      BY <2>4, <2>5, ClearBitGood
    <2> HIDE DEF g
    <2>7. Good(ClearBit(g, frame.sp - 1))
      BY <2>5, <2>6, ClearBitGood
    <2>8. QED
      BY <2>1, <2>7, BecomesKeeps
  <1>5. ASSUME NEW o \in Orders, Rearrange(o[1], o[2]) PROVE IInv'
    <2>1. /\ status = "run" /\ frame.sp >= o[1]
          /\ frame.sp - o[1] + OrderLength(o[2]) <= frame.max
          /\ Becomes(Rearranged(frame, o[1], o[2]))
      BY <1>5 DEF Rearrange
    <2>2. Good(frame)
      BY <2>1, RunIsGood
    <2>3. Good(Rearranged(frame, o[1], o[2]))
      BY <2>1, <2>2, OrderFacts, RearrangedGood
    <2>4. QED
      BY <2>1, <2>3, BecomesKeeps
  <1>6. CASE MonitorOpcode
    <2>1. status = "run" /\ OnTop(frame, "ref")
      BY <1>6 DEF MonitorOpcode
    <2>2. Good(frame)
      BY <2>1, RunIsGood
    <2>3. frame.sp \in Nat /\ frame.sp >= 1 /\ frame.stack[frame.sp - 1] = "ref"
      BY <2>1, <2>2, FrameFacts DEF OnTop, Slots, Good
    <2>4. frame.sp - 1 \in frame.shadow
      BY <2>2, <2>3 DEF Good, Rooted
    <2>5. Good(Drop(frame, 1))
      BY <2>2, <2>3, DropGood
    <2>6. QED
      BY <1>6, <2>1, <2>4, <2>5, BecomesKeeps DEF MonitorOpcode
  <1>7. CASE LoadLiteral
    <2>1. status = "run" /\ Room(frame, "ref")
      BY <1>7 DEF LoadLiteral
    <2>2. Good(frame) /\ literal \in {"unresolved", "inPlace", "moved"}
      BY <2>1, RunIsGood
    <2>3. Good(Push(frame, "ref"))
      BY <2>1, <2>2, PushGood DEF Types
    <2>4. \/ frame' = Push(frame, "ref") /\ status' = "run" /\ literal' = "inPlace"
          \/ frame' = frame /\ status' = "stale" /\ literal' = literal
      BY <1>7, <2>1 DEF LoadLiteral
    <2>5. QED
      BY <2>2, <2>3, <2>4, GoesOn DEF Good, Statuses, Astray
  <1>8. QED
    BY <1>1, <1>2, <1>3, <1>4, <1>5, <1>6, <1>7 DEF Compute

LEMMA InvokeKeeps ==
  ASSUME IInv, NEW n \in 0..frame.max, NEW wide, Invoke(n, wide)
  PROVE  IInv'
  <1>1. /\ status = "run" /\ Arguments(n) /\ literal' = literal
        /\ \/ status' = "misread" /\ frame' = frame
           \/ status' = "call" /\ frame' = Drop(frame, n)
           \/ status' = "refused" /\ frame' = frame /\ ~CheckArguments(n)
    BY DEF Invoke
  <1>2. Good(frame) /\ Typed(frame) /\ literal \in {"unresolved", "inPlace", "moved"}
    BY <1>1, RunIsGood DEF Live
  <1>3. frame.sp \in Nat /\ frame.max \in Nat /\ n \in 0..frame.sp
    BY <1>1, <1>2, FrameFacts DEF Arguments
  <1>4. CASE status' = "misread" /\ frame' = frame
    BY <1>1, <1>2, <1>4, GoesOn DEF Statuses, Live, Astray
  <1>5. CASE status' = "call" /\ frame' = Drop(frame, n)
    <2>1. Good(frame')
      BY <1>2, <1>3, <1>5, DropGood
    <2>2. QED
      BY <1>1, <1>2, <1>5, <2>1, GoesOn DEF Good, Statuses, Live, Astray
  <1>6. CASE status' = "refused" /\ frame' = frame /\ ~CheckArguments(n)
    <2>1. PICK i \in 0..n - 1 : ~(frame.sp - n + i \in frame.shadow <=> i \in ArgsBitmap(n))
      BY <1>6 DEF CheckArguments
    <2> DEFINE j == frame.sp - n + i
    <2>2. j \in 0..frame.sp - 1 /\ (i \in ArgsBitmap(n) <=> frame.stack[j] = "ref")
      BY <1>3, <2>1 DEF ArgsBitmap
    <2>3. ~(j \in frame.shadow <=> frame.stack[j] = "ref")
      BY <2>1, <2>2
    <2> HIDE DEF j
    <2>4. j \in frame.shadow /\ frame.stack[j] = "high"
      BY <1>2, <2>2, <2>3 DEF Good, Rooted, Honest
    <2>5. j \in StackRoots
      BY <2>2, <2>4 DEF StackRoots
    <2>6. RefusedForHalf'
      BY <1>6, <2>4, <2>5 DEF RefusedForHalf, StackRoots
    <2>7. TypeOK'
      BY <1>1, <1>2, <1>6 DEF TypeOK, Typed, Statuses
    <2>8. AstrayHasCause' /\ ~(status' \in Live)
      BY <1>6 DEF AstrayHasCause, Live
    <2>9. QED
      BY <2>6, <2>7, <2>8 DEF IInv
  <1>7. QED
    BY <1>1, <1>4, <1>5, <1>6

LEMMA NativeKeeps ==
  ASSUME IInv, NEW n \in 0..frame.max, NEW t \in Types, NativeReturnsVoid(n) \/ NativeReturns(n, t)
  PROVE  IInv'
  <1>1. status = "run" /\ Arguments(n)
    BY DEF NativeReturnsVoid, NativeReturns
  <1>2. Good(frame)
    BY <1>1, RunIsGood DEF Live
  <1>3. n \in 0..frame.sp
    BY <1>1, <1>2, FrameFacts DEF Arguments, Good
  <1>4. Good(Drop(frame, n))
    BY <1>2, <1>3, DropGood
  <1>5. CASE NativeReturnsVoid(n)
    BY <1>1, <1>4, <1>5, BecomesKeeps DEF NativeReturnsVoid
  <1>6. CASE NativeReturns(n, t)
    BY <1>1, <1>4, <1>6, PushGood, BecomesKeeps DEF NativeReturns
  <1>7. QED
    BY <1>5, <1>6

LEMMA TransferKeeps ==
  ASSUME IInv, Transfer
  PROVE  IInv'
  <1> USE DEF Live, Statuses, Astray
  <1>1. ASSUME NEW n \in 0..frame.max,
               \/ \E wide \in SUBSET {i \in 0..frame.sp - 1 :
                                        i >= frame.sp - n /\ frame.stack[i] = "ref"} :
                    Invoke(n, wide)
               \/ NativeReturnsVoid(n)
               \/ \E t \in Types : NativeReturns(n, t)
        PROVE  IInv'
    <2>1. "int" \in Types
      BY DEF Types
    <2>2. QED
      BY <1>1, <2>1, InvokeKeeps, NativeKeeps
  <1>2. CASE ReturnVoid
    BY <1>2, RunIsGood, GoesOn DEF ReturnVoid
  <1>3. ASSUME NEW t \in Types, ReturnValue(t) PROVE IInv'
    <2>1. Good(frame) /\ literal \in {"unresolved", "inPlace", "moved"}
      BY <1>3, RunIsGood DEF ReturnValue
    <2>2. Good(frame')
      BY <1>3, <2>1, PushGood DEF ReturnValue
    <2>3. QED
      BY <1>3, <2>1, <2>2, GoesOn DEF ReturnValue, Good
  <1>4. CASE NativeThrows
    <2>1. Good(frame) /\ literal \in {"unresolved", "inPlace", "moved"}
      BY <1>4, RunIsGood DEF NativeThrows
    <2>2. Good(frame')
      BY <1>4, <2>1, PushedAndPoppedGood DEF NativeThrows
    <2>3. QED
      BY <1>4, <2>1, <2>2, GoesOn DEF NativeThrows, Good
  <1>5. CASE Throw
    <2>1. Good(frame) /\ literal \in {"unresolved", "inPlace", "moved"}
      BY <1>5, RunIsGood DEF Throw
    <2>2. Good(Pop(frame, "ref"))
      BY <1>5, <2>1, PopGood DEF Throw, Types
    <2>3. Good(frame')
      BY <1>5, <2>2 DEF Throw, Pop
    <2>4. QED
      BY <1>5, <2>1, <2>3, GoesOn DEF Throw, Good
  <1>6. CASE Fault
    BY <1>6, RunIsGood, GoesOn DEF Fault
  <1>7. CASE Handle
    <2>1. Good(frame) /\ literal \in {"unresolved", "inPlace", "moved"}
      BY <1>7, RunIsGood DEF Handle
    <2>2. Good(frame')
      BY <1>7, <2>1, EmptiedGood DEF Handle
    <2>3. status' \in {"overwritten", "run"} /\ literal' = literal
      BY <1>7 DEF Handle
    <2>4. QED
      BY <2>1, <2>2, <2>3, GoesOn DEF Good
  <1>8. CASE Leave
    BY <1>8, RunIsGood, GoesOn DEF Leave
  <1>9. QED
    BY <1>1, <1>2, <1>3, <1>4, <1>5, <1>6, <1>7, <1>8 DEF Transfer

LEMMA CollectKeeps ==
  ASSUME IInv, Collect
  PROVE  IInv'
  <1>1. /\ Good(frame) /\ Typed(frame) /\ literal \in {"unresolved", "inPlace", "moved"}
        /\ status \in Live
    BY RunIsGood DEF Collect
  <1>2. frame' = frame /\ literal' \in {"unresolved", "inPlace", "moved"}
    BY <1>1 DEF Collect
  <1>3. CASE status' = status \/ status' = "freed"
    BY <1>1, <1>2, <1>3, GoesOn DEF Statuses, Live, Astray
  <1>4. CASE \/ TakesHalf /\ status' = "stray"
             \/ Misses /\ status' = "missed"
    <2>1. status' \in Statuses /\ ~(status' \in Live) /\ status' # "refused"
      BY <1>4 DEF Statuses, Live, Astray
    <2>2. TypeOK'
      BY <1>1, <1>2, <2>1 DEF TypeOK, Typed
    <2>3. TakesHalf => \E i \in StackRoots : frame.stack[i] = "high"
      BY <1>1 DEF TakesHalf, StackRoots, Good, Honest
    <2>4. Misses => frame.max % BitsPerWord = 0 /\ frame.locals[0] = "ref"
      BY <1>1 DEF Misses, Good, Rooted
    <2>5. AstrayHasCause'
      BY <1>2, <1>4, <2>3, <2>4 DEF AstrayHasCause, StackRoots
    <2>6. RefusedForHalf'
      BY <2>1 DEF RefusedForHalf
    <2>7. QED
      BY <2>1, <2>2, <2>5, <2>6 DEF IInv
  <1>5. QED
    BY <1>3, <1>4 DEF Collect

----------------------------------------------------------------------------
(* The invariant *)

LEMMA InitIInv == Init => IInv
  <1> SUFFICES ASSUME Init PROVE IInv
    OBVIOUS
  <1>1. PICK m \in MaxStacks, l \in [Locals -> Kinds] : frame = Entered(m, l)
    BY DEF Init
  <1>2. m \in Nat \ {0}
    BY FrameAssumption
  <1>3. frame \in Frames(m)
    BY <1>1, <1>2 DEF Entered, Frames
  <1>4. /\ frame.sp = 0 /\ frame.shadow = {} /\ frame.locals = l
        /\ frame.shadowLocals = {i \in Locals : l[i] = "ref"}
    BY <1>1 DEF Entered
  <1>5. Rooted(frame) /\ Honest(frame)
    BY <1>4 DEF Rooted, Honest
  <1>6. status = "run" /\ literal \in {"unresolved", "inPlace", "moved"}
    BY DEF Init
  <1>7. QED
    BY <1>3, <1>5, <1>6
       DEF IInv, TypeOK, Good, Typed, RefusedForHalf, AstrayHasCause, Statuses, Live

LEMMA NextKeeps == IInv /\ [Next]_vars => IInv'
  <1> SUFFICES ASSUME IInv, [Next]_vars PROVE IInv'
    OBVIOUS
  <1>1. CASE UNCHANGED vars
    BY <1>1 DEF vars, IInv, TypeOK, Good, Typed, Rooted, Honest, RefusedForHalf, AstrayHasCause,
                StackRoots, Frames, ShadowBits
  <1>2. CASE Next
    BY <1>2, LocallyKeeps, ComputeKeeps, TransferKeeps, CollectKeeps DEF Next, Locally
  <1>3. QED
    BY <1>1, <1>2

\* The inductive invariant: whatever opcodes, calls, handlers and collections do to a
\* frame, its bits tell references from other words, but for upper halves.
THEOREM Inductive == Spec => []IInv
  BY InitIInv, NextKeeps, PTL DEF Spec

\* Every word and every bit stays where a frame has room for it: sp never passes
\* max_stack, no bit is set outside the bitmaps.
THEOREM TypeCorrect == Spec => []TypeOK
  BY Inductive, PTL DEF IInv

\* The collector finds every reference, but for local 0 of a frame whose stack fills its
\* bitmap.
THEOREM ReferencesHaveBits == Spec => []ReferencesAreRoots
  <1>1. IInv => ReferencesAreRoots
    BY DEF IInv, Good, Rooted, ReferencesAreRoots
  <1>2. QED
    BY <1>1, Inductive, PTL

\* The collector takes only references and upper halves for references.
THEOREM BitsHaveReferences == Spec => []BitsAreReferences
  <1>1. IInv => BitsAreReferences
    BY DEF IInv, Good, Honest, BitsAreReferences, StackRoots
  <1>2. QED
    BY <1>1, Inductive, PTL

\* check_arguments and MONITORENTER refuse no well-typed bytecode but for an upper half.
THEOREM RefusalsHaveHalves == Spec => []RefusedForHalf
  BY Inductive, PTL DEF IInv

\* A collection goes wrong on a frame for two reasons only: the bit left on an upper half,
\* and the bit of local 0 cleared through the bitmap of a full stack.
THEOREM CollectionsGoAstrayForTwoReasons == Spec => []AstrayHasCause
  BY Inductive, PTL DEF IInv

=============================================================================
