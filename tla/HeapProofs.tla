----------------------------- MODULE HeapProofs -----------------------------
(***************************************************************************)
(* Proofs about Heap for any threads, roots, classes and arena, as long as *)
(* the collector sees every reference field: the run heap_fields shows     *)
(* that otherwise references dangle.                                       *)
(***************************************************************************)
EXTENDS Heap, FiniteSetTheorems, SequenceTheorems, TLAPS

\* The words the collector takes for references are those that are: true of arrays, and
\* of classes without a reference field behind the first word.
FieldsAreSeen == \A k \in Kinds : ScannedWords(k) = Refs[k]

\* A thread that waits for space, or collects, knows what it allocates.
Calls == \A t \in Threads : pc[t] \in {"full", "collect", "retry"} => wanted[t] \in Kinds

\* What a phase does not use is as MoveEnd leaves it.
Registers ==
  /\ phase \in {"idle", "mark"} => liveList = <<>> /\ scanner = 0 /\ calcEnd = 0
  /\ phase # "mark" => workList = <<>>
  /\ phase \in {"idle", "mark", "forward", "patchRoots"} => cursor = 0

RootsIn(S) == \A s \in Slots : roots[s] \in S \cup {NULL}
Refers(a, S) == \A w \in Refs[mem[a].kind] : mem[a].fields[w] \in S \cup {NULL}

\* The first end words are one object after the other.
Packed(end) ==
  /\ end > 0 => 0 \in Starts
  /\ \A a \in Starts : a < end => EndOf(a) <= end /\ (EndOf(a) < end => EndOf(a) \in Starts)
  /\ \A a, b \in Starts : a < b /\ b < end => EndOf(a) <= b

Arena == Packed(lastEnd) /\ \A a \in Starts : a < lastEnd

Survivors == {a \in Starts : mem[a].forward # NULL}

EndIn(m, a) == a + Size(m[a].kind)
PlaceAfter(m, a) == m[a].forward + Size(m[a].kind)

\* The survivors in l, in the order of the arena m, get places side by side from `from`
\* to `to`, none further up than it is.
PlacedIn(l, m, from, to) ==
  /\ \A i \in DOMAIN l : /\ l[i] \in Addrs /\ m[l[i]] # NULL
                         /\ m[l[i]].forward \in Addrs /\ m[l[i]].forward <= l[i]
  /\ \A i, j \in DOMAIN l : i < j => EndIn(m, l[i]) <= l[j]
  /\ l = <<>> => from = to
  /\ l # <<>> => m[l[1]].forward = from /\ PlaceAfter(m, l[Len(l)]) = to
  /\ \A i \in DOMAIN l : i + 1 \in DOMAIN l => m[l[i + 1]].forward = PlaceAfter(m, l[i])
  /\ \A i, j \in DOMAIN l : i < j => PlaceAfter(m, l[i]) <= m[l[j]].forward

Placed(from, to) == PlacedIn(liveList, mem, from, to)

AtRest ==
  /\ Arena
  /\ RootsIn(Starts)
  /\ \A a \in Starts : mem[a].forward = NULL /\ Refers(a, Starts)

Marking ==
  /\ Arena
  /\ RootsIn(Survivors)
  /\ \A a \in Starts : mem[a].forward \in {NULL, Marked} /\ Refers(a, Starts)
  /\ \A i \in DOMAIN workList : workList[i] \in Survivors
  /\ \A a \in Survivors : a \in ToSet(workList) \/ Refers(a, Survivors)

Forwarding ==
  /\ Arena
  /\ RootsIn(Survivors)
  /\ \A a \in Survivors : Refers(a, Survivors)
  /\ \A a \in Starts : a >= scanner => mem[a].forward \in {NULL, Marked}
  /\ scanner <= lastEnd /\ (scanner < lastEnd => scanner \in Starts)
  /\ Placed(0, calcEnd)
  /\ calcEnd <= scanner
  /\ \A i \in DOMAIN liveList : EndIn(mem, liveList[i]) <= scanner
  /\ ToSet(liveList) = {a \in Survivors : a < scanner}

Places == {mem[liveList[i]].forward : i \in DOMAIN liveList}

PatchingRoots ==
  /\ Placed(0, lastEnd)
  /\ ToSet(liveList) = Survivors
  /\ RootsIn(Survivors)
  /\ \A a \in Survivors : Refers(a, Survivors)

Patching ==
  /\ Placed(0, lastEnd)
  /\ ToSet(liveList) = Survivors
  /\ RootsIn(Places)
  /\ \A i \in DOMAIN liveList : Refers(liveList[i], IF i <= cursor THEN Places ELSE Survivors)

\* The end of what has moved.
MovedEnd == IF liveList = <<>> THEN lastEnd ELSE mem[liveList[1]].forward
MovedTo == {a \in Starts : a < MovedEnd}

Moving ==
  /\ Placed(MovedEnd, lastEnd)
  /\ Packed(MovedEnd)
  /\ RootsIn(MovedTo \cup Places)
  /\ \A a \in MovedTo : mem[a].forward = NULL /\ Refers(a, MovedTo \cup Places)
  /\ \A i \in DOMAIN liveList : Refers(liveList[i], MovedTo \cup Places)

\* The invariant: each phase has its own idea of what memory holds.
IInv ==
  /\ TypeOK
  /\ Calls
  /\ Registers
  /\ phase = "idle" => AtRest
  /\ phase = "mark" => Marking
  /\ phase = "forward" => Forwarding
  /\ phase = "patchRoots" => PatchingRoots
  /\ phase = "patch" => Patching
  /\ phase = "move" => Moving

\* Outside collections every reference, of a root or in an object, leads to an object.
NoReferenceDangles ==
  phase = "idle" =>
    /\ RootSet \subseteq Starts
    /\ \A a \in Starts : Pointees(a) \subseteq Starts

----------------------------------------------------------------------------
(* Objects and sizes *)

LEMMA KindFacts ==
  ASSUME NEW k \in Kinds
  PROVE  /\ Words[k] \in Nat /\ Size(k) \in Nat /\ Size(k) > 0
         /\ Refs[k] \subseteq 0..Words[k] - 1
  BY HeapAssumption DEF Size, LengthWords

\* What TypeOK says of memory.
LEMMA ObjectFacts ==
  ASSUME TypeOK, NEW a \in Starts
  PROVE  /\ mem[a].kind \in Kinds /\ mem[a] \in Objects(mem[a].kind)
         /\ a \in Addrs /\ a \in Nat /\ mem[a] # NULL
         /\ EndOf(a) \in Nat /\ EndOf(a) > a
         /\ EndOf(a) = a + Size(mem[a].kind)
         /\ mem[a].fields \in [0..Words[mem[a].kind] - 1 -> Addrs \cup {NULL}]
         /\ mem[a].forward \in Addrs \cup {NULL, Marked}
  <1>1. a \in Addrs /\ a \in Nat /\ mem[a] # NULL
    BY DEF Starts, Addrs
  <1>2. PICK k \in Kinds : mem[a] \in Objects(k)
    BY <1>1 DEF TypeOK
  <1>3. /\ mem[a].kind = k
        /\ mem[a].fields \in [0..Words[k] - 1 -> Addrs \cup {NULL}]
        /\ mem[a].forward \in Addrs \cup {NULL, Marked}
    BY <1>2 DEF Objects
  <1>4. Size(k) \in Nat /\ Size(k) > 0
    BY KindFacts
  <1>5. QED
    BY <1>1, <1>2, <1>3, <1>4 DEF EndOf

LEMMA ObjectsAreNotNull ==
  ASSUME NEW k \in Kinds, NEW o \in Objects(k)
  PROVE  o # NULL /\ o.kind = k
  BY NullAssumption DEF Objects

\* An object whose forward or fields change is still an object of its kind.
LEMMA ForwardSet ==
  ASSUME NEW k \in Kinds, NEW o \in Objects(k), NEW f \in Addrs \cup {NULL, Marked}
  PROVE  /\ [o EXCEPT !.forward = f] \in Objects(k)
         /\ [o EXCEPT !.forward = f].forward = f
         /\ [o EXCEPT !.forward = f].kind = k
         /\ [o EXCEPT !.forward = f].fields = o.fields
         /\ [o EXCEPT !.forward = f].ident = o.ident
  BY DEF Objects

LEMMA FieldsSet ==
  ASSUME NEW k \in Kinds, NEW o \in Objects(k),
         NEW f \in [0..Words[k] - 1 -> Addrs \cup {NULL}]
  PROVE  /\ [o EXCEPT !.fields = f] \in Objects(k)
         /\ [o EXCEPT !.fields = f].forward = o.forward
         /\ [o EXCEPT !.fields = f].kind = k
         /\ [o EXCEPT !.fields = f].fields = f
         /\ [o EXCEPT !.fields = f].ident = o.ident
  BY DEF Objects

\* Setting marks, places and fields leaves the arena as it is.
LEMMA ArenaStays ==
  ASSUME Arena, lastEnd' = lastEnd, Starts' = Starts,
         \A a \in Starts : mem'[a].kind = mem[a].kind
  PROVE  Arena'
  <1>1. \A a \in Starts : EndOf(a)' = EndOf(a)
    BY DEF EndOf
  <1>2. QED
    BY <1>1 DEF Arena, Packed

----------------------------------------------------------------------------
(* Bytecode and allocation *)

LEMMA InitIInv == Init => IInv
  <1> SUFFICES ASSUME Init PROVE IInv
    OBVIOUS
  <1> USE DEF Init
  <1>1. Capacity \in Nat
    BY HeapAssumption
  <1>2. TypeOK
    BY <1>1 DEF TypeOK, Phases, Addrs
  <1>3. Starts = {}
    BY DEF Starts
  <1>4. AtRest
    BY <1>3 DEF AtRest, Arena, Packed, RootsIn
  <1>5. QED
    BY <1>2, <1>4 DEF IInv, Calls, Registers

\* Steps of bytecode that change roots or fields, but no thread and no size.
LEMMA AssignKeeps ==
  ASSUME IInv, NEW s \in Slots, NEW value \in Starts \cup {NULL}, Assign(s, value)
  PROVE  IInv'
  <1>1. /\ phase = "idle"
        /\ roots' = [roots EXCEPT ![s] = value]
        /\ UNCHANGED <<pc, wanted, mem, lastEnd, phase, workList, scanner, calcEnd, liveList,
                       cursor>>
    BY DEF Assign, Running, threadVars, gcVars
  <1>2. roots' \in [Slots -> Addrs \cup {NULL}]
    BY <1>1 DEF IInv, TypeOK, Starts
  <1>3. TypeOK'
    BY <1>1, <1>2 DEF IInv, TypeOK
  <1>4. Calls' /\ Registers'
    BY <1>1 DEF IInv, Calls, Registers
  <1>5. AtRest
    BY <1>1 DEF IInv
  <1>6. Arena'
    BY <1>1, <1>5, ArenaStays DEF AtRest, Starts
  <1>7. \A p \in Slots : roots'[p] \in Starts \cup {NULL}
    BY <1>1, <1>5 DEF IInv, TypeOK, AtRest, RootsIn
  <1>8. AtRest'
    BY <1>1, <1>5, <1>6, <1>7 DEF AtRest, RootsIn, Refers, Starts
  <1>9. QED
    BY <1>1, <1>3, <1>4, <1>8 DEF IInv

LEMMA GetFieldKeeps ==
  ASSUME IInv, NEW s \in Slots, NEW from \in Slots, NEW w, GetField(s, from, w)
  PROVE  IInv'
  <1>1. phase = "idle" /\ roots[from] # NULL /\ w \in Refs[mem[roots[from]].kind]
    BY DEF GetField, Running
  <1>2. roots[from] \in Starts
    BY <1>1 DEF IInv, AtRest, RootsIn
  <1>3. mem[roots[from]].fields[w] \in Starts \cup {NULL}
    BY <1>1, <1>2 DEF IInv, AtRest, Refers
  <1>4. QED
    BY <1>3, AssignKeeps DEF GetField

LEMMA PutFieldKeeps ==
  ASSUME IInv, NEW s \in Slots, NEW from \in Slots, NEW w, PutField(s, w, from)
  PROVE  IInv'
  <1> DEFINE x == roots[s]
             k == mem[x].kind
             f == [mem[x].fields EXCEPT ![w] = roots[from]]
  <1>1. /\ phase = "idle" /\ x # NULL /\ w \in Refs[k]
        /\ mem' = [mem EXCEPT ![x] = [mem[x] EXCEPT !.fields = f]]
        /\ UNCHANGED <<pc, wanted, roots, lastEnd, phase, workList, scanner, calcEnd, liveList,
                       cursor>>
    BY DEF PutField, Running, threadVars, gcVars
  <1>2. AtRest /\ TypeOK
    BY <1>1 DEF IInv
  <1>3. x \in Starts
    BY <1>1, <1>2 DEF AtRest, RootsIn
  <1>4. /\ k \in Kinds /\ mem[x] \in Objects(k) /\ x \in Addrs
        /\ mem[x].fields \in [0..Words[k] - 1 -> Addrs \cup {NULL}]
    BY <1>2, <1>3, ObjectFacts
  <1>5. roots[from] \in Starts \cup {NULL} /\ roots[from] \in Addrs \cup {NULL}
    BY <1>2 DEF AtRest, RootsIn, TypeOK
  <1>6. f \in [0..Words[k] - 1 -> Addrs \cup {NULL}]
    BY <1>4, <1>5
  <1> HIDE DEF x, k
  <1>7. /\ mem'[x] \in Objects(k)
        /\ mem'[x].forward = mem[x].forward
        /\ mem'[x].kind = k
        /\ mem'[x].fields = f
    <2>1. mem'[x] = [mem[x] EXCEPT !.fields = f]
      BY <1>1, <1>2, <1>4 DEF TypeOK
    <2> HIDE DEF f
    <2>2. QED
      BY <1>4, <1>6, <2>1, FieldsSet
  <1>8. DOMAIN mem' = Addrs /\ \A a \in Addrs \ {x} : mem'[a] = mem[a]
    BY <1>1, <1>2 DEF TypeOK
  <1>9. TypeOK'
    BY <1>1, <1>2, <1>4, <1>7, <1>8 DEF TypeOK
  <1>10. Calls' /\ Registers'
    BY <1>1 DEF IInv, Calls, Registers
  <1>11. mem'[x] # NULL /\ mem[x] # NULL /\ mem[x].kind = k
    BY <1>3, <1>4, <1>7, ObjectsAreNotNull DEF Starts, k
  <1>12. Starts' = Starts
    BY <1>4, <1>8, <1>11 DEF Starts
  <1>13. \A a \in Starts : mem'[a].kind = mem[a].kind /\ mem'[a].forward = mem[a].forward
    BY <1>7, <1>8, <1>11 DEF Starts
  <1>14. Arena'
    BY <1>1, <1>2, <1>12, <1>13, ArenaStays DEF AtRest
  <1>15. \A a \in Starts : \A v \in Refs[mem[a].kind] : mem'[a].fields[v] \in Starts \cup {NULL}
    <2> SUFFICES ASSUME NEW a \in Starts, NEW v \in Refs[mem[a].kind]
                 PROVE  mem'[a].fields[v] \in Starts \cup {NULL}
      OBVIOUS
    <2>1. mem[a].fields[v] \in Starts \cup {NULL}
      BY <1>2 DEF AtRest, Refers
    <2>2. CASE a # x
      BY <1>8, <2>1, <2>2 DEF Starts
    <2>3. CASE a = x
      <3>1. v \in 0..Words[k] - 1
        BY <1>4, <1>11, <2>3, KindFacts
      <3>2. mem'[a].fields[v] = IF v = w THEN roots[from] ELSE mem[a].fields[v]
        BY <1>4, <1>7, <2>3, <3>1 DEF x
      <3>3. QED
        BY <1>5, <2>1, <3>2
    <2>4. QED
      BY <2>2, <2>3
  <1>16. AtRest'
    BY <1>1, <1>2, <1>12, <1>13, <1>14, <1>15 DEF AtRest, RootsIn, Refers
  <1>17. QED
    BY <1>1, <1>9, <1>10, <1>16 DEF IInv

\* A new object follows the last one.
LEMMA PlaceKeeps ==
  ASSUME TypeOK, AtRest, NEW k \in Kinds, NEW s \in Slots, Size(k) <= Capacity - lastEnd,
         Place(k, s)
  PROVE  /\ DOMAIN mem' = Addrs
         /\ \A a \in Addrs : mem'[a] = NULL \/ \E j \in Kinds : mem'[a] \in Objects(j)
         /\ lastEnd' \in 0..Capacity
         /\ roots' \in [Slots -> Addrs \cup {NULL}]
         /\ AtRest'
  <1> DEFINE e == lastEnd
             o == Blank(k)
  <1>1. /\ FreshIdents # {}
        /\ mem' = [mem EXCEPT ![e] = o]
        /\ lastEnd' = e + Size(k)
        /\ roots' = [roots EXCEPT ![s] = e]
    BY DEF Place
  <1>2. Size(k) \in Nat /\ Size(k) > 0 /\ Capacity \in Nat /\ e \in 0..Capacity
    BY KindFacts, HeapAssumption DEF TypeOK
  <1>3. e \in Addrs /\ lastEnd' \in 0..Capacity /\ e < lastEnd' /\ e \in Nat
    BY <1>1, <1>2 DEF Addrs
  <1>4. /\ o \in Objects(k) /\ o.kind = k /\ o.forward = NULL
        /\ \A w \in 0..Words[k] - 1 : o.fields[w] = NULL
    BY <1>1 DEF Blank, Objects, FreshIdents
  <1>5. o # NULL
    BY <1>4, ObjectsAreNotNull
  <1> HIDE DEF o
  <1>6. mem'[e] = o /\ DOMAIN mem' = Addrs /\ \A a \in Addrs \ {e} : mem'[a] = mem[a]
    BY <1>1, <1>3 DEF TypeOK
  <1>7. e \notin Starts
    BY <1>3, ObjectFacts DEF AtRest, Arena
  <1>8. Starts' = Starts \cup {e} /\ \A a \in Starts : a \in Addrs \ {e}
    BY <1>3, <1>5, <1>6, <1>7 DEF Starts
  <1>9. roots' \in [Slots -> Addrs \cup {NULL}]
    BY <1>1, <1>3 DEF TypeOK
  <1>10. /\ \A a \in {e} : EndOf(a)' = lastEnd'
         /\ \A a \in Starts : EndOf(a)' = EndOf(a)
    <2>1. \A a \in {e} : EndOf(a)' = lastEnd'
      BY <1>1, <1>4, <1>6 DEF EndOf
    <2>2. \A a \in Starts : mem'[a] = mem[a]
      BY <1>6, <1>8
    <2>3. QED
      BY <1>1, <2>1, <2>2 DEF EndOf
  <1>11. \A a \in Starts : /\ a \in Nat /\ EndOf(a) \in Nat
                           /\ a < e /\ EndOf(a) <= e
                           /\ EndOf(a) < e => EndOf(a) \in Starts
    BY ObjectFacts DEF AtRest, Arena, Packed
  <1>12. Arena'
    <2>1. ASSUME NEW a \in Starts'
          PROVE  /\ a < lastEnd'
                 /\ EndOf(a)' <= lastEnd'
                 /\ EndOf(a)' < lastEnd' => EndOf(a)' \in Starts'
      <3>1. CASE a \in Starts
        <4>1. EndOf(a) = e \/ EndOf(a) < e
          BY <1>3, <1>11, <3>1
        <4>2. QED
          BY <1>2, <1>3, <1>8, <1>10, <1>11, <3>1, <4>1
      <3>2. CASE a = e
        <4>1. EndOf(a)' = lastEnd'
          BY <1>10, <3>2
        <4>2. QED
          BY <1>2, <1>3, <3>2, <4>1
      <3>3. QED
        BY <1>8, <3>1, <3>2
    <2>2. 0 \in Starts'
      <3>1. CASE e = 0
        BY <1>8, <3>1
      <3>2. CASE e > 0
        BY <1>8, <3>2 DEF AtRest, Arena, Packed
      <3>3. QED
        BY <1>3, <3>1, <3>2
    <2>3. ASSUME NEW a \in Starts', NEW b \in Starts', a < b
          PROVE  EndOf(a)' <= b
      <3>1. CASE a \in Starts /\ b \in Starts
        BY <1>10, <1>11, <2>3, <3>1 DEF AtRest, Arena, Packed
      <3>2. CASE a \in Starts /\ b = e
        BY <1>10, <1>11, <3>2
      <3>3. a # e
        BY <1>3, <1>8, <1>11, <2>3
      <3>4. QED
        BY <1>8, <3>1, <3>2, <3>3
    <2>4. QED
      BY <2>1, <2>2, <2>3 DEF Arena, Packed
  <1>13. \A p \in Slots : roots'[p] \in Starts' \cup {NULL}
    BY <1>1, <1>8 DEF TypeOK, AtRest, RootsIn
  <1>14. \A a \in Starts' : /\ mem'[a].forward = NULL
                            /\ \A w \in Refs[mem'[a].kind] :
                                 mem'[a].fields[w] \in Starts' \cup {NULL}
    <2> SUFFICES ASSUME NEW a \in Starts'
                 PROVE  /\ mem'[a].forward = NULL
                        /\ \A w \in Refs[mem'[a].kind] :
                             mem'[a].fields[w] \in Starts' \cup {NULL}
      OBVIOUS
    <2>1. CASE a \in Starts
      BY <1>6, <1>8, <2>1 DEF AtRest, Refers
    <2>2. CASE a = e
      BY <1>4, <1>6, <2>2, KindFacts
    <2>3. QED
      BY <1>8, <2>1, <2>2
  <1>15. AtRest'
    BY <1>12, <1>13, <1>14 DEF AtRest, RootsIn, Refers
  <1>16. QED
    BY <1>3, <1>4, <1>6, <1>9, <1>15 DEF TypeOK

LEMMA AllocKeeps ==
  ASSUME IInv, NEW t \in Threads, NEW k \in Kinds, NEW s \in Slots, Alloc(t, k, s)
  PROVE  IInv'
  <1>1. /\ phase = "idle" /\ Size(k) <= Capacity - lastEnd /\ Place(k, s)
        /\ UNCHANGED <<pc, wanted, phase, workList, scanner, calcEnd, liveList, cursor>>
    BY DEF Alloc, HasRoom, RoomFor, threadVars, gcVars
  <1>2. TypeOK /\ AtRest
    BY <1>1 DEF IInv
  <1>3. /\ DOMAIN mem' = Addrs
        /\ \A a \in Addrs : mem'[a] = NULL \/ \E j \in Kinds : mem'[a] \in Objects(j)
        /\ lastEnd' \in 0..Capacity
        /\ roots' \in [Slots -> Addrs \cup {NULL}]
        /\ AtRest'
    BY <1>1, <1>2, PlaceKeeps
  <1>4. TypeOK'
    BY <1>1, <1>2, <1>3 DEF TypeOK
  <1>5. Calls' /\ Registers'
    BY <1>1 DEF IInv, Calls, Registers
  <1>6. QED
    BY <1>1, <1>3, <1>4, <1>5 DEF IInv

LEMMA AllocFullKeeps ==
  ASSUME IInv, NEW t \in Threads, NEW k \in Kinds, AllocFull(t, k)
  PROVE  IInv'
  <1>1. /\ phase = "idle"
        /\ pc' = [pc EXCEPT ![t] = "full"]
        /\ wanted' = [wanted EXCEPT ![t] = k]
        /\ UNCHANGED <<roots, mem, lastEnd, phase, workList, scanner, calcEnd, liveList, cursor>>
    BY DEF AllocFull, gcVars
  <1>2. TypeOK'
    BY <1>1 DEF IInv, TypeOK
  <1>3. Calls' /\ Registers'
    BY <1>1 DEF IInv, TypeOK, Calls, Registers
  <1>4. AtRest'
    <2>1. Arena'
      BY <1>1, ArenaStays DEF IInv, AtRest, Starts
    <2>2. QED
      BY <1>1, <2>1 DEF IInv, AtRest, RootsIn, Refers, Starts
  <1>5. QED
    BY <1>1, <1>2, <1>3, <1>4 DEF IInv

LEMMA AllocRetryKeeps ==
  ASSUME IInv, NEW t \in Threads, NEW s \in Slots, AllocRetry(t, s)
  PROVE  IInv'
  <1>1. /\ phase = "idle" /\ pc[t] = "retry"
        /\ wanted' = [wanted EXCEPT ![t] = NULL]
        /\ UNCHANGED <<phase, workList, scanner, calcEnd, liveList, cursor>>
    BY DEF AllocRetry, gcVars
  <1>2. TypeOK /\ AtRest /\ wanted[t] \in Kinds
    BY <1>1 DEF IInv, Calls
  <1>3. pc' = [pc EXCEPT ![t] = "run"] \/ pc' = [pc EXCEPT ![t] = "dead"]
    BY DEF AllocRetry
  <1>4. /\ DOMAIN mem' = Addrs
        /\ \A a \in Addrs : mem'[a] = NULL \/ \E j \in Kinds : mem'[a] \in Objects(j)
        /\ lastEnd' \in 0..Capacity
        /\ roots' \in [Slots -> Addrs \cup {NULL}]
        /\ AtRest'
    <2>1. CASE Size(wanted[t]) <= Capacity - lastEnd
      BY <1>2, <2>1, PlaceKeeps DEF AllocRetry
    <2>2. CASE ~(Size(wanted[t]) <= Capacity - lastEnd)
      <3>1. UNCHANGED <<mem, lastEnd, roots>>
        BY <2>2 DEF AllocRetry
      <3>2. Arena'
        BY <1>2, <3>1, ArenaStays DEF AtRest, Starts
      <3>3. AtRest'
        BY <1>2, <3>1, <3>2 DEF AtRest, RootsIn, Refers, Starts
      <3>4. QED
        BY <1>2, <3>1, <3>3 DEF TypeOK
    <2>3. QED
      BY <2>1, <2>2
  <1>5. TypeOK'
    BY <1>1, <1>2, <1>3, <1>4 DEF TypeOK
  <1>6. Calls' /\ Registers'
    BY <1>1, <1>2, <1>3 DEF IInv, TypeOK, Calls, Registers
  <1>7. QED
    BY <1>1, <1>4, <1>5, <1>6 DEF IInv

----------------------------------------------------------------------------
(* Marking *)

\* A set as a sequence has the elements of the set.
LEMMA SetToSeqFacts ==
  ASSUME NEW S, IsFiniteSet(S)
  PROVE  SetToSeq(S) \in Seq(S) /\ ToSet(SetToSeq(S)) = S
  <1> DEFINE n == Cardinality(S)
             q == SetToSeq(S)
  <1>1. n \in Nat /\ \E f \in [1..n -> S] : IsInjective(f)
    BY FS_CardinalityType DEF ExistsBijection, Bijection, Injection
  <1>2. q \in [1..n -> S] /\ IsInjective(q)
    BY <1>1 DEF SetToSeq
  <1>3. IsFiniteSet(1..n) /\ Cardinality(1..n) = n
    BY <1>1, FS_Interval
  <1>4. q \in Injection(1..n, S)
    BY <1>2 DEF Injection
  <1> HIDE DEF q
  <1>5. q \in Surjection(1..n, S)
    BY <1>3, <1>4, FS_Injection
  <1>6. ToSet(q) = S
    BY <1>2, <1>5 DEF ToSet, Surjection
  <1>7. q \in Seq(S)
    BY <1>1, <1>2
  <1>8. QED
    BY <1>6, <1>7 DEF q

LEMMA AppendedElements ==
  ASSUME NEW S, NEW s \in Seq(S), NEW q \in Seq(S)
  PROVE  s \o q \in Seq(S) /\ ToSet(s \o q) = ToSet(s) \cup ToSet(q)
  <1>1. /\ s \o q \in Seq(S) /\ Len(s) \in Nat /\ Len(q) \in Nat
        /\ DOMAIN s = 1..Len(s) /\ DOMAIN q = 1..Len(q)
        /\ DOMAIN (s \o q) = 1..Len(s) + Len(q)
        /\ \A i \in 1..Len(s) + Len(q) : (s \o q)[i] = IF i <= Len(s) THEN s[i] ELSE q[i - Len(s)]
    OBVIOUS
  <1>2. ToSet(s \o q) \subseteq ToSet(s) \cup ToSet(q)
    <2> SUFFICES ASSUME NEW i \in 1..Len(s) + Len(q)
                 PROVE  (s \o q)[i] \in ToSet(s) \cup ToSet(q)
      BY <1>1 DEF ToSet
    <2>1. CASE i <= Len(s)
      BY <1>1, <2>1 DEF ToSet
    <2>2. CASE ~(i <= Len(s))
      <3>1. i - Len(s) \in 1..Len(q)
        BY <1>1, <2>2
      <3>2. QED
        BY <1>1, <2>2, <3>1 DEF ToSet
    <2>3. QED
      BY <2>1, <2>2
  <1>3. ToSet(s) \subseteq ToSet(s \o q)
    <2> SUFFICES ASSUME NEW i \in 1..Len(s)
                 PROVE  s[i] \in ToSet(s \o q)
      BY <1>1 DEF ToSet
    <2>1. i \in 1..Len(s) + Len(q) /\ (s \o q)[i] = s[i]
      BY <1>1
    <2>2. QED
      BY <1>1, <2>1 DEF ToSet
  <1>4. ToSet(q) \subseteq ToSet(s \o q)
    <2> SUFFICES ASSUME NEW i \in 1..Len(q)
                 PROVE  q[i] \in ToSet(s \o q)
      BY <1>1 DEF ToSet
    <2>1. i + Len(s) \in 1..Len(s) + Len(q) /\ (s \o q)[i + Len(s)] = q[i]
      BY <1>1
    <2>2. QED
      BY <1>1, <2>1 DEF ToSet
  <1>5. QED
    BY <1>1, <1>2, <1>3, <1>4

LEMMA AddrsAreFinite ==
  ASSUME NEW S \in SUBSET Addrs
  PROVE  IsFiniteSet(S)
  <1>1. IsFiniteSet(Addrs)
    BY HeapAssumption, FS_Interval DEF Addrs
  <1>2. QED
    BY <1>1, FS_Subset

\* What marking the objects in S does to memory.
LEMMA MarkFacts ==
  ASSUME TypeOK, NEW S \in SUBSET Starts, mem' = Mark(S)
  PROVE  /\ DOMAIN mem' = Addrs
         /\ \A a \in Addrs : mem'[a] = NULL \/ \E k \in Kinds : mem'[a] \in Objects(k)
         /\ Starts' = Starts
         /\ \A a \in Starts : /\ mem'[a].kind = mem[a].kind
                              /\ mem'[a].fields = mem[a].fields
                              /\ mem'[a].ident = mem[a].ident
                              /\ mem'[a].forward = IF a \in S THEN Marked ELSE mem[a].forward
  <1>1. /\ DOMAIN mem' = Addrs
        /\ \A a \in Addrs \ S : mem'[a] = mem[a]
        /\ \A a \in S : mem'[a] = [mem[a] EXCEPT !.forward = Marked]
    BY DEF Mark, Starts
  <1>2. \A a \in S : LET k == mem[a].kind
                     IN  /\ k \in Kinds /\ mem'[a] \in Objects(k) /\ mem'[a] # NULL
                         /\ mem'[a].kind = k
                         /\ mem'[a].fields = mem[a].fields
                         /\ mem'[a].ident = mem[a].ident
                         /\ mem'[a].forward = Marked
    <2> SUFFICES ASSUME NEW a \in S, NEW k, k = mem[a].kind
                 PROVE  /\ k \in Kinds /\ mem'[a] \in Objects(k) /\ mem'[a] # NULL
                        /\ mem'[a].kind = k
                        /\ mem'[a].fields = mem[a].fields
                        /\ mem'[a].ident = mem[a].ident
                        /\ mem'[a].forward = Marked
      OBVIOUS
    <2>1. k \in Kinds /\ mem[a] \in Objects(k)
      BY ObjectFacts
    <2>2. /\ mem'[a] \in Objects(k)
          /\ mem'[a].forward = Marked
          /\ mem'[a].kind = k
          /\ mem'[a].fields = mem[a].fields
          /\ mem'[a].ident = mem[a].ident
      <3>1. mem'[a] = [mem[a] EXCEPT !.forward = Marked] /\ Marked \in Addrs \cup {NULL, Marked}
        BY <1>1
      <3>2. QED
        BY <2>1, <3>1, ForwardSet
    <2>3. QED
      BY <2>1, <2>2, ObjectsAreNotNull
  <1>3. Starts' = Starts
    BY <1>1, <1>2 DEF Starts
  <1>4. \A a \in Addrs : mem'[a] = NULL \/ \E k \in Kinds : mem'[a] \in Objects(k)
    BY <1>1, <1>2 DEF TypeOK
  <1>5. \A a \in Starts : /\ mem'[a].kind = mem[a].kind
                          /\ mem'[a].fields = mem[a].fields
                          /\ mem'[a].ident = mem[a].ident
                          /\ mem'[a].forward = IF a \in S THEN Marked ELSE mem[a].forward
    BY <1>1, <1>2 DEF Starts
  <1>6. QED
    BY <1>1, <1>3, <1>4, <1>5

LEMMA StartCollectionKeeps ==
  ASSUME IInv, NEW t \in Threads, StartCollection(t)
  PROVE  IInv'
  <1>1. /\ phase = "idle" /\ phase' = "mark" /\ pc[t] = "full"
        /\ mem' = Mark(RootSet)
        /\ workList' = SetToSeq(RootSet)
        /\ pc' = [pc EXCEPT ![t] = "collect"]
        /\ UNCHANGED <<wanted, roots, lastEnd, scanner, calcEnd, liveList, cursor>>
    BY DEF StartCollection
  <1>2. TypeOK /\ AtRest /\ Calls /\ Registers
    BY <1>1 DEF IInv
  <1>3. RootSet \in SUBSET Starts /\ Starts \in SUBSET Addrs
    BY <1>2 DEF AtRest, RootsIn, RootSet, Starts
  <1>4. workList' \in Seq(RootSet) /\ ToSet(workList') = RootSet
    BY <1>1, <1>3, SetToSeqFacts, AddrsAreFinite
  <1>5. /\ DOMAIN mem' = Addrs
        /\ \A a \in Addrs : mem'[a] = NULL \/ \E k \in Kinds : mem'[a] \in Objects(k)
        /\ Starts' = Starts
        /\ \A a \in Starts : /\ mem'[a].kind = mem[a].kind
                             /\ mem'[a].fields = mem[a].fields
                             /\ mem'[a].forward = IF a \in RootSet THEN Marked ELSE mem[a].forward
    BY <1>1, <1>2, <1>3, MarkFacts
  <1>6. TypeOK'
    <2>1. workList' \in Seq(Addrs)
      BY <1>3, <1>4
    <2>2. QED
      BY <1>1, <1>2, <1>5, <2>1 DEF TypeOK, Phases
  <1>7. Calls' /\ Registers'
    BY <1>1, <1>2 DEF TypeOK, Calls, Registers
  <1>8. Marked # NULL
    BY HeapAssumption
  <1>9. Survivors' = RootSet
    BY <1>2, <1>3, <1>5, <1>8 DEF Survivors, AtRest
  <1>10. Marking'
    <2>1. Arena'
      BY <1>1, <1>2, <1>5, ArenaStays DEF AtRest
    <2>2. RootsIn(Survivors)'
      BY <1>1, <1>9 DEF RootsIn, RootSet
    <2>3. \A a \in Starts' : mem'[a].forward \in {NULL, Marked} /\ Refers(a, Starts)'
      BY <1>2, <1>5 DEF AtRest, Refers
    <2>4. \A a \in Survivors' : a \in ToSet(workList')
      BY <1>4, <1>9
    <2>5. \A i \in DOMAIN workList' : workList'[i] \in Survivors'
      BY <1>4, <1>9 DEF ToSet
    <2>6. QED
      BY <2>1, <2>2, <2>3, <2>4, <2>5 DEF Marking
  <1>11. QED
    BY <1>1, <1>6, <1>7, <1>10 DEF IInv

\* The marked object is one whose references are all marked: an object is marked or done.
LEMMA MarkOneKeeps ==
  ASSUME FieldsAreSeen, IInv, MarkOne
  PROVE  IInv'
  <1> DEFINE h == Head(workList)
             new == {p \in Children(h) : mem[p].forward # Marked}
  <1>1. /\ phase = "mark" /\ workList # <<>>
        /\ mem' = Mark(new)
        /\ workList' = Tail(workList) \o SetToSeq(new)
        /\ UNCHANGED <<pc, wanted, roots, lastEnd, phase, scanner, calcEnd, liveList, cursor>>
    BY DEF MarkOne, WorkRest, threadVars
  <1>2. TypeOK /\ Marking /\ Calls /\ Registers
    BY <1>1 DEF IInv
  <1>3. /\ workList \in Seq(Addrs) /\ h = workList[1] /\ 1 \in DOMAIN workList
        /\ Len(workList) \in Nat /\ DOMAIN workList = 1..Len(workList)
    BY <1>1, <1>2 DEF TypeOK
  <1>4. h \in Survivors /\ h \in Starts
    BY <1>2, <1>3 DEF Marking, Survivors
  <1>5. mem[h].kind \in Kinds /\ ScannedWords(mem[h].kind) = Refs[mem[h].kind]
    BY <1>2, <1>4, ObjectFacts DEF FieldsAreSeen
  <1> HIDE DEF h
  <1>6. Children(h) \subseteq Starts
    BY <1>2, <1>4, <1>5 DEF Marking, Refers, Children
  <1>7. new \in SUBSET Starts /\ Starts \in SUBSET Addrs
    BY <1>6 DEF Starts
  <1>8. Refers(h, Survivors \cup new)
    <2> SUFFICES ASSUME NEW w \in Refs[mem[h].kind], mem[h].fields[w] # NULL
                 PROVE  mem[h].fields[w] \in Survivors \cup new
      BY DEF Refers
    <2>1. mem[h].fields[w] \in Children(h)
      BY <1>5 DEF Children
    <2>2. QED
      BY <1>6, <2>1, HeapAssumption DEF Survivors
  <1> HIDE DEF new
  <1>9. SetToSeq(new) \in Seq(new) /\ ToSet(SetToSeq(new)) = new
    BY <1>7, SetToSeqFacts, AddrsAreFinite
  <1>10. /\ DOMAIN mem' = Addrs
         /\ \A a \in Addrs : mem'[a] = NULL \/ \E k \in Kinds : mem'[a] \in Objects(k)
         /\ Starts' = Starts
         /\ \A a \in Starts : /\ mem'[a].kind = mem[a].kind
                              /\ mem'[a].fields = mem[a].fields
                              /\ mem'[a].forward = IF a \in new THEN Marked ELSE mem[a].forward
    BY <1>1, <1>2, <1>7, MarkFacts
  <1>11. Survivors' = Survivors \cup new
    BY <1>7, <1>10, HeapAssumption DEF Survivors
  <1>12. /\ workList' \in Seq(Addrs)
         /\ ToSet(workList') = ToSet(Tail(workList)) \cup new
         /\ ToSet(workList) = {h} \cup ToSet(Tail(workList))
    <2> DEFINE r == Tail(workList)
               q == SetToSeq(new)
    <2>1. /\ r \in Seq(Addrs) /\ Len(r) = Len(workList) - 1 /\ DOMAIN r = 1..Len(r)
          /\ \A i \in 1..Len(r) : r[i] = workList[i + 1]
      BY <1>1, <1>3
    <2>2. ToSet(workList) = {h} \cup ToSet(r)
      <3> HIDE DEF r
      <3>1. ToSet(workList) \subseteq {h} \cup ToSet(r)
        <4> SUFFICES ASSUME NEW i \in 1..Len(workList), i # 1
                     PROVE  workList[i] \in ToSet(r)
          BY <1>3 DEF ToSet
        <4>1. i - 1 \in 1..Len(r) /\ workList[i] = r[i - 1]
          BY <1>3, <2>1
        <4>2. QED
          BY <2>1, <4>1 DEF ToSet
      <3>2. {h} \cup ToSet(r) \subseteq ToSet(workList)
        <4> SUFFICES ASSUME NEW i \in 1..Len(r)
                     PROVE  r[i] \in ToSet(workList)
          BY <1>3, <2>1 DEF ToSet
        <4>1. i + 1 \in 1..Len(workList) /\ r[i] = workList[i + 1]
          BY <1>3, <2>1
        <4>2. QED
          BY <1>3, <4>1 DEF ToSet
      <3>3. QED
        BY <3>1, <3>2
    <2> HIDE DEF r, q
    <2>3. q \in Seq(Addrs) /\ ToSet(q) = new
      BY <1>7, <1>9 DEF q
    <2>4. workList' = r \o q
      BY <1>1 DEF r, q
    <2>5. ToSet(r \o q) = ToSet(r) \cup ToSet(q)
      BY <2>1, <2>3, AppendedElements
    <2>6. QED
      BY <2>1, <2>2, <2>3, <2>4, <2>5 DEF r
  <1>13. TypeOK'
    BY <1>1, <1>2, <1>10, <1>12 DEF TypeOK
  <1>14. Calls' /\ Registers'
    BY <1>1, <1>2 DEF Calls, Registers
  <1>15. Marking'
    <2>1. Arena'
      BY <1>1, <1>2, <1>10, ArenaStays DEF Marking
    <2>2. RootsIn(Survivors)'
      BY <1>1, <1>2, <1>11 DEF Marking, RootsIn
    <2>3. \A a \in Starts' : mem'[a].forward \in {NULL, Marked} /\ Refers(a, Starts)'
      BY <1>2, <1>10 DEF Marking, Refers
    <2>4. \A i \in DOMAIN workList' : workList'[i] \in Survivors'
      <3>1. ToSet(workList) \subseteq Survivors
        BY <1>2 DEF Marking, ToSet
      <3>2. ToSet(workList') \subseteq Survivors'
        BY <1>11, <1>12, <3>1
      <3>3. QED
        BY <3>2 DEF ToSet
    <2>5. \A a \in Survivors' : a \in ToSet(workList') \/ Refers(a, Survivors)'
      <3> SUFFICES ASSUME NEW a \in Survivors', a \notin ToSet(workList')
                   PROVE  Refers(a, Survivors)'
        OBVIOUS
      <3>1. a \in Survivors /\ a \in Starts
        BY <1>7, <1>11, <1>12 DEF Survivors
      <3>2. Refers(a, Survivors \cup new)
        BY <1>2, <1>8, <1>12, <3>1 DEF Marking, Refers
      <3>3. QED
        BY <1>10, <1>11, <3>1, <3>2 DEF Refers
    <2>6. QED
      BY <2>1, <2>2, <2>3, <2>4, <2>5 DEF Marking
  <1>16. QED
    BY <1>1, <1>13, <1>14, <1>15 DEF IInv

LEMMA MarkEndKeeps ==
  ASSUME IInv, MarkEnd
  PROVE  IInv'
  <1>1. /\ phase = "mark" /\ phase' = "forward" /\ workList = <<>>
        /\ UNCHANGED <<pc, wanted, roots, mem, lastEnd, workList, scanner, calcEnd, liveList,
                       cursor>>
    BY DEF MarkEnd, threadVars
  <1>2. /\ TypeOK /\ Marking /\ Calls /\ Registers
        /\ liveList = <<>> /\ scanner = 0 /\ calcEnd = 0
    BY <1>1 DEF IInv, Registers
  <1>3. TypeOK'
    BY <1>1, <1>2 DEF TypeOK, Phases
  <1>4. Calls' /\ Registers'
    BY <1>1, <1>2 DEF Calls, Registers
  <1>5. Starts' = Starts /\ Survivors' = Survivors
    BY <1>1 DEF Starts, Survivors
  <1>6. ToSet(workList) = {}
    BY <1>1 DEF ToSet
  <1>7. \A a \in Survivors : Refers(a, Survivors)
    BY <1>2, <1>6 DEF Marking
  <1>8. Placed(0, calcEnd)
    BY <1>2 DEF Placed, PlacedIn
  <1>9. ToSet(liveList) = {} /\ {a \in Survivors : a < scanner} = {}
    BY <1>2 DEF ToSet, Survivors, Starts, Addrs
  <1>10. Forwarding
    <2>1. scanner <= lastEnd /\ (scanner < lastEnd => scanner \in Starts)
      BY <1>2 DEF TypeOK, Marking, Arena, Packed
    <2>2. \A i \in DOMAIN liveList : EndIn(mem, liveList[i]) <= scanner
      BY <1>2
    <2>3. QED
      BY <1>2, <1>7, <1>8, <1>9, <2>1, <2>2 DEF Marking, Forwarding
  <1>11. Forwarding'
    <2>1. Arena'
      BY <1>1, <1>2, <1>5, ArenaStays DEF Marking
    <2>2. Placed(0, calcEnd)'
      BY <1>1, <1>8 DEF Placed
    <2>3. QED
      BY <1>1, <1>5, <1>10, <2>1, <2>2 DEF Forwarding, RootsIn, Refers
  <1>12. QED
    BY <1>1, <1>3, <1>4, <1>11 DEF IInv

----------------------------------------------------------------------------
(* Computing places *)

LEMMA ForwardOneKeeps ==
  ASSUME IInv, ForwardOne
  PROVE  IInv'
  <1> DEFINE a == scanner
             k == mem[a].kind
             l == liveList
             n == Len(liveList)
  <1>1. /\ phase = "forward" /\ a < lastEnd
        /\ scanner' = a + Size(k)
        /\ UNCHANGED <<pc, wanted, roots, lastEnd, phase, workList, cursor>>
    BY DEF ForwardOne, threadVars
  <1>2. TypeOK /\ Forwarding /\ Calls /\ Registers
    BY <1>1 DEF IInv
  <1>3. /\ a \in Starts /\ a \in Addrs /\ a \in Nat
        /\ mem[a].forward \in {NULL, Marked}
        /\ k \in Kinds /\ mem[a] \in Objects(k)
        /\ Size(k) \in Nat /\ Size(k) > 0
    BY <1>1, <1>2, ObjectFacts, KindFacts DEF Forwarding
  <1>4. /\ scanner' \in Nat /\ scanner' <= lastEnd /\ scanner' > a
        /\ scanner' < lastEnd => scanner' \in Starts
        /\ \A b \in Starts : a < b => scanner' <= b
        /\ lastEnd \in Nat /\ lastEnd <= Capacity /\ Capacity \in Nat
        /\ calcEnd \in Nat /\ calcEnd <= a
    <2>1. EndOf(a) = scanner'
      BY <1>1 DEF EndOf
    <2>2. lastEnd \in 0..Capacity /\ Capacity \in Nat /\ calcEnd \in 0..Capacity
      BY <1>2, HeapAssumption DEF TypeOK
    <2>3. EndOf(a) <= lastEnd /\ (EndOf(a) < lastEnd => EndOf(a) \in Starts)
      BY <1>1, <1>2, <1>3 DEF Forwarding, Arena, Packed
    <2>4. \A b \in Starts : a < b => EndOf(a) <= b
      BY <1>2, <1>3 DEF Forwarding, Arena, Packed
    <2>5. calcEnd <= a
      BY <1>2 DEF Forwarding
    <2>6. QED
      BY <1>1, <1>3, <2>1, <2>2, <2>3, <2>4, <2>5
  <1>5. /\ l \in Seq(Addrs) /\ n \in Nat /\ DOMAIN l = 1..n
        /\ \A i \in 1..n : /\ l[i] \in Starts /\ l[i] \in Nat /\ l[i] < a
                           /\ EndIn(mem, l[i]) \in Nat /\ EndIn(mem, l[i]) <= a
    <2>1. l \in Seq(Addrs) /\ n \in Nat /\ DOMAIN l = 1..n
      BY <1>2 DEF TypeOK
    <2>2. \A i \in 1..n : l[i] \in Starts /\ EndIn(mem, l[i]) <= a
      BY <1>2, <2>1 DEF Forwarding, Placed, PlacedIn, Starts
    <2>3. \A i \in 1..n : /\ l[i] \in Nat /\ EndIn(mem, l[i]) \in Nat
                           /\ l[i] < EndIn(mem, l[i])
      BY <1>2, <2>2, ObjectFacts DEF EndIn
    <2>4. QED
      BY <1>3, <2>1, <2>2, <2>3
  <1> HIDE DEF a, k, l, n
  <1>6. Calls' /\ Registers'
    BY <1>1, <1>2 DEF Calls, Registers
  <1>7. \A S : RootsIn(S) => \A s \in Slots : roots'[s] \in S \cup {NULL}
    BY <1>1 DEF RootsIn
  <1>8. CASE mem[a].forward = Marked
    <2> DEFINE c == calcEnd
    <2>1. /\ mem' = [mem EXCEPT ![a] = [mem[a] EXCEPT !.forward = c]]
          /\ calcEnd' = c + Size(k)
          /\ liveList' = Append(l, a)
      BY <1>8 DEF ForwardOne, NewPlace, a, k, l
    <2>2. c \in Addrs /\ c \in Nat /\ c # NULL /\ calcEnd' <= scanner' /\ calcEnd' \in 0..Capacity
      BY <1>1, <1>3, <1>4, <2>1, HeapAssumption DEF Addrs, a, k
    <2> HIDE DEF c
    <2>3. /\ mem'[a] \in Objects(k) /\ mem'[a].forward = c /\ mem'[a].kind = k
          /\ mem'[a].fields = mem[a].fields /\ mem'[a] # NULL
      <3>1. mem'[a] = [mem[a] EXCEPT !.forward = c] /\ c \in Addrs \cup {NULL, Marked}
        BY <1>2, <1>3, <2>1, <2>2 DEF TypeOK
      <3>2. /\ mem'[a] \in Objects(k) /\ mem'[a].forward = c /\ mem'[a].kind = k
            /\ mem'[a].fields = mem[a].fields
        BY <1>3, <3>1, ForwardSet
      <3>3. QED
        BY <1>3, <3>2, ObjectsAreNotNull
    <2>4. DOMAIN mem' = Addrs /\ \A b \in Addrs \ {a} : mem'[b] = mem[b]
      BY <1>2, <2>1 DEF TypeOK
    <2>5. Starts' = Starts
      BY <1>3, <2>3, <2>4 DEF Starts
    <2>6. \A b \in Starts : /\ mem'[b].kind = mem[b].kind /\ mem'[b].fields = mem[b].fields
                            /\ EndIn(mem', b) = EndIn(mem, b) /\ EndOf(b)' = EndOf(b)
                            /\ b # a => mem'[b].forward = mem[b].forward
      <3>1. \A b \in Starts : /\ mem'[b].kind = mem[b].kind /\ mem'[b].fields = mem[b].fields
                              /\ b # a => mem'[b].forward = mem[b].forward
        BY <2>3, <2>4 DEF Starts, k
      <3>2. QED
        BY <3>1 DEF EndOf, EndIn
    <2>7. Survivors' = Survivors /\ a \in Survivors
      <3>1. Marked # NULL
        BY HeapAssumption
      <3>2. \A b \in Starts : mem'[b].forward # NULL <=> mem[b].forward # NULL
        BY <1>8, <2>2, <2>3, <2>6, <3>1
      <3>3. QED
        BY <1>3, <1>8, <2>5, <3>1, <3>2 DEF Survivors
    <2>8. /\ liveList' \in Seq(Addrs) /\ Len(liveList') = n + 1 /\ DOMAIN liveList' = 1..n + 1
          /\ liveList'[n + 1] = a
          /\ \A i \in 1..n : liveList'[i] = l[i]
      BY <1>3, <1>5, <2>1 DEF n
    <2>9. TypeOK'
      <3>1. scanner' \in 0..Capacity
        BY <1>4
      <3>2. cursor' \in 0..Len(liveList')
        BY <1>1, <1>2, <1>5, <2>8 DEF Registers
      <3>3. \A b \in Addrs : mem'[b] = NULL \/ \E j \in Kinds : mem'[b] \in Objects(j)
        BY <1>2, <1>3, <2>3, <2>4 DEF TypeOK
      <3>4. QED
        BY <1>1, <1>2, <2>2, <2>4, <2>8, <3>1, <3>2, <3>3 DEF TypeOK
    <2>10. Arena'
      BY <1>1, <1>2, <2>5, <2>6, ArenaStays DEF Forwarding
    <2>11. \A b \in Starts' : b >= scanner' => mem'[b].forward \in {NULL, Marked}
      <3> SUFFICES ASSUME NEW b \in Starts, b >= scanner'
                   PROVE  mem'[b].forward \in {NULL, Marked}
        BY <2>5
      <3>1. b \in Nat /\ b >= a /\ b # a
        BY <1>3, <1>4 DEF Starts, Addrs
      <3>2. QED
        BY <1>2, <2>6, <3>1 DEF Forwarding, a
    <2>12. Placed(0, calcEnd)'
      <3>1. \A i \in 1..n : /\ l[i] \in Starts /\ l[i] # a
                            /\ mem'[l[i]].forward = mem[l[i]].forward
                            /\ mem[l[i]].forward \in Addrs /\ mem[l[i]].forward <= l[i]
                            /\ PlaceAfter(mem', l[i]) = PlaceAfter(mem, l[i])
        <4>1. \A i \in 1..n : l[i] \in Starts /\ l[i] # a
          BY <1>3, <1>5
        <4>2. \A i \in 1..n : mem[l[i]].forward \in Addrs /\ mem[l[i]].forward <= l[i]
          BY <1>2, <1>5 DEF Forwarding, Placed, PlacedIn, l
        <4>3. QED
          BY <2>6, <4>1, <4>2 DEF PlaceAfter
      <3>2. \A i \in DOMAIN liveList' : /\ liveList'[i] \in Starts'
                                        /\ mem'[liveList'[i]].forward \in Addrs
                                        /\ mem'[liveList'[i]].forward <= liveList'[i]
        <4> SUFFICES ASSUME NEW i \in 1..n + 1
                     PROVE  /\ liveList'[i] \in Starts'
                            /\ mem'[liveList'[i]].forward \in Addrs
                            /\ mem'[liveList'[i]].forward <= liveList'[i]
          BY <2>8
        <4>1. CASE i = n + 1
          BY <1>3, <1>4, <2>2, <2>3, <2>5, <2>8, <4>1 DEF c
        <4>2. CASE i \in 1..n
          BY <2>5, <2>8, <3>1, <4>2
        <4>3. QED
          BY <1>5, <4>1, <4>2
      <3>3. \A i, j \in DOMAIN liveList' : i < j => EndIn(mem', liveList'[i]) <= liveList'[j]
        <4> SUFFICES ASSUME NEW i \in 1..n + 1, NEW j \in 1..n + 1, i < j
                     PROVE  EndIn(mem', liveList'[i]) <= liveList'[j]
          BY <2>8
        <4>1. i \in 1..n /\ liveList'[i] = l[i] /\ EndIn(mem', liveList'[i]) = EndIn(mem, l[i])
          BY <1>5, <2>6, <2>8
        <4>2. CASE j = n + 1
          BY <1>5, <2>8, <4>1, <4>2
        <4>3. CASE j \in 1..n
          BY <1>2, <1>5, <2>8, <4>1, <4>3 DEF Forwarding, Placed, PlacedIn, l
        <4>4. QED
          BY <1>5, <4>2, <4>3
      <3>4. liveList' # <<>> /\ PlaceAfter(mem', liveList'[Len(liveList')]) = calcEnd'
        BY <1>5, <2>1, <2>3, <2>8 DEF PlaceAfter
      <3>5. mem'[liveList'[1]].forward = 0
        <4>1. CASE n = 0
          <5>1. l = <<>>
            BY <1>5, <4>1 DEF n, l
          <5>2. c = 0
            BY <1>2, <5>1 DEF Forwarding, Placed, PlacedIn, l, c
          <5>3. QED
            BY <2>3, <2>8, <4>1, <5>2
        <4>2. CASE n # 0
          <5>1. l # <<>> /\ 1 \in 1..n
            BY <1>5, <4>2 DEF n, l
          <5>2. mem[l[1]].forward = 0
            BY <1>2, <5>1 DEF Forwarding, Placed, PlacedIn, l
          <5>3. QED
            BY <2>8, <3>1, <5>1, <5>2
        <4>3. QED
          BY <4>1, <4>2
      <3>6. \A i \in DOMAIN liveList' : i + 1 \in DOMAIN liveList' =>
              mem'[liveList'[i + 1]].forward = PlaceAfter(mem', liveList'[i])
        <4> SUFFICES ASSUME NEW i \in 1..n + 1, i + 1 \in 1..n + 1
                     PROVE  mem'[liveList'[i + 1]].forward = PlaceAfter(mem', liveList'[i])
          BY <2>8
        <4>1. i \in 1..n /\ liveList'[i] = l[i] /\ PlaceAfter(mem', liveList'[i]) = PlaceAfter(mem, l[i])
          BY <1>5, <2>8, <3>1 DEF PlaceAfter
        <4>2. CASE i = n
          <5>1. l # <<>>
            BY <1>5, <4>1 DEF n, l
          <5>2. PlaceAfter(mem, l[n]) = c
            BY <1>2, <5>1 DEF Forwarding, Placed, PlacedIn, l, n, c
          <5>3. QED
            BY <2>3, <2>8, <4>1, <4>2, <5>2
        <4>3. CASE i # n
          <5>1. i + 1 \in 1..n
            BY <1>5, <4>1, <4>3
          <5>2. mem[l[i + 1]].forward = PlaceAfter(mem, l[i])
            BY <1>2, <1>5, <4>1, <5>1 DEF Forwarding, Placed, PlacedIn, l
          <5>3. QED
            BY <2>8, <3>1, <4>1, <5>1, <5>2
        <4>4. QED
          BY <4>2, <4>3
      <3>7. \A i, j \in DOMAIN liveList' : i < j =>
               PlaceAfter(mem', liveList'[i]) <= mem'[liveList'[j]].forward
        <4> SUFFICES ASSUME NEW i \in 1..n + 1, NEW j \in 1..n + 1, i < j
                     PROVE  PlaceAfter(mem', liveList'[i]) <= mem'[liveList'[j]].forward
          BY <2>8
        <4>1. i \in 1..n /\ PlaceAfter(mem', liveList'[i]) = PlaceAfter(mem, l[i])
          <5>1. i \in 1..n
            BY <1>5
          <5>2. QED
            BY <2>8, <3>1, <5>1
        <4>2. CASE j = n + 1
          <5>1. l # <<>> /\ n \in 1..n
            BY <1>5, <4>1 DEF n, l
          <5>2. PlaceAfter(mem, l[n]) = c
            BY <1>2, <5>1 DEF Forwarding, Placed, PlacedIn, l, n, c
          <5>3. i < n => PlaceAfter(mem, l[i]) <= mem[l[n]].forward
            BY <1>2, <1>5, <4>1, <5>1 DEF Forwarding, Placed, PlacedIn, l
          <5>4. mem[l[n]].forward < PlaceAfter(mem, l[n]) /\ mem[l[n]].forward \in Nat
            <6>1. mem[l[n]].kind \in Kinds /\ mem[l[n]].forward \in Nat
              BY <1>2, <1>5, <3>1, <5>1, ObjectFacts DEF Addrs
            <6>2. Size(mem[l[n]].kind) \in Nat /\ Size(mem[l[n]].kind) > 0
              BY <6>1, KindFacts
            <6>3. QED
              BY <6>1, <6>2 DEF PlaceAfter
          <5>5. PlaceAfter(mem, l[i]) \in Nat
            <6>1. mem[l[i]].kind \in Kinds /\ mem[l[i]].forward \in Nat
              BY <1>2, <1>5, <3>1, <4>1, ObjectFacts DEF Addrs
            <6>2. Size(mem[l[i]].kind) \in Nat
              BY <6>1, KindFacts
            <6>3. QED
              BY <6>1, <6>2 DEF PlaceAfter
          <5>6. i < n \/ i = n
            BY <1>5, <4>1
          <5>7. PlaceAfter(mem, l[i]) <= c
            BY <2>2, <5>2, <5>3, <5>4, <5>5, <5>6
          <5>8. QED
            BY <2>3, <2>8, <4>1, <4>2, <5>7
        <4>3. CASE j \in 1..n
          <5>1. PlaceAfter(mem, l[i]) <= mem[l[j]].forward
            BY <1>2, <1>5, <4>1, <4>3 DEF Forwarding, Placed, PlacedIn, l
          <5>2. QED
            BY <2>8, <3>1, <4>1, <4>3, <5>1
        <4>4. QED
          BY <1>5, <4>2, <4>3
      <3>8. \A i \in DOMAIN liveList' : /\ liveList'[i] \in Addrs /\ mem'[liveList'[i]] # NULL
                                        /\ mem'[liveList'[i]].forward \in Addrs
                                        /\ mem'[liveList'[i]].forward <= liveList'[i]
        BY <3>2 DEF Starts
      <3>9. PlacedIn(liveList', mem', 0, calcEnd')
        BY <3>3, <3>4, <3>5, <3>6, <3>8, <3>7 DEF PlacedIn
      <3>10. QED
        BY <3>9 DEF Placed
    <2>13. \A i \in DOMAIN liveList' : EndIn(mem', liveList'[i]) <= scanner'
      <3> SUFFICES ASSUME NEW i \in 1..n + 1
                   PROVE  EndIn(mem', liveList'[i]) <= scanner'
        BY <2>8
      <3>1. CASE i = n + 1
        BY <1>1, <1>3, <1>4, <2>3, <2>8, <3>1 DEF EndIn, a, k
      <3>2. CASE i \in 1..n
        <4>1. EndIn(mem', liveList'[i]) = EndIn(mem, l[i])
          BY <1>5, <2>6, <2>8, <3>2
        <4>2. QED
          BY <1>3, <1>4, <1>5, <3>2, <4>1
      <3>3. QED
        BY <1>5, <3>1, <3>2
    <2>14. ToSet(liveList') = {b \in Survivors' : b < scanner'}
      <3>1. ToSet(liveList') = ToSet(l) \cup {a}
        BY <1>5, <2>8 DEF ToSet
      <3>2. ToSet(l) = {b \in Survivors : b < a}
        BY <1>2 DEF Forwarding, l, a
      <3>3. \A b \in Survivors : b < scanner' <=> b < a \/ b = a
        <4> SUFFICES ASSUME NEW b \in Survivors
                     PROVE  b < scanner' <=> b < a \/ b = a
          OBVIOUS
        <4>1. b \in Starts /\ b \in Nat
          BY DEF Survivors, Starts, Addrs
        <4>2. a < b => scanner' <= b
          BY <1>4, <4>1
        <4>3. QED
          BY <1>3, <1>4, <4>1, <4>2
      <3>4. QED
        BY <2>7, <3>1, <3>2, <3>3
    <2>15. \A b \in Survivors' : Refers(b, Survivors)'
      BY <1>2, <2>6, <2>7 DEF Forwarding, Refers, Survivors
    <2>16. Forwarding'
      BY <1>1, <1>2, <1>4, <1>7, <2>2, <2>5, <2>7, <2>10, <2>11, <2>12, <2>13, <2>14, <2>15
      DEF Forwarding, RootsIn
    <2>17. QED
      BY <1>1, <1>6, <2>9, <2>16 DEF IInv
  <1>9. CASE mem[a].forward # Marked
    <2>1. /\ UNCHANGED <<mem, calcEnd, liveList>>
          /\ mem[a].forward = NULL
      BY <1>3, <1>9 DEF ForwardOne, a
    <2>2. Starts' = Starts /\ Survivors' = Survivors /\ a \notin Survivors
      BY <2>1 DEF Starts, Survivors
    <2>3. TypeOK'
      BY <1>1, <1>2, <1>4, <2>1 DEF TypeOK
    <2>4. Arena'
      BY <1>1, <1>2, <2>1, <2>2, ArenaStays DEF Forwarding
    <2>5. Placed(0, calcEnd)'
      BY <1>2, <2>1, <2>2 DEF Forwarding, Placed
    <2>6. \A b \in Starts' : b >= scanner' => mem'[b].forward \in {NULL, Marked}
      <3> SUFFICES ASSUME NEW b \in Starts, b >= scanner'
                   PROVE  mem[b].forward \in {NULL, Marked}
        BY <2>1, <2>2
      <3>1. b \in Nat /\ b >= a
        BY <1>3, <1>4 DEF Starts, Addrs
      <3>2. QED
        BY <1>2, <3>1 DEF Forwarding, a
    <2>7. \A i \in DOMAIN liveList' : EndIn(mem', liveList'[i]) <= scanner'
      <3> SUFFICES ASSUME NEW i \in 1..n
                   PROVE  EndIn(mem, l[i]) <= scanner'
        BY <1>5, <2>1 DEF l
      <3>1. QED
        BY <1>3, <1>4, <1>5
    <2>8. ToSet(liveList') = {b \in Survivors' : b < scanner'}
      <3>1. ToSet(liveList) = {b \in Survivors : b < a}
        BY <1>2 DEF Forwarding, a
      <3>2. \A b \in Survivors : b < scanner' <=> b < a
        <4> SUFFICES ASSUME NEW b \in Survivors
                     PROVE  b < scanner' <=> b < a
          OBVIOUS
        <4>1. b \in Starts /\ b \in Nat /\ b # a
          BY <2>2 DEF Survivors, Starts, Addrs
        <4>2. a < b => scanner' <= b
          BY <1>4, <4>1
        <4>3. QED
          BY <1>3, <1>4, <4>1, <4>2
      <3>3. QED
        BY <2>1, <2>2, <3>1, <3>2
    <2>9. calcEnd' <= scanner'
      BY <1>3, <1>4, <2>1
    <2>10. Forwarding'
      BY <1>1, <1>2, <1>4, <1>7, <2>1, <2>2, <2>4, <2>5, <2>6, <2>7, <2>8, <2>9
      DEF Forwarding, RootsIn, Refers
    <2>11. QED
      BY <1>1, <1>6, <2>3, <2>10 DEF IInv
  <1>10. QED
    BY <1>8, <1>9

LEMMA ForwardEndKeeps ==
  ASSUME IInv, ForwardEnd
  PROVE  IInv'
  <1>1. /\ phase = "forward" /\ scanner = lastEnd
        /\ lastEnd' = calcEnd
        /\ phase' = "patchRoots"
        /\ UNCHANGED <<pc, wanted, roots, mem, workList, scanner, calcEnd, liveList, cursor>>
    BY DEF ForwardEnd, threadVars
  <1>2. TypeOK /\ Forwarding /\ Calls /\ Registers
    BY <1>1 DEF IInv
  <1>3. TypeOK'
    BY <1>1, <1>2 DEF TypeOK, Phases
  <1>4. Calls' /\ Registers'
    BY <1>1, <1>2 DEF Calls, Registers
  <1>5. Starts' = Starts /\ Survivors' = Survivors
    BY <1>1 DEF Starts, Survivors
  <1>6. Placed(0, lastEnd)'
    BY <1>1, <1>2, <1>5 DEF Forwarding, Placed
  <1>7. ToSet(liveList) = Survivors
    BY <1>1, <1>2 DEF Forwarding, Arena, Survivors
  <1>8. PatchingRoots'
    BY <1>1, <1>2, <1>5, <1>6, <1>7 DEF Forwarding, PatchingRoots, RootsIn, Refers
  <1>9. QED
    BY <1>1, <1>3, <1>4, <1>8 DEF IInv

----------------------------------------------------------------------------
(* Patching *)

LEMMA PlacedFacts ==
  ASSUME TypeOK, NEW from, NEW to, PlacedIn(liveList, mem, from, to)
  PROVE  /\ liveList \in Seq(Addrs) /\ Len(liveList) \in Nat
         /\ DOMAIN liveList = 1..Len(liveList)
         /\ \A i \in DOMAIN liveList :
              LET a == liveList[i]
                  k == mem[a].kind
              IN  /\ a \in Starts /\ a \in Addrs /\ a \in Nat /\ mem[a] # NULL
                  /\ k \in Kinds /\ mem[a] \in Objects(k)
                  /\ mem[a].forward \in Addrs /\ mem[a].forward \in Nat
                  /\ mem[a].forward <= a /\ mem[a].forward \notin {NULL, Marked}
                  /\ EndIn(mem, a) \in Nat /\ a < EndIn(mem, a)
         /\ \A i, j \in DOMAIN liveList : i # j => liveList[i] # liveList[j]
  <1>1. /\ liveList \in Seq(Addrs) /\ Len(liveList) \in Nat
        /\ DOMAIN liveList = 1..Len(liveList)
    BY DEF TypeOK
  <1>2. \A i \in DOMAIN liveList : /\ liveList[i] \in Starts
                                   /\ mem[liveList[i]].forward \in Addrs
                                   /\ mem[liveList[i]].forward <= liveList[i]
    BY DEF PlacedIn, Starts
  <1>3. \A i \in DOMAIN liveList :
          LET a == liveList[i]
              k == mem[a].kind
          IN  /\ a \in Starts /\ a \in Addrs /\ a \in Nat /\ mem[a] # NULL
              /\ k \in Kinds /\ mem[a] \in Objects(k)
              /\ mem[a].forward \in Addrs /\ mem[a].forward \in Nat
              /\ mem[a].forward <= a /\ mem[a].forward \notin {NULL, Marked}
              /\ EndIn(mem, a) \in Nat /\ a < EndIn(mem, a)
    <2> SUFFICES ASSUME NEW i \in DOMAIN liveList, NEW a, a = liveList[i]
                 PROVE  /\ a \in Starts /\ a \in Addrs /\ a \in Nat /\ mem[a] # NULL
                        /\ mem[a].kind \in Kinds /\ mem[a] \in Objects(mem[a].kind)
                        /\ mem[a].forward \in Addrs /\ mem[a].forward \in Nat
                        /\ mem[a].forward <= a /\ mem[a].forward \notin {NULL, Marked}
                        /\ EndIn(mem, a) \in Nat /\ a < EndIn(mem, a)
      OBVIOUS
    <2>1. a \in Starts /\ mem[a].forward \in Addrs /\ mem[a].forward <= a
      BY <1>2
    <2>2. mem[a].forward \in Nat /\ mem[a].forward \notin {NULL, Marked}
      BY <2>1, HeapAssumption DEF Addrs
    <2>3. /\ a \in Addrs /\ a \in Nat /\ mem[a] # NULL
          /\ mem[a].kind \in Kinds /\ mem[a] \in Objects(mem[a].kind)
          /\ EndIn(mem, a) \in Nat /\ a < EndIn(mem, a)
      BY <2>1, ObjectFacts DEF EndIn
    <2>4. QED
      BY <2>1, <2>2, <2>3
  <1>4. \A i, j \in DOMAIN liveList : i < j => EndIn(mem, liveList[i]) <= liveList[j]
    BY DEF PlacedIn
  <1>5. \A i, j \in DOMAIN liveList : i < j => liveList[i] # liveList[j]
    BY <1>1, <1>3, <1>4
  <1>6. \A i, j \in DOMAIN liveList : i # j => liveList[i] # liveList[j]
    <2> SUFFICES ASSUME NEW i \in DOMAIN liveList, NEW j \in DOMAIN liveList, i # j
                 PROVE  liveList[i] # liveList[j]
      OBVIOUS
    <2>1. i < j \/ j < i
      BY <1>1
    <2>2. QED
      BY <1>5, <2>1
  <1>7. QED
    BY <1>1, <1>3, <1>6

\* A reference to a survivor becomes one to its place.
LEMMA PatchedFacts ==
  ASSUME TypeOK, PlacedIn(liveList, mem, 0, lastEnd), ToSet(liveList) = Survivors,
         NEW p \in Survivors \cup {NULL}
  PROVE  Patched(p) \in Places \cup {NULL} /\ Patched(p) \in Addrs \cup {NULL}
  <1>1. CASE p = NULL
    BY <1>1 DEF Patched
  <1>2. CASE p \in Survivors
    <2>1. PICK i \in DOMAIN liveList : liveList[i] = p
      BY <1>2 DEF ToSet
    <2>2. mem[p].forward \in Addrs /\ mem[p].forward # Marked
      BY <2>1, PlacedFacts
    <2>3. p # NULL
      BY <1>2, HeapAssumption DEF Survivors, Starts
    <2>4. QED
      BY <2>1, <2>2, <2>3 DEF Patched, Places
  <1>3. QED
    BY <1>1, <1>2

LEMMA PatchRootsKeeps ==
  ASSUME IInv, PatchRoots
  PROVE  IInv'
  <1>1. /\ phase = "patchRoots" /\ phase' = "patch"
        /\ roots' = [s \in Slots |-> Patched(roots[s])]
        /\ UNCHANGED <<pc, wanted, mem, lastEnd, workList, scanner, calcEnd, liveList, cursor>>
    BY DEF PatchRoots, threadVars
  <1>2. TypeOK /\ PatchingRoots /\ Calls /\ Registers
    BY <1>1 DEF IInv
  <1>3. cursor = 0
    BY <1>1, <1>2 DEF Registers
  <1>4. \A s \in Slots : roots'[s] \in Places \cup {NULL} /\ roots'[s] \in Addrs \cup {NULL}
    BY <1>1, <1>2, PatchedFacts DEF PatchingRoots, Placed, RootsIn
  <1>5. TypeOK'
    <2>1. roots' \in [Slots -> Addrs \cup {NULL}]
      BY <1>1, <1>4
    <2>2. QED
      BY <1>1, <1>2, <2>1 DEF TypeOK, Phases
  <1>6. Calls' /\ Registers'
    BY <1>1, <1>2 DEF Calls, Registers
  <1>7. Starts' = Starts /\ Survivors' = Survivors /\ Places' = Places
    BY <1>1 DEF Starts, Survivors, Places
  <1>8. \A i \in DOMAIN liveList :
          ~(i <= cursor) /\ liveList[i] \in Survivors /\ Refers(liveList[i], Survivors)
    <2>1. DOMAIN liveList = 1..Len(liveList) /\ Len(liveList) \in Nat
      BY <1>2 DEF TypeOK
    <2>2. QED
      BY <1>2, <1>3, <2>1 DEF PatchingRoots, ToSet
  <1>9. \A i \in DOMAIN liveList' :
          Refers(liveList[i], IF i <= cursor THEN Places ELSE Survivors)'
    BY <1>1, <1>7, <1>8 DEF Refers
  <1>10. Patching'
    BY <1>1, <1>2, <1>4, <1>7, <1>9 DEF PatchingRoots, Patching, Placed, RootsIn
  <1>11. QED
    BY <1>1, <1>5, <1>6, <1>10 DEF IInv

LEMMA PatchOneKeeps ==
  ASSUME FieldsAreSeen, IInv, PatchOne
  PROVE  IInv'
  <1> DEFINE l == liveList
             c == cursor
             a == l[c + 1]
             k == mem[a].kind
             f == [w \in 0..Words[k] - 1 |->
                     IF w \in ScannedWords(k) THEN Patched(mem[a].fields[w])
                     ELSE mem[a].fields[w]]
  <1>1. /\ phase = "patch" /\ c < Len(l)
        /\ mem' = [mem EXCEPT ![a] = [mem[a] EXCEPT !.fields = f]]
        /\ cursor' = c + 1
        /\ UNCHANGED <<pc, wanted, roots, lastEnd, phase, workList, scanner, calcEnd, liveList>>
    BY DEF PatchOne, threadVars
  <1>2. TypeOK /\ Patching /\ Calls /\ Registers
    BY <1>1 DEF IInv
  <1>3. PlacedIn(liveList, mem, 0, lastEnd) /\ ToSet(liveList) = Survivors
    BY <1>2 DEF Patching, Placed
  <1>4. /\ Len(l) \in Nat /\ DOMAIN l = 1..Len(l) /\ c \in Nat /\ c + 1 \in DOMAIN l
    BY <1>1, <1>2 DEF TypeOK
  <1>5. /\ a \in Starts /\ a \in Addrs /\ mem[a] # NULL
        /\ k \in Kinds /\ mem[a] \in Objects(k)
    BY <1>2, <1>3, <1>4, PlacedFacts
  <1>6. \A i \in DOMAIN l : i # c + 1 => l[i] # a
    BY <1>2, <1>3, <1>4, PlacedFacts
  <1>7. /\ mem[a].fields \in [0..Words[k] - 1 -> Addrs \cup {NULL}]
        /\ ScannedWords(k) = Refs[k] /\ Refs[k] \subseteq 0..Words[k] - 1
    BY <1>2, <1>5, ObjectFacts, KindFacts DEF FieldsAreSeen
  <1>8. \A w \in Refs[k] : mem[a].fields[w] \in Survivors \cup {NULL}
    BY <1>2, <1>4 DEF Patching, Refers
  <1> HIDE DEF l, c, a, k
  <1>9. \A w \in Refs[k] : f[w] \in Places \cup {NULL} /\ f[w] \in Addrs \cup {NULL}
    BY <1>2, <1>3, <1>7, <1>8, PatchedFacts
  <1>10. f \in [0..Words[k] - 1 -> Addrs \cup {NULL}]
    <2>1. \A w \in 0..Words[k] - 1 : f[w] \in Addrs \cup {NULL}
      BY <1>7, <1>9
    <2>2. QED
      BY <2>1
  <1> HIDE DEF f
  <1>11. /\ mem'[a] \in Objects(k) /\ mem'[a].fields = f /\ mem'[a].kind = k
         /\ mem'[a].forward = mem[a].forward /\ mem'[a] # NULL
    <2>1. mem'[a] = [mem[a] EXCEPT !.fields = f]
      BY <1>1, <1>2, <1>5 DEF TypeOK
    <2>2. /\ mem'[a] \in Objects(k) /\ mem'[a].fields = f /\ mem'[a].kind = k
          /\ mem'[a].forward = mem[a].forward
      BY <1>5, <1>10, <2>1, FieldsSet
    <2>3. QED
      BY <1>5, <2>2, ObjectsAreNotNull
  <1>12. DOMAIN mem' = Addrs /\ \A b \in Addrs \ {a} : mem'[b] = mem[b]
    BY <1>1, <1>2 DEF TypeOK
  <1>13. TypeOK'
    <2>1. \A b \in Addrs : mem'[b] = NULL \/ \E j \in Kinds : mem'[b] \in Objects(j)
      BY <1>2, <1>5, <1>11, <1>12 DEF TypeOK
    <2>2. cursor' \in 0..Len(liveList')
      BY <1>1, <1>4 DEF l
    <2>3. QED
      BY <1>1, <1>2, <1>12, <2>1, <2>2 DEF TypeOK
  <1>14. Calls' /\ Registers'
    BY <1>1, <1>2 DEF Calls, Registers
  <1>15. Starts' = Starts
    BY <1>5, <1>11, <1>12 DEF Starts
  <1>16. \A b \in Starts : mem'[b].kind = mem[b].kind /\ mem'[b].forward = mem[b].forward
    BY <1>11, <1>12 DEF Starts, k
  <1>17. Survivors' = Survivors
    BY <1>15, <1>16 DEF Survivors
  <1>18. \A i \in DOMAIN l : l[i] \in Starts
    BY <1>2, <1>3, PlacedFacts DEF l
  <1>19. Places' = Places
    BY <1>1, <1>16, <1>18 DEF Places, l
  <1>20. PlacedIn(l, mem', 0, lastEnd)
    <2>1. PlacedIn(l, mem, 0, lastEnd)
      BY <1>3 DEF l
    <2>2. \A i \in DOMAIN l : /\ mem'[l[i]] # NULL
                              /\ mem'[l[i]].forward = mem[l[i]].forward
                              /\ EndIn(mem', l[i]) = EndIn(mem, l[i])
                              /\ PlaceAfter(mem', l[i]) = PlaceAfter(mem, l[i])
      BY <1>11, <1>12, <1>16, <1>18 DEF EndIn, PlaceAfter, Starts
    <2>3. l # <<>> => 1 \in DOMAIN l /\ Len(l) \in DOMAIN l
      <3>1. l \in Seq(Addrs)
        BY <1>2 DEF TypeOK, l
      <3>2. QED
        BY <1>4, <3>1
    <2>4. QED
      BY <2>1, <2>2, <2>3 DEF PlacedIn
  <1>21. \A i \in DOMAIN l : \A w \in Refs[mem'[l[i]].kind] :
           mem'[l[i]].fields[w] \in (IF i <= c + 1 THEN Places ELSE Survivors) \cup {NULL}
    <2> SUFFICES ASSUME NEW i \in DOMAIN l, NEW w \in Refs[mem'[l[i]].kind]
                 PROVE  mem'[l[i]].fields[w]
                          \in (IF i <= c + 1 THEN Places ELSE Survivors) \cup {NULL}
      OBVIOUS
    <2>1. CASE i = c + 1
      <3>1. l[i] = a /\ i <= c + 1
        BY <1>4, <2>1 DEF a
      <3>2. QED
        BY <1>9, <1>11, <3>1
    <2>2. CASE i # c + 1
      <3>1. mem'[l[i]] = mem[l[i]]
        BY <1>6, <1>12, <1>18, <2>2 DEF Starts
      <3>2. (i <= c + 1) <=> (i <= c)
        BY <1>4, <2>2
      <3>3. Refers(l[i], IF i <= c THEN Places ELSE Survivors)
        BY <1>2 DEF Patching, l, c
      <3>4. QED
        BY <3>1, <3>2, <3>3 DEF Refers
    <2>3. QED
      BY <2>1, <2>2
  <1>22. Patching'
    <2>1. Placed(0, lastEnd)'
      BY <1>1, <1>20 DEF Placed, l
    <2>2. ToSet(liveList)' = Survivors'
      BY <1>1, <1>3, <1>17
    <2>3. RootsIn(Places)'
      BY <1>1, <1>2, <1>19 DEF Patching, RootsIn
    <2>4. \A i \in DOMAIN liveList' :
            Refers(liveList[i], IF i <= cursor THEN Places ELSE Survivors)'
      BY <1>1, <1>17, <1>19, <1>21 DEF Refers, l
    <2>5. QED
      BY <2>1, <2>2, <2>3, <2>4 DEF Patching
  <1>23. QED
    BY <1>1, <1>13, <1>14, <1>22 DEF IInv

LEMMA PatchEndKeeps ==
  ASSUME IInv, PatchEnd
  PROVE  IInv'
  <1>1. /\ phase = "patch" /\ phase' = "move" /\ cursor = Len(liveList)
        /\ UNCHANGED <<pc, wanted, roots, mem, lastEnd, workList, scanner, calcEnd, liveList,
                       cursor>>
    BY DEF PatchEnd, threadVars
  <1>2. TypeOK /\ Patching /\ Calls /\ Registers
    BY <1>1 DEF IInv
  <1>3. TypeOK'
    BY <1>1, <1>2 DEF TypeOK, Phases
  <1>4. Calls' /\ Registers'
    BY <1>1, <1>2 DEF Calls, Registers
  <1>5. MovedEnd = 0 /\ MovedTo = {}
    <2>1. MovedEnd = 0
      BY <1>2 DEF Patching, Placed, PlacedIn, MovedEnd
    <2>2. \A a \in Starts : ~(a < 0)
      BY DEF Starts, Addrs
    <2>3. QED
      BY <2>1, <2>2 DEF MovedTo
  <1>6. DOMAIN liveList = 1..Len(liveList) /\ Len(liveList) \in Nat
    BY <1>2 DEF TypeOK
  <1>7. Moving
    <2>1. Packed(MovedEnd)
      BY <1>5 DEF Packed, Starts, Addrs
    <2>2. \A i \in DOMAIN liveList : Refers(liveList[i], Places)
      BY <1>1, <1>2, <1>6 DEF Patching
    <2>3. QED
      BY <1>2, <1>5, <2>1, <2>2 DEF Patching, Moving, RootsIn, Refers
  <1>8. Starts' = Starts /\ MovedEnd' = MovedEnd /\ MovedTo' = MovedTo /\ Places' = Places
    BY <1>1 DEF Starts, MovedEnd, MovedTo, Places
  <1>9. \A a \in Starts : EndOf(a)' = EndOf(a)
    BY <1>1 DEF EndOf
  <1>10. Moving'
    <2>1. Packed(MovedEnd)'
      BY <1>7, <1>8, <1>9 DEF Moving, Packed
    <2>2. QED
      BY <1>1, <1>7, <1>8, <2>1 DEF Moving, Placed, RootsIn, Refers
  <1>11. QED
    BY <1>1, <1>3, <1>4, <1>10 DEF IInv

----------------------------------------------------------------------------
(* Moving *)

\* The survivor that moves, where its place begins and ends, and what is written there.
First == liveList[1]
FirstPlace == mem[First].forward
FirstEnd == FirstPlace + Size(mem[First].kind)
Unforwarded == [mem[First] EXCEPT !.forward = NULL]

\* A survivor is written at the end of what has moved: it covers free space, dead objects
\* and its own old place, but neither a moved object nor a survivor that still has to move.
LEMMA WrittenSpares ==
  ASSUME TypeOK, Moving, liveList # <<>>, mem' = Written(Unforwarded, FirstPlace)
  PROVE  /\ DOMAIN mem' = Addrs
         /\ FirstPlace \in Nat /\ FirstEnd \in Nat /\ FirstPlace < FirstEnd
         /\ MovedEnd = FirstPlace
         /\ mem'[FirstPlace] \in Objects(mem[First].kind)
         /\ mem'[FirstPlace].kind = mem[First].kind
         /\ mem'[FirstPlace].fields = mem[First].fields
         /\ mem'[FirstPlace].ident = mem[First].ident
         /\ mem'[FirstPlace].forward = NULL
         /\ \A a \in Addrs \ {FirstPlace} : mem'[a] = mem[a] \/ mem'[a] = NULL
         /\ \A a \in MovedTo : a # FirstPlace /\ mem'[a] = mem[a]
         /\ \A i \in DOMAIN liveList : i # 1 => /\ liveList[i] # FirstPlace
                                                /\ mem'[liveList[i]] = mem[liveList[i]]
         /\ Starts' \cap (0..FirstEnd - 1) = MovedTo \cup {FirstPlace}
  <1> DEFINE x == First
             d == FirstPlace
             e == FirstEnd
             o == Unforwarded
             k == mem[x].kind
  <1>0. /\ x = liveList[1] /\ d = mem[x].forward /\ e = d + Size(mem[x].kind)
        /\ o = [mem[x] EXCEPT !.forward = NULL] /\ mem' = Written(o, d)
    BY DEF First, FirstPlace, FirstEnd, Unforwarded
  <1> HIDE DEF x, d, e, o
  <1>1. PlacedIn(liveList, mem, MovedEnd, lastEnd)
    BY DEF Moving, Placed
  <1>2. DOMAIN liveList = 1..Len(liveList) /\ Len(liveList) \in Nat /\ 1 \in DOMAIN liveList
    <2>1. liveList \in Seq(Addrs)
      BY DEF TypeOK
    <2>2. QED
      BY <2>1
  <1>3. /\ x \in Addrs /\ x \in Nat /\ mem[x] # NULL /\ k \in Kinds /\ mem[x] \in Objects(k)
        /\ d \in Addrs /\ d \in Nat /\ d <= x
        /\ Size(k) \in Nat /\ Size(k) > 0
    BY <1>0, <1>1, <1>2, PlacedFacts, KindFacts
  <1>4. MovedEnd = d
    BY <1>0 DEF MovedEnd
  <1>5. e \in Nat /\ d < e /\ e <= x + Size(k)
    BY <1>0, <1>3 DEF k
  <1> HIDE DEF k
  <1>6. /\ o \in Objects(k) /\ o.kind = k /\ o.fields = mem[x].fields /\ o.forward = NULL
        /\ o.ident = mem[x].ident
        /\ o # NULL
    <2>1. /\ o \in Objects(k) /\ o.kind = k /\ o.fields = mem[x].fields /\ o.forward = NULL
          /\ o.ident = mem[x].ident
      BY <1>0, <1>3 DEF Objects
    <2>2. QED
      BY <1>3, <2>1, ObjectsAreNotNull
  <1>7. /\ DOMAIN mem' = Addrs
        /\ \A a \in Addrs :
             mem'[a] = IF a = d THEN o
                       ELSE IF mem[a] # NULL /\ a < e /\ d < EndOf(a) THEN NULL
                       ELSE mem[a]
    <2>1. e = d + Size(o.kind)
      BY <1>0, <1>6 DEF k
    <2>2. QED
      BY <1>0, <2>1 DEF Written
  <1>8. mem'[d] = o /\ \A a \in Addrs \ {d} : mem'[a] = mem[a] \/ mem'[a] = NULL
    BY <1>3, <1>7
  <1>9. \A a \in MovedTo : /\ a \in Starts /\ a \in Addrs /\ a < d /\ a \in Nat
                           /\ EndOf(a) <= d /\ EndOf(a) \in Nat
    <2>1. \A a \in MovedTo : a \in Starts /\ a < d
      BY <1>4 DEF MovedTo
    <2>2. \A a \in MovedTo : a \in Addrs /\ a \in Nat /\ EndOf(a) \in Nat
      BY <2>1, ObjectFacts
    <2>3. \A a \in MovedTo : EndOf(a) <= d
      BY <1>4, <2>1 DEF Moving, Packed
    <2>4. QED
      BY <2>1, <2>2, <2>3
  <1>10. \A a \in MovedTo : a # d /\ mem'[a] = mem[a]
    BY <1>3, <1>7, <1>9
  <1>11. \A i \in DOMAIN liveList : i # 1 => /\ liveList[i] # d
                                             /\ mem'[liveList[i]] = mem[liveList[i]]
    <2> SUFFICES ASSUME NEW i \in DOMAIN liveList, i # 1, NEW b, b = liveList[i]
                 PROVE  b # d /\ mem'[b] = mem[b]
      OBVIOUS
    <2>1. 1 < i
      BY <1>2
    <2>2. EndIn(mem, x) <= b
      BY <1>0, <1>1, <1>2, <2>1 DEF PlacedIn
    <2>3. b \in Addrs /\ b \in Nat
      BY <1>1, PlacedFacts
    <2>4. EndIn(mem, x) = x + Size(k)
      BY DEF EndIn, k
    <2>5. e <= b
      BY <1>3, <1>5, <2>2, <2>3, <2>4
    <2>6. QED
      BY <1>3, <1>5, <1>7, <2>3, <2>5
  <1>12. Starts' \cap (0..e - 1) = MovedTo \cup {d}
    <2>1. MovedTo \cup {d} \subseteq Starts' \cap (0..e - 1)
      <3>1. d \in Starts' \cap (0..e - 1)
        BY <1>3, <1>5, <1>6, <1>8 DEF Starts
      <3>2. ASSUME NEW a \in MovedTo
            PROVE  a \in Starts' \cap (0..e - 1)
        <4>1. a \in 0..e - 1
          BY <1>3, <1>5, <1>9
        <4>2. a \in Starts'
          BY <1>9, <1>10 DEF Starts
        <4>3. QED
          BY <4>1, <4>2
      <3>3. QED
        BY <3>1, <3>2
    <2>2. ASSUME NEW a \in Starts', a \in 0..e - 1, a # d
          PROVE  a \in MovedTo
      <3>1. a \in Addrs /\ mem'[a] # NULL
        BY DEF Starts
      <3>2. mem[a] # NULL /\ ~(d < EndOf(a)) /\ a < e
        BY <1>5, <1>7, <2>2, <3>1
      <3>3. a \in Starts /\ a \in Nat /\ EndOf(a) \in Nat /\ a < EndOf(a)
        BY <3>1, <3>2, ObjectFacts DEF Starts
      <3>4. a < d
        BY <1>3, <3>2, <3>3
      <3>5. QED
        BY <1>4, <3>3, <3>4 DEF MovedTo
    <2>3. QED
      BY <2>1, <2>2
  <1>13. QED
    BY <1>3, <1>4, <1>5, <1>6, <1>7, <1>8, <1>10, <1>11, <1>12 DEF k, x, d, e

LEMMA MoveOneKeeps ==
  ASSUME IInv, MoveOne
  PROVE  IInv'
  <1> DEFINE l == liveList
             n == Len(liveList)
             x == l[1]
             k == mem[x].kind
             d == mem[x].forward
             e == d + Size(k)
             o == [mem[x] EXCEPT !.forward = NULL]
             r == Tail(l)
             seen == MovedTo \cup Places
  <1>1. /\ phase = "move" /\ l # <<>>
        /\ liveList' = r
        /\ mem' = Written(o, d)
        /\ cursor' = 0
        /\ UNCHANGED <<pc, wanted, roots, lastEnd, phase, workList, scanner, calcEnd>>
    <2>1. l # <<>> /\ l \in Seq(Addrs)
      BY DEF MoveOne, IInv, TypeOK
    <2>2. Head(l) = x
      BY <2>1
    <2>3. QED
      BY <2>1, <2>2 DEF MoveOne, threadVars
  <1>2. TypeOK /\ Moving /\ Calls /\ Registers
    BY <1>1 DEF IInv
  <1>3. /\ DOMAIN mem' = Addrs /\ d \in Nat /\ e \in Nat /\ d < e /\ MovedEnd = d
        /\ mem'[d] \in Objects(k) /\ mem'[d].kind = k
        /\ mem'[d].fields = mem[x].fields /\ mem'[d].forward = NULL
        /\ \A a \in Addrs \ {d} : mem'[a] = mem[a] \/ mem'[a] = NULL
        /\ \A a \in MovedTo : a # d /\ mem'[a] = mem[a]
        /\ \A i \in DOMAIN l : i # 1 => l[i] # d /\ mem'[l[i]] = mem[l[i]]
        /\ Starts' \cap (0..e - 1) = MovedTo \cup {d}
    <2>1. /\ First = x /\ FirstPlace = d /\ FirstEnd = e /\ Unforwarded = o
          /\ k = mem[x].kind /\ l = liveList
      BY DEF First, FirstPlace, FirstEnd, Unforwarded
    <2> HIDE DEF l, n, x, k, d, e, o, r, seen
    <2>2. QED
      BY <1>1, <1>2, <2>1, WrittenSpares
  <1>4. PlacedIn(l, mem, d, lastEnd)
    BY <1>2, <1>3 DEF Moving, Placed
  <1>5. /\ l \in Seq(Addrs) /\ n \in Nat /\ DOMAIN l = 1..n /\ 1 \in DOMAIN l
        /\ r \in Seq(Addrs) /\ Len(r) = n - 1 /\ DOMAIN r = 1..n - 1
        /\ \A i \in 1..n - 1 : r[i] = l[i + 1] /\ i + 1 \in DOMAIN l /\ i + 1 # 1
        /\ Len(r) \in Nat
    <2>1. l \in Seq(Addrs) /\ l # <<>>
      BY <1>1, <1>2 DEF TypeOK
    <2>2. QED
      BY <2>1
  <1>6. /\ k \in Kinds /\ d \in Addrs /\ x \in Starts
        /\ \A i \in DOMAIN l : l[i] \in Addrs /\ mem[l[i]] # NULL
    BY <1>2, <1>4, <1>5, PlacedFacts
  <1>7. PlacedIn(r, mem', e, lastEnd)
    <2>1. \A i \in 1..n - 1 : /\ r[i] = l[i + 1] /\ i + 1 \in DOMAIN l
                              /\ mem'[r[i]] = mem[l[i + 1]]
      BY <1>3, <1>5
    <2> HIDE DEF l, n, x, k, d, r
    <2>2. \A i \in DOMAIN r : /\ r[i] \in Addrs /\ mem'[r[i]] # NULL
                              /\ mem'[r[i]].forward \in Addrs /\ mem'[r[i]].forward <= r[i]
      <3> SUFFICES ASSUME NEW i \in 1..n - 1
                   PROVE  /\ r[i] \in Addrs /\ mem'[r[i]] # NULL
                          /\ mem'[r[i]].forward \in Addrs /\ mem'[r[i]].forward <= r[i]
        BY <1>5
      <3>1. r[i] = l[i + 1] /\ i + 1 \in DOMAIN l /\ mem'[r[i]] = mem[l[i + 1]]
        BY <2>1
      <3>2. /\ l[i + 1] \in Addrs /\ mem[l[i + 1]] # NULL
            /\ mem[l[i + 1]].forward \in Addrs /\ mem[l[i + 1]].forward <= l[i + 1]
        BY <1>4, <3>1 DEF PlacedIn
      <3>3. QED
        BY <3>1, <3>2
    <2>3. \A i, j \in DOMAIN r : i < j => EndIn(mem', r[i]) <= r[j]
      <3> SUFFICES ASSUME NEW i \in 1..n - 1, NEW j \in 1..n - 1, i < j
                   PROVE  EndIn(mem', r[i]) <= r[j]
        BY <1>5
      <3>1. EndIn(mem', r[i]) = EndIn(mem, l[i + 1])
        BY <2>1 DEF EndIn
      <3>2. i + 1 \in DOMAIN l /\ j + 1 \in DOMAIN l /\ i + 1 < j + 1
        BY <1>5
      <3>3. EndIn(mem, l[i + 1]) <= l[j + 1]
        BY <1>4, <3>2 DEF PlacedIn
      <3>4. QED
        BY <2>1, <3>1, <3>3
    <2>4. PlaceAfter(mem, l[1]) = e
      BY DEF PlaceAfter, x, d, k
    <2>5. r = <<>> => e = lastEnd
      <3> SUFFICES ASSUME r = <<>>
                   PROVE  e = lastEnd
        OBVIOUS
      <3>1. n = 1
        BY <1>5
      <3>2. l # <<>> /\ Len(l) = 1
        BY <1>5, <3>1 DEF n, l
      <3>3. PlaceAfter(mem, l[Len(l)]) = lastEnd
        BY <1>4, <3>2 DEF PlacedIn
      <3>4. QED
        BY <2>4, <3>2, <3>3
    <2>6. r # <<>> => mem'[r[1]].forward = e /\ PlaceAfter(mem', r[Len(r)]) = lastEnd
      <3> SUFFICES ASSUME r # <<>>
                   PROVE  mem'[r[1]].forward = e /\ PlaceAfter(mem', r[Len(r)]) = lastEnd
        OBVIOUS
      <3>1. n - 1 \in 1..n - 1 /\ 1 \in 1..n - 1 /\ Len(r) = n - 1
        BY <1>5
      <3>2. l # <<>> /\ Len(l) = n /\ n - 1 + 1 = n
        BY <1>5, <3>1 DEF n, l
      <3>3. PlaceAfter(mem, l[n]) = lastEnd
        BY <1>4, <3>2 DEF PlacedIn
      <3>4. PlaceAfter(mem', r[Len(r)]) = lastEnd
        BY <2>1, <3>1, <3>2, <3>3 DEF PlaceAfter
      <3>5. mem[l[1 + 1]].forward = PlaceAfter(mem, l[1])
        BY <1>4, <1>5, <3>1 DEF PlacedIn
      <3>6. mem'[r[1]] = mem[l[1 + 1]]
        BY <2>1, <3>1
      <3>7. QED
        BY <2>4, <3>4, <3>5, <3>6
    <2>7. \A i \in DOMAIN r : i + 1 \in DOMAIN r =>
            mem'[r[i + 1]].forward = PlaceAfter(mem', r[i])
      <3> SUFFICES ASSUME NEW i \in 1..n - 1, i + 1 \in 1..n - 1
                   PROVE  mem'[r[i + 1]].forward = PlaceAfter(mem', r[i])
        BY <1>5
      <3>1. i + 1 \in DOMAIN l /\ i + 1 + 1 \in DOMAIN l
        BY <1>5
      <3>2. mem[l[i + 1 + 1]].forward = PlaceAfter(mem, l[i + 1])
        BY <1>4, <3>1 DEF PlacedIn
      <3>3. mem'[r[i + 1]] = mem[l[i + 1 + 1]] /\ mem'[r[i]] = mem[l[i + 1]]
        BY <2>1
      <3>4. PlaceAfter(mem', r[i]) = PlaceAfter(mem, l[i + 1])
        BY <3>3 DEF PlaceAfter
      <3>5. QED
        BY <3>2, <3>3, <3>4
    <2>8. \A i, j \in DOMAIN r : i < j => PlaceAfter(mem', r[i]) <= mem'[r[j]].forward
      <3> SUFFICES ASSUME NEW i \in 1..n - 1, NEW j \in 1..n - 1, i < j
                   PROVE  PlaceAfter(mem', r[i]) <= mem'[r[j]].forward
        BY <1>5
      <3>1. PlaceAfter(mem', r[i]) = PlaceAfter(mem, l[i + 1])
        BY <2>1 DEF PlaceAfter
      <3>2. i + 1 \in DOMAIN l /\ j + 1 \in DOMAIN l /\ i + 1 < j + 1
        BY <1>5
      <3>3. PlaceAfter(mem, l[i + 1]) <= mem[l[j + 1]].forward
        BY <1>4, <3>2 DEF PlacedIn
      <3>4. QED
        BY <2>1, <3>1, <3>3
    <2>9. QED
      BY <2>2, <2>3, <2>5, <2>6, <2>7, <2>8 DEF PlacedIn
  <1> HIDE DEF l, n, x, k, d, e, o, r
  <1>8. (MovedEnd)' = e
    BY <1>1, <1>7 DEF MovedEnd, PlacedIn
  <1>9. (MovedTo)' = MovedTo \cup {d}
    <2>1. \A a \in Starts' : a < e <=> a \in 0..e - 1
      BY <1>3 DEF Starts, Addrs
    <2>2. QED
      BY <1>3, <1>8, <2>1 DEF MovedTo
  <1>10. (Places)' = {mem[l[i]].forward : i \in DOMAIN l \ {1}}
    <2>1. (Places)' = {mem'[r[i]].forward : i \in DOMAIN r}
      BY <1>1 DEF Places
    <2>2. \A i \in DOMAIN r : i + 1 \in DOMAIN l \ {1} /\ mem'[r[i]] = mem[l[i + 1]]
      BY <1>3, <1>5
    <2>3. \A i \in DOMAIN l \ {1} : i - 1 \in DOMAIN r /\ mem'[r[i - 1]] = mem[l[i]]
      <3> SUFFICES ASSUME NEW i \in 1..n, i # 1
                   PROVE  i - 1 \in 1..n - 1 /\ mem'[r[i - 1]] = mem[l[i]]
        BY <1>5
      <3>1. i - 1 \in 1..n - 1 /\ i - 1 + 1 = i
        BY <1>5
      <3>2. r[i - 1] = l[i]
        BY <1>5, <3>1
      <3>3. QED
        BY <1>3, <1>5, <3>1, <3>2
    <2>4. QED
      BY <2>1, <2>2, <2>3
  <1>11. (MovedTo \cup Places)' = seen
    <2>1. Places = {mem[l[i]].forward : i \in DOMAIN l \ {1}} \cup {d}
      BY <1>5 DEF Places, l, d, x
    <2>2. QED
      BY <1>9, <1>10, <2>1
  <1>12. Refers(x, seen) /\ \A i \in DOMAIN l : Refers(l[i], seen)
    BY <1>2, <1>5 DEF Moving, l, x
  <1>13. \A a \in MovedTo : mem[a].forward = NULL /\ Refers(a, seen)
    BY <1>2 DEF Moving
  <1>14. \A s \in Slots : roots[s] \in seen \cup {NULL}
    BY <1>2 DEF Moving, RootsIn
  <1>15. Packed(MovedEnd)'
    <2>1. Packed(d)
      BY <1>2, <1>3 DEF Moving
    <2>2. \A a \in MovedTo : /\ a \in Starts /\ a \in Nat /\ a < d
                             /\ EndOf(a) \in Nat /\ EndOf(a) <= d
                             /\ EndOf(a) < d => EndOf(a) \in MovedTo
                             /\ a + Size(mem'[a].kind) = EndOf(a)
      <3>1. \A a \in MovedTo : a \in Starts /\ a < d
        BY <1>3 DEF MovedTo
      <3>2. \A a \in MovedTo : a \in Nat /\ EndOf(a) \in Nat
        BY <1>2, <3>1, ObjectFacts
      <3>3. \A a \in MovedTo : EndOf(a) <= d /\ (EndOf(a) < d => EndOf(a) \in Starts)
        BY <2>1, <3>1 DEF Packed
      <3>4. \A a \in MovedTo : EndOf(a) < d => EndOf(a) \in MovedTo
        BY <1>3, <3>3 DEF MovedTo
      <3>5. \A a \in MovedTo : a + Size(mem'[a].kind) = EndOf(a)
        BY <1>3 DEF EndOf
      <3>6. QED
        BY <3>1, <3>2, <3>3, <3>4, <3>5
    <2>3. d + Size(mem'[d].kind) = e
      BY <1>3 DEF e
    <2>4. \A a \in Starts' : a < e <=> a \in MovedTo \/ a = d
      <3>1. \A a \in Starts' : a < e <=> a \in 0..e - 1
        BY <1>3 DEF Starts, Addrs
      <3>2. QED
        BY <1>3, <3>1
    <2>5. MovedTo \subseteq Starts' /\ d \in Starts'
      BY <1>3
    <2>6. 0 \in Starts'
      <3>1. CASE d = 0
        BY <2>5, <3>1
      <3>2. CASE d > 0
        <4>1. 0 \in Starts
          BY <2>1, <3>2 DEF Packed
        <4>2. 0 \in MovedTo
          BY <1>3, <3>2, <4>1 DEF MovedTo
        <4>3. QED
          BY <2>5, <4>2
      <3>3. QED
        BY <1>3, <3>1, <3>2
    <2>7. ASSUME NEW a \in Starts', a < e
          PROVE  /\ a + Size(mem'[a].kind) <= e
                 /\ a + Size(mem'[a].kind) < e => a + Size(mem'[a].kind) \in Starts'
      <3>1. CASE a \in MovedTo
        <4>1. EndOf(a) = d \/ EndOf(a) < d
          BY <1>3, <2>2, <3>1
        <4>2. EndOf(a) \in Starts'
          BY <2>2, <2>5, <3>1, <4>1
        <4>3. EndOf(a) <= e
          BY <1>3, <2>2, <3>1
        <4>4. QED
          BY <2>2, <3>1, <4>2, <4>3
      <3>2. CASE a = d
        BY <1>3, <2>3, <3>2
      <3>3. QED
        BY <2>4, <2>7, <3>1, <3>2
    <2>8. ASSUME NEW a \in Starts', NEW b \in Starts', a < b, b < e
          PROVE  a + Size(mem'[a].kind) <= b
      <3>1. b \in MovedTo \/ b = d
        BY <2>4, <2>8
      <3>2. a \in MovedTo
        <4>1. a \in Nat /\ b \in Nat
          BY DEF Starts, Addrs
        <4>2. a < d
          BY <1>3, <2>2, <2>8, <3>1, <4>1
        <4>3. a < e /\ a # d
          BY <1>3, <4>1, <4>2
        <4>4. QED
          BY <2>4, <4>3
      <3>3. CASE b \in MovedTo
        <4>1. EndOf(a) <= b
          BY <2>1, <2>2, <2>8, <3>2, <3>3 DEF Packed
        <4>2. QED
          BY <2>2, <3>2, <4>1
      <3>4. CASE b = d
        BY <2>2, <3>2, <3>4
      <3>5. QED
        BY <3>1, <3>3, <3>4
    <2>9. QED
      BY <1>8, <2>6, <2>7, <2>8 DEF Packed, EndOf
  <1>16. TypeOK'
    <2>1. \A a \in Addrs : mem'[a] = NULL \/ \E j \in Kinds : mem'[a] \in Objects(j)
      <3> SUFFICES ASSUME NEW a \in Addrs
                   PROVE  mem'[a] = NULL \/ \E j \in Kinds : mem'[a] \in Objects(j)
        OBVIOUS
      <3>1. CASE a = d
        BY <1>3, <1>6, <3>1
      <3>2. CASE a # d
        BY <1>2, <1>3, <3>2 DEF TypeOK
      <3>3. QED
        BY <3>1, <3>2
    <2>2. liveList' \in Seq(Addrs) /\ cursor' \in 0..Len(liveList')
      BY <1>1, <1>5
    <2>3. QED
      BY <1>1, <1>2, <1>3, <2>1, <2>2 DEF TypeOK
  <1>17. Calls' /\ Registers'
    BY <1>1, <1>2 DEF Calls, Registers
  <1>18. Moving'
    <2>1. Placed(MovedEnd, lastEnd)'
      BY <1>1, <1>7, <1>8 DEF Placed
    <2>2. RootsIn(MovedTo \cup Places)'
      BY <1>1, <1>11, <1>14 DEF RootsIn
    <2>3. \A a \in (MovedTo)' : /\ mem'[a].forward = NULL
                               /\ \A w \in Refs[mem'[a].kind] :
                                    mem'[a].fields[w] \in seen \cup {NULL}
      <3> SUFFICES ASSUME NEW a \in MovedTo \cup {d}
                   PROVE  /\ mem'[a].forward = NULL
                          /\ \A w \in Refs[mem'[a].kind] :
                               mem'[a].fields[w] \in seen \cup {NULL}
        BY <1>9
      <3>1. CASE a = d
        BY <1>3, <1>12, <3>1 DEF Refers, k
      <3>2. CASE a \in MovedTo
        BY <1>3, <1>13, <3>2 DEF Refers
      <3>3. QED
        BY <3>1, <3>2
    <2>4. \A i \in DOMAIN r : \A w \in Refs[mem'[r[i]].kind] :
            mem'[r[i]].fields[w] \in seen \cup {NULL}
      <3>1. \A i \in DOMAIN r : i + 1 \in DOMAIN l /\ mem'[r[i]] = mem[l[i + 1]]
        BY <1>3, <1>5
      <3>2. QED
        BY <1>12, <3>1 DEF Refers
    <2>5. QED
      BY <1>1, <1>11, <1>15, <2>1, <2>2, <2>3, <2>4 DEF Moving, Refers
  <1>19. QED
    BY <1>1, <1>16, <1>17, <1>18 DEF IInv

\* What is behind the last moved object goes, and nothing refers to it.
LEMMA MoveEndKeeps ==
  ASSUME IInv, MoveEnd
  PROVE  IInv'
  <1>1. /\ phase = "move" /\ phase' = "idle" /\ liveList = <<>>
        /\ mem' = ClearedFrom(lastEnd)
        /\ scanner' = 0 /\ calcEnd' = 0 /\ cursor' = 0
        /\ pc' = [t \in Threads |-> IF pc[t] = "collect" THEN "retry" ELSE pc[t]]
        /\ UNCHANGED <<wanted, roots, lastEnd, workList, liveList>>
    BY DEF MoveEnd
  <1>2. TypeOK /\ Moving /\ Calls /\ Registers
    BY <1>1 DEF IInv
  <1>3. /\ MovedEnd = lastEnd /\ Places = {}
        /\ lastEnd \in Nat /\ Capacity \in Nat
    BY <1>1, <1>2, HeapAssumption DEF MovedEnd, Places, TypeOK
  <1>4. /\ DOMAIN mem' = Addrs
        /\ \A a \in Addrs : mem'[a] = IF a < lastEnd THEN mem[a] ELSE NULL
    BY <1>1 DEF ClearedFrom
  <1>5. Starts' = MovedTo
    BY <1>3, <1>4 DEF Starts, MovedTo
  <1>6. \A a \in MovedTo : /\ a \in Starts /\ a < lastEnd /\ mem'[a] = mem[a]
                          /\ EndOf(a)' = EndOf(a)
    BY <1>3, <1>4 DEF Starts, MovedTo, EndOf
  <1>7. TypeOK'
    <2>1. pc' \in [Threads -> {"run", "full", "collect", "retry", "dead"}]
      BY <1>1, <1>2 DEF TypeOK
    <2>2. scanner' \in 0..Capacity /\ calcEnd' \in 0..Capacity /\ cursor' \in 0..Len(liveList')
      BY <1>1, <1>2, <1>3 DEF TypeOK
    <2>3. \A a \in Addrs : mem'[a] = NULL \/ \E j \in Kinds : mem'[a] \in Objects(j)
      BY <1>2, <1>4 DEF TypeOK
    <2>4. QED
      BY <1>1, <1>2, <1>4, <2>1, <2>2, <2>3 DEF TypeOK, Phases
  <1>8. Calls' /\ Registers'
    BY <1>1, <1>2 DEF Calls, Registers
  <1>9. Packed(lastEnd)
    BY <1>2, <1>3 DEF Moving
  <1>10. Arena'
    <2>1. lastEnd > 0 => 0 \in MovedTo
      BY <1>3, <1>9 DEF Packed, MovedTo
    <2>2. \A a \in MovedTo : EndOf(a) <= lastEnd /\ (EndOf(a) < lastEnd => EndOf(a) \in MovedTo)
      BY <1>3, <1>9 DEF Packed, MovedTo
    <2>3. \A a, b \in MovedTo : a < b => EndOf(a) <= b
      BY <1>6, <1>9 DEF Packed
    <2>4. QED
      BY <1>1, <1>5, <1>6, <2>1, <2>2, <2>3 DEF Arena, Packed
  <1>11. AtRest'
    BY <1>1, <1>2, <1>3, <1>5, <1>6, <1>10 DEF AtRest, Moving, RootsIn, Refers
  <1>12. QED
    BY <1>1, <1>7, <1>8, <1>11 DEF IInv

----------------------------------------------------------------------------
(* The theorems *)

LEMMA StutterKeeps ==
  ASSUME IInv, UNCHANGED vars
  PROVE  IInv'
  <1>1. UNCHANGED <<pc, wanted, roots, mem, lastEnd, phase, workList, scanner, calcEnd, liveList,
                    cursor>>
    BY DEF vars, threadVars, gcVars
  <1>2. TypeOK' /\ Calls' /\ Registers'
    BY <1>1 DEF IInv, TypeOK, Calls, Registers
  <1>3. /\ Starts' = Starts /\ Survivors' = Survivors /\ (Places)' = Places
        /\ (MovedEnd)' = MovedEnd /\ (MovedTo)' = MovedTo
    BY <1>1 DEF Starts, Survivors, Places, MovedEnd, MovedTo
  <1>4. \A a \in Starts : EndOf(a)' = EndOf(a)
    BY <1>1 DEF EndOf
  <1>5. CASE phase = "idle"
    <2>1. Arena'
      BY <1>1, <1>3, <1>5, ArenaStays DEF IInv, AtRest
    <2>2. QED
      BY <1>1, <1>2, <1>3, <1>5, <2>1 DEF IInv, AtRest, RootsIn, Refers
  <1>6. CASE phase = "mark"
    <2>1. Arena'
      BY <1>1, <1>3, <1>6, ArenaStays DEF IInv, Marking
    <2>2. QED
      BY <1>1, <1>2, <1>3, <1>6, <2>1 DEF IInv, Marking, RootsIn, Refers
  <1>7. CASE phase = "forward"
    <2>1. Arena'
      BY <1>1, <1>3, <1>7, ArenaStays DEF IInv, Forwarding
    <2>2. QED
      BY <1>1, <1>2, <1>3, <1>7, <2>1 DEF IInv, Forwarding, Placed, RootsIn, Refers
  <1>8. CASE phase = "patchRoots"
    BY <1>1, <1>2, <1>3, <1>8 DEF IInv, PatchingRoots, Placed, RootsIn, Refers
  <1>9. CASE phase = "patch"
    BY <1>1, <1>2, <1>3, <1>9 DEF IInv, Patching, Placed, RootsIn, Refers
  <1>10. CASE phase = "move"
    <2>1. Packed(MovedEnd)'
      BY <1>3, <1>4, <1>10 DEF IInv, Moving, Packed
    <2>2. QED
      BY <1>1, <1>2, <1>3, <1>10, <2>1 DEF IInv, Moving, Placed, RootsIn, Refers
  <1>11. phase \in Phases
    BY DEF IInv, TypeOK
  <1>12. QED
    BY <1>5, <1>6, <1>7, <1>8, <1>9, <1>10, <1>11 DEF Phases

LEMMA NextKeeps ==
  ASSUME FieldsAreSeen, IInv, [Next]_vars
  PROVE  IInv'
  <1>1. CASE Mutate
    <2>1. PICK s \in Slots, from \in Slots :
            \/ Assign(s, NULL)
            \/ Assign(s, roots[from])
            \/ \E k \in Kinds : \E w \in Refs[k] : GetField(s, from, w) \/ PutField(s, w, from)
      BY <1>1 DEF Mutate
    <2>2. CASE Assign(s, NULL)
      BY <2>2, AssignKeeps
    <2>3. CASE Assign(s, roots[from])
      <3>1. phase = "idle"
        BY <2>3 DEF Assign, Running
      <3>2. roots[from] \in Starts \cup {NULL}
        BY <3>1 DEF IInv, AtRest, RootsIn
      <3>3. QED
        BY <2>3, <3>2, AssignKeeps
    <2>4. CASE \E k \in Kinds : \E w \in Refs[k] : GetField(s, from, w) \/ PutField(s, w, from)
      BY <2>4, GetFieldKeeps, PutFieldKeeps
    <2>5. QED
      BY <2>1, <2>2, <2>3, <2>4
  <1>2. CASE Allocate
    BY <1>2, AllocFullKeeps, AllocKeeps, AllocRetryKeeps DEF Allocate
  <1>3. CASE Collect
    BY <1>3, StartCollectionKeeps, MarkOneKeeps, MarkEndKeeps, ForwardOneKeeps, ForwardEndKeeps,
       PatchRootsKeeps, PatchOneKeeps, PatchEndKeeps, MoveOneKeeps, MoveEndKeeps DEF Collect
  <1>4. CASE UNCHANGED vars
    BY <1>4, StutterKeeps
  <1>5. QED
    BY <1>1, <1>2, <1>3, <1>4 DEF Next

\* The invariant of the heap: in every phase of a collection, what is an object, which of
\* the two addresses of a survivor a reference holds, and how far the phase has come.
THEOREM HeapInductive ==
  ASSUME FieldsAreSeen
  PROVE  Spec => []IInv
  <1>1. Init => IInv
    BY InitIInv
  <1>2. IInv /\ [Next]_vars => IInv'
    BY NextKeeps
  <1>3. QED
    BY <1>1, <1>2, PTL DEF Spec

\* Every address holds nothing or a whole object, and last_end stays within the arena:
\* no collection and no allocation ever leaves it.
THEOREM HeapTypeCorrect ==
  ASSUME FieldsAreSeen
  PROVE  Spec => []TypeOK
  <1>1. IInv => TypeOK
    BY DEF IInv
  <1>2. QED
    BY <1>1, HeapInductive, PTL

\* gc_calculate_forwards can walk the arena by the sizes of the objects: outside the moving
\* of objects it is one object after the other up to last_end.
THEOREM ArenaIsWalkable ==
  ASSUME FieldsAreSeen
  PROVE  Spec => []ArenaIsObjects
  <1>1. IInv => ArenaIsObjects
    <2> SUFFICES ASSUME IInv, phase \in {"idle", "mark", "forward"}
                 PROVE  /\ lastEnd > 0 => mem[0] # NULL
                        /\ \A a \in Starts : /\ EndOf(a) <= lastEnd
                                             /\ EndOf(a) < lastEnd => mem[EndOf(a)] # NULL
                                             /\ \A b \in Starts : a < b => EndOf(a) <= b
      BY DEF ArenaIsObjects
    <2>1. Arena
      BY DEF IInv, AtRest, Marking, Forwarding
    <2>2. QED
      BY <2>1 DEF Arena, Packed, Starts
  <1>2. QED
    BY <1>1, HeapInductive, PTL

\* Moving an object overwrites no survivor that still has to move (gc_move_live).
THEOREM SurvivorsAreSpared ==
  ASSUME FieldsAreSeen
  PROVE  Spec => []MoveSparesSurvivors
  <1>1. IInv => MoveSparesSurvivors
    <2> SUFFICES ASSUME IInv, phase \in {"patchRoots", "patch", "move"},
                        NEW i \in DOMAIN liveList, NEW j \in DOMAIN liveList, i < j
                 PROVE  /\ mem[liveList[j]] # NULL
                        /\ mem[liveList[i]].forward + Size(mem[liveList[i]].kind) <= liveList[j]
      BY DEF MoveSparesSurvivors
    <2> DEFINE a == liveList[i]
               k == mem[a].kind
               b == liveList[j]
    <2>1. TypeOK
      BY DEF IInv
    <2>2. PICK from \in {0, MovedEnd} : PlacedIn(liveList, mem, from, lastEnd)
      BY DEF IInv, PatchingRoots, Patching, Moving, Placed
    <2>3. /\ k \in Kinds /\ mem[a].forward \in Nat /\ mem[a].forward <= a /\ a \in Nat
          /\ b \in Nat /\ mem[b] # NULL
      BY <2>1, <2>2, PlacedFacts
    <2>4. Size(k) \in Nat
      BY <2>3, KindFacts
    <2>5. a + Size(k) <= b
      BY <2>2 DEF PlacedIn, EndIn
    <2> HIDE DEF a, b, k
    <2>6. mem[a].forward + Size(k) <= b
      BY <2>3, <2>4, <2>5
    <2>7. QED
      BY <2>3, <2>6 DEF a, b, k
  <1>2. QED
    BY <1>1, HeapInductive, PTL

\* The offset in bytes that gc_scan takes for the index of a word is the only way a
\* reference comes to dangle: without it, no reference of a root or of an object does,
\* whatever collections and allocations come in between.
THEOREM NothingDangles ==
  ASSUME FieldsAreSeen
  PROVE  Spec => []NoReferenceDangles
  <1>1. IInv => NoReferenceDangles
    <2> SUFFICES ASSUME IInv, phase = "idle"
                 PROVE  /\ RootSet \subseteq Starts
                        /\ \A a \in Starts : Pointees(a) \subseteq Starts
      BY DEF NoReferenceDangles
    <2>1. AtRest
      BY DEF IInv
    <2>2. QED
      BY <2>1 DEF AtRest, RootsIn, Refers, RootSet, Pointees
  <1>2. QED
    BY <1>1, HeapInductive, PTL

----------------------------------------------------------------------------
(***************************************************************************)
(* Part two: collections do not show, the proof that Heap implements       *)
(* ObjectGraph.  What a collection has made of the heap is related to the  *)
(* object graph from when it began by the names of the objects, their      *)
(* idents.                                                                 *)
(***************************************************************************)

\* The objects of the graph: what a collection has copied is no longer one.
Alive ==
  IF phase \in {"patch", "move"} THEN MovedTo \cup ToSet(liveList) ELSE Starts

NamesAreUnique == \A a, b \in Alive : mem[a].ident = mem[b].ident => a = b

\* Words that are not references are never written.
PlainIsNull ==
  \A a \in Starts : \A w \in DOMAIN mem[a].fields \ Refs[mem[a].kind] : mem[a].fields[w] = NULL

\* The name of what p, a reference to a place, will refer to: objects up to `end` are there,
\* those in l have yet to move.
NameIn(m, l, end, p) ==
  IF p = NULL THEN NULL
  ELSE IF p < end THEN m[p].ident
  ELSE m[l[CHOOSE i \in DOMAIN l : m[l[i]].forward = p]].ident

ViewIn(m, l, end, a) ==
  [kind |-> m[a].kind,
   fields |-> [w \in DOMAIN m[a].fields |-> NameIn(m, l, end, m[a].fields[w])]]

NewName(p) == NameIn(mem, liveList, MovedEnd, p)
NewView(a) == ViewIn(mem, liveList, MovedEnd, a)

\* Until references are patched the graph is as it was, and what is marked is what the
\* roots lead to.
MarkingKeeps == before.root = RootGraph /\ before.object = HeapGraph
OnlyReachable == \A S \in SUBSET Starts : Closed(S) => Survivors \subseteq S

\* The graph from before is one, without garbage.
Snapshot ==
  /\ before.object = [i \in DOMAIN before.object |-> before.object[i]]
  /\ ObjectGraph!Reached(before.root, before.object) = DOMAIN before.object

\* Then references lead to the same objects by way of their places.
RootsKept == before.root = [s \in Slots |-> NewName(roots[s])]

PatchingKeeps ==
  /\ RootsKept
  /\ DOMAIN before.object = {mem[liveList[i]].ident : i \in DOMAIN liveList}
  /\ \A i \in DOMAIN liveList :
       before.object[mem[liveList[i]].ident] =
         IF i <= cursor THEN NewView(liveList[i]) ELSE ObjectAt(liveList[i])

MovingKeeps ==
  /\ RootsKept
  /\ DOMAIN before.object = {mem[a].ident : a \in Alive}
  /\ \A a \in Alive : before.object[mem[a].ident] = NewView(a)

\* With IInv, the invariant of the refinement.
GInv ==
  /\ NamesAreUnique
  /\ PlainIsNull
  /\ phase = "mark" => OnlyReachable
  /\ phase \in {"forward", "patchRoots"} => Survivors = Reachable
  /\ phase \in {"mark", "forward", "patchRoots"} => MarkingKeeps
  /\ phase = "patch" => PatchingKeeps
  /\ phase = "move" => MovingKeeps
  /\ phase # "idle" => Snapshot

----------------------------------------------------------------------------
(* Graphs in memory and graphs of names *)

IdOf(m, p) == IF p = NULL THEN NULL ELSE IF m[p] = NULL THEN Marked ELSE m[p].ident
ViewOf(m, a) ==
  [kind |-> m[a].kind, fields |-> [w \in DOMAIN m[a].fields |-> IdOf(m, m[a].fields[w])]]
StartsOf(m) == {a \in Addrs : m[a] # NULL}
PointeesOf(m, a) == {m[a].fields[w] : w \in Refs[m[a].kind]} \ {NULL}
ClosedIn(m, r, S) ==
  /\ ({r[s] : s \in Slots} \ {NULL}) \cap StartsOf(m) \subseteq S
  /\ \A a \in S : PointeesOf(m, a) \cap StartsOf(m) \subseteq S
ReachIn(m, r) ==
  {a \in StartsOf(m) : \A S \in SUBSET StartsOf(m) : ClosedIn(m, r, S) => a \in S}
NamesIn(m, R) == {m[a].ident : a \in R}

\* The objects in R have names of their own and refer to one another only.
Whole(m, R) ==
  /\ R \subseteq StartsOf(m)
  /\ \A a \in R : /\ m[a].ident \in Idents
                  /\ Refs[m[a].kind] \subseteq DOMAIN m[a].fields
                  /\ \A w \in Refs[m[a].kind] : m[a].fields[w] \in R \cup {NULL}
  /\ \A a, b \in R : m[a].ident = m[b].ident => a = b

LEMMA SameDefinitions ==
  /\ Starts = StartsOf(mem) /\ Reachable = ReachIn(mem, roots)
  /\ \A S : Closed(S) <=> ClosedIn(mem, roots, S)
  /\ \A p : IdentAt(p) = IdOf(mem, p)
  /\ \A a : ObjectAt(a) = ViewOf(mem, a)
  /\ \A a : Pointees(a) = PointeesOf(mem, a)
  <1>1. Starts = StartsOf(mem)
    BY DEF Starts, StartsOf
  <1>2. \A a : Pointees(a) = PointeesOf(mem, a)
    BY DEF Pointees, PointeesOf
  <1>3. \A S : Closed(S) <=> ClosedIn(mem, roots, S)
    BY <1>1, <1>2, Zenon DEF Closed, ClosedIn, RootSet
  <1>4. Reachable = ReachIn(mem, roots)
    BY <1>1, <1>3 DEF Reachable, ReachIn
  <1>5. \A p : IdentAt(p) = IdOf(mem, p)
    BY DEF IdentAt, IdOf
  <1>6. \A a : ObjectAt(a) = ViewOf(mem, a)
    BY <1>5 DEF ObjectAt, ViewOf
  <1>7. QED
    BY <1>1, <1>2, <1>3, <1>4, <1>5, <1>6

\* What the roots lead to is closed.
LEMMA ReachIsClosed ==
  ASSUME NEW m, NEW r
  PROVE  ClosedIn(m, r, ReachIn(m, r)) /\ ReachIn(m, r) \subseteq StartsOf(m)
  <1>1. ReachIn(m, r) \subseteq StartsOf(m)
    BY DEF ReachIn
  <1>2. ASSUME NEW p \in ({r[s] : s \in Slots} \ {NULL}) \cap StartsOf(m)
        PROVE  p \in ReachIn(m, r)
    BY <1>2, Zenon DEF ReachIn, ClosedIn
  <1>3. ASSUME NEW a \in ReachIn(m, r), NEW b \in PointeesOf(m, a) \cap StartsOf(m)
        PROVE  b \in ReachIn(m, r)
    <2> SUFFICES ASSUME NEW S \in SUBSET StartsOf(m), ClosedIn(m, r, S)
                 PROVE  b \in S
      BY DEF ReachIn
    <2>1. a \in S
      BY DEF ReachIn
    <2>2. QED
      BY <2>1 DEF ClosedIn
  <1>4. QED
    BY <1>1, <1>2, <1>3 DEF ClosedIn

\* The roots lead to an object exactly if, in the graph of names, its name is reached.
LEMMA Correspondence ==
  ASSUME NEW m, NEW r, NEW R, Whole(m, R), \A s \in Slots : r[s] \in R \cup {NULL},
         NEW g, \A s \in Slots : g[s] = IdOf(m, r[s]),
         NEW h, DOMAIN h = NamesIn(m, R), \A a \in R : h[m[a].ident] = ViewOf(m, a)
  PROVE  /\ ReachIn(m, r) \subseteq R
         /\ ObjectGraph!Reached(g, h) = NamesIn(m, ReachIn(m, r))
  <1> DEFINE reach == ReachIn(m, r)
             Child(i) == ObjectGraph!Pointees(h[i])
  <1>1. /\ NULL \notin R /\ NULL \notin Idents
        /\ \A a \in R : m[a] # NULL /\ m[a].ident \in Idents /\ IdOf(m, a) = m[a].ident
    BY HeapAssumption DEF Whole, StartsOf, IdOf
  <1>2. reach \subseteq R
    <2>1. \A a \in R : PointeesOf(m, a) \subseteq R
      BY DEF Whole, PointeesOf
    <2>2. ClosedIn(m, r, R)
      BY <2>1 DEF ClosedIn
    <2>3. R \in SUBSET StartsOf(m)
      BY DEF Whole
    <2>4. QED
      BY <2>2, <2>3 DEF ReachIn
  <1>3. \A a \in R : Child(m[a].ident) = {m[b].ident : b \in PointeesOf(m, a)}
    <2> SUFFICES ASSUME NEW a \in R
                 PROVE  Child(m[a].ident) = {m[b].ident : b \in PointeesOf(m, a)}
      OBVIOUS
    <2> DEFINE v == ViewOf(m, a)
    <2>1. v.kind = m[a].kind /\ h[m[a].ident] = v
      BY DEF ViewOf
    <2>2. \A w \in Refs[m[a].kind] : v.fields[w] = IdOf(m, m[a].fields[w])
      BY DEF Whole, ViewOf
    <2>3. \A w \in Refs[m[a].kind] : m[a].fields[w] \in R \cup {NULL}
      BY DEF Whole
    <2>4. IdOf(m, NULL) = NULL
      BY DEF IdOf
    <2> HIDE DEF v
    <2>5. Child(m[a].ident) = {v.fields[w] : w \in Refs[m[a].kind]} \ {NULL}
      BY <2>1 DEF ObjectGraph!Pointees
    <2>6. ASSUME NEW w \in Refs[m[a].kind], v.fields[w] # NULL
          PROVE  m[a].fields[w] \in PointeesOf(m, a) /\ v.fields[w] = m[m[a].fields[w]].ident
      BY <1>1, <2>2, <2>3, <2>4, <2>6 DEF PointeesOf
    <2>7. ASSUME NEW w \in Refs[m[a].kind], m[a].fields[w] # NULL
          PROVE  v.fields[w] = m[m[a].fields[w]].ident /\ v.fields[w] # NULL
      BY <1>1, <2>2, <2>3, <2>7
    <2>8. Child(m[a].ident) \subseteq {m[b].ident : b \in PointeesOf(m, a)}
      BY <2>5, <2>6
    <2>9. ASSUME NEW b \in PointeesOf(m, a)
          PROVE  m[b].ident \in Child(m[a].ident)
      <3>1. PICK w \in Refs[m[a].kind] : b = m[a].fields[w] /\ b # NULL
        BY DEF PointeesOf
      <3>2. QED
        BY <2>5, <2>7, <3>1
    <2>10. QED
      BY <2>8, <2>9
  <1> HIDE DEF reach, Child
  <1>4. \A S : ObjectGraph!Closed(g, h, S) <=> /\ \A s \in Slots : g[s] # NULL => g[s] \in S
                                               /\ \A i \in S : Child(i) \subseteq S
    BY DEF ObjectGraph!Closed, Child
  <1>5. ClosedIn(m, r, reach) /\ reach \subseteq StartsOf(m)
    BY ReachIsClosed DEF reach
  <1>6. \A s \in Slots : /\ g[s] # NULL => r[s] \in R /\ g[s] = m[r[s]].ident
                         /\ r[s] # NULL => r[s] \in R /\ g[s] = m[r[s]].ident /\ g[s] # NULL
    BY <1>1 DEF IdOf
  <1>7. \A a \in R : PointeesOf(m, a) \subseteq R
    BY DEF Whole, PointeesOf
  <1>8. R \subseteq StartsOf(m)
    BY DEF Whole
  <1>9. ASSUME NEW i \in ObjectGraph!Reached(g, h)
        PROVE  i \in NamesIn(m, reach)
    <2> DEFINE T == NamesIn(m, reach)
    <2>1. T \subseteq DOMAIN h
      BY <1>2 DEF NamesIn
    <2>2. ASSUME NEW s \in Slots, g[s] # NULL
          PROVE  g[s] \in T
      <3>1. r[s] \in R /\ g[s] = m[r[s]].ident /\ r[s] # NULL
        BY <1>1, <1>6, <2>2
      <3>2. r[s] \in reach
        BY <1>5, <1>8, <3>1 DEF ClosedIn
      <3>3. QED
        BY <3>1, <3>2 DEF NamesIn
    <2>3. ASSUME NEW j \in T, NEW c \in Child(j)
          PROVE  c \in T
      <3>1. PICK a \in reach : j = m[a].ident
        BY DEF NamesIn
      <3>2. PICK b \in PointeesOf(m, a) : c = m[b].ident
        BY <1>2, <1>3, <3>1
      <3>3. b \in StartsOf(m)
        BY <1>2, <1>7, <1>8
      <3>4. b \in reach
        BY <1>5, <3>3 DEF ClosedIn
      <3>5. QED
        BY <3>2, <3>4 DEF NamesIn
    <2>4. ObjectGraph!Closed(g, h, T)
      BY <1>4, <2>2, <2>3
    <2> HIDE DEF T
    <2>5. i \in T
      BY <2>1, <2>4 DEF ObjectGraph!Reached
    <2>6. QED
      BY <2>5 DEF T
  <1>10. ASSUME NEW a \in reach
         PROVE  m[a].ident \in ObjectGraph!Reached(g, h)
    <2>1. m[a].ident \in DOMAIN h
      BY <1>2 DEF NamesIn
    <2>2. ASSUME NEW T \in SUBSET DOMAIN h, ObjectGraph!Closed(g, h, T)
          PROVE  m[a].ident \in T
      <3> DEFINE S == {b \in R : m[b].ident \in T}
      <3>1. ASSUME NEW s \in Slots, r[s] # NULL
            PROVE  r[s] \in S
        BY <1>4, <1>6, <2>2, <3>1
      <3>2. ASSUME NEW b \in S, NEW c \in PointeesOf(m, b)
            PROVE  c \in S
        <4>1. c \in R /\ m[c].ident \in Child(m[b].ident)
          BY <1>3, <1>7
        <4>2. QED
          BY <1>4, <2>2, <4>1
      <3>3. ClosedIn(m, r, S)
        BY <3>1, <3>2 DEF ClosedIn
      <3>4. S \in SUBSET StartsOf(m)
        BY <1>8
      <3> HIDE DEF S
      <3>5. a \in S
        BY <3>3, <3>4 DEF reach, ReachIn
      <3>6. QED
        BY <3>5 DEF S
    <2>3. QED
      BY <2>1, <2>2 DEF ObjectGraph!Reached
  <1>11. QED
    BY <1>2, <1>9, <1>10 DEF NamesIn, reach

RootsOf(m, r) == [s \in Slots |-> IdOf(m, r[s])]
GraphOf(m, r) ==
  [i \in NamesIn(m, ReachIn(m, r)) |->
     ViewOf(m, CHOOSE a \in ReachIn(m, r) : m[a].ident = i)]

LEMMA SameGraphs == RootGraph = RootsOf(mem, roots) /\ HeapGraph = GraphOf(mem, roots)
  <1>1. RootGraph = RootsOf(mem, roots)
    BY SameDefinitions DEF RootGraph, RootsOf
  <1>2. HeapGraph = GraphOf(mem, roots)
    BY SameDefinitions DEF HeapGraph, GraphOf, NamesIn
  <1>3. QED
    BY <1>1, <1>2

LEMMA SameGraphsNext ==
  /\ Starts' = StartsOf(mem') /\ Reachable' = ReachIn(mem', roots')
  /\ RootGraph' = RootsOf(mem', roots') /\ HeapGraph' = GraphOf(mem', roots')
  <1>1. (Starts = StartsOf(mem) /\ Reachable = ReachIn(mem, roots))'
    BY SameDefinitions, PTL
  <1>2. (RootGraph = RootsOf(mem, roots) /\ HeapGraph = GraphOf(mem, roots))'
    BY SameGraphs, PTL
  <1>3. QED
    BY <1>1, <1>2 DEF StartsOf, ReachIn, RootsOf, GraphOf, NamesIn, ViewOf, IdOf, ClosedIn,
       PointeesOf

\* Of a graph that holds what the roots lead to, that is what remains of it.
LEMMA RestrictedGraph ==
  ASSUME NEW m, NEW r, NEW R, Whole(m, R), \A s \in Slots : r[s] \in R \cup {NULL},
         NEW h, DOMAIN h = NamesIn(m, R), \A a \in R : h[m[a].ident] = ViewOf(m, a)
  PROVE  GraphOf(m, r) = [i \in ObjectGraph!Reached(RootsOf(m, r), h) |-> h[i]]
  <1> DEFINE reach == ReachIn(m, r)
             g == RootsOf(m, r)
             Object(i) == CHOOSE a \in reach : m[a].ident = i
  <1>1. \A s \in Slots : g[s] = IdOf(m, r[s])
    BY DEF RootsOf
  <1> HIDE DEF g
  <1>2. reach \subseteq R /\ ObjectGraph!Reached(g, h) = NamesIn(m, reach)
    BY <1>1, Correspondence
  <1> HIDE DEF reach
  <1>3. ASSUME NEW i \in NamesIn(m, reach)
        PROVE  ViewOf(m, Object(i)) = h[i]
    <2>1. \E a \in reach : m[a].ident = i
      BY DEF NamesIn
    <2>2. Object(i) \in reach /\ m[Object(i)].ident = i
      BY <2>1
    <2> HIDE DEF Object
    <2>3. Object(i) \in R
      BY <1>2, <2>2
    <2>4. QED
      BY <2>2, <2>3
  <1>4. GraphOf(m, r) = [i \in NamesIn(m, reach) |-> h[i]]
    BY <1>3 DEF GraphOf, reach
  <1>5. QED
    BY <1>2, <1>4 DEF g

\* The graph of what the roots lead to has no other objects.
LEMMA GraphIsReached ==
  ASSUME NEW m, NEW r, NEW R, Whole(m, R), \A s \in Slots : r[s] \in R \cup {NULL}
  PROVE  /\ ReachIn(m, r) \subseteq R /\ Whole(m, ReachIn(m, r))
         /\ \A s \in Slots : r[s] \in ReachIn(m, r) \cup {NULL}
         /\ DOMAIN GraphOf(m, r) = NamesIn(m, ReachIn(m, r))
         /\ \A a \in ReachIn(m, r) : GraphOf(m, r)[m[a].ident] = ViewOf(m, a)
         /\ ObjectGraph!Reached(RootsOf(m, r), GraphOf(m, r)) = DOMAIN GraphOf(m, r)
  <1> DEFINE reach == ReachIn(m, r)
             g == RootsOf(m, r)
             h == GraphOf(m, r)
             Object(i) == CHOOSE a \in reach : m[a].ident = i
  <1>1. ClosedIn(m, r, reach) /\ reach \subseteq StartsOf(m)
    BY ReachIsClosed
  <1>2. R \subseteq StartsOf(m)
    BY DEF Whole
  <1>3. reach \subseteq R
    <2>1. \A a \in R : PointeesOf(m, a) \subseteq R
      BY DEF Whole, PointeesOf
    <2>2. ClosedIn(m, r, R)
      BY <2>1 DEF ClosedIn
    <2>3. QED
      BY <1>2, <2>2 DEF ReachIn
  <1>4. DOMAIN h = NamesIn(m, reach) /\ \A i \in NamesIn(m, reach) : h[i] = ViewOf(m, Object(i))
    BY DEF GraphOf
  <1> HIDE DEF reach, h, g
  <1>5. \A s \in Slots : r[s] \in reach \cup {NULL}
    BY <1>1, <1>2 DEF ClosedIn
  <1>6. Whole(m, reach)
    <2>1. ASSUME NEW a \in reach, NEW w \in Refs[m[a].kind], m[a].fields[w] # NULL
          PROVE  m[a].fields[w] \in reach
      <3>1. m[a].fields[w] \in PointeesOf(m, a) /\ m[a].fields[w] \in R
        BY <1>3, <2>1 DEF PointeesOf, Whole
      <3>2. QED
        BY <1>1, <1>2, <3>1 DEF ClosedIn
    <2>2. QED
      BY <1>1, <1>3, <2>1 DEF Whole
  <1>7. ASSUME NEW a \in reach
        PROVE  h[m[a].ident] = ViewOf(m, a)
    <2> DEFINE i == m[a].ident
               b == Object(i)
    <2>1. b \in reach /\ m[b].ident = i
      OBVIOUS
    <2>2. i \in NamesIn(m, reach)
      BY DEF NamesIn
    <2> HIDE DEF b
    <2>3. b = a
      BY <1>6, <2>1 DEF Whole
    <2>4. QED
      BY <1>4, <2>2, <2>3 DEF b
  <1>8. \A s \in Slots : g[s] = IdOf(m, r[s])
    BY DEF g, RootsOf
  <1>9. ObjectGraph!Reached(g, h) = NamesIn(m, ReachIn(m, r))
    BY <1>4, <1>5, <1>6, <1>7, <1>8, Correspondence
  <1>10. QED
    BY <1>3, <1>4, <1>5, <1>6, <1>7, <1>9 DEF reach, g, h

\* Memory at rest is a graph.
LEMMA IdentFacts ==
  ASSUME TypeOK, NEW a \in Starts
  PROVE  /\ mem[a].ident \in Idents
         /\ DOMAIN mem[a].fields = 0..Words[mem[a].kind] - 1
         /\ Refs[mem[a].kind] \subseteq DOMAIN mem[a].fields
         /\ mem[a].fields \in [DOMAIN mem[a].fields -> Addrs \cup {NULL}]
  <1>1. mem[a].kind \in Kinds /\ mem[a] \in Objects(mem[a].kind)
    BY ObjectFacts
  <1>2. /\ mem[a].ident \in Idents
        /\ mem[a].fields \in [0..Words[mem[a].kind] - 1 -> Addrs \cup {NULL}]
    BY <1>1 DEF Objects
  <1>3. Refs[mem[a].kind] \subseteq 0..Words[mem[a].kind] - 1
    BY <1>1, KindFacts
  <1>4. QED
    BY <1>2, <1>3

LEMMA WholeSet ==
  ASSUME TypeOK, NEW R \in SUBSET Starts, \A a \in R : Refers(a, R),
         \A a, b \in R : mem[a].ident = mem[b].ident => a = b
  PROVE  Whole(mem, R)
  BY SameDefinitions, IdentFacts DEF Whole, Refers

LEMMA WholeAtRest ==
  ASSUME IInv, GInv, phase = "idle"
  PROVE  /\ TypeOK /\ AtRest
         /\ Whole(mem, Starts) /\ \A s \in Slots : roots[s] \in Starts \cup {NULL}
         /\ Whole(mem, Reachable) /\ \A s \in Slots : roots[s] \in Reachable \cup {NULL}
         /\ Reachable \subseteq Starts
         /\ DOMAIN HeapGraph = NamesIn(mem, Reachable)
         /\ \A a \in Reachable : HeapGraph[mem[a].ident] = ViewOf(mem, a)
         /\ ObjectGraph!Reached(RootGraph, HeapGraph) = DOMAIN HeapGraph
  <1>1. TypeOK /\ AtRest /\ NamesAreUnique /\ Alive = Starts
    BY DEF IInv, GInv, Alive
  <1>2. Whole(mem, Starts)
    BY <1>1, WholeSet DEF AtRest, NamesAreUnique
  <1>3. \A s \in Slots : roots[s] \in Starts \cup {NULL}
    BY <1>1 DEF AtRest, RootsIn
  <1>4. Reachable \subseteq Starts
    BY DEF Reachable
  <1>5. QED
    BY <1>1, <1>2, <1>3, <1>4, GraphIsReached, SameDefinitions, SameGraphs

\* A step of the graph: what bytecode did, restricted to what the roots now lead to.
LEMMA Simulates ==
  ASSUME phase' = "idle", NEW R, Whole(mem', R), \A s \in Slots : roots'[s] \in R \cup {NULL},
         NEW h, DOMAIN h = NamesIn(mem', R), \A a \in R : h[mem'[a].ident] = ViewOf(mem', a)
  PROVE  ObjectGraph!Becomes(RootsOf(mem', roots'), h)
  <1>1. GraphOf(mem', roots') = [i \in ObjectGraph!Reached(RootsOf(mem', roots'), h) |-> h[i]]
    BY RestrictedGraph
  <1>2. RootGraph' = RootsOf(mem', roots') /\ HeapGraph' = GraphOf(mem', roots')
    BY SameGraphsNext
  <1>3. Idle'
    BY DEF Idle
  <1>4. QED
    BY <1>1, <1>2, <1>3 DEF ObjectGraph!Becomes

----------------------------------------------------------------------------
(* Bytecode and allocation *)

\* What is left of the invariant outside collections.
LEMMA IdleInvariant ==
  ASSUME phase' = "idle", \A a, b \in Starts' : mem'[a].ident = mem'[b].ident => a = b,
         \A a \in Starts' : \A w \in DOMAIN mem'[a].fields \ Refs[mem'[a].kind] :
           mem'[a].fields[w] = NULL
  PROVE  GInv'
  <1>1. Alive' = Starts'
    BY DEF Alive
  <1>2. NamesAreUnique' /\ PlainIsNull'
    BY <1>1 DEF NamesAreUnique, PlainIsNull
  <1>3. QED
    BY <1>2 DEF GInv

LEMMA IdleFacts ==
  ASSUME GInv, phase = "idle"
  PROVE  /\ \A a, b \in Starts : mem[a].ident = mem[b].ident => a = b
         /\ \A a \in Starts : \A w \in DOMAIN mem[a].fields \ Refs[mem[a].kind] :
              mem[a].fields[w] = NULL
  BY DEF GInv, NamesAreUnique, PlainIsNull, Alive

LEMMA FieldsExcept ==
  ASSUME NEW k, NEW f, NEW g
  PROVE  [[kind |-> k, fields |-> f] EXCEPT !.fields = g] = [kind |-> k, fields |-> g]
  OBVIOUS

LEMMA AssignSimulates ==
  ASSUME IInv, GInv, NEW s \in Slots, NEW v \in Reachable \cup {NULL}, Assign(s, v)
  PROVE  GInv' /\ ObjectGraph!Becomes([RootGraph EXCEPT ![s] = IdOf(mem, v)], HeapGraph)
  <1>1. /\ phase = "idle" /\ phase' = "idle"
        /\ roots' = [roots EXCEPT ![s] = v] /\ UNCHANGED mem
    BY DEF Assign, Running, gcVars
  <1>2. /\ TypeOK
        /\ Whole(mem, Reachable) /\ \A p \in Slots : roots[p] \in Reachable \cup {NULL}
        /\ DOMAIN HeapGraph = NamesIn(mem, Reachable)
        /\ \A a \in Reachable : HeapGraph[mem[a].ident] = ViewOf(mem, a)
    BY <1>1, WholeAtRest
  <1>3. Starts' = Starts
    BY <1>1 DEF Starts
  <1>4. GInv'
    BY <1>1, <1>3, IdleFacts, IdleInvariant
  <1>5. \A p \in Slots : roots'[p] \in Reachable \cup {NULL}
    BY <1>1, <1>2 DEF TypeOK
  <1>6. [RootGraph EXCEPT ![s] = IdOf(mem, v)] = RootsOf(mem', roots')
    BY <1>1, <1>2, SameGraphs DEF RootsOf, TypeOK
  <1>7. /\ Whole(mem', Reachable) /\ DOMAIN HeapGraph = NamesIn(mem', Reachable)
        /\ \A a \in Reachable : HeapGraph[mem'[a].ident] = ViewOf(mem', a)
    BY <1>1, <1>2
  <1>8. ObjectGraph!Becomes(RootsOf(mem', roots'), HeapGraph)
    <2>1. phase' = "idle"
      BY <1>1
    <2>2. Whole(mem', Reachable)
      BY <1>7
    <2>3. DOMAIN HeapGraph = NamesIn(mem', Reachable)
      BY <1>7
    <2>4. \A a \in Reachable : HeapGraph[mem'[a].ident] = ViewOf(mem', a)
      BY <1>7
    <2>5. QED
      BY <1>5, <2>1, <2>2, <2>3, <2>4, Simulates, Zenon
  <1>9. QED
    BY <1>4, <1>6, <1>8

LEMMA PutSimulates ==
  ASSUME IInv, GInv, NEW s \in Slots, NEW from \in Slots, NEW w, PutField(s, w, from)
  PROVE  /\ GInv'
         /\ RootGraph[s] # NULL /\ w \in Refs[HeapGraph[RootGraph[s]].kind]
         /\ ObjectGraph!Becomes(RootGraph,
              [HeapGraph EXCEPT ![RootGraph[s]].fields[w] = RootGraph[from]])
  <1> DEFINE x == roots[s]
             k == mem[x].kind
             v == roots[from]
             f == [mem[x].fields EXCEPT ![w] = v]
             i == mem[x].ident
             R == Reachable
             G == HeapGraph
             h == [G EXCEPT ![i] = [G[i] EXCEPT !.fields = [G[i].fields EXCEPT ![w] = IdOf(mem, v)]]]
  <1>1. /\ phase = "idle" /\ phase' = "idle" /\ x # NULL /\ w \in Refs[k]
        /\ mem' = [mem EXCEPT ![x] = [mem[x] EXCEPT !.fields = f]]
        /\ UNCHANGED roots
    BY DEF PutField, Running, gcVars
  <1>2. /\ TypeOK /\ Whole(mem, Starts)
        /\ Whole(mem, R) /\ \A p \in Slots : roots[p] \in R \cup {NULL}
        /\ DOMAIN G = NamesIn(mem, R) /\ R \subseteq Starts
        /\ \A a \in R : G[mem[a].ident] = ViewOf(mem, a)
    BY <1>1, WholeAtRest
  <1>3. x \in R /\ x \in Starts /\ v \in R \cup {NULL} /\ v \in Addrs \cup {NULL} /\ x \in Addrs
    BY <1>1, <1>2 DEF TypeOK
  <1>4. /\ k \in Kinds /\ mem[x] \in Objects(k)
        /\ mem[x].fields \in [0..Words[k] - 1 -> Addrs \cup {NULL}]
        /\ Refs[k] \subseteq 0..Words[k] - 1
        /\ i \in Idents
    BY <1>2, <1>3, ObjectFacts, IdentFacts, KindFacts
  <1>5. f \in [0..Words[k] - 1 -> Addrs \cup {NULL}]
    BY <1>3, <1>4
  <1> HIDE DEF x, k, v, R, G, i
  <1>6. /\ mem'[x] \in Objects(k) /\ mem'[x].fields = f /\ mem'[x].kind = k /\ mem'[x].ident = i
        /\ mem'[x] # NULL
    <2>1. mem'[x] = [mem[x] EXCEPT !.fields = f]
      BY <1>1, <1>2, <1>3 DEF TypeOK
    <2> HIDE DEF f
    <2>2. /\ mem'[x] \in Objects(k) /\ mem'[x].fields = f /\ mem'[x].kind = k
          /\ mem'[x].ident = mem[x].ident
      BY <1>4, <1>5, <2>1, FieldsSet
    <2>3. QED
      BY <1>4, <2>2, ObjectsAreNotNull DEF i
  <1>7. DOMAIN mem' = Addrs /\ \A a \in Addrs \ {x} : mem'[a] = mem[a]
    BY <1>1, <1>2 DEF TypeOK
  <1>8. Starts' = Starts /\ StartsOf(mem') = Starts /\ Starts \subseteq Addrs
    BY <1>3, <1>6, <1>7 DEF Starts, StartsOf
  <1>9. \A a \in Starts : /\ mem'[a].kind = mem[a].kind /\ mem'[a].ident = mem[a].ident
                          /\ DOMAIN mem'[a].fields = DOMAIN mem[a].fields
                          /\ a # x => mem'[a].fields = mem[a].fields
    BY <1>4, <1>5, <1>6, <1>7, <1>8 DEF k, i
  <1>10. GInv'
    <2>1. ASSUME NEW a \in Starts, NEW u \in DOMAIN mem'[a].fields \ Refs[mem'[a].kind]
          PROVE  mem'[a].fields[u] = NULL
      <3>1. mem[a].fields[u] = NULL
        BY <1>1, <1>9, IdleFacts
      <3>2. CASE a # x
        BY <1>9, <3>1, <3>2
      <3>3. CASE a = x
        BY <1>1, <1>4, <1>6, <3>1, <3>3
      <3>4. QED
        BY <3>2, <3>3
    <2>2. QED
      BY <1>1, <1>8, <1>9, <2>1, IdleFacts, IdleInvariant
  <1>11. Whole(mem', R)
    <2>1. \A a \in R : a \in Starts /\ mem'[a].ident \in Idents
      BY <1>2, <1>9 DEF Whole
    <2>2. \A a \in R : Refs[mem'[a].kind] \subseteq DOMAIN mem'[a].fields
      BY <1>2, <1>9 DEF Whole
    <2>3. ASSUME NEW a \in R, NEW u \in Refs[mem'[a].kind]
          PROVE  mem'[a].fields[u] \in R \cup {NULL}
      <3>1. mem[a].fields[u] \in R \cup {NULL}
        BY <1>2, <1>9, <2>1 DEF Whole
      <3>2. CASE a # x
        BY <1>9, <2>1, <3>1, <3>2
      <3>3. CASE a = x
        <4>1. u \in 0..Words[k] - 1
          BY <1>4, <1>6, <3>3
        <4>2. mem'[a].fields[u] = IF u = w THEN v ELSE mem[a].fields[u]
          BY <1>4, <1>6, <3>3, <4>1
        <4>3. QED
          BY <1>3, <3>1, <4>2
      <3>4. QED
        BY <3>2, <3>3
    <2>4. \A a, b \in R : mem'[a].ident = mem'[b].ident => a = b
      BY <1>2, <1>9, <2>1 DEF Whole
    <2>5. QED
      BY <1>8, <2>1, <2>2, <2>3, <2>4 DEF Whole
  <1>12. \A p \in Addrs \cup {NULL} : IdOf(mem', p) = IdOf(mem, p)
    <2> SUFFICES ASSUME NEW p \in Addrs
                 PROVE  IdOf(mem', p) = IdOf(mem, p)
      BY DEF IdOf
    <2>1. CASE p = x
      BY <1>3, <1>6, <1>9, <2>1 DEF IdOf, Starts, i
    <2>2. CASE p # x
      BY <1>7, <2>2 DEF IdOf
    <2>3. QED
      BY <2>1, <2>2
  <1>13. RootGraph = RootsOf(mem', roots')
    BY <1>1, <1>2, <1>12, SameGraphs DEF RootsOf, TypeOK
  <1>14. G[i] = ViewOf(mem, x) /\ i \in DOMAIN G /\ DOMAIN h = NamesIn(mem', R)
    <2>1. G[i] = ViewOf(mem, x) /\ i \in DOMAIN G
      BY <1>2, <1>3 DEF i, NamesIn
    <2>2. NamesIn(mem', R) = NamesIn(mem, R)
      BY <1>2, <1>9 DEF NamesIn
    <2>3. QED
      BY <1>2, <2>1, <2>2
  <1>15. ASSUME NEW a \in R
         PROVE  h[mem'[a].ident] = ViewOf(mem', a)
    <2>1. a \in Starts /\ mem'[a].ident = mem[a].ident /\ mem[a].ident \in DOMAIN G
      BY <1>2, <1>9 DEF NamesIn
    <2>2. CASE a # x
      <3>1. mem[a].ident # i
        BY <1>2, <1>3, <2>2 DEF Whole, i
      <3>2. h[mem'[a].ident] = ViewOf(mem, a)
        BY <1>2, <2>1, <3>1
      <3>3. \A u \in DOMAIN mem[a].fields : mem[a].fields[u] \in Addrs \cup {NULL}
        BY <1>2, <2>1, IdentFacts
      <3>4. ViewOf(mem', a) = ViewOf(mem, a)
        BY <1>9, <1>12, <2>1, <2>2, <3>3 DEF ViewOf
      <3>5. QED
        BY <3>2, <3>4
    <2>3. CASE a = x
      <3> DEFINE D == 0..Words[k] - 1
                 o == [kind |-> k, fields |-> [u \in D |-> IdOf(mem, mem[x].fields[u])]]
                 q == [kind |-> k, fields |-> [u \in D |-> IdOf(mem, f[u])]]
      <3>1. h[mem'[a].ident] = [G[i] EXCEPT !.fields = [G[i].fields EXCEPT ![w] = IdOf(mem, v)]]
        BY <1>14, <2>1, <2>3 DEF i
      <3>2. G[i] = o
        BY <1>4, <1>14 DEF ViewOf, k
      <3>3. ViewOf(mem', a) = q
        <4>1. \A u \in D : f[u] \in Addrs \cup {NULL}
          BY <1>5
        <4>2. DOMAIN f = D
          BY <1>5
        <4> HIDE DEF f
        <4>3. QED
          BY <1>6, <1>12, <2>3, <4>1, <4>2 DEF ViewOf
      <3>4. w \in D
        BY <1>1, <1>4
      <3>5. \A u \in D : f[u] = IF u = w THEN v ELSE mem[x].fields[u]
        BY <1>4
      <3> HIDE DEF D, f
      <3> DEFINE F == [o.fields EXCEPT ![w] = IdOf(mem, v)]
      <3>6. F = [u \in D |-> IdOf(mem, f[u])]
        BY <3>4, <3>5
      <3> HIDE DEF F
      <3>7. [o EXCEPT !.fields = F] = q
        BY <3>6, FieldsExcept
      <3> HIDE DEF o, q
      <3>8. QED
        BY <3>1, <3>2, <3>3, <3>7 DEF F
    <2>4. QED
      BY <2>2, <2>3
  <1>16. ObjectGraph!Becomes(RootGraph, h)
    <2> HIDE DEF h
    <2>1. \A p \in Slots : roots'[p] \in R \cup {NULL}
      BY <1>1, <1>2
    <2>2. \A a \in R : h[mem'[a].ident] = ViewOf(mem', a)
      BY <1>15
    <2>3. DOMAIN h = NamesIn(mem', R)
      BY <1>14
    <2>4. phase' = "idle"
      BY <1>1
    <2>5. ObjectGraph!Becomes(RootsOf(mem', roots'), h)
      BY <1>11, <2>1, <2>2, <2>3, <2>4, Simulates, Zenon
    <2>6. QED
      BY <1>13, <2>5
  <1>17. RootGraph[s] = i /\ RootGraph[from] = IdOf(mem, v) /\ i # NULL
    <2>1. RootGraph[s] = IdOf(mem, x) /\ RootGraph[from] = IdOf(mem, v)
      BY SameGraphs DEF RootsOf, x, v
    <2>2. QED
      BY <1>1, <1>3, <1>4, <2>1, HeapAssumption DEF IdOf, i, Starts
  <1>18. G[i].kind = k
    BY <1>14 DEF ViewOf, k
  <1>19. QED
    BY <1>1, <1>10, <1>16, <1>17, <1>18 DEF G

LEMMA NewObject ==
  ASSUME phase = "idle", NEW s, NEW k, NEW i \in Idents \ DOMAIN HeapGraph,
         ObjectGraph!Becomes([RootGraph EXCEPT ![s] = i],
           [j \in DOMAIN HeapGraph \cup {i} |->
              IF j = i THEN [kind |-> k, fields |-> [w \in 0..Words[k] - 1 |-> NULL]]
              ELSE HeapGraph[j]])
  PROVE  ObjectGraph!New(s, k)
  <1> DEFINE root == IF Idle THEN RootGraph ELSE before.root
             object == IF Idle THEN HeapGraph ELSE before.object
  <1>1. root = RootGraph /\ object = HeapGraph
    BY DEF Idle
  <1> HIDE DEF root, object
  <1>2. i \in Idents \ DOMAIN object
    BY <1>1
  <1>3. ObjectGraph!Becomes([root EXCEPT ![s] = i],
          [j \in DOMAIN object \cup {i} |->
             IF j = i THEN [kind |-> k, fields |-> [w \in 0..Words[k] - 1 |-> NULL]]
             ELSE object[j]])
    BY <1>1
  <1>4. \E l \in Idents \ DOMAIN object :
          ObjectGraph!Becomes([root EXCEPT ![s] = l],
            [j \in DOMAIN object \cup {l} |->
               IF j = l THEN [kind |-> k, fields |-> [w \in 0..Words[k] - 1 |-> NULL]]
               ELSE object[j]])
    BY <1>2, <1>3
  <1>5. QED
    BY <1>4 DEF ObjectGraph!New, root, object

\* The new object is the only one of its name.
LEMMA PlaceSimulates ==
  ASSUME IInv, GInv, phase = "idle", phase' = "idle",
         NEW k \in Kinds, NEW s \in Slots, Size(k) <= Capacity - lastEnd, Place(k, s)
  PROVE  GInv' /\ ObjectGraph!New(s, k)
  <1> DEFINE e == lastEnd
             o == Blank(k)
             i == o.ident
             R == Reachable
             S == R \cup {e}
             G == HeapGraph
             b == [kind |-> k, fields |-> [w \in 0..Words[k] - 1 |-> NULL]]
             h == [j \in DOMAIN G \cup {i} |-> IF j = i THEN b ELSE G[j]]
  <1>1. /\ FreshIdents # {}
        /\ mem' = [mem EXCEPT ![e] = o]
        /\ roots' = [roots EXCEPT ![s] = e]
    BY DEF Place
  <1>2. /\ TypeOK /\ AtRest /\ Whole(mem, Starts)
        /\ Whole(mem, R) /\ \A p \in Slots : roots[p] \in R \cup {NULL}
        /\ DOMAIN G = NamesIn(mem, R) /\ R \subseteq Starts
        /\ \A a \in R : G[mem[a].ident] = ViewOf(mem, a)
    BY WholeAtRest
  <1>3. e \in Addrs
    <2>1. Size(k) \in Nat /\ Size(k) > 0 /\ Capacity \in Nat /\ e \in 0..Capacity
      BY <1>2, KindFacts, HeapAssumption DEF TypeOK
    <2>2. QED
      BY <2>1 DEF Addrs
  <1>4. /\ i \in Idents /\ \A a \in Starts : mem[a].ident # i
        /\ o \in Objects(k) /\ o.kind = k /\ o.fields = [w \in 0..Words[k] - 1 |-> NULL]
    <2>1. i \in FreshIdents
      BY <1>1 DEF Blank
    <2>2. o \in Objects(k) /\ o.kind = k /\ o.fields = [w \in 0..Words[k] - 1 |-> NULL]
      BY <1>1 DEF Blank, Objects, FreshIdents
    <2>3. QED
      BY <2>1, <2>2 DEF FreshIdents
  <1>5. o # NULL
    BY <1>4, ObjectsAreNotNull
  <1> HIDE DEF o, e, i, R, G
  <1>6. mem'[e] = o /\ DOMAIN mem' = Addrs /\ \A a \in Addrs \ {e} : mem'[a] = mem[a]
    BY <1>1, <1>2, <1>3 DEF TypeOK
  <1>7. e \notin Starts
    BY <1>2, <1>3, ObjectFacts DEF AtRest, Arena, e
  <1>8. /\ Starts' = Starts \cup {e} /\ StartsOf(mem') = Starts \cup {e}
        /\ \A a \in Starts : mem'[a] = mem[a]
    BY <1>3, <1>5, <1>6, <1>7 DEF Starts, StartsOf
  <1>9. /\ mem'[e].ident = i /\ mem'[e].kind = k
        /\ mem'[e].fields = [w \in 0..Words[k] - 1 |-> NULL]
    BY <1>4, <1>6 DEF i
  <1>10. \A a, c \in Starts \cup {e} : mem'[a].ident = mem'[c].ident => a = c
    BY <1>4, <1>8, <1>9, IdleFacts
  <1>11. GInv'
    <2>1. ASSUME NEW a \in Starts \cup {e}, NEW w \in DOMAIN mem'[a].fields \ Refs[mem'[a].kind]
          PROVE  mem'[a].fields[w] = NULL
      <3>1. CASE a \in Starts
        <4>1. mem'[a] = mem[a]
          BY <1>8, <3>1
        <4>2. w \in DOMAIN mem[a].fields \ Refs[mem[a].kind]
          BY <4>1
        <4>3. QED
          BY <3>1, <4>1, <4>2, IdleFacts
      <3>2. CASE a = e
        BY <1>9, <3>2
      <3>3. QED
        BY <3>1, <3>2
    <2>2. QED
      BY <1>8, <1>10, <2>1, IdleInvariant
  <1>12. Whole(mem', S)
    <2>1. S \subseteq StartsOf(mem')
      BY <1>2, <1>8
    <2>2. ASSUME NEW a \in S
          PROVE  /\ mem'[a].ident \in Idents
                 /\ Refs[mem'[a].kind] \subseteq DOMAIN mem'[a].fields
                 /\ \A w \in Refs[mem'[a].kind] : mem'[a].fields[w] \in S \cup {NULL}
      <3>1. CASE a \in R
        <4>1. mem'[a] = mem[a]
          BY <1>2, <1>8, <3>1
        <4>2. QED
          BY <1>2, <3>1, <4>1 DEF Whole
      <3>2. CASE a = e
        <4>1. Refs[k] \subseteq 0..Words[k] - 1
          BY KindFacts
        <4>2. QED
          BY <1>4, <1>9, <3>2, <4>1
      <3>3. QED
        BY <3>1, <3>2
    <2>3. \A a, c \in S : mem'[a].ident = mem'[c].ident => a = c
      BY <1>2, <1>10
    <2>4. QED
      BY <2>1, <2>2, <2>3 DEF Whole
  <1>13. \A p \in Slots : roots'[p] \in S \cup {NULL}
    BY <1>1, <1>2 DEF TypeOK
  <1>14. \A p \in R \cup {NULL} : IdOf(mem', p) = IdOf(mem, p)
    BY <1>2, <1>8 DEF IdOf, Starts
  <1>15. RootsOf(mem', roots') = [RootGraph EXCEPT ![s] = i]
    <2>1. IdOf(mem', e) = i
      BY <1>3, <1>5, <1>6, <1>9, HeapAssumption DEF IdOf
    <2>2. RootGraph = [p \in Slots |-> IdOf(mem, roots[p])]
      BY SameGraphs DEF RootsOf
    <2>3. \A p \in Slots : roots'[p] = IF p = s THEN e ELSE roots[p]
      BY <1>1, <1>2 DEF TypeOK
    <2>4. \A p \in Slots : IdOf(mem', roots'[p]) = IF p = s THEN i ELSE IdOf(mem, roots[p])
      BY <1>2, <1>14, <2>1, <2>3
    <2>5. QED
      BY <2>2, <2>4 DEF RootsOf
  <1>16. i \notin DOMAIN G
    BY <1>2, <1>4 DEF NamesIn
  <1>17. DOMAIN h = NamesIn(mem', S)
    <2>1. NamesIn(mem', S) = NamesIn(mem, R) \cup {i}
      BY <1>2, <1>8, <1>9 DEF NamesIn
    <2>2. QED
      BY <1>2, <2>1
  <1>18. ASSUME NEW a \in S
         PROVE  h[mem'[a].ident] = ViewOf(mem', a)
    <2>1. CASE a \in R
      <3>1. a \in Starts /\ mem'[a] = mem[a] /\ mem[a].ident \in DOMAIN G /\ mem[a].ident # i
        BY <1>2, <1>4, <1>8, <2>1 DEF NamesIn
      <3>2. h[mem'[a].ident] = ViewOf(mem, a)
        BY <1>2, <2>1, <3>1
      <3>3. \A w \in DOMAIN mem[a].fields : mem[a].fields[w] \in R \cup {NULL}
        <4> SUFFICES ASSUME NEW w \in DOMAIN mem[a].fields
                     PROVE  mem[a].fields[w] \in R \cup {NULL}
          OBVIOUS
        <4>1. CASE w \in Refs[mem[a].kind]
          BY <1>2, <2>1, <4>1 DEF Whole
        <4>2. CASE w \notin Refs[mem[a].kind]
          BY <3>1, <4>2, IdleFacts
        <4>3. QED
          BY <4>1, <4>2
      <3>4. ViewOf(mem', a) = ViewOf(mem, a)
        BY <1>14, <3>1, <3>3 DEF ViewOf
      <3>5. QED
        BY <3>2, <3>4
    <2>2. CASE a = e
      <3>1. h[i] = b
        OBVIOUS
      <3>2. ViewOf(mem', e) = b
        BY <1>9 DEF ViewOf, IdOf
      <3>3. QED
        BY <1>9, <2>2, <3>1, <3>2
    <2>3. QED
      BY <2>1, <2>2
  <1>19. ObjectGraph!Becomes([RootGraph EXCEPT ![s] = i], h)
    <2> HIDE DEF h, S
    <2>1. \A a \in S : h[mem'[a].ident] = ViewOf(mem', a)
      BY <1>18
    <2>2. ObjectGraph!Becomes(RootsOf(mem', roots'), h)
      BY <1>12, <1>13, <1>17, <2>1, Simulates, Zenon
    <2>3. QED
      BY <1>15, <2>2
  <1>20. ObjectGraph!Becomes([RootGraph EXCEPT ![s] = i],
           [j \in DOMAIN HeapGraph \cup {i} |->
              IF j = i THEN [kind |-> k, fields |-> [w \in 0..Words[k] - 1 |-> NULL]]
              ELSE HeapGraph[j]])
    BY <1>19 DEF G
  <1>21. i \in Idents \ DOMAIN HeapGraph
    BY <1>4, <1>16 DEF G
  <1> HIDE DEF h
  <1>22. ObjectGraph!New(s, k)
    BY <1>20, <1>21, NewObject
  <1>23. QED
    BY <1>11, <1>22

\* Outside collections the graph is what memory holds.
LEMMA IdleGraph ==
  ASSUME phase = "idle"
  PROVE  /\ (IF Idle THEN RootGraph ELSE before.root) = RootGraph
         /\ (IF Idle THEN HeapGraph ELSE before.object) = HeapGraph
  BY DEF Idle

LEMMA AssignStep ==
  ASSUME phase = "idle", NEW s, NEW v, ObjectGraph!Becomes([RootGraph EXCEPT ![s] = v], HeapGraph)
  PROVE  ObjectGraph!Assign(s, v)
  <1> DEFINE root == IF Idle THEN RootGraph ELSE before.root
             object == IF Idle THEN HeapGraph ELSE before.object
  <1>1. root = RootGraph /\ object = HeapGraph
    BY IdleGraph
  <1> HIDE DEF root, object
  <1>2. ObjectGraph!Becomes([root EXCEPT ![s] = v], object)
    BY <1>1
  <1>3. QED
    BY <1>2 DEF ObjectGraph!Assign, root, object

LEMMA GetStep ==
  ASSUME phase = "idle", NEW s, NEW from, NEW w,
         RootGraph[from] # NULL, w \in Refs[HeapGraph[RootGraph[from]].kind],
         ObjectGraph!Assign(s, HeapGraph[RootGraph[from]].fields[w])
  PROVE  ObjectGraph!Get(s, from, w)
  <1> DEFINE root == IF Idle THEN RootGraph ELSE before.root
             object == IF Idle THEN HeapGraph ELSE before.object
  <1>1. root = RootGraph /\ object = HeapGraph
    BY IdleGraph
  <1> HIDE DEF root, object
  <1>2. /\ root[from] # NULL /\ w \in Refs[object[root[from]].kind]
        /\ ObjectGraph!Assign(s, object[root[from]].fields[w])
    BY <1>1
  <1>3. QED
    BY <1>2 DEF ObjectGraph!Get, root, object

LEMMA PutStep ==
  ASSUME phase = "idle", NEW s, NEW from, NEW w,
         RootGraph[s] # NULL, w \in Refs[HeapGraph[RootGraph[s]].kind],
         ObjectGraph!Becomes(RootGraph, [HeapGraph EXCEPT ![RootGraph[s]].fields[w] = RootGraph[from]])
  PROVE  ObjectGraph!Put(s, w, from)
  <1> DEFINE root == IF Idle THEN RootGraph ELSE before.root
             object == IF Idle THEN HeapGraph ELSE before.object
  <1>1. root = RootGraph /\ object = HeapGraph
    BY IdleGraph
  <1> HIDE DEF root, object
  <1>2. root[s] # NULL /\ w \in Refs[object[root[s]].kind]
    BY <1>1
  <1>3. ObjectGraph!Becomes(root, [object EXCEPT ![root[s]].fields[w] = root[from]])
    BY <1>1
  <1>4. QED
    BY <1>2, <1>3 DEF ObjectGraph!Put, root, object

\* Every move of a reference by bytecode is one in the graph.
LEMMA GetSimulates ==
  ASSUME IInv, GInv, NEW s \in Slots, NEW from \in Slots, NEW w, GetField(s, from, w)
  PROVE  GInv' /\ ObjectGraph!Get(s, from, w)
  <1> DEFINE x == roots[from]
             v == mem[x].fields[w]
  <1>1. phase = "idle" /\ x # NULL /\ w \in Refs[mem[x].kind] /\ Assign(s, v)
    BY DEF GetField, Running
  <1>2. /\ TypeOK /\ Whole(mem, Reachable) /\ \A p \in Slots : roots[p] \in Reachable \cup {NULL}
        /\ Reachable \subseteq Starts
        /\ \A a \in Reachable : HeapGraph[mem[a].ident] = ViewOf(mem, a)
    BY <1>1, WholeAtRest
  <1>3. x \in Reachable /\ v \in Reachable \cup {NULL} /\ w \in DOMAIN mem[x].fields
    BY <1>1, <1>2 DEF Whole
  <1>4. x \in Starts /\ mem[x].ident \in Idents /\ mem[x] # NULL
    BY <1>2, <1>3, IdentFacts DEF Starts
  <1> HIDE DEF x, v
  <1>5. RootGraph[from] = mem[x].ident /\ mem[x].ident # NULL
    <2>1. RootGraph[from] = IdOf(mem, x)
      BY SameGraphs DEF RootsOf, x
    <2>2. QED
      BY <1>1, <1>4, <2>1, HeapAssumption DEF IdOf
  <1>6. /\ HeapGraph[RootGraph[from]].kind = mem[x].kind
        /\ HeapGraph[RootGraph[from]].fields[w] = IdOf(mem, v)
    <2>1. HeapGraph[RootGraph[from]] = ViewOf(mem, x)
      BY <1>2, <1>3, <1>5
    <2>2. QED
      BY <1>3, <2>1 DEF ViewOf, v
  <1>7. GInv' /\ ObjectGraph!Becomes([RootGraph EXCEPT ![s] = IdOf(mem, v)], HeapGraph)
    BY <1>1, <1>3, AssignSimulates
  <1>8. ObjectGraph!Assign(s, HeapGraph[RootGraph[from]].fields[w])
    BY <1>1, <1>6, <1>7, AssignStep
  <1>9. RootGraph[from] # NULL
    BY <1>5
  <1>10. w \in Refs[HeapGraph[RootGraph[from]].kind]
    BY <1>1, <1>6
  <1>11. ObjectGraph!Get(s, from, w)
    BY <1>1, <1>8, <1>9, <1>10, GetStep
  <1>12. QED
    BY <1>7, <1>11

LEMMA MutateSimulates ==
  ASSUME IInv, GInv, Mutate
  PROVE  GInv' /\ ObjectGraph!Next
  <1> DEFINE root == IF Idle THEN RootGraph ELSE before.root
  <1>1. phase = "idle"
    BY DEF Mutate, Assign, GetField, PutField, Running
  <1>2. PICK s \in Slots, from \in Slots :
          \/ Assign(s, NULL)
          \/ Assign(s, roots[from])
          \/ \E k \in Kinds : \E w \in Refs[k] : GetField(s, from, w) \/ PutField(s, w, from)
    BY DEF Mutate
  <1>3. root = RootGraph
    BY <1>1, IdleGraph
  <1>4. roots[from] \in Reachable \cup {NULL} /\ RootGraph[from] = IdOf(mem, roots[from])
    BY <1>1, WholeAtRest, SameGraphs DEF RootsOf
  <1>5. CASE Assign(s, NULL)
    <2>1. IdOf(mem, NULL) = NULL
      BY DEF IdOf
    <2>2. GInv' /\ ObjectGraph!Assign(s, NULL)
      BY <1>1, <1>5, <2>1, AssignSimulates, AssignStep
    <2>3. QED
      BY <2>2 DEF ObjectGraph!Next
  <1>6. CASE Assign(s, roots[from])
    <2> HIDE DEF root
    <2>1. GInv' /\ ObjectGraph!Assign(s, RootGraph[from])
      BY <1>1, <1>4, <1>6, AssignSimulates, AssignStep
    <2>2. ObjectGraph!Assign(s, root[from])
      BY <1>3, <2>1
    <2>3. QED
      BY <2>1, <2>2 DEF ObjectGraph!Next, root
  <1>7. CASE \E k \in Kinds : \E w \in Refs[k] : GetField(s, from, w) \/ PutField(s, w, from)
    <2>1. PICK k \in Kinds : \E w \in Refs[k] : GetField(s, from, w) \/ PutField(s, w, from)
      BY <1>7
    <2> PICK w \in Refs[k] : GetField(s, from, w) \/ PutField(s, w, from)
      BY <2>1
    <2>2. GInv' /\ (ObjectGraph!Get(s, from, w) \/ ObjectGraph!Put(s, w, from))
      BY <1>1, GetSimulates, PutSimulates, PutStep
    <2>3. QED
      BY <2>2 DEF ObjectGraph!Next
  <1>8. QED
    BY <1>2, <1>5, <1>6, <1>7

\* The graph does not change while memory and roots stay, or a collection goes on.
LEMMA GraphStays ==
  ASSUME \/ phase = "idle" /\ phase' = "idle" /\ UNCHANGED <<mem, roots>>
         \/ phase # "idle" /\ phase' # "idle" /\ before' = before
         \/ phase = "idle" /\ phase' # "idle" /\ before' = [root |-> RootGraph, object |-> HeapGraph]
         \/ /\ phase # "idle" /\ phase' = "idle"
            /\ before.root = RootGraph' /\ before.object = HeapGraph'
  PROVE  UNCHANGED ObjectGraph!vars
  <1>1. CASE phase = "idle" /\ phase' = "idle" /\ UNCHANGED <<mem, roots>>
    <2>1. RootGraph' = RootGraph /\ HeapGraph' = HeapGraph
      BY <1>1, SameGraphs, SameGraphsNext
    <2>2. QED
      BY <1>1, <2>1 DEF ObjectGraph!vars, Idle
  <1>2. CASE phase # "idle" /\ phase' # "idle" /\ before' = before
    BY <1>2 DEF ObjectGraph!vars, Idle
  <1>3. CASE phase = "idle" /\ phase' # "idle" /\ before' = [root |-> RootGraph, object |-> HeapGraph]
    BY <1>3 DEF ObjectGraph!vars, Idle
  <1>4. CASE /\ phase # "idle" /\ phase' = "idle"
             /\ before.root = RootGraph' /\ before.object = HeapGraph'
    BY <1>4 DEF ObjectGraph!vars, Idle
  <1>5. QED
    BY <1>1, <1>2, <1>3, <1>4

LEMMA AllocateSimulates ==
  ASSUME IInv, GInv, Allocate
  PROVE  GInv' /\ (ObjectGraph!Next \/ UNCHANGED ObjectGraph!vars)
  <1>1. phase = "idle" /\ phase' = "idle"
    BY DEF Allocate, Alloc, AllocFull, AllocRetry, gcVars
  <1>2. PICK t \in Threads :
          \/ \E k \in Kinds : AllocFull(t, k) \/ \E s \in Slots : Alloc(t, k, s)
          \/ \E s \in Slots : AllocRetry(t, s)
    BY DEF Allocate
  <1>3. CASE UNCHANGED <<mem, roots>>
    <2>1. Starts' = Starts
      BY <1>3 DEF Starts
    <2>2. GInv'
      BY <1>1, <1>3, <2>1, IdleFacts, IdleInvariant
    <2>3. QED
      BY <1>1, <1>3, <2>2, GraphStays
  <1>4. CASE \E k \in Kinds, s \in Slots : Size(k) <= Capacity - lastEnd /\ Place(k, s)
    <2>1. PICK k \in Kinds, s \in Slots : Size(k) <= Capacity - lastEnd /\ Place(k, s)
      BY <1>4
    <2>2. GInv' /\ ObjectGraph!New(s, k)
      BY <1>1, <2>1, PlaceSimulates
    <2>3. QED
      BY <2>2 DEF ObjectGraph!Next
  <1>5. \/ UNCHANGED <<mem, roots>>
        \/ \E k \in Kinds, s \in Slots : Size(k) <= Capacity - lastEnd /\ Place(k, s)
    <2>1. ASSUME NEW k \in Kinds, AllocFull(t, k)
          PROVE  UNCHANGED <<mem, roots>>
      BY <2>1 DEF AllocFull
    <2>2. ASSUME NEW k \in Kinds, NEW s \in Slots, Alloc(t, k, s)
          PROVE  Size(k) <= Capacity - lastEnd /\ Place(k, s)
      BY <2>2 DEF Alloc, HasRoom, RoomFor
    <2>3. ASSUME NEW s \in Slots, AllocRetry(t, s)
          PROVE  \/ UNCHANGED <<mem, roots>>
                 \/ /\ Size(wanted[t]) <= Capacity - lastEnd /\ Place(wanted[t], s)
                    /\ wanted[t] \in Kinds
      <3>1. wanted[t] \in Kinds
        BY <2>3 DEF AllocRetry, IInv, Calls
      <3>2. CASE Size(wanted[t]) <= Capacity - lastEnd
        BY <2>3, <3>1, <3>2 DEF AllocRetry
      <3>3. CASE ~(Size(wanted[t]) <= Capacity - lastEnd)
        BY <2>3, <3>3 DEF AllocRetry
      <3>4. QED
        BY <3>2, <3>3
    <2>4. QED
      BY <1>2, <2>1, <2>2, <2>3
  <1>6. QED
    BY <1>3, <1>4, <1>5

----------------------------------------------------------------------------
(* Marking and forwarding *)

\* Marks and places are not seen in the graph.
LEMMA SameShape ==
  ASSUME NEW m, NEW n, NEW r, NEW R, Whole(m, R), \A s \in Slots : r[s] \in R \cup {NULL},
         StartsOf(n) = StartsOf(m),
         \A a \in StartsOf(m) : /\ n[a].kind = m[a].kind /\ n[a].ident = m[a].ident
                                /\ n[a].fields = m[a].fields,
         \A a \in R : \A w \in DOMAIN m[a].fields : m[a].fields[w] \in Addrs \cup {NULL}
  PROVE  /\ \A S \in SUBSET StartsOf(m) : ClosedIn(n, r, S) <=> ClosedIn(m, r, S)
         /\ ReachIn(n, r) = ReachIn(m, r)
         /\ RootsOf(n, r) = RootsOf(m, r) /\ GraphOf(n, r) = GraphOf(m, r)
  <1>1. \A a \in StartsOf(m) : PointeesOf(n, a) = PointeesOf(m, a)
    BY DEF PointeesOf
  <1>2. \A S \in SUBSET StartsOf(m) : ClosedIn(n, r, S) <=> ClosedIn(m, r, S)
    BY <1>1 DEF ClosedIn
  <1>3. ReachIn(n, r) = ReachIn(m, r)
    BY <1>2 DEF ReachIn
  <1>4. \A p \in Addrs \cup {NULL} : IdOf(n, p) = IdOf(m, p)
    <2> SUFFICES ASSUME NEW p \in Addrs
                 PROVE  IdOf(n, p) = IdOf(m, p)
      BY DEF IdOf
    <2>1. CASE p \in StartsOf(m)
      <3>1. n[p] # NULL /\ m[p] # NULL
        BY <2>1 DEF StartsOf
      <3>2. QED
        BY <2>1, <3>1 DEF IdOf
    <2>2. CASE p \notin StartsOf(m)
      BY <2>2 DEF IdOf, StartsOf
    <2>3. QED
      BY <2>1, <2>2
  <1>5. R \subseteq StartsOf(m) /\ StartsOf(m) \subseteq Addrs
    BY DEF Whole, StartsOf
  <1>6. RootsOf(n, r) = RootsOf(m, r)
    BY <1>4, <1>5 DEF RootsOf
  <1>7. \A a \in R : ViewOf(n, a) = ViewOf(m, a)
    BY <1>4, <1>5 DEF ViewOf
  <1>8. Whole(n, R)
    BY <1>5 DEF Whole
  <1>9. GraphOf(n, r) = GraphOf(m, r)
    <2> DEFINE reach == ReachIn(m, r)
               G == GraphOf(m, r)
               H == GraphOf(n, r)
    <2>1. /\ DOMAIN G = NamesIn(m, reach)
          /\ \A a \in reach : G[m[a].ident] = ViewOf(m, a)
          /\ reach \subseteq R
      BY GraphIsReached
    <2>2. /\ DOMAIN H = NamesIn(n, reach)
          /\ \A a \in reach : H[n[a].ident] = ViewOf(n, a)
      BY <1>3, <1>8, GraphIsReached
    <2>3. NamesIn(n, reach) = NamesIn(m, reach)
      BY <1>5, <2>1 DEF NamesIn
    <2>4. G = [i \in DOMAIN G |-> G[i]] /\ H = [i \in DOMAIN H |-> H[i]]
      BY DEF GraphOf
    <2> HIDE DEF G, H, reach
    <2>5. ASSUME NEW i \in NamesIn(m, reach)
          PROVE  G[i] = H[i]
      <3>1. PICK a \in reach : i = m[a].ident
        BY DEF NamesIn
      <3>2. a \in R /\ n[a].ident = i
        BY <1>5, <2>1, <3>1
      <3>3. QED
        BY <1>7, <2>1, <2>2, <3>1, <3>2
    <2>6. DOMAIN G = DOMAIN H /\ \A i \in DOMAIN G : G[i] = H[i]
      BY <2>1, <2>2, <2>3, <2>5
    <2>7. G = H
      BY <2>4, <2>6
    <2>8. QED
      BY <2>7 DEF G, H
  <1>10. QED
    BY <1>2, <1>3, <1>6, <1>9

LEMMA SameShapeNext ==
  ASSUME TypeOK, NEW R \in SUBSET Starts, Whole(mem, R), RootsIn(R),
         UNCHANGED roots, Starts' = Starts,
         \A a \in Starts : /\ mem'[a].kind = mem[a].kind /\ mem'[a].ident = mem[a].ident
                           /\ mem'[a].fields = mem[a].fields
  PROVE  /\ \A S \in SUBSET Starts : (Closed(S))' <=> Closed(S)
         /\ Reachable' = Reachable /\ RootGraph' = RootGraph /\ HeapGraph' = HeapGraph
  <1>1. StartsOf(mem') = StartsOf(mem) /\ StartsOf(mem) = Starts
    BY SameDefinitions, SameGraphsNext
  <1>2. \A a \in R : \A w \in DOMAIN mem[a].fields : mem[a].fields[w] \in Addrs \cup {NULL}
    BY IdentFacts
  <1>3. \A s \in Slots : roots[s] \in R \cup {NULL}
    BY DEF RootsIn
  <1>4. /\ \A S \in SUBSET StartsOf(mem) : ClosedIn(mem', roots, S) <=> ClosedIn(mem, roots, S)
        /\ ReachIn(mem', roots) = ReachIn(mem, roots)
        /\ RootsOf(mem', roots) = RootsOf(mem, roots)
        /\ GraphOf(mem', roots) = GraphOf(mem, roots)
    BY <1>1, <1>2, <1>3, SameShape
  <1>5. \A S : (Closed(S))' <=> ClosedIn(mem', roots', S)
    BY <1>1 DEF Closed, ClosedIn, RootSet, Pointees, PointeesOf
  <1>6. QED
    BY <1>1, <1>4, <1>5, SameDefinitions, SameGraphs, SameGraphsNext

\* What is left of the invariant while objects are marked and get their places.
LEMMA MarkingInvariant ==
  ASSUME phase' \in {"mark", "forward", "patchRoots"}, Starts' = Starts,
         \A a \in Starts : /\ mem'[a].kind = mem[a].kind /\ mem'[a].ident = mem[a].ident
                           /\ mem'[a].fields = mem[a].fields,
         \A a, b \in Starts : mem[a].ident = mem[b].ident => a = b,
         PlainIsNull,
         phase' = "mark" => OnlyReachable',
         phase' # "mark" => Survivors' = Reachable',
         MarkingKeeps', Snapshot'
  PROVE  GInv'
  <1>1. Alive' = Starts
    BY DEF Alive
  <1>2. NamesAreUnique'
    BY <1>1 DEF NamesAreUnique
  <1>3. PlainIsNull'
    BY DEF PlainIsNull
  <1>4. QED
    BY <1>2, <1>3 DEF GInv

LEMMA MarkingSame ==
  ASSUME GInv, phase \in {"mark", "forward", "patchRoots"}
  PROVE  /\ \A a, b \in Starts : mem[a].ident = mem[b].ident => a = b
         /\ PlainIsNull /\ MarkingKeeps /\ Snapshot
  <1>1. Alive = Starts /\ phase # "idle"
    BY DEF Alive
  <1>2. QED
    BY <1>1 DEF GInv, NamesAreUnique

\* The objects that are not lost are a graph by themselves.
LEMMA SurvivorsAreWhole ==
  ASSUME IInv, GInv, phase \in {"mark", "forward", "patchRoots"}
  PROVE  \E R \in SUBSET Starts : /\ Whole(mem, R) /\ RootsIn(R)
                                  /\ phase # "mark" => R = Survivors
  <1>1. TypeOK /\ Survivors \subseteq Starts
    BY DEF IInv, Survivors
  <1>2. \A a, b \in Starts : mem[a].ident = mem[b].ident => a = b
    BY MarkingSame
  <1>3. CASE phase = "mark"
    <2>1. RootsIn(Starts) /\ \A a \in Starts : Refers(a, Starts)
      BY <1>1, <1>3 DEF IInv, Marking, RootsIn
    <2>2. Whole(mem, Starts)
      BY <1>1, <1>2, <2>1, WholeSet
    <2>3. QED
      BY <1>3, <2>1, <2>2
  <1>4. CASE phase # "mark"
    <2>1. RootsIn(Survivors) /\ \A a \in Survivors : Refers(a, Survivors)
      BY <1>4 DEF IInv, Forwarding, PatchingRoots
    <2>2. Whole(mem, Survivors)
      BY <1>1, <1>2, <2>1, WholeSet
    <2>3. QED
      BY <1>1, <2>1, <2>2
  <1>5. QED
    BY <1>3, <1>4

LEMMA StartSimulates ==
  ASSUME IInv, GInv, NEW t \in Threads, StartCollection(t)
  PROVE  GInv' /\ UNCHANGED ObjectGraph!vars
  <1>1. /\ phase = "idle" /\ phase' = "mark" /\ mem' = Mark(RootSet) /\ UNCHANGED roots
        /\ before' = [root |-> RootGraph, object |-> HeapGraph]
    BY DEF StartCollection
  <1>2. /\ TypeOK /\ AtRest /\ Whole(mem, Starts) /\ RootsIn(Starts)
        /\ ObjectGraph!Reached(RootGraph, HeapGraph) = DOMAIN HeapGraph
    BY <1>1, WholeAtRest DEF RootsIn
  <1>3. RootSet \in SUBSET Starts
    BY <1>2 DEF RootsIn, RootSet
  <1>4. /\ Starts' = Starts
        /\ \A a \in Starts : /\ mem'[a].kind = mem[a].kind /\ mem'[a].ident = mem[a].ident
                             /\ mem'[a].fields = mem[a].fields
                             /\ mem'[a].forward = IF a \in RootSet THEN Marked ELSE mem[a].forward
    BY <1>1, <1>2, <1>3, MarkFacts
  <1>5. /\ \A S \in SUBSET Starts : (Closed(S))' <=> Closed(S)
        /\ RootGraph' = RootGraph /\ HeapGraph' = HeapGraph
    BY <1>1, <1>2, <1>4, SameShapeNext
  <1>6. Survivors' = RootSet
    BY <1>2, <1>3, <1>4, HeapAssumption DEF Survivors, AtRest
  <1>7. OnlyReachable'
    <2>1. \A S \in SUBSET Starts : Closed(S) => RootSet \subseteq S
      BY <1>3 DEF Closed
    <2>2. \A S \in SUBSET Starts' : (Closed(S))' => Survivors' \subseteq S
      BY <1>4, <1>5, <1>6, <2>1
    <2>3. QED
      BY <2>2 DEF OnlyReachable
  <1>8. MarkingKeeps' /\ Snapshot'
    <2>1. HeapGraph = [i \in DOMAIN HeapGraph |-> HeapGraph[i]]
      BY SameGraphs DEF GraphOf
    <2>2. before'.root = RootGraph /\ before'.object = HeapGraph
      BY <1>1
    <2>3. MarkingKeeps'
      BY <1>5, <2>2 DEF MarkingKeeps
    <2>4. QED
      BY <1>2, <2>1, <2>2, <2>3 DEF Snapshot
  <1>9. GInv'
    <2>1. PlainIsNull /\ \A a, b \in Starts : mem[a].ident = mem[b].ident => a = b
      BY <1>1, IdleFacts DEF GInv
    <2>2. phase' \in {"mark", "forward", "patchRoots"} /\ phase' = "mark"
      BY <1>1
    <2>3. QED
      BY <1>4, <1>7, <1>8, <2>1, <2>2, MarkingInvariant
  <1>10. UNCHANGED ObjectGraph!vars
    BY <1>1, GraphStays
  <1>11. QED
    BY <1>9, <1>10

LEMMA MarkOneSimulates ==
  ASSUME FieldsAreSeen, IInv, GInv, MarkOne
  PROVE  GInv' /\ UNCHANGED ObjectGraph!vars
  <1> DEFINE h == Head(workList)
             new == {p \in Children(h) : mem[p].forward # Marked}
  <1>1. /\ phase = "mark" /\ phase' = "mark" /\ workList # <<>> /\ mem' = Mark(new)
        /\ UNCHANGED roots /\ UNCHANGED before
    BY DEF MarkOne
  <1>2. TypeOK /\ Marking /\ OnlyReachable
    BY <1>1 DEF IInv, GInv
  <1>3. h \in Survivors /\ h \in Starts
    <2>1. h = workList[1] /\ 1 \in DOMAIN workList
      BY <1>1, <1>2 DEF TypeOK
    <2>2. QED
      BY <1>2, <2>1 DEF Marking, Survivors
  <1>4. mem[h].kind \in Kinds /\ ScannedWords(mem[h].kind) = Refs[mem[h].kind]
    BY <1>2, <1>3, ObjectFacts DEF FieldsAreSeen
  <1> HIDE DEF h
  <1>5. Children(h) \subseteq Starts /\ Children(h) = Pointees(h)
    BY <1>2, <1>3, <1>4 DEF Marking, Refers, Children, Pointees
  <1>6. new \in SUBSET Starts /\ new \subseteq Pointees(h)
    BY <1>5
  <1> HIDE DEF new
  <1>7. /\ Starts' = Starts
        /\ \A a \in Starts : /\ mem'[a].kind = mem[a].kind /\ mem'[a].ident = mem[a].ident
                             /\ mem'[a].fields = mem[a].fields
                             /\ mem'[a].forward = IF a \in new THEN Marked ELSE mem[a].forward
    BY <1>1, <1>2, <1>6, MarkFacts
  <1>8. Survivors' = Survivors \cup new
    BY <1>6, <1>7, HeapAssumption DEF Survivors
  <1>9. /\ \A S \in SUBSET Starts : (Closed(S))' <=> Closed(S)
        /\ RootGraph' = RootGraph /\ HeapGraph' = HeapGraph
    <2>1. PICK R \in SUBSET Starts : Whole(mem, R) /\ RootsIn(R)
      BY <1>1, SurvivorsAreWhole
    <2>2. QED
      BY <1>1, <1>2, <1>7, <2>1, SameShapeNext
  <1>10. OnlyReachable'
    <2>1. ASSUME NEW S \in SUBSET Starts, Closed(S)
          PROVE  Survivors \cup new \subseteq S
      <3>1. Survivors \subseteq S
        BY <1>2, <2>1 DEF OnlyReachable
      <3>2. Pointees(h) \cap Starts \subseteq S
        BY <1>3, <2>1, <3>1 DEF Closed
      <3>3. QED
        BY <1>6, <3>1, <3>2
    <2>2. \A S \in SUBSET Starts' : (Closed(S))' => Survivors' \subseteq S
      BY <1>7, <1>8, <1>9, <2>1
    <2>3. QED
      BY <2>2 DEF OnlyReachable
  <1>11. /\ \A a, b \in Starts : mem[a].ident = mem[b].ident => a = b
         /\ PlainIsNull /\ MarkingKeeps /\ Snapshot
    BY <1>1, MarkingSame
  <1>12. MarkingKeeps' /\ Snapshot'
    BY <1>1, <1>9, <1>11 DEF MarkingKeeps, Snapshot
  <1>13. GInv'
    <2>1. phase' \in {"mark", "forward", "patchRoots"} /\ phase' = "mark"
      BY <1>1
    <2>2. QED
      BY <1>7, <1>10, <1>11, <1>12, <2>1, MarkingInvariant
  <1>14. UNCHANGED ObjectGraph!vars
    BY <1>1, GraphStays
  <1>15. QED
    BY <1>13, <1>14

\* When nothing is left to scan, what is marked is what the roots lead to.
LEMMA AllIsMarked ==
  ASSUME IInv, GInv, phase = "mark", workList = <<>>
  PROVE  Survivors = Reachable
  <1>1. Marking /\ OnlyReachable
    BY DEF IInv, GInv
  <1>2. Survivors \subseteq Starts
    BY DEF Survivors
  <1>3. Reachable \subseteq Survivors
    <2>1. \A a \in Survivors : Refers(a, Survivors)
      BY <1>1 DEF Marking, ToSet
    <2>2. RootSet \subseteq Survivors
      BY <1>1 DEF Marking, RootsIn, RootSet
    <2>3. \A a \in Survivors : Pointees(a) \subseteq Survivors
      BY <2>1 DEF Refers, Pointees
    <2>4. Closed(Survivors)
      BY <2>2, <2>3 DEF Closed
    <2>5. QED
      BY <1>2, <2>4 DEF Reachable
  <1>4. Closed(Reachable) /\ Reachable \subseteq Starts
    BY ReachIsClosed, SameDefinitions
  <1>5. QED
    BY <1>1, <1>3, <1>4 DEF OnlyReachable

\* The ends of the phases move nothing.
LEMMA MarkEndSimulates ==
  ASSUME IInv, GInv, MarkEnd
  PROVE  GInv' /\ UNCHANGED ObjectGraph!vars
  <1>1. /\ phase = "mark" /\ phase' = "forward" /\ workList = <<>>
        /\ UNCHANGED <<mem, roots, before>>
    BY DEF MarkEnd
  <1>2. /\ \A a, b \in Starts : mem[a].ident = mem[b].ident => a = b
        /\ PlainIsNull /\ MarkingKeeps /\ Snapshot /\ Survivors = Reachable
    BY <1>1, MarkingSame, AllIsMarked
  <1>3. Starts' = Starts /\ Survivors' = Survivors /\ Reachable' = Reachable
    <2>1. Starts' = Starts /\ Survivors' = Survivors
      BY <1>1 DEF Starts, Survivors
    <2>2. QED
      BY <1>1, <2>1, SameDefinitions, SameGraphsNext
  <1>4. RootGraph' = RootGraph /\ HeapGraph' = HeapGraph
    BY <1>1, SameGraphs, SameGraphsNext
  <1>5. MarkingKeeps' /\ Snapshot'
    BY <1>1, <1>2, <1>4 DEF MarkingKeeps, Snapshot
  <1>6. GInv'
    <2>1. phase' \in {"mark", "forward", "patchRoots"} /\ phase' # "mark"
      BY <1>1
    <2>2. Survivors' = Reachable'
      BY <1>2, <1>3
    <2>3. \A a \in Starts : /\ mem'[a].kind = mem[a].kind /\ mem'[a].ident = mem[a].ident
                            /\ mem'[a].fields = mem[a].fields
      BY <1>1
    <2>4. QED
      BY <1>2, <1>3, <1>5, <2>1, <2>2, <2>3, MarkingInvariant
  <1>7. UNCHANGED ObjectGraph!vars
    BY <1>1, GraphStays
  <1>8. QED
    BY <1>6, <1>7

LEMMA ForwardEndSimulates ==
  ASSUME IInv, GInv, ForwardEnd
  PROVE  GInv' /\ UNCHANGED ObjectGraph!vars
  <1>1. /\ phase = "forward" /\ phase' = "patchRoots"
        /\ UNCHANGED <<mem, roots, before>>
    BY DEF ForwardEnd
  <1>2. /\ \A a, b \in Starts : mem[a].ident = mem[b].ident => a = b
        /\ PlainIsNull /\ MarkingKeeps /\ Snapshot /\ Survivors = Reachable
    BY <1>1, MarkingSame DEF GInv
  <1>3. Starts' = Starts /\ Survivors' = Survivors /\ Reachable' = Reachable
    <2>1. Starts' = Starts /\ Survivors' = Survivors
      BY <1>1 DEF Starts, Survivors
    <2>2. QED
      BY <1>1, <2>1, SameDefinitions, SameGraphsNext
  <1>4. RootGraph' = RootGraph /\ HeapGraph' = HeapGraph
    BY <1>1, SameGraphs, SameGraphsNext
  <1>5. MarkingKeeps' /\ Snapshot'
    BY <1>1, <1>2, <1>4 DEF MarkingKeeps, Snapshot
  <1>6. GInv'
    <2>1. phase' \in {"mark", "forward", "patchRoots"} /\ phase' # "mark"
      BY <1>1
    <2>2. Survivors' = Reachable'
      BY <1>2, <1>3
    <2>3. \A a \in Starts : /\ mem'[a].kind = mem[a].kind /\ mem'[a].ident = mem[a].ident
                            /\ mem'[a].fields = mem[a].fields
      BY <1>1
    <2>4. QED
      BY <1>2, <1>3, <1>5, <2>1, <2>2, <2>3, MarkingInvariant
  <1>7. UNCHANGED ObjectGraph!vars
    BY <1>1, GraphStays
  <1>8. QED
    BY <1>6, <1>7

LEMMA ForwardOneSimulates ==
  ASSUME IInv, GInv, ForwardOne
  PROVE  GInv' /\ UNCHANGED ObjectGraph!vars
  <1> DEFINE x == scanner
             k == mem[x].kind
  <1>1. /\ phase = "forward" /\ phase' = "forward" /\ x < lastEnd
        /\ UNCHANGED <<roots, before>>
    BY DEF ForwardOne
  <1>2. TypeOK /\ Forwarding
    BY <1>1 DEF IInv
  <1>3. x \in Starts /\ k \in Kinds /\ mem[x] \in Objects(k) /\ x \in Addrs
    BY <1>1, <1>2, ObjectFacts DEF Forwarding
  <1> HIDE DEF x, k
  <1>4. /\ Starts' = Starts
        /\ \A a \in Starts : /\ mem'[a].kind = mem[a].kind /\ mem'[a].ident = mem[a].ident
                             /\ mem'[a].fields = mem[a].fields
                             /\ mem'[a].forward # NULL <=> mem[a].forward # NULL
    <2>1. CASE mem[x].forward = Marked
      <3> DEFINE c == calcEnd
      <3>1. mem' = [mem EXCEPT ![x] = [mem[x] EXCEPT !.forward = c]]
        BY <2>1 DEF ForwardOne, NewPlace, x
      <3>2. c \in Addrs /\ c # NULL
        <4>1. c \in 0..Capacity /\ c <= x
          BY <1>2 DEF TypeOK, Forwarding, x
        <4>2. c \in Addrs
          BY <1>3, <4>1, HeapAssumption DEF Addrs
        <4>3. QED
          BY <4>2, HeapAssumption
      <3> HIDE DEF c
      <3>3. /\ mem'[x] = [mem[x] EXCEPT !.forward = c]
            /\ \A a \in Addrs \ {x} : mem'[a] = mem[a]
            /\ DOMAIN mem' = Addrs
        BY <1>2, <1>3, <3>1 DEF TypeOK
      <3>4. /\ mem'[x] \in Objects(k) /\ mem'[x].forward = c /\ mem'[x].kind = mem[x].kind
            /\ mem'[x].fields = mem[x].fields /\ mem'[x].ident = mem[x].ident
        BY <1>3, <3>2, <3>3, ForwardSet DEF k
      <3>5. mem'[x] # NULL /\ mem[x] # NULL
        BY <1>3, <3>4, ObjectsAreNotNull
      <3>6. Starts' = Starts
        BY <1>3, <3>3, <3>5 DEF Starts
      <3>7. Starts \subseteq Addrs /\ Marked # NULL
        BY HeapAssumption DEF Starts
      <3>8. QED
        BY <2>1, <3>2, <3>3, <3>4, <3>6, <3>7
    <2>2. CASE mem[x].forward # Marked
      <3>1. mem' = mem
        BY <2>2 DEF ForwardOne, x
      <3>2. QED
        BY <3>1 DEF Starts
    <2>3. QED
      BY <2>1, <2>2
  <1>5. Survivors' = Survivors
    BY <1>4 DEF Survivors
  <1>6. Reachable' = Reachable /\ RootGraph' = RootGraph /\ HeapGraph' = HeapGraph
    <2>1. PICK R \in SUBSET Starts : Whole(mem, R) /\ RootsIn(R)
      BY <1>1, SurvivorsAreWhole
    <2>2. QED
      BY <1>1, <1>2, <1>4, <2>1, SameShapeNext
  <1>7. /\ \A a, b \in Starts : mem[a].ident = mem[b].ident => a = b
        /\ PlainIsNull /\ MarkingKeeps /\ Snapshot /\ Survivors = Reachable
    BY <1>1, MarkingSame DEF GInv
  <1>8. MarkingKeeps' /\ Snapshot'
    BY <1>1, <1>6, <1>7 DEF MarkingKeeps, Snapshot
  <1>9. GInv'
    <2>1. phase' \in {"mark", "forward", "patchRoots"} /\ phase' # "mark"
      BY <1>1
    <2>2. Survivors' = Reachable'
      BY <1>5, <1>6, <1>7
    <2>3. QED
      BY <1>4, <1>7, <1>8, <2>1, <2>2, MarkingInvariant
  <1>10. UNCHANGED ObjectGraph!vars
    BY <1>1, GraphStays
  <1>11. QED
    BY <1>9, <1>10

----------------------------------------------------------------------------
(* Patching *)

\* Places are apart, in the order of the objects.
LEMMA PlacesDiffer ==
  ASSUME TypeOK, NEW from, NEW to, PlacedIn(liveList, mem, from, to)
  PROVE  /\ \A i, j \in DOMAIN liveList :
              mem[liveList[i]].forward = mem[liveList[j]].forward => i = j
         /\ \A i \in DOMAIN liveList : ~(mem[liveList[i]].forward < from)
  <1>1. /\ Len(liveList) \in Nat /\ DOMAIN liveList = 1..Len(liveList)
        /\ \A i \in DOMAIN liveList : /\ mem[liveList[i]].forward \in Nat
                                      /\ mem[liveList[i]].kind \in Kinds
    BY PlacedFacts
  <1>2. \A i, j \in DOMAIN liveList :
          i < j => mem[liveList[i]].forward < mem[liveList[j]].forward
    <2> SUFFICES ASSUME NEW i \in DOMAIN liveList, NEW j \in DOMAIN liveList, i < j
                 PROVE  mem[liveList[i]].forward < mem[liveList[j]].forward
      OBVIOUS
    <2>1. PlaceAfter(mem, liveList[i]) <= mem[liveList[j]].forward
      BY DEF PlacedIn
    <2>2. Size(mem[liveList[i]].kind) \in Nat /\ Size(mem[liveList[i]].kind) > 0
      BY <1>1, KindFacts
    <2>3. QED
      BY <1>1, <2>1, <2>2 DEF PlaceAfter
  <1>3. \A i, j \in DOMAIN liveList :
          mem[liveList[i]].forward = mem[liveList[j]].forward => i = j
    <2> SUFFICES ASSUME NEW i \in DOMAIN liveList, NEW j \in DOMAIN liveList, i # j
                 PROVE  mem[liveList[i]].forward # mem[liveList[j]].forward
      OBVIOUS
    <2>1. i < j \/ j < i
      BY <1>1
    <2>2. QED
      BY <1>1, <1>2, <2>1
  <1>4. ASSUME NEW i \in DOMAIN liveList
        PROVE  ~(mem[liveList[i]].forward < from)
    <2>1. 1 \in DOMAIN liveList /\ (i = 1 \/ 1 < i)
      BY <1>1
    <2>2. mem[liveList[1]].forward = from
      BY <1>1, <2>1 DEF PlacedIn
    <2>3. QED
      BY <1>1, <1>2, <2>1, <2>2
  <1>5. QED
    BY <1>3, <1>4

LEMMA NameOfPlace ==
  ASSUME NEW m, NEW l, NEW end, NEW i \in DOMAIN l,
         \A j \in DOMAIN l : m[l[j]].forward = m[l[i]].forward => j = i,
         ~(m[l[i]].forward < end), m[l[i]].forward # NULL
  PROVE  NameIn(m, l, end, m[l[i]].forward) = m[l[i]].ident
  <1> DEFINE q == m[l[i]].forward
             j == CHOOSE j \in DOMAIN l : m[l[j]].forward = q
  <1>1. j \in DOMAIN l /\ m[l[j]].forward = q
    OBVIOUS
  <1>2. j = i
    BY <1>1
  <1> HIDE DEF j
  <1>3. m[l[j]].ident = m[l[i]].ident
    BY <1>2
  <1>4. QED
    BY <1>3 DEF NameIn, j

\* Before anything is moved, what places are of.
LEMMA PlaceNames ==
  ASSUME TypeOK, PlacedIn(liveList, mem, 0, lastEnd)
  PROVE  /\ MovedEnd = 0 /\ MovedTo = {}
         /\ \A i \in DOMAIN liveList :
              NewName(mem[liveList[i]].forward) = mem[liveList[i]].ident
         /\ NewName(NULL) = NULL
  <1>1. MovedEnd = 0
    BY DEF PlacedIn, MovedEnd
  <1>2. MovedTo = {}
    BY <1>1 DEF MovedTo, Starts, Addrs
  <1>3. ASSUME NEW i \in DOMAIN liveList
        PROVE  NewName(mem[liveList[i]].forward) = mem[liveList[i]].ident
    <2>1. mem[liveList[i]].forward # NULL
      BY PlacedFacts
    <2>2. ~(mem[liveList[i]].forward < 0)
      BY PlacesDiffer
    <2>3. \A j \in DOMAIN liveList :
            mem[liveList[j]].forward = mem[liveList[i]].forward => j = i
      BY PlacesDiffer
    <2>4. NameIn(mem, liveList, 0, mem[liveList[i]].forward) = mem[liveList[i]].ident
      BY <2>1, <2>2, <2>3, NameOfPlace
    <2>5. QED
      BY <1>1, <2>4 DEF NewName
  <1>4. NewName(NULL) = NULL
    BY DEF NewName, NameIn
  <1>5. QED
    BY <1>1, <1>2, <1>3, <1>4

\* A patched reference leads to the same object.
LEMMA PatchedName ==
  ASSUME TypeOK, PlacedIn(liveList, mem, 0, lastEnd), ToSet(liveList) = Survivors,
         NEW p \in Survivors \cup {NULL}
  PROVE  NewName(Patched(p)) = IdOf(mem, p)
  <1>1. CASE p = NULL
    BY <1>1, PlaceNames DEF Patched, IdOf
  <1>2. CASE p \in Survivors
    <2>1. PICK i \in DOMAIN liveList : liveList[i] = p
      BY <1>2 DEF ToSet
    <2>2. mem[p].forward # Marked /\ mem[p] # NULL
      BY <2>1, PlacedFacts
    <2>3. p # NULL
      BY <1>2, HeapAssumption DEF Survivors, Starts
    <2>4. Patched(p) = mem[liveList[i]].forward
      BY <2>1, <2>2, <2>3 DEF Patched
    <2>5. NewName(mem[liveList[i]].forward) = mem[p].ident
      BY <2>1, PlaceNames
    <2>6. QED
      BY <2>2, <2>3, <2>4, <2>5 DEF IdOf
  <1>3. QED
    BY <1>1, <1>2

LEMMA PatchRootsSimulates ==
  ASSUME IInv, GInv, PatchRoots
  PROVE  GInv' /\ UNCHANGED ObjectGraph!vars
  <1>1. /\ phase = "patchRoots" /\ phase' = "patch"
        /\ roots' = [s \in Slots |-> Patched(roots[s])]
        /\ UNCHANGED <<mem, lastEnd, liveList, cursor, before>>
    BY DEF PatchRoots, threadVars
  <1>2. /\ TypeOK /\ PatchingRoots /\ cursor = 0
        /\ PlacedIn(liveList, mem, 0, lastEnd) /\ ToSet(liveList) = Survivors
    BY <1>1 DEF IInv, PatchingRoots, Placed, Registers
  <1>3. /\ \A a, b \in Starts : mem[a].ident = mem[b].ident => a = b
        /\ PlainIsNull /\ MarkingKeeps /\ Snapshot /\ Survivors = Reachable
    BY <1>1, MarkingSame DEF GInv
  <1>4. MovedTo = {} /\ Survivors \subseteq Starts
    BY <1>2, PlaceNames DEF Survivors
  <1>5. /\ Starts' = Starts /\ MovedTo' = MovedTo /\ MovedEnd' = MovedEnd
        /\ \A p : (NewName(p))' = NewName(p)
    BY <1>1 DEF Starts, MovedTo, MovedEnd, NewName
  <1>6. Alive' = Survivors
    BY <1>1, <1>2, <1>4, <1>5 DEF Alive
  <1>7. NamesAreUnique' /\ PlainIsNull' /\ Snapshot'
    <2>1. NamesAreUnique'
      BY <1>1, <1>3, <1>4, <1>6 DEF NamesAreUnique
    <2>2. PlainIsNull' /\ Snapshot'
      BY <1>1, <1>3, <1>5 DEF PlainIsNull, Snapshot
    <2>3. QED
      BY <2>1, <2>2
  <1>8. RootsKept'
    <2>1. before.root = [s \in Slots |-> IdOf(mem, roots[s])]
      BY <1>3, SameGraphs DEF MarkingKeeps, RootsOf
    <2>2. \A s \in Slots : NewName(roots'[s]) = IdOf(mem, roots[s])
      BY <1>1, <1>2, PatchedName DEF PatchingRoots, RootsIn
    <2>3. before.root = [s \in Slots |-> NewName(roots'[s])]
      BY <2>1, <2>2
    <2>4. QED
      BY <1>1, <1>5, <2>3 DEF RootsKept
  <1>9. PatchingKeeps'
    <2>1. /\ DOMAIN HeapGraph = NamesIn(mem, Reachable)
          /\ \A a \in Reachable : HeapGraph[mem[a].ident] = ViewOf(mem, a)
      <3>1. PICK R \in SUBSET Starts : Whole(mem, R) /\ RootsIn(R)
        BY <1>1, SurvivorsAreWhole
      <3>2. \A s \in Slots : roots[s] \in R \cup {NULL}
        BY <3>1 DEF RootsIn
      <3>3. QED
        BY <3>1, <3>2, GraphIsReached, SameDefinitions, SameGraphs
    <2>2. before.object = HeapGraph
      BY <1>3 DEF MarkingKeeps
    <2>3. NamesIn(mem, Reachable) = {mem[liveList[i]].ident : i \in DOMAIN liveList}
      BY <1>2, <1>3 DEF NamesIn, ToSet
    <2>4. \A i \in DOMAIN liveList :
            /\ ~(i <= cursor)
            /\ before.object[mem[liveList[i]].ident] = ObjectAt(liveList[i])
      <3> SUFFICES ASSUME NEW i \in DOMAIN liveList
                   PROVE  /\ ~(i <= cursor)
                          /\ before.object[mem[liveList[i]].ident] = ObjectAt(liveList[i])
        OBVIOUS
      <3>1. ~(i <= cursor)
        BY <1>2, PlacedFacts
      <3>2. liveList[i] \in Reachable
        BY <1>2, <1>3 DEF ToSet
      <3>3. QED
        BY <2>1, <2>2, <3>1, <3>2, SameDefinitions
    <2>5. \A a : (ObjectAt(a))' = ObjectAt(a)
      BY <1>1 DEF ObjectAt, IdentAt
    <2>6. QED
      BY <1>1, <1>8, <2>1, <2>2, <2>3, <2>4, <2>5 DEF PatchingKeeps
  <1>10. GInv'
    BY <1>1, <1>7, <1>9 DEF GInv
  <1>11. UNCHANGED ObjectGraph!vars
    BY <1>1, GraphStays
  <1>12. QED
    BY <1>10, <1>11

LEMMA PatchEndSimulates ==
  ASSUME IInv, GInv, PatchEnd
  PROVE  GInv' /\ UNCHANGED ObjectGraph!vars
  <1>1. /\ phase = "patch" /\ phase' = "move" /\ cursor = Len(liveList)
        /\ UNCHANGED <<mem, roots, lastEnd, liveList, cursor, before>>
    BY DEF PatchEnd, threadVars
  <1>2. /\ TypeOK /\ PlacedIn(liveList, mem, 0, lastEnd)
        /\ NamesAreUnique /\ PlainIsNull /\ PatchingKeeps /\ Snapshot
    BY <1>1 DEF IInv, GInv, Patching, Placed
  <1>3. MovedTo = {} /\ Alive = ToSet(liveList)
    BY <1>1, <1>2, PlaceNames DEF Alive
  <1>4. \A i \in DOMAIN liveList : i <= cursor
    BY <1>1, <1>2, PlacedFacts
  <1>5. MovingKeeps
    <2>1. RootsKept
      BY <1>2 DEF PatchingKeeps
    <2>2. DOMAIN before.object = {mem[a].ident : a \in Alive}
      BY <1>2, <1>3 DEF PatchingKeeps, ToSet
    <2>3. \A a \in Alive : before.object[mem[a].ident] = NewView(a)
      BY <1>2, <1>3, <1>4 DEF PatchingKeeps, ToSet
    <2>4. QED
      BY <2>1, <2>2, <2>3 DEF MovingKeeps
  <1>6. Starts' = Starts /\ MovedEnd' = MovedEnd /\ Alive' = Alive
    <2>1. Starts' = Starts /\ MovedEnd' = MovedEnd /\ MovedTo' = MovedTo
      BY <1>1 DEF Starts, MovedTo, MovedEnd
    <2>2. QED
      BY <1>1, <2>1 DEF Alive
  <1>7. MovingKeeps'
    BY <1>1, <1>5, <1>6 DEF MovingKeeps, RootsKept, NewName, NewView
  <1>8. NamesAreUnique' /\ PlainIsNull' /\ Snapshot'
    BY <1>1, <1>2, <1>6 DEF NamesAreUnique, PlainIsNull, Snapshot
  <1>9. GInv'
    BY <1>1, <1>7, <1>8 DEF GInv
  <1>10. UNCHANGED ObjectGraph!vars
    BY <1>1, GraphStays
  <1>11. QED
    BY <1>9, <1>10

\* Names depend on the places and idents of what is to move only.
LEMMA NamesStay ==
  ASSUME NEW m, NEW n, NEW l, NEW end,
         \A i, j \in DOMAIN l : m[l[i]].forward = m[l[j]].forward => i = j,
         \A i \in DOMAIN l : /\ ~(m[l[i]].forward < end) /\ m[l[i]].forward # NULL
                             /\ n[l[i]].forward = m[l[i]].forward
                             /\ n[l[i]].ident = m[l[i]].ident,
         NEW p \in {m[l[i]].forward : i \in DOMAIN l} \cup {NULL}
  PROVE  NameIn(n, l, end, p) = NameIn(m, l, end, p)
  <1>1. CASE p = NULL
    BY <1>1 DEF NameIn
  <1>2. CASE p \in {m[l[i]].forward : i \in DOMAIN l}
    <2>1. PICK i \in DOMAIN l : p = m[l[i]].forward
      BY <1>2
    <2>2. NameIn(m, l, end, m[l[i]].forward) = m[l[i]].ident
      BY NameOfPlace
    <2>3. \A j \in DOMAIN l : n[l[j]].forward = n[l[i]].forward => j = i
      OBVIOUS
    <2>4. ~(n[l[i]].forward < end) /\ n[l[i]].forward # NULL
      OBVIOUS
    <2>5. NameIn(n, l, end, n[l[i]].forward) = n[l[i]].ident
      BY <2>3, <2>4, NameOfPlace
    <2>6. n[l[i]].forward = p /\ n[l[i]].ident = m[l[i]].ident
      BY <2>1
    <2>7. QED
      BY <2>1, <2>2, <2>5, <2>6
  <1>3. QED
    BY <1>1, <1>2

LEMMA PatchOneSimulates ==
  ASSUME FieldsAreSeen, IInv, GInv, PatchOne
  PROVE  GInv' /\ UNCHANGED ObjectGraph!vars
  <1> DEFINE l == liveList
             c == cursor
             a == l[c + 1]
             k == mem[a].kind
             D == 0..Words[k] - 1
             g == mem[a].fields
             f == [w \in D |-> IF w \in ScannedWords(k) THEN Patched(g[w]) ELSE g[w]]
  <1>1. /\ phase = "patch" /\ phase' = "patch" /\ c < Len(l)
        /\ mem' = [mem EXCEPT ![a] = [mem[a] EXCEPT !.fields = f]]
        /\ cursor' = c + 1
        /\ UNCHANGED <<roots, lastEnd, liveList, before>>
    BY DEF PatchOne, threadVars
  <1>2. /\ TypeOK /\ Patching /\ PlacedIn(l, mem, 0, lastEnd) /\ ToSet(l) = Survivors
        /\ NamesAreUnique /\ PlainIsNull /\ PatchingKeeps /\ Snapshot
    BY <1>1 DEF IInv, GInv, Patching, Placed
  <1>3. /\ Len(l) \in Nat /\ DOMAIN l = 1..Len(l) /\ c \in Nat /\ c + 1 \in DOMAIN l
    BY <1>1, <1>2 DEF TypeOK
  <1>4. /\ a \in Starts /\ a \in Addrs /\ mem[a] # NULL
        /\ k \in Kinds /\ mem[a] \in Objects(k)
    BY <1>2, <1>3, PlacedFacts
  <1>5. /\ g \in [D -> Addrs \cup {NULL}]
        /\ ScannedWords(k) = Refs[k] /\ Refs[k] \subseteq D
    BY <1>2, <1>4, ObjectFacts, KindFacts DEF FieldsAreSeen
  <1>6. \A w \in Refs[k] : g[w] \in Survivors \cup {NULL}
    BY <1>2, <1>3 DEF Patching, Refers
  <1>7. \A w \in D \ Refs[k] : g[w] = NULL
    BY <1>2, <1>4, <1>5 DEF PlainIsNull
  <1>8. MovedEnd = 0 /\ MovedTo = {} /\ NewName(NULL) = NULL
    BY <1>2, PlaceNames
  <1>9. \A w \in D : NewName(f[w]) = IdOf(mem, g[w])
    <2> SUFFICES ASSUME NEW w \in D
                 PROVE  NewName(f[w]) = IdOf(mem, g[w])
      OBVIOUS
    <2>1. CASE w \in Refs[k]
      <3>1. f[w] = Patched(g[w])
        BY <1>5, <2>1
      <3>2. NewName(Patched(g[w])) = IdOf(mem, g[w])
        BY <1>2, <1>6, <2>1, PatchedName
      <3>3. QED
        BY <3>1, <3>2
    <2>2. CASE w \notin Refs[k]
      <3>1. f[w] = NULL /\ g[w] = NULL
        BY <1>5, <1>7, <2>2
      <3>2. QED
        BY <1>8, <3>1 DEF IdOf
    <2>3. QED
      BY <2>1, <2>2
  <1>10. \A w \in D : f[w] \in Places \cup {NULL}
    <2> SUFFICES ASSUME NEW w \in D
                 PROVE  f[w] \in Places \cup {NULL}
      OBVIOUS
    <2>1. CASE w \in Refs[k]
      BY <1>2, <1>5, <1>6, <2>1, PatchedFacts
    <2>2. CASE w \notin Refs[k]
      BY <1>5, <1>7, <2>2
    <2>3. QED
      BY <2>1, <2>2
  <1>11. f \in [D -> Addrs \cup {NULL}]
    <2>1. Places \subseteq Addrs
      BY <1>2 DEF Places, PlacedIn
    <2>2. \A w \in D : f[w] \in Addrs \cup {NULL}
      BY <1>10, <2>1
    <2>3. QED
      BY <2>2
  <1>12. \A w \in D \ Refs[k] : f[w] = NULL
    BY <1>5, <1>7
  <1> HIDE DEF l, c, a, k, f, g
  <1>13. /\ mem'[a].fields = f /\ mem'[a].kind = k /\ mem'[a].ident = mem[a].ident
         /\ mem'[a].forward = mem[a].forward /\ mem'[a] # NULL
    <2>1. mem'[a] = [mem[a] EXCEPT !.fields = f]
      BY <1>1, <1>2, <1>4 DEF TypeOK
    <2>2. /\ mem'[a] \in Objects(k) /\ mem'[a].fields = f /\ mem'[a].kind = k
          /\ mem'[a].forward = mem[a].forward /\ mem'[a].ident = mem[a].ident
      BY <1>4, <1>11, <2>1, FieldsSet
    <2>3. QED
      BY <1>4, <2>2, ObjectsAreNotNull
  <1>14. DOMAIN mem' = Addrs /\ \A b \in Addrs \ {a} : mem'[b] = mem[b]
    BY <1>1, <1>2 DEF TypeOK
  <1>15. /\ Starts' = Starts /\ Starts \subseteq Addrs
         /\ \A b \in Starts : /\ mem'[b].kind = mem[b].kind /\ mem'[b].ident = mem[b].ident
                              /\ mem'[b].forward = mem[b].forward
                              /\ b # a => mem'[b].fields = mem[b].fields
    BY <1>4, <1>13, <1>14 DEF Starts, k
  <1>16. \A i \in DOMAIN l : l[i] \in Starts /\ (i # c + 1 => l[i] # a)
    BY <1>2, <1>3, PlacedFacts DEF a, l
  <1>17. MovedEnd' = 0 /\ Alive' = Alive /\ Alive = ToSet(l)
    <2>1. MovedEnd' = 0
      <3>1. CASE l = <<>>
        BY <1>1, <1>8, <3>1 DEF MovedEnd, l
      <3>2. CASE l # <<>>
        <4>1. 1 \in DOMAIN l
          BY <1>3
        <4>2. mem'[l[1]].forward = mem[l[1]].forward
          BY <1>15, <1>16, <4>1
        <4>3. QED
          BY <1>1, <1>8, <3>2, <4>2 DEF MovedEnd, l
      <3>3. QED
        BY <3>1, <3>2
    <2>2. MovedTo' = {}
      BY <1>15, <2>1 DEF MovedTo, Addrs
    <2>3. QED
      BY <1>1, <1>8, <2>1, <2>2 DEF Alive, l
  <1>18. \A p \in Places \cup {NULL} : NameIn(mem', l, 0, p) = NameIn(mem, l, 0, p)
    <2>1. /\ \A i, j \in DOMAIN l : mem[l[i]].forward = mem[l[j]].forward => i = j
          /\ \A i \in DOMAIN l : ~(mem[l[i]].forward < 0) /\ mem[l[i]].forward # NULL
      BY <1>2, PlacesDiffer, PlacedFacts DEF l
    <2>2. \A i \in DOMAIN l : /\ mem'[l[i]].forward = mem[l[i]].forward
                              /\ mem'[l[i]].ident = mem[l[i]].ident
      BY <1>15, <1>16
    <2>3. Places = {mem[l[i]].forward : i \in DOMAIN l}
      BY DEF Places, l
    <2>4. QED
      BY <2>1, <2>2, <2>3, NamesStay
  <1>19. PlainIsNull'
    <2>1. ASSUME NEW b \in Starts, NEW w \in DOMAIN mem'[b].fields \ Refs[mem'[b].kind]
          PROVE  mem'[b].fields[w] = NULL
      <3>1. CASE b = a
        BY <1>11, <1>12, <1>13, <3>1
      <3>2. CASE b # a
        BY <1>2, <1>15, <3>2 DEF PlainIsNull
      <3>3. QED
        BY <3>1, <3>2
    <2>2. QED
      BY <1>15, <2>1 DEF PlainIsNull
  <1>20. NamesAreUnique' /\ Snapshot'
    <2>1. Alive \subseteq Starts
      BY <1>16, <1>17 DEF ToSet
    <2>2. \A b \in Alive : mem'[b].ident = mem[b].ident
      BY <1>15, <2>1
    <2>3. QED
      BY <1>1, <1>2, <1>17, <2>2 DEF NamesAreUnique, Snapshot
  <1>21. RootsKept'
    <2>1. \A s \in Slots : roots[s] \in Places \cup {NULL}
      BY <1>2 DEF Patching, RootsIn
    <2>2. \A s \in Slots : NameIn(mem', l, 0, roots[s]) = NewName(roots[s])
      BY <1>8, <1>18, <2>1 DEF NewName, l
    <2>3. before.root = [s \in Slots |-> NameIn(mem', l, 0, roots[s])]
      BY <1>2, <2>2 DEF RootsKept, PatchingKeeps
    <2>4. QED
      BY <1>1, <1>17, <2>3 DEF RootsKept, NewName, l
  <1>22. PatchingKeeps'
    <2>1. DOMAIN before.object = {mem'[l[i]].ident : i \in DOMAIN l}
      BY <1>2, <1>15, <1>16 DEF PatchingKeeps, l
    <2>2. \A p \in Addrs \cup {NULL} : IdOf(mem', p) = IdOf(mem, p)
      BY <1>4, <1>13, <1>14 DEF IdOf
    <2>3. ASSUME NEW i \in DOMAIN l
          PROVE  before.object[mem'[l[i]].ident] =
                   IF i <= cursor' THEN ViewIn(mem', l, 0, l[i]) ELSE ViewOf(mem', l[i])
      <3>1. /\ l[i] \in Starts
            /\ before.object[mem[l[i]].ident] = IF i <= c THEN ViewIn(mem, l, 0, l[i]) ELSE ViewOf(mem, l[i])
            /\ i \in Nat
        BY <1>2, <1>3, <1>8, <1>16, SameDefinitions DEF PatchingKeeps, NewView, l, c
      <3>2. mem'[l[i]].ident = mem[l[i]].ident
        BY <1>15, <3>1
      <3>3. CASE i <= c
        <4>1. l[i] # a
          BY <1>3, <1>16, <3>1, <3>3
        <4>2. mem'[l[i]].kind = mem[l[i]].kind /\ mem'[l[i]].fields = mem[l[i]].fields
          BY <1>15, <3>1, <4>1
        <4>3. \A w \in DOMAIN mem[l[i]].fields : mem[l[i]].fields[w] \in Places \cup {NULL}
          <5> SUFFICES ASSUME NEW w \in DOMAIN mem[l[i]].fields
                       PROVE  mem[l[i]].fields[w] \in Places \cup {NULL}
            OBVIOUS
          <5>1. CASE w \in Refs[mem[l[i]].kind]
            BY <1>2, <3>3, <5>1 DEF Patching, Refers, l, c
          <5>2. CASE w \notin Refs[mem[l[i]].kind]
            BY <1>2, <3>1, <5>2 DEF PlainIsNull
          <5>3. QED
            BY <5>1, <5>2
        <4>4. ViewIn(mem', l, 0, l[i]) = ViewIn(mem, l, 0, l[i])
          BY <1>18, <4>2, <4>3 DEF ViewIn
        <4>5. i <= cursor'
          BY <1>1, <1>3, <3>1, <3>3
        <4>6. QED
          BY <3>1, <3>2, <3>3, <4>4, <4>5
      <3>4. CASE i = c + 1
        <4>1. l[i] = a
          BY <3>4 DEF a
        <4>2. ViewOf(mem, a) = [kind |-> k, fields |-> [w \in D |-> IdOf(mem, g[w])]]
          BY <1>5 DEF ViewOf, g, k
        <4>3. \A w \in D : NameIn(mem', l, 0, f[w]) = IdOf(mem, g[w])
          BY <1>8, <1>9, <1>10, <1>18 DEF NewName, l
        <4>4. ViewIn(mem', l, 0, a) = [kind |-> k, fields |-> [w \in D |-> IdOf(mem, g[w])]]
          BY <1>11, <1>13, <4>3 DEF ViewIn
        <4>5. i <= cursor' /\ ~(i <= c)
          BY <1>1, <1>3, <3>4
        <4>6. QED
          BY <3>1, <3>2, <4>1, <4>2, <4>4, <4>5
      <3>5. CASE i > c + 1
        <4>1. l[i] # a /\ ~(i <= cursor') /\ ~(i <= c)
          BY <1>1, <1>3, <1>16, <3>1, <3>5
        <4>2. mem'[l[i]].kind = mem[l[i]].kind /\ mem'[l[i]].fields = mem[l[i]].fields
          BY <1>15, <3>1, <4>1
        <4>3. \A w \in DOMAIN mem[l[i]].fields : mem[l[i]].fields[w] \in Addrs \cup {NULL}
          BY <1>2, <3>1, IdentFacts
        <4>4. ViewOf(mem', l[i]) = ViewOf(mem, l[i])
          BY <2>2, <4>2, <4>3 DEF ViewOf
        <4>5. QED
          BY <3>1, <3>2, <4>1, <4>4
      <3>6. QED
        BY <1>3, <3>1, <3>3, <3>4, <3>5
    <2>4. ASSUME NEW i \in DOMAIN liveList'
          PROVE  (before.object[mem[liveList[i]].ident] =
                   IF i <= cursor THEN NewView(liveList[i]) ELSE ObjectAt(liveList[i]))'
      <3>1. i \in DOMAIN l /\ liveList'[i] = l[i] /\ before' = before
        BY <1>1 DEF l
      <3>2. (ObjectAt(liveList[i]))' = ViewOf(mem', liveList'[i])
        BY DEF ObjectAt, IdentAt, ViewOf, IdOf
      <3>3. (NewView(liveList[i]))' = ViewIn(mem', liveList', MovedEnd', liveList'[i])
        BY DEF NewView
      <3>4. liveList' = l
        BY <1>1 DEF l
      <3>5. QED
        BY <1>17, <2>3, <3>1, <3>2, <3>3, <3>4
    <2>5. (DOMAIN before.object = {mem[liveList[i]].ident : i \in DOMAIN liveList})'
      BY <1>1, <2>1 DEF l
    <2>6. QED
      BY <1>21, <2>4, <2>5 DEF PatchingKeeps
  <1>23. GInv'
    BY <1>1, <1>19, <1>20, <1>22 DEF GInv
  <1>24. UNCHANGED ObjectGraph!vars
    BY <1>1, GraphStays
  <1>25. QED
    BY <1>23, <1>24

----------------------------------------------------------------------------
(* Moving *)

\* What references lead to while survivors move, in terms of names.
LEMMA MovingFacts ==
  ASSUME IInv, GInv, phase = "move"
  PROVE  /\ TypeOK /\ Moving /\ PlacedIn(liveList, mem, MovedEnd, lastEnd)
         /\ NamesAreUnique /\ PlainIsNull /\ MovingKeeps /\ Snapshot
         /\ Alive = MovedTo \cup ToSet(liveList) /\ Alive \subseteq Starts
         /\ \A a \in Alive : \A w \in DOMAIN mem[a].fields :
              mem[a].fields[w] \in MovedTo \cup Places \cup {NULL}
  <1>1. /\ TypeOK /\ Moving /\ PlacedIn(liveList, mem, MovedEnd, lastEnd)
        /\ NamesAreUnique /\ PlainIsNull /\ MovingKeeps /\ Snapshot
    BY DEF IInv, GInv, Moving, Placed
  <1>2. Alive = MovedTo \cup ToSet(liveList)
    BY DEF Alive
  <1>3. Alive \subseteq Starts
    BY <1>1, <1>2, PlacedFacts DEF MovedTo, ToSet
  <1>4. \A a \in Alive : Refers(a, MovedTo \cup Places)
    BY <1>1, <1>2 DEF Moving, ToSet
  <1>5. ASSUME NEW a \in Alive, NEW w \in DOMAIN mem[a].fields
        PROVE  mem[a].fields[w] \in MovedTo \cup Places \cup {NULL}
    <2>1. CASE w \in Refs[mem[a].kind]
      BY <1>4, <2>1 DEF Refers
    <2>2. CASE w \notin Refs[mem[a].kind]
      BY <1>1, <1>3, <2>2 DEF PlainIsNull
    <2>3. QED
      BY <2>1, <2>2
  <1>6. QED
    BY <1>1, <1>2, <1>3, <1>5

LEMMA MoveOneSimulates ==
  ASSUME IInv, GInv, MoveOne
  PROVE  GInv' /\ UNCHANGED ObjectGraph!vars
  <1> DEFINE l == liveList
             n == Len(liveList)
             x == l[1]
             k == mem[x].kind
             d == mem[x].forward
             e == d + Size(k)
             o == [mem[x] EXCEPT !.forward = NULL]
             r == Tail(l)
  <1>1. /\ phase = "move" /\ phase' = "move" /\ l # <<>> /\ liveList' = r
        /\ mem' = Written(o, d)
        /\ UNCHANGED <<roots, lastEnd, before>>
    <2>1. l # <<>> /\ l \in Seq(Addrs)
      BY DEF MoveOne, IInv, TypeOK
    <2>2. Head(l) = x
      BY <2>1
    <2>3. QED
      BY <2>1, <2>2 DEF MoveOne
  <1>2. /\ TypeOK /\ Moving /\ PlacedIn(l, mem, MovedEnd, lastEnd)
        /\ NamesAreUnique /\ PlainIsNull /\ MovingKeeps /\ Snapshot
        /\ Alive = MovedTo \cup ToSet(l) /\ Alive \subseteq Starts
        /\ \A a \in Alive : \A w \in DOMAIN mem[a].fields :
             mem[a].fields[w] \in MovedTo \cup Places \cup {NULL}
    BY <1>1, MovingFacts
  <1>3. /\ DOMAIN mem' = Addrs /\ d \in Nat /\ e \in Nat /\ d < e /\ MovedEnd = d
        /\ mem'[d] \in Objects(k) /\ mem'[d].kind = mem[x].kind
        /\ mem'[d].fields = mem[x].fields /\ mem'[d].ident = mem[x].ident
        /\ \A a \in Addrs \ {d} : mem'[a] = mem[a] \/ mem'[a] = NULL
        /\ \A a \in MovedTo : a # d /\ mem'[a] = mem[a]
        /\ \A i \in DOMAIN l : i # 1 => l[i] # d /\ mem'[l[i]] = mem[l[i]]
        /\ Starts' \cap (0..e - 1) = MovedTo \cup {d}
    <2>1. /\ First = x /\ FirstPlace = d /\ FirstEnd = e /\ Unforwarded = o
          /\ k = mem[x].kind /\ l = liveList
      BY DEF First, FirstPlace, FirstEnd, Unforwarded
    <2> HIDE DEF l, n, x, k, d, e, o, r
    <2>2. QED
      BY <1>1, <1>2, <2>1, WrittenSpares
  <1>4. /\ n \in Nat /\ DOMAIN l = 1..n /\ 1 \in DOMAIN l
        /\ Len(r) = n - 1 /\ DOMAIN r = 1..n - 1
        /\ \A i \in 1..n - 1 : r[i] = l[i + 1] /\ i + 1 \in DOMAIN l /\ i + 1 # 1
    <2>1. l \in Seq(Addrs) /\ l # <<>>
      BY <1>1, <1>2 DEF TypeOK
    <2>2. QED
      BY <2>1
  <1>5. /\ k \in Kinds /\ d \in Addrs /\ x \in Starts /\ x \in Nat /\ d <= x
        /\ \A i \in DOMAIN l : /\ l[i] \in Starts /\ l[i] \in Addrs /\ mem[l[i]] # NULL
                               /\ mem[l[i]].forward # NULL
        /\ \A i, j \in DOMAIN l : i # j => l[i] # l[j]
    BY <1>2, <1>4, PlacedFacts
  <1>6. /\ \A i, j \in DOMAIN l : mem[l[i]].forward = mem[l[j]].forward => i = j
        /\ \A i \in DOMAIN l : ~(mem[l[i]].forward < d)
    BY <1>2, <1>3, PlacesDiffer
  <1>7. PlaceAfter(mem, x) = e
    BY DEF PlaceAfter
  <1>8. \A i \in DOMAIN l : i # 1 => ~(mem[l[i]].forward < e)
    <2> SUFFICES ASSUME NEW i \in DOMAIN l, i # 1
                 PROVE  ~(mem[l[i]].forward < e)
      OBVIOUS
    <2>1. 1 < i
      BY <1>4
    <2>2. e <= mem[l[i]].forward
      BY <1>2, <1>4, <1>7, <2>1 DEF PlacedIn
    <2>3. mem[l[i]].forward \in Nat
      BY <1>2, PlacedFacts
    <2>4. QED
      BY <1>3, <2>2, <2>3
  <1>9. ToSet(l) = {x} \cup ToSet(r)
    <2>1. ToSet(l) \subseteq {x} \cup ToSet(r)
      <3> SUFFICES ASSUME NEW i \in 1..n, i # 1
                   PROVE  l[i] \in ToSet(r)
        BY <1>4 DEF ToSet
      <3> HIDE DEF l, r
      <3>1. i - 1 \in 1..n - 1 /\ (i - 1) + 1 = i
        BY <1>4
      <3>2. r[i - 1] = l[i]
        BY <1>4, <3>1
      <3>3. QED
        BY <1>4, <3>1, <3>2 DEF ToSet
    <2>2. {x} \cup ToSet(r) \subseteq ToSet(l)
      BY <1>4 DEF ToSet
    <2>3. QED
      BY <2>1, <2>2
  <1> HIDE DEF l, n, x, k, d, e, o, r
  <1>10. \A a \in MovedTo : a \in Nat /\ a < d /\ a < e
    <2>1. d \in Nat /\ e \in Nat /\ d < e /\ MovedEnd = d
      BY <1>3
    <2>2. \A a \in MovedTo : a \in Nat /\ a < d
      BY <2>1 DEF MovedTo, Starts, Addrs
    <2>3. QED
      BY <2>1, <2>2
  <1>11. MovedEnd' = e
    <2>1. CASE r = <<>>
      <3>1. Len(r) = 0
        BY <2>1
      <3>2. n = 1
        BY <1>4, <3>1
      <3>3. PlaceAfter(mem, l[Len(l)]) = lastEnd
        BY <1>1, <1>2 DEF PlacedIn
      <3>4. Len(l) = 1 /\ l[1] = x
        BY <3>2 DEF n, l, x
      <3>5. QED
        BY <1>1, <1>7, <2>1, <3>3, <3>4 DEF MovedEnd
    <2>2. CASE r # <<>>
      <3>1. n - 1 # 0
        <4>1. r \in Seq(Addrs)
          BY <1>1, <1>2 DEF TypeOK, l, r
        <4>2. QED
          BY <1>4, <2>2, <4>1
      <3>2. 1 \in 1..n - 1
        BY <1>4, <3>1
      <3>3. r[1] = l[2] /\ 2 \in DOMAIN l
        BY <1>4, <3>2
      <3>4. mem'[l[2]] = mem[l[2]]
        BY <1>3, <3>3
      <3>5. mem[l[1 + 1]].forward = PlaceAfter(mem, l[1])
        BY <1>2, <1>4, <3>3 DEF PlacedIn
      <3>6. l[1] = x
        BY DEF x, l
      <3>7. QED
        BY <1>1, <1>7, <2>2, <3>3, <3>4, <3>5, <3>6 DEF MovedEnd
    <2>3. QED
      BY <2>1, <2>2
  <1>12. MovedTo' = MovedTo \cup {d}
    <2>1. Starts' \subseteq Nat
      BY DEF Starts, Addrs
    <2>2. MovedTo' = {a \in Starts' : a < e}
      BY <1>11 DEF MovedTo
    <2>3. e \in Nat /\ Starts' \cap (0..e - 1) = MovedTo \cup {d}
      BY <1>3
    <2>4. \A a \in Starts' : a < e <=> a \in 0..e - 1
      BY <2>1, <2>3
    <2>5. MovedTo' = Starts' \cap (0..e - 1)
      BY <2>2, <2>4
    <2>6. QED
      BY <2>3, <2>5
  <1>13. Alive' = MovedTo \cup {d} \cup ToSet(r) /\ Alive = MovedTo \cup {x} \cup ToSet(r)
    BY <1>1, <1>2, <1>9, <1>12 DEF Alive
  <1> DEFINE origin(b) == IF b = d THEN x ELSE b
  <1>14. \A b \in Alive' : /\ origin(b) \in Alive
                           /\ mem'[b].ident = mem[origin(b)].ident
                           /\ mem'[b].kind = mem[origin(b)].kind
                           /\ mem'[b].fields = mem[origin(b)].fields
    <2>1. \A b \in ToSet(r) : mem'[b] = mem[b]
      BY <1>3, <1>4 DEF ToSet
    <2>2. QED
      BY <1>3, <1>13, <2>1
  <1>15. x \notin MovedTo /\ x \notin ToSet(r) /\ d \notin MovedTo /\ d \notin ToSet(r)
    <2>1. \A b \in ToSet(r) : b # x /\ b # d
      <3> SUFFICES ASSUME NEW i \in 1..n - 1
                   PROVE  r[i] # x /\ r[i] # d
        BY <1>4 DEF ToSet
      <3>1. r[i] = l[i + 1] /\ i + 1 \in DOMAIN l /\ i + 1 # 1 /\ x = l[1]
        BY <1>4 DEF x
      <3>2. l[i + 1] # d
        BY <1>3, <3>1
      <3>3. l[i + 1] # l[1]
        BY <1>4, <1>5, <3>1
      <3>4. QED
        BY <3>1, <3>2, <3>3
    <2>2. QED
      BY <1>3, <1>5, <1>10, <2>1
  <1>16. /\ \A b, c \in Alive' : origin(b) = origin(c) => b = c
         /\ \A a \in Alive : \E b \in Alive' : origin(b) = a
    BY <1>13, <1>15
  <1> HIDE DEF origin
  <1>17. ASSUME NEW p \in MovedTo \cup Places \cup {NULL}
         PROVE  NameIn(mem', r, e, p) = NewName(p)
    <2>1. NewName(p) = NameIn(mem, l, d, p)
      BY <1>3 DEF NewName, l
    <2>2. CASE p = NULL
      BY <2>1, <2>2 DEF NameIn
    <2>3. CASE p \in MovedTo
      <3>1. p # NULL
        BY <2>3, HeapAssumption DEF MovedTo, Starts
      <3>2. QED
        BY <1>3, <1>10, <2>1, <2>3, <3>1 DEF NameIn
    <2>4. CASE p \in Places
      <3>1. PICK i \in DOMAIN l : p = mem[l[i]].forward
        BY <2>4 DEF Places, l
      <3>2. NameIn(mem, l, d, mem[l[i]].forward) = mem[l[i]].ident
        BY <1>5, <1>6, NameOfPlace
      <3>3. CASE i = 1
        <4>1. p = d /\ l[i] = x
          BY <3>1, <3>3 DEF d, x
        <4>2. p # NULL
          BY <1>5, <4>1, HeapAssumption
        <4>3. NameIn(mem', r, e, p) = mem'[p].ident
          BY <1>3, <4>1, <4>2 DEF NameIn
        <4>4. QED
          BY <1>3, <2>1, <3>1, <3>2, <4>1, <4>3
      <3>4. CASE i # 1
        <4> DEFINE j == i - 1
        <4>1. j \in DOMAIN r /\ r[j] = l[i] /\ mem'[l[i]] = mem[l[i]]
          BY <1>3, <1>4, <3>4
        <4>2. ASSUME NEW h \in DOMAIN r, mem'[r[h]].forward = mem'[r[j]].forward
              PROVE  h = j
          <5>1. r[h] = l[h + 1] /\ h + 1 \in DOMAIN l /\ mem'[l[h + 1]] = mem[l[h + 1]]
            BY <1>3, <1>4
          <5>2. h + 1 = i
            BY <1>6, <4>1, <4>2, <5>1
          <5>3. QED
            BY <1>4, <5>2
        <4>3. ~(mem'[r[j]].forward < e) /\ mem'[r[j]].forward # NULL
          BY <1>5, <1>8, <3>4, <4>1
        <4> HIDE DEF j
        <4>4. NameIn(mem', r, e, mem'[r[j]].forward) = mem'[r[j]].ident
          BY <4>1, <4>2, <4>3, NameOfPlace
        <4>5. QED
          BY <2>1, <3>1, <3>2, <4>1, <4>4
      <3>5. QED
        BY <3>3, <3>4
    <2>5. QED
      BY <2>2, <2>3, <2>4
  <1>18. \A b \in Alive' : ViewIn(mem', r, e, b) = NewView(origin(b))
    <2> SUFFICES ASSUME NEW b \in Alive'
                 PROVE  ViewIn(mem', r, e, b) = NewView(origin(b))
      OBVIOUS
    <2> DEFINE a == origin(b)
    <2>1. a \in Alive /\ mem'[b].kind = mem[a].kind /\ mem'[b].fields = mem[a].fields
      BY <1>14
    <2> HIDE DEF a
    <2>2. \A w \in DOMAIN mem[a].fields :
            NameIn(mem', r, e, mem[a].fields[w]) = NameIn(mem, liveList, MovedEnd, mem[a].fields[w])
      BY <1>2, <1>17, <2>1 DEF NewName
    <2>3. ViewIn(mem', r, e, b) = NewView(a)
      BY <2>1, <2>2 DEF ViewIn, NewView
    <2>4. QED
      BY <2>3 DEF a
  <1>19. MovingKeeps'
    <2>1. before.root = [s \in Slots |-> NameIn(mem', r, e, roots[s])]
      <3>1. \A s \in Slots : roots[s] \in MovedTo \cup Places \cup {NULL}
        BY <1>2 DEF Moving, RootsIn
      <3>2. \A s \in Slots : NameIn(mem', r, e, roots[s]) = NewName(roots[s])
        BY <1>17, <3>1
      <3>3. QED
        BY <1>2, <3>2 DEF MovingKeeps, RootsKept
    <2>2. RootsKept'
      BY <1>1, <1>11, <2>1 DEF RootsKept, NewName
    <2>3. DOMAIN before.object = {mem'[b].ident : b \in Alive'}
      <3>1. DOMAIN before.object = {mem[a].ident : a \in Alive}
        BY <1>2 DEF MovingKeeps
      <3>2. \A b \in Alive' : mem'[b].ident \in {mem[a].ident : a \in Alive}
        BY <1>14
      <3>3. \A a \in Alive : mem[a].ident \in {mem'[b].ident : b \in Alive'}
        BY <1>14, <1>16
      <3>4. QED
        BY <3>1, <3>2, <3>3
    <2>4. ASSUME NEW b \in Alive'
          PROVE  before.object[mem'[b].ident] = ViewIn(mem', r, e, b)
      BY <1>2, <1>14, <1>18 DEF MovingKeeps
    <2>5. \A b : (NewView(b))' = ViewIn(mem', r, e, b)
      BY <1>1, <1>11 DEF NewView
    <2>6. QED
      BY <1>1, <2>2, <2>3, <2>4, <2>5 DEF MovingKeeps
  <1>20. NamesAreUnique'
    <2>1. ASSUME NEW b \in Alive', NEW c \in Alive', mem'[b].ident = mem'[c].ident
          PROVE  b = c
      <3>1. origin(b) = origin(c)
        BY <1>2, <1>14, <2>1 DEF NamesAreUnique
      <3>2. QED
        BY <1>16, <3>1
    <2>2. QED
      BY <2>1 DEF NamesAreUnique
  <1>21. PlainIsNull'
    <2>1. ASSUME NEW b \in Starts', NEW w \in DOMAIN mem'[b].fields \ Refs[mem'[b].kind]
          PROVE  mem'[b].fields[w] = NULL
      <3>1. CASE b = d
        BY <1>2, <1>3, <1>5, <3>1 DEF PlainIsNull
      <3>2. CASE b # d
        <4>1. b \in Addrs /\ mem'[b] # NULL
          BY DEF Starts
        <4>2. mem'[b] = mem[b] /\ b \in Starts
          BY <1>3, <3>2, <4>1 DEF Starts
        <4>3. QED
          BY <1>2, <4>2 DEF PlainIsNull
      <3>3. QED
        BY <3>1, <3>2
    <2>2. QED
      BY <2>1 DEF PlainIsNull
  <1>22. Snapshot'
    BY <1>1, <1>2 DEF Snapshot
  <1>23. GInv'
    BY <1>1, <1>19, <1>20, <1>21, <1>22 DEF GInv
  <1>24. UNCHANGED ObjectGraph!vars
    BY <1>1, GraphStays
  <1>25. QED
    BY <1>23, <1>24

\* What has been moved is the graph from when the collection began.
LEMMA MoveEndSimulates ==
  ASSUME IInv, GInv, MoveEnd
  PROVE  GInv' /\ UNCHANGED ObjectGraph!vars
  <1> DEFINE h == before.object
             R == MovedTo
  <1>1. /\ phase = "move" /\ phase' = "idle" /\ liveList = <<>>
        /\ mem' = ClearedFrom(lastEnd) /\ UNCHANGED roots
    BY DEF MoveEnd
  <1>2. /\ TypeOK /\ Moving /\ NamesAreUnique /\ PlainIsNull /\ MovingKeeps /\ Snapshot
        /\ Alive = R
        /\ \A a \in R : \A w \in DOMAIN mem[a].fields : mem[a].fields[w] \in R \cup {NULL}
    <2>1. ToSet(liveList) = {} /\ Places = {}
      BY <1>1 DEF ToSet, Places
    <2>2. QED
      BY <1>1, <2>1, MovingFacts
  <1>3. /\ MovedEnd = lastEnd /\ Places = {}
        /\ \A a \in Addrs : mem'[a] = IF a < lastEnd THEN mem[a] ELSE NULL
    BY <1>1 DEF MovedEnd, Places, ClearedFrom
  <1>4. Starts' = R /\ StartsOf(mem') = R /\ R \subseteq Starts
    BY <1>3 DEF Starts, StartsOf, MovedTo
  <1>5. \A a \in R : mem'[a] = mem[a] /\ a < lastEnd /\ a # NULL /\ mem[a] # NULL
    BY <1>3, HeapAssumption DEF Starts, MovedTo
  <1>6. GInv'
    BY <1>1, <1>2, <1>4, <1>5, IdleInvariant DEF NamesAreUnique, PlainIsNull
  <1>7. \A p \in R \cup {NULL} : NewName(p) = IdOf(mem', p)
    BY <1>3, <1>5 DEF NewName, NameIn, IdOf
  <1>8. \A s \in Slots : roots'[s] \in R \cup {NULL}
    BY <1>1, <1>2, <1>3 DEF Moving, RootsIn
  <1>9. before.root = RootsOf(mem', roots')
    <2>1. \A s \in Slots : NewName(roots[s]) = IdOf(mem', roots'[s])
      BY <1>1, <1>7, <1>8
    <2>2. QED
      BY <1>2, <2>1 DEF MovingKeeps, RootsKept, RootsOf
  <1>10. Whole(mem', R)
    <2>1. ASSUME NEW a \in R
          PROVE  /\ mem'[a].ident \in Idents
                 /\ Refs[mem'[a].kind] \subseteq DOMAIN mem'[a].fields
                 /\ \A w \in Refs[mem'[a].kind] : mem'[a].fields[w] \in R \cup {NULL}
      BY <1>2, <1>4, <1>5, IdentFacts
    <2>2. \A a, b \in R : mem'[a].ident = mem'[b].ident => a = b
      BY <1>2, <1>5 DEF NamesAreUnique
    <2>3. QED
      BY <1>4, <2>1, <2>2 DEF Whole
  <1>11. DOMAIN h = NamesIn(mem', R)
    BY <1>2, <1>5 DEF MovingKeeps, NamesIn
  <1>12. ASSUME NEW a \in R
         PROVE  h[mem'[a].ident] = ViewOf(mem', a)
    <2>1. h[mem'[a].ident] = NewView(a)
      BY <1>2, <1>5 DEF MovingKeeps
    <2>2. \A w \in DOMAIN mem[a].fields :
            NameIn(mem, liveList, MovedEnd, mem[a].fields[w]) = IdOf(mem', mem[a].fields[w])
      BY <1>2, <1>7 DEF NewName
    <2>3. mem'[a].kind = mem[a].kind /\ mem'[a].fields = mem[a].fields
      BY <1>5
    <2>4. NewView(a) = ViewOf(mem', a)
      BY <2>2, <2>3 DEF NewView, ViewIn, ViewOf
    <2>5. QED
      BY <2>1, <2>4
  <1> HIDE DEF h, R
  <1>13. GraphOf(mem', roots') = [i \in ObjectGraph!Reached(RootsOf(mem', roots'), h) |-> h[i]]
    BY <1>8, <1>10, <1>11, <1>12, RestrictedGraph
  <1>14. h = [i \in DOMAIN h |-> h[i]] /\ ObjectGraph!Reached(before.root, h) = DOMAIN h
    BY <1>2 DEF Snapshot, h
  <1>15. GraphOf(mem', roots') = h
    BY <1>9, <1>13, <1>14
  <1>16. before.root = RootGraph' /\ before.object = HeapGraph'
    BY <1>9, <1>15, SameGraphsNext DEF h
  <1>17. UNCHANGED ObjectGraph!vars
    BY <1>1, <1>16, GraphStays
  <1>18. QED
    BY <1>6, <1>17

----------------------------------------------------------------------------
(* The theorems *)

LEMMA NextSimulates ==
  ASSUME FieldsAreSeen, IInv, GInv, Next
  PROVE  GInv' /\ (ObjectGraph!Next \/ UNCHANGED ObjectGraph!vars)
  <1>1. CASE Mutate
    BY <1>1, MutateSimulates
  <1>2. CASE Allocate
    BY <1>2, AllocateSimulates
  <1>3. CASE Collect
    <2>1. CASE \E t \in Threads : StartCollection(t)
      BY <2>1, StartSimulates
    <2>2. CASE MarkOne
      BY <2>2, MarkOneSimulates
    <2>3. CASE MarkEnd
      BY <2>3, MarkEndSimulates
    <2>4. CASE ForwardOne
      BY <2>4, ForwardOneSimulates
    <2>5. CASE ForwardEnd
      BY <2>5, ForwardEndSimulates
    <2>6. CASE PatchRoots
      BY <2>6, PatchRootsSimulates
    <2>7. CASE PatchOne
      BY <2>7, PatchOneSimulates
    <2>8. CASE PatchEnd
      BY <2>8, PatchEndSimulates
    <2>9. CASE MoveOne
      BY <2>9, MoveOneSimulates
    <2>10. CASE MoveEnd
      BY <2>10, MoveEndSimulates
    <2>11. QED
      BY <1>3, <2>1, <2>2, <2>3, <2>4, <2>5, <2>6, <2>7, <2>8, <2>9, <2>10 DEF Collect
  <1>4. QED
    BY <1>1, <1>2, <1>3 DEF Next

LEMMA StutterSimulates ==
  ASSUME GInv, UNCHANGED vars
  PROVE  GInv' /\ UNCHANGED ObjectGraph!vars
  <1>1. UNCHANGED <<roots, mem, lastEnd, phase, liveList, cursor, before>>
    BY DEF vars, gcVars
  <1>2. /\ Starts' = Starts /\ Survivors' = Survivors /\ MovedEnd' = MovedEnd
        /\ RootGraph' = RootGraph /\ HeapGraph' = HeapGraph /\ Reachable' = Reachable
    <2>1. Starts' = Starts /\ Survivors' = Survivors /\ MovedEnd' = MovedEnd
      BY <1>1 DEF Starts, Survivors, MovedEnd
    <2>2. QED
      BY <1>1, <2>1, SameDefinitions, SameGraphs, SameGraphsNext
  <1>3. Alive' = Alive
    BY <1>1, <1>2 DEF Alive, MovedTo
  <1>4. \A S : (Closed(S))' <=> Closed(S)
    BY <1>1, <1>2 DEF Closed, RootSet, Pointees
  <1>5. OnlyReachable => OnlyReachable'
    BY <1>2, <1>4 DEF OnlyReachable
  <1>6. /\ \A a : (ObjectAt(a))' = ObjectAt(a)
        /\ \A a : (NewView(a))' = NewView(a)
        /\ \A p : (NewName(p))' = NewName(p)
    BY <1>1, <1>2 DEF ObjectAt, IdentAt, NewView, NewName
  <1>7. RootsKept => RootsKept'
    BY <1>1, <1>2 DEF RootsKept, NewName
  <1>8. PatchingKeeps => PatchingKeeps'
    BY <1>1, <1>2, <1>7 DEF PatchingKeeps, ObjectAt, IdentAt, NewView
  <1>9. MovingKeeps => MovingKeeps'
    BY <1>1, <1>3, <1>6, <1>7 DEF MovingKeeps
  <1>10. /\ NamesAreUnique => NamesAreUnique'
         /\ PlainIsNull => PlainIsNull'
         /\ MarkingKeeps => MarkingKeeps'
         /\ Snapshot => Snapshot'
    BY <1>1, <1>2, <1>3 DEF NamesAreUnique, PlainIsNull, MarkingKeeps, Snapshot
  <1>11. GInv'
    BY <1>1, <1>2, <1>5, <1>8, <1>9, <1>10 DEF GInv
  <1>12. UNCHANGED ObjectGraph!vars
    <2>1. (Idle)' = Idle
      BY <1>1 DEF Idle
    <2>2. QED
      BY <1>1, <1>2, <2>1 DEF ObjectGraph!vars
  <1>13. QED
    BY <1>11, <1>12

LEMMA InitGraph == Init => GInv /\ ObjectGraph!Init
  <1> SUFFICES ASSUME Init
               PROVE  GInv /\ ObjectGraph!Init
    OBVIOUS
  <1>1. Starts = {} /\ phase = "idle"
    BY DEF Init, Starts
  <1>2. GInv
    BY <1>1 DEF GInv, Alive, NamesAreUnique, PlainIsNull
  <1>3. RootGraph = [s \in Slots |-> NULL]
    BY DEF Init, RootGraph, IdentAt
  <1>4. HeapGraph = [i \in {} |-> NULL]
    <2>1. Reachable = {}
      BY <1>1 DEF Reachable
    <2>2. DOMAIN HeapGraph = {}
      BY <2>1 DEF HeapGraph
    <2>3. HeapGraph = [i \in DOMAIN HeapGraph |-> HeapGraph[i]]
      BY DEF HeapGraph
    <2>4. QED
      BY <2>2, <2>3
  <1>5. ObjectGraph!Init
    BY <1>1, <1>3, <1>4 DEF ObjectGraph!Init, Idle
  <1>6. QED
    BY <1>2, <1>5

\* The invariant that relates what a collection has made of the heap to the graph from when
\* it began: phase by phase, each reference is of the object of the same name.
THEOREM GraphInductive ==
  ASSUME FieldsAreSeen
  PROVE  Spec => [](IInv /\ GInv)
  <1>1. Init => IInv /\ GInv
    BY InitIInv, InitGraph
  <1>2. IInv /\ GInv /\ [Next]_vars => IInv' /\ GInv'
    BY NextKeeps, NextSimulates, StutterSimulates
  <1>3. QED
    BY <1>1, <1>2, PTL DEF Spec

\* When gc_scan has worked off its list, the marked objects are those the roots lead to:
\* no collection loses an object in use, or keeps one that is not.
THEOREM MarkedAreReachable ==
  ASSUME FieldsAreSeen
  PROVE  Spec => []MarksReachable
  <1>1. IInv /\ GInv => MarksReachable
    <2> SUFFICES ASSUME IInv, GInv, phase = "mark", workList = <<>>
                 PROVE  {a \in Starts : mem[a].forward = Marked} = Reachable
      BY DEF MarksReachable
    <2>1. Survivors = Reachable
      BY AllIsMarked
    <2>2. \A a \in Starts : mem[a].forward \in {NULL, Marked}
      BY DEF IInv, Marking
    <2>3. QED
      BY <2>1, <2>2, HeapAssumption DEF Survivors
  <1>2. QED
    BY <1>1, GraphInductive, PTL

\* The heap implements the graph of objects bytecode sees: collections do not show, and what
\* bytecode does with a reference is what it means in the graph.
THEOREM CollectionsDoNotShow ==
  ASSUME FieldsAreSeen
  PROVE  Spec => ImplementsGraph
  <1>1. Init => ObjectGraph!Init
    BY InitGraph
  <1>2. IInv /\ GInv /\ [Next]_vars => [ObjectGraph!Next]_(ObjectGraph!vars)
    BY NextSimulates, StutterSimulates
  <1>3. QED
    BY <1>1, <1>2, GraphInductive, PTL DEF Spec, ObjectGraph!Spec, ImplementsGraph
=============================================================================
