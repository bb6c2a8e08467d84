-------------------------------- MODULE Heap --------------------------------
(***************************************************************************)
(* The heap of the JEspressoVM (heap.c): allocation at the end of the      *)
(* arena, and the collection that marks what the roots lead to, computes   *)
(* where each survivor will be, patches all references and moves the       *)
(* survivors down.                                                         *)
(*                                                                         *)
(* Memory is counted in words and holds objects; the header of an object   *)
(* is HeaderWords long.  A collection runs with the other threads stopped  *)
(* (module Safepoint), one object a step.                                  *)
(*                                                                         *)
(* A slot is any root gc_scan knows: a word of a frame with its shadow bit *)
(* set, a static reference field, the class object or a resolved string of *)
(* a class, the owner_object of a held monitor.  References elsewhere, in  *)
(* C variables or in the string pool, are not in this module; nor are      *)
(* monitors, the registration of threads, and the sizes that do not fit    *)
(* an int.                                                                 *)
(***************************************************************************)
EXTENDS Integers, SequencesExt, FiniteSets

CONSTANTS
  Threads,      \* Java threads
  Slots,        \* roots
  Kinds,        \* classes objects are made of
  Arrays,       \* those that are arrays of references
  Words,        \* per kind, the words of the fields or elements
  Refs,         \* per kind, which of them are references
  HeaderWords,  \* sizeof(Object_t), in words
  Capacity,     \* words of the arena
  Idents,       \* values of Object_t.ident; rand() is taken not to repeat
  NULL, Marked  \* the null pointer, GC_MARK_SENTINEL

Addrs == 0..Capacity - 1

ASSUME HeapAssumption ==
  /\ Capacity \in Nat
  /\ HeaderWords \in Nat \ {0}
  /\ Arrays \subseteq Kinds
  /\ Words \in [Kinds -> Nat]
  /\ \A k \in Kinds : Refs[k] \subseteq 0..Words[k] - 1
  /\ NULL \notin Addrs \cup Idents
  /\ Marked \notin Addrs \cup {NULL}

VARIABLES
  pc,        \* where a thread is in heap_class_object_alloc
  wanted,    \* the kind it allocates there
  roots,     \* the references outside the heap
  mem,       \* per address, the object that begins there
  lastEnd,   \* s_arena->last_end
  phase,     \* how far heap_gc_start is
  workList,  \* root_list of gc_scan
  scanner,   \* the cursor of gc_calculate_forwards
  calcEnd,   \* calculation_arena.last_end
  liveList,  \* live_list
  cursor,    \* objects of live_list that are patched
  before     \* history: the object graph when the collection began

threadVars == <<pc, wanted>>
gcVars == <<phase, workList, scanner, calcEnd, liveList, cursor, before>>
vars == <<threadVars, roots, mem, lastEnd, gcVars>>

Objects(k) ==
  [ident : Idents, kind : {k}, fields : [0..Words[k] - 1 -> Addrs \cup {NULL}],
   forward : Addrs \cup {NULL, Marked}]

ASSUME NullAssumption == \A k \in Kinds : NULL \notin Objects(k)

Phases == {"idle", "mark", "forward", "patchRoots", "patch", "move"}

Starts == {a \in Addrs : mem[a] # NULL}

LengthWords(k) == IF k \in Arrays THEN 1 ELSE 0
Size(k) == HeaderWords + LengthWords(k) + Words[k]
EndOf(a) == a + Size(mem[a].kind)

\* Mutants: the test for space forgets the header; only the first element of an array
\* is marked; an object is not taken off root_list; a survivor is sent to the end of
\* its place, or left where it is; references to a moved object are left alone.
RoomWithoutHeader(k) == Words[k]
ScannedFirst(k) == Refs[k] \cap {0}
WorkRestKept(list) == list
PlaceAfterBump == calcEnd + Size(mem[scanner].kind)
PlaceUnmoved == scanner
PatchedNever(p) == p

\* The words of an object the collector takes for its reference fields.  It uses
\* the offset of a field, which is in bytes, as the index of a word: it meets the
\* first field, and looks for the others too far away.  Beyond the end of the object
\* it is taken to find no reference, the kinder outcome.
WordBytes == 4
ScannedWords(k) ==
  IF k \in Arrays THEN Refs[k] ELSE {WordBytes * w : w \in Refs[k]} \cap Refs[k]

Children(a) == {mem[a].fields[w] : w \in ScannedWords(mem[a].kind)} \ {NULL}
RootSet == {roots[s] : s \in Slots} \ {NULL}

----------------------------------------------------------------------------
(* The object graph, for the properties *)

Pointees(a) == {mem[a].fields[w] : w \in Refs[mem[a].kind]} \ {NULL}

\* A set of objects no reference leads out of, with those the roots refer to.
Closed(S) ==
  /\ RootSet \cap Starts \subseteq S
  /\ \A a \in S : Pointees(a) \cap Starts \subseteq S

\* The objects the roots lead to: those in every closed set.
Reachable ==
  LET closed == {S \in SUBSET Starts : Closed(S)}
  IN  {a \in Starts : \A S \in closed : a \in S}

IdentAt(p) == IF p = NULL THEN NULL ELSE IF mem[p] = NULL THEN Marked ELSE mem[p].ident

RootGraph == [s \in Slots |-> IdentAt(roots[s])]

ObjectAt(a) ==
  [kind |-> mem[a].kind, fields |-> [w \in DOMAIN mem[a].fields |-> IdentAt(mem[a].fields[w])]]

HeapGraph ==
  LET live == Reachable
  IN  [i \in {mem[a].ident : a \in live} |-> ObjectAt(CHOOSE a \in live : mem[a].ident = i)]

----------------------------------------------------------------------------

\* Type correctness: every address holds nothing or a whole object, last_end stays
\* within the arena, forward is 0, the sentinel or an address.
TypeOK ==
  /\ pc \in [Threads -> {"run", "full", "collect", "retry", "dead"}]
  /\ wanted \in [Threads -> Kinds \cup {NULL}]
  /\ roots \in [Slots -> Addrs \cup {NULL}]
  /\ DOMAIN mem = Addrs /\ \A a \in Addrs : mem[a] = NULL \/ \E k \in Kinds : mem[a] \in Objects(k)
  /\ lastEnd \in 0..Capacity
  /\ phase \in Phases
  /\ workList \in Seq(Addrs)
  /\ scanner \in 0..Capacity
  /\ calcEnd \in 0..Capacity
  /\ liveList \in Seq(Addrs)
  /\ cursor \in 0..Len(liveList)

Init ==
  /\ pc = [t \in Threads |-> "run"]
  /\ wanted = [t \in Threads |-> NULL]
  /\ roots = [s \in Slots |-> NULL]
  /\ mem = [a \in Addrs |-> NULL]
  /\ lastEnd = 0
  /\ phase = "idle"
  /\ workList = <<>>
  /\ scanner = 0
  /\ calcEnd = 0
  /\ liveList = <<>>
  /\ cursor = 0
  /\ before = NULL

\* Bytecode runs outside collections only.
Running == phase = "idle" /\ \E t \in Threads : pc[t] = "run"

----------------------------------------------------------------------------
(* What bytecode does with references *)

\* *LOAD, *STORE, DUP, POP and the like.
Assign(s, value) ==
  /\ Running
  /\ roots' = [roots EXCEPT ![s] = value]
  /\ UNCHANGED <<threadVars, mem, lastEnd, gcVars>>

\* GETFIELD and AALOAD; NULL is an exception.
GetField(s, from, w) ==
  /\ Running
  /\ roots[from] # NULL
  /\ w \in Refs[mem[roots[from]].kind]
  /\ Assign(s, mem[roots[from]].fields[w])

\* PUTFIELD and AASTORE
PutField(s, w, from) ==
  /\ Running
  /\ roots[s] # NULL
  /\ w \in Refs[mem[roots[s]].kind]
  /\ mem' = [mem EXCEPT ![roots[s]].fields[w] = roots[from]]
  /\ UNCHANGED <<threadVars, roots, lastEnd, gcVars>>

----------------------------------------------------------------------------
(* heap_class_object_alloc and heap_array_object_alloc *)

RoomFor(k) == Size(k)
HasRoom(k) == RoomFor(k) <= Capacity - lastEnd

FreshIdents == Idents \ {mem[a].ident : a \in Starts}

Blank(k) ==
  [ident |-> CHOOSE i \in FreshIdents : TRUE,
   kind |-> k, fields |-> [w \in 0..Words[k] - 1 |-> NULL], forward |-> NULL]

\* bumper_calloc, and the push of the new reference.
Place(k, s) ==
  /\ FreshIdents # {}
  /\ mem' = [mem EXCEPT ![lastEnd] = Blank(k)]
  /\ lastEnd' = lastEnd + Size(k)
  /\ roots' = [roots EXCEPT ![s] = lastEnd]

Alloc(t, k, s) ==
  /\ pc[t] = "run"
  /\ phase = "idle"
  /\ HasRoom(k)
  /\ Place(k, s)
  /\ UNCHANGED <<threadVars, gcVars>>

\* The lock is given up for the collection.
AllocFull(t, k) ==
  /\ pc[t] = "run"
  /\ phase = "idle"
  /\ ~HasRoom(k)
  /\ pc' = [pc EXCEPT ![t] = "full"]
  /\ wanted' = [wanted EXCEPT ![t] = k]
  /\ UNCHANGED <<roots, mem, lastEnd, gcVars>>

\* After the collection others may have taken the space: JERR_OOM ends the thread.
AllocRetry(t, s) ==
  /\ pc[t] = "retry"
  /\ phase = "idle"
  /\ IF Size(wanted[t]) <= Capacity - lastEnd
     THEN Place(wanted[t], s) /\ pc' = [pc EXCEPT ![t] = "run"]
     ELSE UNCHANGED <<mem, lastEnd, roots>> /\ pc' = [pc EXCEPT ![t] = "dead"]
  /\ wanted' = [wanted EXCEPT ![t] = NULL]
  /\ UNCHANGED gcVars

----------------------------------------------------------------------------
(* heap_gc_start *)

\* The marks of the objects in S are set.
Mark(S) == [a \in Addrs |-> IF a \in S THEN [mem[a] EXCEPT !.forward = Marked] ELSE mem[a]]

\* thread_safepoint_request returned, no thread is about to allocate; the roots are
\* marked and listed.
StartCollection(t) ==
  /\ pc[t] = "full"
  /\ phase = "idle"
  /\ \A u \in Threads : pc[u] # "retry"
  /\ before' = [root |-> RootGraph, object |-> HeapGraph]
  /\ mem' = Mark(RootSet)
  /\ workList' = SetToSeq(RootSet)
  /\ phase' = "mark"
  /\ pc' = [pc EXCEPT ![t] = "collect"]
  /\ UNCHANGED <<wanted, roots, lastEnd, scanner, calcEnd, liveList, cursor>>

WorkRest(list) == Tail(list)

MarkOne ==
  LET new == {p \in Children(Head(workList)) : mem[p].forward # Marked}
  IN  /\ phase = "mark"
      /\ workList # <<>>
      /\ mem' = Mark(new)
      /\ workList' = WorkRest(workList) \o SetToSeq(new)
      /\ UNCHANGED <<threadVars, roots, lastEnd, phase, scanner, calcEnd, liveList, cursor,
                     before>>

MarkEnd ==
  /\ phase = "mark"
  /\ workList = <<>>
  /\ phase' = "forward"
  /\ UNCHANGED <<threadVars, roots, mem, lastEnd, workList, scanner, calcEnd, liveList, cursor,
                 before>>

\* The place a survivor gets, and where the next one's begins.
NewPlace == calcEnd

\* gc_calculate_forwards looks at every object of the arena, in order.
ForwardOne ==
  LET obj == mem[scanner]
  IN  /\ phase = "forward"
      /\ scanner < lastEnd
      /\ IF obj.forward = Marked
         THEN /\ mem' = [mem EXCEPT ![scanner].forward = NewPlace]
              /\ calcEnd' = calcEnd + Size(obj.kind)
              /\ liveList' = Append(liveList, scanner)
         ELSE UNCHANGED <<mem, calcEnd, liveList>>
      /\ scanner' = scanner + Size(obj.kind)
      /\ UNCHANGED <<threadVars, roots, lastEnd, phase, workList, cursor, before>>

ForwardEnd ==
  /\ phase = "forward"
  /\ scanner = lastEnd
  /\ lastEnd' = calcEnd
  /\ phase' = "patchRoots"
  /\ UNCHANGED <<threadVars, roots, mem, workList, scanner, calcEnd, liveList, cursor, before>>

Patched(p) == IF p = NULL \/ mem[p].forward = Marked THEN p ELSE mem[p].forward

PatchRoots ==
  /\ phase = "patchRoots"
  /\ roots' = [s \in Slots |-> Patched(roots[s])]
  /\ phase' = "patch"
  /\ UNCHANGED <<threadVars, mem, lastEnd, workList, scanner, calcEnd, liveList, cursor, before>>

PatchOne ==
  LET a == liveList[cursor + 1]
      k == mem[a].kind
  IN  /\ phase = "patch"
      /\ cursor < Len(liveList)
      /\ mem' = [mem EXCEPT ![a].fields =
                   [w \in 0..Words[k] - 1 |->
                      IF w \in ScannedWords(k) THEN Patched(@[w]) ELSE @[w]]]
      /\ cursor' = cursor + 1
      /\ UNCHANGED <<threadVars, roots, lastEnd, phase, workList, scanner, calcEnd, liveList,
                     before>>

PatchEnd ==
  /\ phase = "patch"
  /\ cursor = Len(liveList)
  /\ phase' = "move"
  /\ UNCHANGED <<threadVars, roots, mem, lastEnd, workList, scanner, calcEnd, liveList, cursor,
                 before>>

\* Memory after obj was written at `to`: what overlaps with it is gone.
Written(obj, to) ==
  [a \in Addrs |->
     IF a = to THEN obj
     ELSE IF mem[a] # NULL /\ a < to + Size(obj.kind) /\ to < EndOf(a) THEN NULL
     ELSE mem[a]]

MoveOne ==
  LET obj == mem[Head(liveList)]
  IN  /\ phase = "move"
      /\ liveList # <<>>
      /\ liveList' = Tail(liveList)
      /\ mem' = Written([obj EXCEPT !.forward = NULL], obj.forward)
      /\ cursor' = 0
      /\ UNCHANGED <<threadVars, roots, lastEnd, phase, workList, scanner, calcEnd, before>>

\* The free space is zeroed, the other threads are released.
ClearedFrom(end) == [a \in Addrs |-> IF a < end THEN mem[a] ELSE NULL]

MoveEnd ==
  /\ phase = "move"
  /\ liveList = <<>>
  /\ mem' = ClearedFrom(lastEnd)
  /\ phase' = "idle"
  /\ scanner' = 0
  /\ calcEnd' = 0
  /\ cursor' = 0
  /\ before' = NULL
  /\ pc' = [t \in Threads |-> IF pc[t] = "collect" THEN "retry" ELSE pc[t]]
  /\ UNCHANGED <<wanted, roots, lastEnd, workList, liveList>>

----------------------------------------------------------------------------

Mutate ==
  \E s, from \in Slots :
    \/ Assign(s, NULL)
    \/ Assign(s, roots[from])
    \/ \E k \in Kinds : \E w \in Refs[k] : GetField(s, from, w) \/ PutField(s, w, from)

Allocate ==
  \E t \in Threads :
    \/ \E k \in Kinds : AllocFull(t, k) \/ \E s \in Slots : Alloc(t, k, s)
    \/ \E s \in Slots : AllocRetry(t, s)

Collect ==
  \/ \E t \in Threads : StartCollection(t)
  \/ MarkOne \/ MarkEnd
  \/ ForwardOne \/ ForwardEnd
  \/ PatchRoots \/ PatchOne \/ PatchEnd
  \/ MoveOne \/ MoveEnd

Next == Mutate \/ Allocate \/ Collect

Spec == Init /\ [][Next]_vars

\* The collector is one thread that runs alone.
FairSpec == Spec /\ WF_vars(Collect /\ phase # "idle")

----------------------------------------------------------------------------
(* Properties *)

\* Outside the moving of objects the arena is one object after the other up to
\* last_end ("Can we trust that every data on heap arena is object?" asks
\* gc_calculate_forwards, which walks over them by their sizes).
ArenaIsObjects ==
  phase \in {"idle", "mark", "forward"} =>
    /\ lastEnd > 0 => mem[0] # NULL
    /\ \A a \in Starts : /\ EndOf(a) <= lastEnd
                         /\ EndOf(a) < lastEnd => mem[EndOf(a)] # NULL
                         /\ \A b \in Starts : a < b => EndOf(a) <= b

\* Marking finds what the roots lead to, through shared and circular structures, and
\* nothing else: no garbage survives a collection.
MarksReachable ==
  phase = "mark" /\ workList = <<>> =>
    {a \in Starts : mem[a].forward = Marked} = Reachable

\* Moving an object overwrites no survivor that still has to move, although source
\* and destination may overlap and nothing but the order of live_list protects it.
MoveSparesSurvivors ==
  phase \in {"patchRoots", "patch", "move"} =>
    \A i, j \in DOMAIN liveList :
      i < j => /\ mem[liveList[j]] # NULL
               /\ mem[liveList[i]].forward + Size(mem[liveList[i]].kind) <= liveList[j]

\* Outside collections every reference bytecode can get at refers to an object.
NoDangling ==
  phase = "idle" =>
    /\ RootSet \subseteq Starts
    /\ \A a \in Reachable : Pointees(a) \subseteq Starts

\* A collection, once begun, ends.
CollectionEnds == (phase # "idle") ~> (phase = "idle")

\* The graph of objects bytecode sees, without addresses.
\* During a collection it is the graph from when the collection began.
Idle == phase = "idle"

ObjectGraph == INSTANCE ObjectGraph WITH
  root <- IF Idle THEN RootGraph ELSE before.root,
  object <- IF Idle THEN HeapGraph ELSE before.object

\* No collection changes the graph bytecode sees: each reference leads to the same
\* object, with the same fields, wherever gc_move has put it; new objects are blank.
ImplementsGraph == ObjectGraph!Spec

============================================================================
