------------------------------- MODULE Linking -------------------------------
(***************************************************************************)
(* Loading and linking of classes (class.c, classtable.c): a session of    *)
(* class_link discovers the superclasses and interfaces of a class that    *)
(* are not loaded, publishes the interfaces, and flattens and fixes up the *)
(* superclasses from the root down.  One session runs at a time: the       *)
(* class lock is held throughout.                                          *)
(*                                                                         *)
(* A Class_t is named by the class it was converted from and a number: a   *)
(* class can be converted more than once.  Interfaces are chained through  *)
(* their list[0], whose heads are in the stack frame of class_link: after  *)
(* a session the interfaces still point there, and the next session finds  *)
(* its own heads, at the same depth of the stack, or other memory.         *)
(*                                                                         *)
(* Vectors count from 1 where the code counts from 0; a field that bytes   *)
(* set to zero leave at index 0 is 1 here.                                 *)
(***************************************************************************)
EXTENDS Integers, FiniteSets, SequencesExt

CONSTANTS
  Worlds,   \* sets of class files, functions from names to class files
  Main,     \* the class app_main loads
  MainDepth,\* where on the stack of the main thread it does
  Depths    \* where class_link may be called on the stacks of the other threads

VARIABLES
  files,    \* the class files of the program
  class,    \* the Class_t's converted and not forgotten
  table,    \* the class table
  links,    \* list[0] of the classes and the list heads of the session
  jlClass,  \* the Class_t class_fixup keeps for java/lang/Class
  session   \* the session of class_link

vars == <<files, class, table, links, jlClass, session>>

Object == "java/lang/Object"
JlClass == "java/lang/Class"
ArrayName == "[I"
NoName == "none"
NoClass == <<NoName, 0>>

\* What a compiler sees to: superclasses and interfaces are there, java/lang/Object alone has no
\* superclass, and no interfaces; java/lang/Class is a class; none is its own supertype; what is implemented or extended
\* as an interface is one, and has Object above it; the methods of a class differ in their
\* names and descriptors, which are one name here, and a field has a size.
ASSUME LinkingAssumption ==
  \A w \in Worlds :
    /\ {NoName, ArrayName} \cap DOMAIN w = {}
    /\ {Object, JlClass} \subseteq DOMAIN w
    /\ w[Object].super = NoName /\ w[Object].ifaces = <<>>
    /\ w[JlClass].super = Object /\ w[JlClass].kind # "interface"
    /\ \A n \in DOMAIN w :
         /\ w[n].super \in DOMAIN w \cup {NoName} /\ (w[n].super = NoName => n = Object)
         /\ w[n].ifaces \in Seq(DOMAIN w)
         /\ \A i \in DOMAIN w[n].ifaces : w[w[n].ifaces[i]].kind = "interface"
         /\ Len(w[n].methods) \in Nat /\ DOMAIN w[n].methods = 1..Len(w[n].methods)
         /\ \A i, j \in DOMAIN w[n].methods : w[n].methods[i].name = w[n].methods[j].name => i = j
         /\ w[n].fields \in Seq([size : Nat, static : BOOLEAN])
         /\ w[n].kind = "interface" => w[n].super = Object
    /\ \A S \in SUBSET DOMAIN w : S # {} =>
         \E n \in S : w[n].super \notin S /\ \A i \in DOMAIN w[n].ifaces : w[n].ifaces[i] \notin S

Names == DOMAIN files \cup {ArrayName}
NameOf(c) == c[1]

\* An array class has no members of its own and no class file.
FileOf(c) ==
  IF NameOf(c) = ArrayName
  THEN [super |-> Object, ifaces |-> <<>>, kind |-> "class", methods |-> <<>>, fields |-> <<>>]
  ELSE files[NameOf(c)]

IsInterface(c) == FileOf(c).kind = "interface"

\* Where a session is.  Idle: there is none.  Abort: an assertion failed.  Crash: the
\* NULL interface of an implementation was read.  Lost: a list ran into memory that is
\* no class, or into itself.  Smashed: a word of the stack was overwritten.  Exited: the
\* main class was not loaded, which app_main asserts.
Astray == {"abort", "crash", "lost", "smashed"}
Steps == {"idle", "discover", "ancestry", "patch", "link", "roots", "flatten", "extended", "fill",
          "fixup", "itable", "exited"} \cup Astray

----------------------------------------------------------------------------
(* The lists through list[0] *)

HeadOf(list, d) == <<"head", list, d>>
Heads(d) == {HeadOf(list, d) : list \in {"iface_list", "iface_discovery", "iface_required"}}
IfaceList == HeadOf("iface_list", session.depth)
IfaceDiscovery == HeadOf("iface_discovery", session.depth)
IfaceRequired == HeadOf("iface_required", session.depth)

\* A write to memory no list of this session lives in changes no list.
Put(f, n, value) == IF n \in DOMAIN f THEN [f EXCEPT ![n] = value] ELSE f

ListInit(l, n) == [next |-> Put(l.next, n, n), prev |-> Put(l.prev, n, n)]

ListDelInit(l, n) ==
  ListInit([next |-> Put(l.next, l.prev[n], l.next[n]),
            prev |-> Put(l.prev, l.next[n], l.prev[n])], n)

Insert(l, n, p, q) ==
  [next |-> Put(Put(l.next, n, q), p, n), prev |-> Put(Put(l.prev, q, n), n, p)]

ListAdd(l, n, h) == Insert(l, n, h, l.next[h])
ListAddTail(l, n, h) == Insert(l, n, l.prev[h], h)

\* Unlinking n writes into a stack frame that is gone.
Smashes(l, n) == {l.next[n], l.prev[n]} \cap DOMAIN l.next # {l.next[n], l.prev[n]}

\* Where a walk over the list of h looking for the classes in goal stops: in goal, or back
\* at h, or lost in memory that is no class, or never.
WalkEnd(l, h, goal) ==
  LET at[k \in 0..Cardinality(DOMAIN l.next)] ==
        IF k = 0 THEN l.next[h]
        ELSE IF at[k - 1] \in DOMAIN class \ goal THEN l.next[at[k - 1]] ELSE at[k - 1]
  IN  at[Cardinality(DOMAIN l.next)]

----------------------------------------------------------------------------
(* Classes *)

Least(S) == CHOOSE k \in S : \A j \in S : k <= j

SumTo(sizes, n) ==
  LET sum[k \in 0..n] == IF k = 0 THEN 0 ELSE sum[k - 1] + sizes[k]
  IN  sum[n]

\* The bytes of the first n fields that are static, or not.
BytesOf(fields, static, n) ==
  SumTo([i \in DOMAIN fields |-> IF fields[i].static = static THEN fields[i].size ELSE 0], n)

\* class_convert_from_raw
Converted(name) ==
  LET f == files[name]
  IN  [parent |-> NoClass, implements |-> <<>>, linked |-> FALSE, vtable |-> <<>>,
       vtableIndex |-> [i \in DOMAIN f.methods |-> 1],
       interfaceIndex |-> [i \in DOMAIN f.methods |-> 1],
       offset |-> [i \in DOMAIN f.fields |->
                     BytesOf(f.fields, f.fields[i].static, i - 1)],
       size |-> BytesOf(f.fields, FALSE, Len(f.fields)),
       object |-> FALSE]

Fresh(name) ==
  <<name, CHOOSE k \in 1..Cardinality(DOMAIN class) + 1 :
            /\ <<name, k>> \notin DOMAIN class
            /\ \A j \in 1..k - 1 : <<name, j>> \in DOMAIN class>>

MethodNames(c) == {FileOf(c).methods[i].name : i \in DOMAIN FileOf(c).methods}
MethodNumber(c, name) ==
  CHOOSE i \in DOMAIN FileOf(c).methods : FileOf(c).methods[i].name = name

\* method->flags.is_virtual: neither static, private nor a constructor
Virtual(c, i) == FileOf(c).methods[i].virtual
Virtuals(c) == {i \in DOMAIN FileOf(c).methods : Virtual(c, i)}
VirtualNames(c) == {FileOf(c).methods[i].name : i \in Virtuals(c)}

\* A method is known by its class and its number there.
NoMethod == <<NoClass, 0>>

\* class_find_method
FindMethod(cl, c, name) ==
  LET find[d \in DOMAIN cl] ==
        IF name \in MethodNames(d) THEN <<d, MethodNumber(d, name)>>
        ELSE IF cl[d].parent = NoClass THEN NoMethod ELSE find[cl[d].parent]
  IN  find[c]

MethodName(m) == FileOf(m[1]).methods[m[2]].name

\* class_find_vtable_method
FindVtableMethod(vtable, name) ==
  LET having == {k \in DOMAIN vtable : MethodName(vtable[k]) = name}
  IN  IF having = {} THEN NoMethod ELSE vtable[Least(having)]

ParentVtable(cl, c) == IF cl[c].parent = NoClass THEN <<>> ELSE cl[cl[c].parent].vtable

Overridden(cl, c, i) == FindVtableMethod(ParentVtable(cl, c), FileOf(c).methods[i].name)
NewMethods(cl, c) == {i \in Virtuals(c) : Overridden(cl, c, i) = NoMethod}

\* Mutant: one less than the next free one.
VtableIndexTooLow(cl, c, i) ==
  LET m == Overridden(cl, c, i)
  IN  IF m # NoMethod THEN cl[m[1]].vtableIndex[m[2]]
      ELSE Len(ParentVtable(cl, c)) + Cardinality({j \in NewMethods(cl, c) : j < i})

\* The index of the overridden method, or the next free one.
VtableIndex(cl, c, i) ==
  LET m == Overridden(cl, c, i)
  IN  IF m # NoMethod THEN cl[m[1]].vtableIndex[m[2]]
      ELSE Len(ParentVtable(cl, c)) + Cardinality({j \in NewMethods(cl, c) : j <= i})

VtableIndices(cl, c) ==
  [i \in DOMAIN cl[c].vtableIndex |-> IF Virtual(c, i) THEN VtableIndex(cl, c, i) ELSE 1]

InheritedEntry(cl, c, k) ==
  IF k \in DOMAIN ParentVtable(cl, c) THEN ParentVtable(cl, c)[k] ELSE NoMethod

\* Mutant: a method that overrides another one is not stored.
VtableKept(cl, c) ==
  LET own(k) == {i \in NewMethods(cl, c) : VtableIndex(cl, c, i) = k}
  IN  [k \in 1..Len(ParentVtable(cl, c)) + Cardinality(NewMethods(cl, c)) |->
         IF own(k) # {} THEN <<c, CHOOSE i \in own(k) : TRUE>> ELSE InheritedEntry(cl, c, k)]

\* The entries of the superclass, replaced or followed by the methods of the class
Vtable(cl, c) ==
  LET own(k) == {i \in Virtuals(c) : VtableIndex(cl, c, i) = k}
  IN  [k \in 1..Len(ParentVtable(cl, c)) + Cardinality(NewMethods(cl, c)) |->
         IF own(k) # {} THEN <<c, CHOOSE i \in own(k) : TRUE>> ELSE InheritedEntry(cl, c, k)]

\* class_fixup of the vtable
WithVtable(cl, c) ==
  IF IsInterface(c) THEN cl
  ELSE [cl EXCEPT ![c].vtableIndex = VtableIndices(cl, c), ![c].vtable = Vtable(cl, c)]

\* Mutant: fields are not moved behind those of the superclass.
OffsetUnmoved(cl, c, i) == cl[c].offset[i]

ParentSize(cl, c) == IF cl[c].parent = NoClass THEN 0 ELSE cl[cl[c].parent].size

\* class_fixup of a field
FixedOffset(cl, c, i) ==
  cl[c].offset[i] + IF FileOf(c).fields[i].static THEN 0 ELSE ParentSize(cl, c)

WithFields(cl, c) ==
  [cl EXCEPT ![c].offset = [i \in DOMAIN @ |-> FixedOffset(cl, c, i)],
             ![c].size = @ + ParentSize(cl, c)]

\* An interface method nobody implements: JERR_NOSUCHMETHOD.
Misses(cl, c, interface) ==
  \E i \in Virtuals(interface) :
    FindMethod(cl, c, FileOf(interface).methods[i].name) = NoMethod

\* Mutant: the implementation's own number is taken for its index in the vtable.
ImplementationNumber(cl, c, name) == FindMethod(cl, c, name)[2]

\* The vtable index of the method of c that implements an interface method.
ImplementationIndex(cl, c, name) ==
  LET m == FindMethod(cl, c, name) IN cl[m[1]].vtableIndex[m[2]]

\* A method of an interface is known by its number among the virtual ones.
InterfaceIndex(interface, i) == Cardinality({j \in Virtuals(interface) : j <= i})

ImplementationIndices(cl, c, interface) ==
  [k \in 1..Cardinality(Virtuals(interface)) |->
     LET i == CHOOSE i \in Virtuals(interface) : InterfaceIndex(interface, i) = k
     IN  ImplementationIndex(cl, c, FileOf(interface).methods[i].name)]

InterfaceIndices(cl, interface) ==
  [i \in DOMAIN cl[interface].interfaceIndex |->
     IF Virtual(interface, i) THEN InterfaceIndex(interface, i) ELSE cl[interface].interfaceIndex[i]]

\* class_fixup of an implementation: its indices, and those of the interface's methods
WithImplementation(cl, c, k) ==
  LET interface == cl[c].implements[k].interface
  IN  [cl EXCEPT ![c].implements[k].vtableIndex = ImplementationIndices(cl, c, interface),
                 ![interface].interfaceIndex = InterfaceIndices(cl, interface)]

----------------------------------------------------------------------------
(* Sessions *)

Idle == [step |-> "idle", depth |-> MainDepth, root |-> NoClass, queue |-> <<>>, required |-> <<>>,
         ancestry |-> <<>>, at |-> NoClass, then |-> NoClass, left |-> <<>>, count |-> 0]

Init ==
  /\ files \in Worlds
  /\ class = <<>>
  /\ table = [n \in Names |-> NoClass]
  /\ links = [next |-> <<>>, prev |-> <<>>]
  /\ jlClass = NoClass
  /\ session = Idle

\* New classes, and their list[0]
Added(f, S, Value(_)) == [x \in DOMAIN f \cup S |-> IF x \in S THEN Value(x) ELSE f[x]]
WithConverted(cl, ids) == Added(cl, ids, LAMBDA c : Converted(NameOf(c)))
WithNodes(l, nodes) ==
  [next |-> Added(l.next, nodes, LAMBDA n : n), prev |-> Added(l.prev, nodes, LAMBDA n : n)]

\* What a session leaves: the published classes and the classes they refer to.  The heads
\* of its lists are gone with its stack frame.
Remaining(cl, tbl) ==
  LET published == {tbl[n] : n \in Names} \ {NoClass}
  IN  published \cup ({cl[c].parent : c \in published} \ {NoClass})
        \cup UNION {{cl[c].implements[k].interface : k \in DOMAIN cl[c].implements} : c \in published}

End(cl, tbl, l) ==
  LET rest == Remaining(cl, tbl)
  IN  /\ class' = Restrict(cl, rest)
      /\ links' = [next |-> Restrict(l.next, rest), prev |-> Restrict(l.prev, rest)]
      /\ session' = Idle

Fail(cl, tbl, l) ==
  IF NameOf(session.root) = Main
  THEN session' = [Idle EXCEPT !.step = "exited"] /\ class' = cl /\ UNCHANGED links
  ELSE End(cl, tbl, l)

GoesAstray(step) ==
  /\ session' = [session EXCEPT !.step = step]
  /\ UNCHANGED <<files, class, table, links, jlClass>>

\* class_load_bynameid of a class that is not loaded: app_main does so first
Load(name, d) ==
  /\ session.step = "idle"
  /\ IF table[Main] = NoClass THEN name = Main /\ d = MainDepth ELSE d \in Depths
  /\ name # ArrayName
  /\ table[name] = NoClass
  /\ LET c == Fresh(name)
     IN  /\ class' = WithConverted(class, {c})
         /\ links' = WithNodes(links, {c} \cup Heads(d))
         /\ session' = [Idle EXCEPT !.step = "discover", !.depth = d, !.root = c, !.queue = <<c>>]
  /\ UNCHANGED <<files, table, jlClass>>

\* The same of an array class, once java/lang/Object and java/lang/Class are loaded.  It
\* is not published when there is no memory for its class object.
LoadArray ==
  /\ session.step = "idle"
  /\ table[ArrayName] = NoClass
  /\ table[Object] # NoClass /\ table[JlClass] # NoClass
  /\ LET c == <<ArrayName, 1>>
         array == [Converted(Object) EXCEPT
                     !.parent = table[Object], !.linked = TRUE, !.object = TRUE,
                     !.vtable = class[table[Object]].vtable, !.vtableIndex = <<>>,
                     !.interfaceIndex = <<>>, !.offset = <<>>,
                     !.size = class[table[Object]].size]
     IN  /\ class' = Added(class, {c}, LAMBDA d : array)
         /\ table' = [table EXCEPT ![ArrayName] = c]
         /\ links' = WithNodes(links, {c})
  /\ UNCHANGED <<files, jlClass, session>>

\* class_linktime_lookup: the first on the list
Lookup(required, name) ==
  LET found == {k \in DOMAIN required : NameOf(required[k]) = name}
  IN  IF found = {} THEN NoClass ELSE required[Least(found)]

\* Mutant: the classes of earlier sessions are converted again.
KnownToSession(required, name) == Lookup(required, name)

\* A class that was discovered in this session or loaded before.  One that waits to be
\* discovered is not known.
Known(required, name) ==
  IF Lookup(required, name) # NoClass THEN Lookup(required, name) ELSE table[name]

Wanted(c) == (IF FileOf(c).super = NoName THEN <<>> ELSE <<FileOf(c).super>>) \o FileOf(c).ifaces

\* What has to be converted for a name: nothing if it is known.
Missing(required, name) == IF Known(required, name) = NoClass THEN <<Fresh(name)>> ELSE <<>>

Parent(required, name) ==
  IF Known(required, name) = NoClass THEN Fresh(name) ELSE Known(required, name)

\* One round of the first loop of class_link begins: the superclass is looked up or converted.
Discover ==
  /\ session.step = "discover" /\ session.left = <<>> /\ session.queue # <<>>
  /\ LET c == Head(session.queue)
         required == <<c>> \o session.required
         super == FileOf(c).super
         parent == IF super = NoName THEN NoClass ELSE Parent(required, super)
         new == IF super = NoName THEN <<>> ELSE Missing(required, super)
         l == WithNodes(links, ToSet(new))
     IN  /\ parent # NoClass => ~IsInterface(parent)
         /\ class' = [WithConverted(class, ToSet(new)) EXCEPT ![c].parent = parent]
         /\ links' = IF IsInterface(c) THEN ListAdd(l, c, IfaceList) ELSE l
         /\ session' = [session EXCEPT !.queue = Tail(@) \o new, !.required = required,
                                       !.left = FileOf(c).ifaces]
  /\ UNCHANGED <<files, table, jlClass>>

\* Then so are its interfaces, one by one.
DiscoverInterface ==
  /\ session.step = "discover" /\ session.left # <<>>
  /\ LET new == Missing(session.required, Head(session.left))
     IN  /\ class' = WithConverted(class, ToSet(new))
         /\ links' = WithNodes(links, ToSet(new))
         /\ session' = [session EXCEPT !.queue = @ \o new, !.left = Tail(@)]
  /\ UNCHANGED <<files, table, jlClass>>

\* A class file is missing or wrong, memory runs out, or the superclass is an interface.
DiscoverFails ==
  /\ session.step = "discover"
  /\ \/ /\ session.left # <<>>
        /\ Known(session.required, Head(session.left)) = NoClass
     \/ /\ session.left = <<>> /\ session.queue # <<>>
        /\ LET c == Head(session.queue)
               known == Known(<<c>> \o session.required, FileOf(c).super)
           IN  FileOf(c).super # NoName /\ (known # NoClass => IsInterface(known))
  /\ Fail(class, table, links)
  /\ UNCHANGED <<files, table, jlClass>>

\* The list of superclasses begins.  An interface that is loaded by its name goes on this
\* list through the list[0] that iface_list goes through: the next loop over iface_list
\* walks into the head of the other list.
Discovered ==
  /\ session.step = "discover" /\ session.left = <<>> /\ session.queue = <<>>
  /\ IF IsInterface(session.root)
     THEN GoesAstray("lost")
     ELSE /\ session' = [session EXCEPT !.step = "ancestry", !.at = session.root]
          /\ UNCHANGED <<files, class, table, links, jlClass>>

\* From the class up, those that are not linked, the last one first.
ListAncestor ==
  /\ session.step = "ancestry" /\ session.at # NoClass
  /\ session' = [session EXCEPT
       !.ancestry = IF class[session.at].linked THEN @ ELSE <<session.at>> \o @,
       !.at = class[session.at].parent]
  /\ UNCHANGED <<files, class, table, links, jlClass>>

AncestorsListed ==
  /\ session.step = "ancestry" /\ session.at = NoClass
  /\ session' = [session EXCEPT !.step = "patch", !.at = links.next[IfaceList]]
  /\ UNCHANGED <<files, class, table, links, jlClass>>

\* classtable_get, then class_linktime_lookup
Interface(name) == IF table[name] # NoClass THEN table[name] ELSE Lookup(session.required, name)

\* Mutant: the interfaces an interface extends are left out.
NoExtended(c) == <<>>

\* The implementations of an interface, in its own order
Extended(c) ==
  [i \in DOMAIN FileOf(c).ifaces |->
     [interface |-> Interface(FileOf(c).ifaces[i]), vtableIndex |-> <<>>]]

\* Mutant: the loop over iface_list stands still.
PatchStays(c) == c

PatchNext(c) == links.next[c]

\* An interface is given its superinterfaces, for which memory does not run out here, and
\* published.  classtable_put asserts that the name is not taken.
PatchInterface ==
  /\ session.step = "patch" /\ session.at # IfaceList
  /\ LET c == session.at
     IN  IF ~class[c].linked /\ table[NameOf(c)] # NoClass
         THEN GoesAstray("abort")
         ELSE /\ IF class[c].linked THEN UNCHANGED <<class, table>>
                 ELSE /\ class' = [class EXCEPT ![c].linked = TRUE, ![c].implements = Extended(c)]
                      /\ table' = [table EXCEPT ![NameOf(c)] = c]
              /\ session' = [session EXCEPT !.at = PatchNext(c)]
              /\ UNCHANGED <<files, links, jlClass>>

PatchEnd ==
  /\ session.step = "patch" /\ session.at = IfaceList
  /\ session' = [session EXCEPT !.step = "link"]
  /\ UNCHANGED <<files, class, table, links, jlClass>>

----------------------------------------------------------------------------
(* Flattening of the interfaces of one class *)

ToLink == Head(session.ancestry)

\* Each class begins with empty lists and the interfaces it declares.
FlattenStart ==
  /\ session.step = "link" /\ session.ancestry # <<>>
  /\ links' = ListInit(ListInit(links, IfaceDiscovery), IfaceRequired)
  /\ session' = [session EXCEPT
       !.step = "roots", !.count = 0,
       !.left = [i \in DOMAIN FileOf(ToLink).ifaces |-> Interface(FileOf(ToLink).ifaces[i])]]
  /\ UNCHANGED <<files, class, table, jlClass>>

\* Each is unlinked from wherever it is, and listed.
ListRoot ==
  /\ session.step = "roots" /\ session.left # <<>>
  /\ LET i == Head(session.left)
     IN  \/ /\ links' = ListAdd(ListDelInit(links, i), i, IfaceDiscovery)
            /\ session' = [session EXCEPT !.left = Tail(@)]
            /\ UNCHANGED <<files, class, table, jlClass>>
         \/ Smashes(links, i) /\ GoesAstray("smashed")

\* The loop over iface_discovery goes on at n and keeps the element after it.
LoopAt(n) ==
  [session EXCEPT !.step = "flatten", !.at = n,
                  !.then = IF n \in DOMAIN links.next THEN links.next[n] ELSE NoClass]

RootsListed ==
  /\ session.step = "roots" /\ session.left = <<>>
  /\ session' = LoopAt(links.next[IfaceDiscovery])
  /\ UNCHANGED <<files, class, table, links, jlClass>>

\* Mutant: the interfaces it extends are counted with it.
CountWithExtended(c) == session.count + 1 + Len(class[c].implements)

CountWith(c) == session.count + 1

\* One round of the loop: the interface moves to iface_required.
FlattenOne ==
  /\ session.step = "flatten" /\ session.at # IfaceDiscovery
  /\ LET c == session.at
     IN  \/ c \notin DOMAIN class /\ GoesAstray("lost")
         \/ c \in DOMAIN class /\ Smashes(links, c) /\ GoesAstray("smashed")
         \/ /\ c \in DOMAIN class
            /\ links' = ListAddTail(ListDelInit(links, c), c, IfaceRequired)
            /\ session' = [session EXCEPT
                 !.step = "extended", !.count = CountWith(c),
                 !.left = [i \in DOMAIN class[c].implements |-> class[c].implements[i].interface]]
            /\ UNCHANGED <<files, class, table, jlClass>>

Named(name) == {d \in DOMAIN class : NameOf(d) = name}

\* An interface it extends goes on iface_discovery unless it is on iface_required.
ListExtended ==
  /\ session.step = "extended" /\ session.left # <<>>
  /\ LET i == Head(session.left)
         end == WalkEnd(links, IfaceRequired, Named(NameOf(i)))
     IN  \/ end \notin Named(NameOf(i)) \cup {IfaceRequired} /\ GoesAstray("lost")
         \/ end = IfaceRequired /\ Smashes(links, i) /\ GoesAstray("smashed")
         \/ /\ end \in Named(NameOf(i)) \cup {IfaceRequired}
            /\ links' = IF end = IfaceRequired
                        THEN ListAddTail(ListDelInit(links, i), i, IfaceDiscovery) ELSE links
            /\ session' = [session EXCEPT !.left = Tail(@)]
            /\ UNCHANGED <<files, class, table, jlClass>>

ExtendedListed ==
  /\ session.step = "extended" /\ session.left = <<>>
  /\ session' = LoopAt(session.then)
  /\ UNCHANGED <<files, class, table, links, jlClass>>

\* The end of the list: again if it is not empty, else the class gets as many implementations
\* as interfaces were counted.
FlattenEnd ==
  /\ session.step = "flatten" /\ session.at = IfaceDiscovery
  /\ IF links.next[IfaceDiscovery] # IfaceDiscovery
     THEN /\ session' = LoopAt(links.next[IfaceDiscovery])
          /\ UNCHANGED class
     ELSE /\ class' = [class EXCEPT ![ToLink].implements =
                  [k \in 1..session.count |-> [interface |-> NoClass, vtableIndex |-> <<>>]]]
          /\ session' = [session EXCEPT !.step = "fill", !.at = links.next[IfaceRequired], !.count = 0]
  /\ UNCHANGED <<files, table, links, jlClass>>

\* The interfaces found are stored one by one.  The list may not lead back to its head, or
\* hold more than were counted, which end up behind the implementations.
FillOne ==
  /\ session.step = "fill" /\ session.at # IfaceRequired
  /\ LET k == session.count + 1
         fits == session.at \in DOMAIN class /\ k \in DOMAIN class[ToLink].implements
     IN  \/ ~fits /\ GoesAstray("lost")
         \/ /\ fits
            /\ class' = [class EXCEPT ![ToLink].implements[k].interface = session.at]
            /\ session' = [session EXCEPT !.at = links.next[session.at], !.count = k]
            /\ UNCHANGED <<files, table, links, jlClass>>

Filled ==
  /\ session.step = "fill" /\ session.at = IfaceRequired
  /\ session' = [session EXCEPT !.step = "fixup"]
  /\ UNCHANGED <<files, class, table, links, jlClass>>

----------------------------------------------------------------------------
(* class_fixup *)

FinalParent(c) == class[c].parent # NoClass /\ FileOf(class[c].parent).kind = "final"

\* The fields and the vtable
FixupMembers ==
  /\ session.step = "fixup"
  /\ ~FinalParent(ToLink)
  /\ class' = WithVtable(WithFields(class, ToLink), ToLink)
  /\ session' = [session EXCEPT !.step = "itable", !.left = [k \in DOMAIN class[ToLink].implements |-> k]]
  /\ UNCHANGED <<files, table, links, jlClass>>

\* One implementation.  Its interface may be missing.
FixupImplementation ==
  /\ session.step = "itable" /\ session.left # <<>>
  /\ LET i == class[ToLink].implements[Head(session.left)].interface
     IN  \/ i = NoClass /\ GoesAstray("crash")
         \/ /\ i # NoClass
            /\ IsInterface(i) /\ ~Misses(class, ToLink, i)
            /\ class' = WithImplementation(class, ToLink, Head(session.left))
            /\ session' = [session EXCEPT !.left = Tail(@)]
            /\ UNCHANGED <<files, table, links, jlClass>>

\* Mutant: a class is published before it is complete.
PublishedTooSoon(c) == [table EXCEPT ![NameOf(c)] = c]

TableAfterFailure(c) == table

\* A final superclass, no memory for the vtable, an interface that is none or has a method
\* nobody implements.
FixupFails ==
  /\ \/ session.step = "fixup"
     \/ /\ session.step = "itable" /\ session.left # <<>>
        /\ LET i == class[ToLink].implements[Head(session.left)].interface
           IN  i # NoClass /\ (~IsInterface(i) \/ Misses(class, ToLink, i))
  /\ table' = TableAfterFailure(ToLink)
  /\ Fail(class, table', links)
  /\ UNCHANGED <<files, jlClass>>

\* The class is published, then gets its class object.
Published(c) == [table EXCEPT ![NameOf(c)] = c]

WithLinked(cl, c) == [cl EXCEPT ![c].linked = TRUE]
WithObject(cl, c) == [cl EXCEPT ![c].object = TRUE]

\* The first class to be published has java/lang/Class converted, fixed up under
\* java/lang/Object, and published as well.  The interfaces it names are left out.
WithJlClass(cl, j) ==
  LET child == [WithConverted(cl, {j}) EXCEPT ![j].parent = Published(ToLink)[Object]]
  IN  WithObject(WithLinked(WithVtable(WithFields(child, j), j), j), j)

MayBePublished == session.step = "itable" /\ session.left = <<>>

\* The assertion of classtable_put holds here, as SessionsEnd shows: a session that came to
\* it with a class whose name is taken would stop.
Fixup ==
  /\ MayBePublished
  /\ table[NameOf(ToLink)] = NoClass
  /\ jlClass # NoClass
  /\ table' = Published(ToLink)
  /\ \/ /\ class' = WithObject(WithLinked(class, ToLink), ToLink)
        /\ session' = [session EXCEPT !.ancestry = Tail(@), !.step = "link"]
        /\ UNCHANGED links
     \/ Fail(WithLinked(class, ToLink), table', links)     \* no memory for the class object
  /\ UNCHANGED <<files, jlClass>>

FixupFirst ==
  /\ MayBePublished
  /\ table[NameOf(ToLink)] = NoClass
  /\ jlClass = NoClass
  /\ UNCHANGED files
  /\ LET j == Fresh(JlClass)
     IN  \/ /\ Published(ToLink)[JlClass] = NoClass
            /\ table' = [Published(ToLink) EXCEPT ![JlClass] = j]
            /\ jlClass' = j
            /\ class' = WithObject(WithJlClass(WithLinked(class, ToLink), j), ToLink)
            /\ session' = [session EXCEPT !.ancestry = Tail(@), !.step = "link"]
            /\ links' = WithNodes(links, {j})
         \/ /\ table' = Published(ToLink)       \* java/lang/Class is not found, or no memory
            /\ Fail(WithLinked(class, ToLink), table', links)
            /\ UNCHANGED jlClass

Linked ==
  /\ session.step = "link" /\ session.ancestry = <<>>
  /\ End(class, table, links)
  /\ UNCHANGED <<files, table, jlClass>>

SessionStep ==
  \/ Discover \/ DiscoverInterface \/ DiscoverFails \/ Discovered
  \/ ListAncestor \/ AncestorsListed
  \/ PatchInterface \/ PatchEnd
  \/ FlattenStart \/ ListRoot \/ RootsListed
  \/ FlattenOne \/ ListExtended \/ ExtendedListed \/ FlattenEnd
  \/ FillOne \/ Filled
  \/ FixupMembers \/ FixupImplementation \/ FixupFails \/ Fixup \/ FixupFirst \/ Linked

Next == SessionStep \/ LoadArray \/ \E name \in Names, d \in Depths \cup {MainDepth} : Load(name, d)

\* The thread that holds the class lock is scheduled.
Spec == Init /\ [][Next]_vars /\ WF_vars(SessionStep)

----------------------------------------------------------------------------
(* Properties *)

Pointers == DOMAIN class \cup {NoClass}
Loaded == {table[n] : n \in Names} \ {NoClass}
Instantiable == {c \in Loaded : ~IsInterface(c)}

\* Between two classes of a session, and between sessions: the table has changed.
ClassesComplete == session.step \in {"idle", "link"}

TypeOK ==
  /\ session.step \in Steps
  /\ session.depth \in Depths \cup {MainDepth}
  /\ jlClass \in Pointers
  /\ \A n \in Names : table[n] \in Pointers /\ (table[n] # NoClass => NameOf(table[n]) = n)
  /\ DOMAIN links.next = DOMAIN links.prev
  /\ DOMAIN class \subseteq DOMAIN links.next
  /\ \A c \in DOMAIN class :
       /\ class[c].parent \in Pointers
       /\ class[c].linked /\ ~IsInterface(c) =>
            \A i \in Virtuals(c) : class[c].vtableIndex[i] \in DOMAIN class[c].vtable
       /\ \A i \in DOMAIN class[c].implements : class[c].implements[i].interface \in Pointers
       /\ \A k \in DOMAIN class[c].vtable :
            LET m == class[c].vtable[k] IN m[1] \in DOMAIN class /\ m[2] \in DOMAIN FileOf(m[1]).methods

\* What the class files say: the names of the supertypes of a name, itself included.
Supertypes(name) ==
  LET up[n \in Names] ==
        {n} \cup UNION {up[m] : m \in ToSet(Wanted(<<n, 1>>))}
  IN  up[name]

\* The classes of c and its superclasses, in cl, from c up.
Chain(cl, c) ==
  LET up[d \in DOMAIN cl] == IF cl[d].parent = NoClass THEN <<d>> ELSE <<d>> \o up[cl[d].parent]
  IN  up[c]

\* The method a call on an instance of c must reach: the first from c up that can be
\* overridden.
MostDerived(cl, c, name) ==
  LET chain == Chain(cl, c)
      having == {k \in DOMAIN chain : name \in VirtualNames(chain[k])}
      d == chain[Least(having)]
  IN  IF having = {} THEN NoMethod ELSE <<d, MethodNumber(d, name)>>

\* INVOKEVIRTUAL: the entry of the vtable of the object's class at the method's index
Dispatched(c, d, i) == class[c].vtable[class[d].vtableIndex[i]]

\* INVOKEINTERFACE: the first implementation of the interface from the class up
ItableOf(c, interface) ==
  LET chain == Chain(class, c)
      has(d) == {k \in DOMAIN class[d].implements : class[d].implements[k].interface = interface}
      having == {k \in DOMAIN chain : has(chain[k]) # {}}
      d == chain[Least(having)]
  IN  IF having = {} THEN <<>> ELSE class[d].implements[Least(has(d))].vtableIndex

\* Mutant: the interfaces of superclasses are not looked at.
CompatibleBelow(c, d) ==
  LET to[e \in DOMAIN class] ==
        \/ e = d
        \/ \E i \in DOMAIN class[e].implements : to[class[e].implements[i].interface]
  IN  to[c] \/ d \in ToSet(Chain(class, c))

\* class_is_compatible
Compatible(c, d) ==
  LET to[e \in DOMAIN class] ==
        \/ e = d
        \/ \E i \in DOMAIN class[e].implements : to[class[e].implements[i].interface]
        \/ class[e].parent # NoClass /\ to[class[e].parent]
  IN  to[c]

\* A virtual call reaches the most derived method, whatever was loaded first and however
\* many levels override it: indices are inherited and entries replaced in one place only.
OverridesAreReached ==
  ClassesComplete => \A c \in Instantiable : \A d \in ToSet(Chain(class, c)) : \A i \in Virtuals(d) :
    Dispatched(c, d, i) = MostDerived(class, c, FileOf(d).methods[i].name)

\* The interfaces a class declares and those they extend, by the class files
DeclaredInterfaces(c) ==
  {n \in UNION {Supertypes(m) : m \in ToSet(FileOf(c).ifaces)} : files[n].kind = "interface"}

Implemented(c) == {class[c].implements[k].interface : k \in DOMAIN class[c].implements}
ImplementedNames(c) == {NameOf(i) : i \in Implemented(c)}

\* Every method a class and its superclasses have of that name can be overridden.
NoPrivate(c, name) == \A d \in ToSet(Chain(class, c)) : name \in MethodNames(d) => name \in VirtualNames(d)

ArrivesAt(c, interface, i) ==
  LET itable == ItableOf(c, interface)
      slot == class[interface].interfaceIndex[i]
  IN  /\ slot \in DOMAIN itable
      /\ class[c].vtable[itable[slot]] = MostDerived(class, c, FileOf(interface).methods[i].name)

InheritedInterfaces(c) == UNION {Implemented(d) : d \in ToSet(Chain(class, c))}

\* A call through an interface the class or a superclass has in its table reaches the most
\* derived method, also if the method was inherited when the interface was linked and
\* overridden below.  Not if a superclass has a private method of that name: class_fixup
\* takes that one, which has no index in the vtable.
InterfaceCallsArrive ==
  ClassesComplete =>
    \A c \in Instantiable : \A interface \in InheritedInterfaces(c) : \A i \in Virtuals(interface) :
      NoPrivate(c, FileOf(interface).methods[i].name) => ArrivesAt(c, interface, i)

\* The instance fields of a class and of its superclasses lie side by side in an object,
\* each within its size, though the classes were linked in different sessions.
FieldsDoNotOverlap ==
  ClassesComplete => \A c \in Instantiable :
    LET fields == UNION {{<<d, i>> : i \in {k \in DOMAIN FileOf(d).fields : ~FileOf(d).fields[k].static}} :
                           d \in ToSet(Chain(class, c))}
        start(f) == class[f[1]].offset[f[2]]
        end(f) == start(f) + FileOf(f[1]).fields[f[2]].size
    IN  /\ \A f \in fields : end(f) <= class[c].size
        /\ \A f, g \in fields : f # g => end(f) <= start(g) \/ end(g) <= start(f)

\* A cast or INSTANCEOF of an object says what the class files say, for all classes loaded, if
\* class_link collected the interfaces of its class and superclasses: it may pass over one
\* that is reused, see FreshInterfacesAreFound.
CastsAgreeWithFiles ==
  ClassesComplete =>
    \A c \in Instantiable :
      (\A d \in ToSet(Chain(class, c)) : ImplementedNames(d) = DeclaredInterfaces(d)) =>
        \A d \in Loaded : Compatible(c, d) <=> NameOf(d) \in Supertypes(NameOf(c))

\* Between sessions, failed ones included, a class in the table is linked, and so is all it
\* refers to.  Only java/lang/Object, converted twice in the first session, may be
\* another one than an interface refers to.
TableIsClosed ==
  session.step = "idle" =>
    \A c \in Loaded :
      /\ class[c].linked
      /\ \A i \in DOMAIN class[c].implements : class[c].implements[i].interface \in Loaded
      /\ \/ class[c].parent \in Loaded \cup {NoClass}
         \/ IsInterface(c) /\ NameOf(class[c].parent) = Object

\* The assertion of classtable_put fails only if one session converts a class twice: an
\* interface that was named again while it waited to be discovered.
AbortNeedsTwoCopies ==
  session.step = "abort" =>
    \E c, d \in ToSet(session.required) : c # d /\ NameOf(c) = NameOf(d) /\ IsInterface(c)

\* An interface of the class was listed before, by an earlier session or for a superclass in
\* this one: its list[0] still points to where it was then.
Reused(c) ==
  \E n \in Supertypes(NameOf(c)) :
    /\ files[n].kind = "interface"
    /\ \/ table[n] \notin ToSet(session.required)
       \/ \E d \in Instantiable : n \in Supertypes(NameOf(d))

\* The lists of a session only break if an interface of the class is reused.
BrokenListNeedsReuse ==
  session.step \in {"crash", "lost", "smashed"} /\ ~IsInterface(session.root) => Reused(ToLink)

\* If none is, what class_fixup finds in `implements` is the interfaces the class declares
\* and those they extend, each way an interface can be reached.
FreshInterfacesAreFound ==
  session.step \in {"fixup", "itable"} /\ ~Reused(ToLink) =>
    ImplementedNames(ToLink) = DeclaredInterfaces(ToLink)

\* Every session ends, so that the class lock is given back.
SessionsEnd ==
  session.step \in Steps \ Astray ~> session.step \in {"idle", "exited"} \cup Astray

=============================================================================
