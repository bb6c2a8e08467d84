-------------------------- MODULE InterfaceProofs --------------------------
(***************************************************************************)
(* Proofs about the interfaces of Linking: a call through an interface     *)
(* reaches the method it must reach, a cast agrees with the class files,   *)
(* and the lists of a session hold the interfaces that a class has, unless *)
(* one of them was listed before.                                          *)
(***************************************************************************)
EXTENDS LayoutProofs

----------------------------------------------------------------------------
(* class_find_method *)

\* The classes that have a method of that name
Having(cl, name) == {d \in DOMAIN cl : name \in MethodNames(d)}

\* The method of that name in the class d, if that is one
MethodOf(d, name) == IF d = NoClass THEN NoMethod ELSE <<d, MethodNumber(d, name)>>

\* class_find_method finds the method of the first class that has one.
LEMMA FindIsFirst ==
  ASSUME NEW cl, Parents(cl), NEW c \in DOMAIN cl, NEW name
  PROVE  FindMethod(cl, c, name) = MethodOf(FirstIn(cl, c, Having(cl, name)), name)
  <1> DEFINE H == Having(cl, name)
             Step(d, g) == IF d \in H THEN <<d, MethodNumber(d, name)>>
                           ELSE IF cl[d].parent = NoClass THEN NoMethod ELSE g[cl[d].parent]
             Is(g) == g = [d \in DOMAIN cl |-> Step(d, g)]
             first == [d \in DOMAIN cl |-> MethodOf(FirstIn(cl, d, H), name)]
             find == CHOOSE g : Is(g)
  <1>1. FindMethod(cl, c, name) = find[c]
    <2>1. \A g : [d \in DOMAIN cl |-> Step(d, g)]
                 = [d \in DOMAIN cl |-> IF name \in MethodNames(d) THEN <<d, MethodNumber(d, name)>>
                                        ELSE IF cl[d].parent = NoClass THEN NoMethod
                                        ELSE g[cl[d].parent]]
      BY DEF Having
    <2>2. QED
      BY <2>1 DEF FindMethod
  <1>2. \A d \in DOMAIN cl : /\ cl[d].parent \in DOMAIN cl \cup {NoClass}
                             /\ FirstIn(cl, d, H) = IF d \in H THEN d
                                  ELSE IF cl[d].parent = NoClass THEN NoClass
                                  ELSE FirstIn(cl, cl[d].parent, H)
    BY FirstFacts DEF Parents
  <1> HIDE DEF H
  <1>3. Is(first)
    <2>1. \A d \in DOMAIN cl : first[d] = Step(d, first)
      BY <1>2 DEF MethodOf, Parents
    <2>2. first = [d \in DOMAIN cl |-> first[d]]
      OBVIOUS
    <2> HIDE DEF first
    <2>3. [d \in DOMAIN cl |-> first[d]] = [d \in DOMAIN cl |-> Step(d, first)]
      BY <2>1
    <2>4. QED
      BY <2>2, <2>3
  <1>4. Is(find)
    <2> HIDE DEF Is, first
    <2>1. QED
      BY <1>3
  <1> HIDE DEF find
  <1>5. \A d \in DOMAIN cl : find[d] = Step(d, find) /\ first[d] = Step(d, first)
    <2> HIDE DEF first
    <2>1. QED
      BY <1>3, <1>4
  <1> HIDE DEF Is, first
  <1> DEFINE bad == {d \in DOMAIN cl : find[d] # first[d]}
  <1>6. ASSUME bad # {}
        PROVE  FALSE
    <2>1. PICK d \in bad : cl[d].parent \notin bad
      BY <1>6 DEF Parents
    <2>2. cl[d].parent # NoClass => find[cl[d].parent] = first[cl[d].parent]
      BY <1>2, <2>1
    <2>3. QED
      BY <1>5, <2>1, <2>2
  <1>7. find[c] = first[c]
    BY <1>6
  <1>8. QED
    BY <1>1, <1>7 DEF first, H

\* It is one of the chain, and has that name.
LEMMA FindMethodFacts ==
  ASSUME NEW cl, Parents(cl), NEW c \in DOMAIN cl, NEW name, FindMethod(cl, c, name) # NoMethod
  PROVE  \E d \in ToSet(Chain(cl, c)) :
           name \in MethodNames(d) /\ FindMethod(cl, c, name) = <<d, MethodNumber(d, name)>>
  <1> DEFINE d == FirstIn(cl, c, Having(cl, name))
  <1>1. FindMethod(cl, c, name) = MethodOf(d, name)
    BY FindIsFirst
  <1>2. d # NoClass
    BY <1>1 DEF MethodOf
  <1>3. d \in Having(cl, name) /\ d \in ToSet(Chain(cl, c))
    BY <1>2, FirstIsIn
  <1> HIDE DEF d
  <1>4. QED
    BY <1>1, <1>2, <1>3 DEF MethodOf, Having

\* The same method is found as long as the superclasses are the same.
LEMMA FindKeeps ==
  ASSUME NEW cl, Parents(cl), NEW new, Parents(new), NEW P, ClosedUp(cl, P), P \subseteq DOMAIN new,
         \A d \in P : new[d].parent = cl[d].parent, NEW c \in P, NEW name
  PROVE  FindMethod(new, c, name) = FindMethod(cl, c, name)
  <1> DEFINE chain == Chain(cl, c)
  <1>1. Chain(new, c) = chain
    BY ChainKeeps DEF ClosedUp
  <1>2. chain \in Seq(P) /\ P \subseteq DOMAIN cl
    BY ChainStaysIn DEF ClosedUp
  <1> HIDE DEF chain
  <1>3. \A k \in DOMAIN chain : chain[k] \in DOMAIN cl /\ chain[k] \in DOMAIN new
    BY <1>2
  <1>4. {k \in DOMAIN chain : chain[k] \in Having(cl, name)}
        = {k \in DOMAIN chain : chain[k] \in Having(new, name)}
    BY <1>3 DEF Having
  <1>5. FirstIn(new, c, Having(new, name)) = FirstIn(cl, c, Having(cl, name))
    BY <1>1, <1>4 DEF FirstIn, chain
  <1>6. c \in DOMAIN cl /\ c \in DOMAIN new
    BY <1>2
  <1>7. QED
    BY <1>5, <1>6, FindIsFirst

----------------------------------------------------------------------------
(* Interface tables *)

\* The k-th table of c is right: a method of the interface is known by its number among the
\* virtual ones, and the entry of that number is the vtable index of the method of that name.
ItableIn(cl, c, k) ==
  LET implementation == cl[c].implements[k]
      interface == implementation.interface
      Name(i) == FileOf(interface).methods[i].name
  IN  /\ interface \in DOMAIN cl
      /\ DOMAIN implementation.vtableIndex = 1..Cardinality(Virtuals(interface))
      /\ \A i \in Virtuals(interface) :
           /\ cl[interface].interfaceIndex[i] = InterfaceIndex(interface, i)
           /\ FindMethod(cl, c, Name(i)) # NoMethod
           /\ implementation.vtableIndex[InterfaceIndex(interface, i)]
                = ImplementationIndex(cl, c, Name(i))

ItablesIn(cl, tbl) == \A c \in Concrete(tbl) : \A k \in DOMAIN cl[c].implements : ItableIn(cl, c, k)

IndexedIn(cl) == \A c \in DOMAIN cl : DOMAIN cl[c].interfaceIndex = DOMAIN FileOf(c).methods

\* The invariant: the tables of a class are right once class_fixup has come to them.
Tables ==
  session.step \notin Ended =>
    /\ IndexedIn(class)
    /\ ItablesIn(class, table)
    /\ session.step = "itable" =>
         \A k \in DOMAIN Implements : k \in ToSet(session.left) \/ ItableIn(class, ToLink, k)

LEMMA TablesFilesStay ==
  ASSUME files' = files
  PROVE  /\ \A c, k : ItableIn(class, c, k)' <=> ItableIn(class', c, k)
         /\ IndexedIn(class)' <=> IndexedIn(class')
         /\ ItablesIn(class, table)' <=> ItablesIn(class', table')
  <1>1. \A c : FileOf(c)' = FileOf(c)
    BY DEF FileOf
  <1>2. /\ \A c : Virtuals(c)' = Virtuals(c) /\ MethodNames(c)' = MethodNames(c)
        /\ \A c : IsInterface(c)' <=> IsInterface(c)
        /\ \A c, name : MethodNumber(c, name)' = MethodNumber(c, name)
    BY <1>1 DEF Virtuals, Virtual, MethodNames, MethodNumber, IsInterface
  <1>3. \A c, name : FindMethod(class, c, name)' = FindMethod(class', c, name)
    BY <1>2 DEF FindMethod
  <1>4. \A c, name : ImplementationIndex(class, c, name)' = ImplementationIndex(class', c, name)
    BY <1>3 DEF ImplementationIndex
  <1>5. \A c, i : InterfaceIndex(c, i)' = InterfaceIndex(c, i)
    BY <1>2 DEF InterfaceIndex
  <1>6. \A c, k : ItableIn(class, c, k)' <=> ItableIn(class', c, k)
    BY <1>1, <1>2, <1>3, <1>4, <1>5 DEF ItableIn
  <1>7. IndexedIn(class)' <=> IndexedIn(class')
    BY <1>1 DEF IndexedIn
  <1>8. Concrete(table)' = Concrete(table')
    BY <1>2, FilesStay DEF Concrete
  <1>9. ItablesIn(class, table)' <=> ItablesIn(class', table')
    BY <1>6, <1>8 DEF ItablesIn
  <1>10. QED
    BY <1>6, <1>7, <1>9

\* A table stays right while the class and its superclasses keep theirs.
LEMMA ItableKeeps ==
  ASSUME NEW cl, Parents(cl), NEW new, Parents(new), NEW P, ClosedUp(cl, P), P \subseteq DOMAIN new,
         \A d \in P : new[d].parent = cl[d].parent /\ new[d].vtableIndex = cl[d].vtableIndex,
         NEW c \in P, NEW k, ItableIn(cl, c, k), new[c].implements[k] = cl[c].implements[k],
         LET i == cl[c].implements[k].interface
         IN  /\ i \in DOMAIN new
             /\ \A m \in Virtuals(i) :
                  new[i].interfaceIndex[m] \in {cl[i].interfaceIndex[m], InterfaceIndex(i, m)}
  PROVE  ItableIn(new, c, k)
  <1> DEFINE i == cl[c].implements[k].interface
             table1 == cl[c].implements[k].vtableIndex
             Name(m) == FileOf(i).methods[m].name
  <1>1. /\ i \in DOMAIN new /\ DOMAIN table1 = 1..Cardinality(Virtuals(i))
        /\ \A m \in Virtuals(i) :
             /\ new[i].interfaceIndex[m] = InterfaceIndex(i, m)
             /\ FindMethod(cl, c, Name(m)) # NoMethod
             /\ table1[InterfaceIndex(i, m)] = ImplementationIndex(cl, c, Name(m))
    BY DEF ItableIn
  <1>2. ASSUME NEW m \in Virtuals(i)
        PROVE  /\ FindMethod(new, c, Name(m)) # NoMethod
               /\ ImplementationIndex(new, c, Name(m)) = ImplementationIndex(cl, c, Name(m))
    <2> DEFINE name == Name(m)
    <2>1. FindMethod(new, c, name) = FindMethod(cl, c, name)
      BY FindKeeps
    <2>2. FindMethod(cl, c, name) # NoMethod /\ c \in DOMAIN cl
      BY <1>1, <1>2 DEF ClosedUp
    <2> HIDE DEF name
    <2>3. PICK d \in ToSet(Chain(cl, c)) : FindMethod(cl, c, name) = <<d, MethodNumber(d, name)>>
      BY <2>2, FindMethodFacts
    <2>4. d \in P
      BY ChainStaysIn DEF ClosedUp
    <2>5. ImplementationIndex(new, c, name) = ImplementationIndex(cl, c, name)
      BY <2>1, <2>3, <2>4 DEF ImplementationIndex
    <2>6. QED
      BY <2>1, <2>2, <2>5 DEF name
  <1>3. new[c].implements[k].interface = i /\ new[c].implements[k].vtableIndex = table1
    OBVIOUS
  <1> HIDE DEF i, table1
  <1>4. QED
    BY <1>1, <1>2, <1>3 DEF ItableIn

\* The classes of P have the tables they had, and interfaces the numbers.
SameTables(cl, new, P) ==
  /\ P \subseteq DOMAIN new
  /\ \A d \in P : /\ new[d].parent = cl[d].parent /\ new[d].vtableIndex = cl[d].vtableIndex
                  /\ new[d].implements = cl[d].implements

SameNumbers(cl, new) ==
  \A d \in DOMAIN new : IF d \in DOMAIN cl THEN new[d].interfaceIndex = cl[d].interfaceIndex
                         ELSE DOMAIN new[d].interfaceIndex = DOMAIN FileOf(d).methods

LEMMA ItablesStay ==
  ASSUME files \in Worlds, NEW cl, NEW tbl, NEW new, NEW published, NEW found,
         ClassesIn(cl, tbl), ClosedIn(cl, tbl, found), Parents(new), ItablesIn(cl, tbl),
         Concrete(published) \subseteq Concrete(tbl), InTable(tbl) \subseteq DOMAIN new,
         SameTables(cl, new, Concrete(tbl)),
         \A i \in InTable(tbl) : new[i].interfaceIndex = cl[i].interfaceIndex
  PROVE  ItablesIn(new, published)
  <1>1. Parents(cl) /\ ClosedUp(cl, Concrete(tbl))
    BY ParentsAreAcyclic, ConcreteFacts
  <1>2. ASSUME NEW c \in Concrete(published), NEW k \in DOMAIN new[c].implements
        PROVE  ItableIn(new, c, k)
    <2> DEFINE i == cl[c].implements[k].interface
    <2>1. /\ c \in Concrete(tbl) /\ new[c].implements = cl[c].implements
          /\ k \in DOMAIN cl[c].implements
      BY <1>2 DEF SameTables
    <2>2. ItableIn(cl, c, k)
      BY <2>1 DEF ItablesIn
    <2>3. i \in InTable(tbl)
      BY <2>1 DEF ClosedIn, Concrete
    <2>4. i \in DOMAIN new /\ new[i].interfaceIndex = cl[i].interfaceIndex
      BY <2>3
    <2>5. QED
      BY <1>1, <2>1, <2>2, <2>4, ItableKeeps DEF SameTables
  <1>3. QED
    BY <1>2 DEF ItablesIn

LEMMA ItablesKeep ==
  ASSUME files \in Worlds, NEW cl, NEW tbl, NEW new, NEW published, NEW found,
         ClassesIn(cl, tbl), ClosedIn(cl, tbl, found), Parents(new),
         IndexedIn(cl), ItablesIn(cl, tbl),
         Concrete(published) \subseteq Concrete(tbl), InTable(tbl) \subseteq DOMAIN new,
         SameTables(cl, new, Concrete(tbl)), SameNumbers(cl, new)
  PROVE  IndexedIn(new) /\ ItablesIn(new, published)
  <1>1. IndexedIn(new)
    BY DEF IndexedIn, SameNumbers
  <1>2. \A i \in InTable(tbl) : new[i].interfaceIndex = cl[i].interfaceIndex
    BY TableFacts DEF SameNumbers
  <1>3. QED
    BY <1>1, <1>2, ItablesStay

\* What the invariants say while a session or nothing goes on
LEMMA RunningTables ==
  ASSUME IInv, Tables, session.step \notin Ended
  PROVE  /\ files \in Worlds /\ ClassesIn(class, table)
         /\ \E found : ClosedIn(class, table, found)
         /\ IndexedIn(class) /\ ItablesIn(class, table)
  <1>1. files \in Worlds /\ Session
    BY DEF IInv, Ended
  <1>2. /\ ClassesIn(class, table)
        /\ ClosedIn(class, table, IF session.step = "patch" THEN Found ELSE {})
    BY <1>1 DEF Session
  <1>3. QED
    BY <1>1, <1>2 DEF Tables

\* The invariant after a step, when no class is being fixed up
LEMMA TablesAtRest ==
  ASSUME files' = files, session'.step # "itable",
         session'.step \notin Ended => IndexedIn(class') /\ ItablesIn(class', table')
  PROVE  Tables'
  BY TablesFilesStay DEF Tables

\* Steps that publish no class and leave the published ones as they are
LEMMA TablesSpare ==
  ASSUME IInv, Tables, IInv', session.step \notin Ended, session'.step # "itable", files' = files,
         Concrete(table') \subseteq Concrete(table), InTable(table) \subseteq DOMAIN class',
         SameTables(class, class', Concrete(table)), SameNumbers(class, class')
  PROVE  Tables'
  <1>1. ASSUME session'.step \notin Ended
        PROVE  IndexedIn(class') /\ ItablesIn(class', table')
    <2>1. Parents(class')
      BY <1>1, RunningAfter
    <2>2. PICK found : ClosedIn(class, table, found)
      BY RunningTables
    <2>3. QED
      BY <2>1, <2>2, RunningTables, ItablesKeep
  <1>2. QED
    BY <1>1, TablesAtRest

----------------------------------------------------------------------------
(* Step by step *)

LEMMA AstrayTables ==
  ASSUME NEW step \in Astray, GoesAstray(step)
  PROVE  Tables'
  <1>1. session'.step \in Ended
    BY DEF GoesAstray, Ended
  <1>2. QED
    BY <1>1 DEF Tables

\* Steps that leave the classes and the table alone
LEMMA QuietTables ==
  ASSUME IInv, Tables, IInv', UNCHANGED <<files, class, table>>, session.step \notin Ended,
         session'.step # "itable"
  PROVE  Tables'
  <1>1. ClassesIn(class, table)
    BY RunningTables
  <1>2. Concrete(table') = Concrete(table) /\ InTable(table) \subseteq DOMAIN class
    BY <1>1, TableFacts DEF Concrete
  <1>3. SameTables(class, class', Concrete(table)) /\ SameNumbers(class, class')
    BY <1>2 DEF SameTables, SameNumbers, Concrete
  <1>4. QED
    BY <1>2, <1>3, TablesSpare

LEMMA SearchTables ==
  ASSUME IInv, Tables, IInv',
         \/ Discovered \/ ListAncestor \/ AncestorsListed \/ PatchEnd \/ FlattenStart \/ ListRoot
         \/ RootsListed \/ FlattenOne \/ ListExtended \/ ExtendedListed \/ Filled
  PROVE  Tables'
  <1>1. session.step \notin Ended
    BY DEF Discovered, ListAncestor, AncestorsListed, PatchEnd, FlattenStart, ListRoot, RootsListed,
           FlattenOne, ListExtended, ExtendedListed, Filled, Ended, Astray
  <1>2. DOMAIN session = DOMAIN Idle
    BY <1>1 DEF IInv
  <1>3. ASSUME NEW step \in Astray, GoesAstray(step)
        PROVE  Tables'
    BY <1>3, AstrayTables
  <1>4. ASSUME \A step \in Astray : ~GoesAstray(step)
        PROVE  UNCHANGED <<files, class, table>> /\ session'.step # "itable"
    <2>1. CASE Discovered \/ ListAncestor \/ AncestorsListed \/ PatchEnd
      BY <1>2, <1>4, <2>1 DEF Discovered, ListAncestor, AncestorsListed, PatchEnd, Astray, Idle
    <2>2. CASE FlattenStart \/ ListRoot \/ ListExtended \/ Filled
      BY <1>2, <1>4, <2>2 DEF FlattenStart, ListRoot, ListExtended, Filled, Astray, Idle
    <2>3. CASE RootsListed \/ FlattenOne \/ ExtendedListed
      BY <1>2, <1>4, <2>3 DEF RootsListed, FlattenOne, ExtendedListed, LoopAt, Astray, Idle
    <2>4. QED
      BY <2>1, <2>2, <2>3
  <1>5. QED
    BY <1>1, <1>3, <1>4, QuietTables

\* What conversion adds has no interfaces, and a number for every method.
LEMMA ConvertedNumbers ==
  ASSUME NEW cl, NEW S, \A c \in S : NameOf(c) # ArrayName
  PROVE  SameNumbers(cl, WithConverted(cl, S \ DOMAIN cl))
  <1> DEFINE R == S \ DOMAIN cl
             new == WithConverted(cl, R)
  <1>1. /\ DOMAIN new = DOMAIN cl \cup R
        /\ \A c \in R : new[c] = Converted(NameOf(c))
        /\ \A c \in DOMAIN cl : new[c] = cl[c]
    BY DEF WithConverted, Added
  <1>2. \A c \in R : FileOf(c) = files[NameOf(c)]
    BY DEF FileOf
  <1>3. \A c \in R : DOMAIN Converted(NameOf(c)).interfaceIndex = DOMAIN files[NameOf(c)].methods
    BY DEF Converted
  <1> HIDE DEF new
  <1>4. SameNumbers(cl, new)
    BY <1>1, <1>2, <1>3 DEF SameNumbers
  <1>5. QED
    BY <1>4 DEF new

LEMMA LoadTables ==
  ASSUME IInv, Tables, IInv', NEW name \in Names, NEW d, Load(name, d)
  PROVE  Tables'
  <1> DEFINE c == Fresh(name)
  <1>1. /\ session.step = "idle" /\ name # ArrayName /\ files' = files /\ table' = table
        /\ class' = WithConverted(class, {c})
        /\ session' = [Idle EXCEPT !.step = "discover", !.depth = d, !.root = c, !.queue = <<c>>]
    BY DEF Load
  <1>2. session.step \notin Ended /\ session'.step = "discover"
    BY <1>1 DEF Ended, Astray, Idle
  <1>3. files \in Worlds /\ ClassesIn(class, table)
    BY <1>2, RunningTables
  <1>4. NameOf(c) = name /\ c \notin DOMAIN class
    BY <1>3, FreshFacts DEF ClassesIn
  <1> HIDE DEF c
  <1>5. \A x \in DOMAIN class : x \in DOMAIN class' /\ class'[x] = class[x]
    BY <1>1, <1>4 DEF WithConverted, Added
  <1>6. {c} \ DOMAIN class = {c}
    BY <1>4
  <1>7. SameNumbers(class, class')
    BY <1>1, <1>4, <1>6, ConvertedNumbers
  <1>8. InTable(table) \subseteq DOMAIN class /\ Concrete(table') = Concrete(table)
    BY <1>1, <1>3, TableFacts DEF Concrete
  <1>9. SameTables(class, class', Concrete(table))
    BY <1>5, <1>8 DEF SameTables, Concrete
  <1>10. QED
    BY <1>1, <1>2, <1>5, <1>7, <1>8, <1>9, TablesSpare

LEMMA ConversionTables ==
  ASSUME IInv, Tables, IInv', session.step = "discover", session'.step = "discover",
         UNCHANGED <<files, table>>,
         NEW name, name # ArrayName, NEW new, ConvertsFor(name, new),
         NEW c, c \notin InTable(table), NEW parent,
         \/ class' = WithConverted(class, ToSet(new))
         \/ class' = [WithConverted(class, ToSet(new)) EXCEPT ![c].parent = parent]
  PROVE  Tables'
  <1> DEFINE cl == WithConverted(class, ToSet(new))
  <1>1. session.step \notin Ended
    BY DEF Ended, Astray
  <1>2. files \in Worlds /\ ClassesIn(class, table)
    BY <1>1, RunningTables
  <1>3. /\ \A x \in ToSet(new) : NameOf(x) = name
        /\ ToSet(new) \ DOMAIN class = ToSet(new)
        /\ DOMAIN cl = DOMAIN class \cup ToSet(new)
        /\ \A x \in DOMAIN class : cl[x] = class[x]
        /\ ClassesIn(cl, table)
    BY DEF ConvertsFor, Converts
  <1>4. SameNumbers(class, cl)
    BY <1>3, ConvertedNumbers
  <1>5. \A x \in DOMAIN cl : DOMAIN cl[x] = ClassFields
    BY <1>3 DEF ClassesIn, Shaped
  <1>6. class' = cl \/ class' = [cl EXCEPT ![c].parent = parent]
    OBVIOUS
  <1> HIDE DEF cl
  <1>7. /\ DOMAIN class' = DOMAIN cl
        /\ \A x \in DOMAIN cl : \A f \in {"implements", "vtableIndex", "interfaceIndex"} :
             class'[x][f] = cl[x][f]
        /\ \A x \in DOMAIN cl \ {c} : class'[x].parent = cl[x].parent
    BY <1>5, <1>6 DEF ClassFields
  <1>8. SameNumbers(class, class')
    BY <1>4, <1>7 DEF SameNumbers
  <1>9. InTable(table) \subseteq DOMAIN class /\ Concrete(table') = Concrete(table)
    BY <1>2, TableFacts DEF Concrete
  <1>10. SameTables(class, class', Concrete(table))
    BY <1>3, <1>7, <1>9 DEF SameTables, Concrete
  <1>11. QED
    BY <1>1, <1>3, <1>7, <1>8, <1>9, <1>10, TablesSpare

LEMMA DiscoverInterfaceTables ==
  ASSUME IInv, Tables, IInv', DiscoverInterface
  PROVE  Tables'
  <1> DEFINE n == Head(session.left)
             new == Missing(session.required, n)
  <1>1. /\ session.step = "discover" /\ session.left # <<>>
        /\ class' = WithConverted(class, ToSet(new))
        /\ session' = [session EXCEPT !.queue = @ \o new, !.left = Tail(@)]
        /\ files' = files /\ table' = table
    BY DEF DiscoverInterface
  <1>2. session.step \notin Ended
    BY <1>1 DEF Ended, Astray
  <1>3. files \in Worlds /\ ClassesIn(class, table) /\ ClosedIn(class, table, {})
    BY <1>1, <1>2 DEF IInv, Session, Ended
  <1>4. Discovering /\ DOMAIN session = DOMAIN Idle
    BY <1>1 DEF IInv, Session, Astray
  <1>5. session'.step = "discover"
    BY <1>1, <1>4 DEF Idle
  <1>6. n \in DOMAIN files
    BY <1>1, <1>4, HeadFacts DEF Discovering
  <1> HIDE DEF n
  <1>7. n \in Names /\ n # ArrayName /\ NoClass \notin InTable(table)
    BY <1>3, <1>6, FileFacts DEF Names, InTable
  <1>8. ConvertsFor(n, new)
    BY <1>3, <1>7, MissingKeeps
  <1> HIDE DEF new
  <1>9. QED
    BY <1>1, <1>5, <1>7, <1>8, ConversionTables

LEMMA DiscoverTables ==
  ASSUME IInv, Tables, IInv', Discover
  PROVE  Tables'
  <1> DEFINE c == Head(session.queue)
             r == <<c>> \o session.required
             super == FileOf(c).super
             parent == IF super = NoName THEN NoClass ELSE Parent(r, super)
             new == IF super = NoName THEN <<>> ELSE Missing(r, super)
  <1>1. /\ session.step = "discover" /\ session.queue # <<>>
        /\ class' = [WithConverted(class, ToSet(new)) EXCEPT ![c].parent = parent]
        /\ session' = [session EXCEPT !.queue = Tail(@) \o new, !.required = r, !.left = FileOf(c).ifaces]
        /\ files' = files /\ table' = table
    BY DEF Discover
  <1>2. session.step \notin Ended
    BY <1>1 DEF Ended, Astray
  <1>3. files \in Worlds /\ ClassesIn(class, table) /\ ClosedIn(class, table, {})
    BY <1>1, <1>2 DEF IInv, Session, Ended
  <1>4. Discovering /\ DOMAIN session = DOMAIN Idle
    BY <1>1 DEF IInv, Session, Astray
  <1>5. session'.step = "discover"
    BY <1>1, <1>4 DEF Idle
  <1>6. c \in DOMAIN class /\ c \in ToSet(session.queue)
    BY <1>1, <1>4, HeadFacts DEF Discovering
  <1>7. c \notin InTable(table)
    BY <1>3, <1>4, <1>6, TableFacts DEF Discovering, Unpublished
  <1>8. super \in DOMAIN files \cup {NoName}
    BY <1>3, <1>6, FileFacts DEF ClassesIn
  <1> HIDE DEF c, r
  <1>9. super # ArrayName /\ (super # NoName => super \in Names)
    BY <1>3, <1>8, FileFacts DEF Names, NoName, ArrayName
  <1>10. ConvertsFor(super, new)
    BY <1>3, <1>9, MissingKeeps, NothingConverts
  <1> HIDE DEF super, new, parent
  <1>11. QED
    BY <1>1, <1>5, <1>7, <1>9, <1>10, ConversionTables

\* What an interface extends is none of the tables of classes.
LEMMA PatchTables ==
  ASSUME IInv, Tables, IInv', PatchInterface
  PROVE  Tables'
  <1> DEFINE c == session.at
  <1>1. CASE GoesAstray("abort")
    BY <1>1, AstrayTables DEF Astray
  <1>2. CASE ~GoesAstray("abort")
    <2>1. /\ session.step = "patch" /\ session.at # IfaceList /\ files' = files
          /\ session' = [session EXCEPT !.at = PatchNext(c)]
          /\ IF class[c].linked THEN UNCHANGED <<class, table>>
             ELSE /\ class' = [class EXCEPT ![c].linked = TRUE, ![c].implements = Extended(c)]
                  /\ table' = [table EXCEPT ![NameOf(c)] = c]
                  /\ table[NameOf(c)] = NoClass
      BY <1>2 DEF PatchInterface
    <2>2. session.step \notin Ended
      BY <2>1 DEF Ended, Astray
    <2>3. /\ files \in Worlds /\ ClassesIn(class, table)
          /\ DOMAIN session = DOMAIN Idle /\ Patching
      BY <2>1, <2>2, RunningTables DEF IInv, Session, Ended
    <2>4. session'.step = "patch"
      BY <2>1, <2>3 DEF Idle
    <2>5. c \in Found
      BY <2>1, <2>3 DEF Patching
    <2>6. c \in DOMAIN class /\ IsInterface(c)
      <3>1. ToSet(session.required) \subseteq DOMAIN class
        BY <2>3 DEF Patching, AllDiscovered, ToSet
      <3>2. QED
        BY <2>5, <3>1 DEF Found
    <2> HIDE DEF c
    <2>7. CASE class[c].linked
      BY <2>1, <2>2, <2>4, <2>7, QuietTables
    <2>8. CASE ~class[c].linked
      <3>1. /\ class' = [class EXCEPT ![c].linked = TRUE, ![c].implements = Extended(c)]
            /\ table' = [table EXCEPT ![NameOf(c)] = c]
        BY <2>1, <2>8
      <3>2. \A x \in DOMAIN class : DOMAIN class[x] = ClassFields
        BY <2>3 DEF ClassesIn, Shaped
      <3>3. /\ DOMAIN class' = DOMAIN class
            /\ \A x \in DOMAIN class \ {c} : class'[x] = class[x]
            /\ class'[c].interfaceIndex = class[c].interfaceIndex
        BY <2>6, <3>1, <3>2 DEF ClassFields
      <3>4. \A x \in Concrete(table) : x \in DOMAIN class /\ x # c
        BY <2>3, <2>6, TableFacts DEF Concrete
      <3>5. SameTables(class, class', Concrete(table)) /\ SameNumbers(class, class')
        BY <3>3, <3>4 DEF SameTables, SameNumbers
      <3>6. InTable(table') \subseteq InTable(table) \cup {c}
        <4>1. DOMAIN table = Names
          BY <2>3 DEF ClassesIn
        <4>2. \A n \in Names : table'[n] = IF n = NameOf(c) THEN c ELSE table[n]
          BY <3>1, <4>1
        <4>3. QED
          BY <4>2 DEF InTable
      <3>7. Concrete(table') \subseteq Concrete(table)
        BY <2>6, <3>6 DEF Concrete
      <3>8. InTable(table) \subseteq DOMAIN class'
        BY <2>3, <3>3, TableFacts
      <3>9. QED
        BY <2>1, <2>2, <2>4, <3>5, <3>7, <3>8, TablesSpare
    <2>9. QED
      BY <2>7, <2>8
  <1>3. QED
    BY <1>1, <1>2

\* Steps that change what is not published only, and no numbers
LEMMA BuildTables ==
  ASSUME IInv, Tables, IInv', session.step \in Later, session.ancestry # <<>>,
         session'.step # "itable", UNCHANGED <<files, table>>, DOMAIN class' = DOMAIN class,
         \A c \in DOMAIN class : (c # ToLink => class'[c] = class[c])
                                 /\ class'[c].interfaceIndex = class[c].interfaceIndex
  PROVE  Tables'
  <1>1. session.step \notin Ended
    BY DEF Later, Ended, Astray
  <1>2. ClassesIn(class, table) /\ ToLink \notin InTable(table)
    BY LaterFacts, ToLinkFacts
  <1>3. InTable(table) \subseteq DOMAIN class /\ Concrete(table') = Concrete(table)
    BY <1>2, TableFacts DEF Concrete
  <1>4. \A c \in Concrete(table) : c \in DOMAIN class /\ c # ToLink
    BY <1>2, <1>3 DEF Concrete
  <1>5. SameTables(class, class', Concrete(table)) /\ SameNumbers(class, class')
    BY <1>4 DEF SameTables, SameNumbers
  <1>6. QED
    BY <1>1, <1>3, <1>5, TablesSpare

LEMMA FlattenEndTables ==
  ASSUME IInv, Tables, IInv', FlattenEnd
  PROVE  Tables'
  <1> DEFINE empty == [k \in 1..session.count |-> [interface |-> NoClass, vtableIndex |-> <<>>]]
  <1>1. /\ session.step = "flatten" /\ session.step \in Later /\ UNCHANGED <<files, table>>
        /\ \/ session' = LoopAt(links.next[IfaceDiscovery]) /\ UNCHANGED class
           \/ /\ class' = [class EXCEPT ![ToLink].implements = empty]
              /\ session' = [session EXCEPT !.step = "fill", !.at = links.next[IfaceRequired], !.count = 0]
    BY DEF FlattenEnd, Later
  <1>2. DOMAIN session = DOMAIN Idle /\ ClassesIn(class, table) /\ session.ancestry # <<>>
    BY <1>1, LaterFacts DEF LinkingOne
  <1>3. session'.step # "itable"
    BY <1>1, <1>2 DEF LoopAt, Idle
  <1> HIDE DEF empty
  <1>4. \A c \in DOMAIN class : DOMAIN class[c] = ClassFields
    BY <1>2 DEF ClassesIn, Shaped
  <1>5. /\ DOMAIN class' = DOMAIN class
        /\ \A c \in DOMAIN class : (c # ToLink => class'[c] = class[c])
                                  /\ class'[c].interfaceIndex = class[c].interfaceIndex
    BY <1>1, <1>4 DEF ClassFields
  <1>6. session.step \in Later /\ UNCHANGED <<files, table>> /\ session.ancestry # <<>>
    BY <1>1, <1>2
  <1>7. QED
    BY <1>3, <1>5, <1>6, BuildTables

LEMMA FillOneTables ==
  ASSUME IInv, Tables, IInv', FillOne
  PROVE  Tables'
  <1> DEFINE k == session.count + 1
  <1>1. CASE GoesAstray("lost")
    BY <1>1, AstrayTables DEF Astray
  <1>2. CASE ~GoesAstray("lost")
    <2>1. /\ session.step = "fill" /\ session.step \in Later /\ UNCHANGED <<files, table>>
          /\ k \in DOMAIN Implements
          /\ class' = [class EXCEPT ![ToLink].implements[k]["interface"] = session.at]
          /\ session' = [session EXCEPT !.at = links.next[session.at], !.count = k]
      BY <1>2 DEF FillOne, Implements, Later
    <2>2. DOMAIN session = DOMAIN Idle /\ session.ancestry # <<>>
      BY <2>1, LaterFacts DEF LinkingOne
    <2>3. session'.step = "fill"
      BY <2>1, <2>2 DEF Idle
    <2> HIDE DEF k
    <2>4. Changes(k, "interface", session.at, class')
      BY <2>1, <2>2, ImplementationKeeps
    <2>5. DOMAIN class' = DOMAIN class /\ \A c \in DOMAIN class : c # ToLink => class'[c] = class[c]
      BY <2>1
    <2>6. \A c \in DOMAIN class : class'[c].interfaceIndex = class[c].interfaceIndex
      BY <2>4 DEF Changes, ClassFields
    <2>7. QED
      BY <2>1, <2>2, <2>3, <2>5, <2>6, BuildTables
  <1>3. QED
    BY <1>1, <1>2

\* class_fixup of the members of a class changes no number of an interface's method.
LEMMA NumbersStay ==
  ASSUME NEW cl, NEW c \in DOMAIN cl, DOMAIN cl[c] = ClassFields
  PROVE  WithVtable(WithFields(cl, c), c)[c].interfaceIndex = cl[c].interfaceIndex
  <1> DEFINE offset == [i \in DOMAIN cl[c].offset |-> FixedOffset(cl, c, i)]
             size == cl[c].size + ParentSize(cl, c)
             fields == WithFields(cl, c)
             index == VtableIndices(fields, c)
             vtable == Vtable(fields, c)
  <1>1. fields = [cl EXCEPT ![c].offset = offset, ![c].size = size]
    BY DEF WithFields
  <1>2. \/ WithVtable(fields, c) = fields
        \/ WithVtable(fields, c) = [fields EXCEPT ![c].vtableIndex = index, ![c].vtable = vtable]
    BY DEF WithVtable
  <1> HIDE DEF offset, size, fields, index, vtable
  <1>3. /\ DOMAIN fields = DOMAIN cl /\ DOMAIN fields[c] = ClassFields
        /\ fields[c].interfaceIndex = cl[c].interfaceIndex
    BY <1>1 DEF ClassFields
  <1>4. WithVtable(fields, c)[c].interfaceIndex = fields[c].interfaceIndex
    BY <1>2, <1>3 DEF ClassFields
  <1>5. QED
    BY <1>3, <1>4 DEF fields

\* The class is laid out, its tables come next.
LEMMA FixupMembersTables ==
  ASSUME IInv, Tables, IInv', FixupMembers
  PROVE  Tables'
  <1> DEFINE all == [k \in DOMAIN class[ToLink].implements |-> k]
  <1>1. /\ session.step = "fixup" /\ session.step \in Later /\ UNCHANGED <<files, table>>
        /\ class' = WithVtable(WithFields(class, ToLink), ToLink)
        /\ session' = [session EXCEPT !.step = "itable", !.left = all]
    BY DEF FixupMembers, Later
  <1>2. session.step \notin Ended
    BY <1>1 DEF Ended, Astray
  <1>3. /\ files \in Worlds /\ ClassesIn(class, table) /\ IndexedIn(class) /\ ItablesIn(class, table)
        /\ DOMAIN session = DOMAIN Idle /\ session.ancestry # <<>>
    BY <1>1, <1>2, RunningTables, LaterFacts DEF LinkingOne
  <1>4. /\ ToLink \in DOMAIN class /\ ToLink \notin InTable(table) /\ DOMAIN class[ToLink] = ClassFields
    BY <1>1, <1>3, ToLinkFacts
  <1>5. /\ session'.step = "itable" /\ session'.ancestry = session.ancestry /\ session'.left = all
    BY <1>1, <1>3 DEF Idle
  <1>6. ToLink' = ToLink
    BY <1>5 DEF ToLink
  <1>7. /\ DOMAIN class' = DOMAIN class
        /\ \A c \in DOMAIN class \ {ToLink} : class'[c] = class[c]
        /\ class'[ToLink].implements = class[ToLink].implements
        /\ class'[ToLink].interfaceIndex = class[ToLink].interfaceIndex
    BY <1>1, <1>4, MembersKeep, NumbersStay DEF SameButMembers
  <1>8. InTable(table) \subseteq DOMAIN class
    BY <1>3, TableFacts
  <1>9. SameTables(class, class', Concrete(table)) /\ SameNumbers(class, class')
    BY <1>4, <1>7, <1>8 DEF SameTables, SameNumbers, Concrete
  <1>10. Parents(class')
    BY <1>1, <1>5, RunningAfter DEF Ended, Astray
  <1>11. \E found : ClosedIn(class, table, found)
    BY <1>2, RunningTables
  <1>12. IndexedIn(class') /\ ItablesIn(class', table)
    BY <1>3, <1>7, <1>8, <1>9, <1>10, <1>11, ItablesKeep
  <1>13. \A k \in DOMAIN Implements' : k \in ToSet(session'.left)
    <2>1. DOMAIN Implements' = DOMAIN all /\ \A k \in DOMAIN all : all[k] = k
      BY <1>6, <1>7 DEF Implements
    <2> HIDE DEF all
    <2>2. QED
      BY <1>5, <2>1 DEF ToSet
  <1>14. IndexedIn(class)' /\ ItablesIn(class, table)'
    BY <1>1, <1>12, TablesFilesStay
  <1>15. QED
    BY <1>13, <1>14 DEF Tables

\* The number of a virtual method of an interface among them, and back
LEMMA InterfaceNumbers ==
  ASSUME files \in Worlds, NEW c, NameOf(c) \in Names
  PROVE  /\ Cardinality(Virtuals(c)) \in Nat
         /\ \A i \in Virtuals(c) : InterfaceIndex(c, i) \in 1..Cardinality(Virtuals(c))
         /\ \A i, j \in Virtuals(c) : InterfaceIndex(c, i) = InterfaceIndex(c, j) => i = j
  <1>1. PICK n \in Nat : DOMAIN FileOf(c).methods = 1..n
    BY MethodFacts
  <1> DEFINE S == Virtuals(c)
  <1>2. S \in SUBSET (1..n)
    BY <1>1 DEF Virtuals
  <1>3. \A i \in S : InterfaceIndex(c, i) = Rank(S, i)
    BY DEF InterfaceIndex, Rank
  <1> HIDE DEF S
  <1>4. /\ Cardinality(S) \in Nat
        /\ \A i \in S : Rank(S, i) \in 1..Cardinality(S)
        /\ \A i, j \in S : Rank(S, i) = Rank(S, j) => i = j
    BY <1>2, Ranks
  <1>5. QED
    BY <1>3, <1>4 DEF S

\* The table class_fixup makes is right.
LEMMA ItableBuilt ==
  ASSUME files \in Worlds, NEW cl, NEW new, Parents(cl), Parents(new), DOMAIN new = DOMAIN cl,
         \A d \in DOMAIN cl : new[d].parent = cl[d].parent /\ new[d].vtableIndex = cl[d].vtableIndex,
         NEW c \in DOMAIN cl, NEW k, NEW i \in DOMAIN cl, NameOf(i) \in Names,
         new[c].implements[k].interface = i,
         new[c].implements[k].vtableIndex = ImplementationIndices(cl, c, i),
         \A m \in Virtuals(i) : new[i].interfaceIndex[m] = InterfaceIndex(i, m),
         ~Misses(cl, c, i)
  PROVE  ItableIn(new, c, k)
  <1> DEFINE Name(m) == FileOf(i).methods[m].name
             N == 1..Cardinality(Virtuals(i))
             At(n) == CHOOSE m \in Virtuals(i) : InterfaceIndex(i, m) = n
             indices == ImplementationIndices(cl, c, i)
  <1>1. indices = [n \in N |-> ImplementationIndex(cl, c, Name(At(n)))]
    BY DEF ImplementationIndices
  <1>2. ASSUME NEW m \in Virtuals(i)
        PROVE  /\ InterfaceIndex(i, m) \in N /\ At(InterfaceIndex(i, m)) = m
    BY InterfaceNumbers
  <1>3. ASSUME NEW m \in Virtuals(i)
        PROVE  indices[InterfaceIndex(i, m)] = ImplementationIndex(cl, c, Name(m))
    BY <1>1, <1>2
  <1>4. ClosedUp(cl, DOMAIN cl)
    BY DEF ClosedUp, Parents
  <1>5. ASSUME NEW m \in Virtuals(i)
        PROVE  /\ FindMethod(new, c, Name(m)) # NoMethod
               /\ ImplementationIndex(new, c, Name(m)) = ImplementationIndex(cl, c, Name(m))
    <2> DEFINE name == Name(m)
    <2>1. FindMethod(cl, c, name) # NoMethod
      BY DEF Misses
    <2> HIDE DEF name
    <2>2. FindMethod(new, c, name) = FindMethod(cl, c, name)
      BY <1>4, FindKeeps
    <2>3. PICK d \in ToSet(Chain(cl, c)) : FindMethod(cl, c, name) = <<d, MethodNumber(d, name)>>
      BY <2>1, FindMethodFacts
    <2>4. d \in DOMAIN cl
      BY <1>4, ChainStaysIn DEF ClosedUp
    <2>5. ImplementationIndex(new, c, name) = ImplementationIndex(cl, c, name)
      BY <2>2, <2>3, <2>4 DEF ImplementationIndex
    <2>6. QED
      BY <2>1, <2>2, <2>5 DEF name
  <1>6. DOMAIN indices = N
    BY <1>1
  <1> HIDE DEF indices
  <1>7. /\ new[c].implements[k].interface = i /\ new[c].implements[k].vtableIndex = indices
    BY DEF indices
  <1>8. QED
    BY <1>3, <1>5, <1>6, <1>7 DEF ItableIn

\* One implementation gets its table, and the methods of its interface their numbers.
LEMMA FixupImplementationTables ==
  ASSUME IInv, Tables, IInv', FixupImplementation
  PROVE  Tables'
  <1> DEFINE k == Head(session.left)
             i == Implements[k].interface
  <1>1. CASE GoesAstray("crash")
    BY <1>1, AstrayTables DEF Astray
  <1>2. CASE ~GoesAstray("crash")
    <2> DEFINE indices == ImplementationIndices(class, ToLink, i)
               numbers == InterfaceIndices(class, i)
               half == [class EXCEPT ![ToLink].implements[k]["vtableIndex"] = indices]
    <2>1. /\ class' = [half EXCEPT ![i].interfaceIndex = numbers]
           /\ session' = [session EXCEPT !.left = Tail(@)]
      BY <1>2, ZenonT(60) DEF FixupImplementation, WithImplementation, Implements
    <2> HIDE DEF indices, numbers, half
    <2>2. /\ session.step = "itable" /\ session.step \in Later /\ UNCHANGED <<files, table>>
          /\ session.left # <<>> /\ i # NoClass /\ IsInterface(i) /\ ~Misses(class, ToLink, i)
          /\ session' = [session EXCEPT !.left = Tail(@)]
      BY <1>2, <2>1 DEF FixupImplementation, Later, Implements
    <2>3. numbers = [m \in DOMAIN class[i].interfaceIndex |->
                       IF Virtual(i, m) THEN InterfaceIndex(i, m) ELSE class[i].interfaceIndex[m]]
      BY DEF InterfaceIndices, numbers
    <2>4. session.step \notin Ended
      BY <2>2 DEF Ended, Astray
    <2>5. /\ files \in Worlds /\ DOMAIN session = DOMAIN Idle /\ session.ancestry # <<>>
          /\ ClassesIn(class, table) /\ ClosedIn(class, table, {})
          /\ session.left \in Seq(DOMAIN Implements)
          /\ \A j \in DOMAIN Implements : Implements[j].interface \in DOMAIN class \cup {NoClass}
      BY <2>2, LaterFacts DEF LinkingOne
    <2>6. /\ IndexedIn(class) /\ ItablesIn(class, table)
          /\ \A j \in DOMAIN Implements : j \in ToSet(session.left) \/ ItableIn(class, ToLink, j)
      BY <2>2, <2>4 DEF Tables
    <2>7. /\ session'.step = "itable" /\ session'.ancestry = session.ancestry
          /\ session'.left = Tail(session.left)
      BY <2>2, <2>5 DEF Idle
    <2>8. k \in DOMAIN Implements /\ ToSet(session.left) = {k} \cup ToSet(Tail(session.left))
      BY <2>2, <2>5, HeadFacts
    <2>9. /\ ToLink \in DOMAIN class /\ ~IsInterface(ToLink) /\ ToLink \notin InTable(table)
      BY <2>2, <2>5, ToLinkFacts
    <2>10. i \in DOMAIN class /\ i # ToLink /\ NameOf(i) \in Names
      BY <2>2, <2>5, <2>8, <2>9 DEF ClassesIn
    <2>11. \A m \in Virtuals(i) : m \in DOMAIN class[i].interfaceIndex /\ Virtual(i, m)
      BY <2>6, <2>10 DEF IndexedIn, Virtuals
    <2> HIDE DEF k, i
    <2>12. DOMAIN numbers = DOMAIN class[i].interfaceIndex /\ \A m \in Virtuals(i) : numbers[m] = InterfaceIndex(i, m)
      BY <2>3, <2>11
    <2>13. Changes(k, "vtableIndex", indices, half)
      BY <2>2, <2>5, <2>8, ImplementationKeeps DEF half
    <2>14. /\ DOMAIN half = DOMAIN class /\ \A c \in DOMAIN class : DOMAIN half[c] = ClassFields
           /\ \A c \in DOMAIN class : \A f \in ClassFields : c # ToLink \/ f # "implements" => half[c][f] = class[c][f]
      BY <2>13 DEF Changes, Shaped
    <2>15. /\ DOMAIN class' = DOMAIN class
           /\ \A c \in DOMAIN class : \A f \in ClassFields \ {"interfaceIndex"} : class'[c][f] = half[c][f]
           /\ \A c \in DOMAIN class \ {i} : class'[c].interfaceIndex = half[c].interfaceIndex
           /\ class'[i].interfaceIndex = numbers
      BY <2>10, <2>14, <2>1 DEF ClassFields
    <2>16. /\ \A c \in DOMAIN class : /\ class'[c].parent = class[c].parent
                                      /\ class'[c].vtableIndex = class[c].vtableIndex
           /\ \A c \in DOMAIN class \ {i} : class'[c].interfaceIndex = class[c].interfaceIndex
           /\ \A c \in DOMAIN class \ {ToLink} : class'[c].implements = class[c].implements
           /\ class'[ToLink].implements = half[ToLink].implements
      BY <2>9, <2>14, <2>15 DEF ClassFields
    <2>17. /\ DOMAIN half[ToLink].implements = DOMAIN Implements
           /\ \A j \in DOMAIN Implements :
                /\ half[ToLink].implements[j].interface = Implements[j].interface
                /\ half[ToLink].implements[j].vtableIndex = IF j = k THEN indices ELSE Implements[j].vtableIndex
      BY <2>13 DEF Changes
    <2>18. \A j \in DOMAIN Implements \ {k} : half[ToLink].implements[j] = Implements[j]
      <3>1. /\ \A j \in DOMAIN Implements : DOMAIN Implements[j] = {"interface", "vtableIndex"}
            /\ half = [class EXCEPT ![ToLink].implements = [Implements EXCEPT ![k]["vtableIndex"] = indices]]
        BY <2>5, <2>9 DEF ClassesIn, Shaped, Implements, half
      <3>2. half[ToLink].implements = [Implements EXCEPT ![k]["vtableIndex"] = indices]
        BY <2>5, <2>9, <3>1 DEF ClassesIn, Shaped, ClassFields
      <3>3. QED
        BY <3>2
    <2>19. \A d \in DOMAIN class : \A m \in Virtuals(d) :
             class'[d].interfaceIndex[m] \in {class[d].interfaceIndex[m], InterfaceIndex(d, m)}
      BY <2>12, <2>15, <2>16
    <2>20. IndexedIn(class')
      BY <2>6, <2>12, <2>15, <2>16 DEF IndexedIn
    <2>21. Parents(class) /\ Parents(class')
      BY <2>2, <2>5, <2>7, ParentsAreAcyclic, RunningAfter DEF Ended, Astray
    <2>22. ItablesIn(class', table)
      <3> SUFFICES ASSUME NEW c \in Concrete(table), NEW j \in DOMAIN class'[c].implements
                   PROVE  ItableIn(class', c, j)
        BY DEF ItablesIn
      <3>1. Concrete(table) \subseteq DOMAIN class /\ ClosedUp(class, Concrete(table))
        BY <2>5, TableFacts, ConcreteFacts DEF Concrete
      <3>2. c \in DOMAIN class \ {ToLink} /\ class'[c].implements = class[c].implements
        BY <2>9, <2>16, <3>1 DEF Concrete
      <3>3. ItableIn(class, c, j)
        BY <2>6, <3>2 DEF ItablesIn
      <3>4. class[c].implements[j].interface \in DOMAIN class
        BY <3>3 DEF ItableIn
      <3>5. QED
        BY <2>15, <2>16, <2>19, <2>21, <3>1, <3>2, <3>3, <3>4, ItableKeeps
    <2>23. ASSUME NEW j \in DOMAIN Implements, j \notin ToSet(Tail(session.left))
           PROVE  ItableIn(class', ToLink, j)
      <3>1. CASE j = k
        <4>1. /\ class'[ToLink].implements[j].interface = i
              /\ class'[ToLink].implements[j].vtableIndex = indices
          BY <2>8, <2>16, <2>17, <3>1 DEF i
        <4>2. \A m \in Virtuals(i) : class'[i].interfaceIndex[m] = InterfaceIndex(i, m)
          BY <2>12, <2>15
        <4>3. class'[ToLink].implements[j].vtableIndex = ImplementationIndices(class, ToLink, i)
          BY <4>1 DEF indices
        <4>4. DOMAIN class' = DOMAIN class /\ files \in Worlds
          BY <2>5, <2>15
        <4>5. \A d \in DOMAIN class : /\ class'[d].parent = class[d].parent
                                      /\ class'[d].vtableIndex = class[d].vtableIndex
          BY <2>16
        <4>6. QED
          BY <2>2, <2>9, <2>10, <2>21, <4>1, <4>2, <4>3, <4>4, <4>5, ItableBuilt
      <3>2. CASE j # k
        <4>1. ItableIn(class, ToLink, j)
          BY <2>6, <2>8, <2>23, <3>2
        <4>2. class'[ToLink].implements[j] = class[ToLink].implements[j]
          BY <2>16, <2>18, <3>2 DEF Implements
        <4>3. class[ToLink].implements[j].interface \in DOMAIN class
          BY <4>1 DEF ItableIn
        <4>4. ClosedUp(class, DOMAIN class)
          BY <2>5, ConcreteFacts
        <4>5. QED
          BY <2>9, <2>15, <2>16, <2>19, <2>21, <4>1, <4>2, <4>3, <4>4, ItableKeeps
      <3>3. QED
        BY <3>1, <3>2
    <2>24. ToLink' = ToLink /\ DOMAIN Implements' = DOMAIN Implements
      BY <2>7, <2>16, <2>17 DEF ToLink, Implements
    <2>25. /\ IndexedIn(class)' /\ ItablesIn(class, table)'
           /\ \A j : ItableIn(class', ToLink, j) => ItableIn(class, ToLink, j)'
      <3>1. \A j : ItableIn(class, ToLink, j)' <=> ItableIn(class', ToLink', j)
        BY <2>2, TablesFilesStay
      <3>2. /\ IndexedIn(class)' <=> IndexedIn(class')
            /\ ItablesIn(class, table)' <=> ItablesIn(class', table')
        BY <2>2, TablesFilesStay
      <3>3. QED
        BY <2>2, <2>20, <2>22, <2>24, <3>1, <3>2
    <2>26. QED
      BY <2>7, <2>23, <2>24, <2>25 DEF Tables
  <1>3. QED
    BY <1>1, <1>2

----------------------------------------------------------------------------
(* Publication, and the end of a session *)

\* What a session leaves has the tables it had.
LEMMA EndTables ==
  ASSUME files \in Worlds, files' = files, IInv', NEW cl, NEW l,
         ClassesIn(cl, table'), ClosedIn(cl, table', {}), IndexedIn(cl), ItablesIn(cl, table'),
         Fail(cl, table', l) \/ End(cl, table', l)
  PROVE  Tables'
  <1>1. CASE session' = [Idle EXCEPT !.step = "exited"]
    <2>1. session'.step \in Ended
      BY <1>1 DEF Idle, Ended
    <2>2. QED
      BY <2>1 DEF Tables
  <1>2. CASE End(cl, table', l)
    <2> DEFINE tbl == table'
               rest == DOMAIN class'
    <2>1. /\ session' = Idle /\ rest \subseteq DOMAIN cl /\ InTable(tbl) \subseteq rest
          /\ \A c \in rest : class'[c] = cl[c]
      BY <1>2, EndKeeps
    <2>2. session'.step = "idle"
      BY <2>1 DEF Idle
    <2>3. Parents(class')
      BY <2>2, RunningAfter DEF Ended, Astray
    <2>4. SameTables(cl, class', Concrete(tbl)) /\ SameNumbers(cl, class')
      BY <2>1 DEF SameTables, SameNumbers, Concrete
    <2>5. IndexedIn(class') /\ ItablesIn(class', tbl)
      BY <2>1, <2>3, <2>4, ItablesKeep
    <2>6. QED
      BY <2>2, <2>5, TablesAtRest
  <1>3. QED
    BY <1>1, <1>2 DEF Fail

\* All tables stay right while all classes keep theirs.
LEMMA SameTablesKeep ==
  ASSUME NEW cl, Parents(cl), NEW new, Parents(new), DOMAIN new = DOMAIN cl,
         SameTables(cl, new, DOMAIN cl), SameNumbers(cl, new)
  PROVE  /\ IndexedIn(cl) => IndexedIn(new)
         /\ \A c \in DOMAIN cl : \A k : ItableIn(cl, c, k) => ItableIn(new, c, k)
  <1>1. ClosedUp(cl, DOMAIN cl)
    BY DEF ClosedUp, Parents
  <1>2. ASSUME NEW c \in DOMAIN cl, NEW k, ItableIn(cl, c, k)
        PROVE  ItableIn(new, c, k)
    <2>1. cl[c].implements[k].interface \in DOMAIN cl
      BY <1>2 DEF ItableIn
    <2>2. \A d \in DOMAIN cl : new[d].interfaceIndex = cl[d].interfaceIndex
      BY DEF SameNumbers
    <2>3. QED
      BY <1>1, <1>2, <2>1, <2>2, ItableKeeps DEF SameTables
  <1>3. QED
    BY <1>2 DEF IndexedIn, SameNumbers

\* A flag of a class changes no table.
LEMMA FlagsKeepTables ==
  ASSUME NEW cl, Shaped(cl), NEW c
  PROVE  \A new \in {WithLinked(cl, c), WithObject(cl, c)} :
           DOMAIN new = DOMAIN cl /\ SameTables(cl, new, DOMAIN cl) /\ SameNumbers(cl, new)
  <1>1. \A d \in DOMAIN cl : DOMAIN cl[d] = ClassFields
    BY DEF Shaped
  <1> DEFINE linked == [cl EXCEPT ![c].linked = TRUE]
             object == [cl EXCEPT ![c].object = TRUE]
  <1>2. DOMAIN linked = DOMAIN cl /\ SameTables(cl, linked, DOMAIN cl) /\ SameNumbers(cl, linked)
    BY <1>1 DEF SameTables, SameNumbers, ClassFields
  <1>3. DOMAIN object = DOMAIN cl /\ SameTables(cl, object, DOMAIN cl) /\ SameNumbers(cl, object)
    BY <1>1 DEF SameTables, SameNumbers, ClassFields
  <1>4. QED
    BY <1>2, <1>3 DEF WithLinked, WithObject

LEMMA FlagTables ==
  ASSUME files \in Worlds, NEW cl, NEW tbl, NEW c, ClassesIn(cl, tbl), IndexedIn(cl), ItablesIn(cl, tbl),
         ClassesIn(WithObject(cl, c), tbl)
  PROVE  IndexedIn(WithObject(cl, c)) /\ ItablesIn(WithObject(cl, c), tbl)
  <1> DEFINE new == WithObject(cl, c)
  <1>1. DOMAIN new = DOMAIN cl /\ SameTables(cl, new, DOMAIN cl) /\ SameNumbers(cl, new)
    BY FlagsKeepTables DEF ClassesIn
  <1>2. Parents(cl) /\ Parents(new)
    BY ParentsAreAcyclic
  <1>3. Concrete(tbl) \subseteq DOMAIN cl
    BY TableFacts DEF Concrete
  <1> HIDE DEF new
  <1>4. /\ IndexedIn(new)
        /\ \A d \in DOMAIN cl : \A k : ItableIn(cl, d, k) => ItableIn(new, d, k)
    BY <1>1, <1>2, SameTablesKeep
  <1>5. \A d \in DOMAIN cl : new[d].implements = cl[d].implements
    BY <1>1 DEF SameTables
  <1>6. ItablesIn(new, tbl)
    BY <1>3, <1>4, <1>5 DEF ItablesIn
  <1>7. QED
    BY <1>4, <1>6 DEF new

\* The class that is linked is published with the tables class_fixup made.
LEMMA ToLinkTables ==
  ASSUME IInv, Tables, MayBePublished, table[NameOf(ToLink)] = NoClass
  PROVE  /\ IndexedIn(WithLinked(class, ToLink))
         /\ ItablesIn(WithLinked(class, ToLink), Published(ToLink))
  <1> DEFINE cl == WithLinked(class, ToLink)
             tbl == Published(ToLink)
  <1>1. /\ LinkedIn(cl, tbl) /\ ToLink \in DOMAIN class /\ files \in Worlds
    BY ToLinkPublished
  <1>2. session.step = "itable" /\ session.step \notin Ended /\ ToSet(session.left) = {}
    BY DEF MayBePublished, Ended, Astray, ToSet
  <1>3. /\ ClassesIn(class, table) /\ IndexedIn(class) /\ ItablesIn(class, table)
        /\ \A k \in DOMAIN Implements : ItableIn(class, ToLink, k)
    BY <1>2, RunningTables DEF Tables
  <1>4. InTable(tbl) \subseteq InTable(table) \cup {ToLink}
    BY DEF Published, InTable
  <1>5. DOMAIN cl = DOMAIN class /\ SameTables(class, cl, DOMAIN class) /\ SameNumbers(class, cl)
    BY <1>3, FlagsKeepTables DEF ClassesIn
  <1>6. Parents(class) /\ Parents(cl)
    BY <1>1, <1>3, ParentsAreAcyclic DEF LinkedIn
  <1> HIDE DEF cl, tbl
  <1>7. /\ IndexedIn(cl)
        /\ \A c \in DOMAIN class : \A k : ItableIn(class, c, k) => ItableIn(cl, c, k)
    BY <1>3, <1>5, <1>6, SameTablesKeep
  <1>8. ASSUME NEW c \in Concrete(tbl), NEW k \in DOMAIN cl[c].implements
        PROVE  ItableIn(cl, c, k)
    <2>1. c \in DOMAIN class /\ cl[c].implements = class[c].implements
      BY <1>1, <1>3, <1>4, <1>5, <1>8, TableFacts DEF SameTables, Concrete
    <2>2. ItableIn(class, c, k)
      BY <1>3, <1>4, <1>8, <2>1 DEF ItablesIn, Concrete, Implements
    <2>3. QED
      BY <1>7, <2>1, <2>2
  <1>9. QED
    BY <1>7, <1>8 DEF ItablesIn, cl, tbl

LEMMA FixupTables ==
  ASSUME IInv, Tables, IInv', Fixup
  PROVE  Tables'
  <1> DEFINE cl == WithLinked(class, ToLink)
  <1>1. /\ MayBePublished /\ table[NameOf(ToLink)] = NoClass
        /\ table' = Published(ToLink) /\ files' = files
        /\ \/ /\ class' = WithObject(cl, ToLink)
              /\ session' = [session EXCEPT !.ancestry = Tail(@), !.step = "link"]
           \/ Fail(cl, table', links)
    BY DEF Fixup
  <1>2. LinkedIn(cl, table') /\ files \in Worlds /\ session.step \in Later
    BY <1>1, ToLinkPublished
  <1>3. IndexedIn(cl) /\ ItablesIn(cl, table')
    BY <1>1, ToLinkTables
  <1> HIDE DEF cl
  <1>4. ClassesIn(cl, table') /\ ClosedIn(cl, table', {})
    BY <1>2 DEF LinkedIn
  <1>5. CASE Fail(cl, table', links)
    BY <1>1, <1>2, <1>3, <1>4, <1>5, EndTables
  <1>6. CASE /\ class' = WithObject(cl, ToLink)
             /\ session' = [session EXCEPT !.ancestry = Tail(@), !.step = "link"]
    <2>1. session'.step = "link"
      BY <1>2, <1>6, LaterFacts DEF Idle
    <2>2. ClassesIn(class', table')
      BY <1>1, <2>1, RunningAfter DEF Ended, Astray
    <2>3. IndexedIn(class') /\ ItablesIn(class', table')
      BY <1>2, <1>3, <1>4, <1>6, <2>2, FlagTables
    <2>4. QED
      BY <1>1, <2>1, <2>3, TablesAtRest
  <1>7. QED
    BY <1>1, <1>5, <1>6

\* java/lang/Class implements nothing here.
LEMMA JlClassTables ==
  ASSUME files \in Worlds, NEW cl, NEW tbl, NEW j,
         ClassesIn(cl, tbl), ClosedIn(cl, tbl, {}), InterfacesIn(cl, tbl),
         IndexedIn(cl), ItablesIn(cl, tbl),
         IsPair(j), NameOf(j) = JlClass, j \notin DOMAIN cl, tbl[JlClass] = NoClass
  PROVE  LET child == [WithConverted(cl, {j}) EXCEPT ![j].parent = tbl[Object]]
             new == WithObject(WithLinked(WithVtable(WithFields(child, j), j), j), j)
         IN  IndexedIn(new) /\ ItablesIn(new, [tbl EXCEPT ![JlClass] = j])
  <1> DEFINE child == [WithConverted(cl, {j}) EXCEPT ![j].parent = tbl[Object]]
             fixed == WithVtable(WithFields(child, j), j)
             linked == WithLinked(fixed, j)
             new == WithObject(linked, j)
             published == [tbl EXCEPT ![JlClass] = j]
  <1>1. IsChild(cl, tbl, j, child)
    BY JlClassConverts
  <1>2. AddsJlClass(cl, tbl, j, new, published)
    BY JlClassKeeps
  <1> HIDE DEF child
  <1>3. /\ DOMAIN child = DOMAIN cl \cup {j} /\ \A d \in DOMAIN cl : child[d] = cl[d]
        /\ child[j].implements = <<>> /\ child[j].interfaceIndex = Converted(JlClass).interfaceIndex
        /\ ClassesIn(child, tbl)
    BY <1>1 DEF IsChild
  <1>4. DOMAIN child[j].interfaceIndex = DOMAIN FileOf(j).methods
    <2>1. FileOf(j) = files[JlClass]
      BY FileFacts DEF FileOf
    <2>2. DOMAIN Converted(JlClass).interfaceIndex = DOMAIN files[JlClass].methods
      BY DEF Converted
    <2>3. QED
      BY <1>3, <2>1, <2>2
  <1>5. DOMAIN child[j] = ClassFields
    BY <1>3 DEF ClassesIn, Shaped
  <1>6. SameButMembers(j, child, fixed) /\ fixed[j].interfaceIndex = child[j].interfaceIndex
    BY <1>3, <1>5, MembersKeep, NumbersStay
  <1>7. ClassesIn(fixed, tbl)
    BY <1>3, <1>5, <1>6, SameMembersKeep, TableFacts
  <1> HIDE DEF fixed
  <1>8. /\ DOMAIN fixed = DOMAIN cl \cup {j} /\ \A d \in DOMAIN cl : fixed[d] = cl[d]
        /\ fixed[j].implements = <<>> /\ DOMAIN fixed[j].interfaceIndex = DOMAIN FileOf(j).methods
    BY <1>3, <1>4, <1>6 DEF SameButMembers
  <1>9. /\ DOMAIN linked = DOMAIN fixed /\ SameTables(fixed, linked, DOMAIN fixed)
        /\ SameNumbers(fixed, linked)
    BY <1>7, FlagsKeepTables DEF ClassesIn
  <1>10. Shaped(linked)
    <2>1. \A d \in DOMAIN fixed : DOMAIN fixed[d] = ClassFields
      BY <1>7 DEF ClassesIn, Shaped
    <2>2. \A d \in DOMAIN fixed : DOMAIN linked[d] = ClassFields /\ linked[d].implements = fixed[d].implements
      BY <2>1 DEF WithLinked, ClassFields
    <2>3. QED
      BY <1>7, <1>9, <2>2 DEF ClassesIn, Shaped
  <1> HIDE DEF linked
  <1>11. /\ DOMAIN new = DOMAIN linked /\ SameTables(linked, new, DOMAIN linked)
         /\ SameNumbers(linked, new)
    BY <1>10, FlagsKeepTables
  <1>12. /\ ClassesIn(new, published) /\ InTable(published) = InTable(tbl) \cup {j}
    BY <1>2 DEF AddsJlClass
  <1>13. Parents(new)
    BY <1>12, ParentsAreAcyclic
  <1> HIDE DEF new, published
  <1>14. /\ DOMAIN new = DOMAIN cl \cup {j}
         /\ \A d \in DOMAIN cl :
              /\ new[d].parent = cl[d].parent /\ new[d].vtableIndex = cl[d].vtableIndex
              /\ new[d].implements = cl[d].implements
              /\ new[d].interfaceIndex = cl[d].interfaceIndex
         /\ new[j].implements = <<>> /\ DOMAIN new[j].interfaceIndex = DOMAIN FileOf(j).methods
    BY <1>8, <1>9, <1>11 DEF SameTables, SameNumbers
  <1>15. InTable(tbl) \subseteq DOMAIN cl /\ InTable(tbl) \subseteq DOMAIN new
    BY <1>14, TableFacts
  <1>16. SameTables(cl, new, Concrete(tbl)) /\ SameNumbers(cl, new)
    BY <1>14, <1>15 DEF SameTables, SameNumbers, Concrete
  <1>17. IndexedIn(new) /\ ItablesIn(new, tbl)
    BY <1>13, <1>15, <1>16, ItablesKeep
  <1>18. ItablesIn(new, published)
    <2>1. Concrete(published) \subseteq Concrete(tbl) \cup {j}
      BY <1>12 DEF Concrete
    <2>2. DOMAIN new[j].implements = {}
      BY <1>14
    <2>3. QED
      BY <1>17, <2>1, <2>2 DEF ItablesIn
  <1>19. QED
    BY <1>17, <1>18 DEF new, linked, fixed, child, published

LEMMA FixupFirstTables ==
  ASSUME IInv, Tables, IInv', FixupFirst
  PROVE  Tables'
  <1> DEFINE j == Fresh(JlClass)
             cl == WithLinked(class, ToLink)
             tbl == Published(ToLink)
  <1>1. /\ MayBePublished /\ table[NameOf(ToLink)] = NoClass /\ files' = files
    BY DEF FixupFirst
  <1>2. /\ LinkedIn(cl, tbl) /\ DOMAIN cl = DOMAIN class
        /\ session.step \in Later /\ files \in Worlds
    BY <1>1, ToLinkPublished
  <1>3. IndexedIn(cl) /\ ItablesIn(cl, tbl)
    BY <1>1, ToLinkTables
  <1>4. ClassesIn(cl, tbl) /\ ClosedIn(cl, tbl, {}) /\ InterfacesIn(cl, tbl)
    BY <1>2 DEF LinkedIn
  <1>5. CASE table' = tbl /\ Fail(cl, table', links)
    <2> HIDE DEF cl, tbl
    <2>1. QED
      BY <1>1, <1>2, <1>3, <1>4, <1>5, EndTables
  <1>6. CASE /\ tbl[JlClass] = NoClass
             /\ table' = [tbl EXCEPT ![JlClass] = j]
             /\ class' = WithObject(WithJlClass(cl, j), ToLink)
             /\ session' = [session EXCEPT !.ancestry = Tail(@), !.step = "link"]
    <2>1. IsPair(j) /\ NameOf(j) = JlClass /\ j \notin DOMAIN class
      BY <1>2, LaterFacts, FreshFacts DEF ClassesIn
    <2> DEFINE both == WithJlClass(cl, j)
               child == [WithConverted(cl, {j}) EXCEPT ![j].parent = tbl[Object]]
               built == WithObject(WithLinked(WithVtable(WithFields(child, j), j), j), j)
               published == [tbl EXCEPT ![JlClass] = j]
    <2>2. both = built
      BY DEF WithJlClass
    <2> HIDE DEF j, cl, tbl, both
    <2>3. AddsJlClass(cl, tbl, j, built, published)
      BY <1>2, <1>4, <1>6, <2>1, JlClassKeeps
    <2>4. IndexedIn(built) /\ ItablesIn(built, published)
      BY <1>2, <1>3, <1>4, <1>6, <2>1, JlClassTables
    <2> HIDE DEF built, published
    <2>5. ClassesIn(both, published) /\ IndexedIn(both) /\ ItablesIn(both, published)
      BY <2>2, <2>3, <2>4 DEF AddsJlClass
    <2>6. class' = WithObject(both, ToLink) /\ table' = published
      BY <1>6 DEF both, published
    <2>7. session'.step = "link"
      BY <1>2, <1>6, LaterFacts DEF Idle
    <2>8. ClassesIn(class', table')
      BY <1>1, <2>7, RunningAfter DEF Ended, Astray
    <2>9. IndexedIn(class') /\ ItablesIn(class', table')
      BY <1>2, <2>5, <2>6, <2>8, FlagTables
    <2>10. QED
      BY <1>1, <2>7, <2>9, TablesAtRest
  <1>7. QED
    BY <1>5, <1>6 DEF FixupFirst

\* Sessions that fail, or have linked all their classes
LEMMA EndingTables ==
  ASSUME IInv, Tables, IInv', DiscoverFails \/ FixupFails \/ Linked
  PROVE  Tables'
  <1>1. /\ session.step \notin Ended /\ session.step # "patch" /\ files' = files /\ table' = table
        /\ Fail(class, table', links) \/ End(class, table', links)
    BY DEF DiscoverFails, FixupFails, Linked, TableAfterFailure, Ended, Astray
  <1>2. /\ files \in Worlds /\ ClassesIn(class, table) /\ ClosedIn(class, table, {})
        /\ IndexedIn(class) /\ ItablesIn(class, table)
    BY <1>1, RunningTables DEF IInv, Session, Ended
  <1>3. QED
    BY <1>1, <1>2, EndTables

\* An array class implements nothing.
LEMMA LoadArrayTables ==
  ASSUME IInv, Tables, IInv', LoadArray
  PROVE  Tables'
  <1> DEFINE c == <<ArrayName, 1>>
             array == [Converted(Object) EXCEPT
                         !.parent = table[Object], !.linked = TRUE, !.object = TRUE,
                         !.vtable = class[table[Object]].vtable, !.vtableIndex = <<>>,
                         !.interfaceIndex = <<>>, !.offset = <<>>,
                         !.size = class[table[Object]].size]
  <1>1. /\ session.step = "idle" /\ table[ArrayName] = NoClass
        /\ class' = Added(class, {c}, LAMBDA d : array)
        /\ table' = [table EXCEPT ![ArrayName] = c] /\ files' = files /\ session' = session
    BY DEF LoadArray
  <1>2. session.step \notin Ended /\ session'.step \notin Ended /\ session'.step # "itable"
    BY <1>1 DEF Ended, Astray
  <1>3. /\ files \in Worlds /\ ClassesIn(class, table) /\ ClosedIn(class, table, {})
        /\ IndexedIn(class) /\ ItablesIn(class, table)
    BY <1>1, <1>2, RunningTables DEF IInv, Session, Ended
  <1>4. Parents(class')
    BY <1>1, <1>2, RunningAfter
  <1>5. array.implements = <<>> /\ array.interfaceIndex = <<>>
    BY DEF Converted
  <1> HIDE DEF array
  <1>6. /\ DOMAIN class' = DOMAIN class \cup {c} /\ \A d \in DOMAIN class \ {c} : class'[d] = class[d]
        /\ class'[c] = array
    BY <1>1 DEF Added
  <1>7. NameOf(c) = ArrayName /\ ArrayName \in Names
    BY <1>3, FileFacts DEF NameOf, Names
  <1>8. FileOf(c).methods = <<>>
    BY <1>7 DEF FileOf
  <1> HIDE DEF c
  <1>9. c \notin InTable(table)
    BY <1>1, <1>3, <1>7, TableFacts DEF InTable
  <1>10. InTable(table) \subseteq DOMAIN class /\ \A d \in InTable(table) : class'[d] = class[d]
    BY <1>3, <1>6, <1>9, TableFacts
  <1>11. SameTables(class, class', Concrete(table))
    BY <1>6, <1>10 DEF SameTables, Concrete
  <1>12. ItablesIn(class', table)
    BY <1>3, <1>4, <1>6, <1>10, <1>11, ItablesStay
  <1>13. Concrete(table') \subseteq Concrete(table) \cup {c}
    BY <1>1, <1>3, <1>7 DEF Concrete, InTable, ClassesIn
  <1>14. DOMAIN class'[c].implements = {} /\ DOMAIN class'[c].interfaceIndex = DOMAIN FileOf(c).methods
    BY <1>5, <1>6, <1>8
  <1>15. IndexedIn(class') /\ ItablesIn(class', table')
    BY <1>3, <1>6, <1>12, <1>13, <1>14 DEF IndexedIn, ItablesIn
  <1>16. QED
    BY <1>1, <1>2, <1>15, TablesAtRest

----------------------------------------------------------------------------
(* The theorems *)

LEMMA NextTables ==
  ASSUME IInv, Tables, IInv', Next
  PROVE  Tables'
  <1>1. CASE SessionStep
    <2>1. CASE \/ Discovered \/ ListAncestor \/ AncestorsListed \/ PatchEnd \/ FlattenStart \/ ListRoot
               \/ RootsListed \/ FlattenOne \/ ListExtended \/ ExtendedListed \/ Filled
      BY <2>1, SearchTables
    <2>2. CASE Discover
      BY <2>2, DiscoverTables
    <2>3. CASE DiscoverInterface
      BY <2>3, DiscoverInterfaceTables
    <2>4. CASE PatchInterface
      BY <2>4, PatchTables
    <2>5. CASE FlattenEnd
      BY <2>5, FlattenEndTables
    <2>6. CASE FillOne
      BY <2>6, FillOneTables
    <2>7. CASE FixupMembers
      BY <2>7, FixupMembersTables
    <2>8. CASE FixupImplementation
      BY <2>8, FixupImplementationTables
    <2>9. CASE Fixup
      BY <2>9, FixupTables
    <2>10. CASE FixupFirst
      BY <2>10, FixupFirstTables
    <2>11. CASE DiscoverFails \/ FixupFails \/ Linked
      BY <2>11, EndingTables
    <2>12. QED
      BY <1>1, <2>1, <2>2, <2>3, <2>4, <2>5, <2>6, <2>7, <2>8, <2>9, <2>10, <2>11 DEF SessionStep
  <1>2. CASE LoadArray
    BY <1>2, LoadArrayTables
  <1>3. ASSUME NEW name \in Names, NEW d \in Depths \cup {MainDepth}, Load(name, d)
        PROVE  Tables'
    BY <1>3, LoadTables
  <1>4. QED
    BY <1>1, <1>2, <1>3 DEF Next

\* Every interface table of a published class holds, at the number of each virtual method of
\* its interface, the vtable index of the method class_find_method finds, whatever was loaded
\* and linked since the table was made.
THEOREM TablesInductive == Spec => []Tables
  <1>1. Init => Tables
    <2> SUFFICES ASSUME Init
                 PROVE  Tables
      OBVIOUS
    <2>1. class = <<>> /\ table = [n \in Names |-> NoClass] /\ session.step = "idle"
      BY DEF Init, Idle
    <2>2. DOMAIN class = {} /\ InTable(table) = {}
      BY <2>1 DEF InTable
    <2>3. QED
      BY <2>1, <2>2 DEF Tables, IndexedIn, ItablesIn, Concrete
  <1>2. IInv /\ IInv' /\ Tables /\ [Next]_vars => Tables'
    <2>1. ASSUME IInv, Tables, UNCHANGED vars
          PROVE  Tables'
      <3>1. UNCHANGED <<files, class, table, session>>
        BY <2>1 DEF vars
      <3>2. CASE session.step \notin Ended
        <4>1. /\ IndexedIn(class) /\ ItablesIn(class, table)
              /\ session.step = "itable" =>
                   \A k \in DOMAIN Implements : k \in ToSet(session.left) \/ ItableIn(class, ToLink, k)
          BY <2>1, <3>2 DEF Tables
        <4>2. ToLink' = ToLink /\ Implements' = Implements
          BY <3>1 DEF ToLink, Implements
        <4>3. /\ IndexedIn(class)' /\ ItablesIn(class, table)'
              /\ \A k : ItableIn(class, ToLink, k)' <=> ItableIn(class', ToLink', k)
          <5>1. \A c, k : ItableIn(class, c, k)' <=> ItableIn(class', c, k)
            BY <3>1, TablesFilesStay
          <5>2. \A k : ItableIn(class, ToLink, k)' <=> ItableIn(class', ToLink', k)
            BY <3>1, TablesFilesStay
          <5>3. QED
            BY <3>1, <4>1, <5>2, TablesFilesStay
        <4>4. QED
          BY <3>1, <4>1, <4>2, <4>3 DEF Tables
      <3>3. CASE session.step \in Ended
        BY <3>1, <3>3 DEF Tables
      <3>4. QED
        BY <3>2, <3>3
    <2>2. QED
      BY <2>1, NextTables
  <1>3. QED
    BY <1>1, <1>2, LinkingInductive, PTL DEF Spec

----------------------------------------------------------------------------
(* Calls through interfaces *)

\* The classes of a chain
LEMMA ChainSet ==
  ASSUME NEW cl, Parents(cl), NEW x \in DOMAIN cl
  PROVE  IF cl[x].parent = NoClass THEN ToSet(Chain(cl, x)) = {x}
         ELSE cl[x].parent \in DOMAIN cl /\ ToSet(Chain(cl, x)) = {x} \cup ToSet(Chain(cl, cl[x].parent))
  <1>1. Chain(cl, x) = Below(cl, x, Chain(cl, cl[x].parent))
    BY ChainFacts
  <1>2. CASE cl[x].parent = NoClass
    <2>1. Chain(cl, x) = <<x>>
      BY <1>1, <1>2 DEF Below
    <2>2. ToSet(<<x>>) = {x}
      BY DEF ToSet
    <2>3. QED
      BY <1>2, <2>1, <2>2
  <1>3. CASE cl[x].parent # NoClass
    <2>1. cl[x].parent \in DOMAIN cl
      BY <1>3 DEF Parents
    <2>2. Chain(cl, cl[x].parent) \in Seq(DOMAIN cl)
      BY <2>1, ChainFacts
    <2>3. Chain(cl, x) = <<x>> \o Chain(cl, cl[x].parent)
      BY <1>1, <1>3 DEF Below
    <2>4. QED
      BY <1>3, <2>1, <2>2, <2>3, ConsFacts
  <1>4. QED
    BY <1>2, <1>3

\* The chain of a class of a chain is part of it.
LEMMA ChainAbove ==
  ASSUME NEW cl, Parents(cl), NEW c \in DOMAIN cl, NEW d \in ToSet(Chain(cl, c))
  PROVE  ToSet(Chain(cl, d)) \subseteq ToSet(Chain(cl, c))
  <1> DEFINE From(x) == ToSet(Chain(cl, x))
             bad == {x \in DOMAIN cl : ~(\A y \in From(x) : From(y) \subseteq From(x))}
  <1>1. ASSUME NEW x \in DOMAIN cl
        PROVE  IF cl[x].parent = NoClass THEN From(x) = {x}
               ELSE cl[x].parent \in DOMAIN cl /\ From(x) = {x} \cup From(cl[x].parent)
    BY ChainSet
  <1> HIDE DEF From
  <1>2. ASSUME bad # {}
        PROVE  FALSE
    <2>1. PICK x \in bad : cl[x].parent \notin bad
      BY <1>2 DEF Parents
    <2>2. CASE cl[x].parent = NoClass
      BY <1>1, <2>1, <2>2
    <2>3. CASE cl[x].parent # NoClass
      <3>1. cl[x].parent \in DOMAIN cl /\ From(x) = {x} \cup From(cl[x].parent)
        BY <1>1, <2>1, <2>3
      <3>2. \A y \in From(cl[x].parent) : From(y) \subseteq From(cl[x].parent)
        BY <2>1, <3>1
      <3>3. QED
        BY <2>1, <3>1, <3>2
    <2>4. QED
      BY <2>2, <2>3
  <1>3. QED
    BY <1>2 DEF From

\* INVOKEINTERFACE finds a table of a class of the chain.
LEMMA ItableFound ==
  ASSUME Parents(class), NEW c \in DOMAIN class, Chain(class, c) \in Seq(DOMAIN class),
         NEW interface \in InheritedInterfaces(c),
         \A d \in ToSet(Chain(class, c)) : DOMAIN class[d].implements \subseteq Nat
  PROVE  \E d \in ToSet(Chain(class, c)) : \E k \in DOMAIN class[d].implements :
           /\ class[d].implements[k].interface = interface
           /\ ItableOf(c, interface) = class[d].implements[k].vtableIndex
  <1> DEFINE chain == Chain(class, c)
             has(d) == {k \in DOMAIN class[d].implements : class[d].implements[k].interface = interface}
             having == {k \in DOMAIN chain : has(chain[k]) # {}}
             d == chain[Least(having)]
  <1>1. ItableOf(c, interface) =
          IF having = {} THEN <<>> ELSE class[d].implements[Least(has(d))].vtableIndex
    BY DEF ItableOf
  <1>2. having \in SUBSET Nat /\ \A n \in DOMAIN chain : chain[n] \in ToSet(chain)
    BY DEF ToSet
  <1>3. having # {}
    <2>1. PICK e \in ToSet(chain) : interface \in Implemented(e)
      BY DEF InheritedInterfaces
    <2>2. has(e) # {}
      BY <2>1 DEF Implemented
    <2>3. PICK n \in DOMAIN chain : chain[n] = e
      BY DEF ToSet
    <2>4. QED
      BY <2>2, <2>3
  <1>4. Least(having) \in having
    BY <1>2, <1>3, LeastNumber DEF Least
  <1>5. d \in ToSet(chain) /\ has(d) # {}
    BY <1>2, <1>4
  <1>6. has(d) \in SUBSET Nat
    BY <1>5
  <1>7. Least(has(d)) \in has(d)
    <2> HIDE DEF has, d
    <2>1. QED
      BY <1>5, <1>6, LeastNumber DEF Least
  <1>8. QED
    BY <1>1, <1>3, <1>5, <1>7

\* A call through an interface (INVOKEINTERFACE, interpreter.c) reaches the most derived
\* method of the class of the object: the tables class_fixup made when a class or a superclass
\* was linked hold indices that stay right for the vtables of all classes below.
THEOREM CallsArrive == Spec => []InterfaceCallsArrive
  <1>1. IInv /\ Layout /\ Typing /\ Tables => InterfaceCallsArrive
    <2> SUFFICES ASSUME IInv, Layout, Typing, Tables, ClassesComplete, NEW c \in Instantiable,
                        NEW interface \in InheritedInterfaces(c), NEW i \in Virtuals(interface),
                        NoPrivate(c, FileOf(interface).methods[i].name)
                 PROVE  ArrivesAt(c, interface, i)
      BY DEF InterfaceCallsArrive
    <2> DEFINE name == FileOf(interface).methods[i].name
               slot == class[interface].interfaceIndex[i]
    <2>1. session.step \notin Ended /\ c \in Concrete(table)
      BY DEF ClassesComplete, Ended, Astray, Instantiable, Loaded, Concrete, InTable
    <2>2. /\ files \in Worlds /\ ClassesIn(class, table) /\ ItablesIn(class, table)
          /\ VtableIn(class, c) /\ Typed(class, Busy)
      <3>1. VtableIn(class, c)
        BY <2>1 DEF Layout, LaidOutIn, LaidOut
      <3>2. QED
        BY <2>1, <3>1, RunningTables, RunningTypes
    <2>3. Parents(class) /\ ClosedUp(class, Concrete(table))
      BY <2>1, <2>2, ParentsAreAcyclic, RunningTables, ConcreteFacts
    <2>4. /\ ToSet(Chain(class, c)) \subseteq Concrete(table) /\ Concrete(table) \subseteq DOMAIN class
          /\ c \in DOMAIN class /\ Chain(class, c) \in Seq(DOMAIN class)
      BY <2>1, <2>3, ChainStaysIn, ChainFacts DEF ClosedUp
    <2>5. \A d \in ToSet(Chain(class, c)) : DOMAIN class[d].implements \subseteq Nat
      BY <2>2, <2>4 DEF Typed, ImplementedIn
    <2>6. PICK d, k :
            /\ d \in ToSet(Chain(class, c)) /\ k \in DOMAIN class[d].implements
            /\ class[d].implements[k].interface = interface
            /\ ItableOf(c, interface) = class[d].implements[k].vtableIndex
      BY <2>3, <2>4, <2>5, ItableFound
    <2>7. d \in DOMAIN class /\ ItableIn(class, d, k)
      BY <2>2, <2>4, <2>6 DEF ItablesIn
    <2> DEFINE itable == class[d].implements[k].vtableIndex
    <2>8. /\ interface \in DOMAIN class /\ DOMAIN itable = 1..Cardinality(Virtuals(interface))
          /\ slot = InterfaceIndex(interface, i)
          /\ FindMethod(class, d, name) # NoMethod
          /\ itable[slot] = ImplementationIndex(class, d, name)
      BY <2>6, <2>7 DEF ItableIn
    <2>9. slot \in DOMAIN itable
      <3>1. NameOf(interface) \in Names
        BY <2>2, <2>8 DEF ClassesIn
      <3>2. QED
        BY <2>2, <2>8, <3>1, InterfaceNumbers
    <2> HIDE DEF name, slot, itable
    <2>10. PICK e \in ToSet(Chain(class, d)) :
             name \in MethodNames(e) /\ FindMethod(class, d, name) = <<e, MethodNumber(e, name)>>
      BY <2>3, <2>7, <2>8, FindMethodFacts
    <2>11. e \in ToSet(Chain(class, c)) /\ e \in DOMAIN class /\ NameOf(e) \in Names
      BY <2>2, <2>3, <2>4, <2>6, <2>10, ChainAbove DEF ClassesIn
    <2>12. name \in VirtualNames(e)
      BY <2>10, <2>11 DEF NoPrivate, name
    <2> DEFINE n == MethodNumber(e, name)
    <2>13. n \in Virtuals(e) /\ FileOf(e).methods[n].name = name
      BY <2>2, <2>11, <2>12, MethodFacts
    <2>14. itable[slot] = class[e].vtableIndex[n]
      BY <2>8, <2>10 DEF ImplementationIndex
    <2> HIDE DEF n
    <2> DEFINE v == class[e].vtableIndex[n]
    <2>15. v \in DOMAIN class[c].vtable /\ MethodName(class[c].vtable[v]) = name
      BY <2>2, <2>11, <2>13 DEF VtableIn
    <2> HIDE DEF v
    <2>16. class[c].vtable[v] = MostDerived(class, c, name)
      BY <2>2, <2>15 DEF VtableIn
    <2>17. ItableOf(c, interface) = itable
      BY <2>6 DEF itable
    <2>18. QED
      BY <2>9, <2>14, <2>16, <2>17 DEF ArrivesAt, name, slot, v
  <1>2. QED
    BY <1>1, LinkingInductive, LayoutInductive, TypingInductive, TablesInductive, PTL

----------------------------------------------------------------------------
(* What the classes have of their files *)

\* An interface extends those its class file names, and has as many entries as it names; a
\* class implements interfaces.
ImplementsFiles(cl, c) ==
  IF IsInterface(c)
  THEN /\ DOMAIN cl[c].implements = DOMAIN FileOf(c).ifaces
       /\ {NameOf(cl[c].implements[k].interface) : k \in DOMAIN cl[c].implements} = ToSet(FileOf(c).ifaces)
  ELSE \A k \in DOMAIN cl[c].implements : IsInterface(cl[c].implements[k].interface)

\* The superclass is found with the class, the interfaces are when it is linked.
FollowsFile(cl, c, filling, queued) ==
  /\ cl[c].parent = NoClass /\ c \notin queued => FileOf(c).super = NoName
  /\ IF cl[c].linked THEN ImplementsFiles(cl, c) ELSE c \in filling \/ DOMAIN cl[c].implements = {}

FollowFiles(cl, filling, queued) == \A c \in DOMAIN cl : FollowsFile(cl, c, filling, queued)

Filling == IF session.step \in {"fill", "fixup", "itable"} THEN {ToLink} ELSE {}
Queued == IF session.step = "discover" THEN ToSet(session.queue) ELSE {}

\* The invariant: whatever a session has found agrees with the class files.
Origins ==
  session.step \notin Ended =>
    /\ FollowFiles(class, Filling, Queued)
    /\ session.step = "itable" =>
         \A k \in DOMAIN Implements : k \in ToSet(session.left) \/ IsInterface(Implements[k].interface)

LEMMA OriginsFilesStay ==
  ASSUME files' = files
  PROVE  /\ FollowFiles(class, Filling, Queued)' <=> FollowFiles(class', Filling', Queued')
         /\ \A c : IsInterface(c)' <=> IsInterface(c)
  <1>1. \A c : FileOf(c)' = FileOf(c)
    BY DEF FileOf
  <1>2. \A c : IsInterface(c)' <=> IsInterface(c)
    BY <1>1 DEF IsInterface
  <1>3. \A c : ImplementsFiles(class, c)' <=> ImplementsFiles(class', c)
    BY <1>1, <1>2 DEF ImplementsFiles, NameOf
  <1>4. QED
    BY <1>1, <1>2, <1>3 DEF FollowFiles, FollowsFile

SameFile(cl, new, c) ==
  /\ c \in DOMAIN cl
  /\ new[c].parent = cl[c].parent /\ new[c].linked = cl[c].linked
  /\ new[c].implements = cl[c].implements

LEMMA FollowKeeps ==
  ASSUME NEW cl, NEW filling, NEW queued, FollowFiles(cl, filling, queued),
         NEW new, NEW busy, NEW waiting,
         \A c \in DOMAIN new :
           \/ FollowsFile(new, c, busy, waiting)
           \/ SameFile(cl, new, c) /\ (c \in filling => c \in busy) /\ (c \in queued => c \in waiting)
  PROVE  FollowFiles(new, busy, waiting)
  <1> SUFFICES ASSUME NEW c \in DOMAIN new, SameFile(cl, new, c), c \in filling => c \in busy,
                      c \in queued => c \in waiting
               PROVE  FollowsFile(new, c, busy, waiting)
    BY DEF FollowFiles
  <1>1. FollowsFile(cl, c, filling, queued)
    BY DEF FollowFiles, SameFile
  <1>2. ImplementsFiles(cl, c) => ImplementsFiles(new, c)
    BY DEF ImplementsFiles, SameFile
  <1>3. QED
    BY <1>1, <1>2 DEF FollowsFile, SameFile

\* The invariant after a step, when no class is being fixed up
LEMMA OriginsAtRest ==
  ASSUME files' = files, session'.step # "itable",
         session'.step \notin Ended => FollowFiles(class', Filling', Queued')
  PROVE  Origins'
  BY OriginsFilesStay DEF Origins

\* What the invariants say while a session or nothing goes on
LEMMA RunningOrigins ==
  ASSUME IInv, Origins, session.step \notin Ended
  PROVE  /\ files \in Worlds /\ ClassesIn(class, table) /\ DOMAIN session = DOMAIN Idle
         /\ \E found : ClosedIn(class, table, found)
         /\ FollowFiles(class, Filling, Queued)
         /\ session.step # "discover" => FollowFiles(class, Filling, {})
         /\ session.step \notin {"fill", "fixup", "itable"} => FollowFiles(class, {}, Queued)
  <1>1. files \in Worlds /\ Session /\ DOMAIN session = DOMAIN Idle
    BY DEF IInv, Ended
  <1>2. /\ ClassesIn(class, table)
        /\ ClosedIn(class, table, IF session.step = "patch" THEN Found ELSE {})
    BY <1>1 DEF Session
  <1>3. FollowFiles(class, Filling, Queued)
    BY DEF Origins
  <1>4. QED
    BY <1>1, <1>2, <1>3 DEF Filling, Queued

LEMMA AstrayOrigins ==
  ASSUME NEW step \in Astray, GoesAstray(step)
  PROVE  Origins'
  <1>1. session'.step \in Ended
    BY DEF GoesAstray, Ended
  <1>2. QED
    BY <1>1 DEF Origins

\* Steps that leave the classes alone, and what is being filled
LEMMA QuietOrigins ==
  ASSUME IInv, Origins, UNCHANGED <<files, class>>, session.step \notin Ended,
         session'.step # "itable", Filling \subseteq Filling', Queued \subseteq Queued'
  PROVE  Origins'
  <1>1. FollowFiles(class, Filling, Queued)
    BY RunningOrigins
  <1>2. \A c \in DOMAIN class : /\ SameFile(class, class', c)
                                /\ (c \in Filling => c \in Filling') /\ (c \in Queued => c \in Queued')
    BY DEF SameFile
  <1>3. FollowFiles(class', Filling', Queued')
    BY <1>1, <1>2, FollowKeeps
  <1>4. QED
    BY <1>3, OriginsAtRest

LEMMA SearchOrigins ==
  ASSUME IInv, Origins,
         \/ Discovered \/ ListAncestor \/ AncestorsListed \/ PatchEnd \/ FlattenStart \/ ListRoot
         \/ RootsListed \/ FlattenOne \/ ListExtended \/ ExtendedListed \/ Filled
  PROVE  Origins'
  <1>1. session.step \notin Ended
    BY DEF Discovered, ListAncestor, AncestorsListed, PatchEnd, FlattenStart, ListRoot, RootsListed,
           FlattenOne, ListExtended, ExtendedListed, Filled, Ended, Astray
  <1>2. DOMAIN session = DOMAIN Idle
    BY <1>1 DEF IInv
  <1>3. ASSUME NEW step \in Astray, GoesAstray(step)
        PROVE  Origins'
    BY <1>3, AstrayOrigins
  <1>4. ASSUME \A step \in Astray : ~GoesAstray(step)
        PROVE  /\ UNCHANGED <<files, class>> /\ session'.step # "itable"
               /\ Filling \subseteq Filling' /\ Queued \subseteq Queued'
    <2>1. CASE Discovered \/ ListAncestor \/ AncestorsListed \/ PatchEnd
      <3>1. /\ UNCHANGED <<files, class>> /\ session'.step # "itable"
            /\ session.step \notin {"fill", "fixup", "itable"}
            /\ session.step = "discover" => session.queue = <<>>
        BY <1>2, <1>4, <2>1 DEF Discovered, ListAncestor, AncestorsListed, PatchEnd, Astray, Idle
      <3>2. Queued = {}
        BY <3>1 DEF Queued, ToSet
      <3>3. QED
        BY <3>1, <3>2 DEF Filling
    <2>2. CASE FlattenStart \/ ListRoot \/ ListExtended \/ RootsListed \/ FlattenOne \/ ExtendedListed
      <3>1. /\ UNCHANGED <<files, class>> /\ session'.step # "itable"
            /\ session.step \notin {"fill", "fixup", "itable", "discover"}
        BY <1>2, <1>4, <2>2 DEF FlattenStart, ListRoot, ListExtended, RootsListed, FlattenOne,
                                ExtendedListed, LoopAt, Astray, Idle
      <3>2. QED
        BY <3>1 DEF Filling, Queued
    <2>3. CASE Filled
      <3>1. /\ UNCHANGED <<files, class>> /\ session.step = "fill" /\ session'.step = "fixup"
            /\ session'.ancestry = session.ancestry
        BY <1>2, <2>3 DEF Filled, Idle
      <3>2. QED
        BY <3>1 DEF Filling, Queued, ToLink
    <2>4. QED
      BY <1>4, <2>1, <2>2, <2>3
  <1>5. QED
    BY <1>1, <1>3, <1>4, QuietOrigins

----------------------------------------------------------------------------
(* Step by step *)

\* A class that is converted has no interfaces yet, and waits to be discovered.
LEMMA ConvertedFollows ==
  ASSUME NEW cl, NEW S, S \cap DOMAIN cl = {}, NEW filling, NEW queued, S \subseteq queued
  PROVE  LET new == WithConverted(cl, S)
         IN  /\ DOMAIN new = DOMAIN cl \cup S /\ \A c \in DOMAIN cl : new[c] = cl[c]
             /\ \A c \in S : FollowsFile(new, c, filling, queued)
  <1> DEFINE new == WithConverted(cl, S)
  <1>1. /\ DOMAIN new = DOMAIN cl \cup S
        /\ \A c \in S : new[c] = Converted(NameOf(c))
        /\ \A c \in DOMAIN cl : new[c] = cl[c]
    BY DEF WithConverted, Added
  <1>2. \A c \in S : ~Converted(NameOf(c)).linked /\ DOMAIN Converted(NameOf(c)).implements = {}
    BY DEF Converted
  <1> HIDE DEF new
  <1>3. \A c \in S : FollowsFile(new, c, filling, queued)
    BY <1>1, <1>2 DEF FollowsFile
  <1>4. QED
    BY <1>1, <1>3 DEF new

LEMMA LoadOrigins ==
  ASSUME IInv, Origins, NEW name \in Names, NEW d, Load(name, d)
  PROVE  Origins'
  <1> DEFINE c == Fresh(name)
  <1>1. /\ session.step = "idle" /\ files' = files /\ class' = WithConverted(class, {c})
        /\ session' = [Idle EXCEPT !.step = "discover", !.depth = d, !.root = c, !.queue = <<c>>]
    BY DEF Load
  <1>2. session.step \notin Ended /\ session'.step = "discover" /\ session'.queue = <<c>>
    BY <1>1 DEF Ended, Astray, Idle
  <1>3. ClassesIn(class, table) /\ FollowFiles(class, {}, {})
    <2>1. Filling = {} /\ Queued = {}
      BY <1>1 DEF Filling, Queued
    <2>2. QED
      BY <1>2, <2>1, RunningOrigins
  <1>4. c \notin DOMAIN class
    BY <1>3, FreshFacts DEF ClassesIn
  <1> HIDE DEF c
  <1> DEFINE queued == {c}
  <1>5. Queued' = queued /\ Filling' = {}
    BY <1>2 DEF Queued, Filling, ToSet
  <1>6. /\ DOMAIN class' = DOMAIN class \cup queued /\ \A x \in DOMAIN class : class'[x] = class[x]
        /\ \A x \in queued : FollowsFile(class', x, {}, queued)
    <2>1. class' = WithConverted(class, queued) /\ queued \cap DOMAIN class = {}
      BY <1>1, <1>4
    <2> HIDE DEF queued
    <2>2. QED
      BY <2>1, ConvertedFollows
  <1> HIDE DEF queued
  <1>7. FollowFiles(class', {}, queued)
    <2>1. \A x \in DOMAIN class' : FollowsFile(class', x, {}, queued) \/ SameFile(class, class', x)
      BY <1>6 DEF SameFile
    <2>2. QED
      BY <1>3, <2>1, FollowKeeps
  <1>8. QED
    BY <1>1, <1>2, <1>5, <1>7, OriginsAtRest

LEMMA DiscoverInterfaceOrigins ==
  ASSUME IInv, Origins, DiscoverInterface
  PROVE  Origins'
  <1> DEFINE n == Head(session.left)
             new == Missing(session.required, n)
  <1>1. /\ session.step = "discover" /\ session.left # <<>> /\ files' = files
        /\ class' = WithConverted(class, ToSet(new))
        /\ session' = [session EXCEPT !.queue = @ \o new, !.left = Tail(@)]
    BY DEF DiscoverInterface
  <1>2. session.step \notin Ended
    BY <1>1 DEF Ended, Astray
  <1>3. files \in Worlds /\ ClassesIn(class, table) /\ ClosedIn(class, table, {})
    BY <1>1, <1>2 DEF IInv, Session, Ended
  <1>4. Discovering /\ DOMAIN session = DOMAIN Idle /\ FollowFiles(class, {}, ToSet(session.queue))
    <2>1. Filling = {} /\ Queued = ToSet(session.queue)
      BY <1>1 DEF Filling, Queued
    <2>2. QED
      BY <1>1, <1>2, <2>1, RunningOrigins DEF IInv, Session, Astray
  <1>5. n \in Names
    BY <1>1, <1>4, HeadFacts DEF Discovering, Names
  <1> HIDE DEF n
  <1>6. ConvertsFor(n, new)
    BY <1>3, <1>5, MissingKeeps
  <1> HIDE DEF new
  <1>7. /\ ToSet(new) \cap DOMAIN class = {}
        /\ ToSet(session.queue \o new) = ToSet(session.queue) \cup ToSet(new)
    <2>1. new = <<>> \/ new = <<Fresh(n)>>
      BY <1>6 DEF ConvertsFor, Converts
    <2>2. session.queue \in Seq(DOMAIN class)
      BY <1>4 DEF Discovering
    <2>3. DOMAIN class' = DOMAIN class \cup ToSet(new)
      BY <1>1, <1>6 DEF ConvertsFor, Converts
    <2>4. session.queue \in Seq(DOMAIN class')
      BY <2>2, <2>3
    <2>5. new = <<>> \/ \E x \in DOMAIN class' : new = <<x>>
      <3>1. new # <<>> => Fresh(n) \in ToSet(new)
        BY <2>1 DEF ToSet
      <3>2. QED
        BY <2>1, <2>3, <3>1
    <2>6. ToSet(session.queue \o new) = ToSet(session.queue) \cup ToSet(new)
      BY <2>4, <2>5, AppendedFacts
    <2>7. QED
      BY <1>6, <2>6 DEF ConvertsFor, Converts
  <1>8. session'.step = "discover" /\ session'.queue = session.queue \o new
    BY <1>1, <1>4 DEF Idle
  <1> DEFINE queued == ToSet(session.queue) \cup ToSet(new)
  <1>9. Queued' = queued /\ Filling' = {}
    BY <1>7, <1>8 DEF Queued, Filling
  <1> HIDE DEF queued
  <1>10. FollowFiles(class', {}, queued)
    <2>1. /\ DOMAIN class' = DOMAIN class \cup ToSet(new)
          /\ \A x \in DOMAIN class : class'[x] = class[x]
          /\ \A x \in ToSet(new) : FollowsFile(class', x, {}, queued)
      BY <1>1, <1>7, ConvertedFollows DEF queued
    <2>2. \A x \in DOMAIN class' : FollowsFile(class', x, {}, queued) \/ SameFile(class, class', x)
      BY <2>1 DEF SameFile
    <2>3. QED
      BY <1>4, <2>2, FollowKeeps DEF queued
  <1>11. QED
    BY <1>1, <1>8, <1>9, <1>10, OriginsAtRest

LEMMA DiscoverOrigins ==
  ASSUME IInv, Origins, Discover
  PROVE  Origins'
  <1> DEFINE c == Head(session.queue)
             r == <<c>> \o session.required
             super == FileOf(c).super
             parent == IF super = NoName THEN NoClass ELSE Parent(r, super)
             new == IF super = NoName THEN <<>> ELSE Missing(r, super)
             cl == WithConverted(class, ToSet(new))
             rest == Tail(session.queue)
  <1>1. /\ session.step = "discover" /\ session.queue # <<>>
        /\ class' = [cl EXCEPT ![c].parent = parent]
        /\ session' = [session EXCEPT !.queue = rest \o new, !.required = r, !.left = FileOf(c).ifaces]
        /\ files' = files
    BY DEF Discover
  <1>2. session.step \notin Ended
    BY <1>1 DEF Ended, Astray
  <1>3. files \in Worlds /\ ClassesIn(class, table) /\ ClosedIn(class, table, {})
    BY <1>1, <1>2 DEF IInv, Session, Ended
  <1>4. Discovering /\ DOMAIN session = DOMAIN Idle /\ FollowFiles(class, {}, ToSet(session.queue))
    <2>1. Filling = {} /\ Queued = ToSet(session.queue)
      BY <1>1 DEF Filling, Queued
    <2>2. QED
      BY <1>1, <1>2, <2>1, RunningOrigins DEF IInv, Session, Astray
  <1>5. /\ c \in DOMAIN class /\ rest \in Seq(DOMAIN class)
        /\ ToSet(session.queue) = {c} \cup ToSet(rest)
    BY <1>1, <1>4, HeadFacts DEF Discovering
  <1>6. ~class[c].linked /\ DOMAIN class[c].implements = {}
    <2>1. ~class[c].linked
      BY <1>4, <1>5 DEF Discovering, Unpublished
    <2>2. QED
      BY <1>4, <1>5, <2>1 DEF FollowFiles, FollowsFile
  <1>7. super \in DOMAIN files \cup {NoName} /\ (super # NoName => super \in Names)
    BY <1>3, <1>5, FileFacts DEF ClassesIn, Names
  <1>8. session.required \in Seq(DOMAIN class)
    BY <1>4 DEF Discovering
  <1>9. r \in Seq(DOMAIN class)
    <2> HIDE DEF c
    <2>1. QED
      BY <1>5, <1>8, ConsFacts
  <1>10. session'.step = "discover" /\ session'.queue = rest \o new
    BY <1>1, <1>4 DEF Idle
  <1> HIDE DEF c, r, rest
  <1>11. ConvertsFor(super, new)
    BY <1>3, <1>7, MissingKeeps, NothingConverts
  <1>12. super # NoName => parent # NoClass
    <2>1. ASSUME super # NoName
          PROVE  parent # NoClass
      <3>1. Parent(r, super) \in DOMAIN cl
        BY <1>3, <1>7, <1>9, <1>11, <2>1, ParentFacts DEF ConvertsFor
      <3>2. ClassesIn(cl, table)
        BY <1>11 DEF ConvertsFor, Converts
      <3>3. QED
        BY <1>3, <2>1, <3>1, <3>2, PairFacts DEF ClassesIn
    <2>2. QED
      BY <2>1
  <1> HIDE DEF super, new, parent
  <1>13. /\ ToSet(new) \cap DOMAIN class = {} /\ Shaped(cl)
         /\ DOMAIN cl = DOMAIN class \cup ToSet(new)
         /\ new = <<>> \/ new = <<Fresh(super)>>
    BY <1>11 DEF ConvertsFor, Converts, ClassesIn
  <1>14. ToSet(rest \o new) = ToSet(rest) \cup ToSet(new)
    <2> HIDE DEF cl
    <2>1. rest \in Seq(DOMAIN cl)
      BY <1>5, <1>13
    <2>2. new # <<>> => Fresh(super) \in ToSet(new)
      BY <1>13 DEF ToSet
    <2>3. new = <<>> \/ \E x \in DOMAIN cl : new = <<x>>
      BY <1>13, <2>2
    <2>4. QED
      BY <2>1, <2>3, AppendedFacts
  <1> DEFINE queued == ToSet(rest) \cup ToSet(new)
  <1>15. Queued' = queued /\ Filling' = {}
    BY <1>10, <1>14 DEF Queued, Filling
  <1> HIDE DEF queued
  <1>16. /\ \A x \in DOMAIN class : cl[x] = class[x]
         /\ \A x \in ToSet(new) : FollowsFile(cl, x, {}, queued)
    BY <1>13, ConvertedFollows DEF queued
  <1> HIDE DEF cl
  <1>17. /\ DOMAIN class' = DOMAIN cl /\ \A x \in DOMAIN cl \ {c} : class'[x] = cl[x]
         /\ class'[c].parent = parent
         /\ class'[c].linked = cl[c].linked /\ class'[c].implements = cl[c].implements
    BY <1>1, <1>5, <1>13 DEF Shaped, ClassFields
  <1>18. FollowsFile(class', c, {}, queued)
    BY <1>5, <1>6, <1>12, <1>16, <1>17 DEF FollowsFile, super
  <1>19. \A x \in ToSet(new) : x # c /\ FollowsFile(class', x, {}, queued)
    BY <1>5, <1>13, <1>16, <1>17 DEF FollowsFile, ImplementsFiles
  <1>20. \A x \in DOMAIN class' :
           \/ FollowsFile(class', x, {}, queued)
           \/ SameFile(class, class', x) /\ (x \in ToSet(session.queue) => x \in queued)
    BY <1>5, <1>13, <1>16, <1>17, <1>18, <1>19 DEF SameFile, queued
  <1>21. FollowFiles(class', {}, queued)
    BY <1>4, <1>20, FollowKeeps
  <1>22. QED
    BY <1>1, <1>10, <1>15, <1>21, OriginsAtRest

\* An interface is given the interfaces it extends.
LEMMA PatchOrigins ==
  ASSUME IInv, Origins, PatchInterface
  PROVE  Origins'
  <1> DEFINE c == session.at
             extended == Extended(c)
  <1>1. CASE GoesAstray("abort")
    BY <1>1, AstrayOrigins DEF Astray
  <1>2. CASE ~GoesAstray("abort")
    <2>1. /\ session.step = "patch" /\ session.at # IfaceList /\ files' = files
          /\ session' = [session EXCEPT !.at = PatchNext(c)]
          /\ IF class[c].linked THEN UNCHANGED class
             ELSE class' = [class EXCEPT ![c].linked = TRUE, ![c].implements = extended]
      BY <1>2 DEF PatchInterface
    <2>2. session.step \notin Ended
      BY <2>1 DEF Ended, Astray
    <2>3. /\ files \in Worlds /\ ClassesIn(class, table) /\ DOMAIN session = DOMAIN Idle
          /\ Patching /\ FollowFiles(class, {}, {})
      <3>1. Filling = {} /\ Queued = {}
        BY <2>1 DEF Filling, Queued
      <3>2. QED
        BY <2>1, <2>2, <3>1, RunningOrigins DEF IInv, Session, Ended
    <2>4. session'.step = "patch" /\ Filling' = {} /\ Queued' = {}
      BY <2>1, <2>3 DEF Idle, Filling, Queued
    <2>5. c \in Found /\ session.required \in Seq(DOMAIN class) /\ NamedIn(session.required, <<>>, <<>>)
      BY <2>1, <2>3 DEF Patching, AllDiscovered
    <2>6. c \in DOMAIN class /\ IsInterface(c) /\ c \in ToSet(session.required)
      BY <2>5 DEF Found, ToSet
    <2>7. \A n \in ToSet(FileOf(c).ifaces) : NameOf(Interface(n)) = n
      <3>1. TAKE n \in ToSet(FileOf(c).ifaces)
      <3>2. n \in Names
        <4>1. FileOf(c).ifaces \in Seq(DOMAIN files)
          BY <2>3, <2>6, FileFacts DEF ClassesIn
        <4>2. QED
          BY <4>1 DEF ToSet, Names
      <3>3. CASE table[n] # NoClass
        BY <2>3, <3>2, <3>3 DEF Interface, ClassesIn
      <3>4. CASE table[n] = NoClass
        <4>1. PICK k \in DOMAIN session.required : session.required[k] = c
          BY <2>6 DEF ToSet
        <4>2. ToSet(<<>>) = {}
          BY DEF ToSet
        <4>3. \E d \in ToSet(session.required) : NameOf(d) = n
          BY <2>5, <3>1, <3>4, <4>1, <4>2 DEF NamedIn
        <4>4. NameOf(Lookup(session.required, n)) = n
          BY <2>5, <4>3, LookupFacts
        <4>5. QED
          BY <3>4, <4>4 DEF Interface
      <3>5. QED
        BY <3>3, <3>4
    <2>8. /\ DOMAIN extended = DOMAIN FileOf(c).ifaces
          /\ {NameOf(extended[k].interface) : k \in DOMAIN extended} = ToSet(FileOf(c).ifaces)
      <3> DEFINE q == FileOf(c).ifaces
      <3>1. /\ DOMAIN extended = DOMAIN q
            /\ \A k \in DOMAIN q : extended[k].interface = Interface(q[k])
        BY DEF Extended
      <3>2. ToSet(q) = {q[k] : k \in DOMAIN q}
        BY DEF ToSet
      <3> HIDE DEF extended
      <3>3. \A k \in DOMAIN q : q[k] \in ToSet(q) /\ NameOf(extended[k].interface) = q[k]
        BY <2>7, <3>1, <3>2
      <3> HIDE DEF q
      <3>4. {NameOf(extended[k].interface) : k \in DOMAIN extended} = ToSet(q)
        BY <3>1, <3>2, <3>3
      <3>5. QED
        BY <3>1, <3>4 DEF q
    <2> HIDE DEF c, extended
    <2>9. CASE class[c].linked
      BY <2>1, <2>2, <2>3, <2>4, <2>9, OriginsAtRest
    <2>10. CASE ~class[c].linked
      <3>1. \A x \in DOMAIN class : DOMAIN class[x] = ClassFields
        BY <2>3 DEF ClassesIn, Shaped
      <3>2. class' = [class EXCEPT ![c].linked = TRUE, ![c].implements = extended]
        BY <2>1, <2>10
      <3>3. /\ DOMAIN class' = DOMAIN class
            /\ \A x \in DOMAIN class \ {c} : class'[x] = class[x]
            /\ class'[c].implements = extended /\ class'[c].parent = class[c].parent /\ class'[c].linked
        BY <2>6, <3>1, <3>2 DEF ClassFields
      <3>4. FollowsFile(class', c, {}, {})
        <4>1. class[c].parent = NoClass => FileOf(c).super = NoName
          BY <2>3, <2>6 DEF FollowFiles, FollowsFile
        <4>2. ImplementsFiles(class', c)
          BY <2>6, <2>8, <3>3 DEF ImplementsFiles
        <4>3. QED
          BY <3>3, <4>1, <4>2 DEF FollowsFile
      <3>5. \A x \in DOMAIN class' : FollowsFile(class', x, {}, {}) \/ SameFile(class, class', x)
        BY <3>3, <3>4 DEF SameFile
      <3>6. FollowFiles(class', {}, {})
        BY <2>3, <3>5, FollowKeeps
      <3>7. QED
        BY <2>1, <2>4, <3>6, OriginsAtRest
    <2>11. QED
      BY <2>9, <2>10
  <1>3. QED
    BY <1>1, <1>2

\* Steps that change the class that is linked only
LEMMA BuildFollows ==
  ASSUME IInv, Origins, session.step \in Later, session.ancestry # <<>>,
         session'.step \in {"fill", "fixup", "itable"}, session'.ancestry = session.ancestry,
         DOMAIN class' = DOMAIN class,
         \A c \in DOMAIN class \ {ToLink} : SameFile(class, class', c),
         class'[ToLink].parent = class[ToLink].parent, class'[ToLink].linked = class[ToLink].linked
  PROVE  FollowFiles(class', Filling', Queued')
  <1>1. session.step \notin Ended /\ session.step # "discover"
    BY DEF Later, Ended, Astray
  <1>2. FollowFiles(class, Filling, {}) /\ ToLink \in DOMAIN class /\ ~class[ToLink].linked
    BY <1>1, RunningOrigins, ToLinkFacts
  <1> DEFINE filling == {ToLink}
  <1>3. Filling' = filling /\ Queued' = {} /\ Filling \subseteq filling
    BY DEF Filling, Queued, ToLink
  <1>4. FollowsFile(class', ToLink, filling, {})
    BY <1>2 DEF FollowsFile, FollowFiles
  <1>5. \A c \in DOMAIN class' :
          \/ FollowsFile(class', c, filling, {})
          \/ SameFile(class, class', c) /\ (c \in Filling => c \in filling)
    BY <1>3, <1>4
  <1> HIDE DEF filling
  <1>6. FollowFiles(class', filling, {})
    BY <1>2, <1>5, FollowKeeps
  <1>7. QED
    BY <1>3, <1>6

LEMMA FlattenEndOrigins ==
  ASSUME IInv, Origins, FlattenEnd
  PROVE  Origins'
  <1> DEFINE empty == [k \in 1..session.count |-> [interface |-> NoClass, vtableIndex |-> <<>>]]
  <1>1. session.step = "flatten" /\ session.step \in Later /\ session.step \notin Ended /\ files' = files
    BY DEF FlattenEnd, Later, Ended, Astray
  <1>2. DOMAIN session = DOMAIN Idle /\ ClassesIn(class, table) /\ session.ancestry # <<>>
    BY <1>1, LaterFacts DEF LinkingOne
  <1>3. CASE session' = LoopAt(links.next[IfaceDiscovery]) /\ UNCHANGED class
    <2>1. session'.step = "flatten"
      BY <1>2, <1>3 DEF LoopAt, Idle
    <2>2. Filling = {} /\ Queued = {} /\ session'.step # "itable"
      BY <1>1, <2>1 DEF Filling, Queued
    <2>3. QED
      BY <1>1, <1>3, <2>2, QuietOrigins
  <1>4. CASE /\ class' = [class EXCEPT ![ToLink].implements = empty]
             /\ session' = [session EXCEPT !.step = "fill", !.at = links.next[IfaceRequired], !.count = 0]
    <2>1. session'.step = "fill" /\ session'.ancestry = session.ancestry
      BY <1>2, <1>4 DEF Idle
    <2> HIDE DEF empty
    <2>2. \A c \in DOMAIN class : DOMAIN class[c] = ClassFields
      BY <1>2 DEF ClassesIn, Shaped
    <2>3. ToLink \in DOMAIN class
      BY <1>1, <1>2, ToLinkFacts
    <2>4. /\ DOMAIN class' = DOMAIN class
          /\ \A c \in DOMAIN class \ {ToLink} : SameFile(class, class', c)
          /\ class'[ToLink].parent = class[ToLink].parent /\ class'[ToLink].linked = class[ToLink].linked
      BY <1>4, <2>2, <2>3 DEF ClassFields, SameFile
    <2>5. FollowFiles(class', Filling', Queued')
      BY <1>1, <1>2, <2>1, <2>4, BuildFollows
    <2>6. QED
      BY <1>1, <2>1, <2>5, OriginsAtRest
  <1>5. QED
    BY <1>3, <1>4 DEF FlattenEnd

LEMMA FillOneOrigins ==
  ASSUME IInv, Origins, FillOne
  PROVE  Origins'
  <1> DEFINE k == session.count + 1
  <1>1. CASE GoesAstray("lost")
    BY <1>1, AstrayOrigins DEF Astray
  <1>2. CASE ~GoesAstray("lost")
    <2>1. /\ session.step = "fill" /\ session.step \in Later /\ files' = files
          /\ k \in DOMAIN Implements
          /\ class' = [class EXCEPT ![ToLink].implements[k]["interface"] = session.at]
          /\ session' = [session EXCEPT !.at = links.next[session.at], !.count = k]
      BY <1>2 DEF FillOne, Implements, Later
    <2>2. DOMAIN session = DOMAIN Idle /\ session.ancestry # <<>>
      BY <2>1, LaterFacts DEF LinkingOne
    <2>3. session'.step = "fill" /\ session'.ancestry = session.ancestry
      BY <2>1, <2>2 DEF Idle
    <2> HIDE DEF k
    <2>4. Changes(k, "interface", session.at, class') /\ ToLink \in DOMAIN class
      BY <2>1, <2>2, ImplementationKeeps, ToLinkFacts
    <2>5. /\ DOMAIN class' = DOMAIN class
          /\ \A c \in DOMAIN class \ {ToLink} : SameFile(class, class', c)
          /\ class'[ToLink].parent = class[ToLink].parent /\ class'[ToLink].linked = class[ToLink].linked
      BY <2>4 DEF Changes, ClassFields, SameFile
    <2>6. FollowFiles(class', Filling', Queued')
      BY <2>1, <2>2, <2>3, <2>5, BuildFollows
    <2>7. QED
      BY <2>1, <2>3, <2>6, OriginsAtRest
  <1>3. QED
    BY <1>1, <1>2

LEMMA FixupMembersOrigins ==
  ASSUME IInv, Origins, FixupMembers
  PROVE  Origins'
  <1> DEFINE all == [k \in DOMAIN class[ToLink].implements |-> k]
  <1>1. /\ session.step = "fixup" /\ session.step \in Later /\ files' = files
        /\ class' = WithVtable(WithFields(class, ToLink), ToLink)
        /\ session' = [session EXCEPT !.step = "itable", !.left = all]
    BY DEF FixupMembers, Later
  <1>2. DOMAIN session = DOMAIN Idle /\ session.ancestry # <<>>
    BY <1>1, LaterFacts DEF LinkingOne
  <1>3. ToLink \in DOMAIN class /\ DOMAIN class[ToLink] = ClassFields
    BY <1>1, <1>2, ToLinkFacts
  <1>4. /\ session'.step = "itable" /\ session'.ancestry = session.ancestry /\ session'.left = all
    BY <1>1, <1>2 DEF Idle
  <1>5. ToLink' = ToLink
    BY <1>4 DEF ToLink
  <1>6. SameButMembers(ToLink, class, class')
    BY <1>1, <1>3, MembersKeep
  <1>7. /\ DOMAIN class' = DOMAIN class
        /\ \A c \in DOMAIN class : SameFile(class, class', c)
    BY <1>3, <1>6 DEF SameButMembers, SameFile
  <1>8. FollowFiles(class', Filling', Queued')
    BY <1>1, <1>2, <1>3, <1>4, <1>7, BuildFollows DEF SameFile
  <1>9. \A k \in DOMAIN Implements' : k \in ToSet(session'.left)
    <2>1. DOMAIN Implements' = DOMAIN all /\ \A k \in DOMAIN all : all[k] = k
      BY <1>3, <1>5, <1>7 DEF Implements, SameFile
    <2> HIDE DEF all
    <2>2. QED
      BY <1>4, <2>1 DEF ToSet
  <1>10. FollowFiles(class, Filling, Queued)'
    BY <1>1, <1>8, OriginsFilesStay
  <1>11. QED
    BY <1>9, <1>10 DEF Origins

\* One implementation turned out to be of an interface.
LEMMA FixupImplementationOrigins ==
  ASSUME IInv, Origins, FixupImplementation
  PROVE  Origins'
  <1> DEFINE k == Head(session.left)
             i == Implements[k].interface
  <1>1. CASE GoesAstray("crash")
    BY <1>1, AstrayOrigins DEF Astray
  <1>2. CASE ~GoesAstray("crash")
    <2> DEFINE indices == ImplementationIndices(class, ToLink, i)
               numbers == InterfaceIndices(class, i)
               half == [class EXCEPT ![ToLink].implements[k]["vtableIndex"] = indices]
    <2>1. /\ class' = [half EXCEPT ![i].interfaceIndex = numbers]
          /\ session' = [session EXCEPT !.left = Tail(@)]
      BY <1>2, ZenonT(60) DEF FixupImplementation, WithImplementation, Implements
    <2> HIDE DEF indices, numbers, half
    <2>2. /\ session.step = "itable" /\ session.step \in Later /\ files' = files
          /\ session.left # <<>> /\ i # NoClass /\ IsInterface(i)
      BY <1>2, <2>1 DEF FixupImplementation, Later, Implements
    <2>3. session.step \notin Ended
      BY <2>2 DEF Ended, Astray
    <2>4. /\ DOMAIN session = DOMAIN Idle /\ session.ancestry # <<>>
          /\ session.left \in Seq(DOMAIN Implements)
      BY <2>2, LaterFacts DEF LinkingOne
    <2>5. \A j \in DOMAIN Implements : j \in ToSet(session.left) \/ IsInterface(Implements[j].interface)
      BY <2>2, <2>3 DEF Origins
    <2>6. /\ session'.step = "itable" /\ session'.ancestry = session.ancestry
          /\ session'.left = Tail(session.left)
      BY <2>1, <2>2, <2>4 DEF Idle
    <2>7. k \in DOMAIN Implements /\ ToSet(session.left) = {k} \cup ToSet(Tail(session.left))
      BY <2>2, <2>4, HeadFacts
    <2>8. ToLink \in DOMAIN class
      BY <2>2, <2>4, ToLinkFacts
    <2> HIDE DEF k
    <2>9. Changes(k, "vtableIndex", indices, half)
      BY <2>2, <2>4, <2>7, ImplementationKeeps DEF half
    <2>10. \A j \in DOMAIN Implements : j \in ToSet(session'.left) \/ IsInterface(Implements[j].interface)
      BY <2>2, <2>5, <2>6, <2>7
    <2> HIDE DEF i
    <2>11. /\ DOMAIN half = DOMAIN class /\ \A c \in DOMAIN class : DOMAIN half[c] = ClassFields
           /\ \A c \in DOMAIN class : \A f \in ClassFields : c # ToLink \/ f # "implements" => half[c][f] = class[c][f]
      BY <2>9 DEF Changes, Shaped
    <2>12. /\ DOMAIN class' = DOMAIN class
           /\ \A c \in DOMAIN class : \A f \in ClassFields \ {"interfaceIndex"} : class'[c][f] = half[c][f]
      BY <2>1, <2>11 DEF ClassFields
    <2>13. /\ \A c \in DOMAIN class \ {ToLink} : SameFile(class, class', c)
           /\ class'[ToLink].parent = class[ToLink].parent /\ class'[ToLink].linked = class[ToLink].linked
      BY <2>8, <2>11, <2>12 DEF SameFile, ClassFields
    <2>14. FollowFiles(class', Filling', Queued')
      BY <2>2, <2>4, <2>6, <2>12, <2>13, BuildFollows
    <2>15. ToLink' = ToLink
      BY <2>6 DEF ToLink
    <2>16. /\ DOMAIN Implements' = DOMAIN Implements
           /\ \A j \in DOMAIN Implements : Implements'[j].interface = Implements[j].interface
      <3>1. class'[ToLink].implements = half[ToLink].implements
        BY <2>8, <2>12 DEF ClassFields
      <3>2. QED
        BY <2>9, <2>15, <3>1 DEF Changes, Implements
    <2>17. FollowFiles(class, Filling, Queued)' /\ \A c : IsInterface(c)' <=> IsInterface(c)
      BY <2>2, <2>14, OriginsFilesStay
    <2>18. \A j \in DOMAIN Implements' : j \in ToSet(session'.left) \/ IsInterface(Implements'[j].interface)
      BY <2>10, <2>16
    <2>19. \A j : IsInterface(Implements[j].interface)' <=> IsInterface(Implements'[j].interface)
      BY <2>2 DEF IsInterface, FileOf, NameOf
    <2>20. QED
      BY <2>17, <2>18, <2>19 DEF Origins
  <1>3. QED
    BY <1>1, <1>2

\* What a session leaves is what it published, and copies of java/lang/Object.
LEMMA EndOrigins ==
  ASSUME files \in Worlds, files' = files, NEW cl, NEW l,
         ClassesIn(cl, table'), ClosedIn(cl, table', {}), ImplementedIn(cl),
         NEW filling, NEW queued, FollowFiles(cl, filling, queued), \A c \in queued : ~cl[c].linked,
         Fail(cl, table', l) \/ End(cl, table', l)
  PROVE  Origins'
  <1>1. CASE session' = [Idle EXCEPT !.step = "exited"]
    <2>1. session'.step \in Ended
      BY <1>1 DEF Idle, Ended
    <2>2. QED
      BY <2>1 DEF Origins
  <1>2. CASE End(cl, table', l)
    <2>1. /\ session' = Idle /\ DOMAIN class' \subseteq DOMAIN cl
          /\ \A c \in DOMAIN class' :
               /\ class'[c] = cl[c]
               /\ (c \in InTable(table') \/ (cl[c].parent = NoClass /\ NameOf(c) = Object))
      BY <1>2, EndKeeps
    <2>2. session'.step = "idle"
      BY <2>1 DEF Idle
    <2>3. Filling' = {} /\ Queued' = {}
      BY <2>2 DEF Filling, Queued
    <2>4. ASSUME NEW c \in DOMAIN class'
          PROVE  FollowsFile(class', c, {}, {})
      <3>1. FollowsFile(cl, c, filling, queued) /\ class'[c] = cl[c] /\ NameOf(c) \in Names
        BY <2>1, <2>4 DEF FollowFiles, ClassesIn
      <3>2. cl[c].linked => c \notin queued
        OBVIOUS
      <3>3. ImplementsFiles(cl, c) => ImplementsFiles(class', c)
        BY <3>1 DEF ImplementsFiles
      <3>4. CASE cl[c].linked
        BY <3>1, <3>2, <3>3, <3>4 DEF FollowsFile
      <3>5. CASE ~cl[c].linked
        <4>1. NameOf(c) = Object
          BY <2>1, <2>4, <3>5, TableFacts
        <4>2. FileOf(c).super = NoName /\ DOMAIN cl[c].implements = {}
          BY <2>1, <2>4, <3>1, <4>1, FileFacts DEF ImplementedIn
        <4>3. QED
          BY <3>1, <3>5, <4>2 DEF FollowsFile
      <3>6. QED
        BY <3>4, <3>5
    <2>5. FollowFiles(class', Filling', Queued')
      BY <2>3, <2>4 DEF FollowFiles
    <2>6. QED
      BY <2>2, <2>5, OriginsAtRest
  <1>3. QED
    BY <1>1, <1>2 DEF Fail

LEMMA EndingOrigins ==
  ASSUME IInv, Typing, Origins, DiscoverFails \/ FixupFails \/ Linked
  PROVE  Origins'
  <1>1. /\ session.step \notin Ended /\ session.step # "patch" /\ files' = files /\ table' = table
        /\ Fail(class, table', links) \/ End(class, table', links)
    BY DEF DiscoverFails, FixupFails, Linked, TableAfterFailure, Ended, Astray
  <1>2. /\ files \in Worlds /\ ClassesIn(class, table) /\ ClosedIn(class, table, {})
        /\ session.step = "discover" => Discovering
    BY <1>1 DEF IInv, Session, Ended
  <1>3. \A c \in Queued : ~class[c].linked
    BY <1>2 DEF Queued, Discovering, Unpublished
  <1>4. ImplementedIn(class) /\ FollowFiles(class, Filling, Queued)
    BY <1>1 DEF Typing, Typed, Origins
  <1>5. QED
    BY <1>1, <1>2, <1>3, <1>4, EndOrigins

\* The class that is linked implements interfaces.
LEMMA ToLinkOrigins ==
  ASSUME IInv, Typing, Origins, MayBePublished, table[NameOf(ToLink)] = NoClass
  PROVE  LET cl == WithLinked(class, ToLink)
         IN  FollowFiles(cl, {}, {}) /\ ImplementedIn(cl)
  <1> DEFINE cl == WithLinked(class, ToLink)
  <1>1. /\ session.step = "itable" /\ session.step \notin Ended /\ ToSet(session.left) = {}
    BY DEF MayBePublished, Ended, Astray, ToSet
  <1>2. session.step \in Later /\ session.ancestry # <<>>
    BY <1>1, LaterFacts DEF Later, LinkingOne
  <1>3. /\ ToLink \in DOMAIN class /\ ~IsInterface(ToLink) /\ DOMAIN class[ToLink] = ClassFields
    BY <1>2, ToLinkFacts
  <1>4. /\ DOMAIN cl = DOMAIN class /\ \A d \in DOMAIN class \ {ToLink} : cl[d] = class[d]
        /\ cl[ToLink].linked = TRUE /\ cl[ToLink].parent = class[ToLink].parent
        /\ cl[ToLink].implements = class[ToLink].implements
    BY <1>3, LinkedFacts
  <1> HIDE DEF cl
  <1>5. /\ FollowFiles(class, Filling, Queued) /\ Filling = {ToLink} /\ Queued = {}
        /\ \A k \in DOMAIN Implements : IsInterface(Implements[k].interface)
    BY <1>1 DEF Origins, Filling, Queued
  <1>6. FollowsFile(cl, ToLink, {}, {})
    <2>1. ImplementsFiles(cl, ToLink)
      BY <1>3, <1>4, <1>5 DEF ImplementsFiles, Implements
    <2>2. FollowsFile(class, ToLink, Filling, Queued)
      BY <1>3, <1>5 DEF FollowFiles
    <2>3. QED
      BY <1>4, <1>5, <2>1, <2>2 DEF FollowsFile
  <1>7. FollowFiles(cl, {}, {})
    <2>1. \A d \in DOMAIN cl : \/ FollowsFile(cl, d, {}, {})
                               \/ SameFile(class, cl, d) /\ d \notin Filling /\ d \notin Queued
      BY <1>4, <1>5, <1>6 DEF SameFile
    <2>2. QED
      BY <1>5, <2>1, FollowKeeps
  <1>8. ImplementedIn(cl)
    <2>1. ImplementedIn(class)
      BY <1>1 DEF Typing, Typed, Ended, Astray
    <2>2. \A d \in DOMAIN cl : cl[d].implements = class[d].implements
      BY <1>4
    <2>3. QED
      BY <1>4, <2>1, <2>2 DEF ImplementedIn
  <1>9. QED
    BY <1>7, <1>8 DEF cl

\* The class object changes nothing here.
LEMMA ObjectFollows ==
  ASSUME NEW cl, NEW c \in DOMAIN cl, \A d \in DOMAIN cl : DOMAIN cl[d] = ClassFields,
         FollowFiles(cl, {}, {})
  PROVE  FollowFiles(WithObject(cl, c), {}, {})
  <1> DEFINE new == [cl EXCEPT ![c].object = TRUE]
  <1>1. DOMAIN new = DOMAIN cl /\ \A d \in DOMAIN cl : SameFile(cl, new, d)
    BY DEF SameFile, ClassFields
  <1> HIDE DEF new
  <1>2. FollowFiles(new, {}, {})
    BY <1>1, FollowKeeps
  <1>3. QED
    BY <1>2 DEF new, WithObject

LEMMA FixupOrigins ==
  ASSUME IInv, Typing, Origins, Fixup
  PROVE  Origins'
  <1> DEFINE cl == WithLinked(class, ToLink)
  <1>1. /\ MayBePublished /\ table[NameOf(ToLink)] = NoClass
        /\ table' = Published(ToLink) /\ files' = files
        /\ \/ /\ class' = WithObject(cl, ToLink)
              /\ session' = [session EXCEPT !.ancestry = Tail(@), !.step = "link"]
           \/ Fail(cl, table', links)
    BY DEF Fixup
  <1>2. /\ LinkedIn(cl, table') /\ files \in Worlds /\ session.step \in Later
        /\ DOMAIN cl = DOMAIN class /\ ToLink \in DOMAIN class
    BY <1>1, ToLinkPublished
  <1>3. FollowFiles(cl, {}, {}) /\ ImplementedIn(cl)
    BY <1>1, ToLinkOrigins
  <1> HIDE DEF cl
  <1>4. ClassesIn(cl, table') /\ ClosedIn(cl, table', {})
    BY <1>2 DEF LinkedIn
  <1>5. CASE Fail(cl, table', links)
    <2>1. \A c \in {} : ~cl[c].linked
      OBVIOUS
    <2>2. QED
      BY <1>1, <1>2, <1>3, <1>4, <1>5, <2>1, EndOrigins
  <1>6. CASE /\ class' = WithObject(cl, ToLink)
             /\ session' = [session EXCEPT !.ancestry = Tail(@), !.step = "link"]
    <2>1. session'.step = "link"
      BY <1>2, <1>6, LaterFacts DEF Idle
    <2>2. FollowFiles(class', {}, {})
      BY <1>2, <1>3, <1>4, <1>6, ObjectFollows DEF ClassesIn, Shaped
    <2>3. Filling' = {} /\ Queued' = {}
      BY <2>1 DEF Filling, Queued
    <2>4. QED
      BY <1>1, <2>1, <2>2, <2>3, OriginsAtRest
  <1>7. QED
    BY <1>1, <1>5, <1>6

\* Above a published class that is no interface is java/lang/Object.
LEMMA ObjectPublished ==
  ASSUME files \in Worlds, NEW cl, NEW tbl, ClassesIn(cl, tbl), NEW found, ClosedIn(cl, tbl, found),
         NEW filling, FollowFiles(cl, filling, {}), Concrete(tbl) # {}
  PROVE  tbl[Object] # NoClass
  <1>1. Parents(cl) /\ Concrete(tbl) \subseteq DOMAIN cl
    BY ParentsAreAcyclic, TableFacts DEF Concrete
  <1>2. PICK c \in Concrete(tbl) : cl[c].parent \notin Concrete(tbl)
    BY <1>1 DEF Parents
  <1>3. cl[c].parent = NoClass /\ c \in DOMAIN cl /\ c \in InTable(tbl)
    <2>1. cl[c].parent \in InTable(tbl) \cup {NoClass}
      BY DEF ClosedIn, Concrete
    <2>2. cl[c].parent # NoClass => ~IsInterface(cl[c].parent)
      BY <1>1 DEF ClassesIn
    <2>3. QED
      BY <1>1, <1>2, <2>1, <2>2 DEF Concrete
  <1>4. FileOf(c).super = NoName /\ NameOf(c) \in Names /\ tbl[NameOf(c)] = c
    BY <1>3, TableFacts DEF FollowFiles, FollowsFile
  <1>5. NameOf(c) = Object
    <2>1. \A n \in DOMAIN files : files[n].super = NoName => n = Object
      BY LinkingAssumption
    <2>2. Object # NoName
      BY DEF Object, NoName
    <2>3. QED
      BY <1>4, <2>1, <2>2 DEF FileOf, Names
  <1>6. c # NoClass
    BY <1>3 DEF InTable
  <1>7. QED
    BY <1>4, <1>5, <1>6

ShapedOver(cl, S) == DOMAIN cl = S /\ \A c \in S : DOMAIN cl[c] = ClassFields

\* java/lang/Class is fixed up under java/lang/Object.
LEMMA JlClassOrigins ==
  ASSUME files \in Worlds, NEW cl, NEW tbl, NEW j, ClassesIn(cl, tbl), ClosedIn(cl, tbl, {}),
         FollowFiles(cl, {}, {}), tbl[Object] # NoClass,
         IsPair(j), NameOf(j) = JlClass, j \notin DOMAIN cl
  PROVE  LET child == [WithConverted(cl, {j}) EXCEPT ![j].parent = tbl[Object]]
             new == WithObject(WithLinked(WithVtable(WithFields(child, j), j), j), j)
         IN  FollowFiles(new, {}, {}) /\ ShapedOver(new, DOMAIN cl \cup {j})
  <1> DEFINE child == [WithConverted(cl, {j}) EXCEPT ![j].parent = tbl[Object]]
             fixed == WithVtable(WithFields(child, j), j)
             linked == WithLinked(fixed, j)
             new == [linked EXCEPT ![j].object = TRUE]
  <1>1. IsChild(cl, tbl, j, child)
    BY JlClassConverts
  <1> HIDE DEF child
  <1>2. /\ DOMAIN child = DOMAIN cl \cup {j} /\ \A d \in DOMAIN cl : child[d] = cl[d]
        /\ child[j].implements = <<>> /\ child[j].parent = tbl[Object]
        /\ \A d \in DOMAIN child : DOMAIN child[d] = ClassFields
    BY <1>1 DEF IsChild, ClassesIn, Shaped
  <1>3. SameButMembers(j, child, fixed)
    BY <1>2, MembersKeep
  <1> HIDE DEF fixed
  <1>4. /\ DOMAIN fixed = DOMAIN child /\ \A d \in DOMAIN cl : fixed[d] = cl[d]
        /\ fixed[j].implements = <<>> /\ fixed[j].parent = tbl[Object]
        /\ \A d \in DOMAIN child : DOMAIN fixed[d] = ClassFields
    BY <1>2, <1>3 DEF SameButMembers
  <1>5. /\ DOMAIN linked = DOMAIN fixed /\ \A d \in DOMAIN fixed \ {j} : linked[d] = fixed[d]
        /\ DOMAIN linked[j] = ClassFields /\ linked[j].linked = TRUE
        /\ linked[j].parent = fixed[j].parent /\ linked[j].implements = fixed[j].implements
    <2>1. j \in DOMAIN fixed /\ DOMAIN fixed[j] = ClassFields
      BY <1>2, <1>4
    <2>2. QED
      BY <2>1, LinkedFacts
  <1> HIDE DEF linked
  <1>6. /\ DOMAIN new = DOMAIN cl \cup {j} /\ \A d \in DOMAIN new : DOMAIN new[d] = ClassFields
        /\ \A d \in DOMAIN cl : new[d] = cl[d]
        /\ new[j].linked = TRUE /\ new[j].implements = <<>> /\ new[j].parent = tbl[Object]
    BY <1>2, <1>4, <1>5 DEF ClassFields
  <1> HIDE DEF new
  <1>7. ~IsInterface(j)
    <2>1. files[JlClass].kind # "interface"
      BY LinkingAssumption
    <2>2. FileOf(j) = files[JlClass]
      BY FileFacts DEF FileOf
    <2>3. QED
      BY <2>1, <2>2 DEF IsInterface
  <1>8. FollowsFile(new, j, {}, {})
    BY <1>6, <1>7 DEF FollowsFile, ImplementsFiles
  <1>9. \A d \in DOMAIN new : FollowsFile(new, d, {}, {}) \/ SameFile(cl, new, d)
    BY <1>6, <1>8 DEF SameFile
  <1>10. FollowFiles(new, {}, {})
    BY <1>9, FollowKeeps
  <1>11. QED
    <2>1. ShapedOver(new, DOMAIN cl \cup {j})
      BY <1>6 DEF ShapedOver
    <2>2. QED
      BY <1>10, <2>1 DEF new, linked, fixed, child, WithObject

LEMMA FixupFirstOrigins ==
  ASSUME IInv, Typing, Origins, FixupFirst
  PROVE  Origins'
  <1> DEFINE j == Fresh(JlClass)
             cl == WithLinked(class, ToLink)
             tbl == Published(ToLink)
  <1>1. /\ MayBePublished /\ table[NameOf(ToLink)] = NoClass /\ files' = files
    BY DEF FixupFirst
  <1>2. /\ LinkedIn(cl, tbl) /\ DOMAIN cl = DOMAIN class /\ ToLink \in DOMAIN class
        /\ session.step \in Later /\ session.ancestry # <<>> /\ files \in Worlds
    BY <1>1, ToLinkPublished
  <1>3. FollowFiles(cl, {}, {}) /\ ImplementedIn(cl)
    BY <1>1, ToLinkOrigins
  <1>4. ClassesIn(cl, tbl) /\ ClosedIn(cl, tbl, {})
    BY <1>2 DEF LinkedIn
  <1>5. CASE table' = tbl /\ Fail(cl, table', links)
    <2> HIDE DEF cl, tbl
    <2>1. \A c \in {} : ~cl[c].linked
      OBVIOUS
    <2>2. QED
      BY <1>1, <1>2, <1>3, <1>4, <1>5, <2>1, EndOrigins
  <1>6. CASE /\ tbl[JlClass] = NoClass
             /\ table' = [tbl EXCEPT ![JlClass] = j]
             /\ class' = WithObject(WithJlClass(cl, j), ToLink)
             /\ session' = [session EXCEPT !.ancestry = Tail(@), !.step = "link"]
    <2>1. IsPair(j) /\ NameOf(j) = JlClass /\ j \notin DOMAIN class
      BY <1>2, LaterFacts, FreshFacts DEF ClassesIn
    <2>2. ToLink \in Concrete(tbl)
      <3>1. ~IsInterface(ToLink)
        BY <1>2, ToLinkFacts
      <3>2. ToLink \in InTable(tbl)
        BY <1>2 DEF LinkedIn
      <3>3. QED
        BY <3>1, <3>2 DEF Concrete
    <2> DEFINE both == WithJlClass(cl, j)
               child == [WithConverted(cl, {j}) EXCEPT ![j].parent = tbl[Object]]
               built == WithObject(WithLinked(WithVtable(WithFields(child, j), j), j), j)
    <2>3. both = built
      BY DEF WithJlClass
    <2> HIDE DEF j, cl, tbl, both
    <2>4. tbl[Object] # NoClass
      BY <1>2, <1>3, <1>4, <2>2, ObjectPublished
    <2>5. FollowFiles(built, {}, {}) /\ ShapedOver(built, DOMAIN cl \cup {j})
      BY <1>2, <1>3, <1>4, <2>1, <2>4, JlClassOrigins
    <2> HIDE DEF built
    <2>6. class' = WithObject(built, ToLink)
      BY <1>6, <2>3 DEF both
    <2>7. FollowFiles(class', {}, {})
      BY <1>2, <2>5, <2>6, ObjectFollows DEF ShapedOver
    <2>8. session'.step = "link"
      BY <1>2, <1>6, LaterFacts DEF Idle
    <2>9. Filling' = {} /\ Queued' = {}
      BY <2>8 DEF Filling, Queued
    <2>10. QED
      BY <1>1, <2>7, <2>8, <2>9, OriginsAtRest
  <1>7. QED
    BY <1>5, <1>6 DEF FixupFirst

\* The superclass of an array class is java/lang/Object.
LEMMA LoadArrayOrigins ==
  ASSUME IInv, Origins, LoadArray
  PROVE  Origins'
  <1> DEFINE c == <<ArrayName, 1>>
             array == [Converted(Object) EXCEPT
                         !.parent = table[Object], !.linked = TRUE, !.object = TRUE,
                         !.vtable = class[table[Object]].vtable, !.vtableIndex = <<>>,
                         !.interfaceIndex = <<>>, !.offset = <<>>,
                         !.size = class[table[Object]].size]
  <1>1. /\ session.step = "idle" /\ table[ArrayName] = NoClass /\ table[Object] # NoClass
        /\ class' = Added(class, {c}, LAMBDA d : array)
        /\ files' = files /\ session' = session
    BY DEF LoadArray
  <1>2. session.step \notin Ended /\ session'.step \notin Ended /\ session'.step # "itable"
    BY <1>1 DEF Ended, Astray
  <1>3. FollowFiles(class, {}, {}) /\ Filling' = {} /\ Queued' = {}
    BY <1>1, <1>2 DEF Origins, Filling, Queued
  <1>4. array.implements = <<>> /\ array.linked = TRUE /\ array.parent = table[Object]
    BY DEF Converted
  <1> HIDE DEF array
  <1>5. /\ DOMAIN class' = DOMAIN class \cup {c} /\ \A d \in DOMAIN class \ {c} : class'[d] = class[d]
        /\ class'[c] = array
    BY <1>1 DEF Added
  <1>6. ~IsInterface(c)
    BY DEF IsInterface, FileOf, NameOf
  <1> HIDE DEF c
  <1>7. FollowsFile(class', c, {}, {})
    <2>1. class'[c].parent # NoClass /\ class'[c].linked = TRUE /\ class'[c].implements = <<>>
      BY <1>1, <1>4, <1>5
    <2>2. DOMAIN class'[c].implements = {}
      BY <2>1
    <2>3. QED
      BY <1>6, <2>1, <2>2 DEF FollowsFile, ImplementsFiles
  <1>8. \A d \in DOMAIN class' : FollowsFile(class', d, {}, {}) \/ SameFile(class, class', d)
    BY <1>5, <1>7 DEF SameFile
  <1>9. FollowFiles(class', {}, {})
    BY <1>3, <1>8, FollowKeeps
  <1>10. QED
    BY <1>1, <1>2, <1>3, <1>9, OriginsAtRest

LEMMA NextOrigins ==
  ASSUME IInv, Typing, Origins, IInv', Next
  PROVE  Origins'
  <1>1. CASE SessionStep
    <2>1. CASE \/ Discovered \/ ListAncestor \/ AncestorsListed \/ PatchEnd \/ FlattenStart \/ ListRoot
               \/ RootsListed \/ FlattenOne \/ ListExtended \/ ExtendedListed \/ Filled
      BY <2>1, SearchOrigins
    <2>2. CASE Discover
      BY <2>2, DiscoverOrigins
    <2>3. CASE DiscoverInterface
      BY <2>3, DiscoverInterfaceOrigins
    <2>4. CASE PatchInterface
      BY <2>4, PatchOrigins
    <2>5. CASE FlattenEnd
      BY <2>5, FlattenEndOrigins
    <2>6. CASE FillOne
      BY <2>6, FillOneOrigins
    <2>7. CASE FixupMembers
      BY <2>7, FixupMembersOrigins
    <2>8. CASE FixupImplementation
      BY <2>8, FixupImplementationOrigins
    <2>9. CASE Fixup
      BY <2>9, FixupOrigins
    <2>10. CASE FixupFirst
      BY <2>10, FixupFirstOrigins
    <2>11. CASE DiscoverFails \/ FixupFails \/ Linked
      BY <2>11, EndingOrigins
    <2>12. QED
      BY <1>1, <2>1, <2>2, <2>3, <2>4, <2>5, <2>6, <2>7, <2>8, <2>9, <2>10, <2>11 DEF SessionStep
  <1>2. CASE LoadArray
    BY <1>2, LoadArrayOrigins
  <1>3. ASSUME NEW name \in Names, NEW d \in Depths \cup {MainDepth}, Load(name, d)
        PROVE  Origins'
    BY <1>3, LoadOrigins
  <1>4. QED
    BY <1>1, <1>2, <1>3 DEF Next

\* Between the steps of sessions and between sessions, every class has the superclass its
\* class file names, a published interface extends the interfaces its class file names, and
\* what a published class implements are interfaces: whatever was converted twice, missing
\* from a list or forgotten by class_link.
THEOREM OriginsInductive == Spec => []Origins
  <1>1. Init => Origins
    <2> SUFFICES ASSUME Init
                 PROVE  Origins
      OBVIOUS
    <2>1. class = <<>> /\ session.step = "idle"
      BY DEF Init, Idle
    <2>2. DOMAIN class = {}
      BY <2>1
    <2>3. QED
      BY <2>1, <2>2 DEF Origins, FollowFiles
  <1>2. IInv /\ IInv' /\ Typing /\ Origins /\ [Next]_vars => Origins'
    <2>1. ASSUME IInv, Origins, UNCHANGED vars
          PROVE  Origins'
      <3>1. UNCHANGED <<files, class, table, session>>
        BY <2>1 DEF vars
      <3>2. CASE session.step \notin Ended
        <4>1. /\ FollowFiles(class, Filling, Queued)
              /\ session.step = "itable" =>
                   \A k \in DOMAIN Implements : k \in ToSet(session.left) \/ IsInterface(Implements[k].interface)
          BY <2>1, <3>2 DEF Origins
        <4>2. ToLink' = ToLink /\ Implements' = Implements
          BY <3>1 DEF ToLink, Implements
        <4>3. Filling' = Filling /\ Queued' = Queued
          BY <3>1, <4>2 DEF Filling, Queued
        <4>4. FollowFiles(class, Filling, Queued)'
          BY <3>1, <4>1, <4>3, OriginsFilesStay
        <4>5. \A i : IsInterface(i)' <=> IsInterface(i)
          BY <3>1, OriginsFilesStay
        <4>6. \A k : Implements'[k].interface = Implements[k].interface
          BY <4>2
        <4>7. session.step = "itable" =>
                \A k \in DOMAIN Implements : k \in ToSet(session.left) \/ IsInterface(Implements[k].interface)'
          BY <3>1, <4>1 DEF IsInterface, FileOf, NameOf, Implements, ToLink
        <4>8. QED
          BY <3>1, <4>2, <4>4, <4>7 DEF Origins
      <3>3. CASE session.step \in Ended
        BY <3>1, <3>3 DEF Origins
      <3>4. QED
        BY <3>2, <3>3
    <2>2. QED
      BY <2>1, NextOrigins
  <1>3. QED
    BY <1>1, <1>2, LinkingInductive, TypingInductive, PTL DEF Spec

----------------------------------------------------------------------------
(* Supertypes by the class files *)

\* The supertypes a class file names
Up(n) == ToSet(Wanted(<<n, 1>>))

LEMMA UpFacts ==
  ASSUME files \in Worlds
  PROVE  /\ \A c : NameOf(c) \in Names =>
              Up(NameOf(c)) = (IF FileOf(c).super = NoName THEN {} ELSE {FileOf(c).super})
                                \cup ToSet(FileOf(c).ifaces)
         /\ \A n \in Names : Up(n) \subseteq DOMAIN files
         /\ \A S \in SUBSET Names : S # {} => \E n \in S : Up(n) \cap S = {}
  <1>1. ASSUME NEW c, NameOf(c) \in Names
        PROVE  /\ Up(NameOf(c)) = (IF FileOf(c).super = NoName THEN {} ELSE {FileOf(c).super})
                                    \cup ToSet(FileOf(c).ifaces)
               /\ Up(NameOf(c)) \subseteq DOMAIN files
    <2> DEFINE d == <<NameOf(c), 1>>
    <2>1. FileOf(d) = FileOf(c)
      BY DEF FileOf, NameOf
    <2>2. /\ FileOf(c).super \in DOMAIN files \cup {NoName} /\ FileOf(c).ifaces \in Seq(DOMAIN files)
      BY <1>1, FileFacts
    <2>3. Up(NameOf(c)) = ToSet(Wanted(d))
      BY DEF Up
    <2> HIDE DEF d
    <2>4. CASE FileOf(c).super = NoName
      <3>1. <<>> \o FileOf(c).ifaces = FileOf(c).ifaces
        BY <2>2
      <3>2. Wanted(d) = FileOf(c).ifaces
        BY <2>1, <2>4, <3>1 DEF Wanted
      <3>3. ToSet(FileOf(c).ifaces) \subseteq DOMAIN files
        BY <2>2 DEF ToSet
      <3>4. QED
        BY <2>3, <2>4, <3>2, <3>3
    <2>5. CASE FileOf(c).super # NoName
      <3>1. Wanted(d) = <<FileOf(c).super>> \o FileOf(c).ifaces
        BY <2>1, <2>5 DEF Wanted
      <3>2. ToSet(<<FileOf(c).super>> \o FileOf(c).ifaces) = {FileOf(c).super} \cup ToSet(FileOf(c).ifaces)
        BY <2>2, <2>5, ConsFacts
      <3>3. ToSet(FileOf(c).ifaces) \subseteq DOMAIN files
        BY <2>2 DEF ToSet
      <3>4. QED
        BY <2>2, <2>3, <2>5, <3>1, <3>2, <3>3
    <2>6. QED
      BY <2>4, <2>5
  <1>2. ASSUME NEW n \in Names
        PROVE  NameOf(<<n, 1>>) = n /\ Up(n) \subseteq DOMAIN files
    <2>1. NameOf(<<n, 1>>) = n
      BY DEF NameOf
    <2>2. QED
      BY <1>1, <2>1
  <1>3. ASSUME NEW S \in SUBSET Names, S # {}
        PROVE  \E n \in S : Up(n) \cap S = {}
    <2> DEFINE T == S \cap DOMAIN files
    <2>1. CASE T = {}
      BY <1>2, <1>3, <2>1
    <2>2. CASE T # {}
      <3>1. PICK n \in T : /\ files[n].super \notin T
                           /\ \A i \in DOMAIN files[n].ifaces : files[n].ifaces[i] \notin T
        <4>1. \A U \in SUBSET DOMAIN files : U # {} =>
                \E n \in U : /\ files[n].super \notin U
                             /\ \A i \in DOMAIN files[n].ifaces : files[n].ifaces[i] \notin U
          BY LinkingAssumption
        <4>2. T \in SUBSET DOMAIN files
          OBVIOUS
        <4> HIDE DEF T
        <4>3. QED
          BY <2>2, <4>1, <4>2
      <3>2. FileOf(<<n, 1>>) = files[n] /\ NameOf(<<n, 1>>) = n /\ n \in Names
        BY FileFacts DEF FileOf, NameOf, Names
      <3>3. Up(n) = (IF files[n].super = NoName THEN {} ELSE {files[n].super}) \cup ToSet(files[n].ifaces)
        BY <1>1, <3>2
      <3>4. Up(n) \cap T = {}
        BY <3>1, <3>3 DEF ToSet
      <3>5. QED
        BY <1>2, <3>1, <3>2, <3>4
    <2>3. QED
      BY <2>1, <2>2
  <1>4. QED
    BY <1>1, <1>2, <1>3

\* What is reached from x by R, a function from a set to its subsets
Reach(R, x) ==
  {y \in DOMAIN R :
     \A T \in SUBSET DOMAIN R : x \in T /\ (\A z \in T : R[z] \subseteq T) => y \in T}

LEMMA ReachUnfolds ==
  ASSUME NEW R, \A x \in DOMAIN R : R[x] \in SUBSET DOMAIN R, NEW x \in DOMAIN R
  PROVE  Reach(R, x) = {x} \cup UNION {Reach(R, m) : m \in R[x]}
  <1>1. \A m \in DOMAIN R : m \in Reach(R, m)
    BY DEF Reach
  <1>2. ASSUME NEW m \in R[x], NEW y \in Reach(R, m)
        PROVE  y \in Reach(R, x)
    BY <1>2 DEF Reach
  <1>3. ASSUME NEW y \in Reach(R, x)
        PROVE  y \in {x} \cup UNION {Reach(R, m) : m \in R[x]}
    <2> DEFINE T == {x} \cup UNION {Reach(R, m) : m \in R[x]}
    <2>1. T \in SUBSET DOMAIN R
      BY DEF Reach
    <2>2. ASSUME NEW z \in T, NEW w \in R[z]
          PROVE  w \in T
      <3>1. CASE z = x
        BY <1>1, <2>2, <3>1
      <3>2. CASE z # x
        <4>1. PICK m \in R[x] : z \in Reach(R, m)
          BY <2>2, <3>2
        <4>2. w \in DOMAIN R
          BY <2>1, <2>2
        <4>3. w \in Reach(R, m)
          BY <2>2, <4>1, <4>2 DEF Reach
        <4>4. QED
          BY <4>3
      <3>3. QED
        BY <3>1, <3>2
    <2> HIDE DEF T
    <2>3. x \in T
      BY DEF T
    <2>4. y \in T
      BY <1>3, <2>1, <2>2, <2>3 DEF Reach
    <2>5. QED
      BY <2>4 DEF T
  <1>4. QED
    BY <1>1, <1>2, <1>3

\* The equation Supertypes is defined by
LEMMA SupertypesUnfold ==
  ASSUME files \in Worlds, NEW n \in Names
  PROVE  Supertypes(n) = {n} \cup UNION {Supertypes(m) : m \in Up(n)}
  <1> DEFINE R == [k \in Names |-> Up(k)]
             Equation(f) == f = [k \in Names |-> {k} \cup UNION {f[m] : m \in Up(k)}]
             g == [k \in Names |-> Reach(R, k)]
             up == CHOOSE f : Equation(f)
  <1>1. \A k \in Names : Up(k) \subseteq Names
    BY UpFacts DEF Names
  <1>2. DOMAIN R = Names /\ \A k \in Names : R[k] = Up(k)
    OBVIOUS
  <1> HIDE DEF R
  <1>3. \A k \in Names : Reach(R, k) = {k} \cup UNION {Reach(R, m) : m \in Up(k)}
    BY <1>1, <1>2, ReachUnfolds
  <1>4. \A k \in Names : {g[m] : m \in Up(k)} = {Reach(R, m) : m \in Up(k)}
    BY <1>1
  <1>5. Equation(g)
    BY <1>3, <1>4
  <1> HIDE DEF g
  <1>6. Equation(up)
    BY <1>5
  <1>7. \A k : Supertypes(k) = up[k]
    BY DEF Supertypes, Up
  <1> HIDE DEF up
  <1>8. up[n] = {n} \cup UNION {up[m] : m \in Up(n)}
    BY <1>6
  <1>9. QED
    BY <1>7, <1>8

\* The other supertypes of a name
Above(n) == UNION {Supertypes(m) : m \in Up(n)}

\* Supertypes are transitive and acyclic; java/lang/Object is one of every name, and the
\* others an interface has are interfaces.
LEMMA SupertypesFacts ==
  ASSUME files \in Worlds
  PROVE  /\ \A n \in Names : Supertypes(n) = {n} \cup Above(n) /\ Supertypes(n) \subseteq Names
         /\ \A n \in Names : \A m \in Above(n) : Supertypes(m) \subseteq Above(n)
         /\ \A S \in SUBSET Names : S # {} => \E n \in S : Above(n) \cap S = {}
         /\ \A n \in Names : Object \in Supertypes(n)
         /\ \A n \in DOMAIN files : files[n].kind = "interface" =>
              \A m \in Supertypes(n) : m = Object \/ files[m].kind = "interface"
  <1>1. \A n \in Names : Supertypes(n) = {n} \cup Above(n)
    BY SupertypesUnfold DEF Above
  <1>2. \A n \in Names : Up(n) \subseteq Names
    BY UpFacts DEF Names
  <1>3. \A n \in Names : \A m : m \in Above(n) <=> \E u \in Up(n) : m \in Supertypes(u)
    BY DEF Above
  <1>4. \A S \in SUBSET Names : S # {} => \E n \in S : Up(n) \cap S = {}
    BY UpFacts
  <1>5. \A n \in Names : Supertypes(n) \subseteq Names
    <2> DEFINE B == {n \in Names : ~(Supertypes(n) \subseteq Names)}
    <2>1. ASSUME NEW n \in B, Up(n) \cap B = {}
          PROVE  FALSE
      BY <1>1, <1>2, <1>3, <2>1
    <2>2. QED
      BY <1>4, <2>1
  <1>6. ASSUME NEW n \in Names, NEW m \in Supertypes(n)
        PROVE  Supertypes(m) \subseteq Supertypes(n)
    <2> DEFINE B == {k \in Names : ~(\A l \in Supertypes(k) : Supertypes(l) \subseteq Supertypes(k))}
    <2>1. ASSUME NEW k \in B, Up(k) \cap B = {}
          PROVE  FALSE
      <3>1. \A u \in Up(k) : Supertypes(u) \subseteq Supertypes(k)
        BY <1>1, <1>3
      <3>2. ASSUME NEW l \in Above(k)
            PROVE  Supertypes(l) \subseteq Supertypes(k)
        <4>1. PICK u \in Up(k) : l \in Supertypes(u)
          BY <1>3, <3>2
        <4>2. u \in Names /\ u \notin B
          BY <1>2, <2>1
        <4>3. QED
          BY <3>1, <4>1, <4>2
      <3>3. QED
        BY <1>1, <3>2
    <2>2. B = {}
      BY <1>4, <2>1
    <2>3. QED
      BY <1>6, <2>2
  <1>7. ASSUME NEW n \in Names, NEW m \in Above(n)
        PROVE  Supertypes(m) \subseteq Above(n)
    <2>1. PICK u \in Up(n) : m \in Supertypes(u)
      BY <1>3, <1>7
    <2>2. Supertypes(m) \subseteq Supertypes(u)
      BY <1>2, <1>6, <2>1
    <2>3. QED
      BY <1>3, <2>2
  <1>8. ASSUME NEW S \in SUBSET Names, S # {}
        PROVE  \E n \in S : Above(n) \cap S = {}
    <2> DEFINE N == {n \in Names : Supertypes(n) \cap S # {}}
    <2>1. \A n \in S : n \in N
      BY <1>1
    <2>2. N # {} /\ N \in SUBSET Names
      BY <1>8, <2>1
    <2>3. PICK n \in N : Up(n) \cap N = {}
      <3> HIDE DEF N
      <3>1. QED
        BY <1>4, <2>2
    <2>4. Above(n) \cap S = {}
      <3>1. ASSUME NEW m \in Above(n), m \in S
            PROVE  FALSE
        <4>1. PICK u \in Up(n) : m \in Supertypes(u)
          BY <1>3, <3>1
        <4>2. u \in N
          BY <1>2, <3>1, <4>1
        <4>3. QED
          BY <2>3, <4>2
      <3>2. QED
        BY <3>1
    <2>5. n \in S
      BY <1>1, <2>4
    <2>6. QED
      BY <2>4, <2>5
  <1>9. \A n \in Names : Object \in Supertypes(n)
    <2> DEFINE B == {n \in Names : Object \notin Supertypes(n)}
    <2>1. ASSUME NEW n \in B, Up(n) \cap B = {}
          PROVE  FALSE
      <3>1. n \in Names /\ Object \notin Supertypes(n)
        OBVIOUS
      <3>2. n # Object
        BY <1>1, <3>1
      <3>3. FileOf(<<n, 1>>).super # NoName
        <4>1. CASE n = ArrayName
          BY <4>1 DEF FileOf, NameOf, Object, NoName
        <4>2. CASE n # ArrayName
          <5>1. n \in DOMAIN files /\ FileOf(<<n, 1>>) = files[n]
            BY <3>1, <4>2 DEF FileOf, NameOf, Names
          <5>2. files[n].super = NoName => n = Object
            BY <5>1, LinkingAssumption
          <5>3. QED
            BY <3>2, <5>1, <5>2
        <4>3. QED
          BY <4>1, <4>2
      <3>4. NameOf(<<n, 1>>) = n
        BY DEF NameOf
      <3>5. PICK u \in Up(n) : TRUE
        BY <3>1, <3>3, <3>4, UpFacts
      <3>6. u \in Names /\ u \notin B
        BY <1>2, <2>1, <3>1
      <3>7. Object \in Supertypes(u)
        BY <3>6
      <3>8. QED
        BY <1>1, <1>3, <3>1, <3>7
    <2>2. QED
      BY <1>4, <2>1
  <1>10. ASSUME NEW n \in DOMAIN files, files[n].kind = "interface", NEW m \in Supertypes(n)
         PROVE  m = Object \/ files[m].kind = "interface"
    <2> DEFINE Fine(k) == \A l \in Supertypes(k) : l = Object \/ files[l].kind = "interface"
               B == {k \in DOMAIN files : files[k].kind = "interface" /\ ~Fine(k)}
    <2>1. ASSUME NEW k \in B, Up(k) \cap B = {}
          PROVE  FALSE
      <3>1. k \in DOMAIN files /\ files[k].kind = "interface" /\ k \in Names
        BY DEF Names
      <3>2. FileOf(<<k, 1>>) = files[k] /\ NameOf(<<k, 1>>) = k
        BY <3>1, FileFacts DEF FileOf, NameOf
      <3>3. Up(k) \subseteq {Object} \cup ToSet(files[k].ifaces)
        <4>1. files[k].super = Object
          BY <3>1, LinkingAssumption
        <4>2. Up(k) = (IF files[k].super = NoName THEN {} ELSE {files[k].super}) \cup ToSet(files[k].ifaces)
          BY <3>1, <3>2, UpFacts
        <4>3. QED
          BY <4>1, <4>2
      <3>4. ASSUME NEW u \in ToSet(files[k].ifaces)
            PROVE  u \in DOMAIN files /\ files[u].kind = "interface"
        <4>1. PICK i \in DOMAIN files[k].ifaces : u = files[k].ifaces[i]
          BY DEF ToSet
        <4>2. files[k].ifaces \in Seq(DOMAIN files) /\ files[files[k].ifaces[i]].kind = "interface"
          BY <3>1, <4>1, LinkingAssumption
        <4>3. QED
          BY <4>1, <4>2
      <3>5. Fine(Object)
        <4>1. Object \in Names /\ FileOf(<<Object, 1>>) = files[Object] /\ NameOf(<<Object, 1>>) = Object
          BY FileFacts DEF FileOf, NameOf, Names
        <4>2. files[Object].super = NoName /\ files[Object].ifaces = <<>>
          BY LinkingAssumption
        <4>3. Up(Object) = {}
          BY <4>1, <4>2, UpFacts DEF ToSet
        <4>4. QED
          BY <1>1, <1>3, <4>1, <4>3
      <3>6. \A u \in Up(k) : Fine(u)
        BY <2>1, <3>3, <3>4, <3>5
      <3>7. QED
        BY <1>1, <1>3, <3>1, <3>6
    <2>2. B \in SUBSET Names
      BY DEF Names
    <2> HIDE DEF B
    <2>3. B = {}
      BY <1>4, <2>1, <2>2
    <2>4. QED
      BY <1>10, <2>3 DEF B
  <1>11. QED
    BY <1>1, <1>5, <1>7, <1>8, <1>9, <1>10

----------------------------------------------------------------------------
(* Casts *)

\* The classes class_is_compatible goes on to
Refers(c) == Implemented(c) \cup ({class[c].parent} \ {NoClass})

\* The equation Compatible is defined by
LEMMA CompatibleUnfolds ==
  ASSUME \A e \in DOMAIN class : Refers(e) \subseteq DOMAIN class, NoClass \notin DOMAIN class,
         NEW c \in DOMAIN class, NEW d
  PROVE  Compatible(c, d) <=> c = d \/ \E m \in Refers(c) : Compatible(m, d)
  <1> DEFINE R == [e \in DOMAIN class |-> Refers(e)]
             Body(f, e) == \/ e = d
                           \/ \E i \in DOMAIN class[e].implements : f[class[e].implements[i].interface]
                           \/ class[e].parent # NoClass /\ f[class[e].parent]
             Equation(f) == f = [e \in DOMAIN class |-> Body(f, e)]
             g == [e \in DOMAIN class |-> d \in Reach(R, e)]
             to == CHOOSE f : Equation(f)
  <1>1. ASSUME NEW f, NEW e
        PROVE  Body(f, e) <=> e = d \/ \E m \in Refers(e) : f[m]
    BY DEF Refers, Implemented
  <1>2. DOMAIN R = DOMAIN class /\ \A e \in DOMAIN class : R[e] = Refers(e)
    OBVIOUS
  <1> HIDE DEF R
  <1>3. ASSUME NEW e \in DOMAIN class, d \in DOMAIN class
        PROVE  d \in Reach(R, e) <=> e = d \/ \E m \in Refers(e) : d \in Reach(R, m)
    <2>1. Reach(R, e) = {e} \cup UNION {Reach(R, m) : m \in Refers(e)}
      BY <1>2, ReachUnfolds
    <2>2. QED
      BY <2>1
  <1>4. ASSUME NEW e \in DOMAIN class, d \notin DOMAIN class
        PROVE  d \in Reach(R, e) <=> e = d \/ \E m \in Refers(e) : d \in Reach(R, m)
    BY <1>2, <1>4 DEF Reach
  <1>5. \A e \in DOMAIN class : g[e] <=> Body(g, e)
    <2>1. \A e \in DOMAIN class : g[e] <=> d \in Reach(R, e)
      OBVIOUS
    <2> HIDE DEF g, Body
    <2>2. ASSUME NEW e \in DOMAIN class
          PROVE  g[e] <=> Body(g, e)
      <3>1. \A m \in Refers(e) : g[m] <=> d \in Reach(R, m)
        BY <2>1
      <3>2. g[e] <=> e = d \/ \E m \in Refers(e) : g[m]
        BY <1>3, <1>4, <2>1, <3>1
      <3>3. QED
        BY <1>1, <3>2
    <2>3. QED
      BY <2>2
  <1>6. Equation(g)
    <2>1. \A e \in DOMAIN class : g[e] = Body(g, e)
      <3>1. \A e \in DOMAIN class : g[e] \in BOOLEAN
        OBVIOUS
      <3>2. \A e : Body(g, e) \in BOOLEAN
        OBVIOUS
      <3> HIDE DEF g, Body
      <3>3. QED
        BY <1>5, <3>1, <3>2
    <2>2. g = [e \in DOMAIN class |-> g[e]]
      OBVIOUS
    <2> HIDE DEF g, Body
    <2>3. QED
      BY <2>1, <2>2
  <1> HIDE DEF g
  <1>7. Equation(to)
    BY <1>6
  <1>8. \A e : Compatible(e, d) <=> to[e]
    BY DEF Compatible
  <1> HIDE DEF to
  <1>9. to[c] <=> Body(to, c)
    <2> HIDE DEF Body
    <2>1. to = [e \in DOMAIN class |-> Body(to, e)]
      BY <1>7
    <2>2. to[c] = Body(to, c)
      BY <2>1
    <2>3. QED
      BY <2>2
  <1>10. QED
    BY <1>1, <1>8, <1>9

\* What is known between two classes of a session and between sessions
LEMMA SettledFacts ==
  ASSUME IInv, Typing, Origins, ClassesComplete
  PROVE  /\ files \in Worlds /\ Parents(class)
         /\ ClassesIn(class, table) /\ ClosedIn(class, table, {}) /\ InterfacesIn(class, table)
         /\ FollowFiles(class, {}, {}) /\ ImplementedIn(class)
  <1>1. session.step \in {"idle", "link"} /\ session.step \notin Ended
    BY DEF ClassesComplete, Ended, Astray
  <1>2. files \in Worlds /\ Session
    BY <1>1 DEF IInv, Ended
  <1>3. ClassesIn(class, table) /\ ClosedIn(class, table, {}) /\ InterfacesIn(class, table)
    BY <1>1, <1>2 DEF Session, Later, LinkingOne
  <1>4. FollowFiles(class, {}, {}) /\ ImplementedIn(class)
    BY <1>1 DEF Origins, Filling, Queued, Typing, Typed
  <1>5. QED
    BY <1>2, <1>3, <1>4, ParentsAreAcyclic

\* A class refers to its superclass, by the name in its class file, and to interfaces, an
\* interface to those its class file names.
LEMMA RefersFacts ==
  ASSUME files \in Worlds, ClassesIn(class, table), ClosedIn(class, table, {}),
         FollowFiles(class, {}, {}), ImplementedIn(class), NEW e \in DOMAIN class
  PROVE  /\ Refers(e) \subseteq DOMAIN class
         /\ class[e].parent # NoClass =>
              /\ class[e].parent \in DOMAIN class /\ ~IsInterface(class[e].parent)
              /\ NameOf(class[e].parent) \in Up(NameOf(e)) /\ NameOf(class[e].parent) = FileOf(e).super
         /\ \A m \in Implemented(e) :
              /\ m \in InTable(table) /\ IsInterface(m) /\ NameOf(e) # Object
              /\ IsInterface(e) => NameOf(m) \in ToSet(FileOf(e).ifaces)
  <1>1. /\ NameOf(e) \in Names
        /\ class[e].parent # NoClass =>
             /\ class[e].parent \in DOMAIN class /\ ~IsInterface(class[e].parent)
             /\ NameOf(class[e].parent) = FileOf(e).super /\ NameOf(class[e].parent) \in Names
    BY DEF ClassesIn
  <1>2. class[e].parent # NoClass => NameOf(class[e].parent) \in Up(NameOf(e))
    <2>1. Up(NameOf(e)) = (IF FileOf(e).super = NoName THEN {} ELSE {FileOf(e).super}) \cup ToSet(FileOf(e).ifaces)
      BY <1>1, UpFacts
    <2>2. QED
      BY <1>1, <2>1, FileFacts
  <1>3. ASSUME NEW m \in Implemented(e)
        PROVE  /\ m \in InTable(table) /\ IsInterface(m) /\ NameOf(e) # Object
               /\ IsInterface(e) => NameOf(m) \in ToSet(FileOf(e).ifaces)
    <2>1. PICK k \in DOMAIN class[e].implements : m = class[e].implements[k].interface
      BY DEF Implemented
    <2>2. class[e].linked /\ ImplementsFiles(class, e)
      BY <2>1 DEF FollowFiles, FollowsFile
    <2>3. e \in InTable(table)
      <3>1. table[NameOf(e)] = e /\ e # NoClass
        BY <1>1, <2>2, PairFacts DEF ClassesIn
      <3>2. QED
        BY <1>1, <3>1 DEF InTable
    <2>4. m \in InTable(table)
      BY <2>1, <2>3 DEF ClosedIn
    <2>5. NameOf(e) # Object
      BY <2>1 DEF ImplementedIn
    <2>6. CASE IsInterface(e)
      <3>1. NameOf(m) \in ToSet(FileOf(e).ifaces)
        BY <2>1, <2>2, <2>6 DEF ImplementsFiles
      <3>2. IsInterface(m)
        BY <1>1, <2>6, <3>1, FileFacts
      <3>3. QED
        BY <2>4, <2>5, <3>1, <3>2
    <2>7. CASE ~IsInterface(e)
      BY <2>1, <2>2, <2>4, <2>5, <2>7 DEF ImplementsFiles
    <2>8. QED
      BY <2>6, <2>7
  <1>4. Refers(e) \subseteq DOMAIN class
    BY <1>1, <1>3, TableFacts DEF Refers
  <1>5. QED
    BY <1>1, <1>2, <1>3, <1>4

\* A cast goes on to supertypes only.
LEMMA CastsFollow ==
  ASSUME IInv, Typing, Origins, ClassesComplete, NEW c \in DOMAIN class,
         \A e \in ToSet(Chain(class, c)) : ImplementedNames(e) = DeclaredInterfaces(e),
         NEW d, Compatible(c, d)
  PROVE  NameOf(d) \in Supertypes(NameOf(c))
  <1> DEFINE chain == ToSet(Chain(class, c))
             G == chain \cup {e \in DOMAIN class : IsInterface(e) \/ NameOf(e) = Object}
             bad == {e \in G : Compatible(e, d) /\ NameOf(d) \notin Supertypes(NameOf(e))}
             S == {NameOf(e) : e \in bad}
  <1>1. /\ files \in Worlds /\ Parents(class)
        /\ ClassesIn(class, table) /\ ClosedIn(class, table, {})
        /\ FollowFiles(class, {}, {}) /\ ImplementedIn(class)
    BY SettledFacts
  <1>2. c \in chain /\ chain \subseteq DOMAIN class /\ \A e \in DOMAIN class : e \in ToSet(Chain(class, e))
    <2>1. Chain(class, c) \in Seq(DOMAIN class)
      BY <1>1, ChainFacts
    <2>2. ToSet(Chain(class, c)) \subseteq DOMAIN class
      BY <2>1 DEF ToSet
    <2>3. \A e \in DOMAIN class : e \in ToSet(Chain(class, e))
      BY <1>1, ChainSet
    <2>4. QED
      BY <2>2, <2>3
  <1>3. \A e \in chain : class[e].parent # NoClass => class[e].parent \in chain
    <2>1. ASSUME NEW e \in chain, class[e].parent # NoClass
          PROVE  class[e].parent \in chain
      <3>1. class[e].parent \in DOMAIN class /\ class[e].parent \in ToSet(Chain(class, e))
        BY <1>1, <1>2, <2>1, ChainSet
      <3>2. ToSet(Chain(class, e)) \subseteq chain
        BY <1>1, <1>2, ChainAbove
      <3>3. QED
        BY <3>1, <3>2
    <2>2. QED
      BY <2>1
  <1>4. \A e \in DOMAIN class : NameOf(e) \in Names
    BY <1>1 DEF ClassesIn
  <1>5. \A e \in chain : ImplementedNames(e) = DeclaredInterfaces(e)
    OBVIOUS
  <1> HIDE DEF chain
  <1>6. G \subseteq DOMAIN class
    BY <1>2
  <1>7. ASSUME NEW e \in G, NEW m \in Refers(e)
        PROVE  m \in G /\ NameOf(m) \in Above(NameOf(e))
    <2>1. /\ e \in DOMAIN class /\ m \in DOMAIN class /\ NameOf(e) \in Names /\ NameOf(m) \in Names
      BY <1>1, <1>4, <1>6, RefersFacts
    <2>2. NameOf(m) \in Supertypes(NameOf(m))
      BY <1>1, <2>1, SupertypesFacts
    <2>3. CASE m = class[e].parent
      <3>1. m # NoClass
        BY <1>1, <2>1 DEF Parents
      <3>2. NameOf(m) \in Up(NameOf(e)) /\ NameOf(m) = FileOf(e).super
        BY <1>1, <2>1, <2>3, <3>1, RefersFacts
      <3>3. NameOf(m) \in Above(NameOf(e))
        BY <2>2, <3>2 DEF Above
      <3>4. NameOf(e) # Object /\ (IsInterface(e) => NameOf(m) = Object)
        BY <1>1, <2>1, <3>2, FileFacts
      <3>5. QED
        BY <1>3, <2>1, <2>3, <3>1, <3>3, <3>4
    <2>4. CASE m \in Implemented(e)
      <3>1. /\ IsInterface(m) /\ NameOf(e) # Object
            /\ IsInterface(e) => NameOf(m) \in ToSet(FileOf(e).ifaces)
        BY <1>1, <2>1, <2>4, RefersFacts
      <3>2. Up(NameOf(e)) = (IF FileOf(e).super = NoName THEN {} ELSE {FileOf(e).super}) \cup ToSet(FileOf(e).ifaces)
        BY <1>1, <2>1, UpFacts
      <3>3. CASE IsInterface(e)
        <4>1. NameOf(m) \in Up(NameOf(e))
          BY <3>1, <3>2, <3>3
        <4>2. QED
          BY <2>1, <2>2, <3>1, <4>1 DEF Above
      <3>4. CASE ~IsInterface(e)
        <4>1. NameOf(m) \in DeclaredInterfaces(e)
          BY <1>5, <2>4, <3>1, <3>4 DEF ImplementedNames
        <4>2. PICK u \in ToSet(FileOf(e).ifaces) : NameOf(m) \in Supertypes(u)
          BY <4>1 DEF DeclaredInterfaces
        <4>3. QED
          BY <2>1, <3>1, <3>2, <4>2 DEF Above
      <3>5. QED
        BY <3>3, <3>4
    <2>5. QED
      BY <2>3, <2>4 DEF Refers
  <1>8. S \in SUBSET Names /\ bad \subseteq G
    BY <1>4, <1>6
  <1>9. \A e \in G : Compatible(e, d) => e = d \/ \E m \in Refers(e) : Compatible(m, d)
    <2>1. \A e \in DOMAIN class : Refers(e) \subseteq DOMAIN class
      BY <1>1, RefersFacts
    <2>2. NoClass \notin DOMAIN class
      BY <1>1 DEF Parents
    <2>3. QED
      BY <1>6, <2>1, <2>2, CompatibleUnfolds
  <1>10. ASSUME NEW n \in S, Above(n) \cap S = {}
         PROVE  FALSE
    <2>1. PICK e \in bad : NameOf(e) = n
      OBVIOUS
    <2>2. e \in G /\ Compatible(e, d) /\ NameOf(d) \notin Supertypes(n) /\ n \in Names
      BY <1>8, <2>1
    <2>3. e # d
      BY <1>1, <2>1, <2>2, SupertypesFacts
    <2>4. PICK m \in Refers(e) : Compatible(m, d)
      BY <1>9, <2>2, <2>3
    <2>5. m \in G /\ NameOf(m) \in Above(n)
      BY <1>7, <2>1, <2>2
    <2>6. m \notin bad
      BY <1>10, <2>5
    <2>7. NameOf(d) \in Supertypes(NameOf(m))
      BY <2>4, <2>5, <2>6
    <2>8. Supertypes(NameOf(m)) \subseteq Above(n) /\ Supertypes(n) = {n} \cup Above(n)
      BY <1>1, <2>2, <2>5, SupertypesFacts
    <2>9. QED
      BY <2>2, <2>7, <2>8
  <1>11. c \in G
    BY <1>2
  <1> HIDE DEF S
  <1>12. S = {}
    BY <1>1, <1>8, <1>10, SupertypesFacts
  <1>13. c \notin bad
    BY <1>12 DEF S
  <1>14. QED
    BY <1>11, <1>13

\* A cast finds every supertype that is loaded.
LEMMA CastsFind ==
  ASSUME IInv, Typing, Origins, ClassesComplete, NEW c \in Concrete(table),
         \A e \in ToSet(Chain(class, c)) : ImplementedNames(e) = DeclaredInterfaces(e),
         NEW d \in InTable(table), NameOf(d) \in Supertypes(NameOf(c))
  PROVE  Compatible(c, d)
  <1> DEFINE chain == ToSet(Chain(class, c))
             bad == {e \in Concrete(table) : /\ e \in chain /\ NameOf(d) \in Supertypes(NameOf(e))
                                             /\ ~Compatible(e, d)}
  <1>1. /\ files \in Worlds /\ Parents(class)
        /\ ClassesIn(class, table) /\ ClosedIn(class, table, {})
        /\ FollowFiles(class, {}, {}) /\ ImplementedIn(class)
    BY SettledFacts
  <1>2. /\ \A e \in InTable(table) : e \in DOMAIN class /\ NameOf(e) \in Names /\ table[NameOf(e)] = e
        /\ Concrete(table) \subseteq InTable(table) /\ \A e \in Concrete(table) : ~IsInterface(e)
    BY <1>1, TableFacts DEF Concrete
  <1>3. c \in chain
    BY <1>1, <1>2, ChainSet
  <1>4. ASSUME NEW e \in chain, e \in Concrete(table), class[e].parent # NoClass
        PROVE  class[e].parent \in chain /\ class[e].parent \in Concrete(table)
    <2>1. class[e].parent \in DOMAIN class /\ class[e].parent \in ToSet(Chain(class, e))
      <3>1. \A x \in DOMAIN class : x \in ToSet(Chain(class, x))
        BY <1>1, ChainSet
      <3>2. QED
        BY <1>1, <1>2, <1>4, <3>1, ChainSet
    <2>2. ToSet(Chain(class, e)) \subseteq chain
      BY <1>1, <1>2, ChainAbove
    <2>3. class[e].parent \in InTable(table) /\ ~IsInterface(class[e].parent)
      BY <1>1, <1>2, <1>4, RefersFacts DEF ClosedIn
    <2>4. QED
      BY <2>1, <2>2, <2>3 DEF Concrete
  <1>5. \A e \in chain : ImplementedNames(e) = DeclaredInterfaces(e)
    OBVIOUS
  <1> HIDE DEF chain
  <1>6. \A e \in Concrete(table) : Compatible(e, d) <=> e = d \/ \E m \in Refers(e) : Compatible(m, d)
    <2>1. \A e \in DOMAIN class : Refers(e) \subseteq DOMAIN class
      BY <1>1, RefersFacts
    <2>2. NoClass \notin DOMAIN class
      BY <1>1 DEF Parents
    <2>3. QED
      BY <1>2, <2>1, <2>2, CompatibleUnfolds
  <1>7. Compatible(d, d)
    <2>1. \A e \in DOMAIN class : Refers(e) \subseteq DOMAIN class
      BY <1>1, RefersFacts
    <2>2. NoClass \notin DOMAIN class
      BY <1>1 DEF Parents
    <2>3. QED
      BY <1>2, <2>1, <2>2, CompatibleUnfolds
  <1>8. ASSUME NEW e \in bad, class[e].parent \notin bad
        PROVE  FALSE
    <2>1. /\ e \in Concrete(table) /\ e \in chain /\ e \in DOMAIN class /\ NameOf(e) \in Names
          /\ NameOf(d) \in Supertypes(NameOf(e)) /\ ~Compatible(e, d) /\ ~IsInterface(e)
      BY <1>2
    <2>2. NameOf(e) # NameOf(d)
      BY <1>2, <1>6, <2>1
    <2>3. PICK u \in Up(NameOf(e)) : NameOf(d) \in Supertypes(u)
      BY <1>1, <2>1, <2>2, SupertypesFacts DEF Above
    <2>4. Up(NameOf(e)) = (IF FileOf(e).super = NoName THEN {} ELSE {FileOf(e).super}) \cup ToSet(FileOf(e).ifaces)
      BY <1>1, <2>1, UpFacts
    <2>5. ASSUME FileOf(e).super # NoName, NameOf(d) \in Supertypes(FileOf(e).super)
          PROVE  FALSE
      <3>1. class[e].parent # NoClass
        BY <1>1, <2>1, <2>5 DEF FollowFiles, FollowsFile
      <3>2. NameOf(class[e].parent) = FileOf(e).super /\ class[e].parent \in Refers(e)
        BY <1>1, <2>1, <3>1, RefersFacts DEF Refers
      <3>3. class[e].parent \in chain /\ class[e].parent \in Concrete(table)
        BY <1>4, <2>1, <3>1
      <3>4. Compatible(class[e].parent, d)
        BY <1>8, <2>5, <3>2, <3>3
      <3>5. QED
        BY <1>6, <2>1, <3>2, <3>4
    <2>6. ASSUME u \in ToSet(FileOf(e).ifaces)
          PROVE  FALSE
      <3>1. NameOf(e) \in DOMAIN files /\ FileOf(e) = files[NameOf(e)]
        <4>1. NameOf(e) # ArrayName
          BY <2>6 DEF FileOf, ToSet
        <4>2. QED
          BY <2>1, <4>1 DEF FileOf, Names
      <3>2. u \in DOMAIN files /\ files[u].kind = "interface"
        <4>1. PICK i \in DOMAIN FileOf(e).ifaces : u = FileOf(e).ifaces[i]
          BY <2>6 DEF ToSet
        <4>2. /\ files[NameOf(e)].ifaces \in Seq(DOMAIN files)
              /\ files[files[NameOf(e)].ifaces[i]].kind = "interface"
          BY <1>1, <3>1, <4>1, LinkingAssumption
        <4>3. QED
          BY <3>1, <4>1, <4>2
      <3>3. NameOf(d) = Object \/ files[NameOf(d)].kind = "interface"
        BY <1>1, <2>3, <3>2, SupertypesFacts
      <3>4. CASE files[NameOf(d)].kind = "interface"
        <4>1. NameOf(d) \in DeclaredInterfaces(e)
          BY <2>3, <2>6, <3>4 DEF DeclaredInterfaces
        <4>2. PICK m \in Implemented(e) : NameOf(m) = NameOf(d)
          BY <1>5, <2>1, <4>1 DEF ImplementedNames
        <4>3. m \in InTable(table)
          BY <1>1, <2>1, RefersFacts
        <4>4. m = d
          BY <1>2, <4>2, <4>3
        <4>5. QED
          BY <1>6, <1>7, <2>1, <4>4 DEF Refers
      <3>5. CASE NameOf(d) = Object
        <4>1. NameOf(e) # Object
          BY <2>2, <3>5
        <4>2. FileOf(e).super # NoName /\ FileOf(e).super \in DOMAIN files
          <5>1. files[NameOf(e)].super = NoName => NameOf(e) = Object
            BY <1>1, <3>1, LinkingAssumption
          <5>2. FileOf(e).super \in DOMAIN files \cup {NoName}
            BY <1>1, <2>1, FileFacts
          <5>3. QED
            BY <3>1, <4>1, <5>1, <5>2
        <4>3. Object \in Supertypes(FileOf(e).super)
          BY <1>1, <4>2, SupertypesFacts DEF Names
        <4>4. QED
          BY <2>5, <3>5, <4>2, <4>3
      <3>6. QED
        BY <3>3, <3>4, <3>5
    <2>7. QED
      BY <2>3, <2>4, <2>5, <2>6
  <1>9. bad \in SUBSET DOMAIN class
    BY <1>2
  <1>10. c \notin bad
    <2> HIDE DEF bad
    <2>1. QED
      BY <1>1, <1>8, <1>9 DEF Parents
  <1>11. QED
    BY <1>3, <1>10

\* Casts and INSTANCEOF (class_is_compatible) of an object agree with the class files for all
\* classes loaded, whatever sessions loaded them in whatever order, if class_link collected
\* the interfaces of the class and of its superclasses.
THEOREM CastsAgree == Spec => []CastsAgreeWithFiles
  <1>1. IInv /\ Typing /\ Origins => CastsAgreeWithFiles
    <2> SUFFICES ASSUME IInv, Typing, Origins, ClassesComplete, NEW c \in Instantiable,
                        \A e \in ToSet(Chain(class, c)) : ImplementedNames(e) = DeclaredInterfaces(e),
                        NEW d \in Loaded
                 PROVE  Compatible(c, d) <=> NameOf(d) \in Supertypes(NameOf(c))
      BY DEF CastsAgreeWithFiles
    <2>1. c \in Concrete(table) /\ d \in InTable(table)
      BY DEF Instantiable, Loaded, InTable, Concrete
    <2>2. c \in DOMAIN class
      BY <2>1, SettledFacts, TableFacts DEF Concrete
    <2>3. QED
      BY <2>1, <2>2, CastsFollow, CastsFind
  <1>2. QED
    BY <1>1, LinkingInductive, TypingInductive, OriginsInductive, PTL

----------------------------------------------------------------------------
(* Lists that lead back to their heads *)

\* A walk from h in either direction goes through nodes of M only, and back again.
Paired(l, h, M) ==
  /\ h \notin M
  /\ M \cup {h} \subseteq DOMAIN l.next \cap DOMAIN l.prev
  /\ \A x \in M \cup {h} : /\ l.next[x] \in M \cup {h} /\ l.prev[l.next[x]] = x
                           /\ l.prev[x] \in M \cup {h} /\ l.next[l.prev[x]] = x

\* It comes to all of M.
Connected(l, h, M) ==
  \A S \in SUBSET (M \cup {h}) : h \in S /\ (\A x \in S : l.next[x] \in S) => M \subseteq S

Ring(l, h, M) == Paired(l, h, M) /\ Connected(l, h, M)

SameLinks(l, m, S) == \A x \in S : m.next[x] = l.next[x] /\ m.prev[x] = l.prev[x]

MoreNodes(l, m) == DOMAIN l.next \subseteq DOMAIN m.next /\ DOMAIN l.prev \subseteq DOMAIN m.prev

\* A list stays as it is when only other lists change.
LEMMA RingStays ==
  ASSUME NEW l, NEW m, NEW h, NEW M, MoreNodes(l, m), SameLinks(l, m, M \cup {h})
  PROVE  /\ Paired(l, h, M) => Paired(m, h, M)
         /\ Ring(l, h, M) => Ring(m, h, M)
  <1>1. Paired(l, h, M) => Paired(m, h, M)
    BY DEF Paired, MoreNodes, SameLinks
  <1>2. Connected(l, h, M) => Connected(m, h, M)
    BY DEF Connected, SameLinks
  <1>3. QED
    BY <1>1, <1>2 DEF Ring

LEMMA PutFacts ==
  ASSUME NEW f, NEW n, NEW value
  PROVE  /\ DOMAIN Put(f, n, value) = DOMAIN f
         /\ \A x \in DOMAIN f : Put(f, n, value)[x] = IF x = n THEN value ELSE f[x]
  BY DEF Put

\* An empty list
LEMMA InitFacts ==
  ASSUME NEW l, NEW h, h \in DOMAIN l.next \cap DOMAIN l.prev
  PROVE  /\ Ring(ListInit(l, h), h, {}) /\ MoreNodes(l, ListInit(l, h))
         /\ SameLinks(l, ListInit(l, h), (DOMAIN l.next \cap DOMAIN l.prev) \ {h})
  <1> DEFINE m == ListInit(l, h)
  <1>1. m.next = Put(l.next, h, h) /\ m.prev = Put(l.prev, h, h)
    BY DEF ListInit
  <1> HIDE DEF m
  <1>2. DOMAIN m.next = DOMAIN l.next /\ DOMAIN m.prev = DOMAIN l.prev
    BY <1>1, PutFacts
  <1>3. /\ \A x \in DOMAIN l.next : m.next[x] = IF x = h THEN h ELSE l.next[x]
        /\ \A x \in DOMAIN l.prev : m.prev[x] = IF x = h THEN h ELSE l.prev[x]
    BY <1>1, PutFacts
  <1>4. Ring(m, h, {})
    BY <1>2, <1>3 DEF Ring, Paired, Connected
  <1>5. MoreNodes(l, m) /\ SameLinks(l, m, (DOMAIN l.next \cap DOMAIN l.prev) \ {h})
    BY <1>2, <1>3 DEF MoreNodes, SameLinks
  <1>6. QED
    BY <1>4, <1>5 DEF m

\* Unlinking a node joins its neighbours.
Joins(l, m, n) ==
  \A x \in (DOMAIN l.next \cap DOMAIN l.prev) \ {n} :
    /\ m.next[x] = IF x = l.prev[n] THEN l.next[n] ELSE l.next[x]
    /\ m.prev[x] = IF x = l.next[n] THEN l.prev[n] ELSE l.prev[x]

LEMMA DelInitFacts ==
  ASSUME NEW l, NEW h, NEW M, Paired(l, h, M), NEW n \in M, NEW m, m = ListDelInit(l, n)
  PROVE  /\ MoreNodes(l, m) /\ Joins(l, m, n)
         /\ SameLinks(l, m, (DOMAIN l.next \cap DOMAIN l.prev) \ (M \cup {h}))
         /\ Paired(m, h, M \ {n})
         /\ ~Smashes(l, n)
  <1> DEFINE p == l.prev[n]
             q == l.next[n]
  <1>1. p \in M \cup {h} /\ q \in M \cup {h}
    BY DEF Paired
  <1>2. m.next = Put(Put(l.next, p, q), n, n) /\ m.prev = Put(Put(l.prev, q, p), n, n)
    BY DEF ListDelInit, ListInit
  <1>3. DOMAIN m.next = DOMAIN l.next /\ DOMAIN m.prev = DOMAIN l.prev
    BY <1>2, PutFacts
  <1>4. /\ \A x \in DOMAIN l.next : m.next[x] = IF x = n THEN n ELSE IF x = p THEN q ELSE l.next[x]
        /\ \A x \in DOMAIN l.prev : m.prev[x] = IF x = n THEN n ELSE IF x = q THEN p ELSE l.prev[x]
    BY <1>2, PutFacts
  <1> DEFINE D == DOMAIN l.next \cap DOMAIN l.prev
  <1>5. \A x \in D \ {n} : /\ m.next[x] = IF x = p THEN q ELSE l.next[x]
                           /\ m.prev[x] = IF x = q THEN p ELSE l.prev[x]
    BY <1>4
  <1>6. SameLinks(l, m, D \ (M \cup {h}))
    BY <1>1, <1>5 DEF SameLinks
  <1>7. Paired(m, h, M \ {n})
    <2> DEFINE K == (M \ {n}) \cup {h}
    <2>1. h \notin M /\ M \cup {h} \subseteq D
      BY DEF Paired
    <2>2. \A x \in M \cup {h} : /\ l.next[x] \in M \cup {h} /\ l.prev[l.next[x]] = x
                                /\ l.prev[x] \in M \cup {h} /\ l.next[l.prev[x]] = x
      BY DEF Paired
    <2>3. K \subseteq DOMAIN m.next \cap DOMAIN m.prev
      BY <1>3, <2>1
    <2>4. K = (M \cup {h}) \ {n}
      BY <2>1
    <2>5. ASSUME NEW x \in K
          PROVE  m.next[x] \in K /\ m.prev[m.next[x]] = x
      <3>1. x \in D \ {n} /\ m.next[x] = IF x = p THEN q ELSE l.next[x]
        BY <1>5, <2>1, <2>4
      <3>2. CASE x = p
        <4>1. q \in K
          BY <1>1, <2>2, <2>4, <3>1, <3>2
        <4>2. m.prev[q] = p
          BY <1>5, <2>1, <2>4, <4>1
        <4>3. QED
          BY <3>1, <3>2, <4>1, <4>2
      <3>3. CASE x # p
        <4>1. l.next[x] # n /\ l.next[x] # q
          BY <2>2, <2>4, <3>1, <3>3
        <4>2. l.next[x] \in K
          BY <2>2, <2>4, <4>1
        <4>3. m.prev[l.next[x]] = x
          BY <1>5, <2>1, <2>2, <2>4, <4>1, <4>2
        <4>4. QED
          BY <3>1, <3>3, <4>2, <4>3
      <3>4. QED
        BY <3>2, <3>3
    <2>6. ASSUME NEW x \in K
          PROVE  m.prev[x] \in K /\ m.next[m.prev[x]] = x
      <3>1. x \in D \ {n} /\ m.prev[x] = IF x = q THEN p ELSE l.prev[x]
        BY <1>5, <2>1, <2>4
      <3>2. CASE x = q
        <4>1. p \in K
          BY <1>1, <2>2, <2>4, <3>1, <3>2
        <4>2. m.next[p] = q
          BY <1>5, <2>1, <2>4, <4>1
        <4>3. QED
          BY <3>1, <3>2, <4>1, <4>2
      <3>3. CASE x # q
        <4>1. l.prev[x] # n /\ l.prev[x] # p
          BY <2>2, <2>4, <3>1, <3>3
        <4>2. l.prev[x] \in K
          BY <2>2, <2>4, <4>1
        <4>3. m.next[l.prev[x]] = x
          BY <1>5, <2>1, <2>2, <2>4, <4>1, <4>2
        <4>4. QED
          BY <3>1, <3>3, <4>2, <4>3
      <3>4. QED
        BY <3>2, <3>3
    <2> HIDE DEF K
    <2>7. QED
      BY <2>1, <2>3, <2>5, <2>6 DEF Paired, K
  <1>8. ~Smashes(l, n)
    BY <1>1 DEF Smashes, Paired
  <1>9. MoreNodes(l, m)
    BY <1>3 DEF MoreNodes
  <1>10. Joins(l, m, n)
    BY <1>5 DEF Joins
  <1>11. QED
    BY <1>6, <1>7, <1>8, <1>9, <1>10

LEMMA DelInitConnects ==
  ASSUME NEW l, NEW h, NEW M, Ring(l, h, M), NEW n \in M, NEW m, m = ListDelInit(l, n)
  PROVE  Ring(m, h, M \ {n})
  <1> DEFINE p == l.prev[n]
             q == l.next[n]
  <1>1. Paired(l, h, M)
    BY DEF Ring
  <1>2. Paired(m, h, M \ {n})
    BY <1>1, DelInitFacts
  <1>3. /\ h \notin M /\ M \cup {h} \subseteq DOMAIN l.next \cap DOMAIN l.prev
        /\ p \in M \cup {h} /\ l.next[p] = n /\ \A x \in M \cup {h} : l.prev[l.next[x]] = x
    BY <1>1 DEF Paired
  <1>4. \A x \in (M \cup {h}) \ {n} : m.next[x] = IF x = p THEN q ELSE l.next[x]
    <2>1. Joins(l, m, n)
      BY <1>1, DelInitFacts
    <2>2. QED
      BY <1>3, <2>1 DEF Joins
  <1>5. ASSUME NEW S \in SUBSET ((M \ {n}) \cup {h}), h \in S, \A x \in S : m.next[x] \in S
        PROVE  M \ {n} \subseteq S
    <2>1. \A x \in S : x \in (M \cup {h}) \ {n}
      BY <1>3
    <2>2. CASE p \in S
      <3> DEFINE T == S \cup {n}
      <3>1. q \in S
        BY <1>4, <1>5, <2>1, <2>2
      <3>2. \A x \in T : l.next[x] \in T
        BY <1>3, <1>4, <1>5, <2>1, <3>1
      <3>3. T \in SUBSET (M \cup {h}) /\ h \in T
        BY <1>5
      <3>4. M \subseteq T
        BY <3>2, <3>3 DEF Ring, Connected
      <3>5. QED
        BY <3>4
    <2>3. CASE p \notin S
      <3>1. \A x \in S : l.next[x] \in S
        BY <1>4, <1>5, <2>1, <2>3
      <3>2. S \in SUBSET (M \cup {h})
        OBVIOUS
      <3>3. M \subseteq S
        BY <1>5, <3>1, <3>2 DEF Ring, Connected
      <3>4. QED
        BY <3>3
    <2>4. QED
      BY <2>2, <2>3
  <1>6. Connected(m, h, M \ {n})
    BY <1>5 DEF Connected
  <1>7. QED
    BY <1>2, <1>6 DEF Ring

\* Linking a node puts it between two neighbours.
Splits(l, m, n, p, S) ==
  /\ \A x \in S : /\ m.next[x] = IF x = p THEN n ELSE l.next[x]
                  /\ m.prev[x] = IF x = l.next[p] THEN n ELSE l.prev[x]
  /\ m.next[n] = l.next[p] /\ m.prev[n] = p

LEMMA InsertFacts ==
  ASSUME NEW l, NEW h, NEW M, Paired(l, h, M), NEW p \in M \cup {h},
         NEW n \in DOMAIN l.next \cap DOMAIN l.prev, n \notin M \cup {h},
         NEW m, m = Insert(l, n, p, l.next[p])
  PROVE  /\ MoreNodes(l, m) /\ Splits(l, m, n, p, M \cup {h})
         /\ SameLinks(l, m, (DOMAIN l.next \cap DOMAIN l.prev) \ (M \cup {h, n}))
         /\ Paired(m, h, M \cup {n})
  <1> DEFINE q == l.next[p]
             D == DOMAIN l.next \cap DOMAIN l.prev
  <1>1. /\ h \notin M /\ M \cup {h} \subseteq D /\ q \in M \cup {h} /\ p \in D /\ q \in D
        /\ p # n /\ q # n
    BY DEF Paired
  <1>2. m.next = Put(Put(l.next, n, q), p, n) /\ m.prev = Put(Put(l.prev, q, n), n, p)
    BY DEF Insert
  <1>3. DOMAIN m.next = DOMAIN l.next /\ DOMAIN m.prev = DOMAIN l.prev
    BY <1>2, PutFacts
  <1>4. /\ \A x \in DOMAIN l.next : m.next[x] = IF x = p THEN n ELSE IF x = n THEN q ELSE l.next[x]
        /\ \A x \in DOMAIN l.prev : m.prev[x] = IF x = n THEN p ELSE IF x = q THEN n ELSE l.prev[x]
    BY <1>2, PutFacts
  <1>5. \A x \in M \cup {h} : /\ m.next[x] = IF x = p THEN n ELSE l.next[x]
                              /\ m.prev[x] = IF x = q THEN n ELSE l.prev[x]
    BY <1>1, <1>4
  <1>6. m.next[n] = q /\ m.prev[n] = p
    BY <1>1, <1>4
  <1>7. SameLinks(l, m, D \ (M \cup {h, n}))
    BY <1>1, <1>4 DEF SameLinks
  <1>8. Paired(m, h, M \cup {n})
    <2> DEFINE K == M \cup {n} \cup {h}
    <2>1. \A x \in M \cup {h} : /\ l.next[x] \in M \cup {h} /\ l.prev[l.next[x]] = x
                                /\ l.prev[x] \in M \cup {h} /\ l.next[l.prev[x]] = x
      BY DEF Paired
    <2>2. K \subseteq DOMAIN m.next \cap DOMAIN m.prev
      BY <1>1, <1>3
    <2>3. ASSUME NEW x \in M \cup {h}
          PROVE  m.next[x] \in K /\ m.prev[m.next[x]] = x
      <3>1. CASE x = p
        BY <1>5, <1>6, <3>1
      <3>2. CASE x # p
        <4>1. l.next[x] # q
          BY <1>1, <2>1, <3>2
        <4>2. QED
          BY <1>5, <2>1, <3>2, <4>1
      <3>3. QED
        BY <3>1, <3>2
    <2>4. ASSUME NEW x \in M \cup {h}
          PROVE  m.prev[x] \in K /\ m.next[m.prev[x]] = x
      <3>1. CASE x = q
        BY <1>5, <1>6, <3>1
      <3>2. CASE x # q
        <4>1. l.prev[x] # p
          BY <1>1, <2>1, <3>2
        <4>2. QED
          BY <1>5, <2>1, <3>2, <4>1
      <3>3. QED
        BY <3>1, <3>2
    <2>5. m.next[n] \in K /\ m.prev[m.next[n]] = n /\ m.prev[n] \in K /\ m.next[m.prev[n]] = n
      BY <1>1, <1>5, <1>6
    <2>6. h \notin M \cup {n}
      BY <1>1
    <2>7. QED
      BY <2>2, <2>3, <2>4, <2>5, <2>6 DEF Paired
  <1>9. MoreNodes(l, m)
    BY <1>3 DEF MoreNodes
  <1>10. Splits(l, m, n, p, M \cup {h})
    BY <1>5, <1>6 DEF Splits
  <1>11. QED
    BY <1>7, <1>8, <1>9, <1>10

LEMMA InsertConnects ==
  ASSUME NEW l, NEW h, NEW M, Ring(l, h, M), NEW p \in M \cup {h},
         NEW n \in DOMAIN l.next \cap DOMAIN l.prev, n \notin M \cup {h},
         NEW m, m = Insert(l, n, p, l.next[p])
  PROVE  Ring(m, h, M \cup {n})
  <1> DEFINE q == l.next[p]
  <1>1. Paired(l, h, M)
    BY DEF Ring
  <1>2. /\ Paired(m, h, M \cup {n})
        /\ \A x \in M \cup {h} : m.next[x] = IF x = p THEN n ELSE l.next[x]
        /\ m.next[n] = q
    <2>1. Paired(m, h, M \cup {n}) /\ Splits(l, m, n, p, M \cup {h})
      BY <1>1, InsertFacts
    <2>2. QED
      BY <2>1 DEF Splits
  <1>3. ASSUME NEW S \in SUBSET (M \cup {n} \cup {h}), h \in S, \A x \in S : m.next[x] \in S
        PROVE  M \cup {n} \subseteq S
    <2> DEFINE T == S \ {n}
    <2>1. T \in SUBSET (M \cup {h}) /\ h \in T
      BY <1>3
    <2>2. \A x \in M \cup {h} : l.next[x] \in M \cup {h}
      BY <1>1 DEF Paired
    <2>3. \A x \in T : l.next[x] \in T
      <3>1. ASSUME NEW x \in T
            PROVE  l.next[x] \in S
        <4>1. CASE x = p
          BY <1>2, <1>3, <2>1, <4>1
        <4>2. CASE x # p
          BY <1>2, <1>3, <2>1, <4>2
        <4>3. QED
          BY <4>1, <4>2
      <3>2. QED
        BY <2>1, <2>2, <3>1
    <2>4. M \subseteq T
      BY <2>1, <2>3 DEF Ring, Connected
    <2>5. p \in S
      BY <2>1, <2>4
    <2>6. n \in S
      BY <1>2, <1>3, <2>5
    <2>7. QED
      BY <2>4, <2>6
  <1>4. Connected(m, h, M \cup {n})
    BY <1>3 DEF Connected
  <1>5. QED
    BY <1>2, <1>4 DEF Ring

\* Moving a node from one list to another
LEMMA MoveFacts ==
  ASSUME NEW l, NEW g, NEW K, Paired(l, g, K), NEW n \in K,
         NEW h, NEW M, Ring(l, h, M), (K \cup {g}) \cap (M \cup {h}) = {},
         NEW m, m \in {ListAdd(ListDelInit(l, n), n, h), ListAddTail(ListDelInit(l, n), n, h)}
  PROVE  /\ Paired(m, g, K \ {n}) /\ (Ring(l, g, K) => Ring(m, g, K \ {n}))
         /\ Ring(m, h, M \cup {n})
         /\ MoreNodes(l, m)
         /\ SameLinks(l, m, (DOMAIN l.next \cap DOMAIN l.prev) \ (K \cup {g} \cup M \cup {h}))
         /\ ~Smashes(l, n)
  <1> DEFINE k == ListDelInit(l, n)
             D == DOMAIN l.next \cap DOMAIN l.prev
  <1>1. /\ MoreNodes(l, k) /\ SameLinks(l, k, D \ (K \cup {g})) /\ Paired(k, g, K \ {n})
        /\ ~Smashes(l, n)
    BY DelInitFacts
  <1>2. Ring(l, g, K) => Ring(k, g, K \ {n})
    BY DelInitConnects
  <1>3. M \cup {h} \subseteq D /\ K \cup {g} \subseteq D /\ g \notin K
    BY DEF Ring, Paired
  <1>4. SameLinks(l, k, M \cup {h})
    BY <1>1, <1>3 DEF SameLinks
  <1>5. Ring(k, h, M)
    BY <1>1, <1>4, RingStays
  <1> HIDE DEF k
  <1>6. PICK p \in M \cup {h} : m = Insert(k, n, p, k.next[p])
    <2>1. k.prev[h] \in M \cup {h} /\ k.next[k.prev[h]] = h
      BY <1>5 DEF Ring, Paired
    <2>2. CASE m = ListAdd(k, n, h)
      BY <2>2 DEF ListAdd
    <2>3. CASE m = ListAddTail(k, n, h)
      BY <2>1, <2>3 DEF ListAddTail
    <2>4. QED
      BY <2>2, <2>3 DEF k
  <1>7. n \in DOMAIN k.next \cap DOMAIN k.prev /\ n \notin M \cup {h}
    BY <1>1, <1>3 DEF MoreNodes
  <1>8. Paired(k, h, M)
    BY <1>5 DEF Ring
  <1>9. /\ MoreNodes(k, m)
        /\ SameLinks(k, m, (DOMAIN k.next \cap DOMAIN k.prev) \ (M \cup {h, n}))
    BY <1>6, <1>7, <1>8, InsertFacts
  <1>10. Ring(m, h, M \cup {n})
    BY <1>5, <1>6, <1>7, InsertConnects
  <1>11. D \subseteq DOMAIN k.next \cap DOMAIN k.prev
    BY <1>1 DEF MoreNodes
  <1>12. SameLinks(k, m, (K \ {n}) \cup {g})
    BY <1>3, <1>9, <1>11 DEF SameLinks
  <1>13. /\ Paired(m, g, K \ {n})
         /\ Ring(l, g, K) => Ring(m, g, K \ {n})
    BY <1>1, <1>2, <1>9, <1>12, RingStays
  <1>14. SameLinks(l, m, D \ (K \cup {g} \cup M \cup {h}))
    BY <1>1, <1>9, <1>11 DEF SameLinks
  <1>15. MoreNodes(l, m)
    BY <1>1, <1>9 DEF MoreNodes
  <1>16. QED
    BY <1>1, <1>10, <1>13, <1>14, <1>15

\* A list is empty if its head follows itself; in another one no node does.
LEMMA RingFacts ==
  ASSUME NEW l, NEW h, NEW M, Ring(l, h, M)
  PROVE  /\ l.next[h] = h => M = {}
         /\ \A n \in M : l.next[n] # n
  <1>1. Paired(l, h, M)
    BY DEF Ring
  <1>2. ASSUME l.next[h] = h
        PROVE  M = {}
    <2> DEFINE S == {h}
    <2>1. S \in SUBSET (M \cup {h}) /\ h \in S /\ \A x \in S : l.next[x] \in S
      BY <1>2
    <2>2. M \subseteq S
      BY <2>1 DEF Ring, Connected
    <2>3. QED
      BY <1>1, <2>2 DEF Paired
  <1>3. ASSUME NEW n \in M, l.next[n] = n
        PROVE  FALSE
    <2> DEFINE S == (M \cup {h}) \ {n}
    <2>1. \A x \in S : l.next[x] \in S
      <3>1. ASSUME NEW x \in S, l.next[x] = n
            PROVE  FALSE
        <4>1. l.prev[l.next[x]] = x /\ l.prev[l.next[n]] = n
          BY <1>1 DEF Paired
        <4>2. QED
          BY <1>3, <3>1, <4>1
      <3>2. \A x \in S : l.next[x] \in M \cup {h}
        BY <1>1 DEF Paired
      <3>3. QED
        BY <3>1, <3>2
    <2>2. S \in SUBSET (M \cup {h}) /\ h \in S
      BY <1>1 DEF Paired
    <2>3. M \subseteq S
      BY <2>1, <2>2 DEF Ring, Connected
    <2>4. QED
      BY <2>3
  <1>4. QED
    BY <1>2, <1>3

\* at is a walk of n steps over the list of h, as WalkEnd takes it.
Goes(l, goal, x) == IF x \in DOMAIN class \ goal THEN l.next[x] ELSE x
Walk(l, h, goal, n, at) == at = [k \in 0..n |-> IF k = 0 THEN l.next[h] ELSE Goes(l, goal, at[k - 1])]

LEMMA WalksExist ==
  ASSUME NEW l, NEW h, NEW goal, NEW n \in Nat
  PROVE  \E at : Walk(l, h, goal, n, at)
  <1> DEFINE bad == {k \in Nat : ~\E at : Walk(l, h, goal, k, at)}
  <1>1. ASSUME bad # {}
        PROVE  FALSE
    <2>1. PICK k \in bad : \A j \in bad : k <= j
      BY <1>1, LeastNumber
    <2>2. CASE k = 0
      <3> DEFINE at == [i \in 0..0 |-> l.next[h]]
      <3>1. at = [i \in 0..0 |-> IF i = 0 THEN l.next[h] ELSE Goes(l, goal, at[i - 1])]
        OBVIOUS
      <3>2. Walk(l, h, goal, k, at)
        BY <2>2, <3>1 DEF Walk
      <3>3. QED
        BY <2>1, <3>2
    <2>3. CASE k # 0
      <3>1. k \in Nat /\ k - 1 \in Nat
        BY <2>1, <2>3
      <3>2. k - 1 \notin bad
        BY <2>1, <3>1
      <3>3. PICK g : Walk(l, h, goal, k - 1, g)
        BY <3>1, <3>2
      <3> DEFINE at == [i \in 0..k |-> IF i = k THEN Goes(l, goal, g[k - 1]) ELSE g[i]]
      <3>4. ASSUME NEW i \in 0..k
            PROVE  at[i] = IF i = 0 THEN l.next[h] ELSE Goes(l, goal, at[i - 1])
        <4>1. CASE i = k
          <5>1. at[k] = Goes(l, goal, g[k - 1]) /\ at[k - 1] = g[k - 1]
            BY <3>1
          <5>2. QED
            BY <2>3, <4>1, <5>1
        <4>2. CASE i # k
          <5>1. i \in 0..(k - 1) /\ at[i] = g[i]
            BY <3>1, <4>2
          <5>2. g[i] = IF i = 0 THEN l.next[h] ELSE Goes(l, goal, g[i - 1])
            BY <3>3, <5>1 DEF Walk
          <5>3. i # 0 => i - 1 \in 0..k /\ i - 1 # k
            BY <3>1, <5>1
          <5>4. i # 0 => at[i - 1] = g[i - 1]
            BY <5>3
          <5>5. QED
            BY <5>1, <5>2, <5>4
        <4>3. QED
          BY <4>1, <4>2
      <3>5. at = [i \in 0..k |-> at[i]]
        OBVIOUS
      <3> HIDE DEF at
      <3>6. [i \in 0..k |-> at[i]] = [i \in 0..k |-> IF i = 0 THEN l.next[h] ELSE Goes(l, goal, at[i - 1])]
        BY <3>4
      <3>7. Walk(l, h, goal, k, at)
        BY <3>5, <3>6 DEF Walk
      <3>8. QED
        BY <2>1, <3>7
    <2>4. QED
      BY <2>2, <2>3
  <1>2. QED
    BY <1>1

\* A walk comes to a class in goal if the list has one, and else back to the head.
LEMMA WalkFacts ==
  ASSUME NEW l, IsFiniteSet(DOMAIN l.next), NEW h, NEW M, Ring(l, h, M),
         M \subseteq DOMAIN class, h \notin DOMAIN class, NEW goal, h \notin goal
  PROVE  /\ WalkEnd(l, h, goal) \in (M \cap goal) \cup {h}
         /\ WalkEnd(l, h, goal) = h => M \cap goal = {}
  <1> DEFINE N == Cardinality(DOMAIN l.next)
             at == CHOOSE f : Walk(l, h, goal, N, f)
  <1>1. N \in Nat
    BY FS_CardinalityType
  <1>2. WalkEnd(l, h, goal) = at[N]
    BY DEF WalkEnd, Walk, Goes
  <1>3. Walk(l, h, goal, N, at)
    BY <1>1, WalksExist
  <1> HIDE DEF at
  <1>4. Paired(l, h, M) /\ M \cup {h} \subseteq DOMAIN l.next
    BY DEF Ring, Paired
  <1>5. /\ h \notin M
        /\ \A x \in M \cup {h} : l.next[x] \in M \cup {h} /\ l.prev[l.next[x]] = x
    BY <1>4 DEF Paired
  <1> HIDE DEF N
  <1>6. /\ at[0] = l.next[h]
        /\ \A k \in 0..N : k # 0 => at[k] = Goes(l, goal, at[k - 1])
    <2>1. 0 \in 0..N
      BY <1>1
    <2>2. QED
      BY <1>3, <2>1 DEF Walk
  <1>7. \A k \in 0..N : at[k] \in M \cup {h}
    <2> DEFINE bad == {k \in 0..N : at[k] \notin M \cup {h}}
    <2> SUFFICES ASSUME bad # {}
                 PROVE  FALSE
      OBVIOUS
    <2>1. bad \in SUBSET Nat
      BY <1>1
    <2>2. PICK k \in bad : \A j \in bad : k <= j
      BY <2>1, LeastNumber
    <2>3. k # 0
      BY <1>5, <1>6, <2>2
    <2>4. k \in 0..N /\ k - 1 \in 0..N /\ ~(k <= k - 1)
      BY <1>1, <2>2, <2>3
    <2>5. at[k - 1] \in M \cup {h}
      BY <2>2, <2>4
    <2>6. QED
      BY <1>5, <1>6, <2>2, <2>3, <2>4, <2>5 DEF Goes
  <1>8. ASSUME NEW k \in 0..N, at[k] \in goal \cup {h}
        PROVE  at[N] = at[k]
    <2> DEFINE bad == {j \in 0..N : k <= j /\ at[j] # at[k]}
    <2>1. ASSUME bad # {}
          PROVE  FALSE
      <3>1. bad \in SUBSET Nat
        BY <1>1
      <3>2. PICK j \in bad : \A i \in bad : j <= i
        BY <2>1, <3>1, LeastNumber
      <3>3. j \in 0..N /\ j - 1 \in 0..N /\ k <= j - 1 /\ ~(j <= j - 1) /\ j # 0
        BY <1>1, <1>8, <3>2
      <3>4. at[j - 1] = at[k]
        BY <3>2, <3>3
      <3>5. QED
        BY <1>6, <1>8, <3>2, <3>3, <3>4 DEF Goes
    <2>2. QED
      BY <1>1, <2>1
  <1>9. at[N] \in goal \cup {h}
    <2> SUFFICES ASSUME at[N] \notin goal \cup {h}
                 PROVE  FALSE
      OBVIOUS
    <2>1. \A k \in 0..N : at[k] \in M \ goal
      BY <1>7, <1>8
    <2>2. \A k \in 0..N : k # 0 => at[k] = l.next[at[k - 1]] /\ k - 1 \in 0..N
      <3>1. \A k \in 0..N : k # 0 => k - 1 \in 0..N
        BY <1>1
      <3>2. QED
        BY <1>6, <2>1, <3>1 DEF Goes
    <2>3. \A i, j \in 0..N : at[i] = at[j] => i = j
      <3> DEFINE bad == {i \in 0..N : \E j \in 0..N : i < j /\ at[i] = at[j]}
      <3>1. ASSUME bad # {}
            PROVE  FALSE
        <4>1. bad \in SUBSET Nat
          BY <1>1
        <4>2. PICK i \in bad : \A k \in bad : i <= k
          BY <3>1, <4>1, LeastNumber
        <4>3. PICK j \in 0..N : i < j /\ at[i] = at[j]
          BY <4>2
        <4>4. i \in 0..N /\ j # 0 /\ j - 1 \in 0..N
          BY <1>1, <4>2, <4>3
        <4>5. at[j] = l.next[at[j - 1]] /\ at[j - 1] \in M
          BY <2>1, <2>2, <4>4
        <4>6. CASE i = 0
          <5>1. l.prev[l.next[h]] = h /\ l.prev[l.next[at[j - 1]]] = at[j - 1]
            BY <1>5, <4>5
          <5>2. QED
            BY <1>5, <1>6, <4>3, <4>5, <4>6, <5>1
        <4>7. CASE i # 0
          <5>1. i - 1 \in 0..N /\ at[i] = l.next[at[i - 1]] /\ at[i - 1] \in M
            BY <2>1, <2>2, <4>4, <4>7
          <5>2. at[i - 1] = at[j - 1]
            BY <1>5, <4>3, <4>5, <5>1
          <5>3. i - 1 < j - 1 /\ ~(i <= i - 1)
            BY <1>1, <4>3, <4>4
          <5>4. i - 1 \in bad
            BY <4>4, <5>1, <5>2, <5>3
          <5>5. QED
            BY <4>2, <5>3, <5>4
        <4>8. QED
          BY <4>6, <4>7
      <3>2. \A i, j \in 0..N : i < j \/ j < i \/ i = j
        BY <1>1
      <3>3. QED
        BY <3>1, <3>2
    <2> DEFINE f == [k \in 0..N |-> at[k]]
    <2>4. f \in Injection(0..N, DOMAIN l.next)
      BY <1>4, <2>1, <2>3 DEF Injection, IsInjective
    <2>5. Cardinality(0..N) <= Cardinality(DOMAIN l.next)
      BY <2>4, FS_Injection
    <2>6. Cardinality(0..N) = N + 1
      BY <1>1, FS_Interval
    <2>7. QED
      BY <1>1, <2>5, <2>6 DEF N
  <1>10. ASSUME at[N] = h
         PROVE  M \cap goal = {}
    <2> DEFINE S == {h} \cup {at[k] : k \in 0..N}
    <2>1. \A k \in 0..N : at[k] \notin goal
      BY <1>8, <1>10
    <2>2. ASSUME NEW k \in 0..N, at[k] # h
          PROVE  l.next[at[k]] \in S
      <3>1. k # N /\ k + 1 \in 0..N /\ k + 1 # 0 /\ (k + 1) - 1 = k
        BY <1>1, <1>10, <2>2
      <3>2. at[k + 1] = Goes(l, goal, at[k])
        BY <1>6, <3>1
      <3>3. at[k] \in DOMAIN class \ goal
        BY <1>7, <2>1, <2>2
      <3>4. QED
        BY <3>1, <3>2, <3>3 DEF Goes
    <2>3. l.next[h] \in S
      BY <1>1, <1>6
    <2>4. \A x \in S : l.next[x] \in S
      BY <2>2, <2>3
    <2>5. S \in SUBSET (M \cup {h}) /\ h \in S
      BY <1>7
    <2> HIDE DEF S
    <2>6. M \subseteq S
      BY <2>4, <2>5 DEF Ring, Connected
    <2>7. QED
      BY <1>5, <2>1, <2>6 DEF S
  <1>11. at[N] \in M \cup {h}
    BY <1>1, <1>7
  <1>12. QED
    BY <1>2, <1>9, <1>10, <1>11

----------------------------------------------------------------------------
(* The interfaces of the class to be linked, if none is reused *)

\* Those that class_link has to find
Goal == {table[n] : n \in DeclaredInterfaces(ToLink)}
Roots == {table[n] : n \in ToSet(FileOf(ToLink).ifaces)}

\* The interfaces of the one that was moved last, as long as they are not listed
ToCome(c) == IF session.step = "extended" /\ c = session.at THEN ToSet(session.left) ELSE {}

\* disc is on iface_discovery and req on iface_required, and everything they refer to is on
\* one of them.
Collecting(disc, req) ==
  /\ disc \cup req \subseteq Goal /\ disc \cap req = {}
  /\ Paired(links, IfaceList, Found \ (disc \cup req))
  /\ Ring(links, IfaceDiscovery, disc)
  /\ Ring(links, IfaceRequired, req)
  /\ session.count = Cardinality(req)
  /\ session.step = "roots" => req = {}
  /\ session.step \in {"roots", "extended"} => session.left \in Seq(Goal)
  /\ Roots \subseteq disc \cup req \cup (IF session.step = "roots" THEN ToSet(session.left) ELSE {})
  /\ \A c \in req : Implemented(c) \subseteq disc \cup req \cup ToCome(c)
  /\ session.step = "flatten" =>
       session.at \in disc \cup {IfaceDiscovery} /\ session.then = links.next[session.at]
  /\ session.step = "extended" => session.then \in disc \cup {IfaceDiscovery}

\* The interfaces stored so far
Stored == {Implements[k].interface : k \in 1..session.count}

\* They are the part of iface_required before the cursor.
Storing ==
  /\ Ring(links, IfaceRequired, Goal)
  /\ DOMAIN Implements = 1..Cardinality(Goal)
  /\ session.count \in 0..Cardinality(Goal)
  /\ Stored \subseteq Goal /\ Cardinality(Stored) = session.count
  /\ session.at \in (Goal \cup {IfaceRequired}) \ Stored
  /\ \A x \in Stored \cup {IfaceRequired} : links.next[x] \in Stored \cup {session.at}
  /\ \A x \in (Stored \cup {session.at}) \ {IfaceRequired} : links.prev[x] \in Stored \cup {IfaceRequired}

\* Between two classes, all interfaces are still on iface_list.
FreshLists ==
  /\ session.step = "link" => Paired(links, IfaceList, Found)
  /\ session.step \in {"roots", "flatten", "extended"} =>
       \E disc \in SUBSET Found : \E req \in SUBSET Found : Collecting(disc, req)
  /\ session.step \in {"fill", "fixup", "itable"} => Paired(links, IfaceList, Found \ Goal)
  /\ session.step = "fill" => Storing
  /\ session.step \in {"fixup", "itable"} => Implemented(ToLink) = Goal

\* The invariant: the lists of a session lead through the interfaces it has found and back,
\* unless it is linking a class that reuses an interface.
Lists ==
  IF session.step \in Ended THEN BrokenListNeedsReuse
  ELSE /\ IsFiniteSet(DOMAIN links.next)
       /\ session.step \in {"discover", "ancestry", "patch"} => Paired(links, IfaceList, Found)
       /\ session.step \in Later => session.required \in Seq(DOMAIN class)
       /\ session.step \in Later /\ session.ancestry # <<>> /\ ~Reused(ToLink) => FreshLists

\* Supertypes are the class files' alone.
LEMMA SupertypesStay ==
  ASSUME files' = files
  PROVE  /\ \A n : Supertypes(n)' = Supertypes(n)
         /\ \A c : DeclaredInterfaces(c)' = DeclaredInterfaces(c)
         /\ \A c : IsInterface(c)' <=> IsInterface(c)
  <1>1. \A c : FileOf(c)' = FileOf(c)
    BY DEF FileOf
  <1>2. \A c : Wanted(c)' = Wanted(c)
    BY <1>1 DEF Wanted
  <1>3. Names' = Names
    BY DEF Names
  <1>4. \A n : Supertypes(n)' = Supertypes(n)
    BY <1>2, <1>3 DEF Supertypes
  <1>5. \A c : DeclaredInterfaces(c)' = DeclaredInterfaces(c)
    BY <1>1, <1>4 DEF DeclaredInterfaces
  <1>6. QED
    BY <1>1, <1>4, <1>5 DEF IsInterface

\* What a session is about stays the same while it goes on with one class.
LEMMA TargetStays ==
  ASSUME UNCHANGED <<files, table>>, session'.required = session.required,
         session'.ancestry = session.ancestry, session'.depth = session.depth
  PROVE  /\ ToLink' = ToLink /\ Goal' = Goal /\ Roots' = Roots /\ Found' = Found
         /\ Reused(ToLink)' <=> Reused(ToLink)
         /\ IfaceList' = IfaceList /\ IfaceDiscovery' = IfaceDiscovery /\ IfaceRequired' = IfaceRequired
  <1>1. /\ \A n : Supertypes(n)' = Supertypes(n)
        /\ \A c : DeclaredInterfaces(c)' = DeclaredInterfaces(c)
        /\ \A c : IsInterface(c)' <=> IsInterface(c)
    BY SupertypesStay
  <1>2. ToLink' = ToLink
    BY DEF ToLink
  <1>3. \A c : FileOf(c)' = FileOf(c)
    BY DEF FileOf
  <1>4. Goal' = Goal
    BY <1>1, <1>2 DEF Goal
  <1>5. Roots' = Roots
    BY <1>2, <1>3 DEF Roots
  <1>6. Found' = Found
    BY <1>1 DEF Found
  <1>7. Instantiable' = Instantiable
    BY <1>1 DEF Instantiable, Loaded, Names
  <1>8. Reused(ToLink)' <=> Reused(ToLink)
    BY <1>1, <1>2, <1>7 DEF Reused, NameOf
  <1>9. QED
    BY <1>2, <1>4, <1>5, <1>6, <1>8 DEF IfaceList, IfaceDiscovery, IfaceRequired, HeadOf

\* If none is reused, the interfaces of the class were found in this session and published.
LEMMA GoalFacts ==
  ASSUME IInv, Origins, session.step \in Later, session.ancestry # <<>>, ~Reused(ToLink),
         session.required \in Seq(DOMAIN class)
  PROVE  /\ Goal \subseteq Found /\ Goal \subseteq InTable(table) /\ Goal \subseteq DOMAIN class
         /\ \A c \in Goal : c = table[NameOf(c)] /\ IsPair(c) /\ Implemented(c) \subseteq Goal
         /\ \A n \in ToSet(FileOf(ToLink).ifaces) : table[n] \in Goal /\ Interface(n) = table[n]
         /\ {NameOf(c) : c \in Goal} = DeclaredInterfaces(ToLink)
         /\ IsFiniteSet(Goal)
  <1> DEFINE t == NameOf(ToLink)
             own == ToSet(FileOf(ToLink).ifaces)
  <1>1. /\ files \in Worlds /\ ClassesIn(class, table) /\ ClosedIn(class, table, {})
        /\ NameOf(ToLink) \in Names
    BY LaterFacts, ToLinkFacts
  <1>2. own \subseteq DOMAIN files /\ own \subseteq Up(t)
    BY <1>1, FileFacts, UpFacts DEF ToSet
  <1>3. \A n \in DOMAIN files : n \in Names /\ n # ArrayName
    BY <1>1, FileFacts DEF Names
  <1>4. /\ \A n \in Names : Supertypes(n) = {n} \cup Above(n) /\ Supertypes(n) \subseteq Names
        /\ \A n \in Names : \A m \in Above(n) : Supertypes(m) \subseteq Above(n)
    BY <1>1, SupertypesFacts
  <1>5. \A n : n \in DeclaredInterfaces(ToLink) <=>
                 \E m \in own : n \in Supertypes(m) /\ files[n].kind = "interface"
    BY DEF DeclaredInterfaces
  <1>6. ASSUME NEW n \in DeclaredInterfaces(ToLink)
        PROVE  /\ n \in Supertypes(t) /\ n \in Names /\ n # ArrayName /\ files[n].kind = "interface"
               /\ table[n] \in ToSet(session.required) /\ table[n] \in DOMAIN class
               /\ table[n] \in InTable(table) /\ NameOf(table[n]) = n /\ IsInterface(table[n])
               /\ IsPair(table[n])
    <2>1. PICK m \in own : n \in Supertypes(m) /\ files[n].kind = "interface"
      BY <1>5
    <2>2. m \in Names /\ m \in Up(t) /\ m \in DOMAIN files
      BY <1>2, <1>3
    <2>3. n \in Supertypes(t) /\ n \in Names
      BY <1>1, <1>4, <2>1, <2>2 DEF Above
    <2>4. table[n] \in ToSet(session.required)
      BY <2>1, <2>3 DEF Reused
    <2>5. table[n] \in DOMAIN class
      BY <2>4 DEF ToSet
    <2>6. IsPair(table[n]) /\ NameOf(table[n]) \in Names
      BY <1>1, <2>5 DEF ClassesIn
    <2>7. table[n] # NoClass
      BY <1>1, <2>6, PairFacts
    <2>8. NameOf(table[n]) = n /\ table[n] \in InTable(table)
      BY <1>1, <2>3, <2>7 DEF ClassesIn, InTable
    <2>9. n # ArrayName
      <3>1. CASE n = m
        BY <1>3, <2>2, <3>1
      <3>2. CASE n # m
        <4>1. n \in Above(m)
          BY <1>4, <2>1, <2>2, <3>2
        <4>2. PICK u \in Up(m) : n \in Supertypes(u)
          BY <4>1 DEF Above
        <4> DEFINE B == {k \in Names : ArrayName \in Supertypes(k) /\ k # ArrayName}
        <4>3. B = {}
          <5>1. ASSUME NEW k \in B, Up(k) \cap B = {}
                PROVE  FALSE
            <6>1. ArrayName \in Above(k)
              BY <1>4, <5>1
            <6>2. PICK v \in Up(k) : ArrayName \in Supertypes(v)
              BY <6>1 DEF Above
            <6>3. v \in DOMAIN files
              BY <1>1, UpFacts
            <6>4. QED
              BY <1>3, <5>1, <6>2, <6>3
          <5>2. QED
            BY <1>1, <5>1, UpFacts
        <4>4. u \in DOMAIN files
          BY <1>1, <2>2, <4>2, UpFacts
        <4>5. QED
          BY <1>3, <4>2, <4>3, <4>4
      <3>3. QED
        BY <3>1, <3>2
    <2>10. IsInterface(table[n])
      BY <2>1, <2>8, <2>9 DEF IsInterface, FileOf
    <2>11. QED
      BY <2>1, <2>3, <2>4, <2>5, <2>6, <2>8, <2>9, <2>10
  <1>7. ASSUME NEW c \in Goal
        PROVE  /\ NameOf(c) \in DeclaredInterfaces(ToLink) /\ c = table[NameOf(c)]
    BY <1>6 DEF Goal
  <1>8. /\ Goal \subseteq Found /\ Goal \subseteq InTable(table) /\ Goal \subseteq DOMAIN class
        /\ \A c \in Goal : IsPair(c)
    BY <1>6 DEF Goal, Found
  <1>9. {NameOf(c) : c \in Goal} = DeclaredInterfaces(ToLink)
    BY <1>6 DEF Goal
  <1>10. ASSUME NEW n \in own
         PROVE  table[n] \in Goal /\ Interface(n) = table[n]
    <2>1. n \in Supertypes(n) /\ n \in DOMAIN files
      BY <1>2, <1>3, <1>4
    <2>2. files[n].kind = "interface"
      <3>1. t # ArrayName
        BY <1>10 DEF FileOf, ToSet
      <3>2. FileOf(ToLink) = files[t] /\ t \in DOMAIN files
        BY <1>1, <3>1 DEF FileOf, Names
      <3>3. PICK i \in DOMAIN files[t].ifaces : n = files[t].ifaces[i]
        BY <1>10, <3>2 DEF ToSet
      <3>4. QED
        BY <1>1, <3>2, <3>3, LinkingAssumption
    <2>3. n \in DeclaredInterfaces(ToLink)
      BY <1>5, <2>1, <2>2
    <2>4. table[n] # NoClass
      BY <1>1, <1>6, <2>3, TableFacts DEF InTable
    <2>5. QED
      BY <2>3, <2>4 DEF Goal, Interface
  <1>11. ASSUME NEW c \in Goal, NEW i \in Implemented(c)
         PROVE  i \in Goal
    <2>1. c \in InTable(table) /\ c \in DOMAIN class /\ IsInterface(c)
      BY <1>8 DEF Found
    <2>2. class[c].linked /\ NameOf(c) \in Names
      BY <1>1, <2>1, TableFacts
    <2>3. session.step \notin Ended
      BY DEF Later, Ended, Astray
    <2>4. FollowsFile(class, c, Filling, Queued)
      BY <2>1, <2>3, RunningOrigins DEF FollowFiles
    <2>5. PICK k \in DOMAIN class[c].implements : i = class[c].implements[k].interface
      BY <1>11 DEF Implemented
    <2>6. NameOf(i) \in ToSet(FileOf(c).ifaces)
      BY <2>1, <2>2, <2>4, <2>5 DEF FollowsFile, ImplementsFiles
    <2>7. i \in InTable(table)
      BY <1>1, <2>1, <2>5 DEF ClosedIn
    <2>8. i = table[NameOf(i)] /\ NameOf(i) \in Names
      BY <1>1, <2>7, TableFacts
    <2>9. IsInterface(i) /\ NameOf(i) \in DOMAIN files
      BY <1>1, <2>1, <2>2, <2>6, FileFacts DEF ToSet
    <2>10. files[NameOf(i)].kind = "interface"
      BY <1>3, <2>9 DEF IsInterface, FileOf
    <2>11. NameOf(i) \in Up(NameOf(c))
      BY <1>1, <2>2, <2>6, UpFacts
    <2>12. PICK m \in own : NameOf(c) \in Supertypes(m)
      BY <1>5, <1>7
    <2>13. NameOf(i) \in Above(NameOf(c)) /\ m \in Names
      BY <1>2, <1>3, <1>4, <2>8, <2>11 DEF Above
    <2>14. NameOf(i) \in Supertypes(m)
      BY <1>4, <2>2, <2>12, <2>13
    <2>15. NameOf(i) \in DeclaredInterfaces(ToLink)
      BY <1>5, <2>10, <2>14
    <2>16. QED
      BY <2>8, <2>15 DEF Goal
  <1>12. IsFiniteSet(Goal)
    BY <1>1, <1>8, FS_Subset DEF ClassesIn
  <1>13. QED
    BY <1>7, <1>8, <1>9, <1>10, <1>11, <1>12

\* Nothing else has to be found: the interfaces a class declares and those they extend, again
\* and again, are all.
LEMMA GoalIsLeast ==
  ASSUME IInv, Origins, session.step \in Later, session.ancestry # <<>>, ~Reused(ToLink),
         session.required \in Seq(DOMAIN class),
         NEW R, R \subseteq Goal, Roots \subseteq R, \A c \in R : Implemented(c) \subseteq R
  PROVE  R = Goal
  <1> DEFINE names == {NameOf(c) : c \in R} \cup {Object}
             bad == {n \in names : ~(Supertypes(n) \subseteq names)}
  <1>1. /\ files \in Worlds /\ ClassesIn(class, table) /\ NameOf(ToLink) \in Names
    BY LaterFacts, ToLinkFacts
  <1>2. /\ Goal \subseteq Found /\ Goal \subseteq InTable(table) /\ Goal \subseteq DOMAIN class
        /\ \A c \in Goal : c = table[NameOf(c)]
        /\ \A n \in ToSet(FileOf(ToLink).ifaces) : table[n] \in Goal
        /\ {NameOf(c) : c \in Goal} = DeclaredInterfaces(ToLink)
    BY GoalFacts
  <1>3. \A c \in Goal : IsInterface(c) /\ NameOf(c) \in Names /\ class[c].linked
    BY <1>1, <1>2, TableFacts DEF Found
  <1>4. Object \in DOMAIN files /\ DOMAIN files \subseteq Names
    BY <1>1, FileFacts DEF Names
  <1>5. names \subseteq Names
    BY <1>3, <1>4
  <1>6. ASSUME NEW n \in names
        PROVE  Up(n) \subseteq names
    <2>1. CASE n = Object
      <3> DEFINE o == <<Object, 1>>
      <3>1. NameOf(o) = Object
        BY DEF NameOf
      <3> HIDE DEF o
      <3>2. FileOf(o).super = NoName /\ FileOf(o).ifaces = <<>>
        BY <1>1, <1>4, <3>1, FileFacts, ObjectFile DEF Names
      <3>3. Up(NameOf(o)) = (IF FileOf(o).super = NoName THEN {} ELSE {FileOf(o).super})
                              \cup ToSet(FileOf(o).ifaces)
        BY <1>1, <1>4, <3>1, UpFacts
      <3>4. QED
        BY <2>1, <3>1, <3>2, <3>3 DEF ToSet
    <2>2. CASE n # Object
      <3>1. PICK c \in R : n = NameOf(c)
        BY <2>2
      <3>2. c \in Goal
        BY <3>1
      <3>3. Up(n) = (IF FileOf(c).super = NoName THEN {} ELSE {FileOf(c).super}) \cup ToSet(FileOf(c).ifaces)
        BY <1>1, <1>3, <3>1, <3>2, UpFacts
      <3>4. FileOf(c).super = Object
        BY <1>1, <1>3, <3>2, FileFacts
      <3>5. session.step \notin Ended
        BY DEF Later, Ended, Astray
      <3>6. FollowsFile(class, c, Filling, Queued)
        BY <1>2, <3>2, <3>5, RunningOrigins DEF FollowFiles
      <3>7. ToSet(FileOf(c).ifaces) = {NameOf(class[c].implements[k].interface) : k \in DOMAIN class[c].implements}
        BY <1>3, <3>2, <3>6 DEF FollowsFile, ImplementsFiles
      <3>8. \A k \in DOMAIN class[c].implements : class[c].implements[k].interface \in R
        BY <3>1 DEF Implemented
      <3>9. ToSet(FileOf(c).ifaces) \subseteq names
        BY <3>7, <3>8
      <3>10. QED
        BY <3>3, <3>4, <3>9
    <2>3. QED
      BY <2>1, <2>2
  <1>7. bad = {}
    <2>1. ASSUME NEW n \in bad, Up(n) \cap bad = {}
          PROVE  FALSE
      <3>1. Supertypes(n) = {n} \cup UNION {Supertypes(u) : u \in Up(n)}
        BY <1>1, <1>5, SupertypesUnfold
      <3>2. \A u \in Up(n) : Supertypes(u) \subseteq names
        BY <1>6, <2>1
      <3>3. QED
        BY <2>1, <3>1, <3>2
    <2>2. QED
      BY <1>1, <1>5, <2>1, UpFacts
  <1>8. ASSUME NEW g \in Goal
        PROVE  g \in R
    <2>1. NameOf(g) \in DeclaredInterfaces(ToLink)
      BY <1>2
    <2>2. PICK m \in ToSet(FileOf(ToLink).ifaces) : NameOf(g) \in Supertypes(m)
      BY <2>1 DEF DeclaredInterfaces
    <2>3. table[m] \in R /\ table[m] \in Goal
      BY <1>2, <2>2 DEF Roots
    <2>4. m \in Names
      BY <1>1, <1>4, <2>2, FileFacts DEF ToSet
    <2>5. NameOf(table[m]) = m
      BY <1>1, <1>2, <2>3, <2>4, TableFacts DEF ClassesIn, InTable
    <2>6. m \in names
      BY <2>3, <2>5
    <2>7. NameOf(g) \in names
      BY <1>7, <2>2, <2>6
    <2>8. NameOf(g) # Object
      BY <1>1, <1>3, ObjectFile
    <2>9. PICK c \in R : NameOf(c) = NameOf(g)
      BY <2>7, <2>8
    <2>10. QED
      BY <1>2, <2>9
  <1>9. QED
    BY <1>8

\* The heads of the lists differ from each other and from classes.
LEMMA HeadsDiffer ==
  ASSUME files \in Worlds, ClassesIn(class, table)
  PROVE  /\ IfaceList # IfaceDiscovery /\ IfaceList # IfaceRequired /\ IfaceDiscovery # IfaceRequired
         /\ {IfaceList, IfaceDiscovery, IfaceRequired} \cap DOMAIN class = {}
         /\ \A d : Heads(d) \cap DOMAIN class = {}
         /\ Heads(session.depth) = {IfaceList, IfaceDiscovery, IfaceRequired}
  <1>1. \A c \in DOMAIN class : \A list, d : c # HeadOf(list, d)
    BY PairFacts DEF ClassesIn
  <1>2. IfaceList # IfaceDiscovery /\ IfaceList # IfaceRequired /\ IfaceDiscovery # IfaceRequired
    BY DEF IfaceList, IfaceDiscovery, IfaceRequired, HeadOf
  <1>3. Heads(session.depth) = {IfaceList, IfaceDiscovery, IfaceRequired}
    BY DEF Heads, IfaceList, IfaceDiscovery, IfaceRequired
  <1>4. QED
    BY <1>1, <1>2, <1>3 DEF Heads, IfaceList, IfaceDiscovery, IfaceRequired

\* What the invariants say of the lists while a session or nothing goes on
LEMMA RunningLists ==
  ASSUME IInv, Typing, Lists, session.step \notin Ended
  PROVE  /\ files \in Worlds /\ DOMAIN session = DOMAIN Idle /\ ClassesIn(class, table)
         /\ IsFiniteSet(DOMAIN links.next) /\ NodesIn(links, class)
         /\ session.step # "idle" => Heads(session.depth) \subseteq DOMAIN links.next
         /\ session.step \in {"discover", "ancestry", "patch"} => Paired(links, IfaceList, Found)
         /\ session.step \in Later => session.required \in Seq(DOMAIN class)
         /\ session.step \in Later /\ session.ancestry # <<>> /\ ~Reused(ToLink) => FreshLists
  <1>1. files \in Worlds /\ Session /\ DOMAIN session = DOMAIN Idle
    BY DEF IInv, Ended
  <1>2. ClassesIn(class, table)
    BY <1>1 DEF Session
  <1>3. QED
    BY <1>1, <1>2 DEF Lists, Typing

\* A session that fails leaves finitely many nodes.
LEMMA EndLists ==
  ASSUME IInv', NEW cl, NEW tbl, NEW l, End(cl, tbl, l) \/ Fail(cl, tbl, l)
  PROVE  Lists'
  <1>1. CASE End(cl, tbl, l)
    <2>1. /\ DOMAIN class' = Remaining(cl, tbl) /\ DOMAIN links'.next = Remaining(cl, tbl)
          /\ session'.step = "idle"
      BY <1>1 DEF End, Restrict, Idle
    <2>2. session'.step \notin Ended /\ session'.step \notin Later
      BY <2>1 DEF Ended, Astray, Later
    <2>3. IsFiniteSet(DOMAIN class')
      BY <2>2 DEF IInv, Ended, Session, ClassesIn
    <2>4. QED
      BY <2>1, <2>2, <2>3 DEF Lists
  <1>2. CASE ~End(cl, tbl, l)
    <2>1. session'.step = "exited"
      BY <1>2 DEF Fail, Idle
    <2>2. QED
      BY <2>1 DEF Lists, Ended, BrokenListNeedsReuse
  <1>3. QED
    BY <1>1, <1>2

\* Between two classes of a session
LEMMA LinkLists ==
  ASSUME session'.step = "link", IsFiniteSet(DOMAIN links'.next),
         session'.required \in Seq(DOMAIN class'),
         session'.ancestry # <<>> /\ ~Reused(ToLink)' => Paired(links', IfaceList', Found')
  PROVE  Lists'
  <1>1. session'.step \notin Ended /\ session'.step \in Later
    BY DEF Ended, Astray, Later
  <1>2. ASSUME session'.ancestry # <<>> /\ ~Reused(ToLink)'
        PROVE  FreshLists'
    <2>1. Paired(links, IfaceList, Found)'
      BY <1>2 DEF Paired
    <2>2. QED
      BY <2>1 DEF FreshLists
  <1>3. QED
    BY <1>1, <1>2 DEF Lists

\* The steps of the search leave iface_list alone.
LEMMA SearchLists ==
  ASSUME IInv, Typing, Lists,
         Discovered \/ ListAncestor \/ AncestorsListed \/ PatchInterface \/ PatchEnd
  PROVE  Lists'
  <1>1. session.step \in {"discover", "ancestry", "patch"}
    BY DEF Discovered, ListAncestor, AncestorsListed, PatchInterface, PatchEnd
  <1>2. session.step \notin Ended
    BY <1>1 DEF Ended, Astray
  <1>3. /\ DOMAIN session = DOMAIN Idle /\ IsFiniteSet(DOMAIN links.next) /\ ClassesIn(class, table)
        /\ Paired(links, IfaceList, Found)
    BY <1>1, <1>2, RunningLists
  <1>4. CASE GoesAstray("lost")
    <2>1. Discovered /\ IsInterface(session.root)
      BY <1>3, <1>4 DEF Discovered, ListAncestor, AncestorsListed, PatchInterface, PatchEnd, GoesAstray, Idle
    <2>2. session'.step = "lost" /\ session'.root = session.root /\ files' = files
      BY <1>3, <1>4 DEF GoesAstray, Idle
    <2>3. IsInterface(session.root)'
      BY <2>1, <2>2 DEF IsInterface, FileOf, NameOf
    <2>4. session'.step \in Ended
      BY <2>2 DEF Ended, Astray
    <2>5. QED
      BY <2>3, <2>4 DEF Lists, BrokenListNeedsReuse
  <1>5. CASE GoesAstray("abort")
    <2>1. session'.step = "abort"
      BY <1>3, <1>5 DEF GoesAstray, Idle
    <2>2. session'.step \in Ended
      BY <2>1 DEF Ended, Astray
    <2>3. QED
      BY <2>1, <2>2 DEF Lists, BrokenListNeedsReuse
  <1>6. CASE ~GoesAstray("lost") /\ ~GoesAstray("abort")
    <2>1. /\ UNCHANGED <<files, links>> /\ session'.depth = session.depth
          /\ session'.required = session.required
          /\ session'.step \in {"ancestry", "patch"} \/ PatchEnd
      BY <1>3, <1>6 DEF Discovered, ListAncestor, AncestorsListed, PatchInterface, PatchEnd, Idle
    <2>2. Found' = Found /\ IfaceList' = IfaceList
      BY <2>1 DEF Found, IsInterface, FileOf, IfaceList, HeadOf
    <2>3. Paired(links', IfaceList', Found') /\ IsFiniteSet(DOMAIN links'.next)
      BY <1>3, <2>1, <2>2
    <2>4. CASE session'.step \in {"ancestry", "patch"}
      <3>1. session'.step \notin Ended /\ session'.step \notin Later
        BY <2>4 DEF Ended, Astray, Later
      <3>2. Paired(links, IfaceList, Found)'
        BY <2>3 DEF Paired
      <3>3. QED
        BY <2>3, <3>1, <3>2 DEF Lists
    <2>5. CASE PatchEnd
      <3>1. session.step = "patch" /\ session'.step = "link" /\ class' = class
        BY <1>3, <2>5 DEF PatchEnd, Idle
      <3>2. session.required \in Seq(DOMAIN class)
        BY <1>2, <3>1 DEF IInv, Ended, Session, Patching, AllDiscovered
      <3>3. QED
        BY <2>1, <2>3, <3>1, <3>2, LinkLists
    <2>6. QED
      BY <2>1, <2>4, <2>5
  <1>7. QED
    BY <1>4, <1>5, <1>6

\* New nodes
LEMMA NodesFinite ==
  ASSUME NEW l, IsFiniteSet(DOMAIN l.next), NEW S, IsFiniteSet(S)
  PROVE  /\ IsFiniteSet(DOMAIN WithNodes(l, S).next)
         /\ DOMAIN WithNodes(l, S).next = DOMAIN l.next \cup S
         /\ DOMAIN WithNodes(l, S).prev = DOMAIN l.prev \cup S
         /\ \A n \in S : WithNodes(l, S).next[n] = n /\ WithNodes(l, S).prev[n] = n
         /\ SameLinks(l, WithNodes(l, S), (DOMAIN l.next \cap DOMAIN l.prev) \ S)
  <1> DEFINE D == DOMAIN l.next
             U == D \cup S
  <1>1. IsFiniteSet(D)
    OBVIOUS
  <1>2. DOMAIN WithNodes(l, S).next = U
    BY DEF WithNodes, Added
  <1> HIDE DEF D
  <1>3. IsFiniteSet(U)
    BY <1>1, FS_Union
  <1> HIDE DEF U
  <1>4. IsFiniteSet(DOMAIN WithNodes(l, S).next)
    BY <1>2, <1>3
  <1>5. QED
    BY <1>4 DEF WithNodes, Added, SameLinks

LEMMA LoadLists ==
  ASSUME IInv, Typing, Lists, NEW name \in Names, NEW d, Load(name, d)
  PROVE  Lists'
  <1> DEFINE c == Fresh(name)
             S == {c} \cup Heads(d)
  <1>1. /\ session.step = "idle" /\ links' = WithNodes(links, S)
        /\ session' = [Idle EXCEPT !.step = "discover", !.depth = d, !.root = c, !.queue = <<c>>]
    BY DEF Load
  <1>2. session.step \notin Ended
    BY <1>1 DEF Ended, Astray
  <1>3. IsFiniteSet(DOMAIN links.next) /\ DOMAIN links.next = DOMAIN links.prev
    BY <1>2, RunningLists DEF NodesIn
  <1>4. IsFiniteSet(S)
    <2> DEFINE A == {HeadOf("iface_list", d)}
               B == {HeadOf("iface_discovery", d)}
               C == {HeadOf("iface_required", d)}
               E == {c}
               AB == A \cup B
               H == AB \cup C
    <2>1. S = E \cup H
      BY DEF Heads
    <2>2. IsFiniteSet(A) /\ IsFiniteSet(B) /\ IsFiniteSet(C) /\ IsFiniteSet(E)
      BY FS_Singleton
    <2> HIDE DEF A, B, C, E, S
    <2>3. IsFiniteSet(AB)
      BY <2>2, FS_Union
    <2> HIDE DEF AB
    <2>4. IsFiniteSet(H)
      BY <2>2, <2>3, FS_Union
    <2> HIDE DEF H
    <2>5. QED
      BY <2>1, <2>2, <2>4, FS_Union
  <1>5. session'.step = "discover" /\ session'.depth = d /\ session'.required = <<>>
    BY <1>1 DEF Idle
  <1>6. IfaceList' = HeadOf("iface_list", d) /\ Found' = {}
    BY <1>5 DEF IfaceList, HeadOf, Found, ToSet
  <1>7. IfaceList' \in S
    BY <1>6 DEF Heads
  <1> HIDE DEF c, S
  <1>8. /\ DOMAIN links'.next = DOMAIN links.next \cup S /\ DOMAIN links'.prev = DOMAIN links.prev \cup S
        /\ \A n \in S : links'.next[n] = n /\ links'.prev[n] = n
        /\ IsFiniteSet(DOMAIN links'.next)
    BY <1>1, <1>3, <1>4, NodesFinite
  <1>9. Paired(links, IfaceList, Found)'
    BY <1>6, <1>7, <1>8 DEF Paired
  <1>10. IsFiniteSet(DOMAIN links'.next)
    BY <1>8
  <1>11. session'.step \notin Ended /\ session'.step \notin Later
    BY <1>5 DEF Ended, Astray, Later
  <1>12. QED
    BY <1>9, <1>10, <1>11 DEF Lists

LEMMA LoadArrayLists ==
  ASSUME IInv, Typing, Lists, LoadArray
  PROVE  Lists'
  <1> DEFINE c == <<ArrayName, 1>>
  <1>1. session.step = "idle" /\ session' = session /\ links' = WithNodes(links, {c})
    BY DEF LoadArray
  <1>2. session.step \notin Ended /\ session.step \notin Later
    BY <1>1 DEF Ended, Astray, Later
  <1>3. IsFiniteSet(DOMAIN links.next)
    BY <1>2, RunningLists
  <1> HIDE DEF c
  <1> DEFINE S == {c}
  <1>4. IsFiniteSet(S) /\ links' = WithNodes(links, S)
    BY <1>1, FS_Singleton
  <1> HIDE DEF S
  <1>5. IsFiniteSet(DOMAIN links'.next)
    BY <1>3, <1>4, NodesFinite
  <1>6. QED
    BY <1>1, <1>2, <1>5 DEF Lists

\* Converted classes are on no list.
LEMMA ConversionLists ==
  ASSUME IInv, Typing, Lists, session.step = "discover", NEW name, NEW new, ConvertsFor(name, new)
  PROVE  LET l == WithNodes(links, ToSet(new))
         IN  /\ IsFiniteSet(DOMAIN l.next) /\ Paired(l, IfaceList, Found)
             /\ DOMAIN class \subseteq DOMAIN l.next \cap DOMAIN l.prev
  <1> DEFINE S == ToSet(new)
             l == WithNodes(links, S)
  <1>1. session.step \notin Ended
    BY DEF Ended, Astray
  <1>2. /\ files \in Worlds /\ NodesIn(links, class) /\ IsFiniteSet(DOMAIN links.next)
        /\ Paired(links, IfaceList, Found)
    BY <1>1, RunningLists
  <1>3. /\ new = <<>> \/ new = <<Fresh(name)>>
        /\ S \cap DOMAIN class = {} /\ \A c \in S : IsPair(c)
    BY DEF ConvertsFor, Converts
  <1>4. IsFiniteSet(S)
    <2>1. S = {} \/ S = {Fresh(name)}
      BY <1>3 DEF ToSet
    <2>2. QED
      BY <2>1, FS_Singleton, FS_EmptySet
  <1>5. Found \subseteq DOMAIN class /\ IfaceList \notin S
    <2>1. session.required \in Seq(DOMAIN class)
      BY <1>1 DEF IInv, Session, Discovering, Ended
    <2>2. \A c \in S : c # IfaceList
      BY <1>2, <1>3, PairFacts DEF IfaceList
    <2>3. QED
      BY <2>1, <2>2 DEF Found, ToSet
  <1>6. (Found \cup {IfaceList}) \subseteq (DOMAIN links.next \cap DOMAIN links.prev) \ S
    BY <1>2, <1>3, <1>5 DEF Paired
  <1> HIDE DEF S
  <1>7. /\ IsFiniteSet(DOMAIN l.next)
        /\ DOMAIN l.next = DOMAIN links.next \cup S /\ DOMAIN l.prev = DOMAIN links.prev \cup S
        /\ SameLinks(links, l, (DOMAIN links.next \cap DOMAIN links.prev) \ S)
    BY <1>2, <1>4, NodesFinite
  <1> HIDE DEF l
  <1>8. MoreNodes(links, l) /\ SameLinks(links, l, Found \cup {IfaceList})
    BY <1>6, <1>7 DEF MoreNodes, SameLinks
  <1>9. Paired(l, IfaceList, Found)
    BY <1>2, <1>8, RingStays
  <1>10. QED
    BY <1>2, <1>7, <1>9 DEF l, S, NodesIn

\* While a session discovers classes
LEMMA DiscoveryLists ==
  ASSUME session'.step = "discover", IsFiniteSet(DOMAIN links'.next), Paired(links', IfaceList', Found')
  PROVE  Lists'
  <1>1. session'.step \notin Ended /\ session'.step \notin Later
    BY DEF Ended, Astray, Later
  <1>2. Paired(links, IfaceList, Found)'
    BY DEF Paired
  <1>3. QED
    BY <1>1, <1>2 DEF Lists

LEMMA DiscoverInterfaceLists ==
  ASSUME IInv, Typing, Lists, DiscoverInterface
  PROVE  Lists'
  <1> DEFINE n == Head(session.left)
             new == Missing(session.required, n)
  <1>1. /\ session.step = "discover" /\ session.left # <<>> /\ files' = files
        /\ links' = WithNodes(links, ToSet(new))
        /\ session' = [session EXCEPT !.queue = @ \o new, !.left = Tail(@)]
    BY DEF DiscoverInterface
  <1>2. session.step \notin Ended
    BY <1>1 DEF Ended, Astray
  <1>3. /\ files \in Worlds /\ ClassesIn(class, table) /\ ClosedIn(class, table, {})
        /\ Discovering /\ DOMAIN session = DOMAIN Idle
    BY <1>1, <1>2 DEF IInv, Session, Ended
  <1>4. n \in Names
    BY <1>1, <1>3, HeadFacts DEF Discovering, Names
  <1> HIDE DEF n
  <1>5. ConvertsFor(n, new)
    BY <1>3, <1>4, MissingKeeps
  <1>6. /\ session'.step = "discover" /\ session'.depth = session.depth
        /\ session'.required = session.required
    BY <1>1, <1>3 DEF Idle
  <1> HIDE DEF new
  <1>7. IsFiniteSet(DOMAIN links'.next) /\ Paired(links', IfaceList, Found)
    BY <1>1, <1>5, ConversionLists
  <1>8. IfaceList' = IfaceList /\ Found' = Found
    BY <1>1, <1>6 DEF Found, IsInterface, FileOf, IfaceList, HeadOf
  <1>9. QED
    BY <1>6, <1>7, <1>8, DiscoveryLists

\* A discovered interface is put on iface_list.
LEMMA DiscoverLists ==
  ASSUME IInv, Typing, Lists, Discover
  PROVE  Lists'
  <1> DEFINE c == Head(session.queue)
             r == <<c>> \o session.required
             super == FileOf(c).super
             new == IF super = NoName THEN <<>> ELSE Missing(r, super)
             l == WithNodes(links, ToSet(new))
  <1>1. /\ session.step = "discover" /\ session.queue # <<>> /\ files' = files
        /\ links' = IF IsInterface(c) THEN ListAdd(l, c, IfaceList) ELSE l
        /\ session' = [session EXCEPT !.queue = Tail(session.queue) \o new, !.required = r,
                                      !.left = FileOf(c).ifaces]
    BY DEF Discover
  <1>2. session.step \notin Ended
    BY <1>1 DEF Ended, Astray
  <1>3. /\ files \in Worlds /\ ClassesIn(class, table) /\ ClosedIn(class, table, {})
        /\ Discovering /\ DOMAIN session = DOMAIN Idle
    BY <1>1, <1>2 DEF IInv, Session, Ended
  <1>4. /\ session'.step = "discover" /\ session'.depth = session.depth /\ session'.required = r
    BY <1>1, <1>3 DEF Idle
  <1>5. c \in DOMAIN class /\ c \in ToSet(session.queue) /\ session.required \in Seq(DOMAIN class)
    BY <1>1, <1>3, HeadFacts DEF Discovering
  <1> HIDE DEF c
  <1>6. super = NoName \/ super \in Names
    BY <1>3, <1>5, FileFacts DEF ClassesIn, Names
  <1>7. ConvertsFor(super, new)
    BY <1>3, <1>6, MissingKeeps, NothingConverts
  <1>8. ToSet(r) = {c} \cup ToSet(session.required) /\ c \notin ToSet(session.required)
    BY <1>3, <1>5, ConsFacts DEF Discovering
  <1> HIDE DEF new, super, r
  <1>9. /\ IsFiniteSet(DOMAIN l.next) /\ Paired(l, IfaceList, Found)
        /\ DOMAIN class \subseteq DOMAIN l.next \cap DOMAIN l.prev
    BY <1>1, <1>7, ConversionLists
  <1>10. IfaceList' = IfaceList /\ Found' = IF IsInterface(c) THEN Found \cup {c} ELSE Found
    BY <1>1, <1>4, <1>8 DEF Found, IsInterface, FileOf, IfaceList, HeadOf
  <1> HIDE DEF l
  <1>11. CASE ~IsInterface(c)
    BY <1>1, <1>4, <1>9, <1>10, <1>11, DiscoveryLists
  <1>12. CASE IsInterface(c)
    <2>1. links' = Insert(l, c, IfaceList, l.next[IfaceList])
      BY <1>1, <1>12 DEF ListAdd
    <2>2. c \notin Found \cup {IfaceList}
      BY <1>3, <1>5, <1>8, HeadsDiffer DEF Found
    <2>3. Paired(links', IfaceList, Found \cup {c})
      BY <1>5, <1>9, <2>1, <2>2, InsertFacts
    <2>4. SameNodes(l, links')
      BY <1>1, <1>12, ListsKeepNodes
    <2>5. QED
      BY <1>4, <1>9, <1>10, <1>12, <2>3, <2>4, DiscoveryLists DEF SameNodes
  <1>13. QED
    BY <1>11, <1>12

----------------------------------------------------------------------------
(* While the interfaces of a class are collected *)

\* Moving a node within a list
LEMMA MoveWithin ==
  ASSUME NEW l, NEW h, NEW M, Ring(l, h, M), NEW n \in M,
         NEW m, m \in {ListAdd(ListDelInit(l, n), n, h), ListAddTail(ListDelInit(l, n), n, h)}
  PROVE  /\ Ring(m, h, M) /\ MoreNodes(l, m)
         /\ SameLinks(l, m, (DOMAIN l.next \cap DOMAIN l.prev) \ (M \cup {h}))
         /\ ~Smashes(l, n)
  <1> DEFINE k == ListDelInit(l, n)
             D == DOMAIN l.next \cap DOMAIN l.prev
             rest == M \ {n}
  <1>1. Paired(l, h, M) /\ M \cup {h} \subseteq D /\ h \notin M
    BY DEF Ring, Paired
  <1>2. MoreNodes(l, k) /\ SameLinks(l, k, D \ (M \cup {h})) /\ ~Smashes(l, n)
    BY <1>1, DelInitFacts
  <1>3. Ring(k, h, rest)
    BY DelInitConnects
  <1> HIDE DEF k
  <1>4. Paired(k, h, rest) /\ n \notin rest \cup {h} /\ n \in DOMAIN k.next \cap DOMAIN k.prev
    BY <1>1, <1>2, <1>3 DEF Ring, MoreNodes
  <1>5. PICK p \in rest \cup {h} : m = Insert(k, n, p, k.next[p])
    <2>1. k.prev[h] \in rest \cup {h} /\ k.next[k.prev[h]] = h
      BY <1>4 DEF Paired
    <2>2. CASE m = ListAdd(k, n, h)
      BY <2>2 DEF ListAdd
    <2>3. CASE m = ListAddTail(k, n, h)
      BY <2>1, <2>3 DEF ListAddTail
    <2>4. QED
      BY <2>2, <2>3 DEF k
  <1> HIDE DEF rest
  <1>6. Ring(m, h, rest \cup {n})
    BY <1>3, <1>4, <1>5, InsertConnects
  <1>7. /\ MoreNodes(k, m)
        /\ SameLinks(k, m, (DOMAIN k.next \cap DOMAIN k.prev) \ (rest \cup {h, n}))
    BY <1>4, <1>5, InsertFacts
  <1>8. rest \cup {n} = M
    BY DEF rest
  <1>9. MoreNodes(l, m)
    BY <1>2, <1>7 DEF MoreNodes
  <1>10. SameLinks(l, m, D \ (M \cup {h}))
    BY <1>2, <1>7, <1>8 DEF SameLinks, MoreNodes
  <1>11. QED
    BY <1>2, <1>6, <1>8, <1>9, <1>10

\* A list that a session loses, or a stack it writes into
LEMMA AstrayLists ==
  ASSUME IInv, session.step \in Later, Reused(ToLink), NEW step \in Astray, GoesAstray(step)
  PROVE  Lists'
  <1>1. DOMAIN session = DOMAIN Idle
    BY LaterFacts
  <1>2. /\ UNCHANGED <<files, table>> /\ session'.step = step /\ session'.required = session.required
        /\ session'.ancestry = session.ancestry /\ session'.depth = session.depth
    BY <1>1 DEF GoesAstray, Idle
  <1>3. Reused(ToLink)'
    BY <1>2, TargetStays
  <1>4. session'.step \in Ended
    BY <1>2 DEF Ended
  <1>5. QED
    BY <1>3, <1>4 DEF Lists, BrokenListNeedsReuse

\* The invariant while a session works on one class
LEMMA ClassLists ==
  ASSUME IInv, Typing, Lists, session.step \in Later, session.ancestry # <<>>,
         UNCHANGED <<files, table>>, DOMAIN class' = DOMAIN class,
         session'.step \in Later, session'.required = session.required,
         session'.ancestry = session.ancestry, session'.depth = session.depth,
         SameNodes(links, links'), ~Reused(ToLink) => FreshLists'
  PROVE  Lists'
  <1>1. session.step \notin Ended
    BY DEF Later, Ended, Astray
  <1>2. IsFiniteSet(DOMAIN links.next) /\ session.required \in Seq(DOMAIN class)
    BY <1>1, RunningLists
  <1>3. Reused(ToLink)' <=> Reused(ToLink)
    BY TargetStays
  <1>4. session'.step \notin Ended /\ session'.step \notin {"discover", "ancestry", "patch"}
    BY DEF Later, Ended, Astray
  <1>5. IsFiniteSet(DOMAIN links'.next)
    BY <1>2 DEF SameNodes
  <1>6. QED
    BY <1>2, <1>3, <1>4, <1>5 DEF Lists

\* What is known of the lists of a class none of whose interfaces is reused
LEMMA FreshListFacts ==
  ASSUME IInv, Typing, Origins, Lists, session.step \in Later, session.ancestry # <<>>, ~Reused(ToLink)
  PROVE  /\ FreshLists
         /\ session.required \in Seq(DOMAIN class)
         /\ Found \subseteq DOMAIN class /\ Goal \subseteq Found
         /\ {IfaceList, IfaceDiscovery, IfaceRequired} \cap DOMAIN class = {}
         /\ IfaceList # IfaceDiscovery /\ IfaceList # IfaceRequired /\ IfaceDiscovery # IfaceRequired
         /\ {IfaceList, IfaceDiscovery, IfaceRequired} \subseteq DOMAIN links.next \cap DOMAIN links.prev
  <1>1. session.step \notin Ended /\ session.step # "idle"
    BY DEF Later, Ended, Astray
  <1>2. FreshLists /\ session.required \in Seq(DOMAIN class) /\ files \in Worlds /\ ClassesIn(class, table)
    BY <1>1, RunningLists
  <1>3. Found \subseteq DOMAIN class
    BY <1>2 DEF Found, ToSet
  <1>4. Goal \subseteq Found
    BY <1>2, GoalFacts
  <1>5. Heads(session.depth) \subseteq DOMAIN links.next /\ DOMAIN links.next = DOMAIN links.prev
    BY <1>1, RunningLists DEF NodesIn
  <1>6. QED
    BY <1>2, <1>3, <1>4, <1>5, HeadsDiffer

\* The lists that begin are empty.
LEMMA FlattenStartLists ==
  ASSUME IInv, Typing, Origins, Lists, FlattenStart
  PROVE  Lists'
  <1> DEFINE first == ListInit(links, IfaceDiscovery)
             declared == FileOf(ToLink).ifaces
             left == [i \in DOMAIN declared |-> Interface(declared[i])]
  <1>1. /\ session.step = "link" /\ session.ancestry # <<>> /\ UNCHANGED <<files, class, table>>
        /\ links' = ListInit(first, IfaceRequired)
        /\ session' = [session EXCEPT !.step = "roots", !.count = 0, !.left = left]
    BY DEF FlattenStart
  <1>2. session.step \in Later
    BY <1>1 DEF Later
  <1>3. DOMAIN session = DOMAIN Idle /\ files \in Worlds
    BY <1>2, LaterFacts
  <1> HIDE DEF left
  <1>4. /\ session'.step = "roots" /\ session'.count = 0 /\ session'.left = left
        /\ session'.required = session.required /\ session'.ancestry = session.ancestry
        /\ session'.depth = session.depth
    BY <1>1, <1>3 DEF Idle
  <1>5. SameNodes(links, first) /\ SameNodes(first, links')
    BY <1>1, ListsKeepNodes
  <1>6. ASSUME ~Reused(ToLink)
        PROVE  FreshLists'
    <2>1. /\ Paired(links, IfaceList, Found) /\ session.required \in Seq(DOMAIN class)
          /\ Found \subseteq DOMAIN class
          /\ {IfaceList, IfaceDiscovery, IfaceRequired} \cap DOMAIN class = {}
          /\ IfaceList # IfaceDiscovery /\ IfaceList # IfaceRequired /\ IfaceDiscovery # IfaceRequired
          /\ IfaceDiscovery \in DOMAIN links.next \cap DOMAIN links.prev
          /\ IfaceRequired \in DOMAIN links.next \cap DOMAIN links.prev
      BY <1>1, <1>2, <1>6, FreshListFacts DEF FreshLists
    <2>2. /\ Ring(first, IfaceDiscovery, {}) /\ MoreNodes(links, first)
          /\ SameLinks(links, first, (DOMAIN links.next \cap DOMAIN links.prev) \ {IfaceDiscovery})
      BY <2>1, InitFacts
    <2> HIDE DEF first
    <2>3. IfaceRequired \in DOMAIN first.next \cap DOMAIN first.prev
      BY <1>5, <2>1 DEF SameNodes
    <2>4. /\ Ring(links', IfaceRequired, {}) /\ MoreNodes(first, links')
          /\ SameLinks(first, links', (DOMAIN first.next \cap DOMAIN first.prev) \ {IfaceRequired})
      BY <1>1, <2>3, InitFacts
    <2>5. Found \cup {IfaceList} \subseteq DOMAIN links.next \cap DOMAIN links.prev
      BY <2>1 DEF Paired
    <2>6. SameLinks(links, first, Found \cup {IfaceList})
      BY <2>1, <2>2, <2>5 DEF SameLinks
    <2>7. Paired(first, IfaceList, Found)
      BY <2>1, <2>2, <2>6, RingStays
    <2>8. SameLinks(first, links', Found \cup {IfaceList})
      BY <1>5, <2>1, <2>4, <2>5 DEF SameLinks, SameNodes
    <2>9. Paired(links', IfaceList, Found)
      BY <2>4, <2>7, <2>8, RingStays
    <2>10. SameLinks(first, links', {} \cup {IfaceDiscovery})
      BY <1>5, <2>1, <2>4 DEF SameLinks, SameNodes
    <2>11. Ring(links', IfaceDiscovery, {})
      BY <2>2, <2>4, <2>10, RingStays
    <2>12. \A n \in ToSet(declared) : table[n] \in Goal /\ Interface(n) = table[n]
      BY <1>1, <1>2, <1>6, <2>1, GoalFacts
    <2>13. declared \in Seq(DOMAIN files)
      BY <1>1, <1>2, <1>3, ToLinkFacts, FileFacts
    <2>14. left \in Seq(Goal) /\ \A n \in ToSet(declared) : table[n] \in ToSet(left)
      <3> DEFINE q == declared
      <3>1. /\ DOMAIN left = DOMAIN q /\ \A i \in DOMAIN q : left[i] = Interface(q[i])
            /\ DOMAIN q = 1..Len(q) /\ Len(q) \in Nat
        BY <2>13 DEF left
      <3>2. \A i \in DOMAIN q : q[i] \in ToSet(q)
        BY DEF ToSet
      <3>3. left = [i \in 1..Len(q) |-> Interface(q[i])]
        BY <3>1 DEF left
      <3> HIDE DEF q
      <3>4. \A i \in 1..Len(q) : Interface(q[i]) \in Goal
        BY <2>12, <3>1, <3>2 DEF q
      <3>5. left \in Seq(Goal)
        BY <3>1, <3>3, <3>4
      <3>6. ToSet(left) = {left[i] : i \in DOMAIN q} /\ ToSet(q) = {q[i] : i \in DOMAIN q}
        BY <3>1 DEF ToSet
      <3>7. \A n \in ToSet(q) : table[n] \in ToSet(left)
        BY <2>12, <3>1, <3>6 DEF q
      <3>8. QED
        BY <3>5, <3>7 DEF q
    <2>15. Roots \subseteq ToSet(left)
      BY <2>14 DEF Roots
    <2> HIDE DEF declared
    <2>16. /\ Goal' = Goal /\ Roots' = Roots /\ Found' = Found
           /\ IfaceList' = IfaceList /\ IfaceDiscovery' = IfaceDiscovery /\ IfaceRequired' = IfaceRequired
      BY <1>1, <1>4, TargetStays
    <2>17. Found \ ({} \cup {}) = Found /\ Cardinality({}) = 0
      BY FS_EmptySet
    <2>18. Collecting({}, {})'
      BY <1>4, <2>9, <2>4, <2>11, <2>14, <2>15, <2>16, <2>17 DEF Collecting
    <2>19. QED
      BY <1>4, <2>18 DEF FreshLists
  <1>7. session'.step \in Later /\ SameNodes(links, links')
    BY <1>4, <1>5 DEF Later, SameNodes
  <1>8. QED
    BY <1>1, <1>2, <1>4, <1>6, <1>7, ClassLists

\* The three lists of a session, of interfaces in F
Three(l, a, b, c, F, disc, req) ==
  /\ Paired(l, a, F \ (disc \cup req)) /\ Ring(l, b, disc) /\ Ring(l, c, req)
  /\ {a, b, c} \cap F = {} /\ a # b /\ a # c /\ b # c
  /\ disc \cup req \subseteq F /\ disc \cap req = {}

\* One that is not on the last list is put on the second, wherever it is.
LEMMA ListedToo ==
  ASSUME NEW l, NEW a, NEW b, NEW c, NEW F, NEW disc, NEW req, Three(l, a, b, c, F, disc, req),
         NEW i \in F \ req,
         NEW m, m \in {ListAdd(ListDelInit(l, i), i, b), ListAddTail(ListDelInit(l, i), i, b)}
  PROVE  Three(m, a, b, c, F, disc \cup {i}, req) /\ ~Smashes(l, i)
  <1> DEFINE K == F \ (disc \cup req)
             D == DOMAIN l.next \cap DOMAIN l.prev
             more == disc \cup {i}
  <1>1. /\ Paired(l, a, K) /\ Ring(l, b, disc) /\ Ring(l, c, req)
        /\ K \cup {a} \subseteq D /\ req \cup {c} \subseteq D
    BY DEF Three, Ring, Paired
  <1>2. CASE i \in disc
    <2>1. /\ Ring(m, b, disc) /\ MoreNodes(l, m) /\ SameLinks(l, m, D \ (disc \cup {b})) /\ ~Smashes(l, i)
      BY <1>1, <1>2, MoveWithin
    <2>2. SameLinks(l, m, K \cup {a}) /\ SameLinks(l, m, req \cup {c})
      BY <1>1, <2>1 DEF SameLinks, Three
    <2>3. Paired(m, a, K) /\ Ring(m, c, req)
      BY <1>1, <2>1, <2>2, RingStays
    <2>4. disc \cup {i} = disc
      BY <1>2
    <2>5. QED
      BY <2>1, <2>3, <2>4 DEF Three
  <1>3. CASE i \notin disc
    <2>1. i \in K /\ (K \cup {a}) \cap (disc \cup {b}) = {}
      BY <1>3 DEF Three
    <2> HIDE DEF K
    <2>2. /\ Paired(m, a, K \ {i}) /\ Ring(m, b, more) /\ MoreNodes(l, m) /\ ~Smashes(l, i)
          /\ SameLinks(l, m, D \ (K \cup {a} \cup disc \cup {b}))
      <3>1. (disc \cup {b}) \cap (K \cup {a}) = {}
        BY <2>1
      <3>2. CASE m = ListAdd(ListDelInit(l, i), i, b)
        BY <1>1, <2>1, <3>1, <3>2, MoveFacts
      <3>3. CASE m = ListAddTail(ListDelInit(l, i), i, b)
        BY <1>1, <2>1, <3>1, <3>3, MoveFacts
      <3>4. QED
        BY <3>2, <3>3
    <2>3. SameLinks(l, m, req \cup {c})
      BY <1>1, <2>2 DEF SameLinks, Three, K
    <2>4. Ring(m, c, req)
      BY <1>1, <2>2, <2>3, RingStays
    <2>5. K \ {i} = F \ (more \cup req) /\ more \cup req \subseteq F /\ more \cap req = {}
      BY DEF K, Three
    <2> HIDE DEF more
    <2>6. QED
      BY <2>2, <2>4, <2>5 DEF Three, more
  <1>4. QED
    BY <1>2, <1>3

\* One that is on the second list is put on the last.
LEMMA Required ==
  ASSUME NEW l, NEW a, NEW b, NEW c, NEW F, NEW disc, NEW req, Three(l, a, b, c, F, disc, req),
         NEW i \in disc, NEW m, m = ListAddTail(ListDelInit(l, i), i, c)
  PROVE  Three(m, a, b, c, F, disc \ {i}, req \cup {i}) /\ ~Smashes(l, i)
  <1> DEFINE K == F \ (disc \cup req)
             D == DOMAIN l.next \cap DOMAIN l.prev
             less == disc \ {i}
             more == req \cup {i}
  <1>1. /\ Paired(l, a, K) /\ Ring(l, b, disc) /\ Ring(l, c, req) /\ Paired(l, b, disc)
        /\ K \cup {a} \subseteq D
    BY DEF Three, Ring, Paired
  <1>2. (disc \cup {b}) \cap (req \cup {c}) = {}
    BY DEF Three
  <1>3. /\ Ring(m, b, less) /\ Ring(m, c, more) /\ MoreNodes(l, m) /\ ~Smashes(l, i)
        /\ SameLinks(l, m, D \ (disc \cup {b} \cup req \cup {c}))
    BY <1>1, <1>2, MoveFacts
  <1>4. SameLinks(l, m, K \cup {a})
    BY <1>1, <1>3 DEF SameLinks, Three
  <1>5. Paired(m, a, K)
    BY <1>1, <1>3, <1>4, RingStays
  <1>6. K = F \ (less \cup more) /\ less \cup more \subseteq F /\ less \cap more = {}
    BY DEF Three
  <1> HIDE DEF K, less, more
  <1>7. QED
    BY <1>3, <1>5, <1>6 DEF Three, less, more

\* The lists while the interfaces of a class are collected
LEMMA CollectingFacts ==
  ASSUME IInv, Typing, Origins, Lists, session.step \in {"roots", "flatten", "extended"}, ~Reused(ToLink)
  PROVE  \E disc, req :
           /\ Collecting(disc, req) /\ Three(links, IfaceList, IfaceDiscovery, IfaceRequired, Found, disc, req)
           /\ disc \cup req \subseteq Goal
  <1>1. session.step \in Later
    BY DEF Later
  <1>2. session.ancestry # <<>>
    BY <1>1, LaterFacts DEF LinkingOne
  <1>3. PICK disc \in SUBSET Found : \E req \in SUBSET Found : Collecting(disc, req)
    BY <1>1, <1>2, FreshListFacts DEF FreshLists
  <1>4. PICK req \in SUBSET Found : Collecting(disc, req)
    BY <1>3
  <1>5. Three(links, IfaceList, IfaceDiscovery, IfaceRequired, Found, disc, req)
    BY <1>1, <1>2, <1>4, FreshListFacts DEF Three, Collecting
  <1>6. QED
    BY <1>4, <1>5 DEF Collecting

\* The same after a step
LEMMA CollectingAgain ==
  ASSUME IInv, Origins, Typing, Lists, session.step \in {"roots", "flatten", "extended"}, ~Reused(ToLink),
         UNCHANGED <<files, table, class>>,
         session'.step \in {"roots", "flatten", "extended"}, session'.required = session.required,
         session'.ancestry = session.ancestry, session'.depth = session.depth,
         NEW disc, NEW req, disc \cup req \subseteq Goal,
         Three(links', IfaceList, IfaceDiscovery, IfaceRequired, Found, disc, req),
         session'.count = Cardinality(req),
         session'.step = "roots" => req = {},
         session'.step \in {"roots", "extended"} => session'.left \in Seq(Goal),
         Roots \subseteq disc \cup req \cup (IF session'.step = "roots" THEN ToSet(session'.left) ELSE {}),
         \A c \in req : Implemented(c) \subseteq
           disc \cup req \cup (IF session'.step = "extended" /\ c = session'.at THEN ToSet(session'.left) ELSE {}),
         session'.step = "flatten" =>
           session'.at \in disc \cup {IfaceDiscovery} /\ session'.then = links'.next[session'.at],
         session'.step = "extended" => session'.then \in disc \cup {IfaceDiscovery}
  PROVE  FreshLists'
  <1>1. /\ Goal' = Goal /\ Roots' = Roots /\ Found' = Found
        /\ IfaceList' = IfaceList /\ IfaceDiscovery' = IfaceDiscovery /\ IfaceRequired' = IfaceRequired
    BY TargetStays
  <1>2. \A c : Implemented(c)' = Implemented(c)
    BY DEF Implemented
  <1>3. \A c : ToCome(c)' = IF session'.step = "extended" /\ c = session'.at THEN ToSet(session'.left) ELSE {}
    BY DEF ToCome
  <1>4. \A c \in req : (Implemented(c) \subseteq disc \cup req \cup ToCome(c))'
    BY <1>2, <1>3
  <1>5. Collecting(disc, req)'
    BY <1>1, <1>4 DEF Collecting, Three
  <1>6. disc \in SUBSET Found' /\ req \in SUBSET Found'
    BY <1>1 DEF Three
  <1>7. QED
    BY <1>5, <1>6 DEF FreshLists

LEMMA ListRootLists ==
  ASSUME IInv, Typing, Origins, Lists, ListRoot
  PROVE  Lists'
  <1> DEFINE i == Head(session.left)
  <1>1. session.step = "roots" /\ session.left # <<>> /\ session.step \in Later
    BY DEF ListRoot, Later
  <1>2. DOMAIN session = DOMAIN Idle /\ session.ancestry # <<>>
    BY <1>1, LaterFacts DEF LinkingOne
  <1>3. ASSUME ~Reused(ToLink)
        PROVE  \E disc, req :
                 /\ Collecting(disc, req)
                 /\ Three(links, IfaceList, IfaceDiscovery, IfaceRequired, Found, disc, req)
                 /\ disc \cup req \subseteq Goal /\ req = {}
                 /\ i \in Found \ req /\ i \in Goal
                 /\ Tail(session.left) \in Seq(Goal) /\ ToSet(session.left) = {i} \cup ToSet(Tail(session.left))
    <2>1. PICK disc, req :
            /\ Collecting(disc, req)
            /\ Three(links, IfaceList, IfaceDiscovery, IfaceRequired, Found, disc, req)
            /\ disc \cup req \subseteq Goal
      BY <1>1, <1>3, CollectingFacts
    <2>2. session.left \in Seq(Goal) /\ req = {}
      BY <1>1, <2>1 DEF Collecting
    <2>3. i \in Goal /\ Tail(session.left) \in Seq(Goal) /\ ToSet(session.left) = {i} \cup ToSet(Tail(session.left))
      BY <1>1, <2>2, HeadFacts
    <2>4. Goal \subseteq Found
      BY <1>1, <1>2, <1>3, FreshListFacts
    <2>5. QED
      BY <2>1, <2>2, <2>3, <2>4
  <1>4. CASE Smashes(links, i) /\ GoesAstray("smashed")
    <2>1. Reused(ToLink)
      BY <1>3, <1>4, ListedToo
    <2>2. QED
      BY <1>1, <1>4, <2>1, AstrayLists DEF Astray
  <1>5. CASE /\ links' = ListAdd(ListDelInit(links, i), i, IfaceDiscovery)
             /\ session' = [session EXCEPT !.left = Tail(@)]
             /\ UNCHANGED <<files, class, table, jlClass>>
    <2>1. /\ session'.step = "roots" /\ session'.left = Tail(session.left)
          /\ session'.required = session.required /\ session'.ancestry = session.ancestry
          /\ session'.depth = session.depth /\ session'.count = session.count
      BY <1>1, <1>2, <1>5 DEF Idle
    <2>2. ASSUME ~Reused(ToLink)
          PROVE  FreshLists'
      <3>1. PICK disc, req :
              /\ Collecting(disc, req)
              /\ Three(links, IfaceList, IfaceDiscovery, IfaceRequired, Found, disc, req)
              /\ disc \cup req \subseteq Goal /\ req = {}
              /\ i \in Found \ req /\ i \in Goal
              /\ Tail(session.left) \in Seq(Goal) /\ ToSet(session.left) = {i} \cup ToSet(Tail(session.left))
        BY <1>3, <2>2
      <3> DEFINE more == disc \cup {i}
      <3>2. Three(links', IfaceList, IfaceDiscovery, IfaceRequired, Found, more, req)
        BY <1>5, <3>1, ListedToo
      <3> HIDE DEF i
      <3>3. Roots \subseteq more \cup req \cup ToSet(session'.left)
        BY <1>1, <2>1, <3>1 DEF Collecting
      <3>4. session'.count = Cardinality(req) /\ session'.left \in Seq(Goal) /\ more \cup req \subseteq Goal
        BY <2>1, <3>1 DEF Collecting
      <3> HIDE DEF more
      <3>5. QED
        BY <1>1, <1>5, <2>1, <2>2, <3>1, <3>2, <3>3, <3>4, CollectingAgain
    <2>3. SameNodes(links, ListDelInit(links, i)) /\ SameNodes(ListDelInit(links, i), links')
      BY <1>5, ListsKeepNodes
    <2>4. SameNodes(links, links') /\ session'.step \in Later
      BY <2>1, <2>3 DEF SameNodes, Later
    <2>5. QED
      BY <1>1, <1>2, <1>5, <2>1, <2>2, <2>4, ClassLists
  <1>6. QED
    BY <1>4, <1>5 DEF ListRoot

\* The loop over iface_discovery begins, or goes on.
LEMMA LoopLists ==
  ASSUME IInv, Typing, Origins, Lists, session.step \in {"roots", "flatten", "extended"},
         session.step \in {"roots", "extended"} => session.left = <<>>,
         UNCHANGED <<files, class, table, links>>, NEW n, session' = LoopAt(n),
         \A disc, req : Collecting(disc, req) => n \in disc \cup {IfaceDiscovery}
  PROVE  Lists'
  <1>1. session.step \in Later
    BY DEF Later
  <1>2. DOMAIN session = DOMAIN Idle /\ session.ancestry # <<>>
    BY <1>1, LaterFacts DEF LinkingOne
  <1>3. /\ session'.step = "flatten" /\ session'.at = n /\ session'.count = session.count
        /\ session'.required = session.required /\ session'.ancestry = session.ancestry
        /\ session'.depth = session.depth
        /\ n \in DOMAIN links.next => session'.then = links.next[n]
    BY <1>2 DEF LoopAt, Idle
  <1>4. ASSUME ~Reused(ToLink)
        PROVE  FreshLists'
    <2>1. PICK disc, req :
            /\ Collecting(disc, req)
            /\ Three(links, IfaceList, IfaceDiscovery, IfaceRequired, Found, disc, req)
            /\ disc \cup req \subseteq Goal
      BY <1>4, CollectingFacts
    <2>2. n \in disc \cup {IfaceDiscovery} /\ n \in DOMAIN links.next
      BY <2>1 DEF Three, Ring, Paired
    <2>3. ToSet(<<>>) = {}
      BY DEF ToSet
    <2>4. \A c : ToCome(c) = {}
      BY <2>3 DEF ToCome
    <2>5. Roots \subseteq disc \cup req /\ \A c \in req : Implemented(c) \subseteq disc \cup req
      BY <2>1, <2>3, <2>4 DEF Collecting
    <2>6. session'.count = Cardinality(req)
      BY <1>3, <2>1 DEF Collecting
    <2>7. Three(links', IfaceList, IfaceDiscovery, IfaceRequired, Found, disc, req)
      BY <2>1
    <2>8. session'.at \in disc \cup {IfaceDiscovery} /\ session'.then = links'.next[session'.at]
      BY <1>3, <2>2
    <2>9. QED
      BY <1>3, <1>4, <2>1, <2>5, <2>6, <2>7, <2>8, CollectingAgain
  <1>5. session'.step \in Later /\ SameNodes(links, links')
    BY <1>3 DEF Later, SameNodes
  <1>6. QED
    BY <1>1, <1>2, <1>3, <1>4, <1>5, ClassLists

LEMMA RootsListedLists ==
  ASSUME IInv, Typing, Origins, Lists, RootsListed
  PROVE  Lists'
  <1>1. \A disc, req : Collecting(disc, req) => links.next[IfaceDiscovery] \in disc \cup {IfaceDiscovery}
    BY DEF Collecting, Ring, Paired
  <1>2. QED
    BY <1>1, LoopLists DEF RootsListed

LEMMA ExtendedListedLists ==
  ASSUME IInv, Typing, Origins, Lists, ExtendedListed
  PROVE  Lists'
  <1>1. \A disc, req : Collecting(disc, req) => session.then \in disc \cup {IfaceDiscovery}
    BY DEF Collecting, ExtendedListed
  <1>2. QED
    BY <1>1, LoopLists DEF ExtendedListed

\* The interfaces that an interface extends are to be found, too.
LEMMA ExtendedFacts ==
  ASSUME IInv, Typing, Origins, Lists, session.step \in Later, session.ancestry # <<>>, ~Reused(ToLink),
         NEW c \in Goal
  PROVE  LET left == [i \in DOMAIN class[c].implements |-> class[c].implements[i].interface]
         IN  left \in Seq(Goal) /\ ToSet(left) = Implemented(c)
  <1> DEFINE f == class[c].implements
             left == [i \in DOMAIN f |-> f[i].interface]
  <1>1. session.step \notin Ended
    BY DEF Later, Ended, Astray
  <1>2. /\ c \in DOMAIN class /\ c \in InTable(table) /\ IsInterface(c) /\ Implemented(c) \subseteq Goal
    BY FreshListFacts, GoalFacts DEF Found
  <1>3. files \in Worlds /\ ClassesIn(class, table)
    BY LaterFacts
  <1>4. class[c].linked /\ NameOf(c) \in Names
    BY <1>2, <1>3, TableFacts DEF ClassesIn
  <1>5. FollowsFile(class, c, Filling, Queued)
    BY <1>1, <1>2, RunningOrigins DEF FollowFiles
  <1>6. DOMAIN f = DOMAIN FileOf(c).ifaces /\ FileOf(c).ifaces \in Seq(DOMAIN files)
    BY <1>2, <1>3, <1>4, <1>5, FileFacts DEF FollowsFile, ImplementsFiles
  <1>7. PICK n \in Nat : DOMAIN f = 1..n
    BY <1>6
  <1>8. \A i \in DOMAIN f : f[i].interface \in Goal
    BY <1>2 DEF Implemented
  <1>9. Implemented(c) = {f[i].interface : i \in DOMAIN f}
    BY DEF Implemented
  <1> HIDE DEF f
  <1>10. left \in Seq(Goal)
    <2>1. left = [i \in 1..n |-> f[i].interface]
      BY <1>7
    <2>2. \A i \in 1..n : f[i].interface \in Goal
      BY <1>7, <1>8
    <2> HIDE DEF left
    <2>3. QED
      BY <2>1, <2>2
  <1>11. ToSet(left) = {f[i].interface : i \in DOMAIN f}
    BY DEF ToSet
  <1>12. QED
    BY <1>9, <1>10, <1>11 DEF f

\* An interface moves to iface_required.
LEMMA FlattenOneLists ==
  ASSUME IInv, Typing, Origins, Lists, FlattenOne
  PROVE  Lists'
  <1> DEFINE c == session.at
             left == [i \in DOMAIN class[c].implements |-> class[c].implements[i].interface]
  <1>1. session.step = "flatten" /\ c # IfaceDiscovery /\ session.step \in Later
    BY DEF FlattenOne, Later
  <1>2. DOMAIN session = DOMAIN Idle /\ session.ancestry # <<>>
    BY <1>1, LaterFacts DEF LinkingOne
  <1>3. ASSUME ~Reused(ToLink)
        PROVE  \E disc, req :
                 /\ Collecting(disc, req)
                 /\ Three(links, IfaceList, IfaceDiscovery, IfaceRequired, Found, disc, req)
                 /\ disc \cup req \subseteq Goal /\ IsFiniteSet(req)
                 /\ c \in disc /\ c \in DOMAIN class
                 /\ session.then \in (disc \ {c}) \cup {IfaceDiscovery}
    <2>1. PICK disc, req :
            /\ Collecting(disc, req)
            /\ Three(links, IfaceList, IfaceDiscovery, IfaceRequired, Found, disc, req)
            /\ disc \cup req \subseteq Goal
      BY <1>1, <1>3, CollectingFacts
    <2>2. c \in disc /\ session.then = links.next[c]
      BY <1>1, <2>1 DEF Collecting
    <2>3. Ring(links, IfaceDiscovery, disc)
      BY <2>1 DEF Three
    <2>4. links.next[c] # c
      BY <2>2, <2>3, RingFacts
    <2>5. links.next[c] \in disc \cup {IfaceDiscovery}
      BY <2>2, <2>3 DEF Ring, Paired
    <2>6. Goal \subseteq Found /\ Found \subseteq DOMAIN class /\ IsFiniteSet(Goal)
      BY <1>1, <1>2, <1>3, FreshListFacts, GoalFacts
    <2>7. IsFiniteSet(req)
      BY <2>1, <2>6, FS_Subset
    <2>8. QED
      BY <2>1, <2>2, <2>4, <2>5, <2>6, <2>7
  <1>4. CASE c \notin DOMAIN class /\ GoesAstray("lost")
    <2>1. Reused(ToLink)
      BY <1>3, <1>4
    <2>2. QED
      BY <1>1, <1>4, <2>1, AstrayLists DEF Astray
  <1>5. CASE Smashes(links, c) /\ GoesAstray("smashed")
    <2>1. Reused(ToLink)
      <3>1. SUFFICES ASSUME ~Reused(ToLink)
                     PROVE  FALSE
        OBVIOUS
      <3>2. PICK disc, req : Three(links, IfaceList, IfaceDiscovery, IfaceRequired, Found, disc, req) /\ c \in disc
        BY <1>3, <3>1
      <3>3. ~Smashes(links, c)
        BY <3>2, Required
      <3>4. QED
        BY <1>5, <3>3
    <2>2. QED
      BY <1>1, <1>5, <2>1, AstrayLists DEF Astray
  <1>6. CASE /\ links' = ListAddTail(ListDelInit(links, c), c, IfaceRequired)
             /\ session' = [session EXCEPT !.step = "extended", !.count = CountWith(c), !.left = left]
             /\ UNCHANGED <<files, class, table, jlClass>>
    <2> HIDE DEF left
    <2>1. /\ session'.step = "extended" /\ session'.left = left /\ session'.at = c
          /\ session'.required = session.required /\ session'.ancestry = session.ancestry
          /\ session'.depth = session.depth /\ session'.count = session.count + 1
          /\ session'.then = session.then
      BY <1>1, <1>2, <1>6 DEF Idle, CountWith
    <2>2. ASSUME ~Reused(ToLink)
          PROVE  FreshLists'
      <3>1. PICK disc, req :
              /\ Collecting(disc, req)
              /\ Three(links, IfaceList, IfaceDiscovery, IfaceRequired, Found, disc, req)
              /\ disc \cup req \subseteq Goal /\ IsFiniteSet(req)
              /\ c \in disc /\ c \in DOMAIN class
              /\ session.then \in (disc \ {c}) \cup {IfaceDiscovery}
        BY <1>3, <2>2
      <3> DEFINE less == disc \ {c}
                 more == req \cup {c}
      <3>2. Three(links', IfaceList, IfaceDiscovery, IfaceRequired, Found, less, more)
        BY <1>6, <3>1, Required
      <3>3. left \in Seq(Goal) /\ ToSet(left) = Implemented(c)
        BY <1>1, <1>2, <2>2, <3>1, ExtendedFacts DEF left
      <3>4. less \cup more = disc \cup req
        BY <3>1
      <3>5. Roots \subseteq less \cup more /\ \A d \in req : Implemented(d) \subseteq less \cup more
        <4>1. \A d : ToCome(d) = {}
          BY <1>1 DEF ToCome
        <4>2. QED
          BY <1>1, <3>1, <3>4, <4>1 DEF Collecting
      <3>6. \A d \in more : Implemented(d) \subseteq
              less \cup more \cup (IF session'.step = "extended" /\ d = session'.at THEN ToSet(session'.left) ELSE {})
        BY <2>1, <3>3, <3>5
      <3>7. session'.count = Cardinality(more)
        <4>1. c \notin req
          BY <3>1 DEF Three
        <4>2. Cardinality(more) = Cardinality(req) + 1
          BY <3>1, <4>1, FS_AddElement
        <4>3. session.count = Cardinality(req)
          BY <3>1 DEF Collecting
        <4>4. QED
          BY <2>1, <4>2, <4>3
      <3>8. less \cup more \subseteq Goal /\ session'.then \in less \cup {IfaceDiscovery} /\ session'.left \in Seq(Goal)
        BY <2>1, <3>1, <3>3, <3>4
      <3> HIDE DEF less, more, c
      <3>9. QED
        BY <1>1, <1>6, <2>1, <2>2, <3>2, <3>5, <3>6, <3>7, <3>8, CollectingAgain
    <2>3. SameNodes(links, ListDelInit(links, c)) /\ SameNodes(ListDelInit(links, c), links')
      BY <1>6, ListsKeepNodes
    <2>4. SameNodes(links, links') /\ session'.step \in Later
      BY <2>1, <2>3 DEF SameNodes, Later
    <2>5. QED
      BY <1>1, <1>2, <1>6, <2>1, <2>2, <2>4, ClassLists
  <1>7. QED
    BY <1>4, <1>5, <1>6 DEF FlattenOne

\* An interface that it extends is found on iface_required, or goes on iface_discovery.
LEMMA ListExtendedLists ==
  ASSUME IInv, Typing, Origins, Lists, ListExtended
  PROVE  Lists'
  <1> DEFINE i == Head(session.left)
             goal == Named(NameOf(i))
             end == WalkEnd(links, IfaceRequired, goal)
  <1>1. session.step = "extended" /\ session.left # <<>> /\ session.step \in Later
    BY DEF ListExtended, Later
  <1>2. DOMAIN session = DOMAIN Idle /\ session.ancestry # <<>>
    BY <1>1, LaterFacts DEF LinkingOne
  <1>3. ASSUME ~Reused(ToLink)
        PROVE  \E disc, req :
                 /\ Collecting(disc, req)
                 /\ Three(links, IfaceList, IfaceDiscovery, IfaceRequired, Found, disc, req)
                 /\ disc \cup req \subseteq Goal /\ i \in Goal /\ i \in Found
                 /\ Tail(session.left) \in Seq(Goal) /\ ToSet(session.left) = {i} \cup ToSet(Tail(session.left))
                 /\ end \in goal \cup {IfaceRequired}
                 /\ IF end = IfaceRequired THEN i \notin req ELSE i \in req
    <2>1. PICK disc, req :
            /\ Collecting(disc, req)
            /\ Three(links, IfaceList, IfaceDiscovery, IfaceRequired, Found, disc, req)
            /\ disc \cup req \subseteq Goal
      BY <1>1, <1>3, CollectingFacts
    <2>2. session.left \in Seq(Goal)
      BY <1>1, <2>1 DEF Collecting
    <2>3. i \in Goal /\ Tail(session.left) \in Seq(Goal) /\ ToSet(session.left) = {i} \cup ToSet(Tail(session.left))
      BY <1>1, <2>2, HeadFacts
    <2>4. /\ Goal \subseteq Found /\ Found \subseteq DOMAIN class
          /\ {IfaceList, IfaceDiscovery, IfaceRequired} \cap DOMAIN class = {}
      BY <1>1, <1>2, <1>3, FreshListFacts
    <2>5. \A c \in Goal : c = table[NameOf(c)]
      <3>1. session.required \in Seq(DOMAIN class)
        BY <1>1, <1>2, <1>3, FreshListFacts
      <3>2. QED
        BY <1>1, <1>2, <1>3, <3>1, GoalFacts
    <2> HIDE DEF i
    <2>6. goal \subseteq DOMAIN class /\ i \in goal /\ \A c \in goal : NameOf(c) = NameOf(i)
      BY <2>3, <2>4 DEF Named
    <2>7. IsFiniteSet(DOMAIN links.next)
      <3>1. session.step \notin Ended
        BY <1>1 DEF Ended, Astray
      <3>2. QED
        BY <3>1, RunningLists
    <2>8. Ring(links, IfaceRequired, req) /\ req \subseteq DOMAIN class
      BY <2>1, <2>4 DEF Three
    <2>9. IfaceRequired \notin DOMAIN class /\ IfaceRequired \notin goal
      BY <2>4, <2>6
    <2> HIDE DEF goal
    <2>10. /\ end \in (req \cap goal) \cup {IfaceRequired}
           /\ end = IfaceRequired => req \cap goal = {}
      BY <2>7, <2>8, <2>9, WalkFacts
    <2> HIDE DEF end
    <2>11. end # IfaceRequired => i = end
      BY <2>1, <2>3, <2>5, <2>6, <2>10
    <2>12. IF end = IfaceRequired THEN i \notin req ELSE i \in req
      BY <2>6, <2>10, <2>11
    <2>13. QED
      BY <2>1, <2>3, <2>4, <2>10, <2>12
  <1>4. CASE end \notin goal \cup {IfaceRequired} /\ GoesAstray("lost")
    <2>1. Reused(ToLink)
      BY <1>3, <1>4
    <2>2. QED
      BY <1>1, <1>4, <2>1, AstrayLists DEF Astray
  <1>5. CASE end = IfaceRequired /\ Smashes(links, i) /\ GoesAstray("smashed")
    <2>1. Reused(ToLink)
      <3>1. SUFFICES ASSUME ~Reused(ToLink)
                     PROVE  FALSE
        OBVIOUS
      <3>2. PICK disc, req : /\ Three(links, IfaceList, IfaceDiscovery, IfaceRequired, Found, disc, req)
                             /\ i \in Found \ req
        BY <1>3, <1>5, <3>1
      <3>3. ~Smashes(links, i)
        BY <3>2, ListedToo
      <3>4. QED
        BY <1>5, <3>3
    <2>2. QED
      BY <1>1, <1>5, <2>1, AstrayLists DEF Astray
  <1>6. CASE /\ links' = IF end = IfaceRequired
                         THEN ListAddTail(ListDelInit(links, i), i, IfaceDiscovery) ELSE links
             /\ session' = [session EXCEPT !.left = Tail(@)]
             /\ UNCHANGED <<files, class, table, jlClass>>
    <2>1. /\ session'.step = "extended" /\ session'.left = Tail(session.left) /\ session'.at = session.at
          /\ session'.required = session.required /\ session'.ancestry = session.ancestry
          /\ session'.depth = session.depth /\ session'.count = session.count
          /\ session'.then = session.then
      BY <1>1, <1>2, <1>6 DEF Idle
    <2>2. ASSUME ~Reused(ToLink)
          PROVE  FreshLists'
      <3>1. PICK disc, req :
              /\ Collecting(disc, req)
              /\ Three(links, IfaceList, IfaceDiscovery, IfaceRequired, Found, disc, req)
              /\ disc \cup req \subseteq Goal /\ i \in Goal /\ i \in Found
              /\ Tail(session.left) \in Seq(Goal) /\ ToSet(session.left) = {i} \cup ToSet(Tail(session.left))
              /\ IF end = IfaceRequired THEN i \notin req ELSE i \in req
        BY <1>3, <2>2
      <3> DEFINE more == IF end = IfaceRequired THEN disc \cup {i} ELSE disc
      <3>2. Three(links', IfaceList, IfaceDiscovery, IfaceRequired, Found, more, req)
        <4>1. CASE end = IfaceRequired
          <5>1. /\ i \in Found \ req
                /\ links' = ListAddTail(ListDelInit(links, i), i, IfaceDiscovery)
            BY <1>6, <3>1, <4>1
          <5>2. Three(links', IfaceList, IfaceDiscovery, IfaceRequired, Found, disc \cup {i}, req)
            BY <3>1, <5>1, ListedToo
          <5>3. QED
            BY <4>1, <5>2
        <4>2. CASE end # IfaceRequired
          BY <1>6, <3>1, <4>2
        <4>3. QED
          BY <4>1, <4>2
      <3>3. disc \cup {i} \subseteq more \cup req /\ more \cup req \subseteq Goal /\ disc \subseteq more
        BY <3>1
      <3> HIDE DEF more, i
      <3>4. /\ Roots \subseteq more \cup req /\ session'.count = Cardinality(req)
            /\ session'.then \in more \cup {IfaceDiscovery} /\ session'.left \in Seq(Goal)
        BY <1>1, <2>1, <3>1, <3>3 DEF Collecting
      <3>5. \A d \in req : Implemented(d) \subseteq
              more \cup req \cup (IF session'.step = "extended" /\ d = session'.at THEN ToSet(session'.left) ELSE {})
        <4>1. \A d \in req : Implemented(d) \subseteq disc \cup req \cup ToCome(d)
          BY <3>1 DEF Collecting
        <4>2. \A d \in req : ToCome(d) = IF d = session.at THEN {i} \cup ToSet(session'.left) ELSE {}
          BY <1>1, <2>1, <3>1 DEF ToCome
        <4>3. QED
          BY <2>1, <3>3, <4>1, <4>2
      <3>6. QED
        BY <1>1, <1>6, <2>1, <2>2, <3>2, <3>3, <3>4, <3>5, CollectingAgain
    <2>3. SameNodes(links, links')
      <3>1. /\ SameNodes(links, ListDelInit(links, i))
            /\ SameNodes(ListDelInit(links, i), ListAddTail(ListDelInit(links, i), i, IfaceDiscovery))
        BY ListsKeepNodes
      <3> HIDE DEF i
      <3>2. QED
        BY <1>6, <3>1 DEF SameNodes
    <2>4. session'.step \in Later
      BY <2>1 DEF Later
    <2>5. QED
      BY <1>1, <1>2, <1>6, <2>1, <2>2, <2>3, <2>4, ClassLists
  <1>7. QED
    BY <1>4, <1>5, <1>6 DEF ListExtended

\* When all are collected, the class gets as many implementations.
LEMMA FlattenEndLists ==
  ASSUME IInv, Typing, Origins, Lists, FlattenEnd
  PROVE  Lists'
  <1> DEFINE empty == [k \in 1..session.count |-> [interface |-> NoClass, vtableIndex |-> <<>>]]
  <1>1. session.step = "flatten" /\ session.step \in Later /\ session.at = IfaceDiscovery
        /\ UNCHANGED <<files, table, links, jlClass>>
    BY DEF FlattenEnd, Later
  <1>2. DOMAIN session = DOMAIN Idle /\ session.ancestry # <<>> /\ ClassesIn(class, table)
    BY <1>1, LaterFacts DEF LinkingOne
  <1>3. CASE session' = LoopAt(links.next[IfaceDiscovery]) /\ UNCHANGED class
    <2>1. \A disc, req : Collecting(disc, req) => links.next[IfaceDiscovery] \in disc \cup {IfaceDiscovery}
      BY DEF Collecting, Ring, Paired
    <2>2. QED
      BY <1>1, <1>3, <2>1, LoopLists
  <1>4. CASE /\ links.next[IfaceDiscovery] = IfaceDiscovery
             /\ class' = [class EXCEPT ![ToLink].implements = empty]
             /\ session' = [session EXCEPT !.step = "fill", !.at = links.next[IfaceRequired], !.count = 0]
    <2>1. /\ session'.step = "fill" /\ session'.ancestry = session.ancestry /\ session'.count = 0
          /\ session'.at = links.next[IfaceRequired] /\ session'.required = session.required
          /\ session'.depth = session.depth
      BY <1>2, <1>4 DEF Idle
    <2>2. /\ ToLink' = ToLink /\ Goal' = Goal /\ Found' = Found
          /\ IfaceList' = IfaceList /\ IfaceRequired' = IfaceRequired
      BY <1>1, <2>1, TargetStays
    <2>3. /\ DOMAIN class' = DOMAIN class /\ DOMAIN Implements' = 1..session.count
      <3>1. ToLink \in DOMAIN class /\ DOMAIN class[ToLink] = ClassFields
        BY <1>1, <1>2, ToLinkFacts
      <3> HIDE DEF empty
      <3>2. DOMAIN class' = DOMAIN class /\ class'[ToLink].implements = empty
        BY <1>4, <3>1 DEF ClassFields
      <3>3. QED
        BY <2>2, <3>2 DEF Implements, empty
    <2>4. ASSUME ~Reused(ToLink)
          PROVE  FreshLists'
      <3>1. PICK disc, req :
              /\ Collecting(disc, req)
              /\ Three(links, IfaceList, IfaceDiscovery, IfaceRequired, Found, disc, req)
              /\ disc \cup req \subseteq Goal
        BY <1>1, <2>4, CollectingFacts
      <3>2. disc = {}
        BY <1>4, <3>1, RingFacts DEF Three
      <3>3. \A c : ToCome(c) = {}
        BY <1>1 DEF ToCome
      <3>4. Roots \subseteq req /\ \A c \in req : Implemented(c) \subseteq req
        BY <1>1, <3>1, <3>2, <3>3 DEF Collecting
      <3>5. req = Goal
        <4>1. session.required \in Seq(DOMAIN class)
          BY <1>1, <1>2, <2>4, FreshListFacts
        <4>2. QED
          BY <1>1, <1>2, <2>4, <3>1, <3>4, <4>1, GoalIsLeast
      <3>6. /\ Paired(links, IfaceList, Found \ Goal) /\ Ring(links, IfaceRequired, Goal)
            /\ session.count = Cardinality(Goal)
        BY <3>1, <3>2, <3>5 DEF Three, Collecting
      <3>7. Cardinality(Goal) \in Nat
        <4>1. session.required \in Seq(DOMAIN class)
          BY <1>1, <1>2, <2>4, FreshListFacts
        <4>2. IsFiniteSet(Goal)
          BY <1>1, <1>2, <2>4, <4>1, GoalFacts
        <4>3. QED
          BY <4>2, FS_CardinalityType
      <3>8. /\ IfaceRequired \notin Goal
            /\ links.next[IfaceRequired] \in Goal \cup {IfaceRequired}
            /\ links.prev[links.next[IfaceRequired]] = IfaceRequired
        BY <3>6 DEF Ring, Paired
      <3>9. Stored' = {} /\ Cardinality({}) = 0
        BY <2>1, FS_EmptySet DEF Stored
      <3>10. Storing'
        BY <1>1, <2>1, <2>2, <2>3, <3>6, <3>7, <3>8, <3>9 DEF Storing
      <3>11. Paired(links, IfaceList, Found \ Goal)'
        BY <1>1, <2>2, <3>6
      <3>12. QED
        BY <2>1, <3>10, <3>11 DEF FreshLists
    <2>5. session'.step \in Later /\ SameNodes(links, links')
      BY <1>1, <2>1 DEF Later, SameNodes
    <2>6. QED
      BY <1>1, <1>2, <2>1, <2>3, <2>4, <2>5, ClassLists
  <1>5. QED
    BY <1>3, <1>4 DEF FlattenEnd

\* The interfaces that are stored are the ones before the cursor, so that each is stored once.
LEMMA FillOneLists ==
  ASSUME IInv, Typing, Origins, Lists, FillOne
  PROVE  Lists'
  <1> DEFINE k == session.count + 1
             c == session.at
  <1>1. session.step = "fill" /\ session.step \in Later /\ c # IfaceRequired
    BY DEF FillOne, Later
  <1>2. DOMAIN session = DOMAIN Idle /\ session.ancestry # <<>> /\ ClassesIn(class, table)
    BY <1>1, LaterFacts DEF LinkingOne
  <1>3. ASSUME ~Reused(ToLink)
        PROVE  /\ Paired(links, IfaceList, Found \ Goal) /\ Storing
               /\ c \in Goal \ Stored /\ c \in DOMAIN class
               /\ k \in DOMAIN Implements /\ Cardinality(Stored \cup {c}) = k
               /\ k \in 0..Cardinality(Goal) /\ 1..k \subseteq DOMAIN Implements
    <2>1. /\ Paired(links, IfaceList, Found \ Goal) /\ Storing /\ Goal \subseteq DOMAIN class
          /\ session.required \in Seq(DOMAIN class)
      BY <1>1, <1>2, <1>3, FreshListFacts DEF FreshLists
    <2>2. IsFiniteSet(Goal)
      BY <1>1, <1>2, <1>3, <2>1, GoalFacts
    <2>3. /\ c \in Goal \ Stored /\ Stored \subseteq Goal /\ Cardinality(Stored) = session.count
          /\ DOMAIN Implements = 1..Cardinality(Goal) /\ session.count \in 0..Cardinality(Goal)
      BY <1>1, <2>1 DEF Storing
    <2> DEFINE S == Stored
               G == Goal
               T == S \cup {c}
    <2>4. IsFiniteSet(S) /\ Cardinality(G) \in Nat
      BY <2>2, <2>3, FS_Subset, FS_CardinalityType
    <2>5. Cardinality(T) = Cardinality(S) + 1
      BY <2>3, <2>4, FS_AddElement
    <2>6. T \in SUBSET G
      BY <2>3
    <2> HIDE DEF T, S, G
    <2>7. Cardinality(T) <= Cardinality(G)
      BY <2>2, <2>6, FS_Subset DEF G
    <2>8. k \in 1..Cardinality(G) /\ Cardinality(T) = k /\ 1..k \subseteq 1..Cardinality(G)
      BY <2>3, <2>4, <2>5, <2>7 DEF S, G
    <2>9. QED
      BY <2>1, <2>3, <2>4, <2>8 DEF S, T, G
  <1>4. CASE ~(c \in DOMAIN class /\ k \in DOMAIN Implements) /\ GoesAstray("lost")
    <2>1. Reused(ToLink)
      BY <1>3, <1>4
    <2>2. QED
      BY <1>1, <1>2, <1>4, <2>1, AstrayLists DEF Astray
  <1>5. CASE /\ k \in DOMAIN Implements
             /\ class' = [class EXCEPT ![ToLink].implements[k]["interface"] = c]
             /\ session' = [session EXCEPT !.at = links.next[c], !.count = k]
             /\ UNCHANGED <<files, table, links, jlClass>>
    <2>1. /\ session'.step = "fill" /\ session'.ancestry = session.ancestry /\ session'.count = k
          /\ session'.at = links.next[c] /\ session'.required = session.required
          /\ session'.depth = session.depth
      BY <1>1, <1>2, <1>5 DEF Idle
    <2>2. /\ ToLink' = ToLink /\ Goal' = Goal /\ Found' = Found
          /\ IfaceList' = IfaceList /\ IfaceRequired' = IfaceRequired
      BY <1>5, <2>1, TargetStays
    <2> HIDE DEF c
    <2>3. Changes(k, "interface", c, class')
      <3> HIDE DEF k
      <3>1. QED
        BY <1>1, <1>2, <1>5, ImplementationKeeps
    <2>4. /\ DOMAIN class' = DOMAIN class /\ DOMAIN Implements' = DOMAIN Implements
          /\ \A j \in DOMAIN Implements : Implements'[j].interface = IF j = k THEN c ELSE Implements[j].interface
      BY <2>2, <2>3 DEF Changes, Implements
    <2>5. ASSUME ~Reused(ToLink)
          PROVE  FreshLists'
      <3>1. /\ Paired(links, IfaceList, Found \ Goal) /\ Storing
            /\ c \in Goal \ Stored /\ Cardinality(Stored \cup {c}) = k /\ k \in 0..Cardinality(Goal)
            /\ 1..k \subseteq DOMAIN Implements
        BY <1>3, <2>5
      <3>2. /\ Ring(links, IfaceRequired, Goal) /\ DOMAIN Implements = 1..Cardinality(Goal)
            /\ session.count \in 0..Cardinality(Goal)
            /\ Stored \subseteq Goal
            /\ \A x \in Stored \cup {IfaceRequired} : links.next[x] \in Stored \cup {c}
            /\ \A x \in (Stored \cup {c}) \ {IfaceRequired} : links.prev[x] \in Stored \cup {IfaceRequired}
        BY <3>1 DEF Storing, c
      <3>3. Stored' = Stored \cup {c}
        <4>1. \A j : j \in 1..k <=> j \in 1..session.count \/ j = k
          BY <3>2
        <4>2. \A j \in 1..k : j \in DOMAIN Implements
          BY <3>1
        <4>3. \A j \in 1..session.count : j # k
          BY <3>2
        <4>4. Stored' = {Implements'[j].interface : j \in 1..k}
          BY <2>1 DEF Stored
        <4> HIDE DEF k
        <4>5. k \in 1..k
          BY <4>1
        <4>6. QED
          BY <2>4, <4>1, <4>2, <4>3, <4>4, <4>5 DEF Stored
      <3> DEFINE S == Stored
                 h == IfaceRequired
                 n == links.next[c]
      <3>4. /\ h \notin Goal /\ n \in Goal \cup {h} /\ links.prev[n] = c
            /\ \A x \in Goal \cup {h} : links.prev[links.next[x]] = x /\ links.next[links.prev[x]] = x
        BY <3>1, <3>2 DEF Ring, Paired
      <3>5. n \notin S \cup {c}
        <4>1. c \notin S \cup {h}
          BY <3>1, <3>4
        <4>2. \A x \in (S \cup {c}) \ {h} : links.prev[x] \in S \cup {h}
          BY <3>2
        <4>3. h \notin S \cup {c}
          BY <3>1, <3>2, <3>4
        <4>4. QED
          BY <3>4, <4>1, <4>2, <4>3
      <3>6. \A x \in S \cup {c} \cup {h} : links.next[x] \in S \cup {c} \cup {n}
        BY <3>2
      <3>7. \A x \in (S \cup {c} \cup {n}) \ {h} : links.prev[x] \in S \cup {c} \cup {h}
        BY <3>2, <3>4
      <3> HIDE DEF k
      <3>8. Storing'
        BY <1>5, <2>1, <2>2, <2>4, <3>1, <3>2, <3>3, <3>4, <3>5, <3>6, <3>7 DEF Storing
      <3>9. Paired(links, IfaceList, Found \ Goal)'
        BY <1>5, <2>2, <3>1
      <3>10. QED
        BY <2>1, <3>8, <3>9 DEF FreshLists
    <2>6. session'.step \in Later /\ SameNodes(links, links')
      BY <1>5, <2>1 DEF Later, SameNodes
    <2>7. QED
      BY <1>1, <1>2, <1>5, <2>1, <2>4, <2>5, <2>6, ClassLists
  <1>6. QED
    BY <1>4, <1>5 DEF FillOne, Implements

\* At the end of the list all are stored.
LEMMA FilledLists ==
  ASSUME IInv, Typing, Origins, Lists, Filled
  PROVE  Lists'
  <1>1. /\ session.step = "fill" /\ session.step \in Later /\ session.at = IfaceRequired
        /\ session' = [session EXCEPT !.step = "fixup"] /\ UNCHANGED <<files, class, table, links, jlClass>>
    BY DEF Filled, Later
  <1>2. DOMAIN session = DOMAIN Idle /\ session.ancestry # <<>>
    BY <1>1, LaterFacts DEF LinkingOne
  <1>3. /\ session'.step = "fixup" /\ session'.ancestry = session.ancestry
        /\ session'.required = session.required /\ session'.depth = session.depth
    BY <1>1, <1>2 DEF Idle
  <1>4. ASSUME ~Reused(ToLink)
        PROVE  FreshLists'
    <2>1. Paired(links, IfaceList, Found \ Goal) /\ Storing
      BY <1>1, <1>2, <1>4, FreshListFacts DEF FreshLists
    <2>2. /\ Ring(links, IfaceRequired, Goal) /\ DOMAIN Implements = 1..Cardinality(Goal)
          /\ Stored \subseteq Goal /\ Cardinality(Stored) = session.count
          /\ \A x \in Stored \cup {IfaceRequired} : links.next[x] \in Stored \cup {IfaceRequired}
      BY <1>1, <2>1 DEF Storing
    <2> DEFINE S == Stored \cup {IfaceRequired}
    <2>3. Goal \subseteq S
      <3>1. S \in SUBSET (Goal \cup {IfaceRequired}) /\ IfaceRequired \in S /\ \A x \in S : links.next[x] \in S
        BY <2>2
      <3> HIDE DEF S
      <3>2. QED
        BY <2>2, <3>1 DEF Ring, Connected
    <2>4. Goal = Stored
      <3>1. IfaceRequired \notin Goal
        BY <2>2 DEF Ring, Paired
      <3>2. Goal \subseteq Stored
        BY <2>3, <3>1
      <3>3. QED
        BY <2>2, <3>2
    <2>5. Implemented(ToLink) = Goal
      BY <2>2, <2>4 DEF Implemented, Implements, Stored
    <2>6. /\ ToLink' = ToLink /\ Goal' = Goal /\ Found' = Found /\ IfaceList' = IfaceList
      BY <1>1, <1>3, TargetStays
    <2>7. Implemented(ToLink)' = Goal' /\ Paired(links, IfaceList, Found \ Goal)'
      BY <1>1, <2>1, <2>5, <2>6 DEF Implemented
    <2>8. QED
      BY <1>3, <2>7 DEF FreshLists
  <1>5. session'.step \in Later /\ SameNodes(links, links')
    BY <1>1, <1>3 DEF Later, SameNodes
  <1>6. QED
    BY <1>1, <1>2, <1>3, <1>4, <1>5, ClassLists

\* The class keeps the interfaces it was given.
LEMMA ImplementedAgain ==
  ASSUME IInv, Typing, Origins, Lists, session.step \in {"fixup", "itable"},
         UNCHANGED <<files, table, links>>, DOMAIN class' = DOMAIN class,
         DOMAIN class'[ToLink].implements = DOMAIN Implements,
         \A k \in DOMAIN Implements : class'[ToLink].implements[k].interface = Implements[k].interface,
         session'.step = "itable", session'.required = session.required,
         session'.ancestry = session.ancestry, session'.depth = session.depth
  PROVE  Lists'
  <1>1. session.step \in Later /\ session'.step \in Later /\ SameNodes(links, links')
    BY DEF Later, SameNodes
  <1>2. session.ancestry # <<>>
    BY <1>1, LaterFacts DEF LinkingOne
  <1>3. ASSUME ~Reused(ToLink)
        PROVE  FreshLists'
    <2>1. Paired(links, IfaceList, Found \ Goal) /\ Implemented(ToLink) = Goal
      BY <1>1, <1>2, <1>3, FreshListFacts DEF FreshLists
    <2>2. /\ ToLink' = ToLink /\ Goal' = Goal /\ Found' = Found /\ IfaceList' = IfaceList
      BY TargetStays
    <2>3. Implemented(ToLink)' = Implemented(ToLink)
      BY <2>2 DEF Implemented, Implements
    <2>4. Implemented(ToLink)' = Goal' /\ Paired(links, IfaceList, Found \ Goal)'
      BY <2>1, <2>2, <2>3
    <2>5. QED
      BY <2>4 DEF FreshLists
  <1>4. QED
    BY <1>1, <1>2, <1>3, ClassLists

LEMMA FixupMembersLists ==
  ASSUME IInv, Typing, Origins, Lists, FixupMembers
  PROVE  Lists'
  <1> DEFINE all == [k \in DOMAIN class[ToLink].implements |-> k]
  <1>1. /\ session.step = "fixup" /\ session.step \in Later /\ UNCHANGED <<files, table, links>>
        /\ class' = WithVtable(WithFields(class, ToLink), ToLink)
        /\ session' = [session EXCEPT !.step = "itable", !.left = all]
    BY DEF FixupMembers, Later
  <1>2. DOMAIN session = DOMAIN Idle /\ session.ancestry # <<>>
    BY <1>1, LaterFacts DEF LinkingOne
  <1>3. ToLink \in DOMAIN class /\ DOMAIN class[ToLink] = ClassFields
    BY <1>1, <1>2, ToLinkFacts
  <1>4. SameButMembers(ToLink, class, class')
    BY <1>1, <1>3, MembersKeep
  <1>5. DOMAIN class' = DOMAIN class /\ class'[ToLink].implements = Implements
    BY <1>4 DEF SameButMembers, Implements
  <1>6. /\ session'.step = "itable" /\ session'.required = session.required
        /\ session'.ancestry = session.ancestry /\ session'.depth = session.depth
    BY <1>1, <1>2 DEF Idle
  <1>7. QED
    BY <1>1, <1>5, <1>6, ImplementedAgain

\* No implementation is missing: as many were counted as stored.
LEMMA FixupImplementationLists ==
  ASSUME IInv, Typing, Origins, Lists, FixupImplementation
  PROVE  Lists'
  <1> DEFINE k == Head(session.left)
             i == Implements[k].interface
  <1>1. session.step = "itable" /\ session.step \in Later /\ session.left # <<>>
    BY DEF FixupImplementation, Later
  <1>2. /\ DOMAIN session = DOMAIN Idle /\ session.ancestry # <<>> /\ ClassesIn(class, table)
        /\ files \in Worlds /\ session.left \in Seq(DOMAIN Implements)
    BY <1>1, LaterFacts DEF LinkingOne
  <1>3. k \in DOMAIN Implements
    BY <1>1, <1>2, HeadFacts
  <1>4. CASE i = NoClass /\ GoesAstray("crash")
    <2>1. Reused(ToLink)
      <3>1. SUFFICES ASSUME ~Reused(ToLink)
                     PROVE  FALSE
        OBVIOUS
      <3>2. FreshLists /\ Goal \subseteq Found /\ Found \subseteq DOMAIN class
        BY <1>1, <1>2, <3>1, FreshListFacts
      <3>3. Implemented(ToLink) = Goal
        BY <1>1, <3>2 DEF FreshLists
      <3> HIDE DEF k
      <3>4. i \in Implemented(ToLink)
        BY <1>3 DEF Implemented, Implements
      <3>5. NoClass \notin DOMAIN class
        BY <1>2, PairFacts DEF ClassesIn
      <3>6. QED
        BY <1>4, <3>2, <3>3, <3>4, <3>5
    <2>2. QED
      BY <1>1, <1>2, <1>4, <2>1, AstrayLists DEF Astray
  <1>5. CASE ~(i = NoClass /\ GoesAstray("crash"))
    <2> DEFINE indices == ImplementationIndices(class, ToLink, i)
               numbers == InterfaceIndices(class, i)
               half == [class EXCEPT ![ToLink].implements[k]["vtableIndex"] = indices]
    <2>1. /\ class' = [half EXCEPT ![i].interfaceIndex = numbers]
          /\ session' = [session EXCEPT !.left = Tail(@)]
      BY <1>5, ZenonT(60) DEF FixupImplementation, WithImplementation, Implements
    <2>2. UNCHANGED <<files, table, links>>
      BY <1>5 DEF FixupImplementation, Implements
    <2> HIDE DEF indices, numbers, half, i
    <2>3. /\ session'.step = "itable" /\ session'.required = session.required
          /\ session'.ancestry = session.ancestry /\ session'.depth = session.depth
      BY <1>1, <1>2, <2>1 DEF Idle
    <2>4. ToLink \in DOMAIN class
      BY <1>1, <1>2, ToLinkFacts
    <2> HIDE DEF k
    <2>5. Changes(k, "vtableIndex", indices, half)
      BY <1>1, <1>2, <1>3, ImplementationKeeps DEF half
    <2>6. DOMAIN half = DOMAIN class /\ \A c \in DOMAIN class : DOMAIN half[c] = ClassFields
      BY <2>5 DEF Changes, Shaped
    <2>7. DOMAIN class' = DOMAIN class /\ class'[ToLink].implements = half[ToLink].implements
      BY <2>1, <2>4, <2>6 DEF ClassFields
    <2>8. /\ DOMAIN class'[ToLink].implements = DOMAIN Implements
          /\ \A j \in DOMAIN Implements : class'[ToLink].implements[j].interface = Implements[j].interface
      BY <2>5, <2>7 DEF Changes
    <2>9. QED
      BY <1>1, <2>2, <2>3, <2>7, <2>8, ImplementedAgain
  <1>6. QED
    BY <1>4, <1>5

\* The next class has the interfaces of its superclass, which has just been linked: if none of
\* them is reused, the superclass has none, and all are still on iface_list.
LEMMA NextIsFresh ==
  ASSUME IInv, Typing, Origins, Lists, session.step = "itable", files' = files,
         ToLink \in InTable(table'),
         session'.ancestry = Tail(session.ancestry), session'.required = session.required,
         session'.depth = session.depth, session'.ancestry # <<>>, ~Reused(ToLink)'
  PROVE  Paired(links, IfaceList, Found) /\ IfaceList' = IfaceList /\ Found' = Found
  <1> DEFINE old == ToLink
             new == session.ancestry[2]
             kind(n) == files[n].kind = "interface"
  <1>1. session.step \in Later
    BY DEF Later
  <1>2. files \in Worlds /\ ClassesIn(class, table) /\ session.ancestry # <<>> /\ Ancestry
    BY <1>1, LaterFacts DEF LinkingOne
  <1>3. /\ old = session.ancestry[1] /\ NameOf(old) \in Names /\ IsPair(old) /\ ~IsInterface(old)
    BY <1>1, <1>2, ToLinkFacts
  <1>4. ToLink' = new /\ 2 \in DOMAIN session.ancestry
    <2> DEFINE a == session.ancestry
               rest == Tail(a)
    <2>1. a \in Seq(DOMAIN class)
      BY <1>2 DEF Ancestry
    <2> HIDE DEF a
    <2>2. rest \in Seq(DOMAIN class) /\ \A k \in DOMAIN rest : k + 1 \in DOMAIN a /\ rest[k] = a[k + 1]
      BY <1>2, <2>1, HeadFacts DEF a
    <2> HIDE DEF rest
    <2>3. rest # <<>> => Head(rest) = rest[1] /\ 1 \in DOMAIN rest
      BY <2>2, HeadFacts
    <2>4. rest = session'.ancestry
      BY DEF rest, a
    <2>5. ToLink' = Head(rest)
      BY <2>4 DEF ToLink
    <2>6. QED
      BY <2>2, <2>3, <2>4, <2>5 DEF a
  <1>5. class[new].parent = old /\ new \in DOMAIN class
    BY <1>2, <1>3, <1>4 DEF Ancestry
  <1>6. NameOf(old) = FileOf(new).super /\ NameOf(new) \in Names
    <2>1. old # NoClass
      BY <1>2, <1>3, PairFacts
    <2>2. QED
      BY <1>2, <1>5, <2>1 DEF ClassesIn
  <1> HIDE DEF old, new
  <1>7. NameOf(old) \in Up(NameOf(new))
    <2>1. FileOf(new).super # NoName
      BY <1>2, <1>3, <1>6, FileFacts
    <2>2. QED
      BY <1>2, <1>6, <2>1, UpFacts
  <1>8. Supertypes(NameOf(old)) \subseteq Supertypes(NameOf(new))
    <2>1. \A n \in Names : Supertypes(n) = {n} \cup Above(n)
      BY <1>2, SupertypesFacts
    <2>2. Supertypes(NameOf(old)) \subseteq Above(NameOf(new))
      BY <1>7 DEF Above
    <2>3. QED
      BY <1>6, <2>1, <2>2
  <1>9. \A n \in Supertypes(NameOf(old)) : ~kind(n)
    <2>1. \A n : Supertypes(n)' = Supertypes(n)
      BY SupertypesStay
    <2>2. old \in Instantiable'
      <3>1. \A c : IsInterface(c)' <=> IsInterface(c)
        BY SupertypesStay
      <3>2. Names' = Names
        BY DEF Names
      <3>3. old \in Loaded'
        BY <3>2 DEF Loaded, InTable, old
      <3>4. QED
        BY <1>3, <3>1, <3>3 DEF Instantiable, old
    <2>3. \A n \in Supertypes(NameOf(new)) :
            kind(n) => ~\E d \in Instantiable' : n \in Supertypes(NameOf(d))
      BY <1>4, <2>1 DEF Reused, NameOf
    <2>4. QED
      BY <1>8, <2>2, <2>3
  <1>10. ~Reused(ToLink)
    BY <1>9 DEF Reused, old
  <1>11. DeclaredInterfaces(old) = {}
    <2>1. ASSUME NEW n \in DeclaredInterfaces(old)
          PROVE  FALSE
      <3>1. PICK m \in ToSet(FileOf(old).ifaces) : n \in Supertypes(m) /\ kind(n)
        BY <2>1 DEF DeclaredInterfaces
      <3>2. m \in Up(NameOf(old))
        BY <1>2, <1>3, <3>1, UpFacts DEF old
      <3>3. n \in Above(NameOf(old))
        BY <3>1, <3>2 DEF Above
      <3>4. n \in Supertypes(NameOf(old))
        BY <1>2, <1>3, <3>3, SupertypesFacts DEF old
      <3>5. QED
        BY <1>9, <3>1, <3>4
    <2>2. QED
      BY <2>1
  <1>12. Paired(links, IfaceList, Found \ Goal)
    <2>1. FreshLists
      BY <1>1, <1>2, <1>10, FreshListFacts
    <2>2. QED
      BY <2>1 DEF FreshLists
  <1>13. Found \ Goal = Found
    BY <1>11 DEF Goal, old
  <1>14. IfaceList' = IfaceList /\ Found' = Found
    BY DEF IfaceList, HeadOf, Found, IsInterface, FileOf
  <1>15. QED
    BY <1>12, <1>13, <1>14

LEMMA FixupLists ==
  ASSUME IInv, Typing, Origins, Lists, IInv', Fixup
  PROVE  Lists'
  <1> DEFINE cl == WithLinked(class, ToLink)
  <1>1. /\ MayBePublished /\ table[NameOf(ToLink)] = NoClass
        /\ table' = Published(ToLink) /\ files' = files
        /\ \/ /\ class' = WithObject(cl, ToLink) /\ UNCHANGED links
              /\ session' = [session EXCEPT !.ancestry = Tail(@), !.step = "link"]
           \/ Fail(cl, table', links)
    BY DEF Fixup
  <1>2. /\ LinkedIn(cl, table') /\ session.step \in Later /\ session.ancestry # <<>>
        /\ DOMAIN cl = DOMAIN class
    BY <1>1, ToLinkPublished
  <1> HIDE DEF cl
  <1>3. CASE Fail(cl, table', links)
    BY <1>3, EndLists
  <1>4. CASE /\ class' = WithObject(cl, ToLink) /\ UNCHANGED links
             /\ session' = [session EXCEPT !.ancestry = Tail(@), !.step = "link"]
    <2>1. session.step = "itable" /\ session.step \notin Ended /\ DOMAIN session = DOMAIN Idle
      BY <1>1, <1>2, LaterFacts DEF MayBePublished, Ended, Astray
    <2>2. /\ session'.step = "link" /\ session'.ancestry = Tail(session.ancestry)
          /\ session'.required = session.required /\ session'.depth = session.depth
      BY <1>4, <2>1 DEF Idle
    <2>3. IsFiniteSet(DOMAIN links.next) /\ session.required \in Seq(DOMAIN class)
      BY <1>2, <2>1, RunningLists
    <2>4. DOMAIN class' = DOMAIN class
      BY <1>2, <1>4 DEF WithObject
    <2>5. ToLink \in InTable(table')
      BY <1>2 DEF LinkedIn
    <2>6. session'.ancestry # <<>> /\ ~Reused(ToLink)' => Paired(links', IfaceList', Found')
      <3>1. ASSUME session'.ancestry # <<>>, ~Reused(ToLink)'
            PROVE  Paired(links, IfaceList, Found) /\ IfaceList' = IfaceList /\ Found' = Found
        BY <1>1, <2>1, <2>2, <2>5, <3>1, NextIsFresh
      <3>2. QED
        BY <1>4, <3>1
    <2>7. QED
      BY <1>4, <2>2, <2>3, <2>4, <2>6, LinkLists
  <1>5. QED
    BY <1>1, <1>3, <1>4

\* java/lang/Class is on no list.
LEMMA FixupFirstLists ==
  ASSUME IInv, Typing, Origins, Lists, IInv', FixupFirst
  PROVE  Lists'
  <1> DEFINE j == Fresh(JlClass)
             cl == WithLinked(class, ToLink)
             tbl == Published(ToLink)
  <1>1. /\ MayBePublished /\ table[NameOf(ToLink)] = NoClass /\ files' = files
    BY DEF FixupFirst
  <1>2. /\ LinkedIn(cl, tbl) /\ DOMAIN cl = DOMAIN class /\ ToLink \in DOMAIN class
        /\ session.step \in Later /\ session.ancestry # <<>> /\ files \in Worlds
    BY <1>1, ToLinkPublished
  <1>3. CASE Fail(cl, table', links)
    BY <1>3, EndLists
  <1>4. CASE /\ tbl[JlClass] = NoClass
             /\ table' = [tbl EXCEPT ![JlClass] = j]
             /\ class' = WithObject(WithJlClass(cl, j), ToLink)
             /\ session' = [session EXCEPT !.ancestry = Tail(@), !.step = "link"]
             /\ links' = WithNodes(links, {j})
    <2>1. session.step = "itable" /\ session.step \notin Ended /\ DOMAIN session = DOMAIN Idle
      BY <1>1, <1>2, LaterFacts DEF MayBePublished, Ended, Astray
    <2>2. /\ session'.step = "link" /\ session'.ancestry = Tail(session.ancestry)
          /\ session'.required = session.required /\ session'.depth = session.depth
      BY <1>4, <2>1 DEF Idle
    <2>3. IsPair(j) /\ j \notin DOMAIN class
      BY <1>2, LaterFacts, FreshFacts DEF ClassesIn
    <2>4. /\ IsFiniteSet(DOMAIN links.next) /\ session.required \in Seq(DOMAIN class)
      BY <1>2, <2>1, RunningLists
    <2>5. LinkedIn(class', table')
      BY <1>1, <1>4, FirstPublished
    <2>6. session.required \in Seq(DOMAIN class')
      BY <2>4, <2>5 DEF LinkedIn
    <2>7. ToLink \in InTable(table')
      BY <2>5 DEF LinkedIn
    <2> HIDE DEF j, cl, tbl
    <2> DEFINE S == {j}
    <2>8. IsFiniteSet(S) /\ links' = WithNodes(links, S)
      BY <1>4, FS_Singleton
    <2>9. S \cap DOMAIN class = {} /\ IfaceList \notin S
      BY <1>2, <2>3, PairFacts DEF IfaceList
    <2> HIDE DEF S
    <2>10. /\ IsFiniteSet(DOMAIN links'.next)
           /\ DOMAIN links'.next = DOMAIN links.next \cup S /\ DOMAIN links'.prev = DOMAIN links.prev \cup S
           /\ SameLinks(links, links', (DOMAIN links.next \cap DOMAIN links.prev) \ S)
      BY <2>4, <2>8, NodesFinite
    <2>11. session'.ancestry # <<>> /\ ~Reused(ToLink)' => Paired(links', IfaceList', Found')
      <3>1. ASSUME session'.ancestry # <<>>, ~Reused(ToLink)'
            PROVE  Paired(links', IfaceList', Found')
        <4>1. Paired(links, IfaceList, Found) /\ IfaceList' = IfaceList /\ Found' = Found
          BY <1>1, <2>1, <2>2, <2>7, <3>1, NextIsFresh
        <4>2. Found \subseteq DOMAIN class
          BY <2>4 DEF Found, ToSet
        <4>3. MoreNodes(links, links') /\ SameLinks(links, links', Found \cup {IfaceList})
          BY <2>9, <2>10, <4>1, <4>2 DEF MoreNodes, SameLinks, Paired
        <4>4. QED
          BY <4>1, <4>3, RingStays
      <3>2. QED
        BY <3>1
    <2>12. QED
      BY <2>2, <2>6, <2>10, <2>11, LinkLists
  <1>5. QED
    BY <1>3, <1>4 DEF FixupFirst

LEMMA EndingLists ==
  ASSUME IInv', DiscoverFails \/ FixupFails \/ Linked
  PROVE  Lists'
  <1>1. End(class, table, links) \/ Fail(class, table, links) \/ Fail(class, table', links)
    BY DEF DiscoverFails, FixupFails, Linked
  <1>2. QED
    BY <1>1, EndLists

LEMMA NextLists ==
  ASSUME IInv, Typing, Origins, Lists, IInv', Next
  PROVE  Lists'
  <1>1. CASE SessionStep
    <2>1. CASE Discovered \/ ListAncestor \/ AncestorsListed \/ PatchInterface \/ PatchEnd
      BY <2>1, SearchLists
    <2>2. CASE Discover
      BY <2>2, DiscoverLists
    <2>3. CASE DiscoverInterface
      BY <2>3, DiscoverInterfaceLists
    <2>4. CASE FlattenStart
      BY <2>4, FlattenStartLists
    <2>5. CASE ListRoot
      BY <2>5, ListRootLists
    <2>6. CASE RootsListed
      BY <2>6, RootsListedLists
    <2>7. CASE FlattenOne
      BY <2>7, FlattenOneLists
    <2>8. CASE ListExtended
      BY <2>8, ListExtendedLists
    <2>9. CASE ExtendedListed
      BY <2>9, ExtendedListedLists
    <2>10. CASE FlattenEnd
      BY <2>10, FlattenEndLists
    <2>11. CASE FillOne
      BY <2>11, FillOneLists
    <2>12. CASE Filled
      BY <2>12, FilledLists
    <2>13. CASE FixupMembers
      BY <2>13, FixupMembersLists
    <2>14. CASE FixupImplementation
      BY <2>14, FixupImplementationLists
    <2>15. CASE Fixup
      BY <2>15, FixupLists
    <2>16. CASE FixupFirst
      BY <2>16, FixupFirstLists
    <2>17. CASE DiscoverFails \/ FixupFails \/ Linked
      BY <2>17, EndingLists
    <2>18. QED
      BY <1>1, <2>1, <2>2, <2>3, <2>4, <2>5, <2>6, <2>7, <2>8, <2>9, <2>10, <2>11, <2>12, <2>13,
         <2>14, <2>15, <2>16, <2>17 DEF SessionStep
  <1>2. CASE LoadArray
    BY <1>2, LoadArrayLists
  <1>3. ASSUME NEW name \in Names, NEW d \in Depths \cup {MainDepth}, Load(name, d)
        PROVE  Lists'
    BY <1>3, LoadLists
  <1>4. QED
    BY <1>1, <1>2, <1>3 DEF Next

\* The invariant is about nothing but the variables.
LEMMA StutterLists ==
  ASSUME Lists, UNCHANGED vars
  PROVE  Lists'
  <1>1. /\ files' = files /\ class' = class /\ table' = table /\ links' = links
        /\ session' = session
    BY DEF vars
  <1>2. /\ ToLink' = ToLink /\ Goal' = Goal /\ Roots' = Roots /\ Found' = Found
        /\ Reused(ToLink)' <=> Reused(ToLink)
        /\ IfaceList' = IfaceList /\ IfaceDiscovery' = IfaceDiscovery /\ IfaceRequired' = IfaceRequired
    BY <1>1, TargetStays
  <1>3. /\ \A c : Implemented(c)' = Implemented(c)
        /\ \A c : ToCome(c)' = ToCome(c)
        /\ Implements' = Implements
    BY <1>1, <1>2 DEF Implemented, ToCome, Implements
  <1>4. Stored' = Stored
    BY <1>1, <1>3 DEF Stored
  <1>5. ASSUME NEW disc, NEW req, Collecting(disc, req)
        PROVE  Collecting(disc, req)'
    <2>1. /\ Paired(links, IfaceList, Found \ (disc \cup req))'
          /\ Ring(links, IfaceDiscovery, disc)'
          /\ Ring(links, IfaceRequired, req)'
      BY <1>1, <1>2, <1>5 DEF Collecting
    <2>2. QED
      BY <1>1, <1>2, <1>3, <1>5, <2>1 DEF Collecting
  <1>6. ASSUME Storing
        PROVE  Storing'
    <2>1. Ring(links, IfaceRequired, Goal)'
      BY <1>1, <1>2, <1>6 DEF Storing
    <2>2. QED
      BY <1>1, <1>2, <1>3, <1>4, <1>6, <2>1 DEF Storing
  <1>7. ASSUME FreshLists
        PROVE  FreshLists'
    <2>1. /\ session.step = "link" => Paired(links, IfaceList, Found)'
          /\ session.step \in {"fill", "fixup", "itable"} => Paired(links, IfaceList, Found \ Goal)'
      BY <1>1, <1>2, <1>7 DEF FreshLists
    <2>2. session.step \in {"roots", "flatten", "extended"} =>
            (\E disc \in SUBSET Found : \E req \in SUBSET Found : Collecting(disc, req))'
      BY <1>2, <1>5, <1>7 DEF FreshLists
    <2>3. QED
      BY <1>1, <1>2, <1>3, <1>6, <1>7, <2>1, <2>2 DEF FreshLists
  <1>8. IsInterface(session.root)' <=> IsInterface(session.root)
    BY <1>1, SupertypesStay
  <1>9. CASE session.step \in Ended
    <2>1. BrokenListNeedsReuse'
      BY <1>1, <1>2, <1>8, <1>9 DEF BrokenListNeedsReuse, Lists
    <2>2. QED
      BY <1>1, <1>9, <2>1 DEF Lists
  <1>10. CASE session.step \notin Ended
    <2>1. session.step \in {"discover", "ancestry", "patch"} => Paired(links, IfaceList, Found)'
      BY <1>1, <1>2, <1>10 DEF Lists
    <2>2. QED
      BY <1>1, <1>2, <1>7, <1>10, <2>1 DEF Lists
  <1>11. QED
    BY <1>9, <1>10

\* The lists of a session lead from their heads through the interfaces it has found and back,
\* and what a class is given when they are walked are its interfaces, unless an interface of
\* the class was listed before: whatever is unlinked, listed again or listed twice on the way.
THEOREM ListsInductive == Spec => []Lists
  <1>1. Init => Lists
    <2> SUFFICES ASSUME Init
                 PROVE  Lists
      OBVIOUS
    <2>1. session.step = "idle" /\ DOMAIN links.next = {}
      BY DEF Init, Idle
    <2>2. session.step \notin Ended /\ session.step \notin Later
      BY <2>1 DEF Ended, Astray, Later
    <2>3. QED
      BY <2>1, <2>2, FS_EmptySet DEF Lists
  <1>2. IInv /\ IInv' /\ Typing /\ Origins /\ Lists /\ [Next]_vars => Lists'
    BY NextLists, StutterLists
  <1>3. QED
    BY <1>1, <1>2, LinkingInductive, TypingInductive, OriginsInductive, PTL DEF Spec

\* class_link does not crash, lose a list or write into another stack frame while it links a
\* class, unless an interface of the class was listed before.
THEOREM BrokenLists == Spec => []BrokenListNeedsReuse
  <1>1. Lists => BrokenListNeedsReuse
    BY DEF Lists, BrokenListNeedsReuse, Ended, Astray
  <1>2. QED
    BY <1>1, ListsInductive, PTL

\* Before a class is fixed up, it has the interfaces its class file names and all those they
\* extend, and no others, if none was listed before.
THEOREM FreshFound == Spec => []FreshInterfacesAreFound
  <1>1. IInv /\ Typing /\ Origins /\ Lists => FreshInterfacesAreFound
    <2> SUFFICES ASSUME IInv, Typing, Origins, Lists, session.step \in {"fixup", "itable"}, ~Reused(ToLink)
                 PROVE  ImplementedNames(ToLink) = DeclaredInterfaces(ToLink)
      BY DEF FreshInterfacesAreFound
    <2>1. session.step \in Later
      BY DEF Later
    <2>2. session.ancestry # <<>>
      BY <2>1, LaterFacts DEF LinkingOne
    <2>3. FreshLists /\ session.required \in Seq(DOMAIN class)
      BY <2>1, <2>2, FreshListFacts
    <2>4. Implemented(ToLink) = Goal
      BY <2>3 DEF FreshLists
    <2>5. {NameOf(c) : c \in Goal} = DeclaredInterfaces(ToLink)
      BY <2>1, <2>2, <2>3, GoalFacts
    <2>6. QED
      BY <2>4, <2>5 DEF ImplementedNames
  <1>2. QED
    BY <1>1, LinkingInductive, TypingInductive, OriginsInductive, ListsInductive, PTL

=============================================================================
