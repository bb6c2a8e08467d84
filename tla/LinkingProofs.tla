--------------------------- MODULE LinkingProofs ---------------------------
(***************************************************************************)
(* Proofs about Linking for any class files a compiler writes, any order   *)
(* of loading and any depths of the stack.                                 *)
(***************************************************************************)
EXTENDS Linking, FiniteSetTheorems, SequenceTheorems, WellFoundedInduction, TLAPS

\* Once the interfaces are published
Later == {"link", "roots", "flatten", "extended", "fill", "fixup", "itable"}

\* What is published in a table
InTable(tbl) == {tbl[n] : n \in Names} \ {NoClass}

IsPair(c) == c = <<c[1], c[2]>>

ClassFields == {"parent", "implements", "linked", "vtable", "vtableIndex", "interfaceIndex",
                "offset", "size", "object"}

Shaped(cl) ==
  \A c \in DOMAIN cl :
    /\ DOMAIN cl[c] = ClassFields
    /\ \A k \in DOMAIN cl[c].implements :
         DOMAIN cl[c].implements[k] = {"interface", "vtableIndex"}

\* A class knows its superclass, which is never an interface; it is linked just if it is
\* published.
ClassesIn(cl, tbl) ==
  /\ IsFiniteSet(DOMAIN cl)
  /\ Shaped(cl)
  /\ \A c \in DOMAIN cl :
       /\ IsPair(c) /\ NameOf(c) \in Names
       /\ cl[c].parent # NoClass =>
            /\ cl[c].parent \in DOMAIN cl
            /\ ~IsInterface(cl[c].parent)
            /\ NameOf(cl[c].parent) = FileOf(c).super
       /\ cl[c].linked => tbl[NameOf(c)] = c
  /\ DOMAIN tbl = Names
  /\ \A n \in Names : tbl[n] # NoClass =>
       tbl[n] \in DOMAIN cl /\ NameOf(tbl[n]) = n /\ cl[tbl[n]].linked

\* What a published class refers to is published, or, of an interface, among those in `found`.
ClosedIn(cl, tbl, found) ==
  \A c \in InTable(tbl) :
    /\ \A k \in DOMAIN cl[c].implements :
         \/ cl[c].implements[k].interface \in InTable(tbl)
         \/ IsInterface(c) /\ cl[c].implements[k].interface \in found
    /\ cl[c].parent \in InTable(tbl) \cup {NoClass} \/ IsInterface(c)

InterfacesIn(cl, tbl) == \A c \in DOMAIN cl : IsInterface(c) => c \in InTable(tbl)

\* The interfaces a session has found
Found == {c \in ToSet(session.required) : IsInterface(c)}

\* They are on iface_list, and nothing else is.
Listed ==
  /\ Found \cup {IfaceList} \subseteq DOMAIN links.next
  /\ \A x \in Found \cup {IfaceList} : links.next[x] \in Found \cup {IfaceList}
  /\ \A S \in SUBSET (Found \cup {IfaceList}) :
       IfaceList \in S /\ (\A x \in S : links.next[x] \in S) => Found \subseteq S

\* The interfaces they name are known, or in `queue`; those of the first one may be to come.
NamedIn(required, queue, left) ==
  \A k \in DOMAIN required : \A n \in ToSet(FileOf(required[k]).ifaces) :
    \/ k = 1 /\ n \in ToSet(left)
    \/ table[n] # NoClass
    \/ \E c \in ToSet(required) \cup ToSet(queue) : NameOf(c) = n

\* What a session has converted is not published before it is linked.
Unpublished(c) == ~class[c].linked /\ table[NameOf(c)] = NoClass

Distinct(q) == \A i, j \in DOMAIN q : q[i] = q[j] => i = j

Discovering ==
  /\ session.required \in Seq(DOMAIN class) /\ session.queue \in Seq(DOMAIN class)
  /\ session.root \in DOMAIN class
  /\ session.left \in Seq(DOMAIN files)
  /\ session.ancestry = <<>>
  /\ \A c \in ToSet(session.required) \cup ToSet(session.queue) :
       Unpublished(c) /\ c \in DOMAIN links.next
  /\ ToSet(session.required) \cap ToSet(session.queue) = {}
  /\ Distinct(session.queue)
  /\ \A c \in DOMAIN class :
       IsInterface(c) => c \in InTable(table) \cup ToSet(session.required) \cup ToSet(session.queue)
  /\ NamedIn(session.required, session.queue, session.left)
  /\ Listed

\* The classes to be linked are not linked, none is an interface, each is the superclass of
\* the next.
Ancestry ==
  /\ session.ancestry \in Seq(DOMAIN class)
  /\ \A k \in DOMAIN session.ancestry :
       /\ ~class[session.ancestry[k]].linked /\ ~IsInterface(session.ancestry[k])
       /\ k # 1 => class[session.ancestry[k]].parent = session.ancestry[k - 1]

\* The superclass of the first one is linked.
FirstIsReady ==
  session.ancestry # <<>> => class[session.ancestry[1]].parent \in InTable(table) \cup {NoClass}

AllDiscovered ==
  /\ session.required \in Seq(DOMAIN class)
  /\ \A c \in DOMAIN class : IsInterface(c) => c \in InTable(table) \cup Found
  /\ NamedIn(session.required, <<>>, <<>>)
  /\ Listed
  /\ Ancestry

ListingAncestors ==
  /\ AllDiscovered
  /\ \A c \in Found : Unpublished(c)
  /\ session.at # NoClass => session.at \in DOMAIN class /\ ~IsInterface(session.at)
  /\ \/ session.ancestry = <<>>
     \/ class[session.ancestry[1]].parent = session.at
     \/ FirstIsReady /\ session.at \in InTable(table) \cup {NoClass}

Patched == {c \in Found : class[c].linked}

Patching ==
  /\ AllDiscovered
  /\ FirstIsReady
  /\ session.at \in Found \cup {IfaceList}
  /\ \A x \in Patched \cup {IfaceList} : links.next[x] \in Patched \cup {session.at}
  /\ \A c \in Found : table[NameOf(c)] \in Found \cup {NoClass}

\* The implementations of the class that is being linked
Implements == class[ToLink].implements

LinkingOne ==
  /\ InterfacesIn(class, table)
  /\ Ancestry
  /\ FirstIsReady
  /\ session.step # "link" => session.ancestry # <<>> /\ session.count \in Nat
  /\ session.step \in {"fill", "fixup", "itable"} =>
       /\ DOMAIN Implements \in {1..n : n \in Nat}
       /\ \A k \in DOMAIN Implements : Implements[k].interface \in DOMAIN class \cup {NoClass}
  /\ session.step = "itable" =>
       /\ session.left \in Seq(DOMAIN Implements)
       /\ \A k \in DOMAIN Implements :
            k \in ToSet(session.left) \/ Implements[k].interface \in InTable(table)

\* The invariant: while a session goes on, step by step what it has converted and published.
Session ==
  /\ ClassesIn(class, table)
  /\ ClosedIn(class, table, IF session.step = "patch" THEN Found ELSE {})
  /\ session.step = "idle" => InterfacesIn(class, table)
  /\ session.step = "discover" => Discovering
  /\ session.step = "ancestry" => ListingAncestors
  /\ session.step = "patch" => Patching
  /\ session.step \in Later => LinkingOne

IInv ==
  /\ files \in Worlds
  /\ DOMAIN session = DOMAIN Idle
  /\ session.step \in Steps
  /\ AbortNeedsTwoCopies
  /\ session.step \notin Astray \cup {"exited"} => Session

----------------------------------------------------------------------------
(* Numbers, lists and copies *)

\* A set of numbers has a least one.
LEMMA LeastNumber ==
  ASSUME NEW S \in SUBSET Nat, S # {}
  PROVE  \E k \in S : \A j \in S : k <= j
  <1>1. PICK k \in S : \A j \in S : ~(<<j, k>> \in OpToRel(<, Nat))
    BY WFMin, NatLessThanWellFounded
  <1>2. \A j \in S : ~(j < k)
    BY <1>1 DEF OpToRel
  <1>3. QED
    BY <1>2

\* The first class of a name on a list
LEMMA LookupFacts ==
  ASSUME NEW T, NEW required \in Seq(T), NEW name,
         Lookup(required, name) # NoClass \/ \E q \in ToSet(required) : NameOf(q) = name
  PROVE  Lookup(required, name) \in ToSet(required) /\ NameOf(Lookup(required, name)) = name
  <1> DEFINE found == {k \in DOMAIN required : NameOf(required[k]) = name}
  <1>1. found # {}
    BY DEF Lookup, ToSet
  <1>2. found \in SUBSET Nat
    OBVIOUS
  <1>3. (CHOOSE k \in found : \A j \in found : k <= j) \in found
    BY <1>1, <1>2, LeastNumber
  <1>4. Lookup(required, name) = required[CHOOSE k \in found : \A j \in found : k <= j]
    BY <1>1 DEF Lookup, Least
  <1>5. QED
    BY <1>3, <1>4 DEF ToSet

\* A class has a number that is not in use.
LEMMA FreshFacts ==
  ASSUME IsFiniteSet(DOMAIN class), NEW name
  PROVE  /\ IsPair(Fresh(name)) /\ NameOf(Fresh(name)) = name
         /\ Fresh(name) \notin DOMAIN class
  <1> DEFINE N == Cardinality(DOMAIN class) + 1
             I(n) == {<<name, k>> : k \in 1..n}
             Free == {k \in Nat \ {0} : <<name, k>> \notin DOMAIN class}
  <1>1. Cardinality(DOMAIN class) \in Nat /\ N \in Nat
    BY FS_CardinalityType
  <1>2. \E k \in 1..N : <<name, k>> \notin DOMAIN class
    <2> SUFFICES ASSUME \A k \in 1..N : <<name, k>> \in DOMAIN class
                 PROVE  FALSE
      OBVIOUS
    <2> DEFINE f == [k \in 1..N |-> <<name, k>>]
    <2>1. f \in Injection(1..N, DOMAIN class)
      BY DEF Injection, IsInjective
    <2>2. IsFiniteSet(1..N) /\ Cardinality(1..N) = N
      BY <1>1, FS_Interval
    <2>3. Cardinality(1..N) <= Cardinality(DOMAIN class)
      BY <2>1, <2>2, FS_Injection
    <2>4. QED
      BY <1>1, <2>2, <2>3
  <1>3. PICK k \in Free : \A j \in Free : k <= j
    <2>1. PICK k \in 1..N : <<name, k>> \notin DOMAIN class
      BY <1>2
    <2>2. k \in Nat \ {0}
      BY <1>1, <2>1
    <2>3. Free # {} /\ Free \in SUBSET Nat
      BY <2>1, <2>2
    <2>4. QED
      BY <2>3, LeastNumber
  <1>4. k \in 1..N /\ <<name, k>> \notin DOMAIN class
    BY <1>1, <1>2, <1>3
  <1>5. \A j \in 1..k - 1 : <<name, j>> \in DOMAIN class
    BY <1>3, <1>4
  <1> DEFINE Q(n) == <<name, n>> \notin DOMAIN class /\ \A j \in 1..n - 1 : <<name, j>> \in DOMAIN class
  <1>6. Q(CHOOSE n \in 1..N : Q(n))
    BY <1>4, <1>5
  <1>7. QED
    <2> DEFINE m == CHOOSE n \in 1..N : Q(n)
    <2>1. Fresh(name) = <<name, m>>
      BY DEF Fresh
    <2>2. <<name, m>> \notin DOMAIN class
      BY <1>6
    <2> HIDE DEF m
    <2>3. IsPair(<<name, m>>) /\ NameOf(<<name, m>>) = name
      BY DEF IsPair, NameOf
    <2>4. QED
      BY <2>1, <2>2, <2>3

----------------------------------------------------------------------------
(* Class files *)

\* What the class files of a program are like, for the names of Class_t's
LEMMA FileFacts ==
  ASSUME files \in Worlds
  PROVE  /\ NoName \notin Names /\ ArrayName \notin DOMAIN files
         /\ Object \in DOMAIN files /\ JlClass \in DOMAIN files
         /\ \A c : NameOf(c) \in Names =>
              /\ FileOf(c).super \in DOMAIN files \cup {NoName}
              /\ FileOf(c).ifaces \in Seq(DOMAIN files)
              /\ NameOf(c) = Object => FileOf(c).super = NoName
              /\ NameOf(c) \in {JlClass, ArrayName} => FileOf(c).super = Object
              /\ IsInterface(c) => FileOf(c).super = Object
         /\ \A c, d : NameOf(c) \in Names /\ IsInterface(c) /\ NameOf(d) \in ToSet(FileOf(c).ifaces)
              => IsInterface(d)
  <1>1. /\ NoName \notin DOMAIN files /\ ArrayName \notin DOMAIN files
        /\ Object \in DOMAIN files /\ JlClass \in DOMAIN files
        /\ files[Object].super = NoName /\ files[JlClass].super = Object
    BY LinkingAssumption
  <1>2. \A n \in DOMAIN files :
          /\ files[n].super \in DOMAIN files \cup {NoName}
          /\ files[n].ifaces \in Seq(DOMAIN files)
          /\ files[n].kind = "interface" =>
               /\ files[n].super = Object
               /\ \A i \in DOMAIN files[n].ifaces : files[files[n].ifaces[i]].kind = "interface"
    BY LinkingAssumption
  <1>3. NoName \notin Names
    BY <1>1 DEF Names, NoName, ArrayName
  <1>4. ASSUME NEW c, NameOf(c) \in Names
        PROVE  /\ FileOf(c).super \in DOMAIN files \cup {NoName}
               /\ FileOf(c).ifaces \in Seq(DOMAIN files)
               /\ NameOf(c) = Object => FileOf(c).super = NoName
               /\ NameOf(c) \in {JlClass, ArrayName} => FileOf(c).super = Object
               /\ IsInterface(c) => FileOf(c).super = Object
    <2>1. CASE NameOf(c) = ArrayName
      BY <1>1, <2>1 DEF FileOf, IsInterface, Object, JlClass, ArrayName
    <2>2. CASE NameOf(c) # ArrayName
      <3>1. FileOf(c) = files[NameOf(c)] /\ NameOf(c) \in DOMAIN files
        BY <1>4, <2>2 DEF FileOf, Names
      <3>2. QED
        BY <1>1, <1>2, <2>2, <3>1 DEF IsInterface
    <2>3. QED
      BY <2>1, <2>2
  <1>5. ASSUME NEW c, NEW d, NameOf(c) \in Names, IsInterface(c), NameOf(d) \in ToSet(FileOf(c).ifaces)
        PROVE  IsInterface(d)
    <2>1. NameOf(c) # ArrayName
      BY <1>5 DEF FileOf, IsInterface
    <2>2. FileOf(c) = files[NameOf(c)] /\ NameOf(c) \in DOMAIN files
      BY <1>5, <2>1 DEF FileOf, Names
    <2>3. PICK i \in DOMAIN files[NameOf(c)].ifaces : NameOf(d) = files[NameOf(c)].ifaces[i]
      BY <1>5, <2>2 DEF ToSet
    <2>4. files[NameOf(d)].kind = "interface" /\ NameOf(d) \in DOMAIN files
      BY <1>2, <1>5, <2>2, <2>3 DEF IsInterface
    <2>5. QED
      BY <1>1, <2>4 DEF FileOf, IsInterface
  <1>6. QED
    BY <1>1, <1>3, <1>4, <1>5

\* A Class_t is neither NULL nor the head of a list.
LEMMA PairFacts ==
  ASSUME files \in Worlds, NEW c, IsPair(c)
  PROVE  /\ NameOf(c) \in Names => c # NoClass
         /\ \A list, d : c # HeadOf(list, d)
  <1>1. NameOf(c) \in Names => c # NoClass
    BY FileFacts DEF NameOf, NoClass
  <1>2. \A list, d : <<c[1], c[2]>> # HeadOf(list, d)
    BY DEF HeadOf
  <1>3. QED
    BY <1>1, <1>2 DEF IsPair

\* A step leaves the class files alone.
LEMMA FilesStay ==
  ASSUME files' = files
  PROVE  /\ Names' = Names
         /\ InTable(table)' = InTable(table')
         /\ ClassesIn(class, table)' <=> ClassesIn(class', table')
         /\ \A found : ClosedIn(class, table, found)' <=> ClosedIn(class', table', found)
         /\ InterfacesIn(class, table)' <=> InterfacesIn(class', table')
  <1>1. Names' = Names
    BY DEF Names
  <1>2. InTable(table)' = InTable(table')
    BY <1>1 DEF InTable
  <1>3. \A c : FileOf(c)' = FileOf(c)
    BY DEF FileOf
  <1>4. \A c : IsInterface(c)' <=> IsInterface(c)
    BY <1>3 DEF IsInterface
  <1>5. ClassesIn(class, table)' <=> ClassesIn(class', table')
    BY <1>1, <1>3, <1>4 DEF ClassesIn
  <1>6. \A found : ClosedIn(class, table, found)' <=> ClosedIn(class', table', found)
    BY <1>2, <1>4 DEF ClosedIn
  <1>7. InterfacesIn(class, table)' <=> InterfacesIn(class', table')
    BY <1>2, <1>4 DEF InterfacesIn
  <1>8. QED
    BY <1>1, <1>2, <1>5, <1>6, <1>7

----------------------------------------------------------------------------
(* The classes *)

\* The steps that neither publish nor link a class
LEMMA OthersKeep ==
  ASSUME NEW cl, NEW new, NEW tbl,
         ClassesIn(cl, tbl), DOMAIN new = DOMAIN cl, Shaped(new),
         \A c \in DOMAIN cl : new[c].parent = cl[c].parent /\ new[c].linked = cl[c].linked
  PROVE  /\ ClassesIn(new, tbl)
         /\ InterfacesIn(cl, tbl) => InterfacesIn(new, tbl)
  BY DEF ClassesIn, InterfacesIn

SameInterfaces(f, g) == DOMAIN g = DOMAIN f /\ \A k \in DOMAIN f : g[k].interface = f[k].interface

\* What is published is closed as long as the published classes refer to the same.
LEMMA ClosedKeeps ==
  ASSUME NEW cl, NEW new, NEW tbl, NEW found,
         ClosedIn(cl, tbl, found),
         \A c \in InTable(tbl) : /\ new[c].parent = cl[c].parent
                                 /\ SameInterfaces(cl[c].implements, new[c].implements)
  PROVE  ClosedIn(new, tbl, found)
  BY DEF ClosedIn, SameInterfaces

LEMMA TableFacts ==
  ASSUME NEW cl, NEW tbl, ClassesIn(cl, tbl)
  PROVE  \A c \in InTable(tbl) : /\ c \in DOMAIN cl /\ cl[c].linked
                                 /\ NameOf(c) \in Names /\ tbl[NameOf(c)] = c
  BY DEF ClassesIn, InTable

\* Conversion adds classes that are not linked and have no superclass yet.
LEMMA ConvertedKeeps ==
  ASSUME files \in Worlds, NEW cl, NEW tbl, NEW S, ClassesIn(cl, tbl),
         IsFiniteSet(S), S \cap DOMAIN cl = {},
         \A c \in S : IsPair(c) /\ NameOf(c) \in Names
  PROVE  LET new == WithConverted(cl, S)
         IN  /\ DOMAIN new = DOMAIN cl \cup S
             /\ \A c \in DOMAIN cl : new[c] = cl[c]
             /\ \A c \in S : ~new[c].linked /\ new[c].parent = NoClass
             /\ ClassesIn(new, tbl)
             /\ \A found : ClosedIn(cl, tbl, found) => ClosedIn(new, tbl, found)
  <1> DEFINE new == WithConverted(cl, S)
  <1>1. /\ DOMAIN new = DOMAIN cl \cup S
        /\ \A c \in DOMAIN cl : new[c] = cl[c]
        /\ \A c \in S : new[c] = Converted(NameOf(c))
    BY DEF WithConverted, Added
  <1>2. \A name : /\ DOMAIN Converted(name) = ClassFields
                  /\ Converted(name).implements = <<>> /\ Converted(name).parent = NoClass
                  /\ Converted(name).linked = FALSE
    BY DEF Converted, ClassFields
  <1> HIDE DEF new
  <1>3. \A c \in S : /\ DOMAIN new[c] = ClassFields /\ ~new[c].linked
                     /\ new[c].parent = NoClass /\ new[c].implements = <<>>
    BY <1>1, <1>2
  <1>4. Shaped(new)
    BY <1>1, <1>3 DEF Shaped, ClassesIn
  <1>5. IsFiniteSet(DOMAIN new)
    <2>1. IsFiniteSet(DOMAIN cl) /\ IsFiniteSet(S)
      BY DEF ClassesIn
    <2>2. IsFiniteSet(DOMAIN cl \cup S)
      BY <2>1, FS_Union
    <2>3. QED
      BY <1>1, <2>2
  <1>6. ClassesIn(new, tbl)
    BY <1>1, <1>3, <1>4, <1>5 DEF ClassesIn
  <1>7. ASSUME NEW found, ClosedIn(cl, tbl, found)
        PROVE  ClosedIn(new, tbl, found)
    <2>1. \A c \in InTable(tbl) : new[c] = cl[c]
      BY <1>1, TableFacts
    <2>2. QED
      BY <1>7, <2>1, ClosedKeeps DEF SameInterfaces
  <1>8. QED
    BY <1>1, <1>3, <1>6, <1>7 DEF new

\* A class that is not linked gets its superclass.
LEMMA ParentKeeps ==
  ASSUME NEW cl, NEW tbl, NEW x \in DOMAIN cl, NEW parent, ClassesIn(cl, tbl),
         ~cl[x].linked,
         parent # NoClass => /\ parent \in DOMAIN cl /\ ~IsInterface(parent)
                             /\ NameOf(parent) = FileOf(x).super
  PROVE  LET new == [cl EXCEPT ![x].parent = parent]
         IN  /\ DOMAIN new = DOMAIN cl
             /\ \A c \in DOMAIN cl : new[c].linked = cl[c].linked
             /\ \A c \in DOMAIN cl : new[c].parent = IF c = x THEN parent ELSE cl[c].parent
             /\ ClassesIn(new, tbl)
             /\ \A found : ClosedIn(cl, tbl, found) => ClosedIn(new, tbl, found)
  <1> DEFINE new == [cl EXCEPT ![x].parent = parent]
  <1>1. /\ DOMAIN new = DOMAIN cl
        /\ \A c \in DOMAIN cl \ {x} : new[c] = cl[c]
        /\ new[x] = [cl[x] EXCEPT !.parent = parent]
    OBVIOUS
  <1>2. DOMAIN cl[x] = ClassFields
    BY DEF ClassesIn, Shaped
  <1> HIDE DEF new
  <1>3. /\ DOMAIN new[x] = ClassFields /\ new[x].parent = parent
        /\ new[x].linked = cl[x].linked /\ new[x].implements = cl[x].implements
    BY <1>1, <1>2 DEF ClassFields
  <1>4. \A c \in DOMAIN cl :
          /\ DOMAIN new[c] = DOMAIN cl[c]
          /\ new[c].linked = cl[c].linked /\ new[c].implements = cl[c].implements
          /\ new[c].parent = IF c = x THEN parent ELSE cl[c].parent
    BY <1>1, <1>2, <1>3
  <1>5. ClassesIn(new, tbl)
    <2>1. Shaped(new)
      BY <1>1, <1>4 DEF Shaped, ClassesIn
    <2>2. QED
      BY <1>1, <1>4, <2>1 DEF ClassesIn
  <1>6. ASSUME NEW found, ClosedIn(cl, tbl, found)
        PROVE  ClosedIn(new, tbl, found)
    <2>1. \A c \in InTable(tbl) : new[c] = cl[c]
      BY <1>1, TableFacts
    <2>2. QED
      BY <1>6, <2>1, ClosedKeeps DEF SameInterfaces
  <1>7. QED
    BY <1>1, <1>4, <1>5, <1>6 DEF new

\* A session leaves the published classes, and superclasses of interfaces.
LEMMA EndKeeps ==
  ASSUME files \in Worlds, files' = files, NEW cl, NEW l,
         ClassesIn(cl, table'), ClosedIn(cl, table', {}), End(cl, table', l)
  PROVE  /\ session' = Idle
         /\ ClassesIn(class', table') /\ ClosedIn(class', table', {}) /\ InterfacesIn(class', table')
         /\ DOMAIN class' \subseteq DOMAIN cl /\ InTable(table') \subseteq DOMAIN class'
         /\ \A c \in DOMAIN class' :
              /\ class'[c] = cl[c]
              /\ (c \in InTable(table') \/ (cl[c].parent = NoClass /\ NameOf(c) = Object))
  <1> DEFINE tbl == table'
             rest == Remaining(cl, tbl)
  <1>1. session' = Idle /\ class' = [c \in rest |-> cl[c]]
    BY DEF End, Restrict
  <1>2. rest = InTable(tbl) \cup ({cl[c].parent : c \in InTable(tbl)} \ {NoClass})
                \cup UNION {{cl[c].implements[k].interface : k \in DOMAIN cl[c].implements} :
                              c \in InTable(tbl)}
    BY DEF Remaining, InTable
  <1> HIDE DEF tbl, rest
  <1>3. ClassesIn(cl, tbl) /\ ClosedIn(cl, tbl, {})
    BY DEF tbl
  <1>4. InTable(tbl) \subseteq DOMAIN cl
    BY <1>3, TableFacts
  <1>5. ASSUME NEW c \in rest
        PROVE  \/ c \in InTable(tbl)
               \/ /\ c \in DOMAIN cl /\ ~IsInterface(c)
                  /\ cl[c].parent = NoClass /\ NameOf(c) = Object
    <2>1. CASE c \in InTable(tbl)
      BY <2>1
    <2>2. ASSUME NEW d \in InTable(tbl), NEW k \in DOMAIN cl[d].implements,
                 c = cl[d].implements[k].interface
          PROVE  c \in InTable(tbl)
      BY <1>3, <2>2 DEF ClosedIn
    <2>3. ASSUME NEW d \in InTable(tbl), c = cl[d].parent, c # NoClass, c \notin InTable(tbl)
          PROVE  /\ c \in DOMAIN cl /\ ~IsInterface(c)
                 /\ cl[c].parent = NoClass /\ NameOf(c) = Object
      <3>1. IsInterface(d)
        BY <1>3, <2>3 DEF ClosedIn
      <3>2. /\ c \in DOMAIN cl /\ ~IsInterface(c) /\ NameOf(c) = FileOf(d).super
            /\ NameOf(d) \in Names
        BY <1>3, <1>4, <2>3 DEF ClassesIn
      <3>3. NameOf(c) = Object /\ Object \in Names
        BY <3>1, <3>2, FileFacts DEF Names
      <3>4. FileOf(c).super = NoName /\ NoName \notin Names
        BY <3>3, FileFacts
      <3>5. cl[c].parent = NoClass
        BY <1>3, <3>2, <3>4 DEF ClassesIn
      <3>6. QED
        BY <3>2, <3>3, <3>5
    <2>4. QED
      BY <1>2, <1>5, <2>1, <2>2, <2>3
  <1>6. rest \subseteq DOMAIN cl /\ InTable(tbl) \subseteq rest
    BY <1>2, <1>4, <1>5
  <1>7. DOMAIN class' = rest /\ \A c \in rest : class'[c] = cl[c]
    BY <1>1
  <1>8. \A c \in rest : cl[c].parent # NoClass => cl[c].parent \in rest
    BY <1>2, <1>5
  <1>9. IsFiniteSet(rest)
    BY <1>3, <1>6, FS_Subset DEF ClassesIn
  <1>10. \A n \in Names : tbl[n] # NoClass => tbl[n] \in rest
    BY <1>6 DEF InTable
  <1>11. Shaped(class')
    BY <1>3, <1>6, <1>7 DEF Shaped, ClassesIn
  <1>12. ClassesIn(class', tbl)
    BY <1>3, <1>6, <1>7, <1>8, <1>9, <1>10, <1>11 DEF ClassesIn
  <1>13. ClosedIn(class', tbl, {})
    <2>1. \A c \in InTable(tbl) : class'[c] = cl[c]
      BY <1>6, <1>7
    <2>2. QED
      BY <1>3, <2>1, ClosedKeeps DEF SameInterfaces
  <1>14. InterfacesIn(class', tbl)
    BY <1>5, <1>7 DEF InterfacesIn
  <1>15. QED
    BY <1>1, <1>5, <1>6, <1>7, <1>12, <1>13, <1>14 DEF tbl

\* The invariant at the end of a session, also of one that is given up.
LEMMA FailKeeps ==
  ASSUME files \in Worlds, files' = files, NEW cl, NEW l,
         ClassesIn(cl, table'), ClosedIn(cl, table', {}),
         Fail(cl, table', l) \/ End(cl, table', l)
  PROVE  IInv'
  <1>1. CASE session' = [Idle EXCEPT !.step = "exited"]
    <2>1. DOMAIN session' = DOMAIN Idle /\ session'.step = "exited"
      BY <1>1 DEF Idle
    <2>2. QED
      BY <2>1 DEF IInv, Steps, AbortNeedsTwoCopies
  <1>2. CASE End(cl, table', l)
    <2>1. /\ session' = Idle
          /\ ClassesIn(class', table') /\ ClosedIn(class', table', {})
          /\ InterfacesIn(class', table')
      BY <1>2, EndKeeps
    <2>2. /\ ClassesIn(class, table)' /\ ClosedIn(class, table, {})'
          /\ InterfacesIn(class, table)'
      BY <2>1, FilesStay
    <2>3. session'.step = "idle"
      BY <2>1 DEF Idle
    <2>4. QED
      BY <2>1, <2>2, <2>3 DEF IInv, Steps, AbortNeedsTwoCopies, Session, Later
  <1>3. QED
    BY <1>1, <1>2 DEF Fail

\* The invariant from its parts, within a session
LEMMA Assemble ==
  ASSUME files \in Worlds, files' = files, DOMAIN session' = DOMAIN Idle,
         session'.step \in Steps \ (Astray \cup {"exited"}),
         ClassesIn(class', table'),
         ClosedIn(class', table', IF session'.step = "patch" THEN Found' ELSE {}),
         session'.step = "idle" => InterfacesIn(class', table'),
         session'.step = "discover" => Discovering',
         session'.step = "ancestry" => ListingAncestors',
         session'.step = "patch" => Patching',
         session'.step \in Later => LinkingOne'
  PROVE  IInv'
  <1>1. ClassesIn(class, table)'
    BY FilesStay
  <1>2. ClosedIn(class, table, IF session.step = "patch" THEN Found ELSE {})'
    <2>1. CASE session'.step = "patch"
      <3>1. ClosedIn(class, table, Found)'
        BY <2>1, FilesStay
      <3>2. QED
        BY <2>1, <3>1
    <2>2. CASE session'.step # "patch"
      <3>1. ClosedIn(class, table, {})'
        BY <2>2, FilesStay
      <3>2. QED
        BY <2>2, <3>1
    <2>3. QED
      BY <2>1, <2>2
  <1>3. session'.step = "idle" => InterfacesIn(class, table)'
    BY FilesStay
  <1>4. session'.step # "abort"
    BY DEF Astray
  <1>5. QED
    BY <1>1, <1>2, <1>3, <1>4 DEF IInv, Session, AbortNeedsTwoCopies

----------------------------------------------------------------------------
(* Sequences of classes *)

LEMMA HeadFacts ==
  ASSUME NEW T, NEW q \in Seq(T), q # <<>>
  PROVE  /\ Head(q) = q[1] /\ 1 \in DOMAIN q /\ Head(q) \in T /\ Tail(q) \in Seq(T)
         /\ \A k \in DOMAIN Tail(q) : k + 1 \in DOMAIN q /\ Tail(q)[k] = q[k + 1]
         /\ ToSet(q) = {Head(q)} \cup ToSet(Tail(q))
  <1>1. /\ Len(q) \in Nat \ {0} /\ DOMAIN q = 1..Len(q) /\ Head(q) = q[1] /\ Tail(q) \in Seq(T)
        /\ DOMAIN Tail(q) = 1..Len(q) - 1
        /\ \A k \in 1..Len(q) - 1 : Tail(q)[k] = q[k + 1]
    OBVIOUS
  <1>2. \A k \in 2..Len(q) : k - 1 \in DOMAIN Tail(q) /\ Tail(q)[k - 1] = q[k]
    BY <1>1
  <1>3. \A k \in DOMAIN q : k = 1 \/ k \in 2..Len(q)
    BY <1>1
  <1>4. \A k \in DOMAIN Tail(q) : k + 1 \in DOMAIN q /\ Tail(q)[k] = q[k + 1]
    BY <1>1
  <1>5. 1 \in DOMAIN q /\ Head(q) \in T
    BY <1>1
  <1>6. ToSet(q) = {Head(q)} \cup ToSet(Tail(q))
    <2> DEFINE t == Tail(q)
    <2>1. \A k \in DOMAIN q : q[k] = Head(q) \/ \E j \in DOMAIN t : q[k] = t[j]
      BY <1>1, <1>2, <1>3
    <2>2. \A j \in DOMAIN t : \E k \in DOMAIN q : q[k] = t[j]
      BY <1>4
    <2> HIDE DEF t
    <2>3. ToSet(q) = {Head(q)} \cup ToSet(t)
      BY <1>1, <1>5, <2>1, <2>2 DEF ToSet
    <2>4. QED
      BY <2>3 DEF t
  <1>7. QED
    BY <1>1, <1>4, <1>5, <1>6

LEMMA ConsFacts ==
  ASSUME NEW T, NEW q \in Seq(T), NEW c \in T
  PROVE  /\ <<c>> \o q \in Seq(T) /\ <<c>> \o q # <<>>
         /\ (<<c>> \o q)[1] = c
         /\ \A k \in DOMAIN (<<c>> \o q) : k # 1 => k - 1 \in DOMAIN q /\ (<<c>> \o q)[k] = q[k - 1]
         /\ ToSet(<<c>> \o q) = {c} \cup ToSet(q)
  <1> DEFINE r == <<c>> \o q
  <1>1. /\ r \in Seq(T) /\ Len(r) = Len(q) + 1 /\ Len(q) \in Nat
        /\ DOMAIN q = 1..Len(q) /\ DOMAIN r = 1..Len(q) + 1
        /\ r[1] = c /\ \A k \in 2..Len(q) + 1 : r[k] = q[k - 1]
    OBVIOUS
  <1> HIDE DEF r
  <1>2. \A k \in DOMAIN r : k # 1 => k - 1 \in DOMAIN q /\ r[k] = q[k - 1]
    BY <1>1
  <1>3. \A k \in DOMAIN q : k + 1 \in DOMAIN r /\ r[k + 1] = q[k]
    BY <1>1
  <1>4. 1 \in DOMAIN r
    BY <1>1
  <1>5. ToSet(r) = {c} \cup ToSet(q)
    <2>1. ASSUME NEW x \in ToSet(r)
          PROVE  x \in {c} \cup ToSet(q)
      <3>1. PICK k \in DOMAIN r : r[k] = x
        BY <2>1 DEF ToSet
      <3>2. CASE k = 1
        BY <1>1, <3>1, <3>2
      <3>3. CASE k # 1
        BY <1>2, <3>1, <3>3 DEF ToSet
      <3>4. QED
        BY <3>2, <3>3
    <2>2. ASSUME NEW x \in {c} \cup ToSet(q)
          PROVE  x \in ToSet(r)
      <3>1. CASE x = c
        BY <1>1, <1>4, <3>1 DEF ToSet
      <3>2. CASE x \in ToSet(q)
        <4>1. PICK k \in DOMAIN q : q[k] = x
          BY <3>2 DEF ToSet
        <4>2. QED
          BY <1>3, <4>1 DEF ToSet
      <3>3. QED
        BY <2>2, <3>1, <3>2
    <2>3. QED
      BY <2>1, <2>2
  <1>6. r # <<>>
    BY <1>1
  <1>7. QED
    BY <1>1, <1>2, <1>5, <1>6 DEF r

LEMMA AppendedFacts ==
  ASSUME NEW T, NEW q \in Seq(T), NEW new, new = <<>> \/ \E x \in T : new = <<x>>
  PROVE  /\ q \o new \in Seq(T)
         /\ ToSet(q \o new) = ToSet(q) \cup ToSet(new)
         /\ Distinct(q) /\ ToSet(q) \cap ToSet(new) = {} => Distinct(q \o new)
  <1>1. CASE new = <<>>
    <2>1. q \o new = q
      BY <1>1
    <2>2. ToSet(new) = {}
      BY <1>1 DEF ToSet
    <2>3. QED
      BY <2>1, <2>2
  <1>2. ASSUME NEW x \in T, new = <<x>>
        PROVE  /\ q \o new \in Seq(T)
               /\ ToSet(q \o new) = ToSet(q) \cup ToSet(new)
               /\ Distinct(q) /\ ToSet(q) \cap ToSet(new) = {} => Distinct(q \o new)
    <2> DEFINE r == q \o <<x>>
    <2>1. /\ r \in Seq(T) /\ Len(q) \in Nat /\ DOMAIN q = 1..Len(q) /\ DOMAIN r = 1..Len(q) + 1
          /\ r[Len(q) + 1] = x /\ \A k \in 1..Len(q) : r[k] = q[k]
      OBVIOUS
    <2>2. ToSet(new) = {x}
      BY <1>2 DEF ToSet
    <2> HIDE DEF r
    <2>3. /\ \A k \in DOMAIN q : k \in DOMAIN r /\ r[k] = q[k]
          /\ \A k \in DOMAIN r : k \in DOMAIN q \/ k = Len(q) + 1
          /\ Len(q) + 1 \in DOMAIN r
      BY <2>1
    <2>4. ToSet(r) = ToSet(q) \cup {x}
      BY <2>1, <2>3 DEF ToSet
    <2>5. Distinct(q) /\ x \notin ToSet(q) => Distinct(r)
      BY <2>1, <2>3 DEF ToSet, Distinct
    <2>6. QED
      BY <1>2, <2>1, <2>2, <2>4, <2>5 DEF r
  <1>3. QED
    BY <1>1, <1>2

LEMMA TailDistinct ==
  ASSUME NEW T, NEW q \in Seq(T), q # <<>>, Distinct(q)
  PROVE  Distinct(Tail(q)) /\ Head(q) \notin ToSet(Tail(q))
  <1>1. \A k \in DOMAIN Tail(q) : k + 1 \in DOMAIN q /\ Tail(q)[k] = q[k + 1] /\ k \in Nat /\ k # 0
    OBVIOUS
  <1>2. Head(q) = q[1] /\ 1 \in DOMAIN q
    BY HeadFacts
  <1>3. Distinct(Tail(q))
    BY <1>1 DEF Distinct
  <1>4. \A k \in DOMAIN Tail(q) : Tail(q)[k] # Head(q)
    BY <1>1, <1>2 DEF Distinct
  <1>5. QED
    BY <1>3, <1>4 DEF ToSet

----------------------------------------------------------------------------
(* Discovery *)

LEMMA LoadKeeps ==
  ASSUME IInv, NEW name, NEW d, Load(name, d), name \in Names
  PROVE  IInv'
  <1> DEFINE c == Fresh(name)
  <1>1. /\ session.step = "idle" /\ table[name] = NoClass
        /\ class' = WithConverted(class, {c})
        /\ links' = WithNodes(links, {c} \cup Heads(d))
        /\ session' = [Idle EXCEPT !.step = "discover", !.depth = d, !.root = c, !.queue = <<c>>]
        /\ files' = files /\ table' = table
    BY DEF Load
  <1>2. /\ files \in Worlds /\ ClassesIn(class, table) /\ ClosedIn(class, table, {})
        /\ InterfacesIn(class, table)
    BY <1>1 DEF IInv, Session, Astray
  <1>3. IsPair(c) /\ NameOf(c) = name /\ c \notin DOMAIN class
    BY <1>2, FreshFacts DEF ClassesIn
  <1> HIDE DEF c
  <1>4. /\ session'.step = "discover" /\ session'.depth = d /\ session'.root = c
        /\ session'.queue = <<c>> /\ session'.required = <<>> /\ session'.left = <<>>
        /\ session'.ancestry = <<>> /\ DOMAIN session' = DOMAIN Idle
    BY <1>1 DEF Idle
  <1>5. IsFiniteSet({c}) /\ {c} \cap DOMAIN class = {} /\ \A x \in {c} : IsPair(x) /\ NameOf(x) \in Names
    BY <1>3, FS_Singleton
  <1>6. /\ DOMAIN class' = DOMAIN class \cup {c} /\ ~class'[c].linked
        /\ ClassesIn(class', table') /\ ClosedIn(class', table', {})
    BY <1>1, <1>2, <1>5, ConvertedKeeps
  <1>7. /\ ToSet(session'.queue) = {c} /\ ToSet(session'.required) = {}
        /\ ToSet(session'.left) = {}
    BY <1>4 DEF ToSet
  <1>8. /\ c \in DOMAIN links'.next /\ HeadOf("iface_list", d) \in DOMAIN links'.next
        /\ links'.next[HeadOf("iface_list", d)] = HeadOf("iface_list", d)
    BY <1>1 DEF WithNodes, Added, Heads
  <1>9. IfaceList' = HeadOf("iface_list", d) /\ Found' = {}
    BY <1>4, <1>7 DEF IfaceList, HeadOf, Found
  <1>10. Listed'
    BY <1>8, <1>9 DEF Listed
  <1>11. InTable(table)' = InTable(table)
    BY <1>1, FilesStay
  <1>12. \A x \in DOMAIN class' : IsInterface(x)' => x \in InTable(table)' \cup {c}
    BY <1>1, <1>2, <1>6, <1>11 DEF InterfacesIn, IsInterface, FileOf
  <1>13. \A x \in {c} : Unpublished(x)'
    BY <1>1, <1>3, <1>6 DEF Unpublished, NameOf
  <1>14. NamedIn(session.required, session.queue, session.left)'
    BY <1>4 DEF NamedIn
  <1>15. /\ session'.required \in Seq(DOMAIN class') /\ session'.queue \in Seq(DOMAIN class')
         /\ session'.left \in Seq(DOMAIN files') /\ Distinct(session'.queue)
    BY <1>4, <1>6 DEF Distinct
  <1>16. Discovering'
    BY <1>4, <1>6, <1>7, <1>8, <1>10, <1>12, <1>13, <1>14, <1>15 DEF Discovering, Distinct
  <1>17. QED
    BY <1>1, <1>2, <1>4, <1>6, <1>16, Assemble DEF Steps, Astray, Later

LEMMA MissingFacts ==
  ASSUME NEW required, NEW name
  PROVE  /\ Known(required, name) = NoClass => Missing(required, name) = <<Fresh(name)>>
         /\ Known(required, name) # NoClass => Missing(required, name) = <<>>
         /\ Known(required, name) = NoClass =>
              Lookup(required, name) = NoClass /\ table[name] = NoClass
  BY DEF Missing, Known

\* At most one class is converted, and gets a node of its own.
Converts(name, new, cl, l) ==
  /\ new = <<>> \/ new = <<Fresh(name)>>
  /\ ToSet(new) \cap DOMAIN class = {}
  /\ \A c \in ToSet(new) : /\ NameOf(c) = name /\ table[name] = NoClass
                           /\ ~cl[c].linked /\ IsPair(c)
  /\ DOMAIN cl = DOMAIN class \cup ToSet(new)
  /\ \A c \in DOMAIN class : cl[c] = class[c]
  /\ ClassesIn(cl, table) /\ ClosedIn(cl, table, {})
  /\ DOMAIN l.next = DOMAIN links.next \cup ToSet(new)
  /\ \A n \in DOMAIN links.next \ ToSet(new) : l.next[n] = links.next[n]

ConvertsFor(name, new) ==
  Converts(name, new, WithConverted(class, ToSet(new)), WithNodes(links, ToSet(new)))

\* What conversion of a missing class means for the lists of a session
LEMMA MissingKeeps ==
  ASSUME files \in Worlds, ClassesIn(class, table), ClosedIn(class, table, {}),
         NEW required, NEW name \in Names
  PROVE  ConvertsFor(name, Missing(required, name))
  <1> DEFINE new == Missing(required, name)
             cl == WithConverted(class, ToSet(new))
             l == WithNodes(links, ToSet(new))
             x == Fresh(name)
  <1>1. IsPair(x) /\ NameOf(x) = name /\ x \notin DOMAIN class
    BY FreshFacts DEF ClassesIn
  <1>2. \/ new = <<>> /\ ToSet(new) = {}
        \/ /\ new = <<x>> /\ ToSet(new) = {x}
           /\ table[name] = NoClass /\ Lookup(required, name) = NoClass
    BY MissingFacts DEF ToSet
  <1>3. /\ IsFiniteSet(ToSet(new)) /\ ToSet(new) \cap DOMAIN class = {}
        /\ \A c \in ToSet(new) : IsPair(c) /\ NameOf(c) \in Names
    BY <1>1, <1>2, FS_Singleton, FS_EmptySet
  <1> HIDE DEF new, x
  <1>4. /\ DOMAIN cl = DOMAIN class \cup ToSet(new)
        /\ \A c \in DOMAIN class : cl[c] = class[c]
        /\ \A c \in ToSet(new) : ~cl[c].linked
        /\ ClassesIn(cl, table) /\ ClosedIn(cl, table, {})
    BY <1>3, ConvertedKeeps
  <1>5. /\ DOMAIN l.next = DOMAIN links.next \cup ToSet(new)
        /\ \A n \in DOMAIN links.next \ ToSet(new) : l.next[n] = links.next[n]
    BY DEF WithNodes, Added
  <1>6. QED
    <2>1. /\ new = <<>> \/ new = <<Fresh(name)>>
          /\ \A c \in ToSet(new) : NameOf(c) = name /\ table[name] = NoClass /\ IsPair(c)
      BY <1>1, <1>2 DEF x
    <2> HIDE DEF cl, l
    <2>2. Converts(name, new, cl, l)
      BY <1>3, <1>4, <1>5, <2>1 DEF Converts
    <2>3. QED
      BY <2>2 DEF ConvertsFor, new, cl, l

LEMMA DiscoverInterfaceKeeps ==
  ASSUME IInv, DiscoverInterface
  PROVE  IInv'
  <1> DEFINE n == Head(session.left)
             new == Missing(session.required, n)
             cl == WithConverted(class, ToSet(new))
             l == WithNodes(links, ToSet(new))
             required == session.required
             queue == session.queue
  <1>1. /\ session.step = "discover" /\ session.left # <<>>
        /\ class' = cl /\ links' = l
        /\ session' = [session EXCEPT !.queue = @ \o new, !.left = Tail(@)]
        /\ files' = files /\ table' = table
    BY DEF DiscoverInterface
  <1>2. /\ files \in Worlds /\ ClassesIn(class, table) /\ ClosedIn(class, table, {})
        /\ Discovering /\ DOMAIN session = DOMAIN Idle
    BY <1>1 DEF IInv, Session, Astray
  <1>3. /\ session'.step = "discover" /\ session'.depth = session.depth
        /\ session'.root = session.root /\ session'.required = required
        /\ session'.queue = queue \o new /\ session'.left = Tail(session.left)
        /\ session'.ancestry = session.ancestry /\ DOMAIN session' = DOMAIN Idle
    BY <1>1, <1>2 DEF Idle
  <1>4. /\ n \in DOMAIN files /\ Tail(session.left) \in Seq(DOMAIN files)
        /\ ToSet(session.left) = {n} \cup ToSet(Tail(session.left))
    BY <1>1, <1>2, HeadFacts DEF Discovering
  <1> HIDE DEF n
  <1>5. n \in Names
    BY <1>4 DEF Names
  <1>6. Converts(n, new, cl, l)
    BY <1>2, <1>5, MissingKeeps DEF ConvertsFor
  <1>7. ToSet(new) # {} \/ table[n] # NoClass \/ \E c \in ToSet(required) : NameOf(c) = n
    <2>1. CASE Known(required, n) = NoClass
      <3>1. new = <<Fresh(n)>>
        BY <2>1, MissingFacts
      <3>2. QED
        BY <3>1 DEF ToSet
    <2>2. CASE Known(required, n) # NoClass /\ Lookup(required, n) # NoClass
      <3>1. required \in Seq(DOMAIN class)
        BY <1>2 DEF Discovering
      <3>2. QED
        BY <2>2, <3>1, LookupFacts
    <2>3. CASE Known(required, n) # NoClass /\ Lookup(required, n) = NoClass
      BY <2>3 DEF Known
    <2>4. QED
      BY <2>1, <2>2, <2>3
  <1>8. ToSet(queue) \subseteq DOMAIN class /\ ToSet(required) \subseteq DOMAIN class
    BY <1>2 DEF Discovering, ToSet
  <1>9. /\ queue \in Seq(DOMAIN cl) /\ required \in Seq(DOMAIN cl)
        /\ new = <<>> \/ \E x \in DOMAIN cl : new = <<x>>
    <2>1. queue \in Seq(DOMAIN class) /\ required \in Seq(DOMAIN class)
      BY <1>2 DEF Discovering
    <2>2. new = <<>> \/ new = <<Fresh(n)>>
      BY <1>6 DEF Converts
    <2>3. new # <<>> => Fresh(n) \in ToSet(new)
      BY <2>2 DEF ToSet
    <2> HIDE DEF new, cl
    <2>4. queue \in Seq(DOMAIN cl) /\ required \in Seq(DOMAIN cl)
      BY <1>6, <2>1 DEF Converts
    <2>5. QED
      BY <1>6, <2>2, <2>3, <2>4 DEF Converts
  <1> HIDE DEF new, cl, l
  <1>10. /\ queue \o new \in Seq(DOMAIN cl)
         /\ ToSet(queue \o new) = ToSet(queue) \cup ToSet(new)
         /\ Distinct(queue \o new)
    <2>1. Distinct(queue) /\ ToSet(queue) \cap ToSet(new) = {}
      BY <1>2, <1>6, <1>8 DEF Converts, Discovering
    <2>2. QED
      BY <1>9, <2>1, AppendedFacts
  <1>11. InTable(table)' = InTable(table)
    BY <1>1, FilesStay
  <1>12. \A c \in ToSet(required) \cup ToSet(queue \o new) :
           Unpublished(c)' /\ c \in DOMAIN links'.next
    BY <1>1, <1>2, <1>6, <1>8, <1>10 DEF Converts, Discovering, Unpublished, NameOf
  <1>13. \A c \in DOMAIN class' :
           IsInterface(c)' => c \in InTable(table)' \cup ToSet(required) \cup ToSet(queue \o new)
    BY <1>1, <1>2, <1>6, <1>10, <1>11 DEF Converts, Discovering, IsInterface, FileOf
  <1>14. NamedIn(session.required, session.queue, session.left)'
    <2>1. ASSUME NEW k \in DOMAIN required, NEW m \in ToSet(FileOf(required[k]).ifaces)
          PROVE  \/ k = 1 /\ m \in ToSet(Tail(session.left))
                 \/ table[m] # NoClass
                 \/ \E c \in ToSet(required) \cup ToSet(queue \o new) : NameOf(c) = m
      <3>1. \/ k = 1 /\ m \in ToSet(session.left)
            \/ table[m] # NoClass
            \/ \E c \in ToSet(required) \cup ToSet(queue) : NameOf(c) = m
        BY <1>2 DEF Discovering, NamedIn
      <3>2. QED
        BY <1>4, <1>6, <1>7, <1>10, <3>1 DEF Converts
    <2>2. QED
      BY <1>1, <1>3, <2>1 DEF NamedIn, FileOf, NameOf
  <1>15. Found' = Found /\ IfaceList' = IfaceList
    BY <1>1, <1>3 DEF Found, IfaceList, IsInterface, FileOf, HeadOf
  <1>16. Listed'
    <2>1. \A x \in Found \cup {IfaceList} : x \notin ToSet(new)
      <3>1. \A c \in ToSet(new) : c # IfaceList
        BY <1>2, <1>6, PairFacts DEF Converts, IfaceList
      <3>2. QED
        BY <1>6, <1>8, <3>1 DEF Converts, Found
    <2>2. \A x \in Found \cup {IfaceList} : x \in DOMAIN links'.next /\ links'.next[x] = links.next[x]
      BY <1>1, <1>2, <1>6, <2>1 DEF Converts, Discovering, Listed
    <2>3. Listed
      BY <1>2 DEF Discovering
    <2>4. QED
      BY <1>15, <2>2, <2>3 DEF Listed
  <1>17. Discovering'
    <2>1. ToSet(required) \cap ToSet(queue \o new) = {}
      BY <1>2, <1>6, <1>8, <1>10 DEF Converts, Discovering
    <2>2. session.root \in DOMAIN class' /\ session.ancestry = <<>>
      BY <1>1, <1>2, <1>6 DEF Converts, Discovering
    <2>3. Distinct(session.queue)'
      BY <1>3, <1>10 DEF Distinct
    <2>4. /\ session'.required \in Seq(DOMAIN class') /\ session'.queue \in Seq(DOMAIN class')
          /\ session'.left \in Seq(DOMAIN files')
      BY <1>1, <1>3, <1>4, <1>9, <1>10
    <2>5. QED
      BY <1>3, <1>12, <1>13, <1>14, <1>16, <2>1, <2>2, <2>3, <2>4 DEF Discovering
  <1>18. ClassesIn(class', table') /\ ClosedIn(class', table', {})
    BY <1>1, <1>6 DEF Converts
  <1>19. QED
    BY <1>1, <1>2, <1>3, <1>17, <1>18, Assemble DEF Steps, Astray, Later

\* Nothing is converted for the superclass of java/lang/Object.
LEMMA NothingConverts ==
  ASSUME ClassesIn(class, table), ClosedIn(class, table, {}), NEW name
  PROVE  ConvertsFor(name, <<>>)
  <1> DEFINE cl == WithConverted(class, {})
             l == WithNodes(links, {})
  <1>1. /\ DOMAIN cl = DOMAIN class /\ \A c \in DOMAIN class : cl[c] = class[c]
        /\ DOMAIN l.next = DOMAIN links.next /\ \A n \in DOMAIN links.next : l.next[n] = links.next[n]
    BY DEF WithConverted, WithNodes, Added
  <1>2. ToSet(<<>>) = {}
    BY DEF ToSet
  <1> HIDE DEF cl, l
  <1>3. Shaped(cl)
    BY <1>1 DEF ClassesIn, Shaped
  <1>4. ClassesIn(cl, table)
    BY <1>1, <1>3, OthersKeep
  <1>5. ClosedIn(cl, table, {})
    <2>1. \A c \in InTable(table) : cl[c] = class[c]
      BY <1>1, TableFacts
    <2>2. QED
      BY <2>1, ClosedKeeps DEF SameInterfaces
  <1>6. Converts(name, <<>>, cl, l)
    BY <1>1, <1>2, <1>4, <1>5 DEF Converts
  <1>7. QED
    BY <1>2, <1>6 DEF ConvertsFor, cl, l

\* The superclass that is known, or that was converted
LEMMA ParentFacts ==
  ASSUME ClassesIn(class, table), NEW required \in Seq(DOMAIN class), NEW name \in Names,
         NEW cl, NEW l, Converts(name, Missing(required, name), cl, l)
  PROVE  Parent(required, name) \in DOMAIN cl /\ NameOf(Parent(required, name)) = name
  <1>1. CASE Known(required, name) = NoClass
    <2>1. Missing(required, name) = <<Fresh(name)>> /\ Parent(required, name) = Fresh(name)
      BY <1>1, MissingFacts DEF Parent
    <2>2. Fresh(name) \in ToSet(Missing(required, name))
      BY <2>1 DEF ToSet
    <2>3. QED
      BY <2>1, <2>2 DEF Converts
  <1>2. CASE Known(required, name) # NoClass /\ Lookup(required, name) # NoClass
    <2>1. Parent(required, name) = Lookup(required, name)
      BY <1>2 DEF Parent, Known
    <2>2. Lookup(required, name) \in ToSet(required) /\ NameOf(Lookup(required, name)) = name
      BY <1>2, LookupFacts
    <2>3. ToSet(required) \subseteq DOMAIN class
      BY DEF ToSet
    <2>4. QED
      BY <2>1, <2>2, <2>3 DEF Converts
  <1>3. CASE Known(required, name) # NoClass /\ Lookup(required, name) = NoClass
    <2>1. Parent(required, name) = table[name] /\ table[name] # NoClass
      BY <1>3 DEF Parent, Known
    <2>2. QED
      BY <2>1 DEF Converts, ClassesIn
  <1>4. QED
    BY <1>1, <1>2, <1>3

LEMMA DiscoverKeeps ==
  ASSUME IInv, Discover
  PROVE  IInv'
  <1> DEFINE c == Head(session.queue)
             r == <<c>> \o session.required
             rest == Tail(session.queue)
             super == FileOf(c).super
             parent == IF super = NoName THEN NoClass ELSE Parent(r, super)
             new == IF super = NoName THEN <<>> ELSE Missing(r, super)
             cl == WithConverted(class, ToSet(new))
             l == WithNodes(links, ToSet(new))
  <1>1. /\ session.step = "discover" /\ session.left = <<>> /\ session.queue # <<>>
        /\ parent # NoClass => ~IsInterface(parent)
        /\ class' = [cl EXCEPT ![c].parent = parent]
        /\ links' = IF IsInterface(c) THEN ListAdd(l, c, IfaceList) ELSE l
        /\ session' = [session EXCEPT !.queue = rest \o new, !.required = r, !.left = FileOf(c).ifaces]
        /\ files' = files /\ table' = table
    BY DEF Discover
  <1>2. /\ files \in Worlds /\ ClassesIn(class, table) /\ ClosedIn(class, table, {})
        /\ Discovering /\ DOMAIN session = DOMAIN Idle
    BY <1>1 DEF IInv, Session, Astray
  <1>3. /\ session'.step = "discover" /\ session'.depth = session.depth
        /\ session'.root = session.root /\ session'.required = r
        /\ session'.queue = rest \o new /\ session'.left = FileOf(c).ifaces
        /\ session'.ancestry = session.ancestry /\ DOMAIN session' = DOMAIN Idle
    BY <1>1, <1>2 DEF Idle
  <1>4. /\ c \in DOMAIN class /\ rest \in Seq(DOMAIN class)
        /\ ToSet(session.queue) = {c} \cup ToSet(rest)
        /\ Distinct(rest) /\ c \notin ToSet(rest)
    BY <1>1, <1>2, HeadFacts, TailDistinct DEF Discovering
  <1> HIDE DEF c, rest
  <1>5. /\ r \in Seq(DOMAIN class) /\ r[1] = c /\ ToSet(r) = {c} \cup ToSet(session.required)
        /\ \A k \in DOMAIN r : k # 1 => k - 1 \in DOMAIN session.required /\ r[k] = session.required[k - 1]
    BY <1>2, <1>4, ConsFacts DEF Discovering
  <1>6. /\ ToSet(r) \subseteq DOMAIN class /\ ToSet(rest) \subseteq DOMAIN class
        /\ c \notin ToSet(session.required)
    <2>1. \A q \in Seq(DOMAIN class) : ToSet(q) \subseteq DOMAIN class
      BY DEF ToSet
    <2>2. r \in Seq(DOMAIN class) /\ rest \in Seq(DOMAIN class)
      BY <1>4, <1>5
    <2>3. ToSet(session.required) \cap ToSet(session.queue) = {} /\ c \in ToSet(session.queue)
      BY <1>2, <1>4 DEF Discovering
    <2> HIDE DEF r
    <2>4. QED
      BY <2>1, <2>2, <2>3
  <1> HIDE DEF r
  <1>7. super = NoName \/ super \in Names
    BY <1>2, <1>4, FileFacts DEF ClassesIn, Names
  <1>8. ConvertsFor(super, new)
    BY <1>2, <1>7, MissingKeeps, NothingConverts
  <1>9. Converts(super, new, cl, l)
    BY <1>8 DEF ConvertsFor
  <1>10. parent # NoClass => /\ parent \in DOMAIN cl /\ ~IsInterface(parent)
                             /\ NameOf(parent) = FileOf(c).super
    <2>1. CASE super = NoName
      BY <2>1
    <2>2. CASE super # NoName
      <3>1. parent = Parent(r, super) /\ new = Missing(r, super) /\ super \in Names
        BY <1>7, <2>2
      <3> HIDE DEF cl, l
      <3>2. Parent(r, super) \in DOMAIN cl /\ NameOf(Parent(r, super)) = super
        BY <1>2, <1>5, <1>9, <3>1, ParentFacts
      <3>3. QED
        BY <1>1, <3>1, <3>2
    <2>3. QED
      BY <2>1, <2>2
  <1>11. new = <<>> \/ \E x \in DOMAIN cl : new = <<x>>
    <2>1. new = <<>> \/ new = <<Fresh(super)>>
      BY <1>9 DEF Converts
    <2>2. new # <<>> => Fresh(super) \in ToSet(new)
      BY <2>1 DEF ToSet
    <2> HIDE DEF new, cl, l
    <2>3. QED
      BY <1>9, <2>1, <2>2 DEF Converts
  <1> HIDE DEF new, cl, l, parent
  <1>12. c \in DOMAIN cl /\ ~cl[c].linked
    BY <1>2, <1>4, <1>9 DEF Converts, Discovering, Unpublished
  <1>13. /\ DOMAIN class' = DOMAIN cl
         /\ \A d \in DOMAIN cl : class'[d].linked = cl[d].linked
         /\ ClassesIn(class', table') /\ ClosedIn(class', table', {})
    <2>1. ClassesIn(cl, table) /\ ClosedIn(cl, table, {})
      BY <1>9 DEF Converts
    <2>2. class' = [cl EXCEPT ![c].parent = parent] /\ table' = table
      BY <1>1
    <2> DEFINE fixed == [cl EXCEPT ![c].parent = parent]
    <2>3. /\ DOMAIN fixed = DOMAIN cl
          /\ \A d \in DOMAIN cl : fixed[d].linked = cl[d].linked
          /\ ClassesIn(fixed, table) /\ ClosedIn(fixed, table, {})
      BY <1>10, <1>12, <2>1, ParentKeeps
    <2>4. class' = fixed
      BY <2>2
    <2> HIDE DEF fixed
    <2>5. QED
      BY <2>2, <2>3, <2>4
  <1>14. rest \in Seq(DOMAIN cl) /\ r \in Seq(DOMAIN cl)
    BY <1>4, <1>5, <1>9 DEF Converts
  <1>15. /\ rest \o new \in Seq(DOMAIN cl)
         /\ ToSet(rest \o new) = ToSet(rest) \cup ToSet(new)
         /\ Distinct(rest \o new)
    <2>1. ToSet(rest) \cap ToSet(new) = {}
      BY <1>6, <1>9 DEF Converts
    <2>2. QED
      BY <1>4, <1>11, <1>14, <2>1, AppendedFacts
  <1>16. ToSet(r) \cap ToSet(rest \o new) = {}
    BY <1>2, <1>4, <1>5, <1>6, <1>9, <1>15 DEF Converts, Discovering
  <1>17. InTable(table)' = InTable(table)
    BY <1>1, FilesStay
  <1>18. DOMAIN links'.next = DOMAIN l.next
    BY <1>1 DEF ListAdd, Insert, Put
  <1>19. \A d \in ToSet(r) \cup ToSet(rest \o new) : Unpublished(d)' /\ d \in DOMAIN links'.next
    BY <1>1, <1>2, <1>4, <1>5, <1>6, <1>9, <1>13, <1>15, <1>18
       DEF Converts, Discovering, Unpublished, NameOf
  <1>20. \A d \in DOMAIN class' :
           IsInterface(d)' => d \in InTable(table)' \cup ToSet(r) \cup ToSet(rest \o new)
    BY <1>1, <1>2, <1>4, <1>5, <1>9, <1>13, <1>15, <1>17
       DEF Converts, Discovering, IsInterface, FileOf
  <1>21. NamedIn(session.required, session.queue, session.left)'
    <2>1. ASSUME NEW k \in DOMAIN r, NEW m \in ToSet(FileOf(r[k]).ifaces)
          PROVE  \/ k = 1 /\ m \in ToSet(FileOf(c).ifaces)
                 \/ table[m] # NoClass
                 \/ \E d \in ToSet(r) \cup ToSet(rest \o new) : NameOf(d) = m
      <3>1. CASE k = 1
        BY <1>5, <2>1, <3>1
      <3>2. CASE k # 1
        <4>1. k - 1 \in DOMAIN session.required /\ m \in ToSet(FileOf(session.required[k - 1]).ifaces)
          BY <1>5, <2>1, <3>2
        <4>2. m \notin ToSet(session.left)
          BY <1>1 DEF ToSet
        <4>3. \/ table[m] # NoClass
              \/ \E d \in ToSet(session.required) \cup ToSet(session.queue) : NameOf(d) = m
          BY <1>2, <4>1, <4>2 DEF Discovering, NamedIn
        <4>4. QED
          BY <1>4, <1>5, <1>15, <4>3
      <3>3. QED
        BY <3>1, <3>2
    <2>2. QED
      BY <1>1, <1>3, <2>1 DEF NamedIn, FileOf, NameOf
  <1>22. IfaceList' = IfaceList
    BY <1>3 DEF IfaceList, HeadOf
  <1>23. Found' = IF IsInterface(c) THEN Found \cup {c} ELSE Found
    BY <1>1, <1>3, <1>5 DEF Found, IsInterface, FileOf
  <1>24. \A d \in ToSet(r) \cup ToSet(new) : d # IfaceList
    BY <1>2, <1>6, <1>9, PairFacts DEF Converts, ClassesIn, IfaceList
  <1>25. Listed
    BY <1>2 DEF Discovering
  <1>26. /\ Found \cup {IfaceList} \subseteq DOMAIN l.next /\ c \in DOMAIN l.next
         /\ \A x \in Found \cup {IfaceList} : l.next[x] = links.next[x]
    <2>1. \A x \in Found \cup {IfaceList} : x \notin ToSet(new) /\ x \in DOMAIN links.next
      BY <1>5, <1>6, <1>9, <1>24, <1>25 DEF Converts, Found, Listed
    <2>2. c \in DOMAIN l.next
      BY <1>5, <1>18, <1>19
    <2>3. QED
      BY <1>9, <2>1, <2>2 DEF Converts
  <1>27. Listed'
    <2>1. CASE ~IsInterface(c)
      <3>1. links' = l /\ Found' = Found
        BY <1>1, <1>23, <2>1
      <3>2. QED
        BY <1>22, <1>25, <1>26, <3>1 DEF Listed
    <2>2. CASE IsInterface(c)
      <3>1. c \notin Found /\ c # IfaceList
        BY <1>5, <1>6, <1>24 DEF Found
      <3>2. /\ links'.next[c] = links.next[IfaceList] /\ links'.next[IfaceList] = c
            /\ \A x \in Found : links'.next[x] = links.next[x]
        <4>1. IfaceList \notin Found
          BY <1>5, <1>24 DEF Found
        <4>2. links'.next = [[l.next EXCEPT ![c] = l.next[IfaceList]] EXCEPT ![IfaceList] = c]
          BY <1>1, <1>26, <2>2 DEF ListAdd, Insert, Put
        <4>3. QED
          BY <1>26, <3>1, <4>1, <4>2
      <3>3. Found' = Found \cup {c} /\ Found' \cup {IfaceList'} \subseteq DOMAIN links'.next
        BY <1>18, <1>22, <1>23, <1>26, <2>2
      <3>4. \A x \in Found' \cup {IfaceList'} : links'.next[x] \in Found' \cup {IfaceList'}
        BY <1>22, <1>25, <3>2, <3>3 DEF Listed
      <3>5. ASSUME NEW S \in SUBSET (Found' \cup {IfaceList'}), IfaceList' \in S,
                   \A x \in S : links'.next[x] \in S
            PROVE  Found' \subseteq S
        <4> DEFINE Q == S \ {c}
        <4>1. c \in S /\ links.next[IfaceList] \in S
          BY <1>22, <3>2, <3>5
        <4>2. Q \in SUBSET (Found \cup {IfaceList}) /\ IfaceList \in Q
          BY <1>22, <3>1, <3>3, <3>5
        <4>3. \A x \in Q : links.next[x] \in Found \cup {IfaceList}
          BY <1>25, <4>2 DEF Listed
        <4>4. \A x \in Q : links.next[x] \in Q
          BY <3>1, <3>2, <3>5, <4>1, <4>2, <4>3
        <4>5. Found \subseteq Q
          BY <1>25, <4>2, <4>4 DEF Listed
        <4>6. QED
          BY <3>3, <4>1, <4>5
      <3>6. QED
        BY <3>3, <3>4, <3>5 DEF Listed
    <2>3. QED
      BY <2>1, <2>2
  <1>28. Discovering'
    <2>1. session.root \in DOMAIN class' /\ session.ancestry = <<>>
      BY <1>2, <1>9, <1>13 DEF Converts, Discovering
    <2>2. /\ session'.required \in Seq(DOMAIN class') /\ session'.queue \in Seq(DOMAIN class')
          /\ session'.left \in Seq(DOMAIN files')
      BY <1>1, <1>2, <1>3, <1>4, <1>13, <1>14, <1>15, FileFacts DEF ClassesIn
    <2>3. Distinct(session.queue)'
      BY <1>3, <1>15 DEF Distinct
    <2>4. QED
      BY <1>3, <1>16, <1>19, <1>20, <1>21, <1>27, <2>1, <2>2, <2>3 DEF Discovering
  <1>29. QED
    BY <1>1, <1>2, <1>3, <1>13, <1>28, Assemble DEF Steps, Astray, Later

LEMMA DiscoverFailsKeeps ==
  ASSUME IInv, DiscoverFails
  PROVE  IInv'
  <1>1. /\ session.step = "discover" /\ Fail(class, table, links)
        /\ files' = files /\ table' = table
    BY DEF DiscoverFails
  <1>2. files \in Worlds /\ ClassesIn(class, table) /\ ClosedIn(class, table, {})
    BY <1>1 DEF IInv, Session, Astray
  <1>3. QED
    BY <1>1, <1>2, FailKeeps

----------------------------------------------------------------------------
(* The superclasses *)

\* A session that goes astray does not go on.
LEMMA AstrayKeeps ==
  ASSUME IInv, NEW step \in Astray \ {"abort"}, GoesAstray(step)
  PROVE  IInv'
  <1>1. DOMAIN session' = DOMAIN Idle /\ session'.step = step /\ files' = files
    BY DEF GoesAstray, IInv, Idle
  <1>2. IInv
    OBVIOUS
  <1>3. QED
    BY <1>1, <1>2 DEF IInv, AbortNeedsTwoCopies, Steps, Astray

\* What a step leaves as it was if it leaves the lists alone
LEMMA StillListed ==
  ASSUME UNCHANGED <<files, links>>,
         session'.required = session.required, session'.depth = session.depth
  PROVE  Found' = Found /\ IfaceList' = IfaceList /\ (Listed' <=> Listed)
  <1>1. Found' = Found /\ IfaceList' = IfaceList
    BY DEF Found, IfaceList, HeadOf, IsInterface, FileOf
  <1>2. QED
    BY <1>1 DEF Listed

LEMMA StillDiscovered ==
  ASSUME UNCHANGED <<files, class, table, links>>, AllDiscovered,
         session'.required = session.required, session'.depth = session.depth,
         Ancestry'
  PROVE  AllDiscovered' /\ Found' = Found /\ IfaceList' = IfaceList
  <1>1. Found' = Found /\ IfaceList' = IfaceList /\ Listed'
    BY StillListed DEF AllDiscovered
  <1>2. InTable(table)' = InTable(table)
    BY FilesStay
  <1>3. \A c \in DOMAIN class : IsInterface(c)' => c \in InTable(table) \cup Found
    BY DEF AllDiscovered, IsInterface, FileOf
  <1>4. NamedIn(session.required, <<>>, <<>>)'
    BY DEF AllDiscovered, NamedIn, FileOf, NameOf
  <1>5. QED
    BY <1>1, <1>2, <1>3, <1>4 DEF AllDiscovered

LEMMA DiscoveredKeeps ==
  ASSUME IInv, Discovered
  PROVE  IInv'
  <1>1. CASE IsInterface(session.root)
    <2>1. GoesAstray("lost")
      BY <1>1 DEF Discovered
    <2>2. QED
      BY <2>1, AstrayKeeps DEF Astray
  <1>2. CASE ~IsInterface(session.root)
    <2>1. /\ session.step = "discover" /\ session.left = <<>> /\ session.queue = <<>>
          /\ session' = [session EXCEPT !.step = "ancestry", !.at = session.root]
          /\ UNCHANGED <<files, class, table, links, jlClass>>
      BY <1>2 DEF Discovered
    <2>2. /\ files \in Worlds /\ ClassesIn(class, table) /\ ClosedIn(class, table, {})
          /\ Discovering /\ DOMAIN session = DOMAIN Idle
      BY <2>1 DEF IInv, Session, Astray
    <2>3. /\ session'.step = "ancestry" /\ session'.at = session.root
          /\ session'.required = session.required /\ session'.depth = session.depth
          /\ session'.ancestry = <<>> /\ DOMAIN session' = DOMAIN Idle
      BY <2>1, <2>2 DEF Idle, Discovering
    <2>4. ToSet(session.queue) = {} /\ ToSet(session.left) = {}
      BY <2>1 DEF ToSet
    <2>5. Found' = Found /\ IfaceList' = IfaceList /\ Listed'
      BY <2>1, <2>2, <2>3, StillListed DEF Discovering
    <2>6. InTable(table)' = InTable(table)
      BY <2>1, FilesStay
    <2>7. \A c \in DOMAIN class : IsInterface(c) => c \in InTable(table) \cup Found
      BY <2>2, <2>4 DEF Discovering, Found
    <2>8. NamedIn(session.required, <<>>, <<>>)'
      BY <2>1, <2>2, <2>3 DEF Discovering, NamedIn, FileOf, NameOf
    <2>9. Ancestry'
      BY <2>3 DEF Ancestry
    <2>10. AllDiscovered'
      BY <2>1, <2>2, <2>3, <2>5, <2>6, <2>7, <2>8, <2>9
         DEF AllDiscovered, Discovering, IsInterface, FileOf
    <2>11. \A c \in Found : Unpublished(c)'
      BY <2>1, <2>2 DEF Discovering, Found, Unpublished, NameOf
    <2>12. ListingAncestors'
      BY <1>2, <2>1, <2>2, <2>3, <2>5, <2>10, <2>11
         DEF ListingAncestors, Discovering, IsInterface, FileOf
    <2>13. QED
      BY <2>1, <2>2, <2>3, <2>12, Assemble DEF Steps, Astray, Later
  <1>3. QED
    BY <1>1, <1>2

LEMMA ListAncestorKeeps ==
  ASSUME IInv, ListAncestor
  PROVE  IInv'
  <1> DEFINE at == session.at
             up == class[at].parent
  <1>1. /\ session.step = "ancestry" /\ at # NoClass
        /\ session' = [session EXCEPT
             !.ancestry = IF class[at].linked THEN @ ELSE <<at>> \o @, !.at = up]
        /\ UNCHANGED <<files, class, table, links, jlClass>>
    BY DEF ListAncestor
  <1>2. /\ files \in Worlds /\ ClassesIn(class, table) /\ ClosedIn(class, table, {})
        /\ ListingAncestors /\ AllDiscovered /\ Ancestry /\ DOMAIN session = DOMAIN Idle
    BY <1>1 DEF IInv, Session, Astray, ListingAncestors, AllDiscovered
  <1>3. /\ session'.step = "ancestry" /\ session'.at = up
        /\ session'.ancestry = IF class[at].linked THEN session.ancestry ELSE <<at>> \o session.ancestry
        /\ session'.required = session.required /\ session'.depth = session.depth
        /\ DOMAIN session' = DOMAIN Idle
    BY <1>1, <1>2 DEF Idle
  <1>4. at \in DOMAIN class /\ ~IsInterface(at)
    BY <1>1, <1>2 DEF ListingAncestors
  <1>5. up # NoClass => up \in DOMAIN class /\ ~IsInterface(up)
    BY <1>2, <1>4 DEF ClassesIn
  <1>6. session.ancestry \in Seq(DOMAIN class)
    BY <1>2 DEF Ancestry
  <1>7. InTable(table)' = InTable(table)
    BY <1>1, FilesStay
  <1>8. class[at].linked => at \in InTable(table) /\ up \in InTable(table) \cup {NoClass}
    <2>1. class[at].linked => table[NameOf(at)] = at /\ NameOf(at) \in Names
      BY <1>2, <1>4 DEF ClassesIn
    <2>2. class[at].linked => at \in InTable(table)
      BY <1>1, <2>1 DEF InTable
    <2>3. QED
      BY <1>2, <1>4, <2>2 DEF ClosedIn
  <1>9. at \in InTable(table) => class[at].linked
    BY <1>2, TableFacts
  <1> HIDE DEF at, up
  <1>10. /\ Ancestry'
         /\ \/ session'.ancestry = <<>>
            \/ class'[session'.ancestry[1]].parent = up
            \/ FirstIsReady' /\ up \in InTable(table) \cup {NoClass}
    <2>1. CASE class[at].linked
      <3>1. session'.ancestry = session.ancestry
        BY <1>3, <2>1
      <3>2. Ancestry'
        BY <1>1, <1>2, <3>1 DEF Ancestry, IsInterface, FileOf
      <3>3. \/ session.ancestry = <<>>
            \/ class[session.ancestry[1]].parent = at
            \/ FirstIsReady
        BY <1>2 DEF ListingAncestors, at
      <3>4. session.ancestry = <<>> \/ FirstIsReady
        BY <1>8, <2>1, <3>3 DEF FirstIsReady
      <3>5. session.ancestry = <<>> \/ FirstIsReady'
        BY <1>1, <1>7, <3>1, <3>4 DEF FirstIsReady
      <3>6. QED
        BY <1>8, <2>1, <3>1, <3>2, <3>5
    <2>2. CASE ~class[at].linked
      <3> DEFINE a == <<at>> \o session.ancestry
      <3>1. session'.ancestry = a
        BY <1>3, <2>2
      <3>2. /\ a \in Seq(DOMAIN class) /\ a[1] = at
            /\ \A k \in DOMAIN a : k # 1 => k - 1 \in DOMAIN session.ancestry
                                            /\ a[k] = session.ancestry[k - 1]
        BY <1>4, <1>6, ConsFacts
      <3>3. session.ancestry # <<>> => class[session.ancestry[1]].parent = at
        <4>1. \/ session.ancestry = <<>>
              \/ class[session.ancestry[1]].parent = at
              \/ at \in InTable(table) \cup {NoClass}
          BY <1>2 DEF ListingAncestors, at
        <4>2. QED
          BY <1>1, <1>9, <2>2, <4>1 DEF at
      <3> HIDE DEF a
      <3>4. ASSUME NEW k \in DOMAIN a
            PROVE  /\ ~class[a[k]].linked /\ ~IsInterface(a[k])
                   /\ k # 1 => class[a[k]].parent = a[k - 1]
        <4>1. CASE k = 1
          BY <1>4, <2>2, <3>2, <4>1
        <4>2. CASE k = 2
          <5>1. 1 \in DOMAIN session.ancestry /\ a[2] = session.ancestry[1]
            BY <3>2, <4>2
          <5>2. /\ session.ancestry # <<>> /\ ~class[session.ancestry[1]].linked
                /\ ~IsInterface(session.ancestry[1])
            BY <1>2, <5>1 DEF Ancestry
          <5>3. QED
            BY <3>2, <3>3, <4>2, <5>1, <5>2
        <4>3. CASE k # 1 /\ k # 2
          <5>1. k - 1 \in DOMAIN session.ancestry /\ a[k] = session.ancestry[k - 1] /\ k \in Nat /\ k - 1 # 1
            BY <3>2, <3>4, <4>3
          <5>2. /\ ~class[a[k]].linked /\ ~IsInterface(a[k])
                /\ class[a[k]].parent = session.ancestry[k - 1 - 1]
            BY <1>2, <5>1 DEF Ancestry
          <5>3. k - 1 \in DOMAIN a /\ k - 1 # 1
            BY <3>2, <3>4, <4>3, <5>1
          <5>4. a[k - 1] = session.ancestry[k - 1 - 1]
            BY <3>2, <5>3
          <5>5. QED
            BY <4>3, <5>2, <5>4
        <4>4. QED
          BY <4>1, <4>2, <4>3
      <3>5. Ancestry'
        <4>1. /\ session'.ancestry = a /\ class' = class
          BY <1>1, <3>1
        <4>2. /\ \A k \in DOMAIN a : ~class[a[k]].linked /\ ~IsInterface(a[k])
              /\ \A k \in DOMAIN a : k # 1 => class[a[k]].parent = a[k - 1]
          BY <3>4
        <4>3. (session.ancestry \in Seq(DOMAIN class))'
          BY <3>2, <4>1
        <4>4. (\A k \in DOMAIN session.ancestry : ~class[session.ancestry[k]].linked)'
          BY <4>1, <4>2
        <4>5. (\A k \in DOMAIN session.ancestry : ~IsInterface(session.ancestry[k]))'
          BY <1>1, <4>1, <4>2 DEF IsInterface, FileOf
        <4>6. (\A k \in DOMAIN session.ancestry :
                   k # 1 => class[session.ancestry[k]].parent = session.ancestry[k - 1])'
          BY <4>1, <4>2
        <4>7. QED
          BY <4>3, <4>4, <4>5, <4>6 DEF Ancestry
      <3>6. class'[session'.ancestry[1]].parent = up
        BY <1>1, <3>1, <3>2 DEF up
      <3>7. QED
        BY <3>5, <3>6
    <2>3. QED
      BY <2>1, <2>2
  <1>11. AllDiscovered' /\ Found' = Found
    BY <1>1, <1>2, <1>3, <1>10, StillDiscovered
  <1>12. \A c \in Found : Unpublished(c)'
    BY <1>1, <1>2 DEF ListingAncestors, Unpublished, NameOf
  <1>13. ListingAncestors'
    BY <1>1, <1>3, <1>5, <1>7, <1>10, <1>11, <1>12 DEF ListingAncestors, IsInterface, FileOf
  <1>14. QED
    BY <1>1, <1>2, <1>3, <1>13, Assemble DEF Steps, Astray, Later

LEMMA AncestorsListedKeeps ==
  ASSUME IInv, AncestorsListed
  PROVE  IInv'
  <1>1. /\ session.step = "ancestry" /\ session.at = NoClass
        /\ session' = [session EXCEPT !.step = "patch", !.at = links.next[IfaceList]]
        /\ UNCHANGED <<files, class, table, links, jlClass>>
    BY DEF AncestorsListed
  <1>2. /\ files \in Worlds /\ ClassesIn(class, table) /\ ClosedIn(class, table, {})
        /\ ListingAncestors /\ AllDiscovered /\ Ancestry /\ Listed /\ DOMAIN session = DOMAIN Idle
    BY <1>1 DEF IInv, Session, Astray, ListingAncestors, AllDiscovered
  <1>3. /\ session'.step = "patch" /\ session'.at = links.next[IfaceList]
        /\ session'.ancestry = session.ancestry
        /\ session'.required = session.required /\ session'.depth = session.depth
        /\ DOMAIN session' = DOMAIN Idle
    BY <1>1, <1>2 DEF Idle
  <1>4. Ancestry'
    BY <1>1, <1>2, <1>3 DEF Ancestry, IsInterface, FileOf
  <1>5. AllDiscovered' /\ Found' = Found /\ IfaceList' = IfaceList
    BY <1>1, <1>2, <1>3, <1>4, StillDiscovered
  <1>6. InTable(table)' = InTable(table)
    BY <1>1, FilesStay
  <1>7. FirstIsReady'
    BY <1>1, <1>2, <1>3, <1>6 DEF ListingAncestors, FirstIsReady
  <1>8. \A c \in Found : ~class'[c].linked /\ table'[NameOf(c)'] = NoClass
    BY <1>1, <1>2 DEF ListingAncestors, Unpublished, NameOf
  <1>9. Patched' = {}
    BY <1>5, <1>8 DEF Patched
  <1>10. links'.next[IfaceList] = session'.at /\ session'.at \in Found \cup {IfaceList}
    BY <1>1, <1>2, <1>3 DEF Listed
  <1>11. Patching'
    BY <1>5, <1>7, <1>8, <1>9, <1>10 DEF Patching
  <1>12. ClosedIn(class', table', Found')
    BY <1>1, <1>2 DEF ClosedIn
  <1>13. QED
    BY <1>1, <1>2, <1>3, <1>11, <1>12, Assemble DEF Steps, Astray, Later

----------------------------------------------------------------------------
(* Publication of the interfaces *)

\* Interface c is published.
Publishes(c, new, tbl) ==
  /\ DOMAIN new = DOMAIN class
  /\ \A d \in DOMAIN class : /\ new[d].parent = class[d].parent
                             /\ new[d].linked <=> d = c \/ class[d].linked
  /\ \A n \in Names : tbl[n] = IF n = NameOf(c) THEN c ELSE table[n]
  /\ InTable(tbl) = InTable(table) \cup {c}
  /\ ClassesIn(new, tbl) /\ ClosedIn(new, tbl, Found)

\* An interface is published with the interfaces it extends, which the session knows.
LEMMA PublishedInterface ==
  ASSUME files \in Worlds, ClassesIn(class, table), ClosedIn(class, table, Found),
         session.required \in Seq(DOMAIN class), NamedIn(session.required, <<>>, <<>>),
         NEW c \in Found, table[NameOf(c)] = NoClass
  PROVE  Publishes(c, [class EXCEPT ![c].linked = TRUE, ![c].implements = Extended(c)],
                      [table EXCEPT ![NameOf(c)] = c])
  <1> DEFINE new == [class EXCEPT ![c].linked = TRUE, ![c].implements = Extended(c)]
             tbl == [table EXCEPT ![NameOf(c)] = c]
  <1>1. c \in DOMAIN class /\ IsInterface(c) /\ c \in ToSet(session.required)
    BY DEF Found, ToSet
  <1>2. /\ IsPair(c) /\ NameOf(c) \in Names /\ DOMAIN table = Names /\ DOMAIN class[c] = ClassFields
        /\ c # NoClass
    BY <1>1, PairFacts DEF ClassesIn, Shaped
  <1>3. /\ DOMAIN new = DOMAIN class
        /\ \A d \in DOMAIN class \ {c} : new[d] = class[d]
        /\ new[c] = [class[c] EXCEPT !.linked = TRUE, !.implements = Extended(c)]
    BY <1>1
  <1>4. /\ DOMAIN tbl = Names
        /\ \A n \in Names : tbl[n] = IF n = NameOf(c) THEN c ELSE table[n]
    BY <1>2
  <1> HIDE DEF new, tbl
  <1>5. /\ DOMAIN new[c] = ClassFields /\ new[c].linked = TRUE
        /\ new[c].implements = Extended(c) /\ new[c].parent = class[c].parent
    BY <1>2, <1>3 DEF ClassFields
  <1>6. \A d \in DOMAIN class : /\ new[d].parent = class[d].parent
                                /\ new[d].linked <=> d = c \/ class[d].linked
    BY <1>3, <1>5
  <1>7. InTable(tbl) = InTable(table) \cup {c}
    BY <1>2, <1>4 DEF InTable
  <1>8. \A k \in DOMAIN Extended(c) :
          /\ DOMAIN Extended(c)[k] = {"interface", "vtableIndex"}
          /\ k \in DOMAIN FileOf(c).ifaces
          /\ Extended(c)[k].interface = Interface(FileOf(c).ifaces[k])
    BY DEF Extended
  <1>9. ASSUME NEW n \in ToSet(FileOf(c).ifaces)
        PROVE  Interface(n) \in InTable(table) \cup Found
    <2>1. n \in DOMAIN files
      BY <1>2, <1>9, FileFacts DEF ToSet
    <2>2. CASE table[n] # NoClass
      <3>1. Interface(n) = table[n]
        BY <2>2 DEF Interface
      <3>2. QED
        BY <2>1, <2>2, <3>1 DEF InTable, Names
    <2>3. CASE table[n] = NoClass
      <3>1. PICK k \in DOMAIN session.required : c = session.required[k]
        BY <1>1 DEF ToSet
      <3>2. ToSet(<<>>) = {}
        BY DEF ToSet
      <3>3. \E q \in ToSet(session.required) : NameOf(q) = n
        BY <1>9, <2>3, <3>1, <3>2 DEF NamedIn
      <3> DEFINE d == Lookup(session.required, n)
      <3>4. d \in ToSet(session.required) /\ NameOf(d) = n
        BY <3>3, LookupFacts
      <3>5. Interface(n) = d
        BY <2>3 DEF Interface
      <3> HIDE DEF d
      <3>6. IsInterface(d)
        BY <1>1, <1>2, <1>9, <3>4, FileFacts
      <3>7. QED
        BY <3>4, <3>5, <3>6 DEF Found
    <2>4. QED
      BY <2>2, <2>3
  <1>10. \A k \in DOMAIN new[c].implements :
           new[c].implements[k].interface \in InTable(table) \cup Found
    <2>1. \A k \in DOMAIN FileOf(c).ifaces : FileOf(c).ifaces[k] \in ToSet(FileOf(c).ifaces)
      BY DEF ToSet
    <2>2. QED
      BY <1>5, <1>8, <1>9, <2>1
  <1>11. Shaped(new)
    <2>1. \A d \in DOMAIN class :
            /\ DOMAIN class[d] = ClassFields
            /\ \A k \in DOMAIN class[d].implements :
                 DOMAIN class[d].implements[k] = {"interface", "vtableIndex"}
      BY DEF Shaped, ClassesIn
    <2>2. \A k \in DOMAIN new[c].implements :
            DOMAIN new[c].implements[k] = {"interface", "vtableIndex"}
      BY <1>5, <1>8
    <2>3. ASSUME NEW d \in DOMAIN new
          PROVE  /\ DOMAIN new[d] = ClassFields
                 /\ \A k \in DOMAIN new[d].implements :
                      DOMAIN new[d].implements[k] = {"interface", "vtableIndex"}
      <3>1. CASE d = c
        BY <1>5, <2>2, <3>1
      <3>2. CASE d # c
        <4>1. new[d] = class[d] /\ d \in DOMAIN class
          BY <1>3, <3>2
        <4>2. QED
          BY <2>1, <4>1
      <3>3. QED
        BY <3>1, <3>2
    <2>4. QED
      BY <2>3 DEF Shaped
  <1>12. ClassesIn(new, tbl)
    <2>1. \A d \in DOMAIN new : new[d].linked => tbl[NameOf(d)] = d
      <3>1. \A d \in DOMAIN class : class[d].linked => NameOf(d) # NameOf(c)
        BY <1>2, PairFacts DEF ClassesIn
      <3>2. QED
        BY <1>2, <1>3, <1>4, <1>6, <3>1 DEF ClassesIn
    <2>2. \A n \in Names : tbl[n] # NoClass =>
            tbl[n] \in DOMAIN new /\ NameOf(tbl[n]) = n /\ new[tbl[n]].linked
      BY <1>1, <1>2, <1>3, <1>4, <1>6 DEF ClassesIn
    <2>3. \A d \in DOMAIN new :
            /\ IsPair(d) /\ NameOf(d) \in Names
            /\ new[d].parent # NoClass =>
                 /\ new[d].parent \in DOMAIN new
                 /\ ~IsInterface(new[d].parent)
                 /\ NameOf(new[d].parent) = FileOf(d).super
      BY <1>3, <1>6 DEF ClassesIn
    <2>4. IsFiniteSet(DOMAIN new)
      BY <1>3 DEF ClassesIn
    <2>5. QED
      BY <1>4, <1>11, <2>1, <2>2, <2>3, <2>4 DEF ClassesIn
  <1>13. ClosedIn(new, tbl, Found)
    <2>1. ASSUME NEW d \in InTable(table), d # c
          PROVE  /\ \A k \in DOMAIN new[d].implements :
                      \/ new[d].implements[k].interface \in InTable(tbl)
                      \/ IsInterface(d) /\ new[d].implements[k].interface \in Found
                 /\ new[d].parent \in InTable(tbl) \cup {NoClass} \/ IsInterface(d)
      <3>1. new[d] = class[d]
        BY <1>3, <2>1, TableFacts
      <3>2. QED
        BY <1>7, <2>1, <3>1 DEF ClosedIn
    <2>2. QED
      BY <1>1, <1>7, <1>10, <2>1 DEF ClosedIn
  <1>14. QED
    <2>1. Publishes(c, new, tbl)
      BY <1>3, <1>4, <1>6, <1>7, <1>12, <1>13 DEF Publishes
    <2>2. QED
      BY <2>1 DEF new, tbl

LEMMA PatchInterfaceKeeps ==
  ASSUME IInv, PatchInterface
  PROVE  IInv'
  <1> DEFINE c == session.at
  <1>1. /\ session.step = "patch" /\ c # IfaceList
        /\ files \in Worlds /\ ClassesIn(class, table) /\ ClosedIn(class, table, Found)
        /\ Patching /\ AllDiscovered /\ Ancestry /\ Listed /\ DOMAIN session = DOMAIN Idle
    BY DEF PatchInterface, IInv, Session, Astray, Patching, AllDiscovered
  <1>2. c \in Found /\ c \in ToSet(session.required) /\ IsInterface(c)
    BY <1>1 DEF Patching, Found
  <1>3. c \in DOMAIN class /\ NameOf(c) \in Names
    <2>1. ToSet(session.required) \subseteq DOMAIN class
      BY <1>1 DEF AllDiscovered, ToSet
    <2>2. QED
      BY <1>1, <1>2, <2>1 DEF ClassesIn
  <1>4. CASE ~class[c].linked /\ table[NameOf(c)] # NoClass
    <2>1. GoesAstray("abort")
      BY <1>4 DEF PatchInterface
    <2>2. /\ session'.step = "abort" /\ session'.required = session.required
          /\ DOMAIN session' = DOMAIN Idle /\ files' = files
      BY <1>1, <2>1 DEF GoesAstray, Idle
    <2> DEFINE d == table[NameOf(c)]
    <2>3. d \in Found /\ NameOf(d) = NameOf(c) /\ d # c
      BY <1>1, <1>2, <1>3, <1>4 DEF Patching, ClassesIn
    <2> HIDE DEF c, d
    <2>4. AbortNeedsTwoCopies'
      <3>1. c \in ToSet(session'.required) /\ d \in ToSet(session'.required) /\ NameOf(c) = NameOf(d)
        BY <1>2, <2>2, <2>3 DEF Found
      <3>2. \A x, y \in ToSet(session'.required) :
              /\ (NameOf(x) = NameOf(y))' <=> NameOf(x) = NameOf(y)
              /\ IsInterface(x)' <=> IsInterface(x)
        BY <2>2 DEF NameOf, IsInterface, FileOf
      <3>3. \E x, y \in ToSet(session'.required) :
              x # y /\ (NameOf(x) = NameOf(y))' /\ IsInterface(x)'
        BY <1>2, <2>3, <3>1, <3>2
      <3>4. QED
        BY <3>3 DEF AbortNeedsTwoCopies
    <2>5. QED
      BY <1>1, <2>2, <2>4 DEF IInv, Steps, Astray
  <1>5. CASE ~(~class[c].linked /\ table[NameOf(c)] # NoClass)
    <2>1. /\ files' = files /\ links' = links /\ session' = [session EXCEPT !.at = links.next[c]]
          /\ IF class[c].linked THEN UNCHANGED <<class, table>>
             ELSE /\ class' = [class EXCEPT ![c].linked = TRUE, ![c].implements = Extended(c)]
                  /\ table' = [table EXCEPT ![NameOf(c)] = c]
      BY <1>5 DEF PatchInterface, PatchNext
    <2>2. /\ session'.step = "patch" /\ session'.at = links.next[c]
          /\ session'.ancestry = session.ancestry
          /\ session'.required = session.required /\ session'.depth = session.depth
          /\ DOMAIN session' = DOMAIN Idle
      BY <1>1, <2>1 DEF Idle
    <2>3. Found' = Found /\ IfaceList' = IfaceList /\ Listed'
      BY <1>1, <2>1, <2>2, StillListed
    <2> HIDE DEF c
    <2>4. Publishes(c, class', table')
      <3>1. CASE class[c].linked
        <4>1. table[NameOf(c)] = c /\ c \in InTable(table)
          <5>1. table[NameOf(c)] = c
            BY <1>1, <1>3, <3>1 DEF ClassesIn
          <5>2. c # NoClass
            BY <1>1, <1>3, PairFacts DEF ClassesIn
          <5>3. QED
            BY <1>3, <5>1, <5>2 DEF InTable
        <4>2. InTable(table) = InTable(table) \cup {c}
          BY <4>1
        <4>3. Publishes(c, class, table)
          BY <1>1, <3>1, <4>1, <4>2 DEF Publishes
        <4>4. class' = class /\ table' = table
          BY <2>1, <3>1
        <4>5. QED
          BY <4>3, <4>4
      <3>2. CASE ~class[c].linked
        <4>1. /\ class' = [class EXCEPT ![c].linked = TRUE, ![c].implements = Extended(c)]
              /\ table' = [table EXCEPT ![NameOf(c)] = c]
              /\ table[NameOf(c)] = NoClass
          BY <1>5, <2>1, <3>2
        <4>2. session.required \in Seq(DOMAIN class) /\ NamedIn(session.required, <<>>, <<>>)
          BY <1>1 DEF AllDiscovered
        <4>3. QED
          BY <1>1, <1>2, <4>1, <4>2, PublishedInterface
      <3>3. QED
        BY <3>1, <3>2
    <2>5. InTable(table)' = InTable(table) \cup {c}
      BY <2>1, <2>4, FilesStay DEF Publishes
    <2>6. Ancestry' /\ FirstIsReady'
      <3>1. Ancestry'
        BY <1>1, <1>2, <2>1, <2>2, <2>4 DEF Publishes, Ancestry, IsInterface, FileOf
      <3>2. session.ancestry # <<>> => session.ancestry[1] \in DOMAIN class
        BY <1>1 DEF Ancestry
      <3>3. QED
        BY <1>1, <2>2, <2>4, <2>5, <3>1, <3>2 DEF Publishes, Patching, FirstIsReady
    <2>7. AllDiscovered'
      <3>1. NamedIn(session.required, <<>>, <<>>)'
        <4>1. ASSUME NEW k \in DOMAIN session.required, NEW n \in ToSet(FileOf(session.required[k]).ifaces)
              PROVE  \/ k = 1 /\ n \in ToSet(<<>>)
                     \/ table'[n] # NoClass
                     \/ \E d \in ToSet(session.required) \cup ToSet(<<>>) : NameOf(d) = n
          <5>1. session.required[k] \in DOMAIN class
            BY <1>1 DEF AllDiscovered
          <5>2. n \in Names
            BY <1>1, <4>1, <5>1, FileFacts DEF ClassesIn, Names, ToSet
          <5>3. \/ k = 1 /\ n \in ToSet(<<>>)
                \/ table[n] # NoClass
                \/ \E d \in ToSet(session.required) \cup ToSet(<<>>) : NameOf(d) = n
            BY <1>1 DEF AllDiscovered, NamedIn
          <5>4. c # NoClass
            BY <1>1, <1>3, PairFacts DEF ClassesIn
          <5>5. QED
            BY <2>4, <5>2, <5>3, <5>4 DEF Publishes
        <4>2. QED
          BY <2>1, <2>2, <4>1 DEF NamedIn, FileOf, NameOf
      <3>2. \A d \in DOMAIN class' : IsInterface(d)' => d \in InTable(table)' \cup Found'
        BY <1>1, <2>1, <2>3, <2>4, <2>5 DEF Publishes, AllDiscovered, IsInterface, FileOf
      <3>3. session'.required \in Seq(DOMAIN class')
        BY <1>1, <2>2, <2>4 DEF Publishes, AllDiscovered
      <3>4. QED
        BY <2>3, <2>6, <3>1, <3>2, <3>3 DEF AllDiscovered
    <2>8. Patching'
      <3>1. Patched' = Patched \cup {c}
        <4>1. Found \subseteq DOMAIN class
          BY <1>1 DEF AllDiscovered, Found, ToSet
        <4>2. QED
          BY <1>2, <2>3, <2>4, <4>1 DEF Publishes, Patched
      <3>2. session'.at \in Found' \cup {IfaceList'}
        BY <1>1, <1>2, <2>2, <2>3 DEF Listed
      <3>3. \A x \in Patched' \cup {IfaceList'} : links'.next[x] \in Patched' \cup {session'.at}
        BY <1>1, <2>1, <2>2, <2>3, <3>1 DEF Patching, c
      <3>4. \A d \in Found' : table'[NameOf(d)'] \in Found' \cup {NoClass}
        <4>1. \A d \in Found : NameOf(d) \in Names /\ NameOf(d)' = NameOf(d)
          BY <1>1 DEF AllDiscovered, Found, ToSet, ClassesIn, NameOf
        <4>2. \A d \in Found : table[NameOf(d)] \in Found \cup {NoClass}
          BY <1>1 DEF Patching
        <4>3. QED
          BY <1>2, <2>3, <2>4, <4>1, <4>2 DEF Publishes
      <3>5. QED
        BY <2>6, <2>7, <3>2, <3>3, <3>4 DEF Patching
    <2>9. QED
      BY <1>1, <2>1, <2>2, <2>3, <2>4, <2>8, Assemble DEF Publishes, Steps, Astray, Later
  <1>6. QED
    BY <1>4, <1>5

LEMMA PatchEndKeeps ==
  ASSUME IInv, PatchEnd
  PROVE  IInv'
  <1>1. /\ session.step = "patch" /\ session.at = IfaceList
        /\ session' = [session EXCEPT !.step = "link"]
        /\ UNCHANGED <<files, class, table, links, jlClass>>
        /\ files \in Worlds /\ ClassesIn(class, table) /\ ClosedIn(class, table, Found)
        /\ Patching /\ AllDiscovered /\ Ancestry /\ Listed /\ DOMAIN session = DOMAIN Idle
    BY DEF PatchEnd, IInv, Session, Astray, Patching, AllDiscovered
  <1>2. /\ session'.step = "link" /\ session'.ancestry = session.ancestry
        /\ DOMAIN session' = DOMAIN Idle
    BY <1>1 DEF Idle
  <1>3. Found \subseteq DOMAIN class
    BY <1>1 DEF AllDiscovered, Found, ToSet
  <1>4. Found \subseteq Patched
    <2>1. \A x \in Patched \cup {IfaceList} : links.next[x] \in Patched \cup {IfaceList}
      BY <1>1 DEF Patching
    <2>2. Found \subseteq Patched \cup {IfaceList}
      BY <1>1, <2>1 DEF Listed, Patched
    <2>3. IfaceList \notin Found
      BY <1>1, <1>3, PairFacts DEF ClassesIn, IfaceList
    <2>4. QED
      BY <2>2, <2>3
  <1>5. Found \subseteq InTable(table)
    <2>1. \A c \in Found : NameOf(c) \in Names /\ table[NameOf(c)] = c /\ c # NoClass
      BY <1>1, <1>3, <1>4, PairFacts DEF Patched, ClassesIn
    <2>2. QED
      BY <2>1 DEF InTable
  <1>6. ClosedIn(class, table, {}) /\ InterfacesIn(class, table)
    BY <1>1, <1>5 DEF ClosedIn, AllDiscovered, InterfacesIn
  <1>7. InTable(table)' = InTable(table) /\ (InterfacesIn(class, table)' <=> InterfacesIn(class', table'))
    BY <1>1, FilesStay
  <1>8. LinkingOne'
    <2>1. Ancestry'
      BY <1>1, <1>2 DEF Ancestry, IsInterface, FileOf
    <2>2. FirstIsReady'
      BY <1>1, <1>2, <1>7 DEF Patching, FirstIsReady
    <2>3. QED
      BY <1>1, <1>2, <1>6, <1>7, <2>1, <2>2 DEF LinkingOne
  <1>9. QED
    BY <1>1, <1>2, <1>6, <1>8, Assemble DEF Steps, Astray, Later

----------------------------------------------------------------------------
(* Linking of the superclasses *)

LEMMA LaterFacts ==
  ASSUME IInv, session.step \in Later
  PROVE  /\ files \in Worlds /\ DOMAIN session = DOMAIN Idle
         /\ ClassesIn(class, table) /\ ClosedIn(class, table, {}) /\ LinkingOne
  BY DEF IInv, Session, Later, Astray

LEMMA ToLinkFacts ==
  ASSUME IInv, session.step \in Later, session.ancestry # <<>>
  PROVE  /\ ToLink = session.ancestry[1] /\ 1 \in DOMAIN session.ancestry
         /\ ToLink \in DOMAIN class /\ ~class[ToLink].linked /\ ~IsInterface(ToLink)
         /\ ToLink \notin InTable(table) /\ NameOf(ToLink) \in Names /\ IsPair(ToLink)
         /\ DOMAIN class[ToLink] = ClassFields
         /\ class[ToLink].parent \in InTable(table) \cup {NoClass}
  <1>1. ClassesIn(class, table) /\ Ancestry /\ FirstIsReady
    BY LaterFacts DEF LinkingOne
  <1>2. /\ ToLink = session.ancestry[1] /\ 1 \in DOMAIN session.ancestry
        /\ ToLink \in DOMAIN class
    BY <1>1, HeadFacts DEF Ancestry, ToLink
  <1>3. ~class[ToLink].linked /\ ~IsInterface(ToLink)
    BY <1>1, <1>2 DEF Ancestry
  <1>4. ToLink \notin InTable(table)
    BY <1>1, <1>3, TableFacts
  <1>5. DOMAIN class[ToLink] = ClassFields /\ NameOf(ToLink) \in Names /\ IsPair(ToLink)
    BY <1>1, <1>2 DEF ClassesIn, Shaped
  <1>6. class[ToLink].parent \in InTable(table) \cup {NoClass}
    BY <1>1, <1>2 DEF FirstIsReady
  <1>7. QED
    BY <1>2, <1>3, <1>4, <1>5, <1>6

\* The steps that build the class to be linked and leave everything else
LEMMA BuildKeeps ==
  ASSUME IInv, session.step \in Later, session.ancestry # <<>>,
         UNCHANGED <<files, table>>,
         DOMAIN class' = DOMAIN class, Shaped(class'),
         \A c \in DOMAIN class :
           /\ class'[c].parent = class[c].parent /\ class'[c].linked = class[c].linked
           /\ c # ToLink => SameInterfaces(class[c].implements, class'[c].implements),
         DOMAIN session' = DOMAIN Idle, session'.ancestry = session.ancestry,
         session'.step \in Later \ {"link"}, session'.count \in Nat,
         session'.step \in {"fill", "fixup", "itable"} =>
           /\ DOMAIN class'[ToLink].implements \in {1..n : n \in Nat}
           /\ \A k \in DOMAIN class'[ToLink].implements :
                class'[ToLink].implements[k].interface \in DOMAIN class \cup {NoClass},
         session'.step = "itable" =>
           /\ session'.left \in Seq(DOMAIN class'[ToLink].implements)
           /\ \A k \in DOMAIN class'[ToLink].implements :
                k \in ToSet(session'.left) \/ class'[ToLink].implements[k].interface \in InTable(table)
  PROVE  IInv'
  <1>1. /\ files \in Worlds /\ ClassesIn(class, table) /\ ClosedIn(class, table, {})
        /\ InterfacesIn(class, table) /\ Ancestry /\ FirstIsReady
    BY LaterFacts DEF LinkingOne
  <1>2. ClassesIn(class', table) /\ InterfacesIn(class', table)
    BY <1>1, OthersKeep
  <1>3. ClosedIn(class', table, {})
    <2>1. \A c \in InTable(table) : c \in DOMAIN class /\ c # ToLink
      BY <1>1, TableFacts, ToLinkFacts
    <2>2. QED
      BY <1>1, <2>1, ClosedKeeps
  <1>4. InTable(table)' = InTable(table) /\ (InterfacesIn(class, table)' <=> InterfacesIn(class', table'))
    BY FilesStay
  <1>5. ToLink' = ToLink
    BY DEF ToLink
  <1>6. LinkingOne'
    <2>1. Ancestry'
      BY <1>1 DEF Ancestry, IsInterface, FileOf
    <2>2. FirstIsReady'
      <3>1. session.ancestry[1] \in DOMAIN class
        BY ToLinkFacts
      <3>2. QED
        BY <1>1, <1>4, <3>1 DEF FirstIsReady
    <2>3. Implements' = class'[ToLink].implements
      BY <1>5 DEF Implements
    <2>4. QED
      BY <1>2, <1>4, <2>1, <2>2, <2>3 DEF LinkingOne
  <1>7. QED
    BY <1>1, <1>2, <1>3, <1>6, Assemble DEF Steps, Astray, Later

\* The steps that only walk over the lists
LEMMA WalkKeeps ==
  ASSUME IInv, session.step \in Later, session.ancestry # <<>>,
         UNCHANGED <<files, class, table>>,
         DOMAIN session' = DOMAIN Idle, session'.ancestry = session.ancestry,
         session'.step \in {"roots", "flatten", "extended"}, session'.count \in Nat
  PROVE  IInv'
  <1>1. ClassesIn(class, table)
    BY LaterFacts
  <1>2. Shaped(class')
    BY <1>1 DEF ClassesIn
  <1>3. \A c \in DOMAIN class : SameInterfaces(class[c].implements, class'[c].implements)
    BY DEF SameInterfaces
  <1>4. QED
    BY <1>2, <1>3, BuildKeeps DEF Later

LEMMA FlattenStartKeeps ==
  ASSUME IInv, FlattenStart
  PROVE  IInv'
  <1>1. session.step \in Later /\ session.ancestry # <<>> /\ UNCHANGED <<files, class, table>>
    BY DEF FlattenStart, Later
  <1>2. DOMAIN session = DOMAIN Idle
    BY <1>1, LaterFacts
  <1>3. /\ DOMAIN session' = DOMAIN Idle /\ session'.ancestry = session.ancestry
        /\ session'.step = "roots" /\ session'.count = 0
    BY <1>2 DEF FlattenStart, Idle
  <1>4. QED
    BY <1>1, <1>3, WalkKeeps

LEMMA ListRootKeeps ==
  ASSUME IInv, ListRoot
  PROVE  IInv'
  <1>1. CASE GoesAstray("smashed")
    BY <1>1, AstrayKeeps DEF Astray
  <1>2. CASE /\ session' = [session EXCEPT !.left = Tail(@)]
             /\ UNCHANGED <<files, class, table, jlClass>>
    <2>1. session.step = "roots" /\ session.step \in Later
      BY DEF ListRoot, Later
    <2>2. DOMAIN session = DOMAIN Idle /\ session.ancestry # <<>> /\ session.count \in Nat
      BY <2>1, LaterFacts DEF LinkingOne
    <2>3. /\ DOMAIN session' = DOMAIN Idle /\ session'.ancestry = session.ancestry
          /\ session'.step = session.step /\ session'.count = session.count
      BY <1>2, <2>2 DEF Idle
    <2>4. QED
      BY <1>2, <2>1, <2>2, <2>3, WalkKeeps
  <1>3. QED
    BY <1>1, <1>2 DEF ListRoot

LEMMA LoopKeeps ==
  ASSUME IInv, session.step \in Later, session.ancestry # <<>>, session.count \in Nat,
         NEW n, session' = LoopAt(n), UNCHANGED <<files, class, table>>
  PROVE  IInv'
  <1>1. DOMAIN session = DOMAIN Idle
    BY LaterFacts
  <1>2. /\ DOMAIN session' = DOMAIN Idle /\ session'.ancestry = session.ancestry
        /\ session'.step = "flatten" /\ session'.count = session.count
    BY <1>1 DEF LoopAt, Idle
  <1>3. QED
    BY <1>2, WalkKeeps

LEMMA RootsListedKeeps ==
  ASSUME IInv, RootsListed
  PROVE  IInv'
  <1>1. session.step = "roots" /\ session.step \in Later
    BY DEF RootsListed, Later
  <1>2. session.ancestry # <<>> /\ session.count \in Nat
    BY <1>1, LaterFacts DEF LinkingOne
  <1>3. QED
    BY <1>1, <1>2, LoopKeeps DEF RootsListed

LEMMA FlattenOneKeeps ==
  ASSUME IInv, FlattenOne
  PROVE  IInv'
  <1>1. CASE GoesAstray("smashed") \/ GoesAstray("lost")
    BY <1>1, AstrayKeeps DEF Astray
  <1>2. CASE ~(GoesAstray("smashed") \/ GoesAstray("lost"))
    <2> DEFINE interfaces == [i \in DOMAIN class[session.at].implements |->
                                class[session.at].implements[i].interface]
    <2>1. /\ session.step = "flatten" /\ session.step \in Later
          /\ session' = [session EXCEPT !.step = "extended", !.count = session.count + 1,
                                        !.left = interfaces]
          /\ UNCHANGED <<files, class, table>>
      BY <1>2 DEF FlattenOne, Later, CountWith
    <2> HIDE DEF interfaces
    <2>2. DOMAIN session = DOMAIN Idle /\ session.ancestry # <<>> /\ session.count \in Nat
      BY <2>1, LaterFacts DEF LinkingOne
    <2>3. /\ DOMAIN session' = DOMAIN Idle /\ session'.ancestry = session.ancestry
          /\ session'.step = "extended" /\ session'.count = session.count + 1
      BY <2>1, <2>2 DEF Idle
    <2>4. QED
      BY <2>1, <2>2, <2>3, WalkKeeps
  <1>3. QED
    BY <1>1, <1>2

LEMMA ListExtendedKeeps ==
  ASSUME IInv, ListExtended
  PROVE  IInv'
  <1>1. CASE GoesAstray("smashed") \/ GoesAstray("lost")
    BY <1>1, AstrayKeeps DEF Astray
  <1>2. CASE ~(GoesAstray("smashed") \/ GoesAstray("lost"))
    <2>1. /\ session.step = "extended" /\ session.step \in Later
          /\ session' = [session EXCEPT !.left = Tail(@)]
          /\ UNCHANGED <<files, class, table>>
      BY <1>2 DEF ListExtended, Later
    <2>2. DOMAIN session = DOMAIN Idle /\ session.ancestry # <<>> /\ session.count \in Nat
      BY <2>1, LaterFacts DEF LinkingOne
    <2>3. /\ DOMAIN session' = DOMAIN Idle /\ session'.ancestry = session.ancestry
          /\ session'.step = "extended" /\ session'.count = session.count
      BY <2>1, <2>2 DEF Idle
    <2>4. QED
      BY <2>1, <2>2, <2>3, WalkKeeps
  <1>3. QED
    BY <1>1, <1>2

LEMMA ExtendedListedKeeps ==
  ASSUME IInv, ExtendedListed
  PROVE  IInv'
  <1>1. session.step = "extended" /\ session.step \in Later
    BY DEF ExtendedListed, Later
  <1>2. session.ancestry # <<>> /\ session.count \in Nat
    BY <1>1, LaterFacts DEF LinkingOne
  <1>3. QED
    BY <1>1, <1>2, LoopKeeps DEF ExtendedListed

LEMMA FlattenEndKeeps ==
  ASSUME IInv, FlattenEnd
  PROVE  IInv'
  <1>1. session.step = "flatten" /\ session.step \in Later /\ UNCHANGED <<files, table>>
    BY DEF FlattenEnd, Later
  <1>2. /\ DOMAIN session = DOMAIN Idle /\ session.ancestry # <<>> /\ session.count \in Nat
        /\ ClassesIn(class, table)
    BY <1>1, LaterFacts DEF LinkingOne
  <1>3. CASE links.next[IfaceDiscovery] # IfaceDiscovery
    BY <1>1, <1>2, <1>3, LoopKeeps DEF FlattenEnd
  <1>4. CASE links.next[IfaceDiscovery] = IfaceDiscovery
    <2> DEFINE empty == [k \in 1..session.count |-> [interface |-> NoClass, vtableIndex |-> <<>>]]
    <2>1. /\ class' = [class EXCEPT ![ToLink].implements = empty]
          /\ session' = [session EXCEPT !.step = "fill", !.at = links.next[IfaceRequired], !.count = 0]
      BY <1>4 DEF FlattenEnd
    <2>2. /\ DOMAIN empty = 1..session.count
          /\ \A k \in DOMAIN empty : /\ DOMAIN empty[k] = {"interface", "vtableIndex"}
                                     /\ empty[k].interface = NoClass
      OBVIOUS
    <2> HIDE DEF empty
    <2>3. /\ DOMAIN session' = DOMAIN Idle /\ session'.ancestry = session.ancestry
          /\ session'.step = "fill" /\ session'.count = 0
      BY <1>2, <2>1 DEF Idle
    <2>4. ToLink \in DOMAIN class /\ DOMAIN class[ToLink] = ClassFields
      BY <1>1, <1>2, ToLinkFacts
    <2>5. /\ DOMAIN class' = DOMAIN class
          /\ \A c \in DOMAIN class \ {ToLink} : class'[c] = class[c]
          /\ class'[ToLink] = [class[ToLink] EXCEPT !.implements = empty]
      BY <2>1, <2>4
    <2>6. /\ DOMAIN class'[ToLink] = ClassFields /\ class'[ToLink].implements = empty
          /\ class'[ToLink].parent = class[ToLink].parent
          /\ class'[ToLink].linked = class[ToLink].linked
      BY <2>4, <2>5 DEF ClassFields
    <2>7. Shaped(class')
      <3>1. \A c \in DOMAIN class \ {ToLink} :
              /\ DOMAIN class'[c] = ClassFields
              /\ \A k \in DOMAIN class'[c].implements :
                   DOMAIN class'[c].implements[k] = {"interface", "vtableIndex"}
        BY <1>2, <2>5 DEF ClassesIn, Shaped
      <3>2. \A k \in DOMAIN class'[ToLink].implements :
              DOMAIN class'[ToLink].implements[k] = {"interface", "vtableIndex"}
        BY <2>2, <2>6
      <3>3. \A c \in DOMAIN class' : c = ToLink \/ c \in DOMAIN class \ {ToLink}
        BY <2>5
      <3>4. QED
        BY <2>6, <3>1, <3>2, <3>3 DEF Shaped
    <2>8. \A c \in DOMAIN class :
            /\ class'[c].parent = class[c].parent /\ class'[c].linked = class[c].linked
            /\ c # ToLink => SameInterfaces(class[c].implements, class'[c].implements)
      BY <2>5, <2>6 DEF SameInterfaces
    <2>9. /\ DOMAIN class'[ToLink].implements \in {1..n : n \in Nat}
          /\ \A k \in DOMAIN class'[ToLink].implements :
               class'[ToLink].implements[k].interface \in DOMAIN class \cup {NoClass}
      BY <1>2, <2>2, <2>6
    <2>10. QED
      BY <1>1, <1>2, <2>3, <2>5, <2>7, <2>8, <2>9, BuildKeeps DEF Later
  <1>5. QED
    BY <1>3, <1>4

\* One implementation of the class changes, not its shape.
Changes(k, field, value, new) ==
  /\ DOMAIN new = DOMAIN class /\ Shaped(new)
  /\ \A c \in DOMAIN class : \A f \in ClassFields :
       c # ToLink \/ f # "implements" => new[c][f] = class[c][f]
  /\ DOMAIN new[ToLink].implements = DOMAIN Implements
  /\ \A j \in DOMAIN Implements : \A f \in {"interface", "vtableIndex"} :
       new[ToLink].implements[j][f] = IF j = k /\ f = field THEN value ELSE Implements[j][f]

LEMMA ImplementationKeeps ==
  ASSUME IInv, session.step \in Later, session.ancestry # <<>>,
         NEW k \in DOMAIN Implements, NEW field \in {"interface", "vtableIndex"}, NEW value
  PROVE  Changes(k, field, value, [class EXCEPT ![ToLink].implements[k][field] = value])
  <1> DEFINE new == [class EXCEPT ![ToLink].implements[k][field] = value]
             all == [Implements EXCEPT ![k][field] = value]
  <1>1. Shaped(class) /\ ToLink \in DOMAIN class
    BY LaterFacts, ToLinkFacts DEF ClassesIn
  <1>2. /\ \A c \in DOMAIN class : DOMAIN class[c] = ClassFields
        /\ \A c \in DOMAIN class : \A j \in DOMAIN class[c].implements :
             DOMAIN class[c].implements[j] = {"interface", "vtableIndex"}
    BY <1>1 DEF Shaped
  <1>3. /\ DOMAIN new = DOMAIN class
        /\ \A c \in DOMAIN class \ {ToLink} : new[c] = class[c]
        /\ new[ToLink] = [class[ToLink] EXCEPT !.implements = all]
    BY <1>1 DEF Implements
  <1>4. /\ DOMAIN all = DOMAIN Implements
        /\ \A j \in DOMAIN Implements \ {k} : all[j] = Implements[j]
        /\ all[k] = [Implements[k] EXCEPT ![field] = value]
    OBVIOUS
  <1> HIDE DEF new, all
  <1>5. \A j \in DOMAIN Implements :
          /\ DOMAIN all[j] = {"interface", "vtableIndex"}
          /\ \A f \in {"interface", "vtableIndex"} :
               all[j][f] = IF j = k /\ f = field THEN value ELSE Implements[j][f]
    BY <1>1, <1>2, <1>4 DEF Implements
  <1>6. /\ DOMAIN new[ToLink] = ClassFields /\ new[ToLink].implements = all
        /\ \A f \in ClassFields \ {"implements"} : new[ToLink][f] = class[ToLink][f]
    BY <1>1, <1>2, <1>3 DEF ClassFields
  <1>7. \A c \in DOMAIN class :
          /\ DOMAIN new[c] = ClassFields
          /\ \A f \in ClassFields : c # ToLink \/ f # "implements" => new[c][f] = class[c][f]
    BY <1>2, <1>3, <1>6
  <1>8. Shaped(new)
    <2>1. ASSUME NEW c \in DOMAIN class, NEW j \in DOMAIN new[c].implements
          PROVE  DOMAIN new[c].implements[j] = {"interface", "vtableIndex"}
      <3>1. CASE c = ToLink
        BY <1>4, <1>5, <1>6, <2>1, <3>1
      <3>2. CASE c # ToLink
        BY <1>2, <1>3, <2>1, <3>2
      <3>3. QED
        BY <3>1, <3>2
    <2>2. QED
      BY <1>3, <1>7, <2>1 DEF Shaped
  <1>9. QED
    <2>1. Changes(k, field, value, new)
      BY <1>3, <1>4, <1>5, <1>6, <1>7, <1>8 DEF Changes
    <2>2. QED
      BY <2>1 DEF new

LEMMA FillOneKeeps ==
  ASSUME IInv, FillOne
  PROVE  IInv'
  <1>1. CASE GoesAstray("lost")
    BY <1>1, AstrayKeeps DEF Astray
  <1>2. CASE ~GoesAstray("lost")
    <2> DEFINE k == session.count + 1
    <2>1. /\ session.step = "fill" /\ session.step \in Later /\ UNCHANGED <<files, table>>
          /\ session.at \in DOMAIN class /\ k \in DOMAIN Implements
          /\ class' = [class EXCEPT ![ToLink].implements[k].interface = session.at]
          /\ session' = [session EXCEPT !.at = links.next[session.at], !.count = k]
      BY <1>2 DEF FillOne, Later, Implements
    <2>2. /\ DOMAIN session = DOMAIN Idle /\ session.ancestry # <<>> /\ session.count \in Nat
          /\ DOMAIN Implements \in {1..n : n \in Nat}
          /\ \A j \in DOMAIN Implements : Implements[j].interface \in DOMAIN class \cup {NoClass}
      BY <2>1, LaterFacts DEF LinkingOne
    <2>3. /\ DOMAIN session' = DOMAIN Idle /\ session'.ancestry = session.ancestry
          /\ session'.step = "fill" /\ session'.count \in Nat
      BY <2>1, <2>2 DEF Idle
    <2>4. ToLink \in DOMAIN class
      BY <2>1, <2>2, ToLinkFacts
    <2> HIDE DEF k
    <2>5. Changes(k, "interface", session.at, class')
      <3>1. Changes(k, "interface", session.at,
                    [class EXCEPT ![ToLink].implements[k]["interface"] = session.at])
        BY <2>1, <2>2, ImplementationKeeps
      <3>2. QED
        BY <2>1, <3>1
    <2>6. \A c \in DOMAIN class :
            /\ class'[c].parent = class[c].parent /\ class'[c].linked = class[c].linked
            /\ c # ToLink => SameInterfaces(class[c].implements, class'[c].implements)
      BY <2>5 DEF Changes, ClassFields, SameInterfaces
    <2>7. /\ DOMAIN class'[ToLink].implements \in {1..n : n \in Nat}
          /\ \A j \in DOMAIN class'[ToLink].implements :
               class'[ToLink].implements[j].interface \in DOMAIN class \cup {NoClass}
      BY <2>1, <2>2, <2>5 DEF Changes
    <2>8. DOMAIN class' = DOMAIN class /\ Shaped(class')
      BY <2>5 DEF Changes
    <2>9. QED
      BY <2>1, <2>2, <2>3, <2>6, <2>7, <2>8, BuildKeeps DEF Later
  <1>3. QED
    BY <1>1, <1>2

LEMMA FilledKeeps ==
  ASSUME IInv, Filled
  PROVE  IInv'
  <1>1. /\ session.step = "fill" /\ session.step \in Later
        /\ session' = [session EXCEPT !.step = "fixup"] /\ UNCHANGED <<files, class, table>>
    BY DEF Filled, Later
  <1>2. /\ DOMAIN session = DOMAIN Idle /\ session.ancestry # <<>> /\ session.count \in Nat
        /\ ClassesIn(class, table)
        /\ DOMAIN Implements \in {1..n : n \in Nat}
        /\ \A k \in DOMAIN Implements : Implements[k].interface \in DOMAIN class \cup {NoClass}
    BY <1>1, LaterFacts DEF LinkingOne
  <1>3. /\ DOMAIN session' = DOMAIN Idle /\ session'.ancestry = session.ancestry
        /\ session'.step = "fixup" /\ session'.count = session.count
    BY <1>1, <1>2 DEF Idle
  <1>4. Shaped(class') /\ \A c \in DOMAIN class : SameInterfaces(class[c].implements, class'[c].implements)
    BY <1>1, <1>2 DEF ClassesIn, SameInterfaces
  <1>5. QED
    BY <1>1, <1>2, <1>3, <1>4, BuildKeeps DEF Later, Implements

\* class_fixup gives a class other fields and methods.
SameButMembers(c, cl, new) ==
  /\ DOMAIN new = DOMAIN cl
  /\ \A d \in DOMAIN cl \ {c} : new[d] = cl[d]
  /\ DOMAIN new[c] = ClassFields
  /\ \A f \in {"parent", "linked", "implements"} : new[c][f] = cl[c][f]

LEMMA MembersKeep ==
  ASSUME NEW cl, NEW c \in DOMAIN cl, DOMAIN cl[c] = ClassFields
  PROVE  SameButMembers(c, cl, WithVtable(WithFields(cl, c), c))
  <1> DEFINE offset == [i \in DOMAIN cl[c].offset |-> FixedOffset(cl, c, i)]
             size == cl[c].size + ParentSize(cl, c)
             fields == WithFields(cl, c)
  <1>1. fields = [cl EXCEPT ![c].offset = offset, ![c].size = size]
    BY DEF WithFields
  <1> HIDE DEF offset, size, fields
  <1>2. /\ DOMAIN fields = DOMAIN cl
        /\ \A d \in DOMAIN cl \ {c} : fields[d] = cl[d]
        /\ fields[c] = [[cl[c] EXCEPT !.offset = offset] EXCEPT !.size = size]
    BY <1>1
  <1>3. SameButMembers(c, cl, fields)
    BY <1>2 DEF SameButMembers, ClassFields
  <1>4. CASE IsInterface(c)
    <2>1. WithVtable(fields, c) = fields
      BY <1>4 DEF WithVtable
    <2>2. QED
      BY <1>3, <2>1 DEF fields
  <1>5. CASE ~IsInterface(c)
    <2> DEFINE index == VtableIndices(fields, c)
               vtable == Vtable(fields, c)
               new == WithVtable(fields, c)
    <2>1. new = [fields EXCEPT ![c].vtableIndex = index, ![c].vtable = vtable]
      BY <1>5 DEF WithVtable
    <2> HIDE DEF index, vtable, new
    <2>2. /\ DOMAIN new = DOMAIN cl
          /\ \A d \in DOMAIN cl \ {c} : new[d] = cl[d]
          /\ new[c] = [[fields[c] EXCEPT !.vtableIndex = index] EXCEPT !.vtable = vtable]
      BY <1>2, <2>1
    <2>3. SameButMembers(c, cl, new)
      BY <1>3, <2>2 DEF SameButMembers, ClassFields
    <2>4. QED
      BY <2>3 DEF new, fields
  <1>6. QED
    BY <1>4, <1>5

LEMMA FixupMembersKeeps ==
  ASSUME IInv, FixupMembers
  PROVE  IInv'
  <1> DEFINE all == [k \in DOMAIN Implements |-> k]
  <1>1. /\ session.step = "fixup" /\ session.step \in Later /\ UNCHANGED <<files, table>>
        /\ class' = WithVtable(WithFields(class, ToLink), ToLink)
        /\ session' = [session EXCEPT !.step = "itable", !.left = all]
    BY DEF FixupMembers, Later, Implements
  <1>2. /\ DOMAIN session = DOMAIN Idle /\ session.ancestry # <<>> /\ session.count \in Nat
        /\ ClassesIn(class, table)
        /\ DOMAIN Implements \in {1..n : n \in Nat}
        /\ \A k \in DOMAIN Implements : Implements[k].interface \in DOMAIN class \cup {NoClass}
    BY <1>1, LaterFacts DEF LinkingOne
  <1>3. all \in Seq(DOMAIN Implements) /\ \A k \in DOMAIN Implements : k \in ToSet(all)
    <2>1. \A k \in DOMAIN Implements : k \in ToSet(all)
      BY DEF ToSet
    <2>2. PICK n \in Nat : DOMAIN Implements = 1..n
      BY <1>2
    <2>3. QED
      BY <2>1, <2>2
  <1> HIDE DEF all
  <1>4. /\ DOMAIN session' = DOMAIN Idle /\ session'.ancestry = session.ancestry
        /\ session'.step = "itable" /\ session'.count = session.count /\ session'.left = all
    BY <1>1, <1>2 DEF Idle
  <1>5. ToLink \in DOMAIN class /\ DOMAIN class[ToLink] = ClassFields
    BY <1>1, <1>2, ToLinkFacts
  <1>6. SameButMembers(ToLink, class, class')
    BY <1>1, <1>5, MembersKeep
  <1>7. /\ DOMAIN class' = DOMAIN class
        /\ \A c \in DOMAIN class : /\ DOMAIN class'[c] = ClassFields
                                   /\ class'[c].parent = class[c].parent
                                   /\ class'[c].linked = class[c].linked
                                   /\ class'[c].implements = class[c].implements
    <2>1. \A c \in DOMAIN class : DOMAIN class[c] = ClassFields
      BY <1>2 DEF ClassesIn, Shaped
    <2>2. QED
      BY <1>5, <1>6, <2>1 DEF SameButMembers
  <1>8. Shaped(class') /\ \A c \in DOMAIN class : SameInterfaces(class[c].implements, class'[c].implements)
    BY <1>2, <1>7 DEF ClassesIn, Shaped, SameInterfaces
  <1>9. class'[ToLink].implements = Implements
    BY <1>5, <1>7 DEF Implements
  <1>10. QED
    BY <1>1, <1>2, <1>3, <1>4, <1>7, <1>8, <1>9, BuildKeeps DEF Later

LEMMA FixupImplementationKeeps ==
  ASSUME IInv, FixupImplementation
  PROVE  IInv'
  <1> DEFINE k == Head(session.left)
             i == Implements[k].interface
  <1>1. CASE GoesAstray("crash")
    BY <1>1, AstrayKeeps DEF Astray
  <1>2. CASE ~GoesAstray("crash")
    <2> DEFINE indices == ImplementationIndices(class, ToLink, i)
               numbers == InterfaceIndices(class, i)
               half == [class EXCEPT ![ToLink].implements[k]["vtableIndex"] = indices]
    <2>1. /\ session.step = "itable" /\ session.step \in Later /\ UNCHANGED <<files, table>>
          /\ session.left # <<>> /\ i # NoClass
          /\ class' = [half EXCEPT ![i].interfaceIndex = numbers]
          /\ session' = [session EXCEPT !.left = Tail(@)]
      BY <1>2 DEF FixupImplementation, WithImplementation, Later, Implements
    <2> HIDE DEF indices, numbers, half
    <2>2. /\ DOMAIN session = DOMAIN Idle /\ session.ancestry # <<>> /\ session.count \in Nat
          /\ ClassesIn(class, table) /\ InterfacesIn(class, table)
          /\ DOMAIN Implements \in {1..n : n \in Nat}
          /\ \A j \in DOMAIN Implements : Implements[j].interface \in DOMAIN class \cup {NoClass}
          /\ session.left \in Seq(DOMAIN Implements)
          /\ \A j \in DOMAIN Implements :
               j \in ToSet(session.left) \/ Implements[j].interface \in InTable(table)
      BY <2>1, LaterFacts DEF LinkingOne
    <2>3. /\ DOMAIN session' = DOMAIN Idle /\ session'.ancestry = session.ancestry
          /\ session'.step = "itable" /\ session'.count = session.count
          /\ session'.left = Tail(session.left)
      BY <2>1, <2>2 DEF Idle
    <2>4. /\ k \in DOMAIN Implements /\ Tail(session.left) \in Seq(DOMAIN Implements)
          /\ ToSet(session.left) = {k} \cup ToSet(Tail(session.left))
      BY <2>1, <2>2, HeadFacts
    <2>5. i \in DOMAIN class /\ i \in InTable(table)
      <3>1. i \in DOMAIN class
        BY <2>1, <2>2, <2>4
      <3>2. IsInterface(i)
        BY <1>2 DEF FixupImplementation, Implements
      <3>3. QED
        BY <2>2, <3>1, <3>2 DEF InterfacesIn
    <2> HIDE DEF k, i
    <2>6. Changes(k, "vtableIndex", indices, half)
      BY <2>1, <2>2, <2>4, ImplementationKeeps DEF half
    <2>7. /\ DOMAIN half = DOMAIN class /\ Shaped(half)
          /\ \A c \in DOMAIN class : half[c].parent = class[c].parent /\ half[c].linked = class[c].linked
          /\ \A c \in DOMAIN class : SameInterfaces(class[c].implements, half[c].implements)
      <3>1. SameInterfaces(Implements, half[ToLink].implements)
        BY <2>6 DEF Changes, SameInterfaces
      <3>2. QED
        BY <2>6, <3>1 DEF Changes, ClassFields, SameInterfaces, Implements
    <2>8. /\ DOMAIN class' = DOMAIN class
          /\ \A c \in DOMAIN class \ {i} : class'[c] = half[c]
          /\ class'[i] = [half[i] EXCEPT !.interfaceIndex = numbers]
      BY <2>1, <2>5, <2>7
    <2>9. \A c \in DOMAIN class : /\ DOMAIN class'[c] = ClassFields
                                  /\ class'[c].parent = half[c].parent
                                  /\ class'[c].linked = half[c].linked
                                  /\ class'[c].implements = half[c].implements
      <3>1. \A c \in DOMAIN class : DOMAIN half[c] = ClassFields
        BY <2>7 DEF Shaped
      <3>2. QED
        BY <2>5, <2>8, <3>1 DEF ClassFields
    <2>10. Shaped(class')
      BY <2>7, <2>8, <2>9 DEF Shaped
    <2>11. \A c \in DOMAIN class :
             /\ class'[c].parent = class[c].parent /\ class'[c].linked = class[c].linked
             /\ SameInterfaces(class[c].implements, class'[c].implements)
      BY <2>7, <2>9
    <2>12. SameInterfaces(Implements, class'[ToLink].implements)
      BY <2>1, <2>2, <2>11, ToLinkFacts DEF Implements
    <2>13. \A j \in DOMAIN Implements :
             j \in ToSet(Tail(session.left)) \/ Implements[j].interface \in InTable(table)
      BY <2>2, <2>4, <2>5 DEF i
    <2>14. /\ DOMAIN class'[ToLink].implements \in {1..n : n \in Nat}
           /\ \A j \in DOMAIN class'[ToLink].implements :
                class'[ToLink].implements[j].interface \in DOMAIN class \cup {NoClass}
           /\ session'.left \in Seq(DOMAIN class'[ToLink].implements)
           /\ \A j \in DOMAIN class'[ToLink].implements :
                \/ j \in ToSet(session'.left)
                \/ class'[ToLink].implements[j].interface \in InTable(table)
      BY <2>2, <2>3, <2>4, <2>12, <2>13 DEF SameInterfaces
    <2>15. QED
      BY <2>1, <2>2, <2>3, <2>8, <2>10, <2>11, <2>14, BuildKeeps DEF Later
  <1>3. QED
    BY <1>1, <1>2

LEMMA FixupFailsKeeps ==
  ASSUME IInv, FixupFails
  PROVE  IInv'
  <1>1. /\ session.step \in Later /\ files' = files /\ table' = table
        /\ Fail(class, table', links)
    BY DEF FixupFails, TableAfterFailure, Later
  <1>2. QED
    BY <1>1, LaterFacts, FailKeeps

----------------------------------------------------------------------------
(* Publication of the classes *)

\* A class that is linked is published, and refers to what is published.
LEMMA PublicationKeeps ==
  ASSUME files \in Worlds, NEW cl, NEW tbl, NEW new, NEW c,
         ClassesIn(cl, tbl), ClosedIn(cl, tbl, {}),
         IsPair(c), NameOf(c) \in Names, tbl[NameOf(c)] = NoClass,
         DOMAIN new = DOMAIN cl \cup {c}, \A d \in DOMAIN cl \ {c} : new[d] = cl[d],
         DOMAIN new[c] = ClassFields, new[c].linked,
         \A k \in DOMAIN new[c].implements :
           /\ DOMAIN new[c].implements[k] = {"interface", "vtableIndex"}
           /\ new[c].implements[k].interface \in InTable(tbl),
         new[c].parent \in InTable(tbl) \cup {NoClass},
         new[c].parent # NoClass =>
           ~IsInterface(new[c].parent) /\ NameOf(new[c].parent) = FileOf(c).super
  PROVE  LET published == [tbl EXCEPT ![NameOf(c)] = c]
         IN  /\ InTable(published) = InTable(tbl) \cup {c}
             /\ ClassesIn(new, published) /\ ClosedIn(new, published, {})
             /\ InterfacesIn(cl, tbl) => InterfacesIn(new, published)
  <1> DEFINE published == [tbl EXCEPT ![NameOf(c)] = c]
  <1>1. c # NoClass /\ DOMAIN tbl = Names
    BY PairFacts DEF ClassesIn
  <1>2. /\ DOMAIN published = Names
        /\ \A n \in Names : published[n] = IF n = NameOf(c) THEN c ELSE tbl[n]
    BY <1>1
  <1> HIDE DEF published
  <1>3. InTable(published) = InTable(tbl) \cup {c}
    BY <1>1, <1>2 DEF InTable
  <1>4. \A d \in InTable(tbl) : d \in DOMAIN cl /\ d # c /\ new[d] = cl[d]
    <2>1. \A d \in InTable(tbl) : d \in DOMAIN cl /\ tbl[NameOf(d)] = d /\ d # NoClass
      BY TableFacts DEF InTable
    <2>2. QED
      BY <1>1, <2>1
  <1>5. Shaped(new)
    <2>1. Shaped(cl)
      BY DEF ClassesIn
    <2>2. \A d \in DOMAIN new : d = c \/ d \in DOMAIN cl \ {c}
      OBVIOUS
    <2>3. ASSUME NEW d \in DOMAIN cl \ {c}
          PROVE  /\ DOMAIN new[d] = ClassFields
                 /\ \A k \in DOMAIN new[d].implements :
                      DOMAIN new[d].implements[k] = {"interface", "vtableIndex"}
      BY <2>1 DEF Shaped
    <2>4. QED
      BY <2>2, <2>3 DEF Shaped
  <1>6. ClassesIn(new, published)
    <2>1. IsFiniteSet(DOMAIN new)
      BY FS_AddElement DEF ClassesIn
    <2>2. \A d \in DOMAIN new : d = c \/ d \in DOMAIN cl \ {c}
      OBVIOUS
    <2>3. ASSUME NEW d \in DOMAIN new
          PROVE  /\ IsPair(d) /\ NameOf(d) \in Names
                 /\ new[d].parent # NoClass =>
                      /\ new[d].parent \in DOMAIN new
                      /\ ~IsInterface(new[d].parent)
                      /\ NameOf(new[d].parent) = FileOf(d).super
                 /\ new[d].linked => published[NameOf(d)] = d
      <3>1. CASE d = c
        BY <1>2, <1>4, <3>1
      <3>2. CASE d # c
        <4>1. d \in DOMAIN cl /\ new[d] = cl[d]
          BY <2>2, <3>2
        <4>2. cl[d].linked => tbl[NameOf(d)] = d /\ d # NoClass
          BY <4>1, PairFacts DEF ClassesIn
        <4>3. cl[d].linked => published[NameOf(d)] = d
          BY <1>2, <4>1, <4>2 DEF ClassesIn
        <4>4. QED
          BY <4>1, <4>3 DEF ClassesIn
      <3>3. QED
        BY <3>1, <3>2
    <2>4. ASSUME NEW n \in Names, published[n] # NoClass
          PROVE  published[n] \in DOMAIN new /\ NameOf(published[n]) = n /\ new[published[n]].linked
      <3>1. CASE n = NameOf(c)
        BY <1>2, <3>1
      <3>2. CASE n # NameOf(c)
        <4>1. published[n] = tbl[n] /\ tbl[n] \in InTable(tbl)
          BY <1>2, <2>4, <3>2 DEF InTable
        <4>2. QED
          BY <1>4, <2>4, <4>1 DEF ClassesIn
      <3>3. QED
        BY <3>1, <3>2
    <2>5. QED
      BY <1>2, <1>5, <2>1, <2>3, <2>4 DEF ClassesIn
  <1>7. ClosedIn(new, published, {})
    <2>1. ASSUME NEW d \in InTable(tbl)
          PROVE  /\ \A k \in DOMAIN new[d].implements :
                      new[d].implements[k].interface \in InTable(published)
                 /\ new[d].parent \in InTable(published) \cup {NoClass} \/ IsInterface(d)
      BY <1>3, <1>4 DEF ClosedIn
    <2>2. QED
      BY <1>3, <2>1 DEF ClosedIn
  <1>8. InterfacesIn(cl, tbl) => InterfacesIn(new, published)
    BY <1>3 DEF InterfacesIn
  <1>9. QED
    BY <1>3, <1>6, <1>7, <1>8 DEF published

LEMMA LinkedFacts ==
  ASSUME NEW cl, NEW c \in DOMAIN cl, DOMAIN cl[c] = ClassFields
  PROVE  LET new == WithLinked(cl, c)
         IN  /\ DOMAIN new = DOMAIN cl /\ \A d \in DOMAIN cl \ {c} : new[d] = cl[d]
             /\ DOMAIN new[c] = ClassFields /\ new[c].linked = TRUE
             /\ new[c].parent = cl[c].parent /\ new[c].implements = cl[c].implements
  <1> DEFINE new == [cl EXCEPT ![c].linked = TRUE]
  <1>1. /\ DOMAIN new = DOMAIN cl /\ \A d \in DOMAIN cl \ {c} : new[d] = cl[d]
        /\ new[c] = [cl[c] EXCEPT !.linked = TRUE]
    OBVIOUS
  <1> HIDE DEF new
  <1>2. /\ DOMAIN new[c] = ClassFields /\ new[c].linked = TRUE
        /\ new[c].parent = cl[c].parent /\ new[c].implements = cl[c].implements
    BY <1>1 DEF ClassFields
  <1>3. QED
    BY <1>1, <1>2 DEF new, WithLinked

\* The class object changes nothing here.
LEMMA ObjectKeeps ==
  ASSUME NEW cl, NEW tbl, NEW c \in DOMAIN cl, ClassesIn(cl, tbl), ClosedIn(cl, tbl, {})
  PROVE  LET new == WithObject(cl, c)
         IN  /\ DOMAIN new = DOMAIN cl
             /\ \A d \in DOMAIN cl : new[d].linked = cl[d].linked /\ new[d].parent = cl[d].parent
             /\ ClassesIn(new, tbl) /\ ClosedIn(new, tbl, {})
             /\ InterfacesIn(cl, tbl) => InterfacesIn(new, tbl)
  <1> DEFINE new == [cl EXCEPT ![c].object = TRUE]
  <1>1. DOMAIN cl[c] = ClassFields
    BY DEF ClassesIn, Shaped
  <1>2. /\ DOMAIN new = DOMAIN cl /\ \A d \in DOMAIN cl \ {c} : new[d] = cl[d]
        /\ new[c] = [cl[c] EXCEPT !.object = TRUE]
    OBVIOUS
  <1> HIDE DEF new
  <1>3. \A d \in DOMAIN cl : /\ DOMAIN new[d] = DOMAIN cl[d]
                             /\ new[d].parent = cl[d].parent /\ new[d].linked = cl[d].linked
                             /\ new[d].implements = cl[d].implements
    BY <1>1, <1>2 DEF ClassFields
  <1>4. Shaped(new)
    BY <1>2, <1>3 DEF ClassesIn, Shaped
  <1>5. ClassesIn(new, tbl) /\ (InterfacesIn(cl, tbl) => InterfacesIn(new, tbl))
    BY <1>2, <1>3, <1>4, OthersKeep
  <1>6. ClosedIn(new, tbl, {})
    BY <1>3, TableFacts, ClosedKeeps DEF SameInterfaces
  <1>7. QED
    BY <1>2, <1>3, <1>5, <1>6 DEF new, WithObject

LEMMA SameMembersKeep ==
  ASSUME NEW cl, NEW tbl, NEW c \in DOMAIN cl, NEW new, ClassesIn(cl, tbl), SameButMembers(c, cl, new)
  PROVE  /\ DOMAIN new = DOMAIN cl
         /\ \A d \in DOMAIN cl : /\ DOMAIN new[d] = ClassFields
                                 /\ new[d].parent = cl[d].parent /\ new[d].linked = cl[d].linked
                                 /\ new[d].implements = cl[d].implements
         /\ ClassesIn(new, tbl)
         /\ ClosedIn(cl, tbl, {}) => ClosedIn(new, tbl, {})
  <1>1. Shaped(cl) /\ \A d \in DOMAIN cl : DOMAIN cl[d] = ClassFields
    BY DEF ClassesIn, Shaped
  <1>2. /\ DOMAIN new = DOMAIN cl
        /\ \A d \in DOMAIN cl : /\ DOMAIN new[d] = ClassFields
                                /\ new[d].parent = cl[d].parent /\ new[d].linked = cl[d].linked
                                /\ new[d].implements = cl[d].implements
    BY <1>1 DEF SameButMembers
  <1>3. Shaped(new)
    BY <1>1, <1>2 DEF Shaped
  <1>4. ClassesIn(new, tbl)
    BY <1>2, <1>3, OthersKeep
  <1>5. ClosedIn(cl, tbl, {}) => ClosedIn(new, tbl, {})
    BY <1>2, TableFacts, ClosedKeeps DEF SameInterfaces
  <1>6. QED
    BY <1>2, <1>4, <1>5

\* No class is its own superclass.
LEMMA AncestorsDiffer ==
  ASSUME files \in Worlds, ClassesIn(class, table), Ancestry,
         NEW j \in DOMAIN session.ancestry, j # 1
  PROVE  session.ancestry[j] # session.ancestry[1]
  <1> DEFINE a == session.ancestry
             S == {NameOf(a[i]) : i \in 1..j - 1}
  <1> SUFFICES ASSUME a[j] = a[1]
               PROVE  FALSE
    OBVIOUS
  <1>1. /\ a \in Seq(DOMAIN class) /\ \A k \in DOMAIN a : k # 1 => class[a[k]].parent = a[k - 1]
    BY DEF Ancestry
  <1>2. j \in Nat /\ j > 1 /\ 1..j \subseteq DOMAIN a /\ \A k \in 1..j : a[k] \in DOMAIN class
    BY <1>1
  <1> HIDE DEF a
  <1>3. ASSUME NEW k \in 2..j
        PROVE  /\ k - 1 \in 1..j - 1
               /\ FileOf(a[k]).super = NameOf(a[k - 1]) /\ NameOf(a[k - 1]) \in DOMAIN files
    <2>1. k \in 1..j /\ k - 1 \in 1..j /\ k # 1 /\ k - 1 \in 1..j - 1
      BY <1>2
    <2>2. class[a[k]].parent = a[k - 1] /\ a[k] \in DOMAIN class /\ a[k - 1] \in DOMAIN class
      BY <1>1, <1>2, <2>1
    <2>3. a[k - 1] # NoClass /\ NameOf(a[k]) \in Names /\ NameOf(a[k - 1]) \in Names
      BY <2>2, PairFacts DEF ClassesIn
    <2>4. NameOf(a[k - 1]) = FileOf(a[k]).super
      BY <2>2, <2>3 DEF ClassesIn
    <2>5. NameOf(a[k - 1]) \in DOMAIN files
      BY <2>3, <2>4, FileFacts
    <2>6. QED
      BY <2>1, <2>4, <2>5
  <1>4. \A i \in 1..j - 1 : i + 1 \in 2..j /\ i + 1 - 1 = i
    BY <1>2
  <1>5. \A i \in 1..j - 1 : NameOf(a[i]) \in DOMAIN files
    BY <1>3, <1>4
  <1>6. \A i \in 1..j - 1 : files[NameOf(a[i])] = FileOf(a[i])
    BY <1>5, FileFacts DEF FileOf
  <1>7. \A i \in 1..j - 1 : files[NameOf(a[i])].super \in S
    <2>1. ASSUME NEW i \in 1..j - 1, i # 1
          PROVE  FileOf(a[i]).super \in S
      <3>1. i \in 2..j
        BY <1>2, <2>1
      <3>2. QED
        BY <1>3, <3>1
    <2>2. FileOf(a[1]).super \in S
      <3>1. j \in 2..j
        BY <1>2
      <3>2. FileOf(a[j]).super \in S
        BY <1>3, <3>1
      <3>3. QED
        BY <3>2 DEF a
    <2>3. QED
      BY <1>6, <2>1, <2>2
  <1>8. S # {} /\ S \in SUBSET DOMAIN files
    <2>1. 1 \in 1..j - 1
      BY <1>2
    <2>2. QED
      BY <1>5, <2>1
  <1>9. \E n \in S : files[n].super \notin S
    BY <1>8, LinkingAssumption
  <1>10. QED
    BY <1>7, <1>9

\* The class to be linked is linked and published.
LinkedIn(cl, tbl) ==
  /\ InTable(table) \cup {ToLink} \subseteq InTable(tbl)
  /\ DOMAIN class \subseteq DOMAIN cl
  /\ \A d \in DOMAIN class : /\ cl[d].parent = class[d].parent
                             /\ d # ToLink => cl[d].linked = class[d].linked
  /\ ClassesIn(cl, tbl) /\ ClosedIn(cl, tbl, {}) /\ InterfacesIn(cl, tbl)

LEMMA ToLinkPublished ==
  ASSUME IInv, MayBePublished, table[NameOf(ToLink)] = NoClass
  PROVE  /\ LinkedIn(WithLinked(class, ToLink), Published(ToLink))
         /\ DOMAIN WithLinked(class, ToLink) = DOMAIN class
         /\ session.step \in Later /\ session.ancestry # <<>>
         /\ ToLink \in DOMAIN class /\ files \in Worlds
  <1> DEFINE new == WithLinked(class, ToLink)
             tbl == [table EXCEPT ![NameOf(ToLink)] = ToLink]
  <1>1. session.step = "itable" /\ session.step \in Later /\ ToSet(session.left) = {}
    BY DEF MayBePublished, Later, ToSet
  <1>2. /\ files \in Worlds /\ ClassesIn(class, table) /\ ClosedIn(class, table, {})
        /\ InterfacesIn(class, table) /\ session.ancestry # <<>>
        /\ \A k \in DOMAIN Implements : Implements[k].interface \in InTable(table)
    BY <1>1, LaterFacts DEF LinkingOne
  <1>3. /\ ToLink \in DOMAIN class /\ DOMAIN class[ToLink] = ClassFields
        /\ IsPair(ToLink) /\ NameOf(ToLink) \in Names
        /\ class[ToLink].parent \in InTable(table) \cup {NoClass}
    BY <1>1, <1>2, ToLinkFacts
  <1>4. /\ DOMAIN new = DOMAIN class /\ \A d \in DOMAIN class \ {ToLink} : new[d] = class[d]
        /\ DOMAIN new[ToLink] = ClassFields /\ new[ToLink].linked = TRUE
        /\ new[ToLink].parent = class[ToLink].parent
        /\ new[ToLink].implements = class[ToLink].implements
    BY <1>3, LinkedFacts
  <1> HIDE DEF new
  <1>5. \A k \in DOMAIN new[ToLink].implements :
          /\ DOMAIN new[ToLink].implements[k] = {"interface", "vtableIndex"}
          /\ new[ToLink].implements[k].interface \in InTable(table)
    BY <1>2, <1>3, <1>4 DEF ClassesIn, Shaped, Implements
  <1>6. /\ new[ToLink].parent \in InTable(table) \cup {NoClass}
        /\ new[ToLink].parent # NoClass =>
             ~IsInterface(new[ToLink].parent) /\ NameOf(new[ToLink].parent) = FileOf(ToLink).super
    BY <1>2, <1>3, <1>4 DEF ClassesIn
  <1>7. /\ InTable(tbl) = InTable(table) \cup {ToLink}
        /\ ClassesIn(new, tbl) /\ ClosedIn(new, tbl, {})
        /\ InterfacesIn(class, table) => InterfacesIn(new, tbl)
    <2>1. DOMAIN new = DOMAIN class \cup {ToLink}
      BY <1>3, <1>4
    <2>2. QED
      BY <1>2, <1>3, <1>4, <1>5, <1>6, <2>1, PublicationKeeps
  <1>8. LinkedIn(new, tbl)
    BY <1>2, <1>4, <1>7 DEF LinkedIn
  <1>9. QED
    BY <1>1, <1>2, <1>3, <1>4, <1>8 DEF new, Published

\* The next class is the one whose superclass has just been linked.
LEMMA NextIsReady ==
  ASSUME IInv, session.step \in Later, session.ancestry # <<>>, files' = files,
         session' = [session EXCEPT !.ancestry = Tail(@), !.step = "link"],
         LinkedIn(class', table')
  PROVE  IInv'
  <1> DEFINE a == session.ancestry
             rest == Tail(a)
  <1>1. /\ files \in Worlds /\ DOMAIN session = DOMAIN Idle /\ ClassesIn(class, table) /\ Ancestry
    BY LaterFacts DEF LinkingOne
  <1>2. /\ session'.step = "link" /\ session'.ancestry = rest /\ DOMAIN session' = DOMAIN Idle
    BY <1>1 DEF Idle
  <1>3. ToLink = a[1]
    BY ToLinkFacts
  <1>4. a \in Seq(DOMAIN class)
    BY <1>1 DEF Ancestry
  <1>5. /\ rest \in Seq(DOMAIN class)
        /\ \A k \in DOMAIN rest : k \in Nat \ {0} /\ k + 1 \in DOMAIN a /\ rest[k] = a[k + 1]
        /\ \A k \in DOMAIN rest : k # 1 => k - 1 \in DOMAIN rest
        /\ rest # <<>> => 1 \in DOMAIN rest
    <2>1. /\ rest \in Seq(DOMAIN class)
          /\ \A k \in DOMAIN rest : k \in Nat \ {0} /\ k + 1 \in DOMAIN a /\ rest[k] = a[k + 1]
          /\ \A k \in DOMAIN rest : k # 1 => k - 1 \in DOMAIN rest
      <3>1. /\ rest \in Seq(DOMAIN class)
            /\ \A k \in DOMAIN rest : k + 1 \in DOMAIN a /\ rest[k] = a[k + 1]
        BY <1>4, HeadFacts
      <3> HIDE DEF rest
      <3>2. QED
        BY <3>1
    <2> HIDE DEF rest
    <2>2. rest # <<>> => 1 \in DOMAIN rest
      BY <2>1, HeadFacts
    <2>3. QED
      BY <2>1, <2>2
  <1>6. \A j \in DOMAIN a : j # 1 => a[j] # ToLink
    BY <1>1, <1>3, AncestorsDiffer
  <1> HIDE DEF a, rest
  <1>7. rest \in Seq(DOMAIN class')
    BY <1>5 DEF LinkedIn
  <1>8. ASSUME NEW k \in DOMAIN rest
        PROVE  /\ ~class'[rest[k]].linked /\ ~IsInterface(rest[k])
               /\ k # 1 => class'[rest[k]].parent = rest[k - 1]
    <2>1. k + 1 \in DOMAIN a /\ rest[k] = a[k + 1] /\ k + 1 # 1 /\ k + 1 - 1 = k
      BY <1>5
    <2>2. /\ ~class[a[k + 1]].linked /\ ~IsInterface(a[k + 1])
          /\ class[a[k + 1]].parent = a[k] /\ a[k + 1] \in DOMAIN class
      <3>1. \A j \in DOMAIN a : /\ ~class[a[j]].linked /\ ~IsInterface(a[j])
                                /\ j # 1 => class[a[j]].parent = a[j - 1]
                                /\ a[j] \in DOMAIN class
        BY <1>1, <1>4 DEF Ancestry, a
      <3>2. PICK m \in DOMAIN a : m = k + 1
        BY <2>1
      <3>3. m # 1 /\ m - 1 = k
        BY <2>1, <3>2
      <3>4. class[a[m]].parent = a[m - 1]
        BY <3>1, <3>3
      <3>5. QED
        BY <3>1, <3>2, <3>3, <3>4
    <2>3. a[k + 1] # ToLink
      BY <1>6, <2>1
    <2>4. k # 1 => rest[k - 1] = a[k]
      <3>1. k # 1 => k - 1 \in DOMAIN rest /\ k - 1 + 1 = k
        BY <1>5
      <3>2. QED
        BY <1>5, <3>1
    <2>5. QED
      BY <2>1, <2>2, <2>3, <2>4 DEF LinkedIn
  <1>9. Ancestry'
    BY <1>2, <1>7, <1>8 DEF Ancestry, IsInterface, FileOf
  <1>10. InTable(table)' = InTable(table') /\ (InterfacesIn(class, table)' <=> InterfacesIn(class', table'))
    BY FilesStay
  <1>11. rest # <<>> => class'[rest[1]].parent = ToLink
    <2>1. ASSUME rest # <<>>
          PROVE  class'[rest[1]].parent = ToLink
      <3>1. 2 \in DOMAIN a /\ rest[1] = a[2]
        BY <1>5, <2>1
      <3>2. class[a[2]].parent = a[1] /\ a[2] \in DOMAIN class
        BY <1>1, <1>4, <3>1 DEF Ancestry, a
      <3>3. QED
        BY <1>3, <3>1, <3>2 DEF LinkedIn, a
    <2>2. QED
      BY <2>1
  <1>12. FirstIsReady'
    BY <1>2, <1>10, <1>11 DEF FirstIsReady, LinkedIn
  <1>13. LinkingOne'
    BY <1>2, <1>9, <1>10, <1>12 DEF LinkingOne, LinkedIn
  <1>14. QED
    BY <1>1, <1>2, <1>13, Assemble DEF LinkedIn, Steps, Astray, Later

LEMMA FixupKeeps ==
  ASSUME IInv, Fixup
  PROVE  IInv'
  <1> DEFINE cl == WithLinked(class, ToLink)
  <1>1. /\ MayBePublished /\ table[NameOf(ToLink)] = NoClass
        /\ table' = Published(ToLink) /\ files' = files
        /\ \/ /\ class' = WithObject(cl, ToLink)
              /\ session' = [session EXCEPT !.ancestry = Tail(@), !.step = "link"]
           \/ Fail(cl, table', links)
    BY DEF Fixup
  <1>2. /\ LinkedIn(cl, table') /\ DOMAIN cl = DOMAIN class
        /\ session.step \in Later /\ session.ancestry # <<>>
        /\ ToLink \in DOMAIN class /\ files \in Worlds
    BY <1>1, ToLinkPublished
  <1> HIDE DEF cl
  <1>3. CASE Fail(cl, table', links)
    BY <1>1, <1>2, <1>3, FailKeeps DEF LinkedIn
  <1>4. CASE /\ class' = WithObject(cl, ToLink)
             /\ session' = [session EXCEPT !.ancestry = Tail(@), !.step = "link"]
    <2> DEFINE new == WithObject(cl, ToLink)
    <2>1. /\ DOMAIN new = DOMAIN cl
          /\ \A d \in DOMAIN cl : new[d].linked = cl[d].linked /\ new[d].parent = cl[d].parent
          /\ ClassesIn(new, table') /\ ClosedIn(new, table', {})
          /\ InterfacesIn(cl, table') => InterfacesIn(new, table')
      BY <1>2, ObjectKeeps DEF LinkedIn
    <2> HIDE DEF new
    <2>2. LinkedIn(new, table')
      BY <1>2, <2>1 DEF LinkedIn
    <2>3. LinkedIn(class', table')
      BY <1>4, <2>2 DEF new
    <2>4. QED
      BY <1>1, <1>2, <1>4, <2>3, NextIsReady
  <1>5. QED
    BY <1>1, <1>3, <1>4

\* java/lang/Class is converted, and linked under what java/lang/Object is then.
AddsJlClass(cl, tbl, j, new, published) ==
  /\ DOMAIN new = DOMAIN cl \cup {j}
  /\ \A d \in DOMAIN cl : new[d].parent = cl[d].parent /\ new[d].linked = cl[d].linked
  /\ InTable(published) = InTable(tbl) \cup {j}
  /\ ClassesIn(new, published) /\ ClosedIn(new, published, {}) /\ InterfacesIn(new, published)

\* What java/lang/Class is like when it is fixed up
IsChild(cl, tbl, j, child) ==
  /\ DOMAIN child = DOMAIN cl \cup {j} /\ \A d \in DOMAIN cl : child[d] = cl[d]
  /\ child[j].parent = tbl[Object] /\ child[j].implements = <<>>
  /\ \A f \in {"linked", "vtableIndex", "interfaceIndex", "offset", "size"} :
             child[j][f] = Converted(JlClass)[f]
  /\ tbl[Object] \in InTable(tbl) \cup {NoClass}
  /\ tbl[Object] # NoClass => ~IsInterface(tbl[Object]) /\ NameOf(tbl[Object]) = FileOf(j).super
  /\ ClassesIn(child, tbl) /\ ClosedIn(child, tbl, {})

LEMMA JlClassConverts ==
  ASSUME files \in Worlds, NEW cl, NEW tbl, NEW j, ClassesIn(cl, tbl), ClosedIn(cl, tbl, {}),
         IsPair(j), NameOf(j) = JlClass, j \notin DOMAIN cl
  PROVE  IsChild(cl, tbl, j, [WithConverted(cl, {j}) EXCEPT ![j].parent = tbl[Object]])
  <1> DEFINE converted == WithConverted(cl, {j})
             parent == tbl[Object]
             child == [converted EXCEPT ![j].parent = parent]
  <1>1. /\ Object \in Names /\ JlClass \in Names /\ FileOf(j).super = Object
        /\ \A c : NameOf(c) = Object => ~IsInterface(c)
    <2>1. Object \in Names /\ JlClass \in Names /\ FileOf(j).super = Object
      BY FileFacts DEF Names
    <2>2. \A c : NameOf(c) = Object => ~IsInterface(c)
      BY <2>1, FileFacts DEF Object, NoName
    <2>3. QED
      BY <2>1, <2>2
  <1>2. IsFiniteSet({j}) /\ {j} \cap DOMAIN cl = {} /\ \A c \in {j} : IsPair(c) /\ NameOf(c) \in Names
    BY <1>1, FS_Singleton
  <1>3. /\ DOMAIN converted = DOMAIN cl \cup {j}
        /\ \A d \in DOMAIN cl : converted[d] = cl[d]
        /\ \A d \in {j} : ~converted[d].linked
        /\ ClassesIn(converted, tbl) /\ ClosedIn(converted, tbl, {})
    BY <1>2, ConvertedKeeps
  <1>4. converted[j] = Converted(JlClass) /\ DOMAIN converted[j] = ClassFields
    BY <1>3 DEF WithConverted, Added, ClassesIn, Shaped
  <1>5. /\ parent \in InTable(tbl) \cup {NoClass}
        /\ parent # NoClass => /\ parent \in DOMAIN converted /\ ~IsInterface(parent)
                               /\ NameOf(parent) = FileOf(j).super
    BY <1>1, <1>3 DEF ClassesIn, InTable
  <1> HIDE DEF converted, parent
  <1>6. ClassesIn(child, tbl) /\ ClosedIn(child, tbl, {})
    BY <1>3, <1>5, ParentKeeps
  <1>7. /\ DOMAIN child = DOMAIN converted /\ \A d \in DOMAIN converted \ {j} : child[d] = converted[d]
        /\ child[j] = [converted[j] EXCEPT !.parent = parent]
    BY <1>3
  <1>8. Converted(JlClass).implements = <<>>
    BY DEF Converted
  <1> HIDE DEF child
  <1>9. /\ child[j].parent = parent /\ child[j].implements = <<>>
        /\ \A f \in {"linked", "vtableIndex", "interfaceIndex", "offset", "size"} :
             child[j][f] = Converted(JlClass)[f]
    BY <1>4, <1>7, <1>8 DEF ClassFields
  <1>10. IsChild(cl, tbl, j, child)
    BY <1>2, <1>3, <1>5, <1>6, <1>7, <1>9 DEF IsChild, parent
  <1>11. QED
    BY <1>10 DEF child, converted, parent

LEMMA JlClassKeeps ==
  ASSUME files \in Worlds, NEW cl, NEW tbl, NEW j,
         ClassesIn(cl, tbl), ClosedIn(cl, tbl, {}), InterfacesIn(cl, tbl),
         IsPair(j), NameOf(j) = JlClass, j \notin DOMAIN cl, tbl[JlClass] = NoClass
  PROVE  LET child == [WithConverted(cl, {j}) EXCEPT ![j].parent = tbl[Object]]
         IN  AddsJlClass(cl, tbl, j, WithObject(WithLinked(WithVtable(WithFields(child, j), j), j), j),
                         [tbl EXCEPT ![JlClass] = j])
  <1> DEFINE parent == tbl[Object]
             child == [WithConverted(cl, {j}) EXCEPT ![j].parent = tbl[Object]]
             fixed == WithVtable(WithFields(child, j), j)
             linked == WithLinked(fixed, j)
             new == WithObject(linked, j)
             published == [tbl EXCEPT ![JlClass] = j]
  <1>1. JlClass \in Names
    BY FileFacts DEF Names
  <1>2. IsChild(cl, tbl, j, child)
    BY JlClassConverts
  <1> HIDE DEF fixed, child, linked
  <1>3. /\ DOMAIN child = DOMAIN cl \cup {j} /\ \A d \in DOMAIN cl : child[d] = cl[d]
        /\ child[j].parent = parent /\ child[j].implements = <<>>
        /\ ClassesIn(child, tbl) /\ ClosedIn(child, tbl, {})
        /\ parent \in InTable(tbl) \cup {NoClass}
        /\ parent # NoClass => ~IsInterface(parent) /\ NameOf(parent) = FileOf(j).super
    BY <1>2 DEF IsChild
  <1> HIDE DEF parent
  <1>4. j \in DOMAIN child /\ DOMAIN child[j] = ClassFields
    BY <1>3 DEF ClassesIn, Shaped
  <1>5. SameButMembers(j, child, fixed)
    BY <1>4, MembersKeep DEF fixed
  <1>6. /\ DOMAIN fixed = DOMAIN child
        /\ \A d \in DOMAIN child : /\ DOMAIN fixed[d] = ClassFields
                                   /\ fixed[d].parent = child[d].parent
                                   /\ fixed[d].linked = child[d].linked
                                   /\ fixed[d].implements = child[d].implements
        /\ ClassesIn(fixed, tbl) /\ ClosedIn(fixed, tbl, {})
    <2>1. ClassesIn(child, tbl) /\ ClosedIn(child, tbl, {}) /\ j \in DOMAIN child
      BY <1>3, <1>4
    <2>2. QED
      BY <1>5, <2>1, SameMembersKeep
  <1>7. /\ DOMAIN linked = DOMAIN fixed /\ \A d \in DOMAIN fixed \ {j} : linked[d] = fixed[d]
        /\ DOMAIN linked[j] = ClassFields /\ linked[j].linked = TRUE
        /\ linked[j].parent = fixed[j].parent /\ linked[j].implements = fixed[j].implements
    BY <1>4, <1>6, LinkedFacts DEF linked
  <1> HIDE DEF linked
  <1>8. linked[j].parent = parent /\ linked[j].implements = <<>>
    BY <1>3, <1>4, <1>6, <1>7
  <1>9. /\ InTable(published) = InTable(tbl) \cup {j}
        /\ ClassesIn(linked, published) /\ ClosedIn(linked, published, {})
        /\ InterfacesIn(fixed, tbl) => InterfacesIn(linked, published)
    <2>1. DOMAIN linked = DOMAIN fixed \cup {j}
      BY <1>4, <1>6, <1>7
    <2>2. \A k \in DOMAIN linked[j].implements :
            /\ DOMAIN linked[j].implements[k] = {"interface", "vtableIndex"}
            /\ linked[j].implements[k].interface \in InTable(tbl)
      BY <1>8
    <2>3. NameOf(j) \in Names /\ tbl[NameOf(j)] = NoClass
      BY <1>1
    <2>4. /\ linked[j].parent \in InTable(tbl) \cup {NoClass}
          /\ linked[j].parent # NoClass =>
               ~IsInterface(linked[j].parent) /\ NameOf(linked[j].parent) = FileOf(j).super
      BY <1>3, <1>8
    <2> DEFINE p == [tbl EXCEPT ![NameOf(j)] = j]
    <2>5. /\ InTable(p) = InTable(tbl) \cup {j}
          /\ ClassesIn(linked, p) /\ ClosedIn(linked, p, {})
          /\ InterfacesIn(fixed, tbl) => InterfacesIn(linked, p)
      BY <1>6, <1>7, <2>1, <2>2, <2>3, <2>4, PublicationKeeps
    <2>6. published = p
      OBVIOUS
    <2> HIDE DEF p, published
    <2>7. QED
      BY <2>5, <2>6
  <1> HIDE DEF published
  <1>10. InterfacesIn(linked, published)
    BY <1>3, <1>6, <1>7, <1>9 DEF InterfacesIn
  <1>11. /\ DOMAIN new = DOMAIN linked
         /\ \A d \in DOMAIN linked : new[d].linked = linked[d].linked /\ new[d].parent = linked[d].parent
         /\ ClassesIn(new, published) /\ ClosedIn(new, published, {})
         /\ InterfacesIn(linked, published) => InterfacesIn(new, published)
    <2>1. j \in DOMAIN linked
      BY <1>4, <1>6, <1>7
    <2>2. QED
      BY <1>9, <2>1, ObjectKeeps
  <1> HIDE DEF new
  <1>12. DOMAIN new = DOMAIN cl \cup {j}
    BY <1>3, <1>6, <1>7, <1>11
  <1>13. ASSUME NEW d \in DOMAIN cl
         PROVE  new[d].parent = cl[d].parent /\ new[d].linked = cl[d].linked
    <2>1. d # j /\ d \in DOMAIN child /\ d \in DOMAIN fixed /\ d \in DOMAIN linked
      BY <1>3, <1>6, <1>7
    <2>2. linked[d].parent = cl[d].parent /\ linked[d].linked = cl[d].linked
      BY <1>3, <1>6, <1>7, <2>1
    <2>3. QED
      BY <1>3, <1>11, <2>1, <2>2
  <1>14. QED
    <2>1. AddsJlClass(cl, tbl, j, new, published)
      BY <1>9, <1>10, <1>11, <1>12, <1>13 DEF AddsJlClass
    <2>2. QED
      BY <2>1 DEF new, linked, fixed, child, published

\* So is java/lang/Class with the first class that is published.
LEMMA FirstPublished ==
  ASSUME IInv, MayBePublished, table[NameOf(ToLink)] = NoClass, Published(ToLink)[JlClass] = NoClass
  PROVE  LET j == Fresh(JlClass)
         IN  LinkedIn(WithObject(WithJlClass(WithLinked(class, ToLink), j), ToLink),
                      [Published(ToLink) EXCEPT ![JlClass] = j])
  <1> DEFINE j == Fresh(JlClass)
             cl == WithLinked(class, ToLink)
             tbl == Published(ToLink)
             both == WithJlClass(cl, j)
             published == [tbl EXCEPT ![JlClass] = j]
             child == [WithConverted(cl, {j}) EXCEPT ![j].parent = tbl[Object]]
             new == WithObject(both, ToLink)
  <1>1. /\ LinkedIn(cl, tbl) /\ DOMAIN cl = DOMAIN class /\ session.step \in Later
        /\ ToLink \in DOMAIN class /\ files \in Worlds
    BY ToLinkPublished
  <1>2. IsPair(j) /\ NameOf(j) = JlClass /\ j \notin DOMAIN class
    BY <1>1, LaterFacts, FreshFacts DEF ClassesIn
  <1>3. both = WithObject(WithLinked(WithVtable(WithFields(child, j), j), j), j)
    BY DEF WithJlClass
  <1>4. tbl[JlClass] = NoClass
    OBVIOUS
  <1> HIDE DEF j, cl, tbl, both, published
  <1>5. AddsJlClass(cl, tbl, j, both, published)
    <2>1. /\ ClassesIn(cl, tbl) /\ ClosedIn(cl, tbl, {}) /\ InterfacesIn(cl, tbl)
          /\ j \notin DOMAIN cl
      BY <1>1, <1>2 DEF LinkedIn
    <2> DEFINE built == WithObject(WithLinked(WithVtable(WithFields(child, j), j), j), j)
    <2>2. AddsJlClass(cl, tbl, j, built, [tbl EXCEPT ![JlClass] = j])
      BY <1>1, <1>2, <1>4, <2>1, JlClassKeeps
    <2> HIDE DEF built
    <2>3. both = built
      BY <1>3 DEF built
    <2>4. QED
      BY <2>2, <2>3 DEF published
  <1>6. ToLink \in DOMAIN both
    BY <1>1, <1>5 DEF AddsJlClass
  <1>7. /\ DOMAIN new = DOMAIN both
        /\ \A d \in DOMAIN both : new[d].linked = both[d].linked /\ new[d].parent = both[d].parent
        /\ ClassesIn(new, published) /\ ClosedIn(new, published, {})
        /\ InterfacesIn(both, published) => InterfacesIn(new, published)
    BY <1>5, <1>6, ObjectKeeps DEF AddsJlClass
  <1> HIDE DEF new
  <1>8. LinkedIn(new, published)
    BY <1>1, <1>5, <1>7 DEF LinkedIn, AddsJlClass
  <1>9. QED
    BY <1>8 DEF new, both, published, cl, tbl, j

LEMMA FixupFirstKeeps ==
  ASSUME IInv, FixupFirst
  PROVE  IInv'
  <1> DEFINE j == Fresh(JlClass)
             cl == WithLinked(class, ToLink)
             tbl == Published(ToLink)
  <1>1. /\ MayBePublished /\ table[NameOf(ToLink)] = NoClass /\ files' = files
    BY DEF FixupFirst
  <1>2. /\ LinkedIn(cl, tbl) /\ session.step \in Later /\ session.ancestry # <<>> /\ files \in Worlds
    BY <1>1, ToLinkPublished
  <1>3. CASE table' = tbl /\ Fail(cl, table', links)
    <2> HIDE DEF cl, tbl
    <2>1. ClassesIn(cl, table') /\ ClosedIn(cl, table', {})
      BY <1>2, <1>3 DEF LinkedIn
    <2>2. QED
      BY <1>1, <1>2, <1>3, <2>1, FailKeeps
  <1>4. CASE /\ tbl[JlClass] = NoClass
             /\ table' = [tbl EXCEPT ![JlClass] = j]
             /\ class' = WithObject(WithJlClass(cl, j), ToLink)
             /\ session' = [session EXCEPT !.ancestry = Tail(@), !.step = "link"]
    <2>1. LinkedIn(class', table')
      BY <1>1, <1>4, FirstPublished
    <2>2. QED
      BY <1>1, <1>2, <1>4, <2>1, NextIsReady
  <1>5. QED
    BY <1>3, <1>4 DEF FixupFirst

LEMMA LinkedKeeps ==
  ASSUME IInv, Linked
  PROVE  IInv'
  <1>1. /\ session.step \in Later /\ files' = files /\ table' = table
        /\ End(class, table', links)
    BY DEF Linked, Later
  <1>2. QED
    BY <1>1, LaterFacts, FailKeeps

LEMMA LoadArrayKeeps ==
  ASSUME IInv, LoadArray
  PROVE  IInv'
  <1> DEFINE c == <<ArrayName, 1>>
             parent == table[Object]
             array == [Converted(Object) EXCEPT
                         !.parent = table[Object], !.linked = TRUE, !.object = TRUE,
                         !.vtable = class[table[Object]].vtable, !.vtableIndex = <<>>,
                         !.interfaceIndex = <<>>, !.offset = <<>>,
                         !.size = class[table[Object]].size]
             new == Added(class, {c}, LAMBDA d : array)
             tbl == [table EXCEPT ![ArrayName] = c]
  <1>1. /\ session.step = "idle" /\ table[ArrayName] = NoClass /\ parent # NoClass
        /\ class' = new /\ table' = tbl /\ files' = files /\ session' = session
    BY DEF LoadArray
  <1>2. /\ files \in Worlds /\ ClassesIn(class, table) /\ ClosedIn(class, table, {})
        /\ InterfacesIn(class, table) /\ DOMAIN session = DOMAIN Idle
    BY <1>1 DEF IInv, Session, Astray
  <1>3. /\ DOMAIN array = ClassFields /\ array.linked = TRUE /\ array.parent = parent
        /\ array.implements = <<>>
    BY DEF Converted, ClassFields
  <1> HIDE DEF array
  <1>4. /\ DOMAIN new = DOMAIN class \cup {c} /\ \A d \in DOMAIN class \ {c} : new[d] = class[d]
        /\ new[c] = array
    BY DEF Added
  <1>5. IsPair(c) /\ NameOf(c) = ArrayName /\ ArrayName \in Names /\ Object \in Names
    BY <1>2, FileFacts DEF IsPair, NameOf, Names
  <1> HIDE DEF c, new, parent
  <1>6. /\ FileOf(c).super = Object
        /\ \A d : NameOf(d) = Object => ~IsInterface(d)
    <2>1. FileOf(c).super = Object
      BY <1>2, <1>5, FileFacts
    <2>2. \A d : NameOf(d) = Object => ~IsInterface(d)
      BY <1>2, <1>5, FileFacts DEF Object, NoName
    <2>3. QED
      BY <2>1, <2>2
  <1>7. parent \in InTable(table) /\ NameOf(parent) = Object /\ ~IsInterface(parent)
    BY <1>1, <1>2, <1>5, <1>6 DEF ClassesIn, InTable, parent
  <1> DEFINE published == [table EXCEPT ![NameOf(c)] = c]
  <1>8. /\ ClassesIn(new, published) /\ ClosedIn(new, published, {})
        /\ InterfacesIn(class, table) => InterfacesIn(new, published)
    <2>1. \A k \in DOMAIN new[c].implements :
            /\ DOMAIN new[c].implements[k] = {"interface", "vtableIndex"}
            /\ new[c].implements[k].interface \in InTable(table)
      BY <1>3, <1>4
    <2>2. /\ DOMAIN new[c] = ClassFields /\ new[c].linked
          /\ new[c].parent \in InTable(table) \cup {NoClass}
          /\ new[c].parent # NoClass =>
               ~IsInterface(new[c].parent) /\ NameOf(new[c].parent) = FileOf(c).super
      BY <1>3, <1>4, <1>6, <1>7
    <2>3. NameOf(c) \in Names /\ table[NameOf(c)] = NoClass
      BY <1>1, <1>5
    <2>4. QED
      BY <1>2, <1>4, <1>5, <2>1, <2>2, <2>3, PublicationKeeps
  <1>9. table' = published
    BY <1>1, <1>5
  <1> HIDE DEF published
  <1>10. ClassesIn(class', table') /\ ClosedIn(class', table', {}) /\ InterfacesIn(class', table')
    BY <1>1, <1>2, <1>8, <1>9
  <1>11. QED
    BY <1>1, <1>2, <1>10, Assemble DEF Steps, Astray, Later

----------------------------------------------------------------------------
(* The theorems *)

LEMMA InitHolds ==
  ASSUME Init
  PROVE  IInv
  <1>1. /\ files \in Worlds /\ class = <<>> /\ table = [n \in Names |-> NoClass] /\ session = Idle
    BY DEF Init
  <1>2. DOMAIN class = {} /\ DOMAIN table = Names /\ \A n \in Names : table[n] = NoClass
    BY <1>1
  <1>3. InTable(table) = {}
    BY <1>2 DEF InTable
  <1>4. ClassesIn(class, table)
    BY <1>2, FS_EmptySet DEF ClassesIn, Shaped
  <1>5. ClosedIn(class, table, {}) /\ InterfacesIn(class, table)
    BY <1>2, <1>3 DEF ClosedIn, InterfacesIn
  <1>6. session.step = "idle" /\ DOMAIN session = DOMAIN Idle
    BY <1>1 DEF Idle
  <1>7. QED
    BY <1>1, <1>4, <1>5, <1>6 DEF IInv, Session, AbortNeedsTwoCopies, Steps, Later

LEMMA NextKeeps ==
  ASSUME IInv, Next
  PROVE  IInv'
  <1>1. CASE SessionStep
    <2>1. CASE Discover
      BY <2>1, DiscoverKeeps
    <2>2. CASE DiscoverInterface
      BY <2>2, DiscoverInterfaceKeeps
    <2>3. CASE DiscoverFails
      BY <2>3, DiscoverFailsKeeps
    <2>4. CASE Discovered
      BY <2>4, DiscoveredKeeps
    <2>5. CASE ListAncestor
      BY <2>5, ListAncestorKeeps
    <2>6. CASE AncestorsListed
      BY <2>6, AncestorsListedKeeps
    <2>7. CASE PatchInterface
      BY <2>7, PatchInterfaceKeeps
    <2>8. CASE PatchEnd
      BY <2>8, PatchEndKeeps
    <2>9. CASE FlattenStart
      BY <2>9, FlattenStartKeeps
    <2>10. CASE ListRoot
      BY <2>10, ListRootKeeps
    <2>11. CASE RootsListed
      BY <2>11, RootsListedKeeps
    <2>12. CASE FlattenOne
      BY <2>12, FlattenOneKeeps
    <2>13. CASE ListExtended
      BY <2>13, ListExtendedKeeps
    <2>14. CASE ExtendedListed
      BY <2>14, ExtendedListedKeeps
    <2>15. CASE FlattenEnd
      BY <2>15, FlattenEndKeeps
    <2>16. CASE FillOne
      BY <2>16, FillOneKeeps
    <2>17. CASE Filled
      BY <2>17, FilledKeeps
    <2>18. CASE FixupMembers
      BY <2>18, FixupMembersKeeps
    <2>19. CASE FixupImplementation
      BY <2>19, FixupImplementationKeeps
    <2>20. CASE FixupFails
      BY <2>20, FixupFailsKeeps
    <2>21. CASE Fixup
      BY <2>21, FixupKeeps
    <2>22. CASE FixupFirst
      BY <2>22, FixupFirstKeeps
    <2>23. CASE Linked
      BY <2>23, LinkedKeeps
    <2>24. QED
      BY <1>1, <2>1, <2>2, <2>3, <2>4, <2>5, <2>6, <2>7, <2>8, <2>9, <2>10, <2>11, <2>12, <2>13,
         <2>14, <2>15, <2>16, <2>17, <2>18, <2>19, <2>20, <2>21, <2>22, <2>23 DEF SessionStep
  <1>2. CASE LoadArray
    BY <1>2, LoadArrayKeeps
  <1>3. ASSUME NEW name \in Names, NEW d \in Depths \cup {MainDepth}, Load(name, d)
        PROVE  IInv'
    BY <1>3, LoadKeeps
  <1>4. QED
    BY <1>1, <1>2, <1>3 DEF Next

LEMMA StutterKeeps ==
  ASSUME IInv, UNCHANGED vars
  PROVE  IInv'
  <1>1. UNCHANGED <<files, class, table, links, session>>
    BY DEF vars
  <1>2. Found' = Found /\ IfaceList' = IfaceList /\ InTable(table)' = InTable(table)
        /\ (\A c : IsInterface(c)' <=> IsInterface(c)) /\ (Listed' <=> Listed)
    <2>1. Found' = Found /\ IfaceList' = IfaceList /\ (Listed' <=> Listed)
      BY <1>1, StillListed
    <2>2. InTable(table)' = InTable(table)
      BY <1>1, FilesStay
    <2>3. \A c : IsInterface(c)' <=> IsInterface(c)
      BY <1>1 DEF IsInterface, FileOf
    <2>4. QED
      BY <2>1, <2>2, <2>3
  <1>3. /\ ClassesIn(class, table)' <=> ClassesIn(class, table)
        /\ InterfacesIn(class, table)' <=> InterfacesIn(class, table)
        /\ \A found : ClosedIn(class, table, found)' <=> ClosedIn(class, table, found)
    BY <1>1, FilesStay
  <1>4. Ancestry' <=> Ancestry
    BY <1>1, <1>2 DEF Ancestry
  <1>5. FirstIsReady' <=> FirstIsReady
    BY <1>1, <1>2 DEF FirstIsReady
  <1>6. Discovering => Discovering'
    BY <1>1, <1>2 DEF Discovering, NamedIn, Unpublished, Distinct, NameOf, FileOf
  <1>7. AllDiscovered => AllDiscovered'
    BY <1>1, <1>4, StillDiscovered DEF AllDiscovered
  <1>8. ListingAncestors => ListingAncestors'
    BY <1>1, <1>2, <1>5, <1>7 DEF ListingAncestors, Unpublished, NameOf
  <1>9. Patching => Patching'
    BY <1>1, <1>2, <1>5, <1>7 DEF Patching, Patched, NameOf
  <1>10. LinkingOne => LinkingOne'
    BY <1>1, <1>2, <1>3, <1>4, <1>5 DEF LinkingOne, Implements, ToLink
  <1>11. Session => Session'
    BY <1>1, <1>2, <1>3, <1>6, <1>8, <1>9, <1>10 DEF Session
  <1>12. AbortNeedsTwoCopies => AbortNeedsTwoCopies'
    BY <1>1, <1>2 DEF AbortNeedsTwoCopies, NameOf
  <1>13. QED
    BY <1>1, <1>11, <1>12 DEF IInv

\* Whatever is loaded, in whatever order and from whatever depth of the stack, and whatever
\* fails: the classes that are converted, published or listed in a session are those that the
\* code has reason to take them for, step by step.
THEOREM LinkingInductive == Spec => []IInv
  <1>1. Init => IInv
    BY InitHolds
  <1>2. IInv /\ [Next]_vars => IInv'
    BY NextKeeps, StutterKeeps
  <1>3. QED
    BY <1>1, <1>2, PTL DEF Spec

\* The assertion of classtable_put that a name is not taken (classtable.c) fails while
\* class_link publishes interfaces only if the session has converted one of them twice.
THEOREM AbortsForTwoCopies == Spec => []AbortNeedsTwoCopies
  <1>1. IInv => AbortNeedsTwoCopies
    BY DEF IInv
  <1>2. QED
    BY <1>1, LinkingInductive, PTL

\* Between sessions of class_link, also after failures: what is in the class table is linked,
\* and so are its interfaces and its superclass, but for the java/lang/Object of an interface.
THEOREM TableStaysClosed == Spec => []TableIsClosed
  <1>1. IInv => TableIsClosed
    <2> SUFFICES ASSUME IInv, session.step = "idle", NEW c \in Loaded
                 PROVE  /\ class[c].linked
                        /\ \A i \in DOMAIN class[c].implements :
                             class[c].implements[i].interface \in Loaded
                        /\ \/ class[c].parent \in Loaded \cup {NoClass}
                           \/ IsInterface(c) /\ NameOf(class[c].parent) = Object
      BY DEF TableIsClosed
    <2>1. files \in Worlds /\ ClassesIn(class, table) /\ ClosedIn(class, table, {})
      BY DEF IInv, Session, Astray
    <2>2. Loaded = InTable(table)
      BY DEF Loaded, InTable
    <2>3. c \in DOMAIN class /\ class[c].linked /\ NameOf(c) \in Names
      BY <2>1, <2>2, TableFacts
    <2>4. /\ \A i \in DOMAIN class[c].implements : class[c].implements[i].interface \in Loaded
          /\ class[c].parent \in Loaded \cup {NoClass} \/ IsInterface(c)
      BY <2>1, <2>2 DEF ClosedIn
    <2>5. IsInterface(c) /\ class[c].parent # NoClass => NameOf(class[c].parent) = Object
      BY <2>1, <2>3, FileFacts DEF ClassesIn
    <2>6. QED
      BY <2>3, <2>4, <2>5
  <1>2. QED
    BY <1>1, LinkingInductive, PTL

=============================================================================
