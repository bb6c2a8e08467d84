---------------------------- MODULE LayoutProofs ----------------------------
(***************************************************************************)
(* Proofs about what class_fixup of Linking lays out: a virtual call       *)
(* reaches the method it must reach, fields do not overlap, and nothing    *)
(* refers to a class that is gone.                                         *)
(***************************************************************************)
EXTENDS LinkingProofs

----------------------------------------------------------------------------
(* Chains of superclasses *)

Parents(cl) ==
  /\ NoClass \notin DOMAIN cl
  /\ \A c \in DOMAIN cl : cl[c].parent \in DOMAIN cl \cup {NoClass}
  /\ \A S \in SUBSET DOMAIN cl : S # {} => \E c \in S : cl[c].parent \notin S

\* The chain of c if that of its superclass is `above`
Below(cl, c, above) == IF cl[c].parent = NoClass THEN <<c>> ELSE <<c>> \o above

\* g is the chains of the classes of S, which has the superclasses of its classes.
ChainsOf(cl, S, g) ==
  /\ S \in SUBSET DOMAIN cl
  /\ \A c \in S : cl[c].parent \in S \cup {NoClass}
  /\ g = [c \in S |-> Below(cl, c, g[cl[c].parent])]

\* A superclass is known by the name in the class file, and class files are acyclic.
LEMMA ParentsAreAcyclic ==
  ASSUME files \in Worlds, NEW cl, NEW tbl, ClassesIn(cl, tbl)
  PROVE  Parents(cl)
  <1>1. NoClass \notin DOMAIN cl
    BY PairFacts DEF ClassesIn
  <1>2. \A c \in DOMAIN cl : cl[c].parent \in DOMAIN cl \cup {NoClass}
    BY DEF ClassesIn
  <1>3. ASSUME NEW S \in SUBSET DOMAIN cl, S # {}, \A c \in S : cl[c].parent \in S
        PROVE  FALSE
    <2> DEFINE N == {NameOf(c) : c \in S}
    <2>1. \A c \in S : /\ c \in DOMAIN cl /\ cl[c].parent \in DOMAIN cl /\ cl[c].parent # NoClass
                       /\ NameOf(c) \in Names /\ NameOf(cl[c].parent) = FileOf(c).super
                       /\ NameOf(cl[c].parent) \in Names
      BY <1>1, <1>3 DEF ClassesIn
    <2>2. \A c \in S : FileOf(c).super \in DOMAIN files
      BY <2>1, FileFacts
    <2>3. DEFINE M == N \cap DOMAIN files
    <2>4. M # {} /\ M \in SUBSET DOMAIN files
      <3>1. PICK c \in S : TRUE
        BY <1>3
      <3>2. NameOf(cl[c].parent) \in M
        BY <1>3, <2>1, <2>2
      <3>3. QED
        BY <3>2
    <2>5. \A n \in M : files[n].super \in M
      <3>1. ASSUME NEW c \in S, NameOf(c) \in DOMAIN files
            PROVE  files[NameOf(c)].super \in M
        <4>1. FileOf(c) = files[NameOf(c)]
          BY <3>1, FileFacts DEF FileOf
        <4>2. FileOf(c).super = NameOf(cl[c].parent) /\ cl[c].parent \in S
          BY <1>3, <2>1
        <4>3. QED
          BY <2>2, <4>1, <4>2
      <3>2. QED
        BY <3>1
    <2>6. \E n \in M : files[n].super \notin M
      BY <2>4, LinkingAssumption
    <2>7. QED
      BY <2>5, <2>6
  <1>4. QED
    BY <1>1, <1>2, <1>3 DEF Parents

\* A class has one chain.
LEMMA ChainIsUnique ==
  ASSUME NEW cl, Parents(cl), NEW S, NEW T, NEW g, NEW h, ChainsOf(cl, S, g), ChainsOf(cl, T, h)
  PROVE  \A c \in S \cap T : g[c] = h[c]
  <1> DEFINE bad == {c \in S \cap T : g[c] # h[c]}
  <1> SUFFICES ASSUME bad # {}
               PROVE  FALSE
    OBVIOUS
  <1>1. PICK c \in bad : cl[c].parent \notin bad
    BY DEF Parents, ChainsOf
  <1>2. g[c] = Below(cl, c, g[cl[c].parent]) /\ h[c] = Below(cl, c, h[cl[c].parent])
    BY <1>1 DEF ChainsOf
  <1>3. CASE cl[c].parent = NoClass
    BY <1>1, <1>2, <1>3 DEF Below
  <1>4. CASE cl[c].parent # NoClass
    <2>1. cl[c].parent \in S \cap T
      BY <1>1, <1>4 DEF ChainsOf
    <2>2. g[cl[c].parent] = h[cl[c].parent]
      BY <1>1, <2>1
    <2>3. QED
      BY <1>1, <1>2, <2>2
  <1>5. QED
    BY <1>3, <1>4

\* Every class has one.
LEMMA ChainsExist ==
  ASSUME NEW cl, Parents(cl)
  PROVE  \E g : ChainsOf(cl, DOMAIN cl, g)
  <1> DEFINE Has(c, v) == \E S, g : ChainsOf(cl, S, g) /\ c \in S /\ v = g[c]
             U == {c \in DOMAIN cl : \E v : Has(c, v)}
             f == [c \in U |-> CHOOSE v : Has(c, v)]
  <1>1. ASSUME NEW S, NEW g, ChainsOf(cl, S, g), NEW c \in S
        PROVE  c \in U /\ f[c] = g[c]
    <2>1. Has(c, g[c])
      BY <1>1
    <2>2. c \in U
      BY <1>1, <2>1 DEF ChainsOf
    <2>3. Has(c, f[c])
      BY <2>1, <2>2
    <2>4. PICK T, h : ChainsOf(cl, T, h) /\ c \in T /\ f[c] = h[c]
      BY <2>3
    <2>5. g[c] = h[c]
      BY <1>1, <2>4, ChainIsUnique
    <2>6. QED
      BY <2>2, <2>4, <2>5
  <1>2. \A c \in U : \E S, g : ChainsOf(cl, S, g) /\ c \in S
    OBVIOUS
  <1>3. U \in SUBSET DOMAIN cl /\ f = [c \in U |-> f[c]]
    OBVIOUS
  <1> HIDE DEF U, f, Has
  <1>4. ASSUME NEW c \in U
        PROVE  /\ cl[c].parent \in U \cup {NoClass}
               /\ f[c] = Below(cl, c, f[cl[c].parent])
    <2>1. PICK S, g : ChainsOf(cl, S, g) /\ c \in S
      BY <1>2
    <2>2. /\ f[c] = g[c] /\ g[c] = Below(cl, c, g[cl[c].parent])
          /\ cl[c].parent \in S \cup {NoClass}
      BY <1>1, <2>1 DEF ChainsOf
    <2>3. CASE cl[c].parent = NoClass
      BY <2>2, <2>3 DEF Below
    <2>4. CASE cl[c].parent # NoClass
      <3>1. cl[c].parent \in U /\ f[cl[c].parent] = g[cl[c].parent]
        BY <1>1, <2>1, <2>2, <2>4
      <3>2. QED
        BY <2>2, <3>1
    <2>5. QED
      BY <2>3, <2>4
  <1>5. ChainsOf(cl, U, f)
    <2>1. [c \in U |-> f[c]] = [c \in U |-> Below(cl, c, f[cl[c].parent])]
      BY <1>4
    <2>2. f = [c \in U |-> Below(cl, c, f[cl[c].parent])]
      BY <1>3, <2>1
    <2>3. QED
      BY <1>3, <1>4, <2>2 DEF ChainsOf
  <1>6. ASSUME U # DOMAIN cl
        PROVE  FALSE
    <2>1. PICK c \in DOMAIN cl \ U : cl[c].parent \notin DOMAIN cl \ U
      <3>1. DOMAIN cl \ U # {} /\ DOMAIN cl \ U \in SUBSET DOMAIN cl
        BY <1>3, <1>6
      <3>2. QED
        BY <3>1 DEF Parents
    <2>2. cl[c].parent \in U \cup {NoClass}
      BY <2>1 DEF Parents
    <2> DEFINE T == U \cup {c}
               h == [d \in T |-> Below(cl, d, f[cl[d].parent])]
    <2>3. \A d \in U : h[d] = f[d]
      BY <1>4
    <2>4. ASSUME NEW d \in T
          PROVE  /\ cl[d].parent \in T \cup {NoClass}
                 /\ h[d] = Below(cl, d, h[cl[d].parent])
      <3>1. cl[d].parent \in U \cup {NoClass} /\ h[d] = Below(cl, d, f[cl[d].parent])
        BY <1>4, <2>2
      <3>2. CASE cl[d].parent = NoClass
        BY <3>1, <3>2 DEF Below
      <3>3. CASE cl[d].parent # NoClass
        BY <2>3, <3>1, <3>3
      <3>4. QED
        BY <3>1, <3>2, <3>3
    <2>5. T \in SUBSET DOMAIN cl /\ h = [d \in T |-> h[d]]
      BY <1>3
    <2> HIDE DEF h
    <2>6. h = [d \in T |-> Below(cl, d, h[cl[d].parent])]
      <3>1. [d \in T |-> h[d]] = [d \in T |-> Below(cl, d, h[cl[d].parent])]
        BY <2>4
      <3>2. QED
        BY <2>5, <3>1
    <2>7. ChainsOf(cl, T, h)
      BY <2>4, <2>5, <2>6 DEF ChainsOf
    <2>8. c \in U
      BY <1>1, <2>7
    <2>9. QED
      BY <2>1, <2>8
  <1>7. QED
    BY <1>5, <1>6

\* The chain of a class is the class and the chain of its superclass.
LEMMA ChainFacts ==
  ASSUME NEW cl, Parents(cl)
  PROVE  /\ \A c \in DOMAIN cl : Chain(cl, c) = Below(cl, c, Chain(cl, cl[c].parent))
         /\ \A c \in DOMAIN cl : Chain(cl, c) \in Seq(DOMAIN cl)
  <1> DEFINE up == CHOOSE g : g = [d \in DOMAIN cl |->
                     IF cl[d].parent = NoClass THEN <<d>> ELSE <<d>> \o g[cl[d].parent]]
  <1>1. \A c : Chain(cl, c) = up[c]
    BY DEF Chain
  <1>2. \E g : g = [d \in DOMAIN cl |->
                     IF cl[d].parent = NoClass THEN <<d>> ELSE <<d>> \o g[cl[d].parent]]
    BY ChainsExist DEF ChainsOf, Below
  <1>3. up = [d \in DOMAIN cl |->
                     IF cl[d].parent = NoClass THEN <<d>> ELSE <<d>> \o up[cl[d].parent]]
    BY <1>2
  <1> HIDE DEF up
  <1>4. \A c \in DOMAIN cl : Chain(cl, c) = Below(cl, c, Chain(cl, cl[c].parent))
    BY <1>1, <1>3 DEF Below
  <1> DEFINE bad == {c \in DOMAIN cl : Chain(cl, c) \notin Seq(DOMAIN cl)}
  <1>5. ASSUME bad # {}
        PROVE  FALSE
    <2>1. PICK c \in bad : cl[c].parent \notin bad
      BY <1>5 DEF Parents
    <2>2. Chain(cl, c) = Below(cl, c, Chain(cl, cl[c].parent))
      BY <1>4
    <2>3. CASE cl[c].parent = NoClass
      <3>1. <<c>> \in Seq(DOMAIN cl)
        BY <2>1
      <3>2. QED
        BY <2>1, <2>2, <2>3, <3>1 DEF Below
    <2>4. CASE cl[c].parent # NoClass
      <3>1. Chain(cl, cl[c].parent) \in Seq(DOMAIN cl)
        BY <2>1, <2>4 DEF Parents
      <3>2. <<c>> \o Chain(cl, cl[c].parent) \in Seq(DOMAIN cl)
        BY <3>1, ConsFacts
      <3>3. QED
        BY <2>1, <2>2, <2>4, <3>2 DEF Below
    <2>5. QED
      BY <2>3, <2>4
  <1>6. QED
    BY <1>4, <1>5

\* The chain of a class of a set that has the superclasses of its classes stays in the set.
LEMMA ChainStaysIn ==
  ASSUME NEW cl, Parents(cl), NEW P \in SUBSET DOMAIN cl,
         \A c \in P : cl[c].parent \in P \cup {NoClass}
  PROVE  \A c \in P : ToSet(Chain(cl, c)) \subseteq P /\ Chain(cl, c) \in Seq(P)
  <1> DEFINE bad == {c \in P : Chain(cl, c) \notin Seq(P)}
  <1>1. ASSUME bad # {}
        PROVE  FALSE
    <2>1. PICK c \in bad : cl[c].parent \notin bad
      BY <1>1 DEF Parents
    <2>2. Chain(cl, c) = Below(cl, c, Chain(cl, cl[c].parent))
      BY ChainFacts
    <2>3. CASE cl[c].parent = NoClass
      <3>1. <<c>> \in Seq(P)
        BY <2>1
      <3>2. QED
        BY <2>1, <2>2, <2>3, <3>1 DEF Below
    <2>4. CASE cl[c].parent # NoClass
      <3>1. Chain(cl, cl[c].parent) \in Seq(P)
        BY <2>1, <2>4
      <3>2. <<c>> \o Chain(cl, cl[c].parent) \in Seq(P)
        BY <3>1, ConsFacts
      <3>3. QED
        BY <2>1, <2>2, <2>4, <3>2 DEF Below
    <2>5. QED
      BY <2>3, <2>4
  <1>2. \A c \in P : Chain(cl, c) \in Seq(P)
    BY <1>1
  <1>3. \A q \in Seq(P) : ToSet(q) \subseteq P
    BY DEF ToSet
  <1>4. QED
    BY <1>2, <1>3

\* It is the same as long as the superclasses of the set are.
LEMMA ChainKeeps ==
  ASSUME NEW cl, Parents(cl), NEW new, Parents(new), NEW P \in SUBSET DOMAIN cl,
         P \subseteq DOMAIN new,
         \A c \in P : cl[c].parent \in P \cup {NoClass} /\ new[c].parent = cl[c].parent
  PROVE  \A c \in P : Chain(new, c) = Chain(cl, c)
  <1> DEFINE bad == {c \in P : Chain(new, c) # Chain(cl, c)}
  <1> SUFFICES ASSUME bad # {}
               PROVE  FALSE
    OBVIOUS
  <1>1. PICK c \in bad : cl[c].parent \notin bad
    BY DEF Parents
  <1>2. /\ Chain(cl, c) = Below(cl, c, Chain(cl, cl[c].parent))
        /\ Chain(new, c) = Below(new, c, Chain(new, cl[c].parent))
    BY <1>1, ChainFacts
  <1>3. CASE cl[c].parent = NoClass
    BY <1>1, <1>2, <1>3 DEF Below
  <1>4. CASE cl[c].parent # NoClass
    <2>1. Chain(new, cl[c].parent) = Chain(cl, cl[c].parent)
      BY <1>1, <1>4
    <2>2. QED
      BY <1>1, <1>2, <2>1 DEF Below
  <1>5. QED
    BY <1>3, <1>4

\* The first element of a list, or else of the rest
LEMMA LeastShifts ==
  ASSUME NEW S \in SUBSET Nat, NEW R \in SUBSET Nat, 1 \notin S, R # {},
         \A k \in Nat : k \in R <=> k + 1 \in S, 0 \notin S
  PROVE  Least(S) = Least(R) + 1 /\ Least(R) \in R
  <1>1. Least(R) \in R /\ \A j \in R : Least(R) <= j
    BY LeastNumber DEF Least
  <1>2. \A j \in S : j - 1 \in Nat /\ j - 1 \in R
    BY SMT
  <1>3. PICK m \in Nat : m = Least(R)
    BY <1>1
  <1>4. m + 1 \in S
    BY <1>1, <1>3
  <1>5. \A j \in S : m + 1 <= j
    <2>1. TAKE j \in S
    <2>2. m <= j - 1 /\ j \in Nat
      BY <1>1, <1>2, <1>3
    <2>3. QED
      BY <2>2
  <1>6. \A k \in S : (\A j \in S : k <= j) => k = m + 1
    <2>1. TAKE k \in S
    <2>2. k \in Nat /\ m + 1 <= k
      BY <1>5
    <2>3. QED
      BY <1>4, <2>2
  <1>7. Least(S) = m + 1
    BY <1>4, <1>5, <1>6 DEF Least
  <1>8. QED
    BY <1>1, <1>3, <1>7

LEMMA LeastIsOne ==
  ASSUME NEW S \in SUBSET Nat, 1 \in S, 0 \notin S
  PROVE  Least(S) = 1
  <1>1. \A j \in S : 1 <= j
    OBVIOUS
  <1>2. \A k \in S : (\A j \in S : k <= j) => k = 1
    BY <1>1
  <1>3. QED
    BY <1>1, <1>2 DEF Least

\* The first class of H from c up
FirstIn(cl, c, H) ==
  LET chain == Chain(cl, c)
      having == {k \in DOMAIN chain : chain[k] \in H}
  IN  IF having = {} THEN NoClass ELSE chain[Least(having)]

\* It is the class, or the first from its superclass up.
LEMMA FirstFacts ==
  ASSUME NEW cl, Parents(cl), NEW c \in DOMAIN cl, NEW H
  PROVE  FirstIn(cl, c, H) =
           IF c \in H THEN c
           ELSE IF cl[c].parent = NoClass THEN NoClass
           ELSE FirstIn(cl, cl[c].parent, H)
  <1> DEFINE chain == Chain(cl, c)
             above == Chain(cl, cl[c].parent)
             having == {k \in DOMAIN chain : chain[k] \in H}
             rest == {k \in DOMAIN above : above[k] \in H}
  <1>1. FirstIn(cl, c, H) = IF having = {} THEN NoClass ELSE chain[Least(having)]
    BY DEF FirstIn
  <1>2. cl[c].parent # NoClass =>
          FirstIn(cl, cl[c].parent, H) = IF rest = {} THEN NoClass ELSE above[Least(rest)]
    BY DEF FirstIn
  <1>3. chain = Below(cl, c, above) /\ chain \in Seq(DOMAIN cl)
        /\ (cl[c].parent # NoClass => above \in Seq(DOMAIN cl))
    BY ChainFacts DEF Parents
  <1>4. /\ chain[1] = c /\ 1 \in DOMAIN chain
        /\ \A k \in DOMAIN chain : k # 1 =>
             cl[c].parent # NoClass /\ k - 1 \in DOMAIN above /\ chain[k] = above[k - 1]
        /\ cl[c].parent # NoClass => \A k \in DOMAIN above : k + 1 \in DOMAIN chain /\ chain[k + 1] = above[k]
    <2>1. CASE cl[c].parent = NoClass
      <3>1. chain = <<c>>
        BY <1>3, <2>1 DEF Below
      <3>2. QED
        BY <2>1, <3>1
    <2>2. CASE cl[c].parent # NoClass
      <3>1. chain = <<c>> \o above /\ above \in Seq(DOMAIN cl)
        BY <1>3, <2>2 DEF Below
      <3> HIDE DEF above
      <3>2. Len(above) \in Nat /\ DOMAIN above = 1..Len(above)
        BY <3>1
      <3>3. /\ DOMAIN chain = 1..Len(above) + 1 /\ chain[1] = c
            /\ \A k \in 2..Len(above) + 1 : chain[k] = above[k - 1]
        BY <3>1
      <3>4. QED
        BY <2>2, <3>2, <3>3
    <2>3. QED
      BY <2>1, <2>2
  <1>5. /\ DOMAIN chain \in SUBSET Nat /\ 0 \notin DOMAIN chain
        /\ cl[c].parent # NoClass => DOMAIN above \in SUBSET Nat
    BY <1>3
  <1> HIDE DEF chain, above
  <1>6. CASE c \in H
    <2>1. 1 \in having
      BY <1>4, <1>6
    <2>2. Least(having) = 1
      BY <1>5, <2>1, LeastIsOne
    <2>3. QED
      BY <1>1, <1>4, <1>6, <2>1, <2>2
  <1>7. CASE c \notin H /\ cl[c].parent = NoClass
    BY <1>1, <1>4, <1>7
  <1>8. CASE c \notin H /\ cl[c].parent # NoClass
    <2>1. \A k \in Nat : k \in rest <=> k + 1 \in having
      <3>1. ASSUME NEW k \in rest
            PROVE  k + 1 \in having
        BY <1>4, <1>8
      <3>2. ASSUME NEW k \in Nat, k + 1 \in having
            PROVE  k \in rest
        <4>1. k + 1 # 1 /\ k + 1 - 1 = k
          BY <1>4, <1>8, <3>2, <1>5
        <4>2. QED
          BY <1>4, <3>2, <4>1
      <3>3. QED
        BY <3>1, <3>2
    <2>2. 1 \notin having
      BY <1>4, <1>8
    <2>3. CASE rest = {}
      <3>1. having = {}
        <4>1. \A k \in having : k - 1 \in Nat /\ k - 1 + 1 = k
          BY <1>5
        <4>2. QED
          BY <2>1, <2>3, <4>1
      <3>2. QED
        BY <1>1, <1>2, <1>8, <2>3, <3>1
    <2>4. CASE rest # {}
      <3>1. Least(having) = Least(rest) + 1 /\ Least(rest) \in rest
        BY <1>5, <1>8, <2>1, <2>2, <2>4, LeastShifts
      <3>2. chain[Least(having)] = above[Least(rest)]
        BY <1>4, <1>8, <3>1
      <3>3. having # {}
        BY <1>5, <1>8, <2>1, <2>4
      <3>4. QED
        BY <1>1, <1>2, <1>8, <2>4, <3>2, <3>3
    <2>5. QED
      BY <2>3, <2>4
  <1>9. QED
    BY <1>6, <1>7, <1>8

\* It is one of the chain, if there is one.
LEMMA FirstIsIn ==
  ASSUME NEW cl, Parents(cl), NEW c \in DOMAIN cl, NEW H
  PROVE  /\ FirstIn(cl, c, H) # NoClass => FirstIn(cl, c, H) \in H \cap ToSet(Chain(cl, c))
         /\ FirstIn(cl, c, H) = NoClass => H \cap ToSet(Chain(cl, c)) = {}
  <1> DEFINE chain == Chain(cl, c)
             having == {k \in DOMAIN chain : chain[k] \in H}
  <1>1. FirstIn(cl, c, H) = IF having = {} THEN NoClass ELSE chain[Least(having)]
    BY DEF FirstIn
  <1>2. chain \in Seq(DOMAIN cl)
    BY ChainFacts
  <1>3. \A k \in DOMAIN chain : chain[k] \in DOMAIN cl /\ chain[k] # NoClass
    BY <1>2 DEF Parents
  <1>4. having \in SUBSET Nat
    BY <1>2
  <1>5. having # {} => Least(having) \in having
    BY <1>4, LeastNumber DEF Least
  <1> HIDE DEF chain
  <1>6. ToSet(chain) = {chain[k] : k \in DOMAIN chain}
    BY DEF ToSet
  <1>7. QED
    BY <1>1, <1>3, <1>5, <1>6 DEF chain

\* The most derived method is the class's own, or that of its superclass.
LEMMA DerivedFacts ==
  ASSUME NEW cl, Parents(cl), NEW c \in DOMAIN cl, NEW name
  PROVE  MostDerived(cl, c, name) =
           IF name \in VirtualNames(c) THEN <<c, MethodNumber(c, name)>>
           ELSE IF cl[c].parent = NoClass THEN NoMethod
           ELSE MostDerived(cl, cl[c].parent, name)
  <1> DEFINE H == {d \in DOMAIN cl : name \in VirtualNames(d)}
             Of(d) == IF d = NoClass THEN NoMethod ELSE <<d, MethodNumber(d, name)>>
  <1>1. ASSUME NEW d \in DOMAIN cl
        PROVE  MostDerived(cl, d, name) = Of(FirstIn(cl, d, H))
    <2> DEFINE chain == Chain(cl, d)
               having == {k \in DOMAIN chain : name \in VirtualNames(chain[k])}
    <2>1. chain \in Seq(DOMAIN cl) /\ NoClass \notin DOMAIN cl
      BY ChainFacts DEF Parents
    <2>2. \A k \in DOMAIN chain : chain[k] \in DOMAIN cl /\ chain[k] # NoClass
      BY <2>1
    <2>3. having = {k \in DOMAIN chain : chain[k] \in H} /\ having \in SUBSET Nat
      BY <2>1, <2>2
    <2>4. having # {} => Least(having) \in having
      BY <2>3, LeastNumber DEF Least
    <2>5. FirstIn(cl, d, H) = IF having = {} THEN NoClass ELSE chain[Least(having)]
      BY <2>3 DEF FirstIn
    <2>6. MostDerived(cl, d, name) =
            IF having = {} THEN NoMethod
            ELSE <<chain[Least(having)], MethodNumber(chain[Least(having)], name)>>
      BY DEF MostDerived
    <2> HIDE DEF chain, having
    <2>7. QED
      BY <2>2, <2>3, <2>4, <2>5, <2>6 DEF having
  <1>2. FirstIn(cl, c, H) = IF c \in H THEN c
                           ELSE IF cl[c].parent = NoClass THEN NoClass
                           ELSE FirstIn(cl, cl[c].parent, H)
    BY FirstFacts
  <1>3. /\ cl[c].parent # NoClass => cl[c].parent \in DOMAIN cl
        /\ c # NoClass /\ (c \in H <=> name \in VirtualNames(c))
    BY DEF Parents
  <1> HIDE DEF H
  <1>4. QED
    BY <1>1, <1>2, <1>3

----------------------------------------------------------------------------
(* Numbering *)

Rank(S, i) == Cardinality({j \in S : j <= i})

\* The elements of a set of numbers are numbered from 1 on without a gap.
LEMMA Ranks ==
  ASSUME NEW n \in Nat, NEW S \in SUBSET (1..n)
  PROVE  /\ Cardinality(S) \in Nat
         /\ \A i \in S : Rank(S, i) \in 1..Cardinality(S)
         /\ \A i, j \in S : Rank(S, i) = Rank(S, j) => i = j
         /\ \A k \in 1..Cardinality(S) : \E i \in S : Rank(S, i) = k
  <1> DEFINE upTo(i) == {j \in S : j <= i}
             rank == [i \in S |-> Rank(S, i)]
  <1>1. IsFiniteSet(S)
    <2>1. 1 \in Int /\ n \in Int
      OBVIOUS
    <2>2. IsFiniteSet(1..n)
      BY <2>1, FS_Interval
    <2>3. QED
      BY <2>2, FS_Subset
  <1>2. \A i : IsFiniteSet(upTo(i)) /\ Cardinality(upTo(i)) \in Nat /\ Cardinality(upTo(i)) <= Cardinality(S)
    <2>1. TAKE i
    <2>2. upTo(i) \in SUBSET S
      OBVIOUS
    <2>3. QED
      BY <1>1, <2>2, FS_Subset, FS_CardinalityType
  <1>3. Cardinality(S) \in Nat
    BY <1>1, FS_CardinalityType
  <1>4. \A i \in S : Rank(S, i) = Cardinality(upTo(i))
    BY DEF Rank
  <1>5. ASSUME NEW i \in S
        PROVE  Rank(S, i) \in 1..Cardinality(S)
    <2>1. i \in upTo(i)
      OBVIOUS
    <2>2. Cardinality(upTo(i)) # 0
      BY <1>2, <2>1, FS_EmptySet
    <2>3. QED
      BY <1>2, <1>3, <1>4, <2>2
  <1>6. ASSUME NEW i \in S, NEW j \in S, i < j
        PROVE  Rank(S, i) # Rank(S, j)
    <2>1. i \in Nat /\ j \in Nat /\ \A k \in S : k \in Nat
      OBVIOUS
    <2>2. j <= j /\ ~(j <= i) /\ \A k \in S : k <= i => k <= j
      BY <1>6, <2>1
    <2>3. upTo(i) \in SUBSET upTo(j) /\ j \in upTo(j) /\ j \notin upTo(i)
      BY <2>2
    <2>4. Cardinality(upTo(j)) # Cardinality(upTo(i))
      BY <1>2, <2>3, FS_Subset
    <2>5. QED
      BY <1>4, <2>4
  <1>7. \A i, j \in S : Rank(S, i) = Rank(S, j) => i = j
    <2>1. \A i, j \in S : i # j => i < j \/ j < i
      OBVIOUS
    <2>2. QED
      BY <1>6, <2>1
  <1>8. \A k \in 1..Cardinality(S) : \E i \in S : Rank(S, i) = k
    <2> DEFINE T == 1..Cardinality(S)
    <2>1. rank \in [S -> T]
      BY <1>5
    <2>2. rank \in Injection(S, T)
      BY <1>7, <2>1 DEF Injection, IsInjective
    <2>3. IsFiniteSet(T) /\ Cardinality(T) = Cardinality(S)
      BY <1>3, FS_Interval
    <2> HIDE DEF T
    <2>4. rank \in Surjection(S, T)
      BY <2>2, <2>3, FS_Injection
    <2>5. QED
      BY <2>4 DEF Surjection, T
  <1>9. QED
    BY <1>3, <1>5, <1>7, <1>8

\* No two methods of a class have one name, so that a name leads back to its method.
LEMMA MethodFacts ==
  ASSUME files \in Worlds, NEW c, NameOf(c) \in Names
  PROVE  /\ \E n \in Nat : DOMAIN FileOf(c).methods = 1..n
         /\ \A i \in Virtuals(c) : /\ FileOf(c).methods[i].name \in VirtualNames(c)
                                   /\ MethodNumber(c, FileOf(c).methods[i].name) = i
         /\ \A name \in VirtualNames(c) :
              /\ MethodNumber(c, name) \in Virtuals(c)
              /\ FileOf(c).methods[MethodNumber(c, name)].name = name
  <1> DEFINE m == FileOf(c).methods
  <1>1. /\ \E n \in Nat : DOMAIN m = 1..n
        /\ \A i, j \in DOMAIN m : m[i].name = m[j].name => i = j
    <2>1. CASE NameOf(c) = ArrayName
      <3>1. m = <<>>
        BY <2>1 DEF FileOf
      <3>2. DOMAIN m = 1..0
        BY <3>1
      <3>3. QED
        BY <3>2
    <2>2. CASE NameOf(c) # ArrayName
      <3>1. m = files[NameOf(c)].methods /\ NameOf(c) \in DOMAIN files
        BY <2>2 DEF FileOf, Names
      <3>2. QED
        BY <3>1, LinkingAssumption
    <2>3. QED
      BY <2>1, <2>2
  <1>2. \A i \in DOMAIN m : MethodNumber(c, m[i].name) = i
    BY <1>1 DEF MethodNumber
  <1>3. /\ Virtuals(c) \subseteq DOMAIN m
        /\ \A i \in Virtuals(c) : m[i].name \in VirtualNames(c)
        /\ \A name \in VirtualNames(c) : \E i \in Virtuals(c) : m[i].name = name
    BY DEF Virtuals, VirtualNames
  <1>4. QED
    BY <1>1, <1>2, <1>3

----------------------------------------------------------------------------
(* Vtables *)

\* The vtable of c is right: entry k is the most derived method of its name and has index k,
\* and each method of c and its superclasses has the index of an entry of its name.
VtableIn(cl, c) ==
  /\ cl[c].vtable \in Seq(ToSet(cl[c].vtable))
  /\ \A k \in DOMAIN cl[c].vtable :
       LET m == cl[c].vtable[k]
       IN  /\ m[1] \in ToSet(Chain(cl, c)) /\ m[2] \in Virtuals(m[1])
           /\ m = MostDerived(cl, c, MethodName(m))
           /\ cl[m[1]].vtableIndex[m[2]] = k
  /\ \A d \in ToSet(Chain(cl, c)) : \A i \in Virtuals(d) :
       LET k == cl[d].vtableIndex[i]
       IN  k \in DOMAIN cl[c].vtable /\ MethodName(cl[c].vtable[k]) = FileOf(d).methods[i].name

\* No two entries have the same name.
LEMMA EntriesDiffer ==
  ASSUME NEW cl, NEW c, VtableIn(cl, c), NEW k \in DOMAIN cl[c].vtable, NEW l \in DOMAIN cl[c].vtable,
         MethodName(cl[c].vtable[k]) = MethodName(cl[c].vtable[l])
  PROVE  k = l
  <1>1. cl[c].vtable[k] = cl[c].vtable[l]
    BY DEF VtableIn
  <1>2. QED
    BY <1>1 DEF VtableIn

\* class_find_vtable_method finds the entry of a name, if there is one.
LEMMA FindFacts ==
  ASSUME NEW vtable, vtable \in Seq(ToSet(vtable)), NEW name
  PROVE  /\ (\A k \in DOMAIN vtable : MethodName(vtable[k]) # name) =>
              FindVtableMethod(vtable, name) = NoMethod
         /\ (\E k \in DOMAIN vtable : MethodName(vtable[k]) = name) =>
              \E k \in DOMAIN vtable : /\ MethodName(vtable[k]) = name
                                       /\ FindVtableMethod(vtable, name) = vtable[k]
  <1> DEFINE having == {k \in DOMAIN vtable : MethodName(vtable[k]) = name}
  <1>1. FindVtableMethod(vtable, name) = IF having = {} THEN NoMethod ELSE vtable[Least(having)]
    BY DEF FindVtableMethod
  <1>2. ASSUME having # {}
        PROVE  Least(having) \in having
    <2>1. having \in SUBSET Nat
      OBVIOUS
    <2>2. QED
      BY <1>2, <2>1, LeastNumber DEF Least
  <1>3. QED
    BY <1>1, <1>2

\* What a class overrides and what it adds
LEMMA OverriddenFacts ==
  ASSUME files \in Worlds, NEW cl, NEW tbl, ClassesIn(cl, tbl), NEW c \in DOMAIN cl,
         cl[c].parent # NoClass => VtableIn(cl, cl[c].parent)
  PROVE  LET parent == ParentVtable(cl, c)
             Name(i) == FileOf(c).methods[i].name
         IN  /\ parent \in Seq(ToSet(parent)) /\ Len(parent) \in Nat /\ DOMAIN parent = 1..Len(parent)
             /\ \A k \in DOMAIN parent : parent[k] # NoMethod
             /\ NewMethods(cl, c) \subseteq Virtuals(c)
             /\ \A i \in NewMethods(cl, c) : \A k \in DOMAIN parent : MethodName(parent[k]) # Name(i)
             /\ \A i \in Virtuals(c) \ NewMethods(cl, c) :
                  /\ VtableIndex(cl, c, i) \in DOMAIN parent
                  /\ MethodName(parent[VtableIndex(cl, c, i)]) = Name(i)
             /\ \A k, l \in DOMAIN parent : MethodName(parent[k]) = MethodName(parent[l]) => k = l
  <1> DEFINE p == cl[c].parent
             parent == ParentVtable(cl, c)
             Name(i) == FileOf(c).methods[i].name
  <1>1. /\ parent \in Seq(ToSet(parent)) /\ Len(parent) \in Nat /\ DOMAIN parent = 1..Len(parent)
        /\ \A k, l \in DOMAIN parent : MethodName(parent[k]) = MethodName(parent[l]) => k = l
        /\ \A k \in DOMAIN parent : /\ parent[k] # NoMethod
                                    /\ cl[parent[k][1]].vtableIndex[parent[k][2]] = k
    <2>1. CASE p = NoClass
      <3>1. parent = <<>>
        BY <2>1 DEF ParentVtable
      <3>2. QED
        BY <3>1
    <2>2. CASE p # NoClass
      <3>1. parent = cl[p].vtable /\ VtableIn(cl, p)
        BY <2>2 DEF ParentVtable
      <3>2. p \in DOMAIN cl /\ Parents(cl)
        BY <2>2, ParentsAreAcyclic DEF ClassesIn
      <3>3. ToSet(Chain(cl, p)) \subseteq DOMAIN cl
        BY <3>2, ChainFacts DEF ToSet
      <3> HIDE DEF parent, p
      <3>4. \A k \in DOMAIN parent : /\ parent[k][1] \in DOMAIN cl
                                     /\ cl[parent[k][1]].vtableIndex[parent[k][2]] = k
        BY <3>1, <3>3 DEF VtableIn
      <3>5. NoMethod[1] = NoClass /\ NoClass \notin DOMAIN cl
        BY <3>2 DEF NoMethod, Parents
      <3>6. parent \in Seq(ToSet(parent))
        BY <3>1 DEF VtableIn
      <3>7. \A k, l \in DOMAIN parent : MethodName(parent[k]) = MethodName(parent[l]) => k = l
        BY <3>1, EntriesDiffer
      <3>8. Len(parent) \in Nat /\ DOMAIN parent = 1..Len(parent)
        BY <3>6
      <3>9. \A k \in DOMAIN parent : parent[k] # NoMethod
        BY <3>4, <3>5
      <3>10. QED
        BY <3>4, <3>6, <3>7, <3>8, <3>9
    <2>3. QED
      BY <2>1, <2>2
  <1>2. \A i : Overridden(cl, c, i) = FindVtableMethod(parent, Name(i))
    BY DEF Overridden
  <1>3. NewMethods(cl, c) = {i \in Virtuals(c) : Overridden(cl, c, i) = NoMethod}
    BY DEF NewMethods
  <1>4. ASSUME NEW i \in NewMethods(cl, c), NEW k \in DOMAIN parent, MethodName(parent[k]) = Name(i)
        PROVE  FALSE
    <2>1. \E j \in DOMAIN parent : FindVtableMethod(parent, Name(i)) = parent[j]
      BY <1>1, <1>4, FindFacts
    <2>2. QED
      BY <1>1, <1>2, <1>3, <2>1
  <1>5. ASSUME NEW i \in Virtuals(c) \ NewMethods(cl, c)
        PROVE  /\ VtableIndex(cl, c, i) \in DOMAIN parent
               /\ MethodName(parent[VtableIndex(cl, c, i)]) = Name(i)
    <2>1. Overridden(cl, c, i) # NoMethod
      BY <1>3
    <2>2. PICK k \in DOMAIN parent : MethodName(parent[k]) = Name(i) /\ Overridden(cl, c, i) = parent[k]
      BY <1>1, <1>2, <2>1, FindFacts
    <2>3. VtableIndex(cl, c, i) = k
      BY <1>1, <2>1, <2>2 DEF VtableIndex
    <2>4. QED
      BY <2>2, <2>3
  <1>6. QED
    BY <1>1, <1>3, <1>4, <1>5

\* Overriding methods have the indices of what they override, others those after them.
LEMMA IndexFacts ==
  ASSUME files \in Worlds, NEW cl, NEW tbl, ClassesIn(cl, tbl), NEW c \in DOMAIN cl,
         cl[c].parent # NoClass => VtableIn(cl, cl[c].parent)
  PROVE  LET L == Len(ParentVtable(cl, c))
             size == L + Cardinality(NewMethods(cl, c))
         IN  /\ L \in Nat /\ size \in Nat /\ L <= size
             /\ \A i \in Virtuals(c) : VtableIndex(cl, c, i) \in 1..size
             /\ \A i \in NewMethods(cl, c) : VtableIndex(cl, c, i) > L
             /\ \A i, j \in Virtuals(c) : VtableIndex(cl, c, i) = VtableIndex(cl, c, j) => i = j
             /\ \A k \in 1..size : k > L => \E i \in NewMethods(cl, c) : VtableIndex(cl, c, i) = k
  <1> DEFINE parent == ParentVtable(cl, c)
             L == Len(parent)
             New == NewMethods(cl, c)
             size == L + Cardinality(New)
             Name(i) == FileOf(c).methods[i].name
  <1>1. /\ L \in Nat /\ DOMAIN parent = 1..L
        /\ New \subseteq Virtuals(c)
        /\ \A i \in Virtuals(c) \ New : /\ VtableIndex(cl, c, i) \in DOMAIN parent
                                        /\ MethodName(parent[VtableIndex(cl, c, i)]) = Name(i)
    BY OverriddenFacts
  <1>2. NameOf(c) \in Names
    BY DEF ClassesIn
  <1>3. PICK n \in Nat : DOMAIN FileOf(c).methods = 1..n
    BY <1>2, MethodFacts
  <1>4. Virtuals(c) \subseteq 1..n
    BY <1>3 DEF Virtuals
  <1>5. /\ Cardinality(New) \in Nat
        /\ \A i \in New : Rank(New, i) \in 1..Cardinality(New)
        /\ \A i, j \in New : Rank(New, i) = Rank(New, j) => i = j
        /\ \A k \in 1..Cardinality(New) : \E i \in New : Rank(New, i) = k
    <2>1. New \in SUBSET (1..n)
      BY <1>1, <1>4
    <2> HIDE DEF New
    <2>2. QED
      BY <2>1, Ranks
  <1>6. \A i \in New : VtableIndex(cl, c, i) = L + Rank(New, i)
    <2>1. \A i \in New : Overridden(cl, c, i) = NoMethod
      BY DEF NewMethods
    <2>2. QED
      BY <2>1 DEF VtableIndex, Rank
  <1>7. \A i, j \in Virtuals(c) : Name(i) = Name(j) => i = j
    BY <1>2, MethodFacts
  <1>8. L \in Nat /\ size \in Nat /\ L <= size
    BY <1>1, <1>5
  <1> HIDE DEF parent, New, L
  <1>9. \A i \in New : VtableIndex(cl, c, i) \in 1..size /\ VtableIndex(cl, c, i) > L
    BY <1>1, <1>5, <1>6
  <1>10. \A i \in Virtuals(c) \ New : VtableIndex(cl, c, i) \in 1..size /\ ~(VtableIndex(cl, c, i) > L)
    BY <1>1, <1>5
  <1>11. ASSUME NEW i \in Virtuals(c), NEW j \in Virtuals(c), VtableIndex(cl, c, i) = VtableIndex(cl, c, j)
         PROVE  i = j
    <2>1. CASE i \in New /\ j \in New
      <3>1. Rank(New, i) = Rank(New, j)
        BY <1>1, <1>5, <1>6, <1>11, <2>1
      <3>2. QED
        BY <1>5, <2>1, <3>1
    <2>2. CASE i \notin New /\ j \notin New
      BY <1>1, <1>7, <1>11, <2>2
    <2>3. CASE (i \in New) # (j \in New)
      BY <1>9, <1>10, <1>11, <2>3
    <2>4. QED
      BY <2>1, <2>2, <2>3
  <1>12. ASSUME NEW k \in 1..size, k > L
         PROVE  \E i \in New : VtableIndex(cl, c, i) = k
    <2>1. k - L \in 1..Cardinality(New) /\ L + (k - L) = k
      BY <1>1, <1>5, <1>12
    <2>2. PICK i \in New : Rank(New, i) = k - L
      BY <1>5, <2>1
    <2>3. QED
      BY <1>6, <2>1, <2>2
  <1>13. QED
    BY <1>8, <1>9, <1>10, <1>11, <1>12 DEF parent, New, L

\* The entries of the vtable of a class: its own methods at their indices, the superclass's
\* where it does not override them.
LEMMA EntryFacts ==
  ASSUME files \in Worlds, NEW cl, NEW tbl, ClassesIn(cl, tbl), NEW c \in DOMAIN cl,
         cl[c].parent # NoClass => VtableIn(cl, cl[c].parent)
  PROVE  LET parent == ParentVtable(cl, c)
             vtable == Vtable(cl, c)
         IN  /\ vtable \in Seq(ToSet(vtable))
             /\ DOMAIN parent \subseteq DOMAIN vtable
             /\ \A i \in Virtuals(c) : /\ VtableIndex(cl, c, i) \in DOMAIN vtable
                                       /\ vtable[VtableIndex(cl, c, i)] = <<c, i>>
             /\ \A i \in Virtuals(c) : VtableIndex(cl, c, i) \in DOMAIN parent =>
                  MethodName(parent[VtableIndex(cl, c, i)]) = FileOf(c).methods[i].name
             /\ \A k \in DOMAIN vtable :
                  \/ \E i \in Virtuals(c) : VtableIndex(cl, c, i) = k /\ vtable[k] = <<c, i>>
                  \/ /\ k \in DOMAIN parent /\ vtable[k] = parent[k]
                     /\ MethodName(parent[k]) \notin VirtualNames(c)
  <1> DEFINE parent == ParentVtable(cl, c)
             vtable == Vtable(cl, c)
             L == Len(parent)
             New == NewMethods(cl, c)
             size == L + Cardinality(New)
             Index(i) == VtableIndex(cl, c, i)
             own(k) == {i \in Virtuals(c) : Index(i) = k}
  <1>1. /\ L \in Nat /\ size \in Nat /\ L <= size
        /\ \A i \in Virtuals(c) : Index(i) \in 1..size
        /\ \A i, j \in Virtuals(c) : Index(i) = Index(j) => i = j
        /\ \A k \in 1..size : k > L => \E i \in New : Index(i) = k
        /\ \A i \in New : Index(i) > L
    BY IndexFacts
  <1>2. /\ DOMAIN parent = 1..L
        /\ New \subseteq Virtuals(c)
        /\ \A i \in New : \A k \in DOMAIN parent : MethodName(parent[k]) # FileOf(c).methods[i].name
        /\ \A i \in Virtuals(c) \ New : /\ Index(i) \in DOMAIN parent
                                        /\ MethodName(parent[Index(i)]) = FileOf(c).methods[i].name
        /\ \A k, l \in DOMAIN parent : MethodName(parent[k]) = MethodName(parent[l]) => k = l
    BY OverriddenFacts
  <1>3. vtable = [k \in 1..size |-> IF own(k) # {} THEN <<c, CHOOSE i \in own(k) : TRUE>>
                                                   ELSE InheritedEntry(cl, c, k)]
    BY DEF Vtable
  <1>4. vtable \in Seq(ToSet(vtable)) /\ DOMAIN vtable = 1..size
    <2>1. DOMAIN vtable = 1..size /\ vtable = [k \in 1..size |-> vtable[k]]
      BY <1>3
    <2> HIDE DEF vtable, size
    <2>2. \A k \in 1..size : vtable[k] \in ToSet(vtable)
      BY <2>1 DEF ToSet
    <2>3. vtable \in [1..size -> ToSet(vtable)]
      BY <2>1, <2>2
    <2>4. QED
      BY <1>1, <2>1, <2>3 DEF size
  <1>5. \A k \in 1..size : \A i \in own(k) : vtable[k] = <<c, i>>
    <2>1. TAKE k \in 1..size
    <2>2. TAKE i \in own(k)
    <2>3. \A j \in own(k) : j = i
      BY <1>1
    <2>4. (CHOOSE j \in own(k) : TRUE) = i
      BY <2>3
    <2>5. QED
      BY <1>3, <2>4
  <1>6. \A k \in 1..size : own(k) = {} => vtable[k] = InheritedEntry(cl, c, k)
    BY <1>3
  <1>7. \A k \in DOMAIN parent : InheritedEntry(cl, c, k) = parent[k]
    BY DEF InheritedEntry
  <1> HIDE DEF vtable, size, L, New, parent
  <1>8. DOMAIN parent \subseteq DOMAIN vtable
    BY <1>1, <1>2, <1>4
  <1>9. \A i \in Virtuals(c) : Index(i) \in DOMAIN vtable /\ vtable[Index(i)] = <<c, i>>
    BY <1>1, <1>4, <1>5
  <1>10. ASSUME NEW k \in DOMAIN vtable, own(k) = {}
         PROVE  /\ k \in DOMAIN parent /\ vtable[k] = parent[k]
                /\ MethodName(parent[k]) \notin VirtualNames(c)
    <2>1. k \in 1..size /\ k \in DOMAIN parent
      <3>1. k \in 1..size /\ ~(k > L)
        BY <1>1, <1>2, <1>4, <1>10
      <3>2. QED
        BY <1>1, <1>2, <3>1
    <2>2. vtable[k] = parent[k]
      BY <1>6, <1>7, <1>10, <2>1
    <2>3. ASSUME MethodName(parent[k]) \in VirtualNames(c)
          PROVE  FALSE
      <3>1. PICK i \in Virtuals(c) : FileOf(c).methods[i].name = MethodName(parent[k])
        BY <2>3 DEF VirtualNames
      <3>2. Index(i) \in DOMAIN parent /\ MethodName(parent[Index(i)]) = MethodName(parent[k])
        BY <1>2, <2>1, <3>1
      <3>3. Index(i) = k
        BY <1>2, <2>1, <3>2
      <3>4. QED
        BY <1>10, <3>1, <3>3
    <2>4. QED
      BY <2>1, <2>2, <2>3
  <1>11. \A k \in DOMAIN vtable :
           \/ \E i \in Virtuals(c) : Index(i) = k /\ vtable[k] = <<c, i>>
           \/ /\ k \in DOMAIN parent /\ vtable[k] = parent[k]
              /\ MethodName(parent[k]) \notin VirtualNames(c)
    BY <1>4, <1>5, <1>10
  <1>12. ASSUME NEW i \in Virtuals(c), Index(i) \in DOMAIN parent
         PROVE  MethodName(parent[Index(i)]) = FileOf(c).methods[i].name
    <2>1. i \notin New
      BY <1>1, <1>2, <1>12
    <2>2. QED
      BY <1>2, <2>1
  <1>13. QED
    BY <1>4, <1>8, <1>9, <1>11, <1>12 DEF vtable, parent

\* Classes that have the superclasses of their own
ClosedUp(cl, P) ==
  P \in SUBSET DOMAIN cl /\ \A d \in P : cl[d].parent \in P \cup {NoClass}

\* The vtable class_fixup builds for c is right if that of the superclass is.
LEMMA VtableBuilt ==
  ASSUME files \in Worlds, NEW cl, NEW tbl, ClassesIn(cl, tbl), NEW c \in DOMAIN cl,
         cl[c].parent # NoClass => VtableIn(cl, cl[c].parent),
         NEW P, ClosedUp(cl, P), c \notin P, cl[c].parent \in P \cup {NoClass},
         NEW new, Parents(new), DOMAIN cl \subseteq DOMAIN new,
         \A d \in P : new[d].parent = cl[d].parent /\ new[d].vtableIndex = cl[d].vtableIndex,
         new[c].parent = cl[c].parent, new[c].vtable = Vtable(cl, c),
         \A i \in Virtuals(c) : new[c].vtableIndex[i] = VtableIndex(cl, c, i)
  PROVE  VtableIn(new, c)
  <1> DEFINE p == cl[c].parent
             parent == ParentVtable(cl, c)
             vtable == Vtable(cl, c)
             Index(i) == VtableIndex(cl, c, i)
  <1>1. /\ vtable \in Seq(ToSet(vtable))
        /\ DOMAIN parent \subseteq DOMAIN vtable
        /\ \A i \in Virtuals(c) : Index(i) \in DOMAIN vtable /\ vtable[Index(i)] = <<c, i>>
        /\ \A k \in DOMAIN vtable :
             \/ \E i \in Virtuals(c) : Index(i) = k /\ vtable[k] = <<c, i>>
             \/ /\ k \in DOMAIN parent /\ vtable[k] = parent[k]
                /\ MethodName(parent[k]) \notin VirtualNames(c)
        /\ \A i \in Virtuals(c) : Index(i) \in DOMAIN parent =>
             MethodName(parent[Index(i)]) = FileOf(c).methods[i].name
    BY EntryFacts
  <1>2. Parents(cl) /\ NameOf(c) \in Names
    BY ParentsAreAcyclic DEF ClassesIn
  <1>3. /\ Chain(new, c) = Below(new, c, Chain(new, p))
        /\ p # NoClass => Chain(new, p) = Chain(cl, p) /\ ToSet(Chain(cl, p)) \subseteq P
                            /\ Chain(cl, p) \in Seq(P)
    <2>1. Chain(new, c) = Below(new, c, Chain(new, p))
      <3>1. c \in DOMAIN new
        OBVIOUS
      <3>2. QED
        BY <3>1, ChainFacts
    <2>2. P \in SUBSET DOMAIN cl /\ \A d \in P : cl[d].parent \in P \cup {NoClass}
      BY DEF ClosedUp
    <2>3. \A d \in P : Chain(new, d) = Chain(cl, d)
      BY <1>2, <2>2, ChainKeeps
    <2>4. \A d \in P : ToSet(Chain(cl, d)) \subseteq P /\ Chain(cl, d) \in Seq(P)
      BY <1>2, <2>2, ChainStaysIn
    <2>5. QED
      BY <2>1, <2>3, <2>4
  <1>4. /\ c \in ToSet(Chain(new, c))
        /\ p # NoClass => ToSet(Chain(new, c)) = {c} \cup ToSet(Chain(cl, p))
        /\ p = NoClass => ToSet(Chain(new, c)) = {c}
    <2>1. CASE p = NoClass
      <3>1. Chain(new, c) = <<c>>
        BY <1>3, <2>1 DEF Below
      <3>2. ToSet(<<c>>) = {c}
        BY DEF ToSet
      <3>3. QED
        BY <2>1, <3>1, <3>2
    <2>2. CASE p # NoClass
      <3>1. Chain(new, c) = <<c>> \o Chain(cl, p) /\ Chain(cl, p) \in Seq(DOMAIN cl)
        BY <1>2, <1>3, <2>2, ChainFacts DEF Below, ClosedUp
      <3>2. ToSet(<<c>> \o Chain(cl, p)) = {c} \cup ToSet(Chain(cl, p))
        BY <3>1, ConsFacts
      <3>3. QED
        BY <2>2, <3>1, <3>2
    <2>3. QED
      BY <2>1, <2>2
  <1>5. /\ new[c].vtable = vtable /\ p = cl[c].parent
        /\ p # NoClass => parent = cl[p].vtable
        /\ p = NoClass => parent = <<>>
    BY DEF ParentVtable
  <1> HIDE DEF vtable, parent, p
  <1>6. \A i \in Virtuals(c) : new[c].vtableIndex[i] = Index(i)
    OBVIOUS
  <1> HIDE DEF Index
  <1>7. ASSUME NEW k \in DOMAIN vtable
        PROVE  /\ vtable[k][1] \in ToSet(Chain(new, c)) /\ vtable[k][2] \in Virtuals(vtable[k][1])
               /\ vtable[k] = MostDerived(new, c, MethodName(vtable[k]))
               /\ new[vtable[k][1]].vtableIndex[vtable[k][2]] = k
    <2> DEFINE m == vtable[k]
               name == MethodName(m)
    <2>1. MostDerived(new, c, name) =
            IF name \in VirtualNames(c) THEN <<c, MethodNumber(c, name)>>
            ELSE IF p = NoClass THEN NoMethod
            ELSE MostDerived(new, p, name)
      BY <1>5, DerivedFacts
    <2>2. CASE \E i \in Virtuals(c) : Index(i) = k /\ vtable[k] = <<c, i>>
      <3>1. PICK i \in Virtuals(c) : Index(i) = k /\ m = <<c, i>>
        BY <2>2
      <3>2. m[1] = c /\ m[2] = i /\ name = FileOf(c).methods[i].name
        BY <3>1 DEF MethodName
      <3>3. name \in VirtualNames(c) /\ MethodNumber(c, name) = i
        BY <1>2, <3>2, MethodFacts
      <3>4. QED
        BY <1>4, <1>6, <2>1, <3>1, <3>2, <3>3
    <2>3. CASE k \in DOMAIN parent /\ m = parent[k] /\ name \notin VirtualNames(c)
      <3>1. p # NoClass /\ parent = cl[p].vtable /\ VtableIn(cl, p)
        BY <1>5, <2>3
      <3>2. /\ m[1] \in ToSet(Chain(cl, p)) /\ m[2] \in Virtuals(m[1])
            /\ m = MostDerived(cl, p, name) /\ cl[m[1]].vtableIndex[m[2]] = k
        BY <2>3, <3>1 DEF VtableIn
      <3>3. new[m[1]].vtableIndex = cl[m[1]].vtableIndex
        BY <1>3, <3>1, <3>2
      <3>4. MostDerived(new, p, name) = MostDerived(cl, p, name)
        BY <1>3, <3>1 DEF MostDerived
      <3>5. QED
        BY <1>4, <2>1, <2>3, <3>1, <3>2, <3>3, <3>4
    <2>4. QED
      BY <1>1, <2>2, <2>3
  <1>8. ASSUME NEW d \in ToSet(Chain(new, c)), NEW i \in Virtuals(d)
        PROVE  /\ new[d].vtableIndex[i] \in DOMAIN vtable
               /\ MethodName(vtable[new[d].vtableIndex[i]]) = FileOf(d).methods[i].name
    <2>1. CASE d = c
      <3>1. Index(i) \in DOMAIN vtable /\ vtable[Index(i)] = <<c, i>>
        BY <1>1, <2>1
      <3>2. MethodName(<<c, i>>) = FileOf(c).methods[i].name
        BY DEF MethodName
      <3>3. QED
        BY <1>6, <2>1, <3>1, <3>2
    <2>2. CASE d # c
      <3>1. p # NoClass /\ d \in ToSet(Chain(cl, p)) /\ d \in P
        BY <1>3, <1>4, <1>8, <2>2
      <3>2. parent = cl[p].vtable /\ VtableIn(cl, p)
        BY <1>5, <3>1
      <3> DEFINE k == cl[d].vtableIndex[i]
      <3>3. k \in DOMAIN parent /\ MethodName(parent[k]) = FileOf(d).methods[i].name
        BY <3>1, <3>2 DEF VtableIn
      <3>4. new[d].vtableIndex[i] = k /\ k \in DOMAIN vtable
        BY <1>1, <3>1, <3>3
      <3> HIDE DEF k
      <3>5. CASE vtable[k] = parent[k]
        BY <3>3, <3>4, <3>5
      <3>6. CASE \E j \in Virtuals(c) : Index(j) = k /\ vtable[k] = <<c, j>>
        <4>1. PICK j \in Virtuals(c) : Index(j) = k /\ vtable[k] = <<c, j>>
          BY <3>6
        <4>2. MethodName(<<c, j>>) = MethodName(parent[k])
          BY <1>1, <3>3, <4>1 DEF MethodName
        <4>3. QED
          BY <3>3, <3>4, <4>1, <4>2
      <3>7. QED
        BY <1>1, <3>4, <3>5, <3>6
    <2>3. QED
      BY <2>1, <2>2
  <1>9. QED
    BY <1>1, <1>5, <1>7, <1>8 DEF VtableIn

----------------------------------------------------------------------------
(* Sums *)

\* g is the sums of the first sizes, up to n of them.
SumsTo(sizes, n, g) == g = [k \in 0..n |-> IF k = 0 THEN 0 ELSE g[k - 1] + sizes[k]]

LEMMA SumsExist ==
  ASSUME NEW sizes, NEW n \in Nat
  PROVE  \E g : SumsTo(sizes, n, g)
  <1> DEFINE bad == {k \in Nat : ~\E g : SumsTo(sizes, k, g)}
  <1>1. ASSUME bad # {}
        PROVE  FALSE
    <2>1. PICK k \in bad : \A j \in bad : k <= j
      BY <1>1, LeastNumber
    <2>2. CASE k = 0
      <3> DEFINE h == [i \in 0..0 |-> 0]
      <3>1. h = [i \in 0..0 |-> IF i = 0 THEN 0 ELSE h[i - 1] + sizes[i]]
        OBVIOUS
      <3>2. SumsTo(sizes, k, h)
        BY <2>2, <3>1 DEF SumsTo
      <3>3. QED
        BY <2>1, <3>2
    <2>3. CASE k # 0
      <3>1. k \in Nat /\ k - 1 \in Nat
        BY <2>1, <2>3
      <3>2. k - 1 \notin bad
        BY <2>1, <3>1
      <3>3. PICK g : SumsTo(sizes, k - 1, g)
        BY <3>1, <3>2
      <3> DEFINE h == [i \in 0..k |-> IF i = k THEN g[k - 1] + sizes[k] ELSE g[i]]
      <3>4. ASSUME NEW i \in 0..k
            PROVE  h[i] = IF i = 0 THEN 0 ELSE h[i - 1] + sizes[i]
        <4>1. CASE i = k
          <5>1. h[k] = g[k - 1] + sizes[k] /\ h[k - 1] = g[k - 1]
            BY <3>1
          <5>2. QED
            BY <2>3, <4>1, <5>1
        <4>2. CASE i # k
          <5>1. i \in 0..(k - 1) /\ h[i] = g[i]
            BY <3>1, <4>2
          <5>2. g[i] = IF i = 0 THEN 0 ELSE g[i - 1] + sizes[i]
            BY <3>3, <5>1 DEF SumsTo
          <5>3. i # 0 => i - 1 \in 0..k /\ i - 1 # k
            BY <3>1, <5>1
          <5>4. i # 0 => h[i - 1] = g[i - 1]
            BY <5>3
          <5>5. QED
            BY <5>1, <5>2, <5>4
        <4>3. QED
          BY <4>1, <4>2
      <3>5. h = [i \in 0..k |-> h[i]]
        OBVIOUS
      <3> HIDE DEF h
      <3>6. [i \in 0..k |-> h[i]] = [i \in 0..k |-> IF i = 0 THEN 0 ELSE h[i - 1] + sizes[i]]
        BY <3>4
      <3>7. SumsTo(sizes, k, h)
        BY <3>5, <3>6 DEF SumsTo
      <3>8. QED
        BY <2>1, <3>7
    <2>4. QED
      BY <2>2, <2>3
  <1>2. QED
    BY <1>1

LEMMA SumsAgree ==
  ASSUME NEW sizes, NEW n \in Nat, NEW m \in Nat, n <= m,
         NEW g, NEW h, SumsTo(sizes, n, g), SumsTo(sizes, m, h)
  PROVE  \A k \in 0..n : g[k] = h[k]
  <1> DEFINE bad == {k \in 0..n : g[k] # h[k]}
  <1> SUFFICES ASSUME bad # {}
               PROVE  FALSE
    OBVIOUS
  <1>1. bad \in SUBSET Nat
    OBVIOUS
  <1>2. PICK k \in bad : \A j \in bad : k <= j
    BY <1>1, LeastNumber
  <1>3. k \in 0..n /\ k \in 0..m /\ g[k] # h[k]
    BY <1>2
  <1>4. /\ g[k] = IF k = 0 THEN 0 ELSE g[k - 1] + sizes[k]
        /\ h[k] = IF k = 0 THEN 0 ELSE h[k - 1] + sizes[k]
    BY <1>3 DEF SumsTo
  <1>5. k # 0 => k - 1 \in 0..n /\ ~(k <= k - 1)
    BY <1>3
  <1>6. k # 0 => g[k - 1] = h[k - 1]
    BY <1>2, <1>5
  <1>7. QED
    BY <1>3, <1>4, <1>6

\* A sum is that of one size less, and the last size.
LEMMA SumSteps ==
  ASSUME NEW sizes
  PROVE  /\ SumTo(sizes, 0) = 0
         /\ \A n \in Nat : SumTo(sizes, n + 1) = SumTo(sizes, n) + sizes[n + 1]
  <1> DEFINE sum(n) == CHOOSE g : g = [k \in 0..n |-> IF k = 0 THEN 0 ELSE g[k - 1] + sizes[k]]
  <1>1. \A n : SumTo(sizes, n) = sum(n)[n]
    BY DEF SumTo
  <1>2. ASSUME NEW n \in Nat
        PROVE  SumsTo(sizes, n, sum(n))
    BY SumsExist DEF SumsTo
  <1> HIDE DEF sum
  <1>3. sum(0)[0] = 0
    <2>1. SumsTo(sizes, 0, sum(0)) /\ 0 \in 0..0
      BY <1>2
    <2>2. QED
      BY <2>1 DEF SumsTo
  <1>4. ASSUME NEW n \in Nat
        PROVE  sum(n + 1)[n + 1] = sum(n)[n] + sizes[n + 1]
    <2>1. n + 1 \in Nat /\ n <= n + 1 /\ n + 1 \in 0..(n + 1) /\ n \in 0..n /\ n + 1 # 0 /\ (n + 1) - 1 = n
      OBVIOUS
    <2> DEFINE m == n + 1
    <2>2. SumsTo(sizes, n, sum(n)) /\ SumsTo(sizes, m, sum(m))
      BY <1>2, <2>1
    <2>3. sum(n)[n] = sum(m)[n]
      BY <2>1, <2>2, SumsAgree
    <2>4. sum(m)[m] = sum(m)[m - 1] + sizes[m]
      BY <2>1, <2>2 DEF SumsTo
    <2>5. QED
      BY <2>1, <2>3, <2>4
  <1>5. QED
    BY <1>1, <1>3, <1>4

\* Sums of sizes that are numbers are numbers, and grow.
LEMMA SumsGrow ==
  ASSUME NEW sizes, NEW len \in Nat, \A k \in 1..len : sizes[k] \in Nat
  PROVE  /\ \A n \in 0..len : SumTo(sizes, n) \in Nat
         /\ \A n \in 0..len : \A m \in 0..n : SumTo(sizes, m) <= SumTo(sizes, n)
  <1> DEFINE S(n) == SumTo(sizes, n)
             bad == {n \in 0..len : S(n) \notin Nat \/ \E m \in 0..n : ~(S(m) <= S(n))}
  <1>1. S(0) = 0 /\ \A n \in Nat : S(n + 1) = S(n) + sizes[n + 1]
    BY SumSteps
  <1> HIDE DEF S
  <1>2. ASSUME bad # {}
        PROVE  FALSE
    <2>1. bad \in SUBSET Nat
      OBVIOUS
    <2>2. PICK n \in bad : \A j \in bad : n <= j
      BY <1>2, <2>1, LeastNumber
    <2>3. n \in 0..len /\ n \in Nat
      BY <2>2
    <2>4. CASE n = 0
      BY <1>1, <2>2, <2>4
    <2>5. CASE n # 0
      <3>1. n - 1 \in 0..len /\ n - 1 \in Nat /\ ~(n <= n - 1) /\ (n - 1) + 1 = n /\ n \in 1..len
        BY <2>3, <2>5
      <3>2. n - 1 \notin bad
        BY <2>2, <3>1
      <3>3. S(n - 1) \in Nat /\ \A m \in 0..(n - 1) : S(m) <= S(n - 1)
        BY <3>1, <3>2
      <3>4. S(n) = S(n - 1) + sizes[n] /\ sizes[n] \in Nat
        BY <1>1, <3>1
      <3>5. S(n) \in Nat /\ S(n - 1) <= S(n)
        BY <3>3, <3>4
      <3>6. ASSUME NEW m \in 0..n
            PROVE  S(m) <= S(n)
        <4>1. CASE m = n
          BY <3>5, <4>1
        <4>2. CASE m # n
          <5>1. m \in 0..(n - 1) /\ m \in 0..len /\ m \in Nat /\ ~(n <= m)
            BY <2>3, <4>2
          <5>2. S(m) \in Nat /\ S(m) <= S(n - 1)
            BY <2>2, <3>3, <5>1
          <5>3. QED
            BY <3>3, <3>5, <5>2
        <4>3. QED
          BY <4>1, <4>2
      <3>7. QED
        BY <2>2, <3>5, <3>6
    <2>6. QED
      BY <2>4, <2>5
  <1>3. QED
    BY <1>2 DEF S

----------------------------------------------------------------------------
(* Fields *)

InstanceFields(c) == {i \in DOMAIN FileOf(c).fields : ~FileOf(c).fields[i].static}
SizeOf(c, i) == FileOf(c).fields[i].size

\* The bytes of the instance fields of c before field i, and of all of them
Before(c, i) == BytesOf(FileOf(c).fields, FALSE, i - 1)
OwnSize(c) == BytesOf(FileOf(c).fields, FALSE, Len(FileOf(c).fields))

\* The fields of one class lie side by side.
LEMMA FieldSizes ==
  ASSUME files \in Worlds, NEW c, NameOf(c) \in Names
  PROVE  /\ OwnSize(c) \in Nat
         /\ FileOf(c).fields = <<>> => OwnSize(c) = 0
         /\ \A i \in InstanceFields(c) : /\ Before(c, i) \in Nat /\ SizeOf(c, i) \in Nat
                                         /\ Before(c, i) + SizeOf(c, i) <= OwnSize(c)
         /\ \A i, j \in InstanceFields(c) :
              \/ i = j
              \/ Before(c, i) + SizeOf(c, i) <= Before(c, j)
              \/ Before(c, j) + SizeOf(c, j) <= Before(c, i)
  <1> DEFINE fields == FileOf(c).fields
             sizes == [i \in DOMAIN fields |-> IF fields[i].static = FALSE THEN fields[i].size ELSE 0]
             len == Len(fields)
             S(n) == SumTo(sizes, n)
  <1>1. fields \in Seq([size : Nat, static : BOOLEAN])
    <2>1. CASE NameOf(c) = ArrayName
      <3>1. fields = <<>>
        BY <2>1 DEF FileOf
      <3>2. QED
        BY <3>1
    <2>2. CASE NameOf(c) # ArrayName
      <3>1. fields = files[NameOf(c)].fields /\ NameOf(c) \in DOMAIN files
        BY <2>2 DEF FileOf, Names
      <3>2. QED
        BY <3>1, LinkingAssumption
    <2>3. QED
      BY <2>1, <2>2
  <1> HIDE DEF fields
  <1>2. /\ len \in Nat /\ DOMAIN fields = 1..len
        /\ \A i \in 1..len : fields[i].size \in Nat /\ fields[i].static \in BOOLEAN
    <2> DEFINE T == [size : Nat, static : BOOLEAN]
    <2>1. fields \in Seq(T) /\ \A r \in T : r.size \in Nat /\ r.static \in BOOLEAN
      BY <1>1, Zenon
    <2> HIDE DEF T
    <2>2. /\ len \in Nat /\ DOMAIN fields = 1..len
          /\ \A i \in 1..len : fields[i] \in T
      BY <2>1
    <2>3. QED
      BY <2>1, <2>2
  <1>3. \A i \in 1..len : sizes[i] \in Nat
    BY <1>2
  <1>4. \A n : BytesOf(fields, FALSE, n) = S(n)
    BY DEF BytesOf
  <1>5. \A i \in InstanceFields(c) : i \in 1..len /\ sizes[i] = fields[i].size
    BY <1>2 DEF InstanceFields, fields
  <1> HIDE DEF sizes, len
  <1>6. /\ S(0) = 0 /\ \A n \in Nat : S(n + 1) = S(n) + sizes[n + 1]
        /\ \A n \in 0..len : S(n) \in Nat
        /\ \A n \in 0..len : \A m \in 0..n : S(m) <= S(n)
    BY <1>2, <1>3, SumSteps, SumsGrow
  <1> HIDE DEF S
  <1>7. OwnSize(c) = S(len) /\ \A i : Before(c, i) = S(i - 1)
    BY <1>4 DEF OwnSize, Before, fields, len
  <1>8. \A i : SizeOf(c, i) = fields[i].size
    BY DEF SizeOf, fields
  <1>9. fields = <<>> => len = 0
    BY DEF len
  <1>10. ASSUME NEW i \in InstanceFields(c)
         PROVE  /\ i \in 1..len /\ i \in 0..len /\ i - 1 \in 0..len /\ i - 1 \in Nat
                /\ S(i) = S(i - 1) + SizeOf(c, i) /\ SizeOf(c, i) \in Nat
                /\ S(i) \in Nat /\ S(i - 1) \in Nat
    <2>1. i \in 1..len /\ SizeOf(c, i) = sizes[i] /\ SizeOf(c, i) \in Nat
      BY <1>2, <1>3, <1>5, <1>8
    <2>2. i \in 0..len /\ i - 1 \in 0..len /\ i - 1 \in Nat /\ (i - 1) + 1 = i
      BY <1>2, <2>1
    <2>3. S(i) = S(i - 1) + sizes[i]
      BY <1>6, <2>2
    <2>4. QED
      BY <1>6, <2>1, <2>2, <2>3
  <1>11. OwnSize(c) \in Nat
    BY <1>2, <1>6, <1>7
  <1>12. fields = <<>> => OwnSize(c) = 0
    BY <1>6, <1>7, <1>9
  <1>13. ASSUME NEW i \in InstanceFields(c)
         PROVE  /\ Before(c, i) \in Nat /\ SizeOf(c, i) \in Nat
                /\ Before(c, i) + SizeOf(c, i) <= OwnSize(c)
    <2>1. S(i) <= S(len)
      BY <1>2, <1>6, <1>10
    <2>2. QED
      BY <1>7, <1>10, <2>1
  <1>14. ASSUME NEW i \in InstanceFields(c), NEW j \in InstanceFields(c), i < j
         PROVE  Before(c, i) + SizeOf(c, i) <= Before(c, j)
    <2>1. i \in 0..(j - 1)
      BY <1>2, <1>10, <1>14
    <2>2. S(i) <= S(j - 1)
      BY <1>6, <1>10, <2>1
    <2>3. QED
      BY <1>7, <1>10, <2>2
  <1>15. \A i, j \in InstanceFields(c) : i = j \/ i < j \/ j < i
    BY <1>2, <1>5
  <1>16. QED
    BY <1>11, <1>12, <1>13, <1>14, <1>15 DEF fields

\* The instance fields of c lie behind the first bytes of an object, and its size counts both.
FieldsFrom(cl, c, base) ==
  /\ base \in Nat
  /\ cl[c].size = base + OwnSize(c)
  /\ DOMAIN cl[c].offset = DOMAIN FileOf(c).fields
  /\ \A i \in InstanceFields(c) : cl[c].offset[i] = base + Before(c, i)

\* Conversion lays them out as if there were no superclass.
LEMMA ConvertedFields ==
  ASSUME files \in Worlds, NEW cl, NEW c, NameOf(c) \in Names, NameOf(c) # ArrayName,
         cl[c].offset = Converted(NameOf(c)).offset, cl[c].size = Converted(NameOf(c)).size
  PROVE  FieldsFrom(cl, c, 0)
  <1> DEFINE f == files[NameOf(c)]
  <1>1. FileOf(c) = f
    BY DEF FileOf
  <1>2. /\ cl[c].offset = [i \in DOMAIN f.fields |-> BytesOf(f.fields, f.fields[i].static, i - 1)]
        /\ cl[c].size = BytesOf(f.fields, FALSE, Len(f.fields))
    BY DEF Converted
  <1>3. cl[c].size = OwnSize(c) /\ DOMAIN cl[c].offset = DOMAIN FileOf(c).fields
    BY <1>1, <1>2 DEF OwnSize
  <1>4. f.fields \in Seq([size : Nat, static : BOOLEAN])
    BY LinkingAssumption DEF Names
  <1>5. \A i \in InstanceFields(c) : cl[c].offset[i] = Before(c, i)
    <2>1. TAKE i \in InstanceFields(c)
    <2>2. i \in DOMAIN f.fields /\ f.fields[i].static = FALSE
      BY <1>1, <1>4 DEF InstanceFields
    <2>3. QED
      BY <1>1, <1>2, <2>2 DEF Before
  <1>6. 0 + OwnSize(c) = OwnSize(c) /\ \A i \in InstanceFields(c) : 0 + Before(c, i) = Before(c, i)
    BY FieldSizes
  <1>7. QED
    BY <1>3, <1>5, <1>6 DEF FieldsFrom

\* class_fixup moves them behind those of the superclass.
LEMMA FixedFields ==
  ASSUME files \in Worlds, NEW cl, NEW c \in DOMAIN cl, NameOf(c) \in Names,
         DOMAIN cl[c] = ClassFields, FieldsFrom(cl, c, 0), ParentSize(cl, c) \in Nat
  PROVE  FieldsFrom(WithFields(cl, c), c, ParentSize(cl, c))
  <1> DEFINE base == ParentSize(cl, c)
             offset == [i \in DOMAIN cl[c].offset |-> FixedOffset(cl, c, i)]
             new == WithFields(cl, c)
  <1>1. new[c].offset = offset /\ new[c].size = cl[c].size + base
    BY DEF WithFields, ClassFields
  <1> HIDE DEF new
  <1>2. /\ OwnSize(c) \in Nat /\ \A i \in InstanceFields(c) : Before(c, i) \in Nat
    BY FieldSizes
  <1>3. /\ cl[c].size = 0 + OwnSize(c) /\ DOMAIN cl[c].offset = DOMAIN FileOf(c).fields
        /\ \A i \in InstanceFields(c) : cl[c].offset[i] = 0 + Before(c, i)
    BY DEF FieldsFrom
  <1>4. ASSUME NEW i \in InstanceFields(c)
        PROVE  offset[i] = base + Before(c, i)
    <2>1. i \in DOMAIN cl[c].offset /\ ~FileOf(c).fields[i].static
      BY <1>3 DEF InstanceFields
    <2>2. offset[i] = cl[c].offset[i] + base
      BY <2>1 DEF FixedOffset
    <2> HIDE DEF base, offset
    <2>3. base \in Nat /\ cl[c].offset[i] = Before(c, i) /\ Before(c, i) \in Nat
      BY <1>2, <1>3 DEF base
    <2>4. QED
      BY <2>2, <2>3
  <1>5. DOMAIN offset = DOMAIN FileOf(c).fields
    BY <1>3
  <1> HIDE DEF base, offset
  <1>6. base \in Nat /\ new[c].size = base + OwnSize(c)
    BY <1>1, <1>2, <1>3 DEF base
  <1>7. QED
    BY <1>1, <1>4, <1>5, <1>6 DEF FieldsFrom, base, new

\* A class is laid out: its vtable is right, and its fields lie behind those of its superclass.
LaidOut(cl, c) == VtableIn(cl, c) /\ FieldsFrom(cl, c, ParentSize(cl, c))

----------------------------------------------------------------------------
(* The classes in the table *)

Concrete(tbl) == {c \in InTable(tbl) : ~IsInterface(c)}

\* Every method has an index, and a class that waits to be laid out has its fields from 0 on.
ReadyIn(cl, busy) ==
  \A c \in DOMAIN cl : /\ DOMAIN cl[c].vtableIndex = DOMAIN FileOf(c).methods
                       /\ c \notin busy /\ ~cl[c].linked => FieldsFrom(cl, c, 0)

LaidOutIn(cl, tbl) == \A c \in Concrete(tbl) : LaidOut(cl, c)

\* The classes of P have the vtables and fields they had.
SameLayout(cl, new, P) ==
  /\ P \subseteq DOMAIN new
  /\ \A d \in P : /\ new[d].parent = cl[d].parent /\ (cl[d].linked => new[d].linked)
                  /\ new[d].vtable = cl[d].vtable /\ new[d].vtableIndex = cl[d].vtableIndex
                  /\ new[d].offset = cl[d].offset /\ new[d].size = cl[d].size

\* The superclasses of a class that is published are published.
LEMMA ConcreteFacts ==
  ASSUME NEW cl, NEW tbl, NEW found, ClassesIn(cl, tbl), ClosedIn(cl, tbl, found)
  PROVE  ClosedUp(cl, Concrete(tbl)) /\ ClosedUp(cl, DOMAIN cl)
  <1>1. Concrete(tbl) \subseteq InTable(tbl) /\ InTable(tbl) \subseteq DOMAIN cl
    BY TableFacts DEF Concrete
  <1>2. ASSUME NEW c \in Concrete(tbl), cl[c].parent # NoClass
        PROVE  cl[c].parent \in Concrete(tbl)
    <2>1. cl[c].parent \in InTable(tbl)
      BY <1>2 DEF ClosedIn, Concrete
    <2>2. ~IsInterface(cl[c].parent)
      BY <1>1, <1>2 DEF ClassesIn
    <2>3. QED
      BY <2>1, <2>2 DEF Concrete
  <1>3. \A c \in DOMAIN cl : cl[c].parent \in DOMAIN cl \cup {NoClass}
    BY DEF ClassesIn
  <1>4. QED
    BY <1>1, <1>2, <1>3 DEF ClosedUp

\* A vtable stays right while those of the class and its superclasses stay.
LEMMA VtableKeeps ==
  ASSUME NEW cl, Parents(cl), NEW new, Parents(new), NEW P, ClosedUp(cl, P),
         SameLayout(cl, new, P), NEW c \in P, VtableIn(cl, c)
  PROVE  VtableIn(new, c)
  <1>1. Chain(new, c) = Chain(cl, c)
    BY ChainKeeps DEF ClosedUp, SameLayout
  <1>2. ToSet(Chain(cl, c)) \subseteq P
    BY ChainStaysIn DEF ClosedUp
  <1>3. \A name : MostDerived(new, c, name) = MostDerived(cl, c, name)
    BY <1>1 DEF MostDerived
  <1>4. new[c].vtable = cl[c].vtable
    BY DEF SameLayout
  <1>5. \A d \in ToSet(Chain(cl, c)) : new[d].vtableIndex = cl[d].vtableIndex
    BY <1>2 DEF SameLayout
  <1> DEFINE vtable == cl[c].vtable
  <1>6. vtable \in Seq(ToSet(vtable))
    BY DEF VtableIn
  <1>7. ASSUME NEW k \in DOMAIN vtable
        PROVE  LET m == vtable[k]
               IN  /\ m[1] \in ToSet(Chain(new, c)) /\ m[2] \in Virtuals(m[1])
                   /\ m = MostDerived(new, c, MethodName(m))
                   /\ new[m[1]].vtableIndex[m[2]] = k
    <2>1. LET m == vtable[k]
          IN  /\ m[1] \in ToSet(Chain(cl, c)) /\ m[2] \in Virtuals(m[1])
              /\ m = MostDerived(cl, c, MethodName(m))
              /\ cl[m[1]].vtableIndex[m[2]] = k
      BY DEF VtableIn
    <2>2. QED
      BY <1>1, <1>3, <1>5, <2>1
  <1>8. ASSUME NEW d \in ToSet(Chain(new, c)), NEW i \in Virtuals(d)
        PROVE  LET k == new[d].vtableIndex[i]
               IN  k \in DOMAIN vtable /\ MethodName(vtable[k]) = FileOf(d).methods[i].name
    <2>1. LET k == cl[d].vtableIndex[i]
          IN  k \in DOMAIN vtable /\ MethodName(vtable[k]) = FileOf(d).methods[i].name
      BY <1>1, <1>8 DEF VtableIn
    <2>2. QED
      BY <1>1, <1>5, <1>8, <2>1
  <1>9. QED
    BY <1>4, <1>6, <1>7, <1>8 DEF VtableIn

\* So do its fields.
LEMMA LayoutKeeps ==
  ASSUME NEW cl, Parents(cl), NEW new, Parents(new), NEW P, ClosedUp(cl, P),
         SameLayout(cl, new, P), NEW c \in P, LaidOut(cl, c)
  PROVE  LaidOut(new, c)
  <1>1. VtableIn(new, c)
    BY VtableKeeps DEF LaidOut
  <1>2. new[c].parent = cl[c].parent /\ new[c].offset = cl[c].offset /\ new[c].size = cl[c].size
    BY DEF SameLayout
  <1>3. ParentSize(new, c) = ParentSize(cl, c)
    <2>1. CASE cl[c].parent = NoClass
      BY <1>2, <2>1 DEF ParentSize
    <2>2. CASE cl[c].parent # NoClass
      <3>1. new[cl[c].parent].size = cl[cl[c].parent].size
        BY <2>2 DEF ClosedUp, SameLayout
      <3>2. QED
        BY <1>2, <3>1 DEF ParentSize
    <2>3. QED
      BY <2>1, <2>2
  <1>4. FieldsFrom(cl, c, ParentSize(cl, c))
    BY DEF LaidOut
  <1>5. FieldsFrom(new, c, ParentSize(cl, c))
    BY <1>2, <1>4 DEF FieldsFrom
  <1>6. QED
    BY <1>1, <1>3, <1>5 DEF LaidOut

LEMMA ReadyKeeps ==
  ASSUME NEW cl, NEW new, NEW busy, DOMAIN new = DOMAIN cl, SameLayout(cl, new, DOMAIN cl),
         ReadyIn(cl, busy)
  PROVE  ReadyIn(new, busy)
  <1> SUFFICES ASSUME NEW c \in DOMAIN cl
               PROVE  /\ DOMAIN new[c].vtableIndex = DOMAIN FileOf(c).methods
                      /\ c \notin busy /\ ~new[c].linked => FieldsFrom(new, c, 0)
    BY DEF ReadyIn
  <1>1. /\ new[c].vtableIndex = cl[c].vtableIndex /\ (~new[c].linked => ~cl[c].linked)
        /\ new[c].offset = cl[c].offset /\ new[c].size = cl[c].size
    BY DEF SameLayout
  <1>2. FieldsFrom(cl, c, 0) => FieldsFrom(new, c, 0)
    BY <1>1 DEF FieldsFrom
  <1>3. QED
    BY <1>1, <1>2 DEF ReadyIn

\* class_fixup of the members of a class whose superclass is published
LEMMA MembersBuild ==
  ASSUME files \in Worlds, NEW cl, NEW tbl, ClassesIn(cl, tbl), ClosedIn(cl, tbl, {}),
         ReadyIn(cl, {}), LaidOutIn(cl, tbl),
         NEW c \in DOMAIN cl, c \notin InTable(tbl), ~IsInterface(c), ~cl[c].linked,
         cl[c].parent \in InTable(tbl) \cup {NoClass}
  PROVE  LET new == WithVtable(WithFields(cl, c), c)
         IN  ReadyIn(new, {c}) /\ LaidOutIn(new, tbl) /\ LaidOut(new, c)
  <1> DEFINE fields == WithFields(cl, c)
             new == WithVtable(fields, c)
             P == Concrete(tbl)
  <1>1. DOMAIN cl[c] = ClassFields
    BY DEF ClassesIn, Shaped
  <1>2. /\ DOMAIN fields = DOMAIN cl /\ \A d \in DOMAIN cl \ {c} : fields[d] = cl[d]
        /\ DOMAIN fields[c] = ClassFields
        /\ \A f \in {"parent", "linked", "implements", "vtable", "vtableIndex"} :
             fields[c][f] = cl[c][f]
    BY <1>1 DEF WithFields, ClassFields
  <1>3. SameButMembers(c, cl, fields)
    BY <1>2 DEF SameButMembers
  <1>4. ClassesIn(fields, tbl) /\ ClosedIn(fields, tbl, {})
    BY <1>3, SameMembersKeep
  <1>5. SameButMembers(c, cl, new)
    BY <1>1, MembersKeep
  <1>6. ClassesIn(new, tbl) /\ ClosedIn(new, tbl, {})
    BY <1>5, SameMembersKeep
  <1>7. Parents(cl) /\ Parents(fields) /\ Parents(new)
    BY <1>4, <1>6, ParentsAreAcyclic
  <1>8. /\ DOMAIN new = DOMAIN fields /\ \A d \in DOMAIN fields \ {c} : new[d] = fields[d]
        /\ new[c].vtable = Vtable(fields, c) /\ new[c].vtableIndex = VtableIndices(fields, c)
        /\ \A f \in {"parent", "offset", "size"} : new[c][f] = fields[c][f]
    BY <1>2 DEF WithVtable, ClassFields
  <1>9. P \subseteq DOMAIN cl /\ c \notin P /\ ClosedUp(cl, P) /\ ClosedUp(fields, P)
    <2> HIDE DEF fields
    <2>1. QED
      BY <1>4, ConcreteFacts DEF ClosedUp, Concrete
  <1>10. cl[c].parent \in P \cup {NoClass}
    BY DEF Concrete, ClassesIn
  <1>11. cl[c].parent # NoClass => LaidOut(cl, cl[c].parent) /\ cl[c].parent # c
    BY <1>9, <1>10 DEF LaidOutIn
  <1>12. NameOf(c) \in Names
    BY DEF ClassesIn
  <1>13. FieldsFrom(fields, c, ParentSize(cl, c))
    <2>1. FieldsFrom(cl, c, 0)
      BY DEF ReadyIn
    <2>2. ParentSize(cl, c) \in Nat
      <3>1. CASE cl[c].parent = NoClass
        BY <3>1 DEF ParentSize
      <3>2. CASE cl[c].parent # NoClass
        <4> DEFINE p == cl[c].parent
                   base == ParentSize(cl, p)
        <4>1. FieldsFrom(cl, p, base) /\ NameOf(p) \in Names
          BY <1>11, <3>2 DEF LaidOut, ClassesIn
        <4> HIDE DEF base
        <4>2. base \in Nat /\ cl[p].size = base + OwnSize(p) /\ OwnSize(p) \in Nat
          BY <4>1, FieldSizes DEF FieldsFrom
        <4>3. cl[p].size \in Nat
          BY <4>2
        <4>4. QED
          BY <3>2, <4>3 DEF ParentSize
      <3>3. QED
        BY <3>1, <3>2
    <2>3. QED
      BY <1>1, <1>12, <2>1, <2>2, FixedFields
  <1> HIDE DEF fields, new
  <1>14. FieldsFrom(new, c, ParentSize(new, c))
    <2>1. ParentSize(new, c) = ParentSize(cl, c)
      BY <1>2, <1>8, <1>9, <1>10, <1>11 DEF ParentSize
    <2>2. new[c].offset = fields[c].offset /\ new[c].size = fields[c].size
      BY <1>8
    <2>3. QED
      BY <1>13, <2>1, <2>2 DEF FieldsFrom
  <1>15. SameLayout(cl, fields, P) /\ SameLayout(fields, new, P) /\ SameLayout(cl, new, P)
    BY <1>2, <1>8, <1>9 DEF SameLayout
  <1>16. fields[c].parent # NoClass => VtableIn(fields, fields[c].parent)
    BY <1>2, <1>7, <1>9, <1>10, <1>11, <1>15, VtableKeeps DEF LaidOut
  <1>17. DOMAIN VtableIndices(fields, c) = DOMAIN fields[c].vtableIndex
    BY DEF VtableIndices
  <1>18. ReadyIn(new, {c})
    <2>1. ASSUME NEW d \in DOMAIN new
          PROVE  /\ DOMAIN new[d].vtableIndex = DOMAIN FileOf(d).methods
                 /\ d \notin {c} /\ ~new[d].linked => FieldsFrom(new, d, 0)
      <3>1. CASE d = c
        BY <1>2, <1>8, <1>17, <3>1 DEF ReadyIn
      <3>2. CASE d # c
        <4>1. d \in DOMAIN cl /\ new[d] = cl[d]
          BY <1>2, <1>8, <3>2
        <4>2. FieldsFrom(cl, d, 0) => FieldsFrom(new, d, 0)
          BY <4>1 DEF FieldsFrom
        <4>3. QED
          BY <4>1, <4>2 DEF ReadyIn
      <3>3. QED
        BY <3>1, <3>2
    <2>2. QED
      BY <2>1 DEF ReadyIn
  <1>19. \A i \in Virtuals(c) : new[c].vtableIndex[i] = VtableIndex(fields, c, i)
    <2>1. ASSUME NEW i \in Virtuals(c)
          PROVE  i \in DOMAIN fields[c].vtableIndex /\ Virtual(c, i)
      BY <1>2 DEF Virtuals, ReadyIn
    <2>2. QED
      BY <1>8, <2>1 DEF VtableIndices
  <1>20. VtableIn(new, c)
    BY <1>2, <1>4, <1>7, <1>8, <1>9, <1>10, <1>15, <1>16, <1>19, VtableBuilt DEF SameLayout
  <1>21. LaidOutIn(new, tbl)
    BY <1>7, <1>9, <1>15, LayoutKeeps DEF LaidOutIn
  <1>22. QED
    BY <1>14, <1>18, <1>20, <1>21 DEF new, fields, LaidOut

----------------------------------------------------------------------------
(* The invariant: classes are laid out from the moment they are fixed up. *)

Ended == Astray \cup {"exited"}

\* The class that is being fixed up
Busy == IF session.step = "itable" THEN {ToLink} ELSE {}

Layout ==
  session.step \notin Ended =>
    /\ ReadyIn(class, Busy)
    /\ LaidOutIn(class, table)
    /\ \A c \in Busy : LaidOut(class, c)

LEMMA LayoutFilesStay ==
  ASSUME files' = files
  PROVE  /\ \A c : LaidOut(class, c)' <=> LaidOut(class', c)
         /\ \A busy : ReadyIn(class, busy)' <=> ReadyIn(class', busy)
         /\ LaidOutIn(class, table)' <=> LaidOutIn(class', table')
  <1>1. /\ \A c : FileOf(c)' = FileOf(c)
        /\ InTable(table)' = InTable(table')
    BY FilesStay DEF FileOf
  <1>2. /\ \A c : Virtuals(c)' = Virtuals(c) /\ VirtualNames(c)' = VirtualNames(c)
        /\ \A c, name : MethodNumber(c, name)' = MethodNumber(c, name)
        /\ \A m : MethodName(m)' = MethodName(m)
        /\ \A c : IsInterface(c)' <=> IsInterface(c)
    BY <1>1 DEF Virtuals, Virtual, VirtualNames, MethodNumber, MethodName, IsInterface
  <1>3. \A c : Chain(class, c)' = Chain(class', c)
    BY DEF Chain
  <1>4. \A c, name : MostDerived(class, c, name)' = MostDerived(class', c, name)
    BY <1>2, <1>3 DEF MostDerived
  <1>5. \A c : VtableIn(class, c)' <=> VtableIn(class', c)
    BY <1>1, <1>2, <1>3, <1>4 DEF VtableIn
  <1>6. /\ \A c : OwnSize(c)' = OwnSize(c) /\ InstanceFields(c)' = InstanceFields(c)
        /\ \A c, i : Before(c, i)' = Before(c, i)
    BY <1>1 DEF OwnSize, InstanceFields, Before
  <1>7. \A c, base : FieldsFrom(class, c, base)' <=> FieldsFrom(class', c, base)
    BY <1>1, <1>6 DEF FieldsFrom
  <1>8. \A c : ParentSize(class, c)' = ParentSize(class', c)
    BY DEF ParentSize
  <1>9. \A c : LaidOut(class, c)' <=> LaidOut(class', c)
    BY <1>5, <1>7, <1>8 DEF LaidOut
  <1>10. \A busy : ReadyIn(class, busy)' <=> ReadyIn(class', busy)
    BY <1>1, <1>7 DEF ReadyIn
  <1>11. Concrete(table)' = Concrete(table')
    BY <1>1, <1>2 DEF Concrete
  <1>12. LaidOutIn(class, table)' <=> LaidOutIn(class', table')
    BY <1>9, <1>11 DEF LaidOutIn
  <1>13. QED
    BY <1>9, <1>10, <1>12

\* The invariant after a step, from its parts
LEMMA LayoutAfter ==
  ASSUME files' = files,
         session'.step \notin Ended =>
           /\ ReadyIn(class', Busy') /\ LaidOutIn(class', table')
           /\ \A c \in Busy' : LaidOut(class', c)
  PROVE  Layout'
  <1>1. /\ LaidOutIn(class, table)' <=> LaidOutIn(class', table')
        /\ \A busy : ReadyIn(class, busy)' <=> ReadyIn(class', busy)
        /\ \A c : LaidOut(class, c)' <=> LaidOut(class', c)
    BY LayoutFilesStay
  <1>2. ReadyIn(class, Busy)' <=> ReadyIn(class', Busy')
    BY <1>1
  <1>3. QED
    BY <1>1, <1>2 DEF Layout

\* The same when no class is being fixed up
LEMMA LayoutAtRest ==
  ASSUME files' = files, session'.step # "itable",
         session'.step \notin Ended => ReadyIn(class', {}) /\ LaidOutIn(class', table')
  PROVE  Layout'
  <1>1. Busy' = {}
    BY DEF Busy
  <1>2. QED
    BY <1>1, LayoutAfter

\* What the invariants say while a session or nothing goes on
LEMMA RunningFacts ==
  ASSUME IInv, Layout, session.step \notin Ended
  PROVE  /\ files \in Worlds /\ DOMAIN session = DOMAIN Idle
         /\ ClassesIn(class, table) /\ Parents(class)
         /\ ReadyIn(class, Busy) /\ LaidOutIn(class, table) /\ \A c \in Busy : LaidOut(class, c)
         /\ session.step # "itable" => ReadyIn(class, {})
         /\ ClosedUp(class, Concrete(table)) /\ ClosedUp(class, DOMAIN class)
         /\ session.step # "patch" => ClosedIn(class, table, {})
  <1>1. files \in Worlds /\ DOMAIN session = DOMAIN Idle /\ Session
    BY DEF IInv, Ended
  <1>2. /\ ClassesIn(class, table)
        /\ ClosedIn(class, table, IF session.step = "patch" THEN Found ELSE {})
    BY <1>1 DEF Session
  <1>3. ClosedUp(class, Concrete(table)) /\ ClosedUp(class, DOMAIN class)
    BY <1>2, ConcreteFacts
  <1>4. Parents(class)
    BY <1>1, <1>2, ParentsAreAcyclic
  <1>5. ReadyIn(class, Busy) /\ LaidOutIn(class, table) /\ \A c \in Busy : LaidOut(class, c)
    BY DEF Layout
  <1>6. session.step # "itable" => Busy = {}
    BY DEF Busy
  <1>7. QED
    BY <1>1, <1>2, <1>3, <1>4, <1>5, <1>6

LEMMA RunningAfter ==
  ASSUME IInv', files' = files, session'.step \notin Ended
  PROVE  ClassesIn(class', table') /\ Parents(class')
  <1>1. files \in Worlds /\ ClassesIn(class, table)'
    BY DEF IInv, Ended, Session
  <1>2. ClassesIn(class', table')
    BY <1>1, FilesStay
  <1>3. QED
    BY <1>1, <1>2, ParentsAreAcyclic

\* Steps that leave the classes and the table alone
LEMMA QuietKeeps ==
  ASSUME IInv, Layout, UNCHANGED <<files, class, table>>, session.step \notin Ended,
         session.step # "itable", session'.step # "itable"
  PROVE  Layout'
  <1>1. ReadyIn(class, {}) /\ LaidOutIn(class, table)
    BY RunningFacts
  <1>2. ReadyIn(class', {}) /\ LaidOutIn(class', table')
    BY <1>1
  <1>3. QED
    BY <1>2, LayoutAtRest

\* Steps that leave what is published and its layout, and lay out nothing
LEMMA SparesPublished ==
  ASSUME IInv, Layout, IInv', session.step \notin Ended, files' = files,
         Concrete(table') = Concrete(table), SameLayout(class, class', Concrete(table)),
         ReadyIn(class', {}), session'.step # "itable"
  PROVE  Layout'
  <1>1. ASSUME session'.step \notin Ended
        PROVE  LaidOutIn(class', table')
    <2>1. Parents(class) /\ Parents(class') /\ ClosedUp(class, Concrete(table))
      BY <1>1, RunningFacts, RunningAfter
    <2>2. LaidOutIn(class, table)
      BY RunningFacts
    <2>3. QED
      BY <2>1, <2>2, LayoutKeeps DEF LaidOutIn
  <1>2. QED
    BY <1>1, LayoutAtRest

\* Steps that leave the layout of all classes
LEMMA SparesAll ==
  ASSUME IInv, Layout, IInv', session.step \notin Ended, files' = files,
         Concrete(table') = Concrete(table),
         DOMAIN class' = DOMAIN class, SameLayout(class, class', DOMAIN class),
         Busy' = Busy, Busy \subseteq DOMAIN class
  PROVE  Layout'
  <1>1. ReadyIn(class', Busy')
    BY RunningFacts, ReadyKeeps
  <1>2. ASSUME session'.step \notin Ended
        PROVE  LaidOutIn(class', table') /\ \A c \in Busy' : LaidOut(class', c)
    <2>1. Parents(class) /\ Parents(class') /\ ClosedUp(class, DOMAIN class)
      BY <1>2, RunningFacts, RunningAfter
    <2>2. \A c \in DOMAIN class : LaidOut(class, c) => LaidOut(class', c)
      BY <2>1, LayoutKeeps
    <2>3. LaidOutIn(class, table) /\ Concrete(table) \subseteq DOMAIN class
      BY RunningFacts DEF ClosedUp
    <2>4. \A c \in Busy : LaidOut(class, c)
      BY RunningFacts
    <2>5. QED
      BY <2>2, <2>3, <2>4 DEF LaidOutIn
  <1>3. QED
    BY <1>1, <1>2, LayoutAfter

----------------------------------------------------------------------------
(* Step by step *)

LEMMA GoneAstray ==
  ASSUME NEW step \in Astray, GoesAstray(step)
  PROVE  Layout'
  <1>1. session'.step \in Ended
    BY DEF GoesAstray, Layout, Ended
  <1>2. QED
    BY <1>1 DEF Layout

\* The steps that only find out what is to be linked
LEMMA SearchKeeps ==
  ASSUME IInv, Layout,
         \/ Discovered \/ ListAncestor \/ AncestorsListed \/ PatchEnd \/ FlattenStart \/ ListRoot
         \/ RootsListed \/ FlattenOne \/ ListExtended \/ ExtendedListed \/ Filled
  PROVE  Layout'
  <1>1. session.step \notin Ended
    BY DEF Discovered, ListAncestor, AncestorsListed, PatchEnd, FlattenStart, ListRoot, RootsListed,
           FlattenOne, ListExtended, ExtendedListed, Filled, Ended, Astray
  <1>2. DOMAIN session = DOMAIN Idle
    BY <1>1, RunningFacts
  <1>3. ASSUME NEW step \in Astray, GoesAstray(step)
        PROVE  Layout'
    BY <1>3, GoneAstray
  <1>4. ASSUME \A step \in Astray : ~GoesAstray(step)
        PROVE  /\ UNCHANGED <<files, class, table>>
               /\ session.step # "itable" /\ session'.step # "itable"
    <2>1. CASE Discovered \/ ListAncestor \/ AncestorsListed \/ PatchEnd
      BY <1>2, <1>4, <2>1 DEF Discovered, ListAncestor, AncestorsListed, PatchEnd, Astray, Idle
    <2>2. CASE FlattenStart \/ ListRoot \/ ListExtended \/ Filled
      BY <1>2, <1>4, <2>2 DEF FlattenStart, ListRoot, ListExtended, Filled, Astray, Idle
    <2>3. CASE RootsListed \/ FlattenOne \/ ExtendedListed
      BY <1>2, <1>4, <2>3 DEF RootsListed, FlattenOne, ExtendedListed, LoopAt, Astray, Idle
    <2>4. QED
      BY <2>1, <2>2, <2>3
  <1>5. QED
    BY <1>1, <1>3, <1>4, QuietKeeps

\* Conversion gives every method an index, and lays out the class's own fields.
LEMMA ConvertedReady ==
  ASSUME files \in Worlds, NEW cl, ReadyIn(cl, {}),
         NEW S, \A c \in S : NameOf(c) # ArrayName /\ NameOf(c) \in Names
  PROVE  ReadyIn(WithConverted(cl, S), {})
  <1> DEFINE new == WithConverted(cl, S)
  <1>1. /\ DOMAIN new = DOMAIN cl \cup S
        /\ \A c \in S : new[c] = Converted(NameOf(c))
        /\ \A c \in DOMAIN cl \ S : new[c] = cl[c]
    BY DEF WithConverted, Added
  <1>2. \A c \in S : FileOf(c) = files[NameOf(c)]
    BY DEF FileOf
  <1>3. \A c \in S : DOMAIN Converted(NameOf(c)).vtableIndex = DOMAIN files[NameOf(c)].methods
    BY DEF Converted
  <1> HIDE DEF new
  <1>4. \A c \in S : FieldsFrom(new, c, 0)
    BY <1>1, ConvertedFields
  <1>5. \A c \in DOMAIN cl \ S : FieldsFrom(cl, c, 0) => FieldsFrom(new, c, 0)
    BY <1>1 DEF FieldsFrom
  <1>6. ReadyIn(new, {})
    BY <1>1, <1>2, <1>3, <1>4, <1>5 DEF ReadyIn
  <1>7. QED
    BY <1>6 DEF new

LEMMA LoadLaysOut ==
  ASSUME IInv, Layout, IInv', NEW name \in Names, NEW d, Load(name, d)
  PROVE  Layout'
  <1> DEFINE c == Fresh(name)
  <1>1. /\ session.step = "idle" /\ name # ArrayName /\ files' = files /\ table' = table
        /\ class' = WithConverted(class, {c})
        /\ session' = [Idle EXCEPT !.step = "discover", !.depth = d, !.root = c, !.queue = <<c>>]
    BY DEF Load
  <1>2. session.step \notin Ended /\ session'.step = "discover"
    BY <1>1 DEF Ended, Astray, Idle
  <1>3. /\ files \in Worlds /\ ClassesIn(class, table) /\ ReadyIn(class, {})
        /\ ClosedUp(class, Concrete(table))
    BY <1>1, <1>2, RunningFacts
  <1>4. NameOf(c) = name /\ c \notin DOMAIN class
    BY <1>3, FreshFacts DEF ClassesIn
  <1> HIDE DEF c
  <1>5. ReadyIn(class', {})
    BY <1>1, <1>3, <1>4, ConvertedReady
  <1>6. \A x \in DOMAIN class : x \in DOMAIN class' /\ class'[x] = class[x]
    BY <1>1, <1>4 DEF WithConverted, Added
  <1>7. SameLayout(class, class', Concrete(table))
    BY <1>3, <1>6 DEF SameLayout, ClosedUp
  <1>8. QED
    BY <1>1, <1>2, <1>5, <1>7, SparesPublished

\* A class of a session is converted, if any, and one that is not published may get its
\* superclass.
LEMMA ConversionLaysOut ==
  ASSUME IInv, Layout, IInv', session.step = "discover", session'.step = "discover",
         UNCHANGED <<files, table>>,
         NEW name, name # ArrayName, NEW new, ConvertsFor(name, new),
         NEW c, c \notin InTable(table), NEW parent,
         \/ class' = WithConverted(class, ToSet(new))
         \/ class' = [WithConverted(class, ToSet(new)) EXCEPT ![c].parent = parent]
  PROVE  Layout'
  <1> DEFINE cl == WithConverted(class, ToSet(new))
  <1>1. session.step \notin Ended
    BY DEF Ended, Astray
  <1>2. /\ files \in Worlds /\ ClassesIn(class, table) /\ ReadyIn(class, {})
        /\ ClosedUp(class, Concrete(table))
    BY <1>1, RunningFacts
  <1>3. /\ \A x \in ToSet(new) : NameOf(x) = name /\ NameOf(x) \in Names
        /\ DOMAIN cl = DOMAIN class \cup ToSet(new)
        /\ \A x \in DOMAIN class : cl[x] = class[x]
        /\ ClassesIn(cl, table)
    BY DEF ConvertsFor, Converts, ClassesIn
  <1>4. ReadyIn(cl, {})
    BY <1>2, <1>3, ConvertedReady
  <1>5. \A x \in DOMAIN cl : DOMAIN cl[x] = ClassFields
    BY <1>3 DEF ClassesIn, Shaped
  <1>6. class' = cl \/ class' = [cl EXCEPT ![c].parent = parent]
    OBVIOUS
  <1> HIDE DEF cl
  <1>7. /\ DOMAIN class' = DOMAIN cl
        /\ \A x \in DOMAIN cl : \A f \in {"linked", "vtable", "vtableIndex", "offset", "size"} :
             class'[x][f] = cl[x][f]
        /\ \A x \in DOMAIN cl \ {c} : class'[x].parent = cl[x].parent
    BY <1>5, <1>6 DEF ClassFields
  <1>8. ReadyIn(class', {})
    BY <1>4, <1>7 DEF ReadyIn, FieldsFrom
  <1>9. SameLayout(class, class', Concrete(table))
    <2>1. \A x \in Concrete(table) : x \in DOMAIN class /\ x # c
      BY <1>2 DEF ClosedUp, Concrete
    <2>2. QED
      BY <1>3, <1>7, <2>1 DEF SameLayout
  <1>10. QED
    BY <1>1, <1>8, <1>9, SparesPublished

LEMMA DiscoverInterfaceLaysOut ==
  ASSUME IInv, Layout, IInv', DiscoverInterface
  PROVE  Layout'
  <1> DEFINE n == Head(session.left)
             new == Missing(session.required, n)
  <1>1. /\ session.step = "discover" /\ session.left # <<>>
        /\ class' = WithConverted(class, ToSet(new))
        /\ session' = [session EXCEPT !.queue = @ \o new, !.left = Tail(@)]
        /\ files' = files /\ table' = table
    BY DEF DiscoverInterface
  <1>2. session.step \notin Ended
    BY <1>1 DEF Ended, Astray
  <1>3. /\ files \in Worlds /\ ClassesIn(class, table) /\ ClosedIn(class, table, {})
        /\ DOMAIN session = DOMAIN Idle
    BY <1>1, <1>2, RunningFacts
  <1>4. Discovering
    BY <1>1 DEF IInv, Session, Astray
  <1>5. session'.step = "discover"
    BY <1>1, <1>3 DEF Idle
  <1>6. n \in DOMAIN files
    BY <1>1, <1>4, HeadFacts DEF Discovering
  <1> HIDE DEF n
  <1>7. n \in Names /\ n # ArrayName /\ NoClass \notin InTable(table)
    BY <1>3, <1>6, FileFacts DEF Names, InTable
  <1>8. ConvertsFor(n, new)
    BY <1>3, <1>7, MissingKeeps
  <1> HIDE DEF new
  <1>9. QED
    BY <1>1, <1>5, <1>7, <1>8, ConversionLaysOut

LEMMA DiscoverLaysOut ==
  ASSUME IInv, Layout, IInv', Discover
  PROVE  Layout'
  <1> DEFINE c == Head(session.queue)
             r == <<c>> \o session.required
             super == FileOf(c).super
             parent == IF super = NoName THEN NoClass ELSE Parent(r, super)
             new == IF super = NoName THEN <<>> ELSE Missing(r, super)
  <1>1. /\ session.step = "discover" /\ session.queue # <<>>
        /\ class' = [WithConverted(class, ToSet(new)) EXCEPT ![c].parent = parent]
        /\ session' = [session EXCEPT !.queue = Tail(@) \o new, !.required = r, !.left = FileOf(c).ifaces]
        /\ files' = files /\ table' = table
    BY DEF Discover
  <1>2. session.step \notin Ended
    BY <1>1 DEF Ended, Astray
  <1>3. /\ files \in Worlds /\ ClassesIn(class, table) /\ ClosedIn(class, table, {})
        /\ DOMAIN session = DOMAIN Idle
    BY <1>1, <1>2, RunningFacts
  <1>4. Discovering
    BY <1>1 DEF IInv, Session, Astray
  <1>5. session'.step = "discover"
    BY <1>1, <1>3 DEF Idle
  <1>6. c \in DOMAIN class /\ c \in ToSet(session.queue)
    BY <1>1, <1>4, HeadFacts DEF Discovering
  <1>7. c \notin InTable(table)
    BY <1>3, <1>4, <1>6, TableFacts DEF Discovering, Unpublished
  <1>8. super \in DOMAIN files \cup {NoName}
    BY <1>3, <1>6, FileFacts DEF ClassesIn
  <1> HIDE DEF c, r
  <1>9. super # ArrayName /\ (super # NoName => super \in Names)
    BY <1>3, <1>8, FileFacts DEF Names, NoName, ArrayName
  <1>10. ConvertsFor(super, new)
    BY <1>3, <1>9, MissingKeeps, NothingConverts
  <1> HIDE DEF super, new, parent
  <1>11. QED
    BY <1>1, <1>5, <1>7, <1>9, <1>10, ConversionLaysOut

\* A list of interfaces changes nothing of the vtables.
LEMMA PatchLaysOut ==
  ASSUME IInv, Layout, IInv', PatchInterface
  PROVE  Layout'
  <1> DEFINE c == session.at
  <1>1. CASE GoesAstray("abort")
    BY <1>1, GoneAstray DEF Astray
  <1>2. CASE ~GoesAstray("abort")
    <2>1. /\ session.step = "patch" /\ session.at # IfaceList /\ files' = files
          /\ session' = [session EXCEPT !.at = PatchNext(c)]
          /\ IF class[c].linked THEN UNCHANGED <<class, table>>
             ELSE /\ class' = [class EXCEPT ![c].linked = TRUE, ![c].implements = Extended(c)]
                  /\ table' = [table EXCEPT ![NameOf(c)] = c]
                  /\ table[NameOf(c)] = NoClass
      BY <1>2 DEF PatchInterface
    <2>2. session.step \notin Ended
      BY <2>1 DEF Ended, Astray
    <2>3. /\ files \in Worlds /\ DOMAIN session = DOMAIN Idle /\ ClassesIn(class, table)
      BY <2>2, RunningFacts
    <2>4. Patching
      BY <2>1 DEF IInv, Session, Astray
    <2>5. session'.step = "patch"
      BY <2>1, <2>3 DEF Idle
    <2>6. c \in Found
      BY <2>1, <2>4 DEF Patching
    <2>7. c \in DOMAIN class /\ IsInterface(c)
      <3>1. ToSet(session.required) \subseteq DOMAIN class
        BY <2>4 DEF Patching, AllDiscovered, ToSet
      <3>2. QED
        BY <2>6, <3>1 DEF Found
    <2> HIDE DEF c
    <2>8. CASE class[c].linked
      BY <2>1, <2>2, <2>5, <2>8, QuietKeeps
    <2>9. CASE ~class[c].linked
      <3>1. /\ class' = [class EXCEPT ![c].linked = TRUE, ![c].implements = Extended(c)]
            /\ table' = [table EXCEPT ![NameOf(c)] = c]
        BY <2>1, <2>9
      <3>2. DOMAIN class[c] = ClassFields
        BY <2>3, <2>7 DEF ClassesIn, Shaped
      <3>3. DOMAIN class' = DOMAIN class /\ SameLayout(class, class', DOMAIN class)
        BY <2>7, <3>1, <3>2 DEF SameLayout, ClassFields
      <3>4. InTable(table') \cup {c} = InTable(table) \cup {c}
        <4>1. NameOf(c) \in Names /\ DOMAIN table = Names /\ table[NameOf(c)] = NoClass
          BY <2>1, <2>3, <2>7, <2>9 DEF ClassesIn
        <4>2. \A n \in Names : table'[n] = IF n = NameOf(c) THEN c ELSE table[n]
          BY <3>1, <4>1
        <4>3. QED
          BY <4>1, <4>2 DEF InTable
      <3>5. Concrete(table') = Concrete(table)
        BY <2>7, <3>4 DEF Concrete
      <3>6. QED
        BY <2>1, <2>2, <2>5, <3>3, <3>5, SparesAll DEF Busy
    <2>10. QED
      BY <2>8, <2>9
  <1>3. QED
    BY <1>1, <1>2

\* Steps that change the implementations of the class to be linked only
LEMMA FlattenEndLaysOut ==
  ASSUME IInv, Layout, IInv', FlattenEnd
  PROVE  Layout'
  <1> DEFINE empty == [k \in 1..session.count |-> [interface |-> NoClass, vtableIndex |-> <<>>]]
  <1>1. /\ session.step = "flatten" /\ UNCHANGED <<files, table>>
        /\ \/ session' = LoopAt(links.next[IfaceDiscovery]) /\ UNCHANGED class
           \/ /\ class' = [class EXCEPT ![ToLink].implements = empty]
              /\ session' = [session EXCEPT !.step = "fill", !.at = links.next[IfaceRequired], !.count = 0]
    BY DEF FlattenEnd
  <1>2. session.step \notin Ended
    BY <1>1 DEF Ended, Astray
  <1>3. /\ DOMAIN session = DOMAIN Idle /\ ClassesIn(class, table)
    BY <1>2, RunningFacts
  <1>4. session'.step # "itable"
    BY <1>1, <1>3 DEF LoopAt, Idle
  <1> HIDE DEF empty
  <1>5. Shaped(class)
    BY <1>3 DEF ClassesIn
  <1>6. DOMAIN class' = DOMAIN class /\ SameLayout(class, class', DOMAIN class)
    BY <1>1, <1>5 DEF Shaped, SameLayout, ClassFields
  <1>7. Concrete(table') = Concrete(table)
    BY <1>1 DEF Concrete
  <1>8. QED
    BY <1>1, <1>2, <1>4, <1>6, <1>7, SparesAll DEF Busy

LEMMA FillOneLaysOut ==
  ASSUME IInv, Layout, IInv', FillOne
  PROVE  Layout'
  <1> DEFINE k == session.count + 1
  <1>1. CASE GoesAstray("lost")
    BY <1>1, GoneAstray DEF Astray
  <1>2. CASE ~GoesAstray("lost")
    <2>1. /\ session.step = "fill" /\ session.step \in Later /\ UNCHANGED <<files, table>>
          /\ k \in DOMAIN Implements
          /\ class' = [class EXCEPT ![ToLink].implements[k]["interface"] = session.at]
          /\ session' = [session EXCEPT !.at = links.next[session.at], !.count = k]
      BY <1>2 DEF FillOne, Implements, Later
    <2>2. session.step \notin Ended
      BY <2>1 DEF Ended, Astray
    <2>3. DOMAIN session = DOMAIN Idle /\ session.ancestry # <<>>
      BY <2>1, LaterFacts DEF LinkingOne
    <2>4. session'.step = "fill"
      BY <2>1, <2>3 DEF Idle
    <2> HIDE DEF k
    <2>5. Changes(k, "interface", session.at, class')
      BY <2>1, <2>3, ImplementationKeeps
    <2>6. DOMAIN class' = DOMAIN class /\ SameLayout(class, class', DOMAIN class)
      BY <2>5 DEF Changes, SameLayout, ClassFields
    <2>7. Concrete(table') = Concrete(table)
      BY <2>1 DEF Concrete
    <2>8. QED
      BY <2>1, <2>2, <2>4, <2>6, <2>7, SparesAll DEF Busy
  <1>3. QED
    BY <1>1, <1>2

LEMMA FixupImplementationLaysOut ==
  ASSUME IInv, Layout, IInv', FixupImplementation
  PROVE  Layout'
  <1> DEFINE k == Head(session.left)
             i == Implements[k].interface
  <1>1. CASE GoesAstray("crash")
    BY <1>1, GoneAstray DEF Astray
  <1>2. CASE ~GoesAstray("crash")
    <2> DEFINE indices == ImplementationIndices(class, ToLink, i)
               numbers == InterfaceIndices(class, i)
               half == [class EXCEPT ![ToLink].implements[k]["vtableIndex"] = indices]
    <2>1. /\ session.step = "itable" /\ session.step \in Later /\ UNCHANGED <<files, table>>
          /\ session.left # <<>>
          /\ class' = [half EXCEPT ![i].interfaceIndex = numbers]
          /\ session' = [session EXCEPT !.left = Tail(@)]
      BY <1>2 DEF FixupImplementation, WithImplementation, Later, Implements
    <2> HIDE DEF indices, numbers, half
    <2>2. session.step \notin Ended
      BY <2>1 DEF Ended, Astray
    <2>3. /\ DOMAIN session = DOMAIN Idle /\ session.ancestry # <<>>
          /\ session.left \in Seq(DOMAIN Implements)
      BY <2>1, LaterFacts DEF LinkingOne
    <2>4. session'.step = "itable" /\ session'.ancestry = session.ancestry
      BY <2>1, <2>3 DEF Idle
    <2>5. k \in DOMAIN Implements
      BY <2>1, <2>3, HeadFacts
    <2> HIDE DEF k, i
    <2>6. Changes(k, "vtableIndex", indices, half)
      BY <2>1, <2>3, <2>5, ImplementationKeeps DEF half
    <2>7. DOMAIN half = DOMAIN class /\ SameLayout(class, half, DOMAIN class)
      BY <2>6 DEF Changes, SameLayout, ClassFields
    <2>8. \A c \in DOMAIN half : DOMAIN half[c] = ClassFields
      BY <2>6 DEF Changes, Shaped
    <2>9. DOMAIN class' = DOMAIN class /\ SameLayout(class, class', DOMAIN class)
      BY <2>1, <2>7, <2>8 DEF SameLayout, ClassFields
    <2>10. ToLink' = ToLink /\ ToLink \in DOMAIN class
      BY <2>1, <2>3, <2>4, ToLinkFacts DEF ToLink
    <2>11. Concrete(table') = Concrete(table)
      BY <2>1 DEF Concrete
    <2>12. Busy' = Busy /\ Busy \subseteq DOMAIN class
      BY <2>1, <2>4, <2>10 DEF Busy
    <2>13. QED
      BY <2>1, <2>2, <2>9, <2>11, <2>12, SparesAll
  <1>3. QED
    BY <1>1, <1>2

\* The class is laid out.
LEMMA FixupMembersLaysOut ==
  ASSUME IInv, Layout, IInv', FixupMembers
  PROVE  Layout'
  <1>1. /\ session.step = "fixup" /\ session.step \in Later /\ UNCHANGED <<files, table>>
        /\ class' = WithVtable(WithFields(class, ToLink), ToLink)
        /\ session' = [session EXCEPT !.step = "itable",
                                      !.left = [k \in DOMAIN class[ToLink].implements |-> k]]
    BY DEF FixupMembers, Later
  <1>2. session.step \notin Ended
    BY <1>1 DEF Ended, Astray
  <1>3. /\ files \in Worlds /\ DOMAIN session = DOMAIN Idle
        /\ ClassesIn(class, table) /\ ClosedIn(class, table, {})
        /\ ReadyIn(class, {}) /\ LaidOutIn(class, table)
    BY <1>1, <1>2, RunningFacts
  <1>4. session.ancestry # <<>>
    BY <1>1, LaterFacts DEF LinkingOne
  <1>5. /\ ToLink \in DOMAIN class /\ ~IsInterface(ToLink) /\ ToLink \notin InTable(table)
        /\ class[ToLink].parent \in InTable(table) \cup {NoClass} /\ ~class[ToLink].linked
    BY <1>1, <1>4, ToLinkFacts
  <1>6. Busy' = {ToLink}
    BY <1>1, <1>3 DEF ToLink, Idle, Busy
  <1>7. ReadyIn(class', {ToLink}) /\ LaidOutIn(class', table) /\ LaidOut(class', ToLink)
    BY <1>1, <1>3, <1>5, MembersBuild
  <1>8. QED
    BY <1>1, <1>6, <1>7, LayoutAfter

----------------------------------------------------------------------------
(* Publication, and the end of a session *)

\* What a session leaves is laid out as it was.
LEMMA EndLaysOut ==
  ASSUME files \in Worlds, files' = files, IInv', NEW cl, NEW l,
         ClassesIn(cl, table'), ClosedIn(cl, table', {}), LaidOutIn(cl, table'),
         NEW busy, ReadyIn(cl, busy), \A c \in busy : LaidOut(cl, c),
         Fail(cl, table', l) \/ End(cl, table', l)
  PROVE  Layout'
  <1>1. CASE session' = [Idle EXCEPT !.step = "exited"]
    <2>1. session'.step \in Ended
      BY <1>1 DEF Idle, Ended
    <2>2. QED
      BY <2>1 DEF Layout
  <1>2. CASE End(cl, table', l)
    <2> DEFINE tbl == table'
               rest == DOMAIN class'
    <2>1. /\ session' = Idle /\ rest \subseteq DOMAIN cl /\ InTable(tbl) \subseteq rest
          /\ \A c \in rest : class'[c] = cl[c] /\ (c \in InTable(tbl) \/ cl[c].parent = NoClass)
      BY <1>2, EndKeeps
    <2> HIDE DEF tbl, rest
    <2>2. ClassesIn(cl, tbl) /\ ClosedIn(cl, tbl, {})
      BY DEF tbl
    <2>3. ReadyIn(class', {})
      <3>1. ASSUME NEW c \in rest
            PROVE  /\ DOMAIN class'[c].vtableIndex = DOMAIN FileOf(c).methods
                   /\ ~class'[c].linked => FieldsFrom(class', c, 0)
        <4>1. c \in DOMAIN cl /\ class'[c] = cl[c]
          BY <2>1
        <4>2. FieldsFrom(cl, c, 0) => FieldsFrom(class', c, 0)
          BY <4>1 DEF FieldsFrom
        <4>3. c \in InTable(tbl) => cl[c].linked
          BY <2>2 DEF ClassesIn, InTable
        <4>4. c \in busy /\ cl[c].parent = NoClass => FieldsFrom(cl, c, 0)
          BY DEF LaidOut, ParentSize
        <4>5. QED
          BY <2>1, <4>1, <4>2, <4>3, <4>4 DEF ReadyIn
      <3>2. QED
        BY <3>1 DEF ReadyIn, rest
    <2>4. SameLayout(cl, class', Concrete(tbl))
      BY <2>1 DEF SameLayout, Concrete, rest
    <2>5. session'.step = "idle"
      BY <2>1 DEF Idle
    <2>6. Parents(class')
      BY <2>5, RunningAfter DEF Ended, Astray
    <2>7. Parents(cl) /\ ClosedUp(cl, Concrete(tbl))
      BY <2>2, ParentsAreAcyclic, ConcreteFacts
    <2>8. LaidOutIn(class', tbl)
      BY <2>4, <2>6, <2>7, LayoutKeeps DEF LaidOutIn, tbl
    <2>9. QED
      BY <2>3, <2>5, <2>8, LayoutAtRest DEF tbl
  <1>3. QED
    BY <1>1, <1>2 DEF Fail

\* A class that is published when it and the published ones are laid out
LEMMA PublicationLaysOut ==
  ASSUME files \in Worlds, NEW cl, NEW tbl, NEW new, NEW published, NEW c,
         ClassesIn(cl, tbl), ClassesIn(new, published),
         DOMAIN new = DOMAIN cl, SameLayout(cl, new, DOMAIN cl),
         ReadyIn(cl, {c}), LaidOutIn(cl, tbl), ~IsInterface(c) => c \in DOMAIN cl /\ LaidOut(cl, c),
         new[c].linked, InTable(published) \subseteq InTable(tbl) \cup {c}
  PROVE  ReadyIn(new, {}) /\ LaidOutIn(new, published)
  <1>1. Parents(cl) /\ Parents(new)
    BY ParentsAreAcyclic
  <1>2. ClosedUp(cl, DOMAIN cl)
    BY DEF ClosedUp, ClassesIn
  <1>3. ASSUME NEW d \in Concrete(published)
        PROVE  LaidOut(new, d)
    <2>1. d \in DOMAIN cl /\ LaidOut(cl, d)
      <3>1. CASE d = c
        BY <1>3, <3>1 DEF Concrete
      <3>2. CASE d # c
        BY <1>3, <3>2, TableFacts DEF Concrete, LaidOutIn
      <3>3. QED
        BY <3>1, <3>2
    <2>2. QED
      BY <1>1, <1>2, <2>1, LayoutKeeps
  <1>4. ReadyIn(new, {c})
    BY ReadyKeeps
  <1>5. ReadyIn(new, {})
    BY <1>4 DEF ReadyIn
  <1>6. QED
    BY <1>3, <1>5 DEF LaidOutIn

\* A flag of a class changes no layout.
LEMMA FlagsSpare ==
  ASSUME NEW cl, Shaped(cl), NEW c
  PROVE  /\ DOMAIN WithLinked(cl, c) = DOMAIN cl /\ SameLayout(cl, WithLinked(cl, c), DOMAIN cl)
         /\ DOMAIN WithObject(cl, c) = DOMAIN cl /\ SameLayout(cl, WithObject(cl, c), DOMAIN cl)
         /\ LET both == WithObject(WithLinked(cl, c), c)
            IN  DOMAIN both = DOMAIN cl /\ SameLayout(cl, both, DOMAIN cl)
         /\ c \in DOMAIN cl => /\ WithLinked(cl, c)[c].linked
                               /\ WithObject(WithLinked(cl, c), c)[c].linked
  <1>1. \A d \in DOMAIN cl : DOMAIN cl[d] = ClassFields
    BY DEF Shaped
  <1> DEFINE linked == [cl EXCEPT ![c].linked = TRUE]
             object == [cl EXCEPT ![c].object = TRUE]
  <1>2. DOMAIN linked = DOMAIN cl /\ SameLayout(cl, linked, DOMAIN cl)
    BY <1>1 DEF SameLayout, ClassFields
  <1>3. DOMAIN object = DOMAIN cl /\ SameLayout(cl, object, DOMAIN cl)
    BY <1>1 DEF SameLayout, ClassFields
  <1> DEFINE both == [linked EXCEPT ![c].object = TRUE]
  <1>4. DOMAIN both = DOMAIN cl /\ SameLayout(cl, both, DOMAIN cl)
    BY <1>1 DEF SameLayout, ClassFields
  <1>5. c \in DOMAIN cl => linked[c].linked /\ both[c].linked
    BY <1>1 DEF ClassFields
  <1>6. QED
    BY <1>2, <1>3, <1>4, <1>5 DEF WithLinked, WithObject

\* The class that is linked is published as it was laid out.
LEMMA ToLinkLaysOut ==
  ASSUME IInv, Layout, MayBePublished, table[NameOf(ToLink)] = NoClass
  PROVE  /\ ReadyIn(WithLinked(class, ToLink), {})
         /\ LaidOutIn(WithLinked(class, ToLink), Published(ToLink))
  <1> DEFINE cl == WithLinked(class, ToLink)
             tbl == Published(ToLink)
  <1>1. LinkedIn(cl, tbl) /\ ToLink \in DOMAIN class
    BY ToLinkPublished
  <1>2. session.step = "itable" /\ session.step \notin Ended /\ Busy = {ToLink}
    BY DEF MayBePublished, Ended, Astray, Busy
  <1>3. /\ files \in Worlds /\ ClassesIn(class, table) /\ LaidOutIn(class, table)
        /\ ReadyIn(class, {ToLink}) /\ LaidOut(class, ToLink)
    BY <1>2, RunningFacts
  <1>4. InTable(tbl) \subseteq InTable(table) \cup {ToLink}
    BY DEF Published, InTable
  <1>5. /\ DOMAIN cl = DOMAIN class /\ SameLayout(class, cl, DOMAIN class)
        /\ cl[ToLink].linked
    BY <1>1, <1>3, FlagsSpare DEF ClassesIn
  <1>6. ClassesIn(cl, tbl)
    BY <1>1 DEF LinkedIn
  <1> HIDE DEF cl, tbl
  <1>7. ReadyIn(cl, {}) /\ LaidOutIn(cl, tbl)
    BY <1>1, <1>3, <1>4, <1>5, <1>6, PublicationLaysOut
  <1>8. QED
    BY <1>7 DEF cl, tbl

LEMMA FlagLaysOut ==
  ASSUME files \in Worlds, NEW cl, NEW tbl, NEW new, ClassesIn(cl, tbl), ClassesIn(new, tbl),
         DOMAIN new = DOMAIN cl, SameLayout(cl, new, DOMAIN cl), ReadyIn(cl, {}), LaidOutIn(cl, tbl)
  PROVE  ReadyIn(new, {}) /\ LaidOutIn(new, tbl)
  <1>1. Parents(cl) /\ Parents(new) /\ ClosedUp(cl, DOMAIN cl)
    BY ParentsAreAcyclic DEF ClosedUp, ClassesIn
  <1>2. Concrete(tbl) \subseteq DOMAIN cl
    BY TableFacts DEF Concrete
  <1>3. LaidOutIn(new, tbl)
    BY <1>1, <1>2, LayoutKeeps DEF LaidOutIn
  <1>4. ReadyIn(new, {})
    BY ReadyKeeps
  <1>5. QED
    BY <1>3, <1>4

LEMMA FixupLaysOut ==
  ASSUME IInv, Layout, IInv', Fixup
  PROVE  Layout'
  <1> DEFINE cl == WithLinked(class, ToLink)
  <1>1. /\ MayBePublished /\ table[NameOf(ToLink)] = NoClass
        /\ table' = Published(ToLink) /\ files' = files
        /\ \/ /\ class' = WithObject(cl, ToLink)
              /\ session' = [session EXCEPT !.ancestry = Tail(@), !.step = "link"]
           \/ Fail(cl, table', links)
    BY DEF Fixup
  <1>2. LinkedIn(cl, table') /\ files \in Worlds /\ session.step \in Later
    BY <1>1, ToLinkPublished
  <1>3. ReadyIn(cl, {}) /\ LaidOutIn(cl, table')
    BY <1>1, ToLinkLaysOut
  <1> HIDE DEF cl
  <1>4. ClassesIn(cl, table') /\ ClosedIn(cl, table', {})
    BY <1>2 DEF LinkedIn
  <1>5. CASE Fail(cl, table', links)
    BY <1>1, <1>2, <1>3, <1>4, <1>5, EndLaysOut
  <1>6. CASE /\ class' = WithObject(cl, ToLink)
             /\ session' = [session EXCEPT !.ancestry = Tail(@), !.step = "link"]
    <2>1. session'.step = "link"
      BY <1>2, <1>6, LaterFacts DEF Idle
    <2>2. ClassesIn(class', table')
      BY <1>1, <2>1, RunningAfter DEF Ended, Astray
    <2>3. DOMAIN class' = DOMAIN cl /\ SameLayout(cl, class', DOMAIN cl)
      BY <1>4, <1>6, FlagsSpare DEF ClassesIn
    <2>4. ReadyIn(class', {}) /\ LaidOutIn(class', table')
      BY <1>2, <1>3, <1>4, <2>2, <2>3, FlagLaysOut
    <2>5. QED
      BY <1>1, <2>1, <2>4, LayoutAtRest
  <1>7. QED
    BY <1>1, <1>5, <1>6

\* java/lang/Class is fixed up like any class.
LEMMA JlClassLaysOut ==
  ASSUME files \in Worlds, NEW cl, NEW tbl, NEW j,
         ClassesIn(cl, tbl), ClosedIn(cl, tbl, {}), InterfacesIn(cl, tbl),
         ReadyIn(cl, {}), LaidOutIn(cl, tbl),
         IsPair(j), NameOf(j) = JlClass, j \notin DOMAIN cl, tbl[JlClass] = NoClass
  PROVE  LET child == [WithConverted(cl, {j}) EXCEPT ![j].parent = tbl[Object]]
             new == WithObject(WithLinked(WithVtable(WithFields(child, j), j), j), j)
         IN  ReadyIn(new, {}) /\ LaidOutIn(new, [tbl EXCEPT ![JlClass] = j])
  <1> DEFINE child == [WithConverted(cl, {j}) EXCEPT ![j].parent = tbl[Object]]
             fixed == WithVtable(WithFields(child, j), j)
             new == WithObject(WithLinked(fixed, j), j)
             published == [tbl EXCEPT ![JlClass] = j]
  <1>1. IsChild(cl, tbl, j, child)
    BY JlClassConverts
  <1>2. AddsJlClass(cl, tbl, j, new, published)
    BY JlClassKeeps
  <1> HIDE DEF child
  <1>3. /\ DOMAIN child = DOMAIN cl \cup {j} /\ \A d \in DOMAIN cl : child[d] = cl[d]
        /\ child[j].parent \in InTable(tbl) \cup {NoClass}
        /\ \A f \in {"linked", "vtableIndex", "offset", "size"} : child[j][f] = Converted(JlClass)[f]
        /\ ClassesIn(child, tbl) /\ ClosedIn(child, tbl, {})
    BY <1>1 DEF IsChild
  <1>4. ReadyIn(child, {}) /\ ~child[j].linked
    <2>1. FileOf(j) = files[JlClass] /\ JlClass # ArrayName /\ JlClass \in Names
      BY FileFacts DEF FileOf, Names
    <2>2. /\ DOMAIN Converted(JlClass).vtableIndex = DOMAIN files[JlClass].methods
          /\ ~Converted(JlClass).linked
      BY DEF Converted
    <2>3. FieldsFrom(child, j, 0)
      BY <1>3, <2>1, ConvertedFields
    <2>4. \A d \in DOMAIN cl : FieldsFrom(cl, d, 0) => FieldsFrom(child, d, 0)
      BY <1>3 DEF FieldsFrom
    <2>5. QED
      BY <1>3, <2>1, <2>2, <2>3, <2>4 DEF ReadyIn
  <1>5. LaidOutIn(child, tbl)
    <2>1. Parents(cl) /\ Parents(child) /\ ClosedUp(cl, Concrete(tbl))
      BY <1>3, ParentsAreAcyclic, ConcreteFacts
    <2>2. SameLayout(cl, child, Concrete(tbl))
      BY <1>3, <2>1 DEF SameLayout, ClosedUp
    <2>3. QED
      BY <2>1, <2>2, LayoutKeeps DEF LaidOutIn
  <1>6. /\ j \in DOMAIN child /\ j \notin InTable(tbl) /\ DOMAIN child[j] = ClassFields
    BY <1>3, TableFacts DEF ClassesIn, Shaped
  <1>7. SameButMembers(j, child, fixed)
    BY <1>6, MembersKeep
  <1>8. ClassesIn(fixed, tbl)
    BY <1>3, <1>6, <1>7, SameMembersKeep
  <1>9. DOMAIN fixed = DOMAIN child /\ \A d \in DOMAIN child \ {j} : fixed[d] = child[d]
    BY <1>7 DEF SameButMembers
  <1>10. /\ ReadyIn(fixed, {j}) /\ LaidOutIn(fixed, tbl)
         /\ (~IsInterface(j) => LaidOut(fixed, j))
    <2>1. CASE IsInterface(j)
      <3>1. fixed = WithFields(child, j)
        BY <2>1 DEF WithVtable
      <3>2. WithFields(child, j)[j].vtableIndex = child[j].vtableIndex
        BY <1>6 DEF WithFields, ClassFields
      <3>3. fixed[j].vtableIndex = child[j].vtableIndex
        BY <3>1, <3>2
      <3> HIDE DEF fixed
      <3>4. ReadyIn(fixed, {j})
        <4>1. \A d \in DOMAIN child \ {j} : FieldsFrom(child, d, 0) => FieldsFrom(fixed, d, 0)
          BY <1>9 DEF FieldsFrom
        <4>2. QED
          BY <1>4, <1>9, <3>3, <4>1 DEF ReadyIn
      <3>5. LaidOutIn(fixed, tbl)
        <4>1. Parents(child) /\ Parents(fixed) /\ ClosedUp(child, Concrete(tbl))
          BY <1>3, <1>8, ParentsAreAcyclic, ConcreteFacts
        <4>2. SameLayout(child, fixed, Concrete(tbl))
          BY <1>6, <1>9, <4>1 DEF SameLayout, ClosedUp, Concrete
        <4>3. QED
          BY <1>5, <4>1, <4>2, LayoutKeeps DEF LaidOutIn
      <3>6. QED
        BY <2>1, <3>4, <3>5
    <2>2. CASE ~IsInterface(j)
      BY <1>3, <1>4, <1>5, <1>6, <2>2, MembersBuild
    <2>3. QED
      BY <2>1, <2>2
  <1> HIDE DEF fixed
  <1>11. DOMAIN new = DOMAIN fixed /\ SameLayout(fixed, new, DOMAIN fixed) /\ new[j].linked
    BY <1>6, <1>8, <1>9, FlagsSpare DEF ClassesIn
  <1>12. ClassesIn(new, published) /\ InTable(published) = InTable(tbl) \cup {j}
    BY <1>2 DEF AddsJlClass
  <1>13. j \in DOMAIN fixed
    BY <1>6, <1>9
  <1> HIDE DEF new, published
  <1>14. ReadyIn(new, {}) /\ LaidOutIn(new, published)
    BY <1>8, <1>10, <1>11, <1>12, <1>13, PublicationLaysOut
  <1>15. QED
    BY <1>14 DEF new, fixed, child, published

LEMMA FixupFirstLaysOut ==
  ASSUME IInv, Layout, IInv', FixupFirst
  PROVE  Layout'
  <1> DEFINE j == Fresh(JlClass)
             cl == WithLinked(class, ToLink)
             tbl == Published(ToLink)
  <1>1. /\ MayBePublished /\ table[NameOf(ToLink)] = NoClass /\ files' = files
    BY DEF FixupFirst
  <1>2. /\ LinkedIn(cl, tbl) /\ DOMAIN cl = DOMAIN class
        /\ session.step \in Later /\ files \in Worlds
    BY <1>1, ToLinkPublished
  <1>3. ReadyIn(cl, {}) /\ LaidOutIn(cl, tbl)
    BY <1>1, ToLinkLaysOut
  <1>4. ClassesIn(cl, tbl) /\ ClosedIn(cl, tbl, {}) /\ InterfacesIn(cl, tbl)
    BY <1>2 DEF LinkedIn
  <1>5. CASE table' = tbl /\ Fail(cl, table', links)
    <2> HIDE DEF cl, tbl
    <2>1. QED
      BY <1>1, <1>2, <1>3, <1>4, <1>5, EndLaysOut
  <1>6. CASE /\ tbl[JlClass] = NoClass
             /\ table' = [tbl EXCEPT ![JlClass] = j]
             /\ class' = WithObject(WithJlClass(cl, j), ToLink)
             /\ session' = [session EXCEPT !.ancestry = Tail(@), !.step = "link"]
    <2>1. IsPair(j) /\ NameOf(j) = JlClass /\ j \notin DOMAIN class
      BY <1>2, LaterFacts, FreshFacts DEF ClassesIn
    <2> DEFINE both == WithJlClass(cl, j)
               child == [WithConverted(cl, {j}) EXCEPT ![j].parent = tbl[Object]]
               built == WithObject(WithLinked(WithVtable(WithFields(child, j), j), j), j)
               published == [tbl EXCEPT ![JlClass] = j]
    <2>2. both = built
      BY DEF WithJlClass
    <2> HIDE DEF j, cl, tbl, both
    <2>3. AddsJlClass(cl, tbl, j, built, published)
      BY <1>2, <1>4, <1>6, <2>1, JlClassKeeps
    <2>4. ReadyIn(built, {}) /\ LaidOutIn(built, published)
      BY <1>2, <1>3, <1>4, <1>6, <2>1, JlClassLaysOut
    <2> HIDE DEF built, published
    <2>5. ClassesIn(both, published) /\ ReadyIn(both, {}) /\ LaidOutIn(both, published)
      BY <2>2, <2>3, <2>4 DEF AddsJlClass
    <2>6. class' = WithObject(both, ToLink) /\ table' = published
      BY <1>6 DEF both, published
    <2>7. DOMAIN class' = DOMAIN both /\ SameLayout(both, class', DOMAIN both)
      BY <2>5, <2>6, FlagsSpare DEF ClassesIn
    <2>8. session'.step = "link"
      BY <1>2, <1>6, LaterFacts DEF Idle
    <2>9. ClassesIn(class', table')
      BY <1>1, <2>8, RunningAfter DEF Ended, Astray
    <2>10. ReadyIn(class', {}) /\ LaidOutIn(class', table')
      BY <1>2, <2>5, <2>6, <2>7, <2>9, FlagLaysOut
    <2>11. QED
      BY <1>1, <2>8, <2>10, LayoutAtRest
  <1>7. QED
    BY <1>5, <1>6 DEF FixupFirst

\* Sessions that fail, or have linked all their classes
LEMMA EndingLaysOut ==
  ASSUME IInv, Layout, IInv', DiscoverFails \/ FixupFails \/ Linked
  PROVE  Layout'
  <1>1. /\ session.step \notin Ended /\ session.step # "patch" /\ files' = files /\ table' = table
        /\ Fail(class, table', links) \/ End(class, table', links)
    BY DEF DiscoverFails, FixupFails, Linked, TableAfterFailure, Ended, Astray
  <1>2. /\ files \in Worlds /\ ClassesIn(class, table) /\ ClosedIn(class, table, {})
        /\ ReadyIn(class, Busy) /\ LaidOutIn(class, table) /\ \A c \in Busy : LaidOut(class, c)
    BY <1>1, RunningFacts
  <1>3. QED
    BY <1>1, <1>2, EndLaysOut

\* An array class has the vtable and the fields of java/lang/Object.
LEMMA LoadArrayLaysOut ==
  ASSUME IInv, Layout, IInv', LoadArray
  PROVE  Layout'
  <1> DEFINE c == <<ArrayName, 1>>
             object == table[Object]
             array == [Converted(Object) EXCEPT
                         !.parent = table[Object], !.linked = TRUE, !.object = TRUE,
                         !.vtable = class[table[Object]].vtable, !.vtableIndex = <<>>,
                         !.interfaceIndex = <<>>, !.offset = <<>>,
                         !.size = class[table[Object]].size]
  <1>1. /\ session.step = "idle" /\ table[ArrayName] = NoClass /\ object # NoClass
        /\ class' = Added(class, {c}, LAMBDA d : array)
        /\ table' = [table EXCEPT ![ArrayName] = c] /\ files' = files /\ session' = session
    BY DEF LoadArray
  <1>2. session.step \notin Ended /\ session'.step \notin Ended /\ session'.step # "itable"
    BY <1>1 DEF Ended, Astray
  <1>3. /\ files \in Worlds /\ ClassesIn(class, table) /\ ClosedIn(class, table, {})
        /\ ReadyIn(class, {}) /\ LaidOutIn(class, table) /\ Parents(class)
        /\ ClosedUp(class, Concrete(table))
    BY <1>1, <1>2, RunningFacts
  <1>4. ClassesIn(class', table') /\ Parents(class')
    BY <1>1, <1>2, RunningAfter
  <1>5. /\ array.parent = object /\ array.vtable = class[object].vtable /\ array.vtableIndex = <<>>
        /\ array.offset = <<>> /\ array.size = class[object].size /\ array.linked
    BY DEF Converted
  <1> HIDE DEF array
  <1>6. /\ DOMAIN class' = DOMAIN class \cup {c} /\ \A d \in DOMAIN class \ {c} : class'[d] = class[d]
        /\ class'[c] = array
    BY <1>1 DEF Added
  <1>7. NameOf(c) = ArrayName /\ ArrayName \in Names /\ Object \in Names /\ Object # ArrayName
    BY <1>3, FileFacts DEF NameOf, Names
  <1>8. FileOf(c).methods = <<>> /\ Virtuals(c) = {} /\ FileOf(c).fields = <<>>
    BY <1>7 DEF FileOf, Virtuals
  <1> HIDE DEF c, object
  <1>9. object \in Concrete(table)
    <2>1. object \in InTable(table) /\ NameOf(object) = Object
      BY <1>1, <1>3, <1>7 DEF InTable, ClassesIn, object
    <2>2. ~IsInterface(object)
      BY <1>3, <1>7, <2>1, FileFacts DEF Object, NoName
    <2>3. QED
      BY <2>1, <2>2 DEF Concrete
  <1>10. c \notin InTable(table)
    BY <1>1, <1>3, <1>7, TableFacts DEF InTable
  <1> DEFINE P == Concrete(table)
  <1>11. P \subseteq DOMAIN class /\ c \notin P
    BY <1>3, <1>10 DEF ClosedUp, Concrete
  <1>12. SameLayout(class, class', P) /\ ClosedUp(class', P)
    BY <1>3, <1>6, <1>11 DEF SameLayout, ClosedUp
  <1>13. \A d \in P : LaidOut(class', d) /\ VtableIn(class', d)
    BY <1>3, <1>4, <1>12, LayoutKeeps DEF LaidOutIn, LaidOut
  <1>14. /\ class'[c].parent = object /\ class'[object].vtable = class[object].vtable
         /\ class'[object].size = class[object].size /\ object # NoClass
    BY <1>1, <1>5, <1>6, <1>9, <1>12 DEF SameLayout
  <1>15. ParentVtable(class', c) = class'[c].vtable
    BY <1>5, <1>6, <1>14 DEF ParentVtable
  <1>16. class'[c].vtable = Vtable(class', c)
    <2> DEFINE vtable == class'[c].vtable
    <2>1. VtableIn(class', object) /\ vtable = class'[object].vtable
      BY <1>5, <1>6, <1>9, <1>13, <1>14
    <2>2. vtable \in Seq(ToSet(vtable))
      BY <2>1 DEF VtableIn
    <2>3. NewMethods(class', c) = {}
      BY <1>8 DEF NewMethods
    <2>4. Cardinality(NewMethods(class', c)) = 0
      BY <2>3, FS_EmptySet
    <2> HIDE DEF vtable
    <2>5. Len(vtable) \in Nat /\ DOMAIN vtable = 1..Len(vtable) /\ vtable = [k \in 1..Len(vtable) |-> vtable[k]]
      BY <2>2
    <2>6. Vtable(class', c) = [k \in 1..Len(vtable) + 0 |-> InheritedEntry(class', c, k)]
      BY <1>8, <1>15, <2>4 DEF Vtable, vtable
    <2>7. \A k \in 1..Len(vtable) : InheritedEntry(class', c, k) = vtable[k]
      BY <1>15, <2>5 DEF InheritedEntry, vtable
    <2>8. Vtable(class', c) = vtable
      BY <2>5, <2>6, <2>7
    <2>9. QED
      BY <2>8 DEF vtable
  <1>17. VtableIn(class', c)
    <2> DEFINE new == class'
    <2>1. /\ ClassesIn(new, table') /\ c \in DOMAIN new /\ Parents(new)
          /\ new[c].parent # NoClass => VtableIn(new, new[c].parent)
          /\ ClosedUp(new, P) /\ c \notin P /\ new[c].parent \in P \cup {NoClass}
          /\ new[c].vtable = Vtable(new, c) /\ Virtuals(c) = {}
      BY <1>4, <1>6, <1>8, <1>9, <1>11, <1>12, <1>13, <1>14, <1>16
    <2> HIDE DEF new, P
    <2>2. VtableIn(new, c)
      BY <1>3, <2>1, VtableBuilt
    <2>3. QED
      BY <2>2 DEF new
  <1>18. FieldsFrom(class', c, ParentSize(class', c))
    <2> DEFINE base == ParentSize(class', object)
    <2>1. FieldsFrom(class', object, base) /\ NameOf(object) \in Names
      BY <1>3, <1>9, <1>11, <1>13 DEF LaidOut, ClassesIn
    <2> HIDE DEF base
    <2>2. base \in Nat /\ class'[object].size = base + OwnSize(object) /\ OwnSize(object) \in Nat
      BY <1>3, <2>1, FieldSizes DEF FieldsFrom
    <2>3. class'[object].size \in Nat
      BY <2>2
    <2>4. ParentSize(class', c) = class'[object].size
      BY <1>14 DEF ParentSize
    <2>5. OwnSize(c) = 0
      BY <1>3, <1>7, <1>8, FieldSizes
    <2>6. class'[c].size = class'[object].size + 0
      BY <1>5, <1>6, <1>14, <2>3
    <2>7. InstanceFields(c) = {} /\ DOMAIN class'[c].offset = DOMAIN FileOf(c).fields
      BY <1>5, <1>6, <1>8 DEF InstanceFields
    <2>8. QED
      BY <2>3, <2>4, <2>5, <2>6, <2>7 DEF FieldsFrom
  <1>19. Concrete(table') \subseteq P \cup {c}
    BY <1>1, <1>3, <1>7 DEF Concrete, InTable, ClassesIn
  <1>20. LaidOutIn(class', table')
    BY <1>13, <1>17, <1>18, <1>19 DEF LaidOutIn, LaidOut
  <1>21. ReadyIn(class', {})
    <2>1. \A d \in DOMAIN class \ {c} : FieldsFrom(class, d, 0) => FieldsFrom(class', d, 0)
      BY <1>6 DEF FieldsFrom
    <2>2. QED
      BY <1>3, <1>5, <1>6, <1>8, <2>1 DEF ReadyIn
  <1>22. QED
    BY <1>1, <1>2, <1>20, <1>21, LayoutAtRest

----------------------------------------------------------------------------
(* The theorem *)

LEMMA NextLaysOut ==
  ASSUME IInv, Layout, IInv', Next
  PROVE  Layout'
  <1>1. CASE SessionStep
    <2>1. CASE \/ Discovered \/ ListAncestor \/ AncestorsListed \/ PatchEnd \/ FlattenStart \/ ListRoot
               \/ RootsListed \/ FlattenOne \/ ListExtended \/ ExtendedListed \/ Filled
      BY <2>1, SearchKeeps
    <2>2. CASE Discover
      BY <2>2, DiscoverLaysOut
    <2>3. CASE DiscoverInterface
      BY <2>3, DiscoverInterfaceLaysOut
    <2>4. CASE PatchInterface
      BY <2>4, PatchLaysOut
    <2>5. CASE FlattenEnd
      BY <2>5, FlattenEndLaysOut
    <2>6. CASE FillOne
      BY <2>6, FillOneLaysOut
    <2>7. CASE FixupMembers
      BY <2>7, FixupMembersLaysOut
    <2>8. CASE FixupImplementation
      BY <2>8, FixupImplementationLaysOut
    <2>9. CASE Fixup
      BY <2>9, FixupLaysOut
    <2>10. CASE FixupFirst
      BY <2>10, FixupFirstLaysOut
    <2>11. CASE DiscoverFails \/ FixupFails \/ Linked
      BY <2>11, EndingLaysOut
    <2>12. QED
      BY <1>1, <2>1, <2>2, <2>3, <2>4, <2>5, <2>6, <2>7, <2>8, <2>9, <2>10, <2>11 DEF SessionStep
  <1>2. CASE LoadArray
    BY <1>2, LoadArrayLaysOut
  <1>3. ASSUME NEW name \in Names, NEW d \in Depths \cup {MainDepth}, Load(name, d)
        PROVE  Layout'
    BY <1>3, LoadLaysOut
  <1>4. QED
    BY <1>1, <1>2, <1>3 DEF Next

\* Whatever was loaded, in whatever order, whatever failed: the vtable of every published class
\* holds the most derived method of each name at its index, and its fields lie behind those of
\* its superclass.
THEOREM LayoutInductive == Spec => []Layout
  <1>1. Init => Layout
    <2> SUFFICES ASSUME Init
                 PROVE  Layout
      OBVIOUS
    <2>1. class = <<>> /\ table = [n \in Names |-> NoClass] /\ session.step = "idle"
      BY DEF Init, Idle
    <2>2. DOMAIN class = {} /\ InTable(table) = {}
      BY <2>1 DEF InTable
    <2>3. QED
      BY <2>1, <2>2 DEF Layout, ReadyIn, LaidOutIn, Concrete, Busy
  <1>2. IInv /\ IInv' /\ Layout /\ [Next]_vars => Layout'
    <2>1. ASSUME IInv, Layout, UNCHANGED vars
          PROVE  Layout'
      <3>1. UNCHANGED <<files, class, table, session>>
        BY <2>1 DEF vars
      <3>2. CASE session.step \notin Ended
        <4>1. /\ ReadyIn(class, Busy) /\ LaidOutIn(class, table)
              /\ \A c \in Busy : LaidOut(class, c)
          BY <2>1, <3>2 DEF Layout
        <4>2. Busy' = Busy
          BY <3>1 DEF Busy, ToLink
        <4>3. /\ ReadyIn(class', Busy') /\ LaidOutIn(class', table')
              /\ \A c \in Busy' : LaidOut(class', c)
          BY <3>1, <4>1, <4>2
        <4>4. QED
          BY <3>1, <4>3, LayoutAfter
      <3>3. CASE session.step \in Ended
        BY <3>1, <3>3 DEF Layout
      <3>4. QED
        BY <3>2, <3>3
    <2>2. QED
      BY <2>1, NextLaysOut
  <1>3. QED
    BY <1>1, <1>2, LinkingInductive, PTL DEF Spec

\* A call of invokevirtual (interpreter.c) through the vtable class_fixup built reaches the
\* most derived method, for any hierarchy, any order of loading and any failures before.
THEOREM OverridesReached == Spec => []OverridesAreReached
  <1>1. IInv /\ Layout => OverridesAreReached
    <2> SUFFICES ASSUME IInv, Layout, ClassesComplete, NEW c \in Instantiable,
                        NEW d \in ToSet(Chain(class, c)), NEW i \in Virtuals(d)
                 PROVE  Dispatched(c, d, i) = MostDerived(class, c, FileOf(d).methods[i].name)
      BY DEF OverridesAreReached
    <2>1. session.step \notin Ended
      BY DEF ClassesComplete, Ended, Astray
    <2>2. c \in Concrete(table)
      BY DEF Instantiable, Loaded, Concrete, InTable
    <2>3. VtableIn(class, c)
      BY <2>1, <2>2 DEF Layout, LaidOutIn, LaidOut
    <2> DEFINE k == class[d].vtableIndex[i]
    <2>4. k \in DOMAIN class[c].vtable /\ MethodName(class[c].vtable[k]) = FileOf(d).methods[i].name
      BY <2>3 DEF VtableIn
    <2> HIDE DEF k
    <2>5. class[c].vtable[k] = MostDerived(class, c, MethodName(class[c].vtable[k]))
      BY <2>3, <2>4 DEF VtableIn
    <2>6. QED
      BY <2>4, <2>5 DEF Dispatched, k
  <1>2. QED
    BY <1>1, LinkingInductive, LayoutInductive, PTL

\* The instance fields of c and its superclasses end before the size of c, and none overlap.
Apart(cl, c) ==
  LET start(d, i) == cl[d].offset[i]
      end(d, i) == cl[d].offset[i] + SizeOf(d, i)
  IN  /\ cl[c].size \in Nat
      /\ \A d \in ToSet(Chain(cl, c)) : \A i \in InstanceFields(d) :
           start(d, i) \in Nat /\ end(d, i) \in Nat /\ end(d, i) <= cl[c].size
      /\ \A d, e \in ToSet(Chain(cl, c)) : \A i \in InstanceFields(d), j \in InstanceFields(e) :
           \/ d = e /\ i = j
           \/ end(d, i) <= start(e, j)
           \/ end(e, j) <= start(d, i)

\* So it is when each class's fields lie behind those of its superclass.
LEMMA FieldsLieApart ==
  ASSUME files \in Worlds, NEW cl, Parents(cl), NEW P, ClosedUp(cl, P),
         \A c \in P : NameOf(c) \in Names /\ FieldsFrom(cl, c, ParentSize(cl, c))
  PROVE  \A c \in P : Apart(cl, c)
  <1> DEFINE bad == {c \in P : ~Apart(cl, c)}
  <1> SUFFICES ASSUME bad # {}
               PROVE  FALSE
    OBVIOUS
  <1>1. P \in SUBSET DOMAIN cl /\ \A c \in P : cl[c].parent \in P \cup {NoClass}
    BY DEF ClosedUp
  <1>2. PICK c \in bad : cl[c].parent \notin bad
    BY <1>1 DEF Parents
  <1> DEFINE p == cl[c].parent
             base == ParentSize(cl, c)
             above == IF p = NoClass THEN {} ELSE ToSet(Chain(cl, p))
             start(d, i) == cl[d].offset[i]
             end(d, i) == cl[d].offset[i] + SizeOf(d, i)
  <1>3. c \in P /\ NameOf(c) \in Names /\ FieldsFrom(cl, c, base) /\ ~Apart(cl, c)
    BY <1>2
  <1>4. p # NoClass => Apart(cl, p) /\ base = cl[p].size
    BY <1>1, <1>2 DEF ParentSize
  <1>5. ToSet(Chain(cl, c)) = {c} \cup above
    <2>1. c \in DOMAIN cl /\ Chain(cl, c) = Below(cl, c, Chain(cl, p))
      BY <1>1, <1>3, ChainFacts
    <2>2. CASE p = NoClass
      <3>1. Chain(cl, c) = <<c>>
        BY <2>1, <2>2 DEF Below
      <3>2. ToSet(<<c>>) = {c}
        BY DEF ToSet
      <3>3. QED
        BY <2>2, <3>1, <3>2
    <2>3. CASE p # NoClass
      <3>1. Chain(cl, c) = <<c>> \o Chain(cl, p) /\ Chain(cl, p) \in Seq(DOMAIN cl)
        BY <1>1, <1>3, <2>1, <2>3, ChainFacts DEF Below
      <3>2. ToSet(<<c>> \o Chain(cl, p)) = {c} \cup ToSet(Chain(cl, p))
        BY <2>1, <3>1, ConsFacts
      <3>3. QED
        BY <2>3, <3>1, <3>2
    <2>4. QED
      BY <2>2, <2>3
  <1>6. /\ base \in Nat /\ cl[c].size = base + OwnSize(c)
        /\ \A i \in InstanceFields(c) : start(c, i) = base + Before(c, i)
    BY <1>3 DEF FieldsFrom
  <1>7. /\ \A d \in above : \A i \in InstanceFields(d) :
             start(d, i) \in Nat /\ end(d, i) \in Nat /\ end(d, i) <= base
        /\ \A d, e \in above : \A i \in InstanceFields(d), j \in InstanceFields(e) :
             \/ d = e /\ i = j
             \/ end(d, i) <= start(e, j)
             \/ end(e, j) <= start(d, i)
    <2>1. CASE p = NoClass
      BY <2>1
    <2>2. CASE p # NoClass
      BY <1>4, <2>2 DEF Apart
    <2>3. QED
      BY <2>1, <2>2
  <1>8. /\ OwnSize(c) \in Nat
        /\ \A i \in InstanceFields(c) : /\ Before(c, i) \in Nat /\ SizeOf(c, i) \in Nat
                                        /\ Before(c, i) + SizeOf(c, i) <= OwnSize(c)
        /\ \A i, j \in InstanceFields(c) :
             \/ i = j
             \/ Before(c, i) + SizeOf(c, i) <= Before(c, j)
             \/ Before(c, j) + SizeOf(c, j) <= Before(c, i)
    BY <1>3, FieldSizes
  <1>9. \A i \in InstanceFields(c) : end(c, i) = start(c, i) + SizeOf(c, i)
    OBVIOUS
  <1> HIDE DEF start, end, base, above, p
  <1>10. ASSUME NEW i \in InstanceFields(c)
         PROVE  /\ start(c, i) \in Nat /\ base <= start(c, i)
                /\ end(c, i) \in Nat /\ end(c, i) <= cl[c].size
    BY <1>6, <1>8, <1>9
  <1>11. ASSUME NEW i \in InstanceFields(c), NEW j \in InstanceFields(c)
         PROVE  i = j \/ end(c, i) <= start(c, j) \/ end(c, j) <= start(c, i)
    BY <1>6, <1>8, <1>9
  <1>12. cl[c].size \in Nat /\ base <= cl[c].size
    BY <1>6, <1>8
  <1>13. ASSUME NEW d \in ToSet(Chain(cl, c)), NEW i \in InstanceFields(d)
         PROVE  start(d, i) \in Nat /\ end(d, i) \in Nat /\ end(d, i) <= cl[c].size
    <2>1. CASE d = c
      BY <1>10, <2>1
    <2>2. CASE d \in above
      <3>1. start(d, i) \in Nat /\ end(d, i) \in Nat /\ end(d, i) <= base
        BY <1>7, <2>2
      <3>2. QED
        BY <1>6, <1>12, <3>1
    <2>3. QED
      BY <1>5, <2>1, <2>2
  <1>14. ASSUME NEW d \in above, NEW i \in InstanceFields(d), NEW j \in InstanceFields(c)
         PROVE  end(d, i) <= start(c, j)
    <2>1. end(d, i) \in Nat /\ end(d, i) <= base
      BY <1>7
    <2>2. base <= start(c, j) /\ start(c, j) \in Nat
      BY <1>10
    <2>3. QED
      BY <1>6, <2>1, <2>2
  <1>15. ASSUME NEW d \in ToSet(Chain(cl, c)), NEW e \in ToSet(Chain(cl, c)),
                NEW i \in InstanceFields(d), NEW j \in InstanceFields(e)
         PROVE  (d = e /\ i = j) \/ end(d, i) <= start(e, j) \/ end(e, j) <= start(d, i)
    <2>1. CASE d = c /\ e = c
      BY <1>11, <2>1
    <2>2. CASE d \in above /\ e = c
      BY <1>14, <2>2
    <2>3. CASE d = c /\ e \in above
      BY <1>14, <2>3
    <2>4. CASE d \in above /\ e \in above
      BY <1>7, <2>4
    <2>5. QED
      BY <1>5, <2>1, <2>2, <2>3, <2>4
  <1>16. Apart(cl, c)
    BY <1>12, <1>13, <1>15 DEF Apart, start, end
  <1>17. QED
    BY <1>3, <1>16

\* Objects have room for the fields of their class and all its superclasses (class_fixup), for
\* any field sizes, any depth of the hierarchy and any order of loading.
THEOREM FieldsApart == Spec => []FieldsDoNotOverlap
  <1>1. IInv /\ Layout => FieldsDoNotOverlap
    <2> SUFFICES ASSUME IInv, Layout, ClassesComplete, NEW c \in Instantiable
                 PROVE  LET fields == UNION {{<<d, i>> : i \in InstanceFields(d)} : d \in ToSet(Chain(class, c))}
                            start(f) == class[f[1]].offset[f[2]]
                            end(f) == start(f) + FileOf(f[1]).fields[f[2]].size
                        IN  /\ \A f \in fields : end(f) <= class[c].size
                            /\ \A f, g \in fields : f # g => end(f) <= start(g) \/ end(g) <= start(f)
      BY DEF FieldsDoNotOverlap, InstanceFields
    <2>1. session.step \notin Ended
      BY DEF ClassesComplete, Ended, Astray
    <2>2. c \in Concrete(table)
      BY DEF Instantiable, Loaded, Concrete, InTable
    <2>3. /\ files \in Worlds /\ Parents(class) /\ ClosedUp(class, Concrete(table))
          /\ LaidOutIn(class, table) /\ ClassesIn(class, table)
      BY <2>1, RunningFacts
    <2>4. \A d \in Concrete(table) :
            NameOf(d) \in Names /\ FieldsFrom(class, d, ParentSize(class, d))
      BY <2>3 DEF ClosedUp, ClassesIn, LaidOutIn, LaidOut
    <2>5. Apart(class, c)
      BY <2>2, <2>3, <2>4, FieldsLieApart
    <2> DEFINE fields == UNION {{<<d, i>> : i \in InstanceFields(d)} : d \in ToSet(Chain(class, c))}
               start(f) == class[f[1]].offset[f[2]]
               end(f) == start(f) + FileOf(f[1]).fields[f[2]].size
    <2>6. \A f \in fields : /\ f = <<f[1], f[2]>> /\ f[1] \in ToSet(Chain(class, c))
                            /\ f[2] \in InstanceFields(f[1])
      OBVIOUS
    <2>7. ASSUME NEW f \in fields
          PROVE  end(f) <= class[c].size
      BY <2>5, <2>6 DEF Apart, SizeOf
    <2>8. ASSUME NEW f \in fields, NEW g \in fields, f # g
          PROVE  end(f) <= start(g) \/ end(g) <= start(f)
      <3>1. ~(f[1] = g[1] /\ f[2] = g[2])
        BY <2>6, <2>8
      <3>2. QED
        BY <2>5, <2>6, <3>1 DEF Apart, SizeOf
    <2>9. QED
      BY <2>7, <2>8
  <1>2. QED
    BY <1>1, LinkingInductive, LayoutInductive, PTL

----------------------------------------------------------------------------
(* Types: what is kept refers to nothing that is forgotten. *)

\* An interface that a class implements is there, or yet to be found; java/lang/Object has none.
ImplementedIn(cl) ==
  \A c \in DOMAIN cl :
    /\ DOMAIN cl[c].implements \in SUBSET Nat
    /\ \A k \in DOMAIN cl[c].implements : cl[c].implements[k].interface \in DOMAIN cl \cup {NoClass}
    /\ NameOf(c) = Object => DOMAIN cl[c].implements = {}

\* An interface, and a class until it is fixed up, has no vtable.
BareIn(cl, busy) ==
  \A c \in DOMAIN cl : IsInterface(c) \/ (~cl[c].linked /\ c \notin busy) => cl[c].vtable = <<>>

Typed(cl, busy) == ImplementedIn(cl) /\ BareIn(cl, busy)

\* Every class has its list[0].
NodesIn(l, cl) == DOMAIN l.next = DOMAIN l.prev /\ DOMAIN cl \subseteq DOMAIN l.next

\* While the interfaces of java/lang/Object are flattened the lists stay empty.
ObjectHasNone ==
  session.step \in {"roots", "flatten", "extended"} /\ NameOf(ToLink) = Object =>
    /\ session.step # "extended" /\ session.left = <<>> /\ session.count = 0
    /\ links.next[IfaceDiscovery] = IfaceDiscovery
    /\ session.step = "flatten" => session.at = IfaceDiscovery

Typing ==
  IF session.step \in Ended THEN TypeOK
  ELSE /\ session.depth \in Depths \cup {MainDepth}
       /\ jlClass \in InTable(table) \cup {NoClass}
       /\ NodesIn(links, class)
       /\ session.step # "idle" => Heads(session.depth) \subseteq DOMAIN links.next
       /\ Typed(class, Busy)
       /\ ObjectHasNone

\* What the type invariant says of the classes
TypesIn(cl, tbl) ==
  /\ \A n \in Names : tbl[n] \in DOMAIN cl \cup {NoClass} /\ (tbl[n] # NoClass => NameOf(tbl[n]) = n)
  /\ \A c \in DOMAIN cl :
       /\ cl[c].parent \in DOMAIN cl \cup {NoClass}
       /\ cl[c].linked /\ ~IsInterface(c) =>
            \A i \in Virtuals(c) : cl[c].vtableIndex[i] \in DOMAIN cl[c].vtable
       /\ \A i \in DOMAIN cl[c].implements : cl[c].implements[i].interface \in DOMAIN cl \cup {NoClass}
       /\ \A k \in DOMAIN cl[c].vtable :
            LET m == cl[c].vtable[k] IN m[1] \in DOMAIN cl /\ m[2] \in DOMAIN FileOf(m[1]).methods

LEMMA TypesFollow ==
  ASSUME files \in Worlds, NEW cl, NEW tbl, NEW busy, ClassesIn(cl, tbl), LaidOutIn(cl, tbl),
         \A c \in busy : LaidOut(cl, c), Typed(cl, busy)
  PROVE  TypesIn(cl, tbl)
  <1>1. Parents(cl)
    BY ParentsAreAcyclic
  <1>2. \A c \in DOMAIN cl : c \in ToSet(Chain(cl, c)) /\ ToSet(Chain(cl, c)) \subseteq DOMAIN cl
    <2>1. ASSUME NEW c \in DOMAIN cl
          PROVE  c \in ToSet(Chain(cl, c)) /\ ToSet(Chain(cl, c)) \subseteq DOMAIN cl
      <3>1. /\ Chain(cl, c) = Below(cl, c, Chain(cl, cl[c].parent))
            /\ Chain(cl, c) \in Seq(DOMAIN cl)
        BY <1>1, ChainFacts
      <3>2. ToSet(Chain(cl, c)) \subseteq DOMAIN cl
        BY <3>1 DEF ToSet
      <3>3. CASE cl[c].parent = NoClass
        <4>1. Chain(cl, c) = <<c>>
          BY <3>1, <3>3 DEF Below
        <4>2. c \in ToSet(Chain(cl, c))
          BY <4>1 DEF ToSet
        <4>3. QED
          BY <3>2, <4>2
      <3>4. CASE cl[c].parent # NoClass
        <4>1. cl[c].parent \in DOMAIN cl
          BY <3>4 DEF ClassesIn
        <4>2. Chain(cl, cl[c].parent) \in Seq(DOMAIN cl)
          BY <1>1, <4>1, ChainFacts
        <4>3. ToSet(<<c>> \o Chain(cl, cl[c].parent)) = {c} \cup ToSet(Chain(cl, cl[c].parent))
          BY <4>2, ConsFacts
        <4>4. QED
          BY <3>1, <3>2, <3>4, <4>3 DEF Below
      <3>5. QED
        BY <3>3, <3>4
    <2>2. QED
      BY <2>1
  <1>3. ASSUME NEW c \in DOMAIN cl, VtableIn(cl, c)
        PROVE  /\ \A i \in Virtuals(c) : cl[c].vtableIndex[i] \in DOMAIN cl[c].vtable
               /\ \A k \in DOMAIN cl[c].vtable :
                    LET m == cl[c].vtable[k] IN m[1] \in DOMAIN cl /\ m[2] \in DOMAIN FileOf(m[1]).methods
    <2>1. \A i \in Virtuals(c) : cl[c].vtableIndex[i] \in DOMAIN cl[c].vtable
      BY <1>2, <1>3 DEF VtableIn
    <2>2. \A k \in DOMAIN cl[c].vtable :
            cl[c].vtable[k][1] \in DOMAIN cl /\ cl[c].vtable[k][2] \in Virtuals(cl[c].vtable[k][1])
      BY <1>2, <1>3 DEF VtableIn
    <2>3. \A d : Virtuals(d) \subseteq DOMAIN FileOf(d).methods
      BY DEF Virtuals
    <2>4. QED
      BY <2>1, <2>2, <2>3
  <1>4. ASSUME NEW c \in DOMAIN cl
        PROVE  \/ VtableIn(cl, c)
               \/ cl[c].vtable = <<>> /\ ~(cl[c].linked /\ ~IsInterface(c))
    <2>1. cl[c].linked /\ ~IsInterface(c) => c \in Concrete(tbl)
      <3>1. c # NoClass
        BY FileFacts DEF ClassesIn, NameOf, NoClass
      <3>2. cl[c].linked => c \in InTable(tbl)
        BY <3>1 DEF ClassesIn, InTable
      <3>3. QED
        BY <3>2 DEF Concrete
    <2>2. c \in Concrete(tbl) \cup busy => VtableIn(cl, c)
      BY DEF LaidOutIn, LaidOut
    <2>3. QED
      BY <2>1, <2>2 DEF Typed, BareIn
  <1>5. ASSUME NEW c \in DOMAIN cl
        PROVE  /\ cl[c].linked /\ ~IsInterface(c) =>
                    \A i \in Virtuals(c) : cl[c].vtableIndex[i] \in DOMAIN cl[c].vtable
               /\ \A k \in DOMAIN cl[c].vtable :
                    LET m == cl[c].vtable[k] IN m[1] \in DOMAIN cl /\ m[2] \in DOMAIN FileOf(m[1]).methods
    <2>1. CASE VtableIn(cl, c)
      BY <1>3, <2>1
    <2>2. CASE cl[c].vtable = <<>> /\ ~(cl[c].linked /\ ~IsInterface(c))
      <3>1. DOMAIN cl[c].vtable = {}
        BY <2>2
      <3>2. QED
        BY <2>2, <3>1
    <2>3. QED
      BY <1>4, <2>1, <2>2
  <1>6. \A c \in DOMAIN cl :
          /\ cl[c].parent \in DOMAIN cl \cup {NoClass}
          /\ \A i \in DOMAIN cl[c].implements : cl[c].implements[i].interface \in DOMAIN cl \cup {NoClass}
    BY DEF ClassesIn, Typed, ImplementedIn
  <1>7. \A n \in Names : tbl[n] \in DOMAIN cl \cup {NoClass} /\ (tbl[n] # NoClass => NameOf(tbl[n]) = n)
    BY DEF ClassesIn
  <1>8. QED
    BY <1>5, <1>6, <1>7 DEF TypesIn

\* The parts of the type invariant
LEMMA TypesMake ==
  TypeOK <=> /\ session.step \in Steps /\ session.depth \in Depths \cup {MainDepth}
             /\ jlClass \in DOMAIN class \cup {NoClass}
             /\ TypesIn(class, table) /\ NodesIn(links, class)
  BY DEF TypeOK, TypesIn, NodesIn, Pointers

LEMMA TypesFilesStay ==
  ASSUME files' = files
  PROVE  /\ TypesIn(class, table)' <=> TypesIn(class', table')
         /\ \A busy : Typed(class, busy)' <=> Typed(class', busy)
         /\ InTable(table)' = InTable(table')
  <1>1. InTable(table)' = InTable(table') /\ Names' = Names
    BY FilesStay
  <1>2. \A c : FileOf(c)' = FileOf(c)
    BY DEF FileOf
  <1>3. \A c : Virtuals(c)' = Virtuals(c) /\ (IsInterface(c)' <=> IsInterface(c))
    BY <1>2 DEF Virtuals, Virtual, IsInterface
  <1>4. TypesIn(class, table)' <=> TypesIn(class', table')
    BY <1>1, <1>2, <1>3 DEF TypesIn
  <1>5. \A busy : Typed(class, busy)' <=> Typed(class', busy)
    BY <1>3 DEF Typed, ImplementedIn, BareIn
  <1>6. QED
    BY <1>1, <1>4, <1>5

\* While a session or nothing goes on the invariants imply the type invariant.
LEMMA RunningTypes ==
  ASSUME IInv, Layout, Typing, session.step \notin Ended
  PROVE  /\ TypesIn(class, table) /\ TypeOK
         /\ session.depth \in Depths \cup {MainDepth}
         /\ jlClass \in InTable(table) \cup {NoClass}
         /\ NodesIn(links, class)
         /\ session.step # "idle" => Heads(session.depth) \subseteq DOMAIN links.next
         /\ Typed(class, Busy) /\ ObjectHasNone
         /\ session.step # "itable" => Typed(class, {})
  <1>1. /\ session.depth \in Depths \cup {MainDepth}
        /\ jlClass \in InTable(table) \cup {NoClass}
        /\ NodesIn(links, class)
        /\ session.step # "idle" => Heads(session.depth) \subseteq DOMAIN links.next
        /\ Typed(class, Busy) /\ ObjectHasNone
    BY DEF Typing
  <1>2. /\ files \in Worlds /\ ClassesIn(class, table)
        /\ LaidOutIn(class, table) /\ \A c \in Busy : LaidOut(class, c)
    BY RunningFacts
  <1>3. TypesIn(class, table)
    BY <1>1, <1>2, TypesFollow
  <1>4. InTable(table) \subseteq DOMAIN class
    BY <1>2, TableFacts
  <1>5. TypeOK
    BY <1>1, <1>3, <1>4, TypesMake DEF IInv
  <1>6. session.step # "itable" => Busy = {}
    BY DEF Busy
  <1>7. QED
    BY <1>1, <1>3, <1>5, <1>6

\* The invariant after a step, from its parts
LEMMA TypingAfter ==
  ASSUME files' = files, session'.step \notin Ended,
         session'.depth \in Depths \cup {MainDepth},
         jlClass' \in InTable(table') \cup {NoClass},
         NodesIn(links', class'),
         session'.step # "idle" => Heads(session'.depth) \subseteq DOMAIN links'.next,
         Typed(class', Busy'), ObjectHasNone'
  PROVE  Typing'
  <1>1. Typed(class, Busy)'
    <2>1. \A busy : Typed(class, busy)' <=> Typed(class', busy)
      BY TypesFilesStay
    <2>2. Typed(class, Busy)' <=> Typed(class', Busy')
      BY <2>1
    <2>3. QED
      BY <2>2
  <1>2. InTable(table)' = InTable(table')
    BY TypesFilesStay
  <1>3. NodesIn(links, class)' /\ Heads(session.depth)' = Heads(session'.depth)
    BY DEF NodesIn, Heads, HeadOf
  <1>4. QED
    BY <1>1, <1>2, <1>3 DEF Typing

\* A failed assertion and a broken list leave the classes as they are.
LEMMA AstrayTypes ==
  ASSUME IInv, Layout, Typing, session.step \notin Ended, NEW step \in Astray, GoesAstray(step)
  PROVE  Typing'
  <1>1. /\ UNCHANGED <<files, class, table, links, jlClass>>
        /\ session' = [session EXCEPT !.step = step]
    BY DEF GoesAstray
  <1>2. DOMAIN session = DOMAIN Idle
    BY RunningFacts
  <1>3. session'.step = step /\ session'.depth = session.depth
    BY <1>1, <1>2 DEF Idle
  <1>4. step \in Steps /\ step \in Ended
    BY DEF Steps, Ended
  <1>5. TypesIn(class, table) /\ TypeOK
    BY RunningTypes
  <1>6. TypesIn(class, table)'
    BY <1>1, <1>5, TypesFilesStay
  <1>7. TypeOK'
    BY <1>1, <1>3, <1>4, <1>5, <1>6 DEF TypeOK, TypesIn, Pointers
  <1>8. QED
    BY <1>3, <1>4, <1>7 DEF Typing

\* A step within a session
LEMMA WithinSession ==
  ASSUME IInv, Layout, Typing, session.step \notin Ended, session.step # "idle",
         files' = files, session'.step \notin Ended, session'.depth = session.depth,
         InTable(table) \subseteq InTable(table'), jlClass' = jlClass,
         NodesIn(links', class'), DOMAIN links.next \subseteq DOMAIN links'.next,
         Typed(class', Busy'), ObjectHasNone'
  PROVE  Typing'
  BY RunningTypes, TypingAfter

\* No list operation adds or removes memory.
SameNodes(l, new) == DOMAIN new.next = DOMAIN l.next /\ DOMAIN new.prev = DOMAIN l.prev

LEMMA ListsKeepNodes ==
  ASSUME NEW l, NEW n, NEW h
  PROVE  /\ SameNodes(l, ListInit(l, n)) /\ SameNodes(l, ListDelInit(l, n))
         /\ SameNodes(l, ListAdd(l, n, h)) /\ SameNodes(l, ListAddTail(l, n, h))
  <1>1. \A f, x, v : DOMAIN Put(f, x, v) = DOMAIN f
    BY DEF Put
  <1>2. \A m, x : SameNodes(m, ListInit(m, x))
    BY <1>1 DEF SameNodes, ListInit
  <1>3. \A m, x, p, q : SameNodes(m, Insert(m, x, p, q))
    BY <1>1 DEF SameNodes, Insert
  <1>4. SameNodes(l, ListDelInit(l, n))
    <2> DEFINE m == [next |-> Put(l.next, l.prev[n], l.next[n]), prev |-> Put(l.prev, l.next[n], l.prev[n])]
    <2>1. SameNodes(l, m)
      BY <1>1 DEF SameNodes
    <2>2. ListDelInit(l, n) = ListInit(m, n)
      BY DEF ListDelInit
    <2> HIDE DEF m
    <2>3. SameNodes(m, ListInit(m, n))
      BY <1>2
    <2>4. QED
      BY <2>1, <2>2, <2>3 DEF SameNodes
  <1>5. QED
    BY <1>2, <1>3, <1>4 DEF ListAdd, ListAddTail

LEMMA NodesAdded ==
  ASSUME NEW l, NEW cl, NEW S, NEW new, NodesIn(l, cl), DOMAIN new \subseteq DOMAIN cl \cup S
  PROVE  /\ NodesIn(WithNodes(l, S), new)
         /\ DOMAIN WithNodes(l, S).next = DOMAIN l.next \cup S
  BY DEF NodesIn, WithNodes, Added

\* Steps that change neither the classes nor what is published
LEMMA QuietTypes ==
  ASSUME IInv, Layout, Typing, session.step \notin Ended, session.step # "idle",
         UNCHANGED <<files, class, table, jlClass>>, SameNodes(links, links'),
         session'.step \notin Ended, session'.depth = session.depth,
         session.step # "itable", session'.step # "itable", ObjectHasNone'
  PROVE  Typing'
  <1>1. NodesIn(links, class) /\ Typed(class, {})
    BY RunningTypes
  <1>2. NodesIn(links', class') /\ DOMAIN links.next \subseteq DOMAIN links'.next
    BY <1>1 DEF NodesIn, SameNodes
  <1>3. Busy' = {}
    BY DEF Busy
  <1>4. QED
    BY <1>1, <1>2, <1>3, WithinSession

LEMMA SearchTypes ==
  ASSUME IInv, Layout, Typing,
         Discovered \/ ListAncestor \/ AncestorsListed \/ PatchEnd \/ Filled
  PROVE  Typing'
  <1>1. session.step \notin Ended /\ session.step \notin {"idle", "itable"}
    BY DEF Discovered, ListAncestor, AncestorsListed, PatchEnd, Filled, Ended, Astray
  <1>2. DOMAIN session = DOMAIN Idle
    BY <1>1, RunningFacts
  <1>3. CASE GoesAstray("lost")
    BY <1>1, <1>3, AstrayTypes DEF Astray
  <1>4. CASE ~GoesAstray("lost")
    <2>1. /\ UNCHANGED <<files, class, table, links, jlClass>>
          /\ session'.depth = session.depth
          /\ session'.step \in {"ancestry", "patch", "link", "fixup"}
      BY <1>2, <1>4 DEF Discovered, ListAncestor, AncestorsListed, PatchEnd, Filled, Idle
    <2>2. /\ session'.step \notin Ended /\ session'.step # "itable"
          /\ session'.step \notin {"roots", "flatten", "extended"}
      BY <2>1 DEF Ended, Astray
    <2>3. ObjectHasNone' /\ SameNodes(links, links')
      BY <2>1, <2>2 DEF ObjectHasNone, SameNodes
    <2>4. QED
      BY <1>1, <2>1, <2>2, <2>3, QuietTypes
  <1>5. QED
    BY <1>3, <1>4

LEMMA ObjectFile ==
  ASSUME files \in Worlds, NEW c, NameOf(c) = Object
  PROVE  FileOf(c).ifaces = <<>> /\ ~IsInterface(c)
  <1>1. Object # ArrayName
    BY DEF Object, ArrayName
  <1>2. files[Object].ifaces = <<>>
    BY LinkingAssumption
  <1>3. Object \in Names
    BY FileFacts DEF Names
  <1>4. ~IsInterface(c)
    BY <1>3, FileFacts DEF Object, NoName
  <1>5. QED
    BY <1>1, <1>2, <1>4 DEF FileOf

LEMMA FlattenStartTypes ==
  ASSUME IInv, Layout, Typing, FlattenStart
  PROVE  Typing'
  <1> DEFINE first == ListInit(links, IfaceDiscovery)
             left == [i \in DOMAIN FileOf(ToLink).ifaces |-> Interface(FileOf(ToLink).ifaces[i])]
  <1>1. /\ session.step = "link" /\ UNCHANGED <<files, class, table, jlClass>>
        /\ links' = ListInit(first, IfaceRequired)
        /\ session' = [session EXCEPT !.step = "roots", !.count = 0, !.left = left]
    BY DEF FlattenStart
  <1>2. session.step \notin Ended
    BY <1>1 DEF Ended, Astray
  <1>3. files \in Worlds /\ DOMAIN session = DOMAIN Idle
    BY <1>2, RunningFacts
  <1>4. NodesIn(links, class) /\ Heads(session.depth) \subseteq DOMAIN links.next
    BY <1>1, <1>2, RunningTypes
  <1>5. NameOf(ToLink) = Object => left = <<>>
    <2>1. ASSUME NameOf(ToLink) = Object
          PROVE  left = <<>>
      <3>1. FileOf(ToLink).ifaces = <<>>
        BY <1>3, <2>1, ObjectFile
      <3>2. QED
        BY <3>1
    <2>2. QED
      BY <2>1
  <1> HIDE DEF left
  <1>6. /\ session'.step = "roots" /\ session'.count = 0 /\ session'.left = left
        /\ session'.depth = session.depth /\ session'.ancestry = session.ancestry
    BY <1>1, <1>3 DEF Idle
  <1>7. SameNodes(links, first) /\ SameNodes(first, links')
    BY <1>1, ListsKeepNodes
  <1>8. links'.next[IfaceDiscovery] = IfaceDiscovery
    <2>1. IfaceDiscovery \in DOMAIN links.next
      BY <1>4 DEF Heads, IfaceDiscovery
    <2>2. first.next[IfaceDiscovery] = IfaceDiscovery /\ IfaceDiscovery \in DOMAIN first.next
      BY <2>1 DEF ListInit, Put
    <2>3. IfaceRequired # IfaceDiscovery
      BY DEF IfaceRequired, IfaceDiscovery, HeadOf
    <2> HIDE DEF first
    <2>4. links'.next = Put(first.next, IfaceRequired, IfaceRequired)
      BY <1>1 DEF ListInit
    <2>5. QED
      BY <2>2, <2>3, <2>4 DEF Put
  <1>9. SameNodes(links, links')
    BY <1>7 DEF SameNodes
  <1>10. ObjectHasNone'
    <2>1. ToLink' = ToLink /\ IfaceDiscovery' = IfaceDiscovery /\ \A c : NameOf(c)' = NameOf(c)
      BY <1>6 DEF ToLink, IfaceDiscovery, HeadOf, NameOf
    <2>2. QED
      BY <1>5, <1>6, <1>8, <2>1 DEF ObjectHasNone, NameOf
  <1>11. session'.step \notin Ended
    BY <1>6 DEF Ended, Astray
  <1>12. QED
    BY <1>1, <1>2, <1>6, <1>9, <1>10, <1>11, QuietTypes

LEMMA ListRootTypes ==
  ASSUME IInv, Layout, Typing, ListRoot
  PROVE  Typing'
  <1> DEFINE i == Head(session.left)
             off == ListDelInit(links, i)
  <1>1. session.step = "roots" /\ session.left # <<>>
    BY DEF ListRoot
  <1>2. session.step \notin Ended
    BY <1>1 DEF Ended, Astray
  <1>3. CASE GoesAstray("smashed")
    BY <1>2, <1>3, AstrayTypes DEF Astray
  <1>4. CASE ~GoesAstray("smashed")
    <2>1. /\ links' = ListAdd(off, i, IfaceDiscovery)
          /\ session' = [session EXCEPT !.left = Tail(@)]
          /\ UNCHANGED <<files, class, table, jlClass>>
      BY <1>4 DEF ListRoot
    <2>2. DOMAIN session = DOMAIN Idle /\ ObjectHasNone
      BY <1>2, RunningFacts, RunningTypes
    <2>3. /\ session'.step = "roots" /\ session'.depth = session.depth
          /\ session'.ancestry = session.ancestry
      BY <1>1, <2>1, <2>2 DEF Idle
    <2>4. SameNodes(links, off) /\ SameNodes(off, links')
      BY <2>1, ListsKeepNodes
    <2>5. SameNodes(links, links')
      BY <2>4 DEF SameNodes
    <2>6. NameOf(ToLink) # Object
      BY <1>1, <2>2 DEF ObjectHasNone
    <2>7. ObjectHasNone'
      BY <2>3, <2>6 DEF ObjectHasNone, ToLink, NameOf
    <2>8. session'.step \notin Ended
      BY <2>3 DEF Ended, Astray
    <2>9. QED
      BY <1>1, <1>2, <2>1, <2>3, <2>5, <2>7, <2>8, QuietTypes
  <1>5. QED
    BY <1>3, <1>4

\* The loop over iface_discovery does not begin for java/lang/Object.
LEMMA LoopTypes ==
  ASSUME IInv, Layout, Typing, RootsListed \/ FlattenOne \/ ListExtended \/ ExtendedListed
  PROVE  Typing'
  <1>1. session.step \in {"roots", "flatten", "extended"}
    BY DEF RootsListed, FlattenOne, ListExtended, ExtendedListed
  <1>2. session.step \notin Ended /\ session.step \notin {"idle", "itable"}
    BY <1>1 DEF Ended, Astray
  <1>3. DOMAIN session = DOMAIN Idle /\ ObjectHasNone
    BY <1>2, RunningFacts, RunningTypes
  <1>4. ASSUME NEW step \in Astray, GoesAstray(step)
        PROVE  Typing'
    BY <1>2, <1>4, AstrayTypes
  <1>5. ASSUME \A step \in Astray : ~GoesAstray(step)
        PROVE  Typing'
    <2>1. /\ UNCHANGED <<files, class, table, jlClass>> /\ SameNodes(links, links')
          /\ session'.depth = session.depth /\ session'.ancestry = session.ancestry
          /\ session'.step \in {"flatten", "extended"}
      <3>1. CASE RootsListed \/ ExtendedListed
        BY <1>3, <3>1 DEF RootsListed, ExtendedListed, LoopAt, Idle, SameNodes
      <3>2. CASE FlattenOne
        <4> DEFINE off == ListDelInit(links, session.at)
        <4>1. /\ UNCHANGED <<files, class, table, jlClass>>
              /\ links' = ListAddTail(off, session.at, IfaceRequired)
              /\ \E count, left :
                   session' = [session EXCEPT !.step = "extended", !.count = count, !.left = left]
          BY <1>5, <3>2 DEF FlattenOne, Astray
        <4>2. SameNodes(links, off) /\ SameNodes(off, links')
          BY <4>1, ListsKeepNodes
        <4>3. QED
          BY <1>3, <4>1, <4>2 DEF SameNodes, Idle
      <3>3. CASE ListExtended
        <4> DEFINE i == Head(session.left)
                   off == ListDelInit(links, i)
        <4>1. /\ session.step = "extended" /\ UNCHANGED <<files, class, table, jlClass>>
              /\ links' = links \/ links' = ListAddTail(off, i, IfaceDiscovery)
              /\ session' = [session EXCEPT !.left = Tail(@)]
          BY <1>5, <3>3 DEF ListExtended, Astray
        <4>2. SameNodes(links, off) /\ SameNodes(off, ListAddTail(off, i, IfaceDiscovery))
          BY ListsKeepNodes
        <4> HIDE DEF off
        <4>3. SameNodes(links, links')
          BY <4>1, <4>2 DEF SameNodes
        <4>4. QED
          BY <1>3, <4>1, <4>3 DEF Idle
      <3>4. QED
        BY <3>1, <3>2, <3>3
    <2>2. NameOf(ToLink) # Object => ObjectHasNone'
      BY <2>1 DEF ObjectHasNone, ToLink, NameOf
    <2>3. ASSUME NameOf(ToLink) = Object
          PROVE  ObjectHasNone'
      <3>1. RootsListed
        BY <1>3, <1>5, <2>3 DEF ObjectHasNone, RootsListed, FlattenOne, ListExtended, ExtendedListed, Astray
      <3>2. /\ session.step = "roots" /\ session.left = <<>> /\ session.count = 0
            /\ links.next[IfaceDiscovery] = IfaceDiscovery /\ links' = links
            /\ session' = LoopAt(IfaceDiscovery)
        BY <1>3, <2>3, <3>1 DEF ObjectHasNone, RootsListed
      <3>3. /\ session'.step = "flatten" /\ session'.left = <<>> /\ session'.count = 0
            /\ session'.at = IfaceDiscovery
        BY <1>3, <3>2 DEF LoopAt, Idle
      <3>4. IfaceDiscovery' = IfaceDiscovery
        BY <2>1 DEF IfaceDiscovery, HeadOf
      <3>5. QED
        BY <3>2, <3>3, <3>4 DEF ObjectHasNone
    <2>4. session'.step \notin Ended /\ session'.step # "itable"
      BY <2>1 DEF Ended, Astray
    <2>5. QED
      BY <1>2, <2>1, <2>2, <2>3, <2>4, QuietTypes
  <1>6. QED
    BY <1>4, <1>5

\* Classes keep their types while their interfaces and vtables stay.
LEMMA TypedKeeps ==
  ASSUME NEW cl, NEW new, NEW busy, NEW after, Typed(cl, busy), DOMAIN new = DOMAIN cl,
         \A d \in DOMAIN cl : /\ new[d].vtable = cl[d].vtable
                              /\ cl[d].linked => new[d].linked
                              /\ SameInterfaces(cl[d].implements, new[d].implements),
         \A d \in busy : d \in after \/ (d \in DOMAIN cl => new[d].linked)
  PROVE  Typed(new, after)
  <1>1. ImplementedIn(new)
    BY DEF Typed, ImplementedIn, SameInterfaces
  <1>2. BareIn(new, after)
    BY DEF Typed, BareIn
  <1>3. QED
    BY <1>1, <1>2 DEF Typed

\* A class that is converted refers to nothing.
LEMMA ConvertedTyped ==
  ASSUME NEW cl, NEW S, Typed(cl, {})
  PROVE  Typed(WithConverted(cl, S), {})
  <1> DEFINE new == WithConverted(cl, S)
  <1>1. /\ DOMAIN new = DOMAIN cl \cup S
        /\ \A c \in S : new[c] = Converted(NameOf(c))
        /\ \A c \in DOMAIN cl \ S : new[c] = cl[c]
    BY DEF WithConverted, Added
  <1> HIDE DEF new
  <1>2. \A c \in S : new[c].vtable = <<>> /\ DOMAIN new[c].implements = {}
    <2>1. \A name : Converted(name).vtable = <<>> /\ Converted(name).implements = <<>>
      BY DEF Converted
    <2>2. QED
      BY <1>1, <2>1
  <1>3. ImplementedIn(new)
    BY <1>1, <1>2 DEF Typed, ImplementedIn
  <1>4. BareIn(new, {})
    BY <1>1, <1>2 DEF Typed, BareIn
  <1>5. Typed(new, {})
    BY <1>3, <1>4 DEF Typed
  <1>6. QED
    BY <1>5 DEF new

LEMMA LoadTypes ==
  ASSUME IInv, Layout, Typing, NEW name \in Names, NEW d \in Depths \cup {MainDepth}, Load(name, d)
  PROVE  Typing'
  <1> DEFINE c == Fresh(name)
             S == {c} \cup Heads(d)
  <1>1. /\ session.step = "idle" /\ UNCHANGED <<files, table, jlClass>>
        /\ class' = WithConverted(class, {c}) /\ links' = WithNodes(links, S)
        /\ session' = [Idle EXCEPT !.step = "discover", !.depth = d, !.root = c, !.queue = <<c>>]
    BY DEF Load
  <1>2. session.step \notin Ended
    BY <1>1 DEF Ended, Astray
  <1>3. session'.step = "discover" /\ session'.depth = d
    BY <1>1 DEF Idle
  <1>4. /\ Typed(class, {}) /\ NodesIn(links, class) /\ jlClass \in InTable(table) \cup {NoClass}
    BY <1>1, <1>2, RunningTypes
  <1>5. Typed(class', {})
    BY <1>1, <1>4, ConvertedTyped
  <1>6. DOMAIN class' \subseteq DOMAIN class \cup S
    BY <1>1 DEF WithConverted, Added
  <1>7. Heads(d) \subseteq S
    OBVIOUS
  <1> HIDE DEF S
  <1>8. NodesIn(links', class') /\ Heads(d) \subseteq DOMAIN links'.next
    BY <1>1, <1>4, <1>6, <1>7, NodesAdded
  <1>9. Busy' = {} /\ ObjectHasNone' /\ session'.step \notin Ended
    BY <1>3 DEF Busy, ObjectHasNone, Ended, Astray
  <1>10. jlClass' \in InTable(table') \cup {NoClass}
    <2>1. InTable(table') = InTable(table)
      BY <1>1
    <2>2. QED
      BY <1>1, <1>4, <2>1
  <1>11. QED
    BY <1>1, <1>3, <1>5, <1>8, <1>9, <1>10, TypingAfter

LEMMA DiscoverInterfaceTypes ==
  ASSUME IInv, Layout, Typing, DiscoverInterface
  PROVE  Typing'
  <1> DEFINE S == ToSet(Missing(session.required, Head(session.left)))
  <1>1. /\ session.step = "discover" /\ UNCHANGED <<files, table, jlClass>>
        /\ class' = WithConverted(class, S) /\ links' = WithNodes(links, S)
        /\ \E new : session' = [session EXCEPT !.queue = @ \o new, !.left = Tail(@)]
    BY DEF DiscoverInterface
  <1> HIDE DEF S
  <1>2. session.step \notin Ended
    BY <1>1 DEF Ended, Astray
  <1>3. DOMAIN session = DOMAIN Idle /\ Typed(class, {}) /\ NodesIn(links, class)
    BY <1>1, <1>2, RunningFacts, RunningTypes
  <1>4. session'.step = "discover" /\ session'.depth = session.depth
    BY <1>1, <1>3 DEF Idle
  <1>5. Typed(class', {})
    BY <1>1, <1>3, ConvertedTyped
  <1>6. DOMAIN class' \subseteq DOMAIN class \cup S
    BY <1>1 DEF WithConverted, Added
  <1>7. NodesIn(links', class') /\ DOMAIN links.next \subseteq DOMAIN links'.next
    BY <1>1, <1>3, <1>6, NodesAdded
  <1>8. Busy' = {} /\ ObjectHasNone' /\ session'.step \notin Ended
    BY <1>4 DEF Busy, ObjectHasNone, Ended, Astray
  <1>9. QED
    BY <1>1, <1>2, <1>4, <1>5, <1>7, <1>8, WithinSession

LEMMA DiscoverTypes ==
  ASSUME IInv, Layout, Typing, Discover
  PROVE  Typing'
  <1> DEFINE c == Head(session.queue)
             r == <<c>> \o session.required
             super == FileOf(c).super
             parent == IF super = NoName THEN NoClass ELSE Parent(r, super)
             S == ToSet(IF super = NoName THEN <<>> ELSE Missing(r, super))
             cl == WithConverted(class, S)
             l == WithNodes(links, S)
  <1>1. /\ session.step = "discover" /\ UNCHANGED <<files, table, jlClass>>
        /\ class' = [cl EXCEPT ![c].parent = parent]
        /\ links' = IF IsInterface(c) THEN ListAdd(l, c, IfaceList) ELSE l
        /\ \E new, required, left :
             session' = [session EXCEPT !.queue = Tail(@) \o new, !.required = required, !.left = left]
    BY DEF Discover
  <1> HIDE DEF S, c, parent
  <1>2. session.step \notin Ended
    BY <1>1 DEF Ended, Astray
  <1>3. /\ DOMAIN session = DOMAIN Idle /\ Typed(class, {}) /\ NodesIn(links, class)
        /\ ClassesIn(class, table)
    BY <1>1, <1>2, RunningFacts, RunningTypes
  <1>4. session'.step = "discover" /\ session'.depth = session.depth
    BY <1>1, <1>3 DEF Idle
  <1>5. Typed(cl, {})
    BY <1>3, ConvertedTyped
  <1>6. DOMAIN cl = DOMAIN class \cup S
    BY DEF WithConverted, Added
  <1>7. NodesIn(l, cl) /\ DOMAIN links.next \subseteq DOMAIN l.next
    BY <1>3, <1>6, NodesAdded
  <1>8. \A d \in DOMAIN cl : DOMAIN cl[d] = ClassFields
    <2>1. \A d \in S : cl[d] = Converted(NameOf(d))
      BY DEF WithConverted, Added
    <2>2. \A d \in DOMAIN class \ S : cl[d] = class[d]
      BY DEF WithConverted, Added
    <2>3. \A name : DOMAIN Converted(name) = ClassFields
      BY DEF Converted, ClassFields
    <2> HIDE DEF cl
    <2>4. QED
      BY <1>3, <1>6, <2>1, <2>2, <2>3 DEF ClassesIn, Shaped
  <1>9. SameNodes(l, ListAdd(l, c, IfaceList))
    BY ListsKeepNodes
  <1> HIDE DEF cl, l
  <1>10. /\ DOMAIN class' = DOMAIN cl
         /\ \A d \in DOMAIN cl : \A f \in {"vtable", "linked", "implements"} : class'[d][f] = cl[d][f]
    BY <1>1, <1>8 DEF ClassFields
  <1>11. Typed(class', {})
    BY <1>5, <1>10, TypedKeeps DEF SameInterfaces
  <1>12. NodesIn(links', class') /\ DOMAIN links.next \subseteq DOMAIN links'.next
    BY <1>1, <1>7, <1>9, <1>10 DEF NodesIn, SameNodes
  <1>13. Busy' = {} /\ ObjectHasNone' /\ session'.step \notin Ended
    BY <1>4 DEF Busy, ObjectHasNone, Ended, Astray
  <1>14. QED
    BY <1>1, <1>2, <1>4, <1>11, <1>12, <1>13, WithinSession

\* The interfaces an interface extends are in the table or on the list of the session.
LEMMA PatchTypes ==
  ASSUME IInv, Layout, Typing, PatchInterface
  PROVE  Typing'
  <1> DEFINE c == session.at
             extended == Extended(c)
  <1>1. session.step = "patch" /\ session.at # IfaceList
    BY DEF PatchInterface
  <1>2. session.step \notin Ended
    BY <1>1 DEF Ended, Astray
  <1>3. CASE GoesAstray("abort")
    BY <1>2, <1>3, AstrayTypes DEF Astray
  <1>4. CASE ~GoesAstray("abort")
    <2>1. /\ UNCHANGED <<files, links, jlClass>>
          /\ session' = [session EXCEPT !.at = PatchNext(c)]
          /\ IF class[c].linked THEN UNCHANGED <<class, table>>
             ELSE /\ class' = [class EXCEPT ![c].linked = TRUE, ![c].implements = extended]
                  /\ table' = [table EXCEPT ![NameOf(c)] = c]
                  /\ table[NameOf(c)] = NoClass
      BY <1>4 DEF PatchInterface
    <2>2. /\ files \in Worlds /\ DOMAIN session = DOMAIN Idle /\ ClassesIn(class, table)
          /\ Typed(class, {}) /\ NodesIn(links, class)
      BY <1>1, <1>2, RunningFacts, RunningTypes
    <2>3. session'.step = "patch" /\ session'.depth = session.depth
      BY <1>1, <2>1, <2>2 DEF Idle
    <2>4. Patching
      BY <1>1 DEF IInv, Session, Astray
    <2>5. /\ session.required \in Seq(DOMAIN class) /\ ToSet(session.required) \subseteq DOMAIN class
          /\ c \in ToSet(session.required) /\ IsInterface(c)
      BY <1>1, <2>4 DEF Patching, AllDiscovered, Found, ToSet
    <2>6. Busy' = {} /\ ObjectHasNone' /\ session'.step \notin Ended
      BY <2>3 DEF Busy, ObjectHasNone, Ended, Astray
    <2>7. CASE class[c].linked
      <3>1. UNCHANGED <<class, table>>
        BY <2>1, <2>7
      <3>2. SameNodes(links, links')
        BY <2>1 DEF SameNodes
      <3>3. QED
        BY <1>1, <1>2, <2>1, <2>3, <2>6, <3>1, <3>2, QuietTypes
    <2>8. CASE ~class[c].linked
      <3>1. \A name \in DOMAIN files : Interface(name) \in DOMAIN class \cup {NoClass}
        <4>1. \A name : Lookup(session.required, name) \in ToSet(session.required) \cup {NoClass}
          BY <2>5, LookupFacts
        <4>2. \A name \in DOMAIN files : table[name] \in DOMAIN class \cup {NoClass}
          BY <2>2 DEF ClassesIn, Names
        <4>3. QED
          BY <2>5, <4>1, <4>2 DEF Interface
      <3>2. /\ \A k \in DOMAIN extended : extended[k].interface \in DOMAIN class \cup {NoClass}
            /\ DOMAIN extended \in SUBSET Nat
        <4>1. FileOf(c).ifaces \in Seq(DOMAIN files)
          BY <2>2, <2>5, FileFacts DEF ClassesIn
        <4>2. /\ \A k \in DOMAIN FileOf(c).ifaces : FileOf(c).ifaces[k] \in DOMAIN files
              /\ DOMAIN FileOf(c).ifaces \in SUBSET Nat
          BY <4>1
        <4>3. QED
          BY <3>1, <4>2 DEF Extended
      <3>3. NameOf(c) # Object
        BY <2>2, <2>5, ObjectFile
      <3>4. DOMAIN class[c] = ClassFields /\ c \in DOMAIN class
        BY <2>2, <2>5 DEF ClassesIn, Shaped
      <3> HIDE DEF extended
      <3>5. /\ DOMAIN class' = DOMAIN class
            /\ \A d \in DOMAIN class \ {c} : class'[d] = class[d]
            /\ class'[c].implements = extended /\ class'[c].vtable = class[c].vtable
        BY <2>1, <2>8, <3>4 DEF ClassFields
      <3> HIDE DEF c
      <3>6. ImplementedIn(class')
        BY <2>2, <3>2, <3>3, <3>5 DEF Typed, ImplementedIn
      <3>7. BareIn(class', {})
        BY <2>2, <2>5, <3>5 DEF Typed, BareIn
      <3>8. InTable(table) \subseteq InTable(table')
        <4>1. DOMAIN table = Names /\ NameOf(c) \in Names
          BY <2>2, <3>4 DEF ClassesIn
        <4>2. \A n \in Names : table[n] # NoClass => table'[n] = table[n]
          BY <2>1, <2>8, <4>1
        <4>3. QED
          BY <4>2 DEF InTable
      <3>9. NodesIn(links', class') /\ DOMAIN links.next \subseteq DOMAIN links'.next
        BY <2>1, <2>2, <3>5 DEF NodesIn
      <3>10. Typed(class', Busy')
        BY <2>6, <3>6, <3>7 DEF Typed
      <3>11. QED
        BY <1>1, <1>2, <2>1, <2>3, <2>6, <3>8, <3>9, <3>10, WithinSession
    <2>9. QED
      BY <2>7, <2>8
  <1>5. QED
    BY <1>3, <1>4

\* Steps that build the class to be linked: its implementations or its members change.
LEMMA BuildTypes ==
  ASSUME IInv, Layout, Typing, session.step \in Later,
         UNCHANGED <<files, table, links, jlClass>>, DOMAIN class' = DOMAIN class,
         session'.step \in {"fill", "itable"}, session'.depth = session.depth,
         Typed(class', Busy')
  PROVE  Typing'
  <1>1. session.step \notin Ended /\ session.step # "idle" /\ session'.step \notin Ended
    BY DEF Later, Ended, Astray
  <1>2. NodesIn(links, class)
    BY <1>1, RunningTypes
  <1>3. NodesIn(links', class') /\ DOMAIN links.next \subseteq DOMAIN links'.next
    BY <1>2 DEF NodesIn
  <1>4. ObjectHasNone'
    BY DEF ObjectHasNone
  <1>5. QED
    BY <1>1, <1>3, <1>4, WithinSession

LEMMA FlattenEndTypes ==
  ASSUME IInv, Layout, Typing, FlattenEnd
  PROVE  Typing'
  <1> DEFINE empty == [k \in 1..session.count |-> [interface |-> NoClass, vtableIndex |-> <<>>]]
  <1>1. /\ session.step = "flatten" /\ session.step \in Later
        /\ UNCHANGED <<files, table, links, jlClass>>
    BY DEF FlattenEnd, Later
  <1>2. session.step \notin Ended /\ session.step # "idle"
    BY <1>1 DEF Ended, Astray
  <1>3. /\ DOMAIN session = DOMAIN Idle /\ ClassesIn(class, table)
        /\ Typed(class, {}) /\ ObjectHasNone
    BY <1>1, <1>2, RunningFacts, RunningTypes
  <1>4. session.ancestry # <<>> /\ session.count \in Nat
    BY <1>1, LaterFacts DEF LinkingOne
  <1>5. ToLink \in DOMAIN class /\ DOMAIN class[ToLink] = ClassFields /\ ~IsInterface(ToLink)
    BY <1>1, <1>4, ToLinkFacts
  <1>6. CASE links.next[IfaceDiscovery] # IfaceDiscovery
    <2>1. session' = LoopAt(links.next[IfaceDiscovery]) /\ class' = class
      BY <1>6 DEF FlattenEnd
    <2>2. /\ session'.step = "flatten" /\ session'.depth = session.depth
          /\ session'.ancestry = session.ancestry
      BY <1>3, <2>1 DEF LoopAt, Idle
    <2>3. NameOf(ToLink) # Object
      BY <1>1, <1>3, <1>6 DEF ObjectHasNone
    <2>4. ObjectHasNone' /\ SameNodes(links, links') /\ session'.step \notin Ended
      BY <1>1, <2>2, <2>3 DEF ObjectHasNone, ToLink, NameOf, SameNodes, Ended, Astray
    <2>5. QED
      BY <1>1, <1>2, <2>1, <2>2, <2>4, QuietTypes
  <1>7. CASE links.next[IfaceDiscovery] = IfaceDiscovery
    <2>1. /\ class' = [class EXCEPT ![ToLink].implements = empty]
          /\ session' = [session EXCEPT !.step = "fill", !.at = links.next[IfaceRequired], !.count = 0]
      BY <1>7 DEF FlattenEnd
    <2>2. session'.step = "fill" /\ session'.depth = session.depth
      BY <1>3, <2>1 DEF Idle
    <2>3. DOMAIN empty \in SUBSET Nat /\ \A k \in DOMAIN empty : empty[k].interface = NoClass
      BY <1>4
    <2>4. NameOf(ToLink) = Object => DOMAIN empty = {}
      <3>1. NameOf(ToLink) = Object => session.count = 0
        BY <1>1, <1>3 DEF ObjectHasNone
      <3>2. QED
        BY <3>1
    <2> HIDE DEF empty
    <2>5. /\ DOMAIN class' = DOMAIN class
          /\ \A d \in DOMAIN class \ {ToLink} : class'[d] = class[d]
          /\ class'[ToLink].implements = empty
          /\ class'[ToLink].vtable = class[ToLink].vtable
          /\ class'[ToLink].linked = class[ToLink].linked
      BY <1>5, <2>1 DEF ClassFields
    <2>6. ImplementedIn(class')
      BY <1>3, <2>3, <2>4, <2>5 DEF Typed, ImplementedIn
    <2>7. BareIn(class', {})
      BY <1>3, <2>5 DEF Typed, BareIn
    <2>8. Typed(class', Busy')
      BY <2>2, <2>6, <2>7 DEF Typed, Busy
    <2>9. QED
      BY <1>1, <2>2, <2>5, <2>8, BuildTypes
  <1>8. QED
    BY <1>6, <1>7

LEMMA FillOneTypes ==
  ASSUME IInv, Layout, Typing, FillOne
  PROVE  Typing'
  <1> DEFINE k == session.count + 1
  <1>1. session.step = "fill" /\ session.step \in Later /\ session.step \notin Ended
    BY DEF FillOne, Later, Ended, Astray
  <1>2. CASE GoesAstray("lost")
    BY <1>1, <1>2, AstrayTypes DEF Astray
  <1>3. CASE ~GoesAstray("lost")
    <2>1. /\ UNCHANGED <<files, table, links, jlClass>>
          /\ session.at \in DOMAIN class /\ k \in DOMAIN Implements
          /\ class' = [class EXCEPT ![ToLink].implements[k]["interface"] = session.at]
          /\ session' = [session EXCEPT !.at = links.next[session.at], !.count = k]
      BY <1>3 DEF FillOne, Implements
    <2>2. /\ DOMAIN session = DOMAIN Idle /\ session.ancestry # <<>>
          /\ ClassesIn(class, table) /\ Typed(class, {})
      BY <1>1, LaterFacts, RunningTypes DEF LinkingOne
    <2>3. session'.step = "fill" /\ session'.depth = session.depth
      BY <1>1, <2>1, <2>2 DEF Idle
    <2> HIDE DEF k
    <2>4. Changes(k, "interface", session.at, class')
      BY <1>1, <2>1, <2>2, ImplementationKeeps
    <2>5. ToLink \in DOMAIN class
      BY <1>1, <2>2, ToLinkFacts
    <2>6. /\ DOMAIN class' = DOMAIN class
          /\ \A d \in DOMAIN class : /\ class'[d].vtable = class[d].vtable
                                     /\ class'[d].linked = class[d].linked
                                     /\ d # ToLink => class'[d].implements = class[d].implements
          /\ DOMAIN class'[ToLink].implements = DOMAIN Implements
          /\ \A j \in DOMAIN Implements :
               class'[ToLink].implements[j].interface = IF j = k THEN session.at ELSE Implements[j].interface
      BY <2>4 DEF Changes, ClassFields
    <2>7. ImplementedIn(class')
      BY <2>1, <2>2, <2>5, <2>6 DEF Typed, ImplementedIn, Implements
    <2>8. BareIn(class', {})
      BY <2>2, <2>6 DEF Typed, BareIn
    <2>9. Typed(class', Busy')
      BY <2>3, <2>7, <2>8 DEF Typed, Busy
    <2>10. QED
      BY <1>1, <2>1, <2>3, <2>6, <2>9, BuildTypes
  <1>4. QED
    BY <1>2, <1>3

LEMMA FixupMembersTypes ==
  ASSUME IInv, Layout, Typing, FixupMembers
  PROVE  Typing'
  <1>1. /\ session.step = "fixup" /\ session.step \in Later /\ session.step \notin Ended
        /\ UNCHANGED <<files, table, links, jlClass>>
        /\ class' = WithVtable(WithFields(class, ToLink), ToLink)
        /\ \E left : session' = [session EXCEPT !.step = "itable", !.left = left]
    BY DEF FixupMembers, Later, Ended, Astray
  <1>2. /\ DOMAIN session = DOMAIN Idle /\ session.ancestry # <<>> /\ Typed(class, {})
    BY <1>1, LaterFacts, RunningTypes DEF LinkingOne
  <1>3. /\ ToLink \in DOMAIN class /\ DOMAIN class[ToLink] = ClassFields /\ ~IsInterface(ToLink)
    BY <1>1, <1>2, ToLinkFacts
  <1>4. /\ session'.step = "itable" /\ session'.depth = session.depth
        /\ session'.ancestry = session.ancestry
    BY <1>1, <1>2 DEF Idle
  <1>5. Busy' = {ToLink}
    BY <1>4 DEF ToLink, Busy
  <1>6. SameButMembers(ToLink, class, class')
    BY <1>1, <1>3, MembersKeep
  <1>7. DOMAIN class' = DOMAIN class
    BY <1>6 DEF SameButMembers
  <1>8. ImplementedIn(class')
    BY <1>2, <1>3, <1>6 DEF SameButMembers, Typed, ImplementedIn
  <1>9. BareIn(class', {ToLink})
    BY <1>2, <1>3, <1>6 DEF SameButMembers, Typed, BareIn
  <1>10. QED
    BY <1>1, <1>4, <1>5, <1>7, <1>8, <1>9, BuildTypes DEF Typed

LEMMA FixupImplementationTypes ==
  ASSUME IInv, Layout, Typing, FixupImplementation
  PROVE  Typing'
  <1> DEFINE k == Head(session.left)
             i == Implements[k].interface
  <1>1. session.step = "itable" /\ session.step \in Later /\ session.step \notin Ended
    BY DEF FixupImplementation, Later, Ended, Astray
  <1>2. CASE GoesAstray("crash")
    BY <1>1, <1>2, AstrayTypes DEF Astray
  <1>3. CASE ~GoesAstray("crash")
    <2> DEFINE indices == ImplementationIndices(class, ToLink, i)
               numbers == InterfaceIndices(class, i)
               half == [class EXCEPT ![ToLink].implements[k]["vtableIndex"] = indices]
    <2>1. /\ UNCHANGED <<files, table, links, jlClass>> /\ session.left # <<>>
          /\ class' = [half EXCEPT ![i].interfaceIndex = numbers]
          /\ session' = [session EXCEPT !.left = Tail(@)]
      BY <1>3 DEF FixupImplementation, WithImplementation, Implements
    <2> HIDE DEF indices, numbers, half
    <2>2. /\ DOMAIN session = DOMAIN Idle /\ session.ancestry # <<>>
          /\ session.left \in Seq(DOMAIN Implements) /\ Typed(class, Busy)
      BY <1>1, LaterFacts, RunningTypes DEF LinkingOne
    <2>3. /\ session'.step = "itable" /\ session'.depth = session.depth
          /\ session'.ancestry = session.ancestry
      BY <1>1, <2>1, <2>2 DEF Idle
    <2>4. k \in DOMAIN Implements
      BY <2>1, <2>2, HeadFacts
    <2> HIDE DEF k, i
    <2>5. Changes(k, "vtableIndex", indices, half)
      BY <1>1, <2>2, <2>4, ImplementationKeeps DEF half
    <2>6. /\ DOMAIN half = DOMAIN class
          /\ \A c \in DOMAIN half : DOMAIN half[c] = ClassFields
          /\ \A d \in DOMAIN class : /\ half[d].vtable = class[d].vtable
                                     /\ half[d].linked = class[d].linked
                                     /\ SameInterfaces(class[d].implements, half[d].implements)
      <3>1. \A d \in DOMAIN class : SameInterfaces(class[d].implements, half[d].implements)
        <4>1. SameInterfaces(class[ToLink].implements, half[ToLink].implements)
          BY <2>5 DEF Changes, SameInterfaces, Implements
        <4>2. \A d \in DOMAIN class \ {ToLink} : half[d].implements = class[d].implements
          BY <2>5 DEF Changes, ClassFields
        <4>3. QED
          BY <4>1, <4>2 DEF SameInterfaces
      <3>2. QED
        BY <2>5, <3>1 DEF Changes, Shaped, ClassFields
    <2>7. /\ DOMAIN class' = DOMAIN class
          /\ \A d \in DOMAIN class : /\ class'[d].vtable = class[d].vtable
                                     /\ class'[d].linked = class[d].linked
                                     /\ class'[d].implements = half[d].implements
      BY <2>1, <2>6 DEF ClassFields
    <2>8. Typed(class', Busy)
      BY <2>2, <2>6, <2>7, TypedKeeps
    <2>9. Busy' = Busy
      BY <1>1, <2>3 DEF Busy, ToLink
    <2>10. QED
      BY <1>1, <2>1, <2>3, <2>7, <2>8, <2>9, BuildTypes
  <1>4. QED
    BY <1>2, <1>3

\* A flag of a class changes no types, but a class that is linked need not be bare.
LEMMA FlagTyped ==
  ASSUME NEW cl, Shaped(cl), NEW c, NEW busy, \A d \in busy : d = c, Typed(cl, busy)
  PROVE  /\ Shaped(WithLinked(cl, c)) /\ Typed(WithLinked(cl, c), {})
         /\ DOMAIN WithLinked(cl, c) = DOMAIN cl
         /\ Typed(cl, {}) => Typed(WithObject(cl, c), {})
         /\ DOMAIN WithObject(cl, c) = DOMAIN cl
  <1>1. \A d \in DOMAIN cl : DOMAIN cl[d] = ClassFields
    BY DEF Shaped
  <1> DEFINE linked == [cl EXCEPT ![c].linked = TRUE]
             object == [cl EXCEPT ![c].object = TRUE]
  <1>2. /\ DOMAIN linked = DOMAIN cl /\ (c \in DOMAIN cl => linked[c].linked)
        /\ \A d \in DOMAIN cl : /\ DOMAIN linked[d] = ClassFields
                                /\ linked[d].vtable = cl[d].vtable
                                /\ linked[d].implements = cl[d].implements
                                /\ cl[d].linked => linked[d].linked
    BY <1>1 DEF ClassFields
  <1>3. /\ DOMAIN object = DOMAIN cl
        /\ \A d \in DOMAIN cl : /\ object[d].vtable = cl[d].vtable
                                /\ object[d].implements = cl[d].implements
                                /\ cl[d].linked => object[d].linked
    BY <1>1 DEF ClassFields
  <1> HIDE DEF linked, object
  <1>4. Shaped(linked)
    BY <1>2 DEF Shaped
  <1>5. Typed(linked, {})
    BY <1>2, TypedKeeps DEF SameInterfaces
  <1>6. Typed(cl, {}) => Typed(object, {})
    BY <1>3, TypedKeeps DEF SameInterfaces
  <1>7. QED
    BY <1>2, <1>3, <1>4, <1>5, <1>6 DEF linked, object, WithLinked, WithObject

\* What a session leaves refers to nothing it takes away.
LEMMA EndTypes ==
  ASSUME files \in Worlds, files' = files, NEW cl, NEW busy,
         ClassesIn(cl, table'), ClosedIn(cl, table', {}), LaidOutIn(cl, table'),
         \A c \in busy : LaidOut(cl, c) /\ NameOf(c) # Object, Typed(cl, busy),
         jlClass' \in InTable(table') \cup {NoClass}, NodesIn(links, cl),
         Fail(cl, table', links) \/ End(cl, table', links)
  PROVE  Typing'
  <1>1. CASE session' = [Idle EXCEPT !.step = "exited"] /\ class' = cl /\ UNCHANGED links
    <2>1. session'.step = "exited" /\ session'.depth = MainDepth
      BY <1>1 DEF Idle
    <2>2. TypesIn(cl, table')
      BY TypesFollow
    <2>3. TypesIn(class, table)'
      BY <1>1, <2>2, TypesFilesStay
    <2>4. jlClass' \in DOMAIN class' \cup {NoClass}
      BY <1>1, TableFacts
    <2>5. NodesIn(links', class')
      BY <1>1
    <2>6. TypeOK'
      BY <2>1, <2>3, <2>4, <2>5 DEF TypeOK, TypesIn, Pointers, NodesIn, Steps
    <2>7. QED
      BY <2>1, <2>6 DEF Typing, Ended
  <1>2. CASE End(cl, table', links)
    <2> DEFINE tbl == table'
               rest == Remaining(cl, tbl)
    <2>1. /\ class' = Restrict(cl, rest)
          /\ links' = [next |-> Restrict(links.next, rest), prev |-> Restrict(links.prev, rest)]
          /\ session' = Idle
      BY <1>2 DEF End
    <2>2. /\ DOMAIN class' \subseteq DOMAIN cl /\ InTable(tbl) \subseteq DOMAIN class'
          /\ \A c \in DOMAIN class' :
               class'[c] = cl[c] /\ (c \in InTable(tbl) \/ (cl[c].parent = NoClass /\ NameOf(c) = Object))
      BY <1>2, EndKeeps
    <2>3. DOMAIN class' = rest /\ DOMAIN links'.next = rest /\ DOMAIN links'.prev = rest
      BY <2>1 DEF Restrict
    <2> HIDE DEF rest, tbl
    <2>4. NodesIn(links', class')
      BY <2>3 DEF NodesIn
    <2>5. ClassesIn(cl, tbl) /\ ClosedIn(cl, tbl, {})
      BY DEF tbl
    <2>6. ImplementedIn(class')
      <3>1. ASSUME NEW c \in DOMAIN class', NEW k \in DOMAIN class'[c].implements
            PROVE  class'[c].implements[k].interface \in DOMAIN class'
        <4>1. class'[c] = cl[c] /\ c \in DOMAIN cl
          BY <2>2
        <4>2. c \in InTable(tbl)
          <5>1. NameOf(c) # Object
            BY <3>1, <4>1 DEF Typed, ImplementedIn
          <5>2. QED
            BY <2>2, <5>1
        <4>3. cl[c].implements[k].interface \in InTable(tbl)
          BY <2>5, <3>1, <4>1, <4>2 DEF ClosedIn
        <4>4. QED
          BY <2>2, <4>1, <4>3
      <3>2. \A c \in DOMAIN class' : /\ DOMAIN class'[c].implements \in SUBSET Nat
                                     /\ NameOf(c) = Object => DOMAIN class'[c].implements = {}
        BY <2>2 DEF Typed, ImplementedIn
      <3>3. QED
        BY <3>1, <3>2 DEF ImplementedIn
    <2>7. BareIn(class', {})
      <3>1. ASSUME NEW c \in DOMAIN class', IsInterface(c) \/ ~class'[c].linked
            PROVE  class'[c].vtable = <<>>
        <4>1. class'[c] = cl[c] /\ c \in DOMAIN cl
          BY <2>2
        <4>2. IsInterface(c) \/ (~cl[c].linked /\ c \notin busy)
          <5>1. c \in InTable(tbl) => cl[c].linked
            BY <2>5, TableFacts
          <5>2. QED
            BY <2>2, <3>1, <4>1, <5>1
        <4>3. QED
          BY <4>1, <4>2 DEF Typed, BareIn
      <3>2. QED
        BY <3>1 DEF BareIn
    <2>8. session'.step = "idle" /\ session'.depth = MainDepth
      BY <2>1 DEF Idle
    <2>9. Busy' = {} /\ ObjectHasNone' /\ session'.step \notin Ended
      BY <2>8 DEF Busy, ObjectHasNone, Ended, Astray
    <2>10. Typed(class', Busy')
      BY <2>6, <2>7, <2>9 DEF Typed
    <2>11. QED
      BY <2>4, <2>8, <2>9, <2>10, TypingAfter
  <1>3. QED
    BY <1>1, <1>2 DEF Fail

LEMMA EndingTypes ==
  ASSUME IInv, Layout, Typing, DiscoverFails \/ FixupFails \/ Linked
  PROVE  Typing'
  <1>1. /\ session.step \in {"discover", "fixup", "itable", "link"}
        /\ UNCHANGED <<files, table, jlClass>>
        /\ Fail(class, table', links) \/ End(class, table', links)
    BY DEF DiscoverFails, FixupFails, Linked, TableAfterFailure
  <1>2. session.step \notin Ended /\ session.step # "patch"
    BY <1>1 DEF Ended, Astray
  <1>3. /\ files \in Worlds /\ ClassesIn(class, table) /\ ClosedIn(class, table, {})
        /\ LaidOutIn(class, table) /\ \A c \in Busy : LaidOut(class, c)
    BY <1>2, RunningFacts
  <1>4. /\ Typed(class, Busy) /\ jlClass \in InTable(table) \cup {NoClass} /\ NodesIn(links, class)
    BY <1>2, RunningTypes
  <1>5. \A c \in Busy : NameOf(c) # Object
    <2>1. ASSUME session.step = "itable"
          PROVE  NameOf(ToLink) # Object
      <3>1. session.left # <<>> /\ session.step \in Later
        BY <2>1 DEF DiscoverFails, FixupFails, Linked, Later
      <3>2. session.ancestry # <<>> /\ session.left \in Seq(DOMAIN Implements)
        BY <2>1, <3>1, LaterFacts DEF LinkingOne
      <3>3. Head(session.left) \in DOMAIN Implements /\ ToLink \in DOMAIN class
        BY <3>1, <3>2, HeadFacts, ToLinkFacts
      <3>4. QED
        BY <1>4, <3>3 DEF Typed, ImplementedIn, Implements
    <2>2. QED
      BY <2>1 DEF Busy
  <1>6. jlClass' \in InTable(table') \cup {NoClass}
    BY <1>1, <1>4
  <1>7. ClassesIn(class, table') /\ ClosedIn(class, table', {}) /\ LaidOutIn(class, table')
    BY <1>1, <1>3
  <1>8. QED
    BY <1>1, <1>3, <1>4, <1>5, <1>6, <1>7, EndTypes

\* The class to be linked when it is published
LEMMA ToLinkTypes ==
  ASSUME IInv, Layout, Typing, MayBePublished, table[NameOf(ToLink)] = NoClass
  PROVE  /\ Typed(WithLinked(class, ToLink), {}) /\ Shaped(WithLinked(class, ToLink))
         /\ NodesIn(links, WithLinked(class, ToLink))
         /\ jlClass \in InTable(table) \cup {NoClass}
         /\ session.step \notin Ended /\ session.step # "idle" /\ session.step \in Later
         /\ DOMAIN session = DOMAIN Idle
  <1>1. session.step = "itable" /\ session.step \in Later /\ session.step \notin Ended
    BY DEF MayBePublished, Ended, Astray, Later
  <1>2. /\ Typed(class, Busy) /\ jlClass \in InTable(table) \cup {NoClass} /\ NodesIn(links, class)
        /\ ClassesIn(class, table) /\ DOMAIN session = DOMAIN Idle
    BY <1>1, RunningFacts, RunningTypes
  <1>3. \A d \in Busy : d = ToLink
    BY DEF Busy
  <1>4. Shaped(class)
    BY <1>2 DEF ClassesIn
  <1>5. /\ Typed(WithLinked(class, ToLink), {}) /\ Shaped(WithLinked(class, ToLink))
        /\ DOMAIN WithLinked(class, ToLink) = DOMAIN class
    BY <1>2, <1>3, <1>4, FlagTyped
  <1>6. QED
    BY <1>1, <1>2, <1>5 DEF NodesIn

LEMMA FixupTypes ==
  ASSUME IInv, Layout, Typing, Fixup
  PROVE  Typing'
  <1> DEFINE cl == WithLinked(class, ToLink)
  <1>1. /\ MayBePublished /\ table[NameOf(ToLink)] = NoClass
        /\ table' = Published(ToLink) /\ UNCHANGED <<files, jlClass>>
        /\ \/ /\ class' = WithObject(cl, ToLink)
              /\ session' = [session EXCEPT !.ancestry = Tail(@), !.step = "link"]
              /\ UNCHANGED links
           \/ Fail(cl, table', links)
    BY DEF Fixup
  <1>2. /\ LinkedIn(cl, table') /\ files \in Worlds /\ LaidOutIn(cl, table')
    BY <1>1, ToLinkPublished, ToLinkLaysOut
  <1>3. /\ Typed(cl, {}) /\ Shaped(cl) /\ NodesIn(links, cl)
        /\ jlClass \in InTable(table) \cup {NoClass}
        /\ session.step \notin Ended /\ session.step # "idle" /\ DOMAIN session = DOMAIN Idle
    BY <1>1, ToLinkTypes
  <1> HIDE DEF cl
  <1>4. /\ ClassesIn(cl, table') /\ ClosedIn(cl, table', {}) /\ InTable(table) \subseteq InTable(table')
    BY <1>2 DEF LinkedIn
  <1>5. jlClass' \in InTable(table') \cup {NoClass}
    BY <1>1, <1>3, <1>4
  <1>6. CASE Fail(cl, table', links)
    BY <1>1, <1>2, <1>3, <1>4, <1>5, <1>6, EndTypes
  <1>7. CASE /\ class' = WithObject(cl, ToLink)
             /\ session' = [session EXCEPT !.ancestry = Tail(@), !.step = "link"]
             /\ UNCHANGED links
    <2>1. session'.step = "link" /\ session'.depth = session.depth
      BY <1>3, <1>7 DEF Idle
    <2>2. Typed(class', {}) /\ DOMAIN class' = DOMAIN cl
      BY <1>3, <1>7, FlagTyped
    <2>3. Busy' = {} /\ ObjectHasNone' /\ session'.step \notin Ended
      BY <2>1 DEF Busy, ObjectHasNone, Ended, Astray
    <2>4. NodesIn(links', class') /\ DOMAIN links.next \subseteq DOMAIN links'.next
      BY <1>3, <1>7, <2>2 DEF NodesIn
    <2>5. QED
      BY <1>1, <1>3, <1>4, <2>1, <2>2, <2>3, <2>4, WithinSession
  <1>8. QED
    BY <1>1, <1>6, <1>7

LEMMA JlClassTyped ==
  ASSUME files \in Worlds, NEW cl, NEW tbl, NEW j, ClassesIn(cl, tbl), ClosedIn(cl, tbl, {}),
         IsPair(j), NameOf(j) = JlClass, j \notin DOMAIN cl, Typed(cl, {})
  PROVE  LET child == [WithConverted(cl, {j}) EXCEPT ![j].parent = tbl[Object]]
             new == WithObject(WithLinked(WithVtable(WithFields(child, j), j), j), j)
         IN  Typed(new, {}) /\ Shaped(new) /\ DOMAIN new = DOMAIN cl \cup {j}
  <1> DEFINE converted == WithConverted(cl, {j})
             child == [converted EXCEPT ![j].parent = tbl[Object]]
             fixed == WithVtable(WithFields(child, j), j)
             new == WithObject(WithLinked(fixed, j), j)
  <1>1. IsChild(cl, tbl, j, child)
    BY JlClassConverts
  <1>2. child[j].vtable = <<>>
    <2>1. converted[j] = Converted(JlClass) /\ j \in DOMAIN converted
      BY DEF WithConverted, Added
    <2>2. DOMAIN Converted(JlClass) = ClassFields /\ Converted(JlClass).vtable = <<>>
      BY DEF Converted, ClassFields
    <2> HIDE DEF converted
    <2>3. QED
      BY <2>1, <2>2 DEF ClassFields
  <1> HIDE DEF child
  <1>3. /\ DOMAIN child = DOMAIN cl \cup {j} /\ \A d \in DOMAIN cl : child[d] = cl[d]
        /\ child[j].implements = <<>> /\ ClassesIn(child, tbl)
    BY <1>1 DEF IsChild
  <1>4. j \in DOMAIN child /\ DOMAIN child[j] = ClassFields /\ j \notin InTable(tbl)
    BY <1>3, TableFacts DEF ClassesIn, Shaped
  <1>5. SameButMembers(j, child, fixed)
    BY <1>4, MembersKeep
  <1>6. ClassesIn(fixed, tbl)
    BY <1>3, <1>4, <1>5, SameMembersKeep
  <1>7. IsInterface(j) => fixed[j].vtable = <<>>
    <2>1. ASSUME IsInterface(j)
          PROVE  fixed[j].vtable = <<>>
      <3>1. fixed = WithFields(child, j)
        BY <2>1 DEF WithVtable
      <3>2. WithFields(child, j)[j].vtable = child[j].vtable
        BY <1>4 DEF WithFields, ClassFields
      <3>3. QED
        BY <1>2, <3>1, <3>2
    <2>2. QED
      BY <2>1
  <1> HIDE DEF fixed
  <1>8. /\ DOMAIN fixed = DOMAIN cl \cup {j} /\ \A d \in DOMAIN cl : fixed[d] = cl[d]
        /\ DOMAIN fixed[j].implements = {}
    BY <1>3, <1>5 DEF SameButMembers
  <1>9. Typed(fixed, {j})
    <2>1. ImplementedIn(fixed)
      BY <1>8 DEF Typed, ImplementedIn
    <2>2. BareIn(fixed, {j})
      BY <1>7, <1>8 DEF Typed, BareIn
    <2>3. QED
      BY <2>1, <2>2 DEF Typed
  <1>10. Shaped(fixed)
    BY <1>6 DEF ClassesIn
  <1>11. /\ Shaped(WithLinked(fixed, j)) /\ Typed(WithLinked(fixed, j), {})
         /\ DOMAIN WithLinked(fixed, j) = DOMAIN fixed
    BY <1>9, <1>10, FlagTyped
  <1>12. Typed(new, {}) /\ DOMAIN new = DOMAIN fixed
    BY <1>11, FlagTyped
  <1>13. Shaped(new)
    <2> DEFINE linked == WithLinked(fixed, j)
    <2>1. Shaped(linked) /\ new = [linked EXCEPT ![j].object = TRUE]
      BY <1>11 DEF WithObject
    <2> HIDE DEF linked, new
    <2>2. QED
      BY <2>1 DEF Shaped, ClassFields
  <1> HIDE DEF new
  <1>14. Typed(new, {}) /\ Shaped(new) /\ DOMAIN new = DOMAIN cl \cup {j}
    BY <1>8, <1>12, <1>13
  <1>15. QED
    BY <1>14 DEF new, fixed, child, converted

LEMMA FixupFirstTypes ==
  ASSUME IInv, Layout, Typing, FixupFirst
  PROVE  Typing'
  <1> DEFINE j == Fresh(JlClass)
             cl == WithLinked(class, ToLink)
             tbl == Published(ToLink)
  <1>1. /\ MayBePublished /\ table[NameOf(ToLink)] = NoClass /\ files' = files
    BY DEF FixupFirst
  <1>2. /\ LinkedIn(cl, tbl) /\ DOMAIN cl = DOMAIN class /\ files \in Worlds /\ LaidOutIn(cl, tbl)
    BY <1>1, ToLinkPublished, ToLinkLaysOut
  <1>3. /\ Typed(cl, {}) /\ Shaped(cl) /\ NodesIn(links, cl)
        /\ jlClass \in InTable(table) \cup {NoClass}
        /\ session.step \notin Ended /\ session.step # "idle" /\ DOMAIN session = DOMAIN Idle
    BY <1>1, ToLinkTypes
  <1>4. /\ ClassesIn(cl, tbl) /\ ClosedIn(cl, tbl, {}) /\ InterfacesIn(cl, tbl)
        /\ InTable(table) \subseteq InTable(tbl)
    BY <1>2 DEF LinkedIn
  <1>5. CASE table' = tbl /\ Fail(cl, table', links) /\ UNCHANGED jlClass
    <2> HIDE DEF cl, tbl
    <2>1. jlClass' \in InTable(table') \cup {NoClass}
      BY <1>3, <1>4, <1>5
    <2>2. QED
      BY <1>1, <1>2, <1>3, <1>4, <1>5, <2>1, EndTypes
  <1>6. CASE /\ tbl[JlClass] = NoClass
             /\ table' = [tbl EXCEPT ![JlClass] = j] /\ jlClass' = j
             /\ class' = WithObject(WithJlClass(cl, j), ToLink)
             /\ session' = [session EXCEPT !.ancestry = Tail(@), !.step = "link"]
             /\ links' = WithNodes(links, {j})
    <2>1. IsPair(j) /\ NameOf(j) = JlClass /\ j \notin DOMAIN class
      BY <1>3, RunningFacts, FreshFacts DEF ClassesIn
    <2> DEFINE both == WithJlClass(cl, j)
               child == [WithConverted(cl, {j}) EXCEPT ![j].parent = tbl[Object]]
               built == WithObject(WithLinked(WithVtable(WithFields(child, j), j), j), j)
               published == [tbl EXCEPT ![JlClass] = j]
    <2>2. both = built
      BY DEF WithJlClass
    <2> HIDE DEF j, cl, tbl, both
    <2>3. AddsJlClass(cl, tbl, j, built, published)
      BY <1>2, <1>4, <1>6, <2>1, JlClassKeeps
    <2>4. Typed(built, {}) /\ Shaped(built) /\ DOMAIN built = DOMAIN cl \cup {j}
      BY <1>2, <1>3, <1>4, <2>1, JlClassTyped
    <2> HIDE DEF built
    <2>5. Typed(class', {}) /\ DOMAIN class' = DOMAIN cl \cup {j}
      <3>1. class' = WithObject(both, ToLink)
        BY <1>6 DEF both
      <3>2. QED
        BY <2>2, <2>4, <3>1, FlagTyped
    <2>6. /\ InTable(table) \subseteq InTable(table') /\ jlClass' \in InTable(table')
      BY <1>4, <1>6, <2>3 DEF AddsJlClass
    <2>7. NodesIn(links', class') /\ DOMAIN links.next \subseteq DOMAIN links'.next
      <3>1. NodesIn(links, cl) /\ links' = WithNodes(links, {j}) /\ DOMAIN class' \subseteq DOMAIN cl \cup {j}
        BY <1>3, <1>6, <2>5
      <3>2. QED
        BY <3>1, NodesAdded
    <2>8. session'.step = "link" /\ session'.depth = session.depth
      BY <1>3, <1>6 DEF Idle
    <2>9. Busy' = {} /\ ObjectHasNone' /\ session'.step \notin Ended
      BY <2>8 DEF Busy, ObjectHasNone, Ended, Astray
    <2>10. /\ session.depth \in Depths \cup {MainDepth}
           /\ Heads(session.depth) \subseteq DOMAIN links.next
      BY <1>3, RunningTypes
    <2>11. QED
      BY <1>1, <2>5, <2>6, <2>7, <2>8, <2>9, <2>10, TypingAfter
  <1>7. QED
    BY <1>5, <1>6 DEF FixupFirst

LEMMA LoadArrayTypes ==
  ASSUME IInv, Layout, Typing, LoadArray
  PROVE  Typing'
  <1> DEFINE c == <<ArrayName, 1>>
             array == [Converted(Object) EXCEPT
                         !.parent = table[Object], !.linked = TRUE, !.object = TRUE,
                         !.vtable = class[table[Object]].vtable, !.vtableIndex = <<>>,
                         !.interfaceIndex = <<>>, !.offset = <<>>,
                         !.size = class[table[Object]].size]
  <1>1. /\ session.step = "idle" /\ table[ArrayName] = NoClass
        /\ class' = Added(class, {c}, LAMBDA d : array)
        /\ table' = [table EXCEPT ![ArrayName] = c] /\ UNCHANGED <<files, session, jlClass>>
        /\ links' = WithNodes(links, {c})
    BY DEF LoadArray
  <1>2. session.step \notin Ended
    BY <1>1 DEF Ended, Astray
  <1>3. /\ files \in Worlds /\ ClassesIn(class, table) /\ Typed(class, {})
        /\ NodesIn(links, class) /\ jlClass \in InTable(table) \cup {NoClass}
        /\ session.depth \in Depths \cup {MainDepth}
    BY <1>1, <1>2, RunningFacts, RunningTypes
  <1>4. array.linked /\ array.implements = <<>>
    BY DEF Converted
  <1>5. ~IsInterface(c) /\ NameOf(c) = ArrayName /\ NameOf(c) # Object /\ ArrayName \in Names
    BY DEF IsInterface, FileOf, NameOf, ArrayName, Object, Names
  <1> HIDE DEF array, c
  <1>6. /\ DOMAIN class' = DOMAIN class \cup {c} /\ \A d \in DOMAIN class \ {c} : class'[d] = class[d]
        /\ class'[c] = array
    BY <1>1 DEF Added
  <1>7. ImplementedIn(class')
    BY <1>3, <1>4, <1>5, <1>6 DEF Typed, ImplementedIn
  <1>8. BareIn(class', {})
    BY <1>3, <1>4, <1>5, <1>6 DEF Typed, BareIn
  <1>9. NodesIn(links', class')
    BY <1>1, <1>3, <1>6, NodesAdded
  <1>10. InTable(table) \subseteq InTable(table')
    <2>1. \A n \in Names : table[n] # NoClass => table'[n] = table[n]
      BY <1>1, <1>3 DEF ClassesIn
    <2>2. QED
      BY <2>1 DEF InTable
  <1>11. /\ session'.step = "idle" /\ session'.step \notin Ended /\ Busy' = {} /\ ObjectHasNone'
    BY <1>1 DEF Busy, ObjectHasNone, Ended, Astray
  <1>12. QED
    BY <1>1, <1>3, <1>7, <1>8, <1>9, <1>10, <1>11, TypingAfter DEF Typed

LEMMA NextTypes ==
  ASSUME IInv, Layout, Typing, Next
  PROVE  Typing'
  <1>1. CASE SessionStep
    <2>1. CASE Discovered \/ ListAncestor \/ AncestorsListed \/ PatchEnd \/ Filled
      BY <2>1, SearchTypes
    <2>2. CASE RootsListed \/ FlattenOne \/ ListExtended \/ ExtendedListed
      BY <2>2, LoopTypes
    <2>3. CASE FlattenStart \/ ListRoot
      BY <2>3, FlattenStartTypes, ListRootTypes
    <2>4. CASE Discover \/ DiscoverInterface
      BY <2>4, DiscoverTypes, DiscoverInterfaceTypes
    <2>5. CASE PatchInterface
      BY <2>5, PatchTypes
    <2>6. CASE FlattenEnd \/ FillOne
      BY <2>6, FlattenEndTypes, FillOneTypes
    <2>7. CASE FixupMembers \/ FixupImplementation
      BY <2>7, FixupMembersTypes, FixupImplementationTypes
    <2>8. CASE Fixup \/ FixupFirst
      BY <2>8, FixupTypes, FixupFirstTypes
    <2>9. CASE DiscoverFails \/ FixupFails \/ Linked
      BY <2>9, EndingTypes
    <2>10. QED
      BY <1>1, <2>1, <2>2, <2>3, <2>4, <2>5, <2>6, <2>7, <2>8, <2>9 DEF SessionStep
  <1>2. CASE LoadArray
    BY <1>2, LoadArrayTypes
  <1>3. ASSUME NEW name \in Names, NEW d \in Depths \cup {MainDepth}, Load(name, d)
        PROVE  Typing'
    BY <1>3, LoadTypes
  <1>4. QED
    BY <1>1, <1>2, <1>3 DEF Next

\* Nothing is forgotten that is referred to, the implementations of a class are numbered, and
\* java/lang/Object has none.
THEOREM TypingInductive == Spec => []Typing
  <1>1. Init => Typing
    <2> SUFFICES ASSUME Init
                 PROVE  Typing
      OBVIOUS
    <2>1. /\ class = <<>> /\ session.step = "idle" /\ session.depth = MainDepth
          /\ jlClass = NoClass /\ links = [next |-> <<>>, prev |-> <<>>]
      BY DEF Init, Idle
    <2>2. DOMAIN class = {} /\ session.step \notin Ended
      BY <2>1 DEF Ended, Astray
    <2>3. NodesIn(links, class)
      BY <2>1, <2>2 DEF NodesIn
    <2>4. Typed(class, Busy) /\ ObjectHasNone
      BY <2>1, <2>2 DEF Typed, ImplementedIn, BareIn, ObjectHasNone
    <2>5. QED
      BY <2>1, <2>2, <2>3, <2>4 DEF Typing
  <1>2. IInv /\ Layout /\ Typing /\ [Next]_vars => Typing'
    <2>1. ASSUME Typing, UNCHANGED vars
          PROVE  Typing'
      <3>1. UNCHANGED <<files, class, table, links, jlClass, session>>
        BY <2>1 DEF vars
      <3>2. CASE session.step \in Ended
        <4>1. TypesIn(class, table)
          BY <2>1, <3>2, TypesMake DEF Typing
        <4>2. TypesIn(class, table)'
          BY <3>1, <4>1, TypesFilesStay
        <4>3. TypeOK'
          BY <2>1, <3>1, <3>2, <4>2 DEF Typing, TypeOK, TypesIn, Pointers
        <4>4. QED
          BY <3>1, <3>2, <4>3 DEF Typing
      <3>3. CASE session.step \notin Ended
        <4>1. /\ session.depth \in Depths \cup {MainDepth}
              /\ jlClass \in InTable(table) \cup {NoClass} /\ NodesIn(links, class)
              /\ session.step # "idle" => Heads(session.depth) \subseteq DOMAIN links.next
              /\ Typed(class, Busy) /\ ObjectHasNone
          BY <2>1, <3>3 DEF Typing
        <4>2. Busy' = Busy
          BY <3>1 DEF Busy, ToLink
        <4>3. Typed(class', Busy')
          BY <3>1, <4>1, <4>2
        <4>4. ObjectHasNone'
          BY <3>1, <4>1 DEF ObjectHasNone, ToLink, NameOf, IfaceDiscovery, HeadOf
        <4>5. QED
          BY <3>1, <3>3, <4>1, <4>3, <4>4, TypingAfter
      <3>4. QED
        BY <3>2, <3>3
    <2>2. QED
      BY <2>1, NextTypes
  <1>3. QED
    BY <1>1, <1>2, LinkingInductive, LayoutInductive, PTL DEF Spec

\* After any loading, linking and forgetting of classes (class_link, classtable_put): what the
\* table, the classes, their vtables and their implementations refer to is there, indices are
\* within the vtables, and every class has its list[0].
THEOREM TypeCorrect == Spec => []TypeOK
  <1>1. IInv /\ Layout /\ Typing => TypeOK
    <2>1. ASSUME IInv, Layout, Typing, session.step \notin Ended
          PROVE  TypeOK
      BY <2>1, RunningTypes
    <2>2. Typing /\ session.step \in Ended => TypeOK
      BY DEF Typing
    <2>3. QED
      BY <2>1, <2>2
  <1>2. QED
    BY <1>1, LinkingInductive, LayoutInductive, TypingInductive, PTL

=============================================================================
