-------------------------- MODULE ClassInitProofs --------------------------
(***************************************************************************)
(* Proofs about ClassInit for any threads, classes, hierarchy, initializers *)
(* and depth of nesting.                                                   *)
(***************************************************************************)
EXTENDS ClassInit, SequenceTheorems, TLAPS

\* A thread that ended or went astray has no call.
CallsFit ==
  \A t \in Threads : Len(calls[t]) <= MaxCalls /\ (~Followed(t) => calls[t] = <<>>)

\* Only a call whose initializer runs has a call nested in it, and it runs the
\* initializer of the first class of its list.
OuterCallsRun ==
  \A t \in Threads : \A i \in DOMAIN calls[t] :
    /\ i # Len(calls[t]) => calls[t][i].at = "body"
    /\ calls[t][i].at = "body" => calls[t][i].list # <<>>

\* The classes on a list are in progress, claimed by the thread.
ListedAreClaimed ==
  \A t \in Threads : \A i \in DOMAIN calls[t] : \A k \in DOMAIN calls[t][i].list :
    stage[calls[t][i].list[k]] = 1 /\ trigger[calls[t][i].list[k]] = t

\* A class is on one list, once.
ListedOnce ==
  \A t \in Threads : \A i, j \in DOMAIN calls[t] :
    \A k \in DOMAIN calls[t][i].list, l \in DOMAIN calls[t][j].list :
      calls[t][i].list[k] = calls[t][j].list[l] => i = j /\ k = l

\* Each class on a list is followed by a subclass of it.
ListIsChain ==
  \A t \in Threads : \A i \in DOMAIN calls[t] : \A k \in DOMAIN calls[t][i].list :
    k # 1 => Parent[calls[t][i].list[k]] = calls[t][i].list[k - 1]

\* The cursor is above the list.
CursorIsNext ==
  \A t \in Threads : \A i \in DOMAIN calls[t] :
    /\ calls[t][i].at \in {"claim", "mark", "wait"} =>
         calls[t][i].cur = IF calls[t][i].list = <<>> THEN calls[t][i].class
                           ELSE Parent[calls[t][i].list[1]]
    /\ calls[t][i].at \in {"mark", "wait"} => calls[t][i].cur # NULL

\* Between the exchange of clinit_stage and the store to clinit_trigger, nobody is known
\* to have the class, and nobody else is about to be.
MarkedByOne ==
  \A t \in Threads : \A i \in DOMAIN calls[t] : calls[t][i].at = "mark" =>
    /\ stage[calls[t][i].cur] = 1
    /\ trigger[calls[t][i].cur] = NULL
    /\ \A u \in Threads : \A j \in DOMAIN calls[u] :
         calls[u][j].at = "mark" /\ calls[u][j].cur = calls[t][i].cur => u = t

\* When the initializers of a list are to run, the superclass of the first class is done
\* or on the list of an outer call.
Ready(t, i) ==
  LET super == Parent[calls[t][i].list[1]]
  IN  super # NULL =>
        stage[super] = 2 \/ \E j \in 1..i - 1 : super \in ToSet(calls[t][j].list)

FirstIsReady ==
  \A t \in Threads : \A i \in DOMAIN calls[t] :
    calls[t][i].at \in {"launch", "body"} /\ calls[t][i].list # <<>> => Ready(t, i)

\* The class a call was made for: not looked at yet, done, or claimed by the thread.
ClassIsSeen ==
  \A t \in Threads : \A i \in DOMAIN calls[t] :
    \/ calls[t][i].at # "launch" /\ calls[t][i].list = <<>> /\ calls[t][i].cur = calls[t][i].class
    \/ stage[calls[t][i].class] = 2
    \/ trigger[calls[t][i].class] = t

\* A class in progress is on a list of the thread that claimed it, as long as the thread
\* is followed.
ClaimedAreListed ==
  \A c \in Classes : \A t \in Threads :
    stage[c] = 1 /\ trigger[c] = t /\ Followed(t) => Initializing(t, c)

TriggersAgree ==
  \A c \in Classes :
    /\ stage[c] = 0 => trigger[c] = NULL
    /\ stage[c] = 2 => trigger[c] \in Threads

\* The first part of SuperclassFirst
DoneAfterSuperclass ==
  \A c \in Classes : Parent[c] # NULL /\ stage[c] = 2 =>
    \/ stage[Parent[c]] = 2
    \/ /\ trigger[Parent[c]] = trigger[c]
       /\ ~Followed(trigger[c]) \/ Initializing(trigger[c], Parent[c])

\* What the lists say, what the stages say
Lists == ListedOnce /\ ListIsChain /\ CursorIsNext /\ OuterCallsRun /\ CallsFit
Claims == ListedAreClaimed /\ MarkedByOne /\ ClaimedAreListed /\ TriggersAgree
Order == FirstIsReady /\ ClassIsSeen /\ DoneAfterSuperclass

IInv == TypeOK /\ Lists /\ Claims /\ Order

----------------------------------------------------------------------------
(* Calls and lists *)

LEMMA CallFacts ==
  ASSUME TypeOK, NEW t \in Threads, calls[t] # <<>>
  PROVE  /\ Len(calls[t]) \in Nat \ {0}
         /\ Len(calls[t]) \in DOMAIN calls[t]
         /\ DOMAIN calls[t] = 1..Len(calls[t])
         /\ Call(t) = calls[t][Len(calls[t])]
         /\ Call(t) \in Calls
  BY DEF TypeOK, Call, Last

LEMMA CallTypes ==
  ASSUME TypeOK, NEW t \in Threads
  PROVE  /\ Len(calls[t]) \in Nat
         /\ DOMAIN calls[t] = 1..Len(calls[t])
         /\ \A i \in DOMAIN calls[t] :
              /\ calls[t][i] \in Calls
              /\ calls[t][i].list \in Seq(Classes)
              /\ Len(calls[t][i].list) \in Nat
              /\ DOMAIN calls[t][i].list = 1..Len(calls[t][i].list)
  <1>1. calls[t] \in Seq(Calls)
    BY DEF TypeOK
  <1>2. \A i \in DOMAIN calls[t] : calls[t][i] \in Calls
    BY <1>1
  <1>3. \A i \in DOMAIN calls[t] : calls[t][i].list \in Seq(Classes)
    BY <1>2 DEF Calls
  <1>4. QED
    BY <1>1, <1>2, <1>3

\* The innermost call goes on; the others, and those of other threads, stay.
LEMMA SetCallFacts ==
  ASSUME TypeOK, NEW t \in Threads, calls[t] # <<>>, NEW r \in Calls, SetCall(t, r)
  PROVE  /\ calls' \in [Threads -> Seq(Calls)]
         /\ \A u \in Threads \ {t} : calls'[u] = calls[u]
         /\ Len(calls'[t]) = Len(calls[t])
         /\ DOMAIN calls'[t] = DOMAIN calls[t]
         /\ \A i \in DOMAIN calls[t] :
              calls'[t][i] = IF i = Len(calls[t]) THEN r ELSE calls[t][i]
  <1>1. calls[t] \in Seq(Calls) /\ Len(calls[t]) \in Nat \ {0}
    BY DEF TypeOK
  <1> DEFINE f == Front(calls[t])
  <1>2. f \in Seq(Calls) /\ Len(f) = Len(calls[t]) - 1
    BY <1>1 DEF Front
  <1>3. \A i \in 1..Len(calls[t]) - 1 : f[i] = calls[t][i]
    BY <1>1 DEF Front
  <1> HIDE DEF f
  <1>4. /\ Append(f, r) \in Seq(Calls)
        /\ Len(Append(f, r)) = Len(calls[t])
        /\ \A i \in 1..Len(f) : Append(f, r)[i] = f[i]
        /\ Append(f, r)[Len(f) + 1] = r
    BY <1>1, <1>2, AppendProperties
  <1>5. calls' = [calls EXCEPT ![t] = Append(f, r)]
    BY DEF SetCall, f
  <1>6. calls'[t] = Append(f, r)
    BY <1>5 DEF TypeOK
  <1>7. \A i \in 1..Len(calls[t]) :
          calls'[t][i] = IF i = Len(calls[t]) THEN r ELSE calls[t][i]
    BY <1>1, <1>2, <1>3, <1>4, <1>6
  <1>8. calls' \in [Threads -> Seq(Calls)] /\ \A u \in Threads \ {t} : calls'[u] = calls[u]
    BY <1>4, <1>5 DEF TypeOK
  <1>9. QED
    BY <1>1, <1>4, <1>6, <1>7, <1>8

\* Whose superclass is on the list above the first class: nobody's.
LEMMA ChainHasTop ==
  ASSUME TypeOK, ListIsChain, NEW t \in Threads, NEW i \in DOMAIN calls[t],
         calls[t][i].list # <<>>
  PROVE  Parent[calls[t][i].list[1]] \notin ToSet(calls[t][i].list)
  <1> DEFINE l == calls[t][i].list
             S == ToSet(l)
  <1>1. l \in Seq(Classes) /\ DOMAIN l = 1..Len(l) /\ Len(l) \in Nat \ {0}
    BY CallTypes
  <1> HIDE DEF l
  <1>2. S \in SUBSET Classes /\ S # {}
    <2>1. \A k \in 1..Len(l) : l[k] \in Classes
      BY <1>1
    <2>2. l[1] \in S
      BY <1>1 DEF ToSet
    <2>3. QED
      BY <1>1, <2>1, <2>2 DEF ToSet
  <1>3. PICK c \in S : Parent[c] \notin S
    BY <1>2, ClassAssumption
  <1>4. PICK k \in DOMAIN l : c = l[k]
    BY <1>3 DEF ToSet
  <1>5. k # 1 => Parent[c] \in S
    <2>1. k # 1 => Parent[l[k]] = l[k - 1]
      BY <1>4 DEF ListIsChain, l
    <2>2. k # 1 => k - 1 \in DOMAIN l
      BY <1>1, <1>4
    <2>3. k # 1 => l[k - 1] \in S
      BY <2>2 DEF ToSet
    <2>4. QED
      BY <1>4, <2>1, <2>3
  <1>6. QED
    BY <1>3, <1>4, <1>5 DEF l

----------------------------------------------------------------------------
(* The innermost call goes on, with the same list *)

\* Where r may take the innermost call of t.
MayGoOn(t, r) ==
  LET c == Call(t)
  IN  /\ r \in Calls
      /\ r.class = c.class /\ r.list = c.list /\ r.cur = c.cur
      /\ r.at # "mark"
      /\ r.at \in {"claim", "wait"} => c.at \in {"claim", "mark", "wait"}
      /\ r.at = "wait" => r.cur # NULL
      /\ r.at = "body" => r.list # <<>>
      /\ r.at \in {"launch", "body"} /\ r.list # <<>> => Ready(t, Len(calls[t]))
      /\ r.at = "launch" => \/ c.list # <<>>
                             \/ stage[c.class] = 2
                             \/ trigger[c.class] = t

LEMMA GoOnKeeps ==
  ASSUME IInv, NEW t \in Threads, calls[t] # <<>>, NEW r, MayGoOn(t, r), SetCall(t, r),
         UNCHANGED <<stage, trigger, dead, astray, collector, stopped>>
  PROVE  IInv'
  <1> DEFINE n == Len(calls[t])
  <1>0. TypeOK /\ Lists /\ Claims /\ Order
    BY DEF IInv
  <1>1. /\ n \in Nat \ {0} /\ n \in DOMAIN calls[t] /\ DOMAIN calls[t] = 1..n
        /\ Call(t) = calls[t][n]
    BY <1>0, CallFacts
  <1>2. /\ r \in Calls
        /\ r.class = calls[t][n].class /\ r.list = calls[t][n].list /\ r.cur = calls[t][n].cur
    BY <1>1 DEF MayGoOn
  <1>3. /\ calls' \in [Threads -> Seq(Calls)]
        /\ \A u \in Threads \ {t} : calls'[u] = calls[u]
        /\ Len(calls'[t]) = n
        /\ DOMAIN calls'[t] = DOMAIN calls[t]
        /\ \A i \in DOMAIN calls[t] : calls'[t][i] = IF i = n THEN r ELSE calls[t][i]
    BY <1>0, <1>2, SetCallFacts
  <1>4. \A u \in Threads :
          /\ Len(calls'[u]) = Len(calls[u])
          /\ DOMAIN calls'[u] = DOMAIN calls[u]
          /\ \A i \in DOMAIN calls[u] :
               /\ calls'[u][i].list = calls[u][i].list
               /\ calls'[u][i].class = calls[u][i].class
               /\ calls'[u][i].cur = calls[u][i].cur
               /\ u # t \/ i # n => calls'[u][i] = calls[u][i]
    BY <1>2, <1>3
  <1>5. calls'[t][n] = r
    BY <1>1, <1>3
  <1> HIDE DEF n
  <1>6. TypeOK'
    BY <1>0, <1>3 DEF TypeOK
  <1>7. ListedOnce' /\ ListIsChain' /\ CallsFit'
    <2>1. ListedOnce'
      BY <1>0, <1>4 DEF Lists, ListedOnce
    <2>2. ListIsChain'
      BY <1>0, <1>4 DEF Lists, ListIsChain
    <2>3. CallsFit'
      <3>1. \A u \in Threads : calls[u] = <<>> => calls'[u] = <<>>
        BY <1>3
      <3>2. QED
        BY <1>0, <1>4, <3>1 DEF Lists, CallsFit, Followed
    <2>4. QED
      BY <2>1, <2>2, <2>3
  <1>8. OuterCallsRun' /\ CursorIsNext'
    <2>1. r.at = "body" => r.list # <<>>
      BY DEF MayGoOn
    <2>2. OuterCallsRun'
      BY <1>0, <1>1, <1>4, <1>5, <2>1 DEF Lists, OuterCallsRun, n
    <2>3. /\ r.at # "mark"
          /\ r.at \in {"claim", "wait"} => calls[t][n].at \in {"claim", "mark", "wait"}
          /\ r.at = "wait" => r.cur # NULL
      BY <1>1 DEF MayGoOn
    <2>4. CursorIsNext'
      BY <1>0, <1>1, <1>4, <1>5, <2>3 DEF Lists, CursorIsNext
    <2>5. QED
      BY <2>2, <2>4
  <1>9. Claims'
    <2>1. ListedAreClaimed'
      BY <1>0, <1>4 DEF Claims, ListedAreClaimed
    <2>2. MarkedByOne'
      <3>1. \A u \in Threads : \A i \in DOMAIN calls[u] :
              calls'[u][i].at = "mark" => calls[u][i].at = "mark"
        BY <1>4, <1>5 DEF MayGoOn
      <3>2. QED
        BY <1>0, <1>4, <3>1 DEF Claims, MarkedByOne
    <2>3. ClaimedAreListed'
      <3>1. \A u \in Threads, c \in Classes : Initializing(u, c) => Initializing(u, c)'
        BY <1>4 DEF Initializing
      <3>2. QED
        BY <1>0, <3>1 DEF Claims, ClaimedAreListed, Followed
    <2>4. TriggersAgree'
      BY <1>0 DEF Claims, TriggersAgree
    <2>5. QED
      BY <2>1, <2>2, <2>3, <2>4 DEF Claims
  <1>10. Order'
    <2>1. \A u \in Threads : \A i \in DOMAIN calls[u] : Ready(u, i) => Ready(u, i)'
      <3> SUFFICES ASSUME NEW u \in Threads, NEW i \in DOMAIN calls[u], Ready(u, i)
                   PROVE  Ready(u, i)'
        OBVIOUS
      <3>1. 1..i - 1 \subseteq DOMAIN calls[u]
        BY <1>0, CallTypes
      <3>2. QED
        BY <1>4, <3>1 DEF Ready
    <2>2. FirstIsReady'
      <3>1. r.at \in {"launch", "body"} /\ r.list # <<>> => Ready(t, n)
        BY DEF MayGoOn, n
      <3>2. QED
        BY <1>0, <1>1, <1>4, <1>5, <2>1, <3>1 DEF Order, FirstIsReady
    <2>3. ClassIsSeen'
      <3>1. \A u \in Threads : \A i \in DOMAIN calls[u] : u # t \/ i # n =>
              \/ calls'[u][i].at # "launch" /\ calls'[u][i].list = <<>>
                 /\ calls'[u][i].cur = calls'[u][i].class
              \/ stage[calls'[u][i].class] = 2
              \/ trigger[calls'[u][i].class] = u
        BY <1>0, <1>4 DEF Order, ClassIsSeen
      <3>2. \/ r.at # "launch" /\ r.list = <<>> /\ r.cur = r.class
            \/ stage[r.class] = 2
            \/ trigger[r.class] = t
        BY <1>0, <1>1, <1>2 DEF Order, ClassIsSeen, MayGoOn
      <3>3. QED
        BY <1>4, <1>5, <3>1, <3>2 DEF ClassIsSeen
    <2>4. DoneAfterSuperclass'
      <3>1. \A u \in Threads, c \in Classes : Initializing(u, c) => Initializing(u, c)'
        BY <1>4 DEF Initializing
      <3>2. \A c \in Classes : Parent[c] # NULL => Parent[c] \in Classes
        BY ClassAssumption
      <3>3. \A c \in Classes : stage[c] = 2 => trigger[c] \in Threads
        BY <1>0 DEF Claims, TriggersAgree
      <3>4. QED
        BY <1>0, <3>1, <3>2, <3>3 DEF Order, DoneAfterSuperclass, Followed
    <2>5. QED
      BY <2>2, <2>3, <2>4 DEF Order
  <1>11. QED
    BY <1>6, <1>7, <1>8, <1>9, <1>10 DEF IInv, Lists

LEMMA GoOnSteps ==
  ASSUME IInv, NEW t \in Threads,
         \/ Claim(t) /\ (Call(t).cur # NULL => stage[Call(t).cur] # 0)
         \/ EndWait(t) \/ StartBody(t) \/ \E n \in Levels : Catch(t, n)
  PROVE  IInv'
  <1> DEFINE c == Call(t)
             n == Len(calls[t])
  <1>0. TypeOK /\ Lists /\ Claims /\ Order
    BY DEF IInv
  <1>1. calls[t] # <<>> /\ Followed(t)
    BY DEF Claim, EndWait, StartBody, Catch, At, InCall
  <1>2. n \in DOMAIN calls[t] /\ c = calls[t][n] /\ c \in Calls
    BY <1>0, <1>1, CallFacts
  <1>3. /\ c.at \in {"claim", "mark", "wait"} =>
             c.cur = IF c.list = <<>> THEN c.class ELSE Parent[c.list[1]]
        /\ c.at = "wait" => c.cur # NULL
        /\ c.at \in {"launch", "body"} /\ c.list # <<>> => Ready(t, n)
        /\ \/ c.at # "launch" /\ c.list = <<>> /\ c.cur = c.class
           \/ stage[c.class] = 2
           \/ trigger[c.class] = t
    BY <1>0, <1>2 DEF Lists, CursorIsNext, Order, FirstIsReady, ClassIsSeen
  <1>4. c.class \in Classes /\ c.cur \in Classes \cup {NULL} /\ c.list \in Seq(Classes)
    BY <1>2 DEF Calls
  <1>5. CASE Claim(t) /\ c.cur = NULL
    <2> DEFINE r == [c EXCEPT !.at = "launch"]
    <2>1. c.at = "claim" /\ SetCall(t, r) /\ UNCHANGED <<stage, trigger, dead, astray, collection>>
      BY <1>5 DEF Claim, At
    <2>2. /\ r \in Calls
          /\ r.class = c.class /\ r.list = c.list /\ r.cur = c.cur /\ r.at = "launch"
      BY <1>2 DEF Calls, Steps
    <2>3. c.list # <<>> /\ Parent[c.list[1]] = NULL
      BY <1>3, <1>4, <1>5, <2>1, ClassAssumption
    <2>4. Ready(t, n)
      BY <1>2, <2>3 DEF Ready
    <2>5. MayGoOn(t, r)
      BY <1>2, <2>2, <2>3, <2>4 DEF MayGoOn
    <2>6. QED
      BY <1>1, <2>1, <2>5, GoOnKeeps DEF collection
  <1>6. CASE Claim(t) /\ c.cur # NULL
    <2> DEFINE r == [c EXCEPT !.at = "wait"]
    <2>1. c.at = "claim" /\ stage[c.cur] # 0 /\ SetCall(t, r)
      <3>1. c.at = "claim" /\ stage[c.cur] # 0
        BY <1>6 DEF Claim, At, EndWait, StartBody, Catch
      <3>2. SetCall(t, [c EXCEPT !.at = IF stage[c.cur] = 0 THEN "mark" ELSE "wait"])
        BY <1>6 DEF Claim
      <3>3. QED
        BY <3>1, <3>2
    <2>2. stage' = stage
      BY <1>0, <1>4, <1>6, <2>1 DEF Claim, AfterClaim, TypeOK
    <2>3. UNCHANGED <<trigger, dead, astray, collection>>
      BY <1>6 DEF Claim
    <2>4. /\ r \in Calls
          /\ r.class = c.class /\ r.list = c.list /\ r.cur = c.cur /\ r.at = "wait"
      BY <1>2 DEF Calls, Steps
    <2>5. MayGoOn(t, r)
      BY <1>6, <2>1, <2>4 DEF MayGoOn
    <2>6. QED
      BY <1>1, <2>1, <2>2, <2>3, <2>5, GoOnKeeps DEF collection
  <1>7. CASE EndWait(t)
    <2> DEFINE r == [c EXCEPT !.at = "launch"]
    <2>1. /\ c.at = "wait" /\ SetCall(t, r)
          /\ stage[c.cur] = 2 \/ trigger[c.cur] = t
          /\ UNCHANGED <<stage, trigger, dead, astray, collection>>
      BY <1>7 DEF EndWait, At, StageDone, OwnClaim
    <2>2. /\ r \in Calls
          /\ r.class = c.class /\ r.list = c.list /\ r.cur = c.cur /\ r.at = "launch"
      BY <1>2 DEF Calls, Steps
    <2>3. c.cur \in Classes /\ stage[c.cur] \in {1, 2}
      <3>1. c.cur \in Classes
        BY <1>3, <1>4, <2>1
      <3>2. stage[c.cur] # 0
        BY <1>0, <2>1, <3>1, ClassAssumption DEF Claims, TriggersAgree
      <3>3. QED
        BY <1>0, <3>1, <3>2 DEF TypeOK
    <2>4. ASSUME c.list # <<>> PROVE Ready(t, n)
      <3>1. c.cur = Parent[c.list[1]]
        BY <1>3, <2>1, <2>4
      <3>2. CASE stage[c.cur] = 2
        BY <1>2, <3>1, <3>2 DEF Ready
      <3>3. CASE stage[c.cur] # 2
        <4>1. PICK i \in DOMAIN calls[t] : c.cur \in ToSet(calls[t][i].list)
          BY <1>0, <1>1, <2>1, <2>3, <3>3 DEF Claims, ClaimedAreListed, Initializing
        <4>2. i # n
          BY <1>0, <1>2, <2>4, <3>1, <4>1, ChainHasTop DEF Lists
        <4>3. i \in 1..n - 1
          BY <1>0, <4>2, CallTypes
        <4>4. QED
          BY <1>2, <3>1, <4>1, <4>3 DEF Ready
      <3>4. QED
        BY <3>2, <3>3
    <2>5. c.list = <<>> => stage[c.class] = 2 \/ trigger[c.class] = t
      BY <1>3, <2>1
    <2>6. MayGoOn(t, r)
      BY <2>2, <2>4, <2>5 DEF MayGoOn
    <2>7. QED
      BY <1>1, <2>1, <2>6, GoOnKeeps DEF collection
  <1>8. CASE StartBody(t)
    <2> DEFINE r == [c EXCEPT !.at = "body"]
    <2>1. /\ c.at = "launch" /\ c.list # <<>> /\ SetCall(t, r)
          /\ UNCHANGED <<stage, trigger, dead, astray, collection>>
      BY <1>8 DEF StartBody, At
    <2>2. /\ r \in Calls
          /\ r.class = c.class /\ r.list = c.list /\ r.cur = c.cur /\ r.at = "body"
      BY <1>2 DEF Calls, Steps
    <2>3. MayGoOn(t, r)
      BY <1>3, <2>1, <2>2 DEF MayGoOn
    <2>4. QED
      BY <1>1, <2>1, <2>3, GoOnKeeps DEF collection
  <1>9. ASSUME NEW l \in Levels, Catch(t, l) PROVE IInv'
    <2> DEFINE r == [c EXCEPT !.runs = l, !.under = {k \in c.under : k < l}]
    <2>1. /\ c.at = "body" /\ SetCall(t, r)
          /\ UNCHANGED <<stage, trigger, dead, astray, collection>>
      BY <1>9 DEF Catch, At
    <2>2. c.list # <<>>
      BY <1>0, <1>2, <2>1 DEF Lists, OuterCallsRun
    <2>3. /\ r \in Calls
          /\ r.class = c.class /\ r.list = c.list /\ r.cur = c.cur /\ r.at = "body"
      BY <1>2, <2>1 DEF Calls
    <2>4. MayGoOn(t, r)
      BY <1>3, <2>1, <2>2, <2>3 DEF MayGoOn
    <2>5. QED
      BY <1>1, <2>1, <2>4, GoOnKeeps DEF collection
  <1>10. QED
    BY <1>5, <1>6, <1>7, <1>8, <1>9

----------------------------------------------------------------------------
(* The steps of the loop that change what is claimed *)

\* The compare-exchange that takes a class from 0 to 1.
LEMMA ClaimKeeps ==
  ASSUME IInv, NEW t \in Threads, Claim(t), Call(t).cur # NULL, stage[Call(t).cur] = 0
  PROVE  IInv'
  <1> DEFINE c == Call(t)
             n == Len(calls[t])
             x == c.cur
             r == [c EXCEPT !.at = "mark"]
  <1>0. TypeOK /\ Lists /\ Claims /\ Order
    BY DEF IInv
  <1>1. /\ calls[t] # <<>> /\ Followed(t)
        /\ n \in DOMAIN calls[t] /\ n \in Nat \ {0} /\ DOMAIN calls[t] = 1..n
        /\ c = calls[t][n] /\ c \in Calls /\ c.at = "claim"
    BY <1>0, CallFacts DEF Claim, At, InCall
  <1>2. x \in Classes /\ stage[x] = 0 /\ trigger[x] = NULL
    BY <1>0, <1>1 DEF Calls, Claims, TriggersAgree
  <1>3. /\ stage' = [stage EXCEPT ![x] = 1]
        /\ SetCall(t, r)
        /\ UNCHANGED <<trigger, dead, astray, collector, stopped>>
    <2>1. /\ stage' = [stage EXCEPT ![x] = AfterClaim(x)]
          /\ SetCall(t, [c EXCEPT !.at = IF stage[c.cur] = 0 THEN "mark" ELSE "wait"])
          /\ UNCHANGED <<trigger, dead, astray, collection>>
      BY DEF Claim
    <2>2. QED
      BY <1>2, <2>1 DEF AfterClaim, collection
  <1>4. /\ r \in Calls
        /\ r.class = c.class /\ r.list = c.list /\ r.cur = x /\ r.at = "mark"
    BY <1>1 DEF Calls, Steps
  <1>5. /\ calls' \in [Threads -> Seq(Calls)]
        /\ \A u \in Threads \ {t} : calls'[u] = calls[u]
        /\ Len(calls'[t]) = n
        /\ DOMAIN calls'[t] = DOMAIN calls[t]
        /\ \A i \in DOMAIN calls[t] : calls'[t][i] = IF i = n THEN r ELSE calls[t][i]
    BY <1>0, <1>1, <1>3, <1>4, SetCallFacts
  <1>6. \A u \in Threads :
          /\ Len(calls'[u]) = Len(calls[u])
          /\ DOMAIN calls'[u] = DOMAIN calls[u]
          /\ \A i \in DOMAIN calls[u] :
               /\ calls'[u][i].list = calls[u][i].list
               /\ calls'[u][i].class = calls[u][i].class
               /\ calls'[u][i].cur = calls[u][i].cur
               /\ u # t \/ i # n => calls'[u][i] = calls[u][i]
    BY <1>1, <1>4, <1>5
  <1>7. calls'[t][n] = r
    BY <1>1, <1>5
  <1>8. /\ stage' \in [Classes -> 0..2] /\ stage'[x] = 1
        /\ \A d \in Classes \ {x} : stage'[d] = stage[d]
    BY <1>0, <1>2, <1>3 DEF TypeOK
  <1> HIDE DEF c, n, x, r
  <1>9. TypeOK'
    BY <1>0, <1>3, <1>5, <1>8 DEF TypeOK
  <1>10. Lists'
    <2>1. ListedOnce' /\ ListIsChain'
      <3>1. ListedOnce'
        BY <1>0, <1>6 DEF Lists, ListedOnce
      <3>2. ListIsChain'
        BY <1>0, <1>6 DEF Lists, ListIsChain
      <3>3. QED
        BY <3>1, <3>2
    <2>2. OuterCallsRun'
      BY <1>0, <1>1, <1>4, <1>6, <1>7 DEF Lists, OuterCallsRun, n
    <2>3. CursorIsNext'
      <3> SUFFICES ASSUME NEW u \in Threads, NEW i \in DOMAIN calls[u]
                   PROVE  /\ calls'[u][i].at \in {"claim", "mark", "wait"} =>
                               calls'[u][i].cur = IF calls'[u][i].list = <<>>
                                                  THEN calls'[u][i].class
                                                  ELSE Parent[calls'[u][i].list[1]]
                          /\ calls'[u][i].at \in {"mark", "wait"} => calls'[u][i].cur # NULL
        BY <1>6 DEF CursorIsNext
      <3>1. /\ calls[u][i].at \in {"claim", "mark", "wait"} =>
                 calls[u][i].cur = IF calls[u][i].list = <<>> THEN calls[u][i].class
                                   ELSE Parent[calls[u][i].list[1]]
            /\ calls[u][i].at \in {"mark", "wait"} => calls[u][i].cur # NULL
        BY <1>0 DEF Lists, CursorIsNext
      <3>2. /\ calls'[u][i].list = calls[u][i].list /\ calls'[u][i].class = calls[u][i].class
            /\ calls'[u][i].cur = calls[u][i].cur
        BY <1>6
      <3>3. CASE u # t \/ i # n
        BY <1>6, <3>1, <3>3
      <3>4. CASE u = t /\ i = n
        <4>1. calls[u][i].at = "claim" /\ calls[u][i].cur # NULL
          BY <1>1, <1>2, <3>4, ClassAssumption DEF c, x
        <4>2. QED
          BY <3>1, <3>2, <4>1
      <3>5. QED
        BY <3>3, <3>4
    <2>4. CallsFit'
      <3>1. \A u \in Threads : calls[u] = <<>> => calls'[u] = <<>>
        BY <1>1, <1>5
      <3>2. QED
        BY <1>0, <1>3, <1>6, <3>1 DEF Lists, CallsFit, Followed
    <2>5. QED
      BY <2>1, <2>2, <2>3, <2>4 DEF Lists
  <1>11. Claims'
    <2>1. ListedAreClaimed'
      <3>1. \A u \in Threads : \A i \in DOMAIN calls[u] : \A k \in DOMAIN calls[u][i].list :
              calls[u][i].list[k] \in Classes \ {x}
        BY <1>0, <1>2, CallTypes DEF Claims, ListedAreClaimed
      <3>2. QED
        BY <1>0, <1>3, <1>6, <1>8, <3>1 DEF Claims, ListedAreClaimed
    <2>2. MarkedByOne'
      <3>1. \A u \in Threads : \A i \in DOMAIN calls[u] : u # t \/ i # n =>
              /\ calls'[u][i].at = calls[u][i].at
              /\ calls[u][i].at = "mark" => calls[u][i].cur \in Classes \ {x}
        <4>1. \A u \in Threads : \A i \in DOMAIN calls[u] :
                calls[u][i].at = "mark" => calls[u][i].cur \in Classes
          BY <1>0, CallTypes DEF Calls, Lists, CursorIsNext
        <4>2. QED
          BY <1>0, <1>2, <1>6, <4>1 DEF Claims, MarkedByOne
      <3>2. \A u \in Threads : \A i \in DOMAIN calls[u] :
              calls'[u][i].at = "mark" /\ calls'[u][i].cur = x => u = t /\ i = n
        BY <1>6, <3>1
      <3>3. ASSUME NEW u \in Threads, NEW i \in DOMAIN calls[u], u # t \/ i # n,
                   calls'[u][i].at = "mark"
            PROVE  /\ stage'[calls'[u][i].cur] = 1
                   /\ trigger'[calls'[u][i].cur] = NULL
                   /\ \A v \in Threads : \A j \in DOMAIN calls[v] :
                        calls'[v][j].at = "mark" /\ calls'[v][j].cur = calls'[u][i].cur => v = u
        <4>1. calls[u][i].at = "mark" /\ calls'[u][i].cur = calls[u][i].cur
              /\ calls[u][i].cur \in Classes \ {x}
          BY <1>6, <3>1, <3>3
        <4>2. \A v \in Threads : \A j \in DOMAIN calls[v] :
                calls'[v][j].at = "mark" /\ calls'[v][j].cur = calls[u][i].cur =>
                  calls[v][j].at = "mark" /\ calls[v][j].cur = calls[u][i].cur
          BY <1>4, <1>6, <1>7, <3>1, <4>1
        <4>3. QED
          BY <1>0, <1>3, <1>8, <4>1, <4>2 DEF Claims, MarkedByOne
      <3>4. QED
        BY <1>2, <1>3, <1>4, <1>6, <1>7, <1>8, <3>2, <3>3 DEF MarkedByOne
    <2>3. ClaimedAreListed'
      <3>1. \A u \in Threads, d \in Classes : Initializing(u, d) => Initializing(u, d)'
        BY <1>6 DEF Initializing
      <3>2. \A u \in Threads : trigger[x] # u
        BY <1>2, ClassAssumption
      <3>3. QED
        BY <1>0, <1>3, <1>8, <3>1, <3>2 DEF Claims, ClaimedAreListed, Followed
    <2>4. TriggersAgree'
      BY <1>0, <1>3, <1>8 DEF Claims, TriggersAgree
    <2>5. QED
      BY <2>1, <2>2, <2>3, <2>4 DEF Claims
  <1>12. Order'
    <2>1. \A d \in Classes : stage[d] = 2 <=> stage'[d] = 2
      BY <1>2, <1>8
    <2>2. FirstIsReady'
      <3>1. \A u \in Threads : \A i \in DOMAIN calls[u] : u # t \/ i # n =>
              calls'[u][i].at = calls[u][i].at
        BY <1>6
      <3>2. ASSUME NEW u \in Threads, NEW i \in DOMAIN calls[u], calls[u][i].list # <<>>,
                   Ready(u, i)
            PROVE  Ready(u, i)'
        <4>1. 1..i - 1 \subseteq DOMAIN calls[u]
          BY <1>0, CallTypes
        <4>2. calls[u][i].list[1] \in Classes
          BY <1>0, <3>2, CallTypes
        <4>3. Parent[calls[u][i].list[1]] # NULL => Parent[calls[u][i].list[1]] \in Classes
          BY <4>2, ClassAssumption
        <4>4. QED
          BY <1>6, <2>1, <3>2, <4>1, <4>3 DEF Ready
      <3>3. QED
        BY <1>0, <1>1, <1>4, <1>6, <1>7, <3>1, <3>2 DEF Order, FirstIsReady
    <2>3. ClassIsSeen'
      <3>1. \A u \in Threads : \A i \in DOMAIN calls[u] : calls[u][i].class \in Classes
        BY <1>0, CallTypes DEF Calls
      <3>2. \A u \in Threads : \A i \in DOMAIN calls[u] :
              \/ calls'[u][i].at # "launch" /\ calls[u][i].list = <<>>
                 /\ calls[u][i].cur = calls[u][i].class
              \/ stage[calls[u][i].class] = 2
              \/ trigger[calls[u][i].class] = u
        BY <1>0, <1>4, <1>6, <1>7 DEF Order, ClassIsSeen
      <3>3. QED
        BY <1>3, <1>6, <2>1, <3>1, <3>2 DEF ClassIsSeen
    <2>4. DoneAfterSuperclass'
      <3>1. \A u \in Threads, d \in Classes : Initializing(u, d) => Initializing(u, d)'
        BY <1>6 DEF Initializing
      <3>2. \A d \in Classes : Parent[d] # NULL => Parent[d] \in Classes
        BY ClassAssumption
      <3>3. \A d \in Classes : stage[d] = 2 => trigger[d] \in Threads
        BY <1>0 DEF Claims, TriggersAgree
      <3>4. QED
        BY <1>0, <1>3, <2>1, <3>1, <3>2, <3>3 DEF Order, DoneAfterSuperclass, Followed
    <2>5. QED
      BY <2>2, <2>3, <2>4 DEF Order
  <1>13. QED
    BY <1>9, <1>10, <1>11, <1>12 DEF IInv

\* The innermost call of t goes on as r; the other calls of t, and those of other threads,
\* stay as they are.
OthersStay(t, r) ==
  LET n == Len(calls[t])
  IN  /\ calls' \in [Threads -> Seq(Calls)]
      /\ \A u \in Threads : /\ Len(calls'[u]) = Len(calls[u])
                            /\ DOMAIN calls'[u] = DOMAIN calls[u]
      /\ \A u \in Threads : \A i \in DOMAIN calls[u] :
           u # t \/ i # n => calls'[u][i] = calls[u][i]
      /\ calls'[t][n] = r
      /\ n \in DOMAIN calls[t] /\ n \in Nat \ {0} /\ DOMAIN calls[t] = 1..n

LEMMA SetCallOthersStay ==
  ASSUME TypeOK, NEW t \in Threads, calls[t] # <<>>, NEW r \in Calls, SetCall(t, r)
  PROVE  OthersStay(t, r)
  BY CallFacts, SetCallFacts DEF OthersStay

\* The store to clinit_trigger.
LEMMA MarkKeeps ==
  ASSUME IInv, NEW t \in Threads, Mark(t)
  PROVE  IInv'
  <1> DEFINE c == Call(t)
             n == Len(calls[t])
             x == c.cur
             l == c.list
             m == Cons(x, l)
             r == [c EXCEPT !.list = m, !.cur = Parent[x], !.at = "claim"]
  <1>0. TypeOK /\ Lists /\ Claims /\ Order
    BY DEF IInv
  <1>1. /\ calls[t] # <<>> /\ Followed(t)
        /\ n \in DOMAIN calls[t] /\ n \in Nat \ {0} /\ DOMAIN calls[t] = 1..n
        /\ c = calls[t][n] /\ c \in Calls /\ c.at = "mark"
    BY <1>0, CallFacts DEF Mark, At, InCall
  <1>2. /\ x \in Classes /\ stage[x] = 1 /\ trigger[x] = NULL
        /\ l # <<>> => x = Parent[l[1]]
        /\ l = <<>> => x = c.class
    BY <1>0, <1>1 DEF Calls, Claims, MarkedByOne, Lists, CursorIsNext
  <1>3. l \in Seq(Classes) /\ Len(l) \in Nat /\ DOMAIN l = 1..Len(l) /\ c.class \in Classes
    BY <1>1 DEF Calls
  <1>4. /\ m \in Seq(Classes) /\ Len(m) = Len(l) + 1 /\ DOMAIN m = 1..Len(m)
        /\ m[1] = x
        /\ \A k \in 1..Len(l) : m[k + 1] = l[k]
    <2>1. <<x>> \in Seq(Classes) /\ Len(<<x>>) = 1 /\ <<x>>[1] = x
      BY <1>2
    <2>2. m = <<x>> \o l
      BY DEF Cons
    <2> HIDE DEF m, l, x
    <2>3. /\ m \in Seq(Classes) /\ Len(m) = 1 + Len(l)
          /\ \A k \in 1..1 + Len(l) : m[k] = IF k <= 1 THEN <<x>>[k] ELSE l[k - 1]
      BY <1>3, <2>1, <2>2, ConcatProperties
    <2>4. QED
      BY <1>3, <2>1, <2>3
  <1>5. /\ trigger' = [trigger EXCEPT ![x] = t]
        /\ SetCall(t, r)
        /\ UNCHANGED <<stage, dead, astray, collector, stopped>>
    BY DEF Mark, Claimed, collection
  <1>6. /\ r \in Calls
        /\ r.class = c.class /\ r.list = m /\ r.cur = Parent[x] /\ r.at = "claim"
    BY <1>1, <1>2, <1>4, ClassAssumption DEF Calls, Steps
  <1>7. OthersStay(t, r)
    BY <1>0, <1>1, <1>5, <1>6, SetCallOthersStay
  <1>8. /\ trigger' \in [Classes -> Threads \cup {NULL}] /\ trigger'[x] = t
        /\ \A d \in Classes \ {x} : trigger'[d] = trigger[d]
    BY <1>0, <1>2, <1>5 DEF TypeOK
  <1> HIDE DEF c, x, l, m, r
  <1>9. /\ calls' \in [Threads -> Seq(Calls)]
        /\ \A u \in Threads : /\ Len(calls'[u]) = Len(calls[u])
                              /\ DOMAIN calls'[u] = DOMAIN calls[u]
        /\ \A u \in Threads : \A i \in DOMAIN calls[u] :
             u # t \/ i # n => calls'[u][i] = calls[u][i]
        /\ calls'[t][n] = r
    BY <1>7 DEF OthersStay
  <1> HIDE DEF n
  <1>10. \A u \in Threads : \A i \in DOMAIN calls[u] : \A k \in DOMAIN calls[u][i].list :
           calls[u][i].list[k] \in Classes \ {x}
    <2>1. \A u \in Threads : u # NULL
      BY ClassAssumption
    <2>2. QED
      BY <1>0, <1>2, <2>1, CallTypes DEF Claims, ListedAreClaimed
  <1>11. \A u \in Threads, d \in Classes : Initializing(u, d) => Initializing(u, d)'
    <2> SUFFICES ASSUME NEW u \in Threads, NEW d \in Classes, NEW i \in DOMAIN calls[u],
                        d \in ToSet(calls[u][i].list)
                 PROVE  d \in ToSet(calls'[u][i].list)
      BY <1>9 DEF Initializing
    <2>1. CASE u # t \/ i # n
      BY <1>9, <2>1
    <2>2. CASE u = t /\ i = n
      <3>1. PICK k \in 1..Len(l) : d = l[k]
        BY <1>1, <1>3, <2>2 DEF ToSet, l
      <3>2. k + 1 \in DOMAIN m /\ m[k + 1] = d
        BY <1>3, <1>4, <3>1
      <3>3. QED
        BY <1>6, <1>9, <2>2, <3>2 DEF ToSet
    <2>3. QED
      BY <2>1, <2>2
  <1>12. TypeOK'
    BY <1>0, <1>5, <1>8, <1>9 DEF TypeOK
  <1>13. Lists'
    <2>1. ListedOnce'
      <3> SUFFICES ASSUME NEW u \in Threads, NEW i \in DOMAIN calls[u], NEW j \in DOMAIN calls[u],
                          NEW k \in DOMAIN calls'[u][i].list, NEW h \in DOMAIN calls'[u][j].list,
                          calls'[u][i].list[k] = calls'[u][j].list[h]
                   PROVE  i = j /\ k = h
        BY <1>9 DEF ListedOnce
      <3>1. ASSUME NEW a \in DOMAIN calls[u], NEW b \in DOMAIN calls'[u][a].list
            PROVE  \/ u = t /\ a = n /\ b = 1 /\ calls'[u][a].list[b] = x
                   \/ /\ u = t /\ a = n /\ b # 1 /\ b - 1 \in DOMAIN calls[u][a].list
                      /\ calls'[u][a].list[b] = calls[u][a].list[b - 1]
                   \/ /\ u # t \/ a # n
                      /\ b \in DOMAIN calls[u][a].list
                      /\ calls'[u][a].list[b] = calls[u][a].list[b]
        <4>1. CASE u # t \/ a # n
          BY <1>9, <3>1, <4>1
        <4>2. CASE u = t /\ a = n
          <5>1. b \in 1..Len(l) + 1 /\ calls'[u][a].list[b] = m[b]
            BY <1>4, <1>6, <1>9, <3>1, <4>2
          <5>2. b # 1 => b - 1 \in 1..Len(l) /\ m[b] = l[b - 1]
            <6>1. b # 1 => b - 1 \in 1..Len(l) /\ (b - 1) + 1 = b
              BY <1>3, <5>1
            <6>2. QED
              BY <1>4, <6>1
          <5>3. calls[u][a].list = l
            BY <1>1, <4>2 DEF l
          <5>4. QED
            BY <1>3, <1>4, <4>2, <5>1, <5>2, <5>3
        <4>3. QED
          BY <4>1, <4>2
      <3>2. \/ u = t /\ i = n /\ k = 1 /\ calls'[u][i].list[k] = x
            \/ /\ u = t /\ i = n /\ k # 1 /\ k - 1 \in DOMAIN calls[u][i].list
               /\ calls'[u][i].list[k] = calls[u][i].list[k - 1]
            \/ /\ u # t \/ i # n
               /\ k \in DOMAIN calls[u][i].list
               /\ calls'[u][i].list[k] = calls[u][i].list[k]
        BY <3>1
      <3>3. \/ u = t /\ j = n /\ h = 1 /\ calls'[u][j].list[h] = x
            \/ /\ u = t /\ j = n /\ h # 1 /\ h - 1 \in DOMAIN calls[u][j].list
               /\ calls'[u][j].list[h] = calls[u][j].list[h - 1]
            \/ /\ u # t \/ j # n
               /\ h \in DOMAIN calls[u][j].list
               /\ calls'[u][j].list[h] = calls[u][j].list[h]
        BY <3>1
      <3>4. \A k1 \in DOMAIN calls[u][i].list, h1 \in DOMAIN calls[u][j].list :
              calls[u][i].list[k1] = calls[u][j].list[h1] => i = j /\ k1 = h1
        BY <1>0 DEF Lists, ListedOnce
      <3>5. k \in Nat /\ h \in Nat
        <4>1. calls'[u][i] \in Calls /\ calls'[u][j] \in Calls
          BY <1>9
        <4>2. calls'[u][i].list \in Seq(Classes) /\ calls'[u][j].list \in Seq(Classes)
          BY <4>1 DEF Calls
        <4>3. QED
          BY <4>2
      <3>6. QED
        BY <1>10, <3>2, <3>3, <3>4, <3>5
    <2>2. ListIsChain'
      <3> SUFFICES ASSUME NEW u \in Threads, NEW i \in DOMAIN calls[u],
                          NEW k \in DOMAIN calls'[u][i].list, k # 1
                   PROVE  Parent[calls'[u][i].list[k]] = calls'[u][i].list[k - 1]
        BY <1>9 DEF ListIsChain
      <3>1. CASE u # t \/ i # n
        BY <1>0, <1>9, <3>1 DEF Lists, ListIsChain
      <3>2. CASE u = t /\ i = n
        <4>1. calls'[u][i].list = m /\ k \in 2..Len(l) + 1
          BY <1>3, <1>4, <1>6, <1>9, <3>2
        <4>2. m[k] = l[k - 1]
          <5>1. k - 1 \in 1..Len(l) /\ (k - 1) + 1 = k
            BY <1>3, <4>1
          <5>2. QED
            BY <1>4, <5>1
        <4>3. CASE k = 2
          BY <1>2, <1>3, <1>4, <4>1, <4>2, <4>3
        <4>4. CASE k # 2
          <5>1. k - 1 \in DOMAIN l /\ k - 1 # 1 /\ k - 2 \in 1..Len(l)
                /\ (k - 2) + 1 = k - 1 /\ (k - 1) - 1 = k - 2
            BY <1>3, <4>1, <4>4
          <5>2. Parent[l[k - 1]] = l[(k - 1) - 1]
            BY <1>0, <1>1, <5>1 DEF Lists, ListIsChain, l
          <5>3. m[k - 1] = l[k - 2]
            BY <1>4, <5>1
          <5>4. QED
            BY <4>1, <4>2, <5>1, <5>2, <5>3
        <4>5. QED
          BY <4>3, <4>4
      <3>3. QED
        BY <3>1, <3>2
    <2>3. OuterCallsRun'
      BY <1>0, <1>1, <1>6, <1>9 DEF Lists, OuterCallsRun, n
    <2>4. CursorIsNext'
      <3>1. m # <<>>
        BY <1>3, <1>4
      <3>2. QED
        BY <1>0, <1>1, <1>4, <1>6, <1>9, <3>1 DEF Lists, CursorIsNext
    <2>5. CallsFit'
      <3>1. \A u \in Threads : calls[u] = <<>> => calls'[u] = <<>>
        BY <1>9, CallTypes, <1>1, <1>0
      <3>2. QED
        BY <1>0, <1>5, <1>9, <3>1 DEF Lists, CallsFit, Followed
    <2>6. QED
      BY <2>1, <2>2, <2>3, <2>4, <2>5 DEF Lists
  <1>14. Claims'
    <2>1. ListedAreClaimed'
      <3> SUFFICES ASSUME NEW u \in Threads, NEW i \in DOMAIN calls[u],
                          NEW k \in DOMAIN calls'[u][i].list
                   PROVE  /\ stage[calls'[u][i].list[k]] = 1
                          /\ trigger'[calls'[u][i].list[k]] = u
        BY <1>5, <1>9 DEF ListedAreClaimed
      <3>1. CASE u # t \/ i # n
        BY <1>0, <1>8, <1>9, <1>10, <3>1 DEF Claims, ListedAreClaimed
      <3>2. CASE u = t /\ i = n
        <4>1. calls'[u][i].list = m /\ k \in 1..Len(l) + 1
          BY <1>4, <1>6, <1>9, <3>2
        <4>2. CASE k = 1
          BY <1>2, <1>4, <1>8, <3>2, <4>1, <4>2
        <4>3. CASE k # 1
          <5>1. k - 1 \in 1..Len(l) /\ (k - 1) + 1 = k
            BY <1>3, <4>1, <4>3
          <5>2. m[k] = l[k - 1] /\ k - 1 \in DOMAIN calls[t][n].list /\ calls[t][n].list = l
            BY <1>1, <1>3, <1>4, <5>1 DEF l
          <5>3. QED
            BY <1>0, <1>1, <1>8, <1>10, <3>2, <4>1, <5>2 DEF Claims, ListedAreClaimed
        <4>4. QED
          BY <4>2, <4>3
      <3>3. QED
        BY <3>1, <3>2
    <2>2. MarkedByOne'
      <3>1. \A u \in Threads : \A i \in DOMAIN calls[u] :
              calls'[u][i].at = "mark" =>
                /\ u # t \/ i # n
                /\ calls'[u][i] = calls[u][i]
                /\ calls[u][i].cur \in Classes \ {x}
        <4> SUFFICES ASSUME NEW u \in Threads, NEW i \in DOMAIN calls[u], calls'[u][i].at = "mark"
                     PROVE  /\ u # t \/ i # n
                            /\ calls'[u][i] = calls[u][i]
                            /\ calls[u][i].cur \in Classes \ {x}
          OBVIOUS
        <4>1. (u # t \/ i # n) /\ calls'[u][i] = calls[u][i]
          BY <1>6, <1>9
        <4>2. calls[u][i].cur \in Classes
          BY <1>0, <4>1, CallTypes DEF Calls, Lists, CursorIsNext
        <4>3. calls[u][i].cur = x => u = t
          BY <1>0, <1>1, <4>1 DEF Claims, MarkedByOne, x
        <4>4. u = t => i = n
          BY <1>0, <1>1, <4>1 DEF Lists, OuterCallsRun, n
        <4>5. QED
          BY <4>1, <4>2, <4>3, <4>4
      <3> SUFFICES ASSUME NEW u \in Threads, NEW i \in DOMAIN calls[u], calls'[u][i].at = "mark"
                   PROVE  /\ stage[calls'[u][i].cur] = 1
                          /\ trigger'[calls'[u][i].cur] = NULL
                          /\ \A v \in Threads : \A j \in DOMAIN calls[v] :
                               calls'[v][j].at = "mark" /\ calls'[v][j].cur = calls'[u][i].cur
                                 => v = u
        BY <1>5, <1>9 DEF MarkedByOne
      <3>2. calls'[u][i] = calls[u][i] /\ calls[u][i].cur \in Classes \ {x}
        BY <3>1
      <3>3. /\ stage[calls[u][i].cur] = 1
            /\ trigger[calls[u][i].cur] = NULL
            /\ \A v \in Threads : \A j \in DOMAIN calls[v] :
                 calls[v][j].at = "mark" /\ calls[v][j].cur = calls[u][i].cur => v = u
        BY <1>0, <3>2 DEF Claims, MarkedByOne
      <3>4. QED
        BY <1>8, <3>1, <3>2, <3>3
    <2>3. ClaimedAreListed'
      <3>1. \E i \in DOMAIN calls'[t] : x \in ToSet(calls'[t][i].list)
        <4>1. calls'[t][n].list = m /\ n \in DOMAIN calls'[t]
          BY <1>1, <1>6, <1>9
        <4>2. 1 \in DOMAIN m
          BY <1>3, <1>4
        <4>3. QED
          BY <1>4, <4>1, <4>2 DEF ToSet
      <3> SUFFICES ASSUME NEW d \in Classes, NEW u \in Threads,
                          stage[d] = 1, trigger'[d] = u, Followed(u)
                   PROVE  Initializing(u, d)'
        BY <1>5 DEF ClaimedAreListed, Followed
      <3>2. CASE d = x
        BY <1>8, <3>1, <3>2 DEF Initializing
      <3>3. CASE d # x
        BY <1>0, <1>8, <1>11, <3>3 DEF Claims, ClaimedAreListed
      <3>4. QED
        BY <3>2, <3>3
    <2>4. TriggersAgree'
      BY <1>0, <1>2, <1>5, <1>8 DEF Claims, TriggersAgree
    <2>5. QED
      BY <2>1, <2>2, <2>3, <2>4 DEF Claims
  <1>15. Order'
    <2>1. FirstIsReady'
      <3> SUFFICES ASSUME NEW u \in Threads, NEW i \in DOMAIN calls[u],
                          calls'[u][i].at \in {"launch", "body"}, calls'[u][i].list # <<>>
                   PROVE  Ready(u, i)'
        BY <1>9 DEF FirstIsReady
      <3>1. u # t \/ i # n
        BY <1>6, <1>9
      <3>2. Ready(u, i)
        BY <1>0, <1>9, <3>1 DEF Order, FirstIsReady
      <3>3. \A j \in 1..i - 1 : calls'[u][j] = calls[u][j]
        BY <1>0, <1>1, <1>9, CallTypes
      <3>4. QED
        BY <1>5, <1>9, <3>1, <3>2, <3>3 DEF Ready
    <2>2. ClassIsSeen'
      <3> SUFFICES ASSUME NEW u \in Threads, NEW i \in DOMAIN calls[u]
                   PROVE  \/ /\ calls'[u][i].at # "launch" /\ calls'[u][i].list = <<>>
                             /\ calls'[u][i].cur = calls'[u][i].class
                          \/ stage[calls'[u][i].class] = 2
                          \/ trigger'[calls'[u][i].class] = u
        BY <1>5, <1>9 DEF ClassIsSeen
      <3>1. calls[u][i].class \in Classes
        BY <1>0, CallTypes DEF Calls
      <3>2. trigger[calls[u][i].class] = u => trigger'[calls[u][i].class] = u
        BY <1>2, <1>8, <3>1, ClassAssumption
      <3>3. CASE u # t \/ i # n
        BY <1>0, <1>9, <3>2, <3>3 DEF Order, ClassIsSeen
      <3>4. CASE u = t /\ i = n
        BY <1>0, <1>1, <1>2, <1>6, <1>8, <1>9, <3>2, <3>4 DEF Order, ClassIsSeen, l
      <3>5. QED
        BY <3>3, <3>4
    <2>3. DoneAfterSuperclass'
      <3>1. \A d \in Classes : Parent[d] # NULL => Parent[d] \in Classes
        BY ClassAssumption
      <3>2. \A d \in Classes : stage[d] = 2 => trigger[d] \in Threads /\ trigger'[d] = trigger[d]
        BY <1>0, <1>2, <1>8 DEF Claims, TriggersAgree
      <3>3. \A d \in Classes : trigger[d] \in Threads => trigger'[d] = trigger[d]
        BY <1>2, <1>8, ClassAssumption
      <3>4. QED
        BY <1>0, <1>5, <1>11, <3>1, <3>2, <3>3 DEF Order, DoneAfterSuperclass, Followed
    <2>4. QED
      BY <2>1, <2>2, <2>3 DEF Order
  <1>16. QED
    BY <1>12, <1>13, <1>14, <1>15 DEF IInv

\* A class is done: its initializer returned, or there is none.
LEMMA FinishKeeps ==
  ASSUME IInv, NEW t \in Threads, Skip(t) \/ EndBody(t)
  PROVE  IInv'
  <1> DEFINE c == Call(t)
             n == Len(calls[t])
             l == c.list
             x == Head(l)
             m == Tail(l)
             r == IF c.at = "launch" THEN [c EXCEPT !.list = m]
                  ELSE [c EXCEPT !.list = m, !.at = "launch", !.runs = n]
  <1>0. TypeOK /\ Lists /\ Claims /\ Order
    BY DEF IInv
  <1>1. /\ calls[t] # <<>> /\ Followed(t)
        /\ n \in DOMAIN calls[t] /\ n \in Nat \ {0} /\ DOMAIN calls[t] = 1..n
        /\ c = calls[t][n] /\ c \in Calls /\ c.at \in {"launch", "body"}
    BY <1>0, CallFacts DEF Skip, EndBody, At, InCall
  <1>2. n <= MaxCalls
    BY <1>0 DEF Lists, CallsFit
  <1>3. l \in Seq(Classes) /\ Len(l) \in Nat \ {0} /\ DOMAIN l = 1..Len(l)
    <2>1. l \in Seq(Classes)
      BY <1>1 DEF Calls
    <2>2. l # <<>>
      <3>1. CASE Skip(t)
        BY <3>1 DEF Skip
      <3>2. CASE EndBody(t)
        <4>1. c.at = "body"
          BY <3>2 DEF EndBody, At
        <4>2. QED
          BY <1>0, <1>1, <4>1 DEF Lists, OuterCallsRun
      <3>3. QED
        BY <3>1, <3>2
    <2>3. QED
      BY <2>1, <2>2
  <1>4. /\ m \in Seq(Classes) /\ Len(m) = Len(l) - 1 /\ DOMAIN m = 1..Len(m)
        /\ \A k \in 1..Len(m) : k + 1 \in DOMAIN l /\ m[k] = l[k + 1]
    BY <1>3
  <1>5. x = l[1] /\ x \in Classes
    BY <1>3
  <1>6. /\ stage' = [stage EXCEPT ![x] = 2]
        /\ SetCall(t, r)
        /\ UNCHANGED <<trigger, dead, astray, collector, stopped>>
    BY <1>1 DEF Skip, EndBody, At, collection
  <1>7. /\ r \in Calls
        /\ r.class = c.class /\ r.list = m /\ r.cur = c.cur /\ r.at = "launch"
    <2>1. n \in Levels
      BY <1>1, <1>2, ClassAssumption DEF Levels
    <2> HIDE DEF n, m
    <2>2. CASE c.at = "launch"
      BY <1>1, <1>4, <2>2 DEF Calls
    <2>3. CASE c.at = "body"
      BY <1>1, <1>4, <2>1, <2>3 DEF Calls, Steps
    <2>4. QED
      BY <1>1, <2>2, <2>3
  <1> HIDE DEF c, x, l, m, r
  <1>8. OthersStay(t, r)
    BY <1>0, <1>1, <1>6, <1>7, SetCallOthersStay
  <1>9. /\ stage' \in [Classes -> 0..2] /\ stage'[x] = 2
        /\ \A d \in Classes \ {x} : stage'[d] = stage[d]
    BY <1>0, <1>5, <1>6 DEF TypeOK
  <1>10. l = calls[t][n].list
    BY <1>1 DEF l
  <1>11. /\ calls' \in [Threads -> Seq(Calls)]
         /\ \A u \in Threads : /\ Len(calls'[u]) = Len(calls[u])
                               /\ DOMAIN calls'[u] = DOMAIN calls[u]
         /\ \A u \in Threads : \A i \in DOMAIN calls[u] :
              u # t \/ i # n => calls'[u][i] = calls[u][i]
         /\ calls'[t][n] = r
    BY <1>8 DEF OthersStay
  <1>11a. trigger' = trigger
    BY <1>6
  <1> HIDE DEF n
  <1>12. stage[x] = 1 /\ trigger[x] = t
    BY <1>0, <1>1, <1>3, <1>5, <1>10 DEF Claims, ListedAreClaimed
  <1>13. \A u \in Threads : \A i \in DOMAIN calls[u] : \A k \in DOMAIN calls[u][i].list :
           /\ calls[u][i].list[k] \in Classes
           /\ calls[u][i].list[k] = x => u = t /\ i = n /\ k = 1
    <2> SUFFICES ASSUME NEW u \in Threads, NEW i \in DOMAIN calls[u],
                        NEW k \in DOMAIN calls[u][i].list
                 PROVE  /\ calls[u][i].list[k] \in Classes
                        /\ calls[u][i].list[k] = x => u = t /\ i = n /\ k = 1
      OBVIOUS
    <2>1. calls[u][i].list[k] \in Classes
      BY <1>0, CallTypes
    <2>2. calls[u][i].list[k] = x => u = t
      BY <1>0, <1>12 DEF Claims, ListedAreClaimed
    <2>3. 1 \in DOMAIN calls[t][n].list /\ calls[t][n].list[1] = x
      BY <1>3, <1>5, <1>10
    <2>4. u = t /\ calls[u][i].list[k] = calls[t][n].list[1] => i = n /\ k = 1
      BY <1>0, <1>1, <2>3 DEF Lists, ListedOnce
    <2>5. QED
      BY <2>1, <2>2, <2>3, <2>4
  \* What is on a list now was there before.
  <1>14. ASSUME NEW u \in Threads, NEW i \in DOMAIN calls[u], NEW k \in DOMAIN calls'[u][i].list
         PROVE  \/ /\ u = t /\ i = n /\ k \in Nat \ {0} /\ k + 1 \in DOMAIN calls[u][i].list
                   /\ calls'[u][i].list[k] = calls[u][i].list[k + 1]
                \/ /\ u # t \/ i # n
                   /\ k \in DOMAIN calls[u][i].list
                   /\ calls'[u][i].list[k] = calls[u][i].list[k]
    <2>1. CASE u # t \/ i # n
      BY <1>11, <1>14, <2>1
    <2>2. CASE u = t /\ i = n
      <3>1. calls'[u][i].list = m
        BY <1>7, <1>11, <2>2
      <3>2. k \in 1..Len(m) /\ Len(m) \in Nat
        BY <1>3, <1>4, <1>14, <3>1
      <3>3. QED
        BY <1>4, <1>10, <2>2, <3>1, <3>2
    <2>3. QED
      BY <2>1, <2>2
  <1>15. \A u \in Threads, d \in Classes \ {x} :
           Initializing(u, d) => \E i \in DOMAIN calls'[u] : d \in ToSet(calls'[u][i].list)
    <2> SUFFICES ASSUME NEW u \in Threads, NEW d \in Classes \ {x}, NEW i \in DOMAIN calls[u],
                        d \in ToSet(calls[u][i].list)
                 PROVE  d \in ToSet(calls'[u][i].list)
      BY <1>11 DEF Initializing
    <2>1. CASE u # t \/ i # n
      BY <1>11, <2>1
    <2>2. CASE u = t /\ i = n
      <3>1. PICK k \in 1..Len(l) : d = l[k]
        BY <1>3, <1>10, <2>2 DEF ToSet
      <3>2. k - 1 \in 1..Len(m) /\ (k - 1) + 1 = k
        BY <1>3, <1>4, <1>5, <3>1
      <3>3. k - 1 \in DOMAIN m /\ m[k - 1] = d
        BY <1>4, <3>1, <3>2
      <3>4. calls'[u][i].list = m
        BY <1>7, <1>11, <2>2
      <3>5. QED
        BY <3>3, <3>4 DEF ToSet
    <2>3. QED
      BY <2>1, <2>2
  <1>16. TypeOK'
    BY <1>0, <1>6, <1>9, <1>11 DEF TypeOK
  <1>17. Lists'
    <2>1. ListedOnce'
      <3> SUFFICES ASSUME NEW u \in Threads, NEW i \in DOMAIN calls[u], NEW j \in DOMAIN calls[u],
                          NEW k \in DOMAIN calls'[u][i].list, NEW h \in DOMAIN calls'[u][j].list,
                          calls'[u][i].list[k] = calls'[u][j].list[h]
                   PROVE  i = j /\ k = h
        BY <1>11 DEF ListedOnce
      <3>1. \/ /\ u = t /\ i = n /\ k \in Nat \ {0} /\ k + 1 \in DOMAIN calls[u][i].list
               /\ calls'[u][i].list[k] = calls[u][i].list[k + 1]
            \/ /\ u # t \/ i # n
               /\ k \in DOMAIN calls[u][i].list
               /\ calls'[u][i].list[k] = calls[u][i].list[k]
        BY <1>14
      <3>2. \/ /\ u = t /\ j = n /\ h \in Nat \ {0} /\ h + 1 \in DOMAIN calls[u][j].list
               /\ calls'[u][j].list[h] = calls[u][j].list[h + 1]
            \/ /\ u # t \/ j # n
               /\ h \in DOMAIN calls[u][j].list
               /\ calls'[u][j].list[h] = calls[u][j].list[h]
        BY <1>14
      <3>3. \A k1 \in DOMAIN calls[u][i].list, h1 \in DOMAIN calls[u][j].list :
              calls[u][i].list[k1] = calls[u][j].list[h1] => i = j /\ k1 = h1
        BY <1>0 DEF Lists, ListedOnce
      <3>4. k \in Nat /\ h \in Nat
        <4>1. calls'[u][i] \in Calls /\ calls'[u][j] \in Calls
          BY <1>11
        <4>2. calls'[u][i].list \in Seq(Classes) /\ calls'[u][j].list \in Seq(Classes)
          BY <4>1 DEF Calls
        <4>3. QED
          BY <4>2
      <3>5. QED
        BY <3>1, <3>2, <3>3, <3>4
    <2>2. ListIsChain'
      <3> SUFFICES ASSUME NEW u \in Threads, NEW i \in DOMAIN calls[u],
                          NEW k \in DOMAIN calls'[u][i].list, k # 1
                   PROVE  Parent[calls'[u][i].list[k]] = calls'[u][i].list[k - 1]
        BY <1>11 DEF ListIsChain
      <3>1. CASE u # t \/ i # n
        BY <1>0, <1>11, <3>1 DEF Lists, ListIsChain
      <3>2. CASE u = t /\ i = n
        <4>1. calls'[u][i].list = m /\ k \in 1..Len(m)
          BY <1>4, <1>7, <1>11, <3>2
        <4>2. /\ k + 1 \in DOMAIN l /\ k + 1 # 1 /\ (k + 1) - 1 = k
              /\ k - 1 \in 1..Len(m) /\ (k - 1) + 1 = k
          BY <1>3, <1>4, <4>1
        <4>3. m[k] = l[k + 1] /\ m[k - 1] = l[k]
          BY <1>4, <4>1, <4>2
        <4>4. Parent[l[k + 1]] = l[(k + 1) - 1]
          BY <1>0, <1>1, <1>10, <4>2 DEF Lists, ListIsChain
        <4>5. QED
          BY <4>1, <4>2, <4>3, <4>4
      <3>3. QED
        BY <3>1, <3>2
    <2>3. OuterCallsRun'
      BY <1>0, <1>1, <1>7, <1>11 DEF Lists, OuterCallsRun, n
    <2>4. CursorIsNext'
      BY <1>0, <1>7, <1>11 DEF Lists, CursorIsNext
    <2>5. CallsFit'
      <3>1. \A u \in Threads : calls[u] = <<>> => calls'[u] = <<>>
        BY <1>0, <1>1, <1>11
      <3>2. QED
        BY <1>0, <1>6, <1>11, <3>1 DEF Lists, CallsFit, Followed
    <2>6. QED
      BY <2>1, <2>2, <2>3, <2>4, <2>5 DEF Lists
  <1>18. Claims'
    <2>1. ListedAreClaimed'
      <3> SUFFICES ASSUME NEW u \in Threads, NEW i \in DOMAIN calls[u],
                          NEW k \in DOMAIN calls'[u][i].list
                   PROVE  /\ stage'[calls'[u][i].list[k]] = 1
                          /\ trigger[calls'[u][i].list[k]] = u
        BY <1>6, <1>11 DEF ListedAreClaimed
      <3>1. PICK k1 \in DOMAIN calls[u][i].list :
              /\ calls'[u][i].list[k] = calls[u][i].list[k1]
              /\ u = t /\ i = n => k1 # 1
        BY <1>14
      <3>2. calls[u][i].list[k1] \in Classes \ {x}
        BY <1>13, <3>1
      <3>3. QED
        BY <1>0, <1>9, <3>1, <3>2 DEF Claims, ListedAreClaimed
    <2>2. MarkedByOne'
      <3>1. \A u \in Threads : \A i \in DOMAIN calls[u] : calls'[u][i].at = "mark" =>
              calls'[u][i] = calls[u][i] /\ calls[u][i].cur \in Classes \ {x}
        <4> SUFFICES ASSUME NEW u \in Threads, NEW i \in DOMAIN calls[u], calls'[u][i].at = "mark"
                     PROVE  calls'[u][i] = calls[u][i] /\ calls[u][i].cur \in Classes \ {x}
          OBVIOUS
        <4>1. calls'[u][i] = calls[u][i]
          BY <1>7, <1>11
        <4>2. calls[u][i].cur \in Classes
          BY <1>0, <4>1, CallTypes DEF Calls, Lists, CursorIsNext
        <4>3. trigger[calls[u][i].cur] = NULL
          BY <1>0, <4>1 DEF Claims, MarkedByOne
        <4>4. QED
          BY <1>12, <4>1, <4>2, <4>3, ClassAssumption
      <3> SUFFICES ASSUME NEW u \in Threads, NEW i \in DOMAIN calls[u], calls'[u][i].at = "mark"
                   PROVE  /\ stage'[calls'[u][i].cur] = 1
                          /\ trigger'[calls'[u][i].cur] = NULL
                          /\ \A v \in Threads : \A j \in DOMAIN calls[v] :
                               calls'[v][j].at = "mark" /\ calls'[v][j].cur = calls'[u][i].cur
                                 => v = u
        BY <1>11 DEF MarkedByOne
      <3>2. calls'[u][i] = calls[u][i] /\ calls[u][i].cur \in Classes \ {x}
        BY <3>1
      <3>3. /\ stage[calls[u][i].cur] = 1
            /\ trigger[calls[u][i].cur] = NULL
            /\ \A v \in Threads : \A j \in DOMAIN calls[v] :
                 calls[v][j].at = "mark" /\ calls[v][j].cur = calls[u][i].cur => v = u
        BY <1>0, <3>2 DEF Claims, MarkedByOne
      <3>4. QED
        BY <1>9, <1>11a, <3>1, <3>2, <3>3
    <2>3. ClaimedAreListed'
      <3> SUFFICES ASSUME NEW d \in Classes, NEW u \in Threads,
                          stage'[d] = 1, trigger[d] = u, Followed(u)
                   PROVE  \E i \in DOMAIN calls'[u] : d \in ToSet(calls'[u][i].list)
        BY <1>6 DEF ClaimedAreListed, Followed, Initializing
      <3>1. d \in Classes \ {x} /\ stage[d] = 1
        BY <1>9
      <3>2. Initializing(u, d)
        BY <1>0, <3>1 DEF Claims, ClaimedAreListed
      <3>3. QED
        BY <1>15, <3>1, <3>2
    <2>4. TriggersAgree'
      BY <1>0, <1>6, <1>9, <1>12 DEF Claims, TriggersAgree
    <2>5. QED
      BY <2>1, <2>2, <2>3, <2>4 DEF Claims
  <1>19. Order'
    <2>1. \A d \in Classes : stage[d] = 2 => stage'[d] = 2
      BY <1>9
    <2>2. Ready(t, n)
      BY <1>0, <1>1, <1>3, <1>10 DEF Order, FirstIsReady
    <2>3. FirstIsReady'
      <3> SUFFICES ASSUME NEW u \in Threads, NEW i \in DOMAIN calls[u],
                          calls'[u][i].at \in {"launch", "body"}, calls'[u][i].list # <<>>
                   PROVE  Ready(u, i)'
        BY <1>11 DEF FirstIsReady
      <3>1. CASE u # t \/ i # n
        <4>1. Ready(u, i)
          BY <1>0, <1>11, <3>1 DEF Order, FirstIsReady
        <4>2. \A j \in 1..i - 1 : calls'[u][j] = calls[u][j]
          BY <1>0, <1>1, <1>11, CallTypes
        <4>3. calls'[u][i] = calls[u][i]
          BY <1>11, <3>1
        <4>4. calls[u][i].list[1] \in Classes
          <5>1. 1 \in DOMAIN calls[u][i].list
            BY <1>0, <4>3, CallTypes
          <5>2. QED
            BY <1>13, <5>1
        <4>5. Parent[calls[u][i].list[1]] # NULL => Parent[calls[u][i].list[1]] \in Classes
          BY <4>4, ClassAssumption
        <4>6. QED
          BY <2>1, <4>1, <4>2, <4>3, <4>5 DEF Ready
      <3>2. CASE u = t /\ i = n
        <4>1. calls'[u][i].list = m /\ m # <<>>
          BY <1>7, <1>11, <3>2
        <4>2. 1 \in 1..Len(m) /\ 1 + 1 = 2 /\ 2 # 1 /\ 2 - 1 = 1
          BY <1>3, <1>4, <4>1
        <4>3. m[1] = l[2] /\ 2 \in DOMAIN l
          BY <1>4, <4>2
        <4>4. Parent[l[2]] = l[2 - 1]
          BY <1>0, <1>1, <1>10, <4>3, <4>2 DEF Lists, ListIsChain
        <4>5. QED
          BY <1>5, <1>9, <4>1, <4>2, <4>3, <4>4 DEF Ready
      <3>3. QED
        BY <3>1, <3>2
    <2>4. ClassIsSeen'
      <3> SUFFICES ASSUME NEW u \in Threads, NEW i \in DOMAIN calls[u]
                   PROVE  \/ /\ calls'[u][i].at # "launch" /\ calls'[u][i].list = <<>>
                             /\ calls'[u][i].cur = calls'[u][i].class
                          \/ stage'[calls'[u][i].class] = 2
                          \/ trigger[calls'[u][i].class] = u
        BY <1>6, <1>11 DEF ClassIsSeen
      <3>1. calls[u][i].class \in Classes
        BY <1>0, CallTypes DEF Calls
      <3>2. CASE u # t \/ i # n
        <4>1. calls'[u][i] = calls[u][i]
          BY <1>11, <3>2
        <4>2. \/ calls[u][i].at # "launch" /\ calls[u][i].list = <<>>
                 /\ calls[u][i].cur = calls[u][i].class
              \/ stage[calls[u][i].class] = 2
              \/ trigger[calls[u][i].class] = u
          BY <1>0 DEF Order, ClassIsSeen
        <4>3. QED
          BY <2>1, <3>1, <4>1, <4>2
      <3>3. CASE u = t /\ i = n
        <4>1. calls'[u][i].class = calls[u][i].class
          BY <1>1, <1>7, <1>11, <3>3
        <4>2. calls[u][i].list # <<>>
          BY <1>3, <1>10, <3>3
        <4>3. stage[calls[u][i].class] = 2 \/ trigger[calls[u][i].class] = u
          BY <1>0, <4>2 DEF Order, ClassIsSeen
        <4>4. QED
          BY <2>1, <3>1, <4>1, <4>3
      <3>4. QED
        BY <3>2, <3>3
    <2>5. DoneAfterSuperclass'
      <3> SUFFICES ASSUME NEW d \in Classes, Parent[d] # NULL, stage'[d] = 2,
                          stage'[Parent[d]] # 2
                   PROVE  /\ trigger[Parent[d]] = trigger[d]
                          /\ \/ ~Followed(trigger[d])
                             \/ \E i \in DOMAIN calls'[trigger[d]] :
                                  Parent[d] \in ToSet(calls'[trigger[d]][i].list)
        BY <1>6 DEF DoneAfterSuperclass, Followed, Initializing
      <3>1. Parent[d] \in Classes \ {x} /\ stage[Parent[d]] # 2
        BY <1>9, <2>1, ClassAssumption
      <3>2. CASE d = x
        <4>1. PICK j \in 1..n - 1 : Parent[d] \in ToSet(calls[t][j].list)
          BY <1>1, <1>5, <1>10, <2>2, <3>1, <3>2 DEF Ready
        <4>2. j \in DOMAIN calls[t] /\ j # n
          BY <1>1
        <4>3. trigger[Parent[d]] = t
          BY <1>0, <4>1, <4>2 DEF Claims, ListedAreClaimed, ToSet
        <4>4. QED
          BY <1>11, <1>12, <3>2, <4>1, <4>2, <4>3
      <3>3. CASE d # x
        <4>1. stage[d] = 2 /\ trigger[d] \in Threads
          BY <1>0, <1>9, <3>3 DEF Claims, TriggersAgree
        <4>2. /\ trigger[Parent[d]] = trigger[d]
              /\ ~Followed(trigger[d]) \/ Initializing(trigger[d], Parent[d])
          BY <1>0, <3>1, <4>1 DEF Order, DoneAfterSuperclass
        <4>3. QED
          BY <1>15, <3>1, <4>1, <4>2
      <3>4. QED
        BY <3>2, <3>3
    <2>6. QED
      BY <2>3, <2>4, <2>5 DEF Order
  <1>20. QED
    BY <1>16, <1>17, <1>18, <1>19 DEF IInv

----------------------------------------------------------------------------
(* Calls come and go *)

\* An opcode or an initializer needs a class.
LEMMA PushKeeps ==
  ASSUME IInv, NEW t \in Threads, NEW c \in Classes, RunClinit(t, c)
  PROVE  IInv'
  <1> DEFINE n == Len(calls[t])
             r == [class |-> c, cur |-> c, list |-> <<>>, at |-> "claim", runs |-> n + 1,
                   under |-> {Level(t)} \cup IF calls[t] = <<>> THEN {} ELSE Call(t).under]
  <1>0. TypeOK /\ Lists /\ Claims /\ Order
    BY DEF IInv
  <1>1. /\ calls[t] \in Seq(Calls) /\ n \in Nat /\ DOMAIN calls[t] = 1..n /\ n < MaxCalls
        /\ calls[t] # <<>> => Call(t).at = "body"
        /\ Followed(t)
    BY <1>0 DEF RunClinit, Runs, InBytecode, TypeOK
  <1>2. calls[t] # <<>> => Call(t) \in Calls /\ n \in 1..n /\ Call(t) = calls[t][n]
    BY <1>0, <1>1, CallFacts
  <1>3. r \in Calls
    <2>1. Level(t) \in Levels /\ n + 1 \in Levels
      BY <1>1, <1>2, ClassAssumption DEF Level, Levels, Calls
    <2>2. r.under \in SUBSET Levels
      BY <1>2, <2>1 DEF Calls
    <2>3. <<>> \in Seq(Classes)
      OBVIOUS
    <2>4. QED
      BY <2>1, <2>2, <2>3 DEF Calls, Steps
  <1>4. r.class = c /\ r.cur = c /\ r.list = <<>> /\ r.at = "claim"
    OBVIOUS
  <1>5. calls' = [calls EXCEPT ![t] = Append(calls[t], r)]
        /\ UNCHANGED <<stage, trigger, dead, astray, collector, stopped>>
    BY DEF RunClinit, collection
  <1> HIDE DEF r
  <1>6. /\ calls' \in [Threads -> Seq(Calls)]
        /\ calls'[t] = Append(calls[t], r)
        /\ \A u \in Threads \ {t} : calls'[u] = calls[u]
    BY <1>0, <1>1, <1>3, <1>5 DEF TypeOK
  <1>7. /\ Len(calls'[t]) = n + 1
        /\ \A i \in 1..n : calls'[t][i] = calls[t][i]
        /\ calls'[t][n + 1] = r
    BY <1>1, <1>3, <1>6, AppendProperties
  <1>8. DOMAIN calls'[t] = 1..n + 1
    BY <1>6, <1>7
  <1> HIDE DEF n
  \* A call is the new one or was there before.
  <1>9. \A u \in Threads : \A i \in DOMAIN calls'[u] :
          \/ u = t /\ i = n + 1 /\ calls'[u][i] = r
          \/ i \in DOMAIN calls[u] /\ calls'[u][i] = calls[u][i] /\ (u = t => i \in 1..n)
    BY <1>1, <1>6, <1>7, <1>8
  <1>10. \A u \in Threads : \A i \in DOMAIN calls[u] :
           i \in DOMAIN calls'[u] /\ calls'[u][i] = calls[u][i]
    BY <1>1, <1>6, <1>7, <1>8
  \* What is on a list was there before.
  <1>11. \A u \in Threads : \A i \in DOMAIN calls'[u] : calls'[u][i].list # <<>> =>
           i \in DOMAIN calls[u] /\ calls'[u][i] = calls[u][i]
    BY <1>4, <1>9
  <1>12. \A u \in Threads : \A i \in DOMAIN calls'[u] : \A k \in DOMAIN calls'[u][i].list :
           i \in DOMAIN calls[u] /\ calls'[u][i] = calls[u][i]
    <2> SUFFICES ASSUME NEW u \in Threads, NEW i \in DOMAIN calls'[u],
                        NEW k \in DOMAIN calls'[u][i].list
                 PROVE  i \in DOMAIN calls[u] /\ calls'[u][i] = calls[u][i]
      OBVIOUS
    <2>1. calls'[u][i].list # <<>>
      OBVIOUS
    <2>2. QED
      BY <1>11, <2>1
  <1>13. \A u \in Threads, d \in Classes : Initializing(u, d) => Initializing(u, d)'
    BY <1>10 DEF Initializing
  <1>14. TypeOK'
    BY <1>0, <1>5, <1>6 DEF TypeOK
  <1>15. Lists'
    <2>1. ListedOnce'
      <3> SUFFICES ASSUME NEW u \in Threads, NEW i \in DOMAIN calls'[u], NEW j \in DOMAIN calls'[u],
                          NEW k \in DOMAIN calls'[u][i].list, NEW h \in DOMAIN calls'[u][j].list,
                          calls'[u][i].list[k] = calls'[u][j].list[h]
                   PROVE  i = j /\ k = h
        BY DEF ListedOnce
      <3>1. /\ i \in DOMAIN calls[u] /\ calls'[u][i] = calls[u][i]
            /\ j \in DOMAIN calls[u] /\ calls'[u][j] = calls[u][j]
        BY <1>12
      <3>2. QED
        BY <1>0, <3>1 DEF Lists, ListedOnce
    <2>2. ListIsChain'
      <3> SUFFICES ASSUME NEW u \in Threads, NEW i \in DOMAIN calls'[u],
                          NEW k \in DOMAIN calls'[u][i].list, k # 1
                   PROVE  Parent[calls'[u][i].list[k]] = calls'[u][i].list[k - 1]
        BY DEF ListIsChain
      <3>1. i \in DOMAIN calls[u] /\ calls'[u][i] = calls[u][i]
        BY <1>12
      <3>2. QED
        BY <1>0, <3>1 DEF Lists, ListIsChain
    <2>3. OuterCallsRun'
      <3> SUFFICES ASSUME NEW u \in Threads, NEW i \in DOMAIN calls'[u]
                   PROVE  /\ i # Len(calls'[u]) => calls'[u][i].at = "body"
                          /\ calls'[u][i].at = "body" => calls'[u][i].list # <<>>
        BY DEF OuterCallsRun
      <3>1. CASE u = t /\ i = n + 1 /\ calls'[u][i] = r
        BY <1>4, <1>7, <3>1
      <3>2. CASE i \in DOMAIN calls[u] /\ calls'[u][i] = calls[u][i] /\ (u = t => i \in 1..n)
        <4>1. /\ i # Len(calls[u]) => calls[u][i].at = "body"
              /\ calls[u][i].at = "body" => calls[u][i].list # <<>>
          BY <1>0, <3>2 DEF Lists, OuterCallsRun
        <4>2. u = t /\ i = n => calls[u][i].at = "body"
          BY <1>1, <1>2, <3>2
        <4>3. QED
          BY <1>6, <3>2, <4>1, <4>2 DEF n
      <3>3. QED
        BY <1>9, <3>1, <3>2
    <2>4. CursorIsNext'
      <3> SUFFICES ASSUME NEW u \in Threads, NEW i \in DOMAIN calls'[u]
                   PROVE  /\ calls'[u][i].at \in {"claim", "mark", "wait"} =>
                               calls'[u][i].cur = IF calls'[u][i].list = <<>> THEN calls'[u][i].class
                                                  ELSE Parent[calls'[u][i].list[1]]
                          /\ calls'[u][i].at \in {"mark", "wait"} => calls'[u][i].cur # NULL
        BY DEF CursorIsNext
      <3>1. CASE calls'[u][i] = r
        BY <1>4, <3>1
      <3>2. CASE i \in DOMAIN calls[u] /\ calls'[u][i] = calls[u][i]
        BY <1>0, <3>2 DEF Lists, CursorIsNext
      <3>3. QED
        BY <1>9, <3>1, <3>2
    <2>5. CallsFit'
      <3>1. n + 1 <= MaxCalls
        BY <1>1, ClassAssumption
      <3>2. QED
        BY <1>0, <1>1, <1>5, <1>6, <1>7, <3>1 DEF Lists, CallsFit, Followed
    <2>6. QED
      BY <2>1, <2>2, <2>3, <2>4, <2>5 DEF Lists
  <1>16. Claims'
    <2>1. ListedAreClaimed'
      <3> SUFFICES ASSUME NEW u \in Threads, NEW i \in DOMAIN calls'[u],
                          NEW k \in DOMAIN calls'[u][i].list
                   PROVE  /\ stage[calls'[u][i].list[k]] = 1
                          /\ trigger[calls'[u][i].list[k]] = u
        BY <1>5 DEF ListedAreClaimed
      <3>1. i \in DOMAIN calls[u] /\ calls'[u][i] = calls[u][i]
        BY <1>12
      <3>2. QED
        BY <1>0, <3>1 DEF Claims, ListedAreClaimed
    <2>2. MarkedByOne'
      <3>1. \A u \in Threads : \A i \in DOMAIN calls'[u] : calls'[u][i].at = "mark" =>
              i \in DOMAIN calls[u] /\ calls'[u][i] = calls[u][i]
        BY <1>4, <1>9
      <3>2. QED
        BY <1>0, <1>5, <3>1 DEF Claims, MarkedByOne
    <2>3. ClaimedAreListed'
      BY <1>0, <1>5, <1>13 DEF Claims, ClaimedAreListed, Followed
    <2>4. TriggersAgree'
      BY <1>0, <1>5 DEF Claims, TriggersAgree
    <2>5. QED
      BY <2>1, <2>2, <2>3, <2>4 DEF Claims
  <1>17. Order'
    <2>1. FirstIsReady'
      <3> SUFFICES ASSUME NEW u \in Threads, NEW i \in DOMAIN calls'[u],
                          calls'[u][i].at \in {"launch", "body"}, calls'[u][i].list # <<>>
                   PROVE  Ready(u, i)'
        BY DEF FirstIsReady
      <3>1. i \in DOMAIN calls[u] /\ calls'[u][i] = calls[u][i]
        BY <1>11
      <3>2. Ready(u, i)
        BY <1>0, <3>1 DEF Order, FirstIsReady
      <3>3. \A j \in 1..i - 1 : calls'[u][j] = calls[u][j]
        BY <1>0, <1>10, <3>1, CallTypes
      <3>4. QED
        BY <1>5, <3>1, <3>2, <3>3 DEF Ready
    <2>2. ClassIsSeen'
      <3> SUFFICES ASSUME NEW u \in Threads, NEW i \in DOMAIN calls'[u]
                   PROVE  \/ /\ calls'[u][i].at # "launch" /\ calls'[u][i].list = <<>>
                             /\ calls'[u][i].cur = calls'[u][i].class
                          \/ stage[calls'[u][i].class] = 2
                          \/ trigger[calls'[u][i].class] = u
        BY <1>5 DEF ClassIsSeen
      <3>1. CASE calls'[u][i] = r
        BY <1>4, <3>1
      <3>2. CASE i \in DOMAIN calls[u] /\ calls'[u][i] = calls[u][i]
        BY <1>0, <3>2 DEF Order, ClassIsSeen
      <3>3. QED
        BY <1>9, <3>1, <3>2
    <2>3. DoneAfterSuperclass'
      <3>1. \A d \in Classes : Parent[d] # NULL => Parent[d] \in Classes
        BY ClassAssumption
      <3>2. \A d \in Classes : stage[d] = 2 => trigger[d] \in Threads
        BY <1>0 DEF Claims, TriggersAgree
      <3>3. QED
        BY <1>0, <1>5, <1>13, <3>1, <3>2 DEF Order, DoneAfterSuperclass, Followed
    <2>4. QED
      BY <2>1, <2>2, <2>3 DEF Order
  <1>18. QED
    BY <1>14, <1>15, <1>16, <1>17 DEF IInv

\* The innermost call, which has nothing left to do, or all of a thread that is not followed
\* any more.
Dropped(t) ==
  \/ /\ calls' = [calls EXCEPT ![t] = Front(@)]
     /\ Call(t).list = <<>>
     /\ UNCHANGED <<dead, astray>>
  \/ /\ calls' = [calls EXCEPT ![t] = <<>>]
     /\ ~Followed(t)'
     /\ dead' \subseteq dead \cup {t} /\ astray' \subseteq astray \cup {t}
     /\ \A u \in Threads \ {t} : Followed(u)' = Followed(u)

LEMMA DropKeeps ==
  ASSUME IInv, NEW t \in Threads, calls[t] # <<>>, Followed(t), Dropped(t),
         UNCHANGED <<stage, trigger, collector, stopped>>
  PROVE  IInv'
  <1> DEFINE n == Len(calls[t])
  <1>0. TypeOK /\ Lists /\ Claims /\ Order
    BY DEF IInv
  <1>1. /\ calls[t] \in Seq(Calls) /\ n \in Nat \ {0} /\ DOMAIN calls[t] = 1..n
        /\ Call(t) = calls[t][n]
    BY <1>0, CallFacts DEF TypeOK
  <1>2. /\ calls' \in [Threads -> Seq(Calls)]
        /\ \A u \in Threads \ {t} : calls'[u] = calls[u]
        /\ \/ /\ Len(calls'[t]) = n - 1 /\ \A i \in 1..n - 1 : calls'[t][i] = calls[t][i]
              /\ calls[t][n].list = <<>> /\ UNCHANGED <<dead, astray>>
           \/ calls'[t] = <<>> /\ ~Followed(t)'
    <2>1. Front(calls[t]) \in Seq(Calls) /\ Len(Front(calls[t])) = n - 1
          /\ \A i \in 1..n - 1 : Front(calls[t])[i] = calls[t][i]
      BY <1>1 DEF Front
    <2>2. CASE calls' = [calls EXCEPT ![t] = Front(@)] /\ Call(t).list = <<>>
               /\ UNCHANGED <<dead, astray>>
      BY <1>0, <1>1, <2>1, <2>2 DEF TypeOK
    <2>3. CASE calls' = [calls EXCEPT ![t] = <<>>] /\ ~Followed(t)'
      BY <1>0, <2>3 DEF TypeOK
    <2>4. QED
      BY <2>2, <2>3 DEF Dropped
  <1>3. dead' \in SUBSET Threads /\ astray' \in SUBSET Threads
    BY <1>0 DEF Dropped, TypeOK
  <1>4. \A u \in Threads : Followed(u)' => Followed(u)
    BY DEF Dropped, Followed
  <1> HIDE DEF n
  <1>5. Len(calls'[t]) \in 0..n - 1 /\ DOMAIN calls'[t] = 1..Len(calls'[t])
    BY <1>1, <1>2
  <1>6. \A u \in Threads : \A i \in DOMAIN calls'[u] :
          i \in DOMAIN calls[u] /\ calls'[u][i] = calls[u][i] /\ (u = t => i \in 1..n - 1)
    BY <1>1, <1>2, <1>5
  <1>7. \A u \in Threads, d \in Classes :
          Followed(u)' /\ Initializing(u, d) => Initializing(u, d)'
    <2> SUFFICES ASSUME NEW u \in Threads, NEW d \in Classes, Followed(u)',
                        NEW i \in DOMAIN calls[u], d \in ToSet(calls[u][i].list)
                 PROVE  \E j \in DOMAIN calls'[u] : d \in ToSet(calls'[u][j].list)
      BY DEF Initializing
    <2>1. CASE u # t
      BY <1>2, <2>1
    <2>2. CASE u = t
      <3>1. i # n
        BY <1>2, <2>2 DEF ToSet
      <3>2. i \in DOMAIN calls'[t] /\ calls'[t][i] = calls[t][i]
        BY <1>1, <1>2, <1>5, <2>2, <3>1
      <3>3. QED
        BY <2>2, <3>2
    <2>3. QED
      BY <2>1, <2>2
  <1>8. TypeOK'
    BY <1>0, <1>2, <1>3 DEF TypeOK
  <1>9. Lists'
    <2>1. ListedOnce'
      BY <1>0, <1>6 DEF Lists, ListedOnce
    <2>2. ListIsChain'
      BY <1>0, <1>6 DEF Lists, ListIsChain
    <2>3. OuterCallsRun'
      <3> SUFFICES ASSUME NEW u \in Threads, NEW i \in DOMAIN calls'[u]
                   PROVE  /\ i # Len(calls'[u]) => calls'[u][i].at = "body"
                          /\ calls'[u][i].at = "body" => calls'[u][i].list # <<>>
        BY DEF OuterCallsRun
      <3>1. i # Len(calls'[u]) => i # Len(calls[u])
        BY <1>1, <1>2, <1>6 DEF n
      <3>2. QED
        BY <1>0, <1>6, <3>1 DEF Lists, OuterCallsRun
    <2>4. CursorIsNext'
      BY <1>0, <1>6 DEF Lists, CursorIsNext
    <2>5. CallsFit'
      <3>1. CASE calls'[t] = <<>>
        BY <1>0, <1>2, <1>4, <3>1, ClassAssumption DEF Lists, CallsFit, Dropped, Followed
      <3>2. CASE calls'[t] # <<>>
        <4>1. Len(calls'[t]) <= MaxCalls
          BY <1>0, <1>1, <1>5, ClassAssumption DEF Lists, CallsFit, n
        <4>2. UNCHANGED <<dead, astray>>
          BY <1>2, <3>2
        <4>3. QED
          BY <1>0, <1>2, <4>1, <4>2 DEF Lists, CallsFit, Followed
      <3>3. QED
        BY <3>1, <3>2
    <2>6. QED
      BY <2>1, <2>2, <2>3, <2>4, <2>5 DEF Lists
  <1>10. Claims'
    <2>1. ListedAreClaimed'
      BY <1>0, <1>6 DEF Claims, ListedAreClaimed
    <2>2. MarkedByOne'
      BY <1>0, <1>6 DEF Claims, MarkedByOne
    <2>3. ClaimedAreListed'
      BY <1>0, <1>4, <1>7 DEF Claims, ClaimedAreListed
    <2>4. TriggersAgree'
      BY <1>0 DEF Claims, TriggersAgree
    <2>5. QED
      BY <2>1, <2>2, <2>3, <2>4 DEF Claims
  <1>11. Order'
    <2>1. FirstIsReady'
      <3> SUFFICES ASSUME NEW u \in Threads, NEW i \in DOMAIN calls'[u],
                          calls'[u][i].at \in {"launch", "body"}, calls'[u][i].list # <<>>
                   PROVE  Ready(u, i)'
        BY DEF FirstIsReady
      <3>1. i \in DOMAIN calls[u] /\ calls'[u][i] = calls[u][i]
        BY <1>6
      <3>2. Ready(u, i)
        BY <1>0, <3>1 DEF Order, FirstIsReady
      <3>3. \A j \in 1..i - 1 : j \in DOMAIN calls'[u]
        <4>1. DOMAIN calls'[u] = 1..Len(calls'[u]) /\ Len(calls'[u]) \in Nat
          BY <1>2
        <4>2. QED
          BY <4>1
      <3>4. \A j \in 1..i - 1 : calls'[u][j] = calls[u][j]
        BY <1>6, <3>3
      <3>5. QED
        BY <3>1, <3>2, <3>4 DEF Ready
    <2>2. ClassIsSeen'
      BY <1>0, <1>6 DEF Order, ClassIsSeen
    <2>3. DoneAfterSuperclass'
      <3>1. \A d \in Classes : Parent[d] # NULL => Parent[d] \in Classes
        BY ClassAssumption
      <3>2. \A d \in Classes : stage[d] = 2 => trigger[d] \in Threads
        BY <1>0 DEF Claims, TriggersAgree
      <3> SUFFICES ASSUME NEW d \in Classes, Parent[d] # NULL, stage[d] = 2,
                          stage[Parent[d]] # 2
                   PROVE  /\ trigger[Parent[d]] = trigger[d]
                          /\ ~Followed(trigger[d])' \/ Initializing(trigger[d], Parent[d])'
        BY DEF DoneAfterSuperclass
      <3>3. /\ trigger[Parent[d]] = trigger[d]
            /\ ~Followed(trigger[d]) \/ Initializing(trigger[d], Parent[d])
        BY <1>0 DEF Order, DoneAfterSuperclass
      <3>4. QED
        BY <1>4, <1>7, <3>1, <3>2, <3>3
    <2>4. QED
      BY <2>1, <2>2, <2>3 DEF Order
  <1>12. QED
    BY <1>8, <1>9, <1>10, <1>11 DEF IInv

LEMMA DropSteps ==
  ASSUME IInv, NEW t \in Threads, Return(t) \/ FailBody(t)
  PROVE  IInv'
  <1>1. calls[t] # <<>> /\ Followed(t)
    BY DEF Return, FailBody, At, InCall
  <1>2. UNCHANGED <<stage, trigger, collector, stopped>>
    BY DEF Return, FailBody, collection
  <1>3. Dropped(t)
    <2>1. CASE FailBody(t)
      BY <2>1 DEF FailBody, Dropped, Followed
    <2>2. CASE Return(t)
      <3>1. Call(t).list = <<>> /\ UNCHANGED dead
        BY <2>2 DEF Return
      <3>2. \/ calls' = [calls EXCEPT ![t] = Front(@)] /\ UNCHANGED astray
            \/ calls' = [calls EXCEPT ![t] = <<>>] /\ astray' = astray \cup {t}
        BY <2>2 DEF Return
      <3>3. QED
        BY <3>1, <3>2 DEF Dropped, Followed
    <2>3. QED
      BY <2>1, <2>2
  <1>4. QED
    BY <1>1, <1>2, <1>3, DropKeeps

----------------------------------------------------------------------------
(* The invariant *)

LEMMA CollectionKeeps ==
  ASSUME IInv, UNCHANGED <<stage, trigger, calls, dead, astray>>,
         collector' \in Threads \cup {NULL}, stopped' \in SUBSET Threads
  PROVE  IInv'
  <1>1. TypeOK'
    BY DEF IInv, TypeOK
  <1>2. Lists'
    BY DEF IInv, Lists, ListedOnce, ListIsChain, CursorIsNext, OuterCallsRun, CallsFit, Followed
  <1>3. Claims'
    BY DEF IInv, Claims, ListedAreClaimed, MarkedByOne, ClaimedAreListed, TriggersAgree,
           Followed, Initializing
  <1>4. Order'
    BY DEF IInv, Order, FirstIsReady, Ready, ClassIsSeen, DoneAfterSuperclass,
           Followed, Initializing
  <1>5. QED
    BY <1>1, <1>2, <1>3, <1>4 DEF IInv

LEMMA InitIInv == Init => IInv
  <1> SUFFICES ASSUME Init PROVE IInv
    OBVIOUS
  <1>1. \A t \in Threads : calls[t] = <<>> /\ Len(calls[t]) = 0 /\ DOMAIN calls[t] = {}
    BY DEF Init
  <1>2. TypeOK
    <2>1. <<>> \in Seq(Calls)
      OBVIOUS
    <2>2. QED
      BY <2>1, ClassAssumption DEF Init, TypeOK
  <1>3. Lists
    BY <1>1, ClassAssumption
       DEF Lists, ListedOnce, ListIsChain, CursorIsNext, OuterCallsRun, CallsFit
  <1>4. Claims
    BY <1>1 DEF Init, Claims, ListedAreClaimed, MarkedByOne, ClaimedAreListed, TriggersAgree
  <1>5. Order
    BY <1>1 DEF Init, Order, FirstIsReady, ClassIsSeen, DoneAfterSuperclass
  <1>6. QED
    BY <1>2, <1>3, <1>4, <1>5 DEF IInv

LEMMA Inductive == IInv /\ [Next]_vars => IInv'
  <1> SUFFICES ASSUME IInv, [Next]_vars PROVE IInv'
    OBVIOUS
  <1>0. TypeOK
    BY DEF IInv
  <1>1. ASSUME NEW t \in Threads, NEW c \in Classes, RunClinit(t, c) PROVE IInv'
    BY <1>1, PushKeeps
  <1>2. ASSUME NEW t \in Threads, Claim(t) PROVE IInv'
    <2>1. CASE Call(t).cur # NULL /\ stage[Call(t).cur] = 0
      BY <1>2, <2>1, ClaimKeeps
    <2>2. CASE Call(t).cur # NULL => stage[Call(t).cur] # 0
      BY <1>2, <2>2, GoOnSteps
    <2>3. QED
      BY <2>1, <2>2
  <1>3. ASSUME NEW t \in Threads, Mark(t) PROVE IInv'
    BY <1>3, MarkKeeps
  <1>4. ASSUME NEW t \in Threads, EndWait(t) \/ StartBody(t) PROVE IInv'
    BY <1>4, GoOnSteps
  <1>5. ASSUME NEW t \in Threads, Skip(t) \/ EndBody(t) PROVE IInv'
    BY <1>5, FinishKeeps
  <1>6. ASSUME NEW t \in Threads, NEW n \in Levels, Catch(t, n) PROVE IInv'
    BY <1>6, GoOnSteps
  <1>7. ASSUME NEW t \in Threads, Return(t) \/ FailBody(t) PROVE IInv'
    BY <1>7, DropSteps
  <1>8. ASSUME NEW t \in Threads, NeedSpace(t) \/ Stop(t) \/ GoOn(t) PROVE IInv'
    <2>1. UNCHANGED <<stage, trigger, calls, dead, astray>>
      BY <1>8 DEF NeedSpace, Stop, GoOn
    <2>2. collector' \in Threads \cup {NULL} /\ stopped' \in SUBSET Threads
      BY <1>0, <1>8 DEF NeedSpace, Stop, GoOn, TypeOK
    <2>3. QED
      BY <2>1, <2>2, CollectionKeeps
  <1>9. CASE Collect
    BY <1>0, <1>9, CollectionKeeps DEF Collect, TypeOK
  <1>10. CASE UNCHANGED vars
    BY <1>0, <1>10, CollectionKeeps DEF vars, collection, TypeOK
  <1>11. QED
    BY <1>1, <1>2, <1>3, <1>4, <1>5, <1>6, <1>7, <1>8, <1>9, <1>10 DEF Next

\* The inductive invariant: the lists of the calls, the stages and the triggers agree.
THEOREM Invariance == Spec => []IInv
  BY InitIInv, Inductive, PTL DEF Spec

----------------------------------------------------------------------------

\* Types are kept: a cursor, the classes of clinit_list, clinit_trigger and the levels of
\* interpreter_execute stay in their domains, however calls of run_clinit nest and
\* whatever exceptions leave.
THEOREM TypeCorrect == Spec => []TypeOK
  BY Invariance, PTL DEF IInv

\* A class is initialized, or its initializer started, only after its superclass, or while
\* the thread's own outer call has yet to initialize the superclass.
THEOREM SuperclassIsFirst == Spec => []SuperclassFirst
  <1>1. IInv => SuperclassFirst
    <2> SUFFICES ASSUME IInv, NEW c \in Classes, Parent[c] # NULL
                 PROVE  /\ stage[c] = 2 =>
                             \/ stage[Parent[c]] = 2
                             \/ /\ trigger[Parent[c]] = trigger[c]
                                /\ ~Followed(trigger[c]) \/ Initializing(trigger[c], Parent[c])
                        /\ \A t \in Threads : \A i \in DOMAIN calls[t] : InBody(t, i, c) =>
                             \/ stage[Parent[c]] = 2
                             \/ \E j \in 1..i - 1 : /\ calls[t][j].at = "body"
                                                    /\ Parent[c] \in ToSet(calls[t][j].list)
      BY DEF SuperclassFirst
    <2>1. TypeOK /\ Lists /\ Order
      BY DEF IInv
    <2>2. ASSUME NEW t \in Threads, NEW i \in DOMAIN calls[t], InBody(t, i, c),
                 stage[Parent[c]] # 2
          PROVE  \E j \in 1..i - 1 : /\ calls[t][j].at = "body"
                                     /\ Parent[c] \in ToSet(calls[t][j].list)
      <3>1. calls[t][i].at = "body" /\ calls[t][i].list # <<>>
        BY <2>1, <2>2 DEF InBody, Lists, OuterCallsRun
      <3>2. calls[t][i].list[1] = c
        BY <2>1, <2>2, <3>1, CallTypes DEF InBody
      <3>3. Ready(t, i)
        BY <2>1, <3>1 DEF Order, FirstIsReady
      <3>4. PICK j \in 1..i - 1 : Parent[c] \in ToSet(calls[t][j].list)
        BY <2>2, <3>2, <3>3 DEF Ready
      <3>5. j \in DOMAIN calls[t] /\ j # Len(calls[t])
        BY <2>1, <3>4, CallTypes
      <3>6. calls[t][j].at = "body"
        BY <2>1, <3>5 DEF Lists, OuterCallsRun
      <3>7. QED
        BY <3>4, <3>6
    <2>3. QED
      BY <2>1, <2>2 DEF Order, DoneAfterSuperclass
  <1>2. QED
    BY <1>1, Invariance, PTL

\* When run_clinit returns JERR_OK, the class is done or the returning thread itself is
\* initializing it.
THEOREM ReturnedAreInitialized == Spec => []ReturnsInitialized
  <1>1. IInv => ReturnsInitialized
    <2> SUFFICES ASSUME IInv, NEW t \in Threads, At(t, "launch")
                 PROVE  stage[Call(t).class] = 2 \/ trigger[Call(t).class] = t
      BY DEF ReturnsInitialized
    <2>1. TypeOK /\ Order
      BY DEF IInv
    <2>2. calls[t] # <<>> /\ Call(t).at = "launch"
      BY DEF At, InCall
    <2>3. Len(calls[t]) \in DOMAIN calls[t] /\ Call(t) = calls[t][Len(calls[t])]
      BY <2>1, <2>2, CallFacts
    <2>4. QED
      BY <2>1, <2>2, <2>3 DEF Order, ClassIsSeen
  <1>2. QED
    BY <1>1, Invariance, PTL

\* No class is on its way to be initialized twice at a time, by two threads or by two calls
\* of one: it is on one clinit_list, once.
OneInitializer ==
  \A t, u \in Threads : \A i \in DOMAIN calls[t], j \in DOMAIN calls[u] :
    \A k \in DOMAIN calls[t][i].list, l \in DOMAIN calls[u][j].list :
      calls[t][i].list[k] = calls[u][j].list[l] => t = u /\ i = j /\ k = l

\* The compare-exchange of clinit_stage gives a class to one thread and one call.
THEOREM ClaimedOnce == Spec => []OneInitializer
  <1>1. IInv => OneInitializer
    <2> SUFFICES ASSUME IInv, NEW t \in Threads, NEW u \in Threads,
                        NEW i \in DOMAIN calls[t], NEW j \in DOMAIN calls[u],
                        NEW k \in DOMAIN calls[t][i].list, NEW l \in DOMAIN calls[u][j].list,
                        calls[t][i].list[k] = calls[u][j].list[l]
                 PROVE  t = u /\ i = j /\ k = l
      BY DEF OneInitializer
    <2>1. t = u
      BY DEF IInv, Claims, ListedAreClaimed
    <2>2. QED
      BY <2>1 DEF IInv, Lists, ListedOnce
  <1>2. QED
    BY <1>1, Invariance, PTL

\* A class that is done stays done, and one that a thread claimed stays that thread's.
ClaimsAreFinal ==
  \A c \in Classes : /\ stage'[c] >= stage[c]
                     /\ trigger[c] # NULL => trigger'[c] = trigger[c]

\* clinit_stage only grows, and clinit_trigger is stored once: two claims of a class would
\* overwrite it.
THEOREM ClaimsStay == Spec => [][ClaimsAreFinal]_vars
  <1>1. IInv /\ [Next]_vars => [ClaimsAreFinal]_vars
    <2> SUFFICES ASSUME IInv, Next, NEW c \in Classes
                 PROVE  /\ stage'[c] >= stage[c]
                        /\ trigger[c] # NULL => trigger'[c] = trigger[c]
      BY DEF ClaimsAreFinal
    <2>0. TypeOK /\ Claims /\ stage[c] \in 0..2
      BY DEF IInv, TypeOK
    <2>1. CASE UNCHANGED <<stage, trigger>>
      BY <2>0, <2>1
    <2>2. ASSUME NEW t \in Threads, Claim(t) PROVE stage'[c] >= stage[c] /\ trigger' = trigger
      <3>1. \/ stage' = stage
            \/ stage' = [stage EXCEPT ![Call(t).cur] = AfterClaim(Call(t).cur)]
        BY <2>2 DEF Claim
      <3>2. stage'[c] = stage[c] \/ stage'[c] = AfterClaim(c)
        BY <2>0, <3>1 DEF TypeOK
      <3>3. QED
        BY <2>0, <2>2, <3>2 DEF AfterClaim, Claim
    <2>3. ASSUME NEW t \in Threads, Mark(t)
          PROVE  stage' = stage /\ (trigger[c] # NULL => trigger'[c] = trigger[c])
      <3>1. stage' = stage /\ trigger' = [trigger EXCEPT ![Call(t).cur] = t]
        BY <2>3 DEF Mark
      <3>2. trigger[Call(t).cur] = NULL
        <4>1. calls[t] # <<>> /\ Call(t).at = "mark"
          BY <2>3 DEF Mark, At, InCall
        <4>2. Len(calls[t]) \in DOMAIN calls[t] /\ Call(t) = calls[t][Len(calls[t])]
          BY <2>0, <4>1, CallFacts
        <4>3. QED
          BY <2>0, <4>1, <4>2 DEF Claims, MarkedByOne
      <3>3. QED
        BY <2>0, <3>1, <3>2 DEF TypeOK
    <2>4. ASSUME NEW t \in Threads, Skip(t) \/ EndBody(t)
          PROVE  stage'[c] >= stage[c] /\ trigger' = trigger
      <3>1. /\ stage' = [stage EXCEPT ![Head(Call(t).list)] = 2]
            /\ trigger' = trigger
        BY <2>4 DEF Skip, EndBody
      <3>2. QED
        BY <2>0, <3>1 DEF TypeOK
    <2>5. CASE \/ \E t \in Threads : \/ \E d \in Classes : RunClinit(t, d)
                                     \/ EndWait(t) \/ StartBody(t) \/ FailBody(t)
                                     \/ \E n \in Levels : Catch(t, n)
                                     \/ Return(t) \/ NeedSpace(t) \/ Stop(t) \/ GoOn(t)
               \/ Collect
      <3>1. UNCHANGED <<stage, trigger>>
        BY <2>5 DEF RunClinit, EndWait, StartBody, FailBody, Catch, Return, NeedSpace, Stop, GoOn,
                    Collect
      <3>2. QED
        BY <2>1, <3>1
    <2>6. QED
      BY <2>0, <2>2, <2>3, <2>4, <2>5 DEF Next
  <1>2. QED
    BY <1>1, Invariance, PTL DEF Spec

=============================================================================
