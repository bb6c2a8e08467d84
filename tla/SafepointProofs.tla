-------------------------- MODULE SafepointProofs --------------------------
(***************************************************************************)
(* Proofs about Safepoint for any number of threads and collections.       *)
(***************************************************************************)
EXTENDS Safepoint, FiniteSetTheorems, TLAPS

\* The flag is set exactly while one thread polls or collects.
FlagHasOneOwner ==
  /\ \A t \in Threads : pc[t] \in {"poll", "collect"} => requested
  /\ \A t, u \in Threads :
       pc[t] \in {"poll", "collect"} /\ pc[u] \in {"poll", "collect"} => t = u

IInv == TypeOK /\ ActiveIsCounted /\ FlagHasOneOwner /\ StopTheWorld

Active == {t \in Threads : pc[t] \in ActivePCs}

----------------------------------------------------------------------------
(* Counting *)

LEMMA ActiveFinite == IsFiniteSet(Active) /\ Cardinality(Active) \in Nat
  BY SafepointAssumption, FS_Subset, FS_CardinalityType DEF Active

\* A thread that stays active, or inactive, leaves the count as it is.
LEMMA CountSame ==
  ASSUME TypeOK, ActiveIsCounted, NEW t \in Threads, NEW to,
         pc' = [pc EXCEPT ![t] = to],
         (to \in ActivePCs) <=> (pc[t] \in ActivePCs), active' = active
  PROVE  ActiveIsCounted'
  <1>1. Active' = Active
    BY DEF Active, TypeOK
  <1>2. QED
    BY <1>1 DEF ActiveIsCounted, Active

\* A thread that becomes active is counted.
LEMMA CountUp ==
  ASSUME TypeOK, ActiveIsCounted, NEW t \in Threads, NEW to,
         pc' = [pc EXCEPT ![t] = to],
         to \in ActivePCs, pc[t] \notin ActivePCs, active' = active + 1
  PROVE  ActiveIsCounted' /\ active' \in Nat
  <1>1. Active' = Active \cup {t} /\ t \notin Active
    BY DEF Active, TypeOK
  <1>2. Cardinality(Active') = Cardinality(Active) + 1
    BY <1>1, ActiveFinite, FS_AddElement
  <1>3. QED
    BY <1>2, ActiveFinite DEF ActiveIsCounted, Active

\* A thread that stops being active was counted: the count is not 0 before.
LEMMA CountDown ==
  ASSUME TypeOK, ActiveIsCounted, NEW t \in Threads, NEW to,
         pc' = [pc EXCEPT ![t] = to],
         to \notin ActivePCs, pc[t] \in ActivePCs, active' = active - 1
  PROVE  ActiveIsCounted' /\ active' \in Nat
  <1>1. Active' = Active \ {t} /\ t \in Active
    BY DEF Active, TypeOK
  <1>2. Cardinality(Active') = Cardinality(Active) - 1 /\ Cardinality(Active') \in Nat
    BY <1>1, ActiveFinite, FS_RemoveElement, FS_CardinalityType
  <1>3. QED
    BY <1>2, ActiveFinite DEF ActiveIsCounted, Active

\* If the count is 1, an active thread is the only one.
LEMMA CountOne ==
  ASSUME ActiveIsCounted, active = 1, NEW t \in Threads, pc[t] \in ActivePCs
  PROVE  \A u \in Threads \ {t} : pc[u] \notin ActivePCs
  <1>1. Cardinality(Active) = 1 /\ t \in Active
    BY DEF ActiveIsCounted, Active
  <1>2. IsFiniteSet(Active \ {t}) /\ Cardinality(Active \ {t}) = Cardinality(Active) - 1
    BY <1>1, ActiveFinite, FS_RemoveElement
  <1>3. Active \ {t} = {}
    <2>1. Cardinality(Active \ {t}) = 0
      BY <1>1, <1>2
    <2>2. QED
      BY <1>2, <2>1, FS_EmptySet
  <1>4. QED
    BY <1>3 DEF Active

----------------------------------------------------------------------------
(* The steps *)

\* A thread that moves between states outside the collection disturbs no
\* collector if it cannot move into the running states while there is one.
LEMMA MoveKeeps ==
  ASSUME IInv, NEW t \in Threads, NEW to, pc' = [pc EXCEPT ![t] = to],
         to \notin {"poll", "collect"}, UNCHANGED requested,
         to \in {"run", "request", "release"} => \A u \in Threads : u # t => pc[u] # "collect"
  PROVE  FlagHasOneOwner' /\ StopTheWorld'
  <1>1. FlagHasOneOwner'
    BY DEF IInv, TypeOK, FlagHasOneOwner
  <1>2. StopTheWorld'
    BY DEF IInv, TypeOK, StopTheWorld
  <1>3. QED
    BY <1>1, <1>2

LEMMA ListTypes ==
  ASSUME TypeOK, NEW n \in Nodes
  PROVE  /\ [next EXCEPT ![n] = next[Head], ![Head] = n] \in [Nodes -> Nodes]
         /\ [prev EXCEPT ![next[Head]] = n, ![n] = Head] \in [Nodes -> Nodes]
         /\ NextWithout(n) \in [Nodes -> Nodes]
         /\ PrevWithout(n) \in [Nodes -> Nodes]
  BY DEF TypeOK, Nodes, NextWithout, PrevWithout

\* The moves that leave the count alone.
LEMMA QuietKeeps ==
  ASSUME IInv, NEW t \in Threads,
         \/ Check(t) \/ Enlist(t) \/ Park(t) \/ SpuriousWakeup(t) \/ Free(t) \/ NeedSpace(t)
         \/ RequesterCheck(t) \/ ReleaseEnd(t)
  PROVE  IInv'
  <1> USE DEF Goto, listVars, loopVars
  <1>1. PICK to \in PCs :
          /\ pc' = [pc EXCEPT ![t] = to]
          /\ (to \in ActivePCs) <=> (pc[t] \in ActivePCs)
          /\ to \notin {"poll", "collect"}
          /\ to \in {"run", "request", "release"} => pc[t] \in {"run", "request", "release"} \/ ~requested
    BY DEF Check, Enlist, Park, SpuriousWakeup, Free, NeedSpace, RequesterCheck, ReleaseEnd, PCs,
       ActivePCs
  <1>2. UNCHANGED <<active, requested>>
    BY DEF Check, Enlist, Park, SpuriousWakeup, Free, NeedSpace, RequesterCheck, ReleaseEnd
  <1>3. ActiveIsCounted'
    BY <1>1, <1>2, CountSame DEF IInv
  <1>4. FlagHasOneOwner' /\ StopTheWorld'
    <2>1. to \in {"run", "request", "release"} =>
            \A u \in Threads : u # t => pc[u] # "collect"
      BY <1>1 DEF IInv, FlagHasOneOwner, StopTheWorld
    <2>2. QED
      BY <1>1, <1>2, <2>1, MoveKeeps
  <1>5. /\ next' \in [Nodes -> Nodes]
        /\ prev' \in [Nodes -> Nodes]
        /\ UNCHANGED <<thread, tmp>>
    <2>1. CASE Enlist(t)
      BY <2>1, ListTypes DEF Enlist, ListAdd, Nodes, IInv
    <2>2. CASE ~Enlist(t)
      BY <2>2 DEF Check, Park, SpuriousWakeup, Free, NeedSpace, RequesterCheck, ReleaseEnd, IInv, TypeOK
    <2>3. QED
      BY <2>1, <2>2 DEF Enlist
  <1>6. resume' \in [Threads -> {"run", "request"}] /\ collections' \in 0..MaxCollections
    BY SafepointAssumption DEF Check, Enlist, Park, SpuriousWakeup, Free, NeedSpace, RequesterCheck,
       ReleaseEnd, IInv, TypeOK
  <1>7. TypeOK'
    BY <1>1, <1>2, <1>5, <1>6 DEF IInv, TypeOK
  <1>8. QED
    BY <1>3, <1>4, <1>7 DEF IInv

\* The moves that change the count.
LEMMA CountedKeeps ==
  ASSUME IInv, NEW t \in Threads,
         Start(t) \/ Spin(t) \/ Wake(t) \/ Block(t) \/ Sleep(t) \/ ComeBack(t) \/ Exit(t)
  PROVE  IInv'
  <1> USE DEF Goto, listVars, loopVars, CountAfterWake, Stays
  <1>1. PICK to \in PCs :
          /\ pc' = [pc EXCEPT ![t] = to]
          /\ \/ to \in ActivePCs /\ pc[t] \notin ActivePCs /\ active' = active + 1
             \/ to \notin ActivePCs /\ pc[t] \in ActivePCs /\ active' = active - 1
             \/ to \in ActivePCs /\ pc[t] \in ActivePCs /\ active' = active
          /\ to \notin {"poll", "collect"}
          /\ to \in {"run", "request", "release"} => ~requested
    BY DEF Start, Spin, Wake, Block, Sleep, ComeBack, Exit, PCs, ActivePCs, IInv, TypeOK
  <1>2. UNCHANGED <<requested, resume, thread, tmp, collections>>
    BY DEF Start, Spin, Wake, Block, Sleep, ComeBack, Exit
  <1>3. ActiveIsCounted' /\ active' \in Nat
    <2>1. TypeOK /\ ActiveIsCounted /\ active \in Nat
      BY DEF IInv, TypeOK
    <2>2. CASE to \in ActivePCs /\ pc[t] \notin ActivePCs /\ active' = active + 1
      BY <1>1, <2>1, <2>2, CountUp
    <2>3. CASE to \notin ActivePCs /\ pc[t] \in ActivePCs /\ active' = active - 1
      BY <1>1, <2>1, <2>3, CountDown
    <2>4. CASE to \in ActivePCs /\ pc[t] \in ActivePCs /\ active' = active
      BY <1>1, <2>1, <2>4, CountSame
    <2>5. QED
      BY <1>1, <2>2, <2>3, <2>4
  <1>4. FlagHasOneOwner' /\ StopTheWorld'
    <2>1. to \in {"run", "request", "release"} =>
            \A u \in Threads : u # t => pc[u] # "collect"
      BY <1>1 DEF IInv, FlagHasOneOwner
    <2>2. QED
      BY <1>1, <1>2, <2>1, MoveKeeps
  <1>5. next' \in [Nodes -> Nodes] /\ prev' \in [Nodes -> Nodes]
    <2>1. CASE Block(t)
      BY <2>1, ListTypes DEF Block, ListDelInit, Nodes, IInv
    <2>2. CASE ~Block(t)
      BY <2>2 DEF Start, Spin, Wake, Sleep, ComeBack, Exit, IInv, TypeOK
    <2>3. QED
      BY <2>1, <2>2
  <1>6. TypeOK'
    BY <1>1, <1>2, <1>3, <1>5 DEF IInv, TypeOK
  <1>7. QED
    BY <1>3, <1>4, <1>6 DEF IInv

\* The exchange of the flag: at most one requester finds it clear.
LEMMA RequestKeeps ==
  ASSUME IInv, NEW t \in Threads, Request(t)
  PROVE  IInv'
  <1> DEFINE to == IF requested THEN "check" ELSE "poll"
  <1>1. pc[t] = "request" /\ pc' = [pc EXCEPT ![t] = to] /\ requested' = TRUE
    BY DEF Request, FlagSeenSet, Goto, IInv, TypeOK
  <1>2. UNCHANGED <<resume, active, next, prev, thread, tmp, collections>>
    BY DEF Request, listVars, loopVars
  <1>3. to \in ActivePCs /\ to \in PCs /\ pc[t] \in ActivePCs
    BY <1>1 DEF ActivePCs, PCs
  <1>4. to = "poll" => \A u \in Threads : pc[u] \notin {"poll", "collect"}
    BY DEF IInv, FlagHasOneOwner
  <1>5. to \in {"check", "poll"} /\ \A u \in Threads : pc[u] # "collect" \/ to = "check"
    BY <1>4
  <1> HIDE DEF to
  <1>6. TypeOK'
    BY <1>1, <1>2, <1>3 DEF IInv, TypeOK
  <1>7. ActiveIsCounted'
    BY <1>1, <1>2, <1>3, CountSame DEF IInv
  <1>8. FlagHasOneOwner'
    BY <1>1, <1>4, <1>5 DEF IInv, TypeOK, FlagHasOneOwner
  <1>9. StopTheWorld'
    BY <1>1, <1>5 DEF IInv, TypeOK, StopTheWorld
  <1>10. QED
    BY <1>6, <1>7, <1>8, <1>9 DEF IInv

\* The poll succeeds: all other threads are inactive.
LEMMA ObserveKeeps ==
  ASSUME IInv, NEW t \in Threads, Observe(t)
  PROVE  IInv'
  <1>1. /\ pc[t] = "poll"
        /\ active = 1
        /\ pc' = [pc EXCEPT ![t] = "collect"]
        /\ UNCHANGED <<resume, requested, active, next, prev, thread, tmp, collections>>
    BY DEF Observe, Alone, Goto, listVars, loopVars
  <1>2. pc[t] \in ActivePCs /\ "collect" \in ActivePCs /\ "collect" \in PCs
    BY <1>1 DEF ActivePCs, PCs
  <1>3. TypeOK'
    BY <1>1, <1>2 DEF IInv, TypeOK
  <1>4. ActiveIsCounted'
    BY <1>1, <1>2, CountSame DEF IInv
  <1>5. FlagHasOneOwner'
    BY <1>1 DEF IInv, TypeOK, FlagHasOneOwner
  <1>6. \A u \in Threads \ {t} : pc[u] \notin ActivePCs
    BY <1>1, <1>2, CountOne DEF IInv
  <1>7. StopTheWorld'
    BY <1>1, <1>6 DEF IInv, TypeOK, StopTheWorld, ActivePCs
  <1>8. QED
    BY <1>3, <1>4, <1>5, <1>7 DEF IInv

\* The collector clears the flag: nobody else had set it.
LEMMA ClearKeeps ==
  ASSUME IInv, NEW t \in Threads, Clear(t)
  PROVE  IInv'
  <1>1. /\ pc[t] = "collect"
        /\ requested' = FALSE
        /\ thread' = next[Head]
        /\ tmp' = next[next[Head]]
        /\ pc' = [pc EXCEPT ![t] = "release"]
        /\ UNCHANGED <<resume, active, next, prev, collections>>
    BY DEF Clear, Goto, listVars
  <1>2. pc[t] \in ActivePCs /\ "release" \in ActivePCs /\ "release" \in PCs
    BY <1>1 DEF ActivePCs, PCs
  <1>3. TypeOK'
    BY <1>1, <1>2 DEF IInv, TypeOK, Nodes
  <1>4. ActiveIsCounted'
    BY <1>1, <1>2, CountSame DEF IInv
  <1>5. \A u \in Threads \ {t} : pc[u] \notin {"poll", "collect"}
    BY <1>1 DEF IInv, FlagHasOneOwner
  <1>6. FlagHasOneOwner' /\ StopTheWorld'
    BY <1>1, <1>5 DEF IInv, TypeOK, FlagHasOneOwner, StopTheWorld
  <1>7. QED
    BY <1>3, <1>4, <1>6 DEF IInv

\* A turn of the release loop moves at most one sleeper, to "woken".
LEMMA ReleaseOneKeeps ==
  ASSUME IInv, NEW t \in Threads, ReleaseOne(t)
  PROVE  IInv'
  <1>1. thread \in Threads /\ thread \in Nodes /\ tmp \in Nodes
    BY DEF IInv, TypeOK, ReleaseOne, Nodes
  <1> DEFINE to == IF pc[thread] = "parked" THEN "woken" ELSE pc[thread]
  <1>2. /\ pc' = [pc EXCEPT ![thread] = to]
        /\ next' = NextWithout(thread)
        /\ prev' = PrevWithout(thread)
        /\ thread' = tmp
        /\ tmp' = NextWithout(thread)[tmp]
        /\ UNCHANGED <<resume, requested, active, collections>>
    BY DEF ReleaseOne, ListDelInit
  <1>3. to \in PCs /\ ((to \in ActivePCs) <=> (pc[thread] \in ActivePCs))
    BY <1>1 DEF IInv, TypeOK, PCs, ActivePCs
  <1>4. to = pc[thread] \/ to = "woken"
    OBVIOUS
  <1> HIDE DEF to
  <1>5. NextWithout(thread) \in [Nodes -> Nodes] /\ PrevWithout(thread) \in [Nodes -> Nodes]
    BY <1>1, ListTypes DEF IInv
  <1>6. TypeOK'
    BY <1>1, <1>2, <1>3, <1>5 DEF IInv, TypeOK
  <1>7. ActiveIsCounted'
    BY <1>1, <1>2, <1>3, CountSame DEF IInv
  <1>8. FlagHasOneOwner' /\ StopTheWorld'
    BY <1>1, <1>2, <1>4 DEF IInv, TypeOK, FlagHasOneOwner, StopTheWorld
  <1>9. QED
    BY <1>6, <1>7, <1>8 DEF IInv

----------------------------------------------------------------------------
(* The theorems *)

LEMMA InitIInv == Init => IInv
  <1> SUFFICES ASSUME Init PROVE IInv
    OBVIOUS
  <1>1. TypeOK
    <2>1. 0 \in 0..MaxCollections
      BY SafepointAssumption
    <2>2. QED
      BY <2>1 DEF Init, TypeOK, PCs, Nodes
  <1>2. Active = {}
    BY DEF Init, Active, ActivePCs
  <1>3. ActiveIsCounted
    BY <1>2, FS_EmptySet DEF Init, ActiveIsCounted, Active
  <1>4. FlagHasOneOwner /\ StopTheWorld
    BY DEF Init, FlagHasOneOwner, StopTheWorld
  <1>5. QED
    BY <1>1, <1>3, <1>4 DEF IInv

LEMMA NextKeeps == IInv /\ [Next]_vars => IInv'
  <1> SUFFICES ASSUME IInv, [Next]_vars PROVE IInv'
    OBVIOUS
  <1>1. CASE UNCHANGED vars
    <2> USE <1>1 DEF vars, listVars, loopVars
    <2>1. TypeOK' /\ ActiveIsCounted'
      BY DEF IInv, TypeOK, ActiveIsCounted
    <2>2. FlagHasOneOwner' /\ StopTheWorld'
      BY DEF IInv, FlagHasOneOwner, StopTheWorld
    <2>3. QED
      BY <2>1, <2>2 DEF IInv
  <1>2. CASE Next
    BY <1>2, QuietKeeps, CountedKeeps, RequestKeeps, ObserveKeeps, ClearKeeps, ReleaseOneKeeps
       DEF Next
  <1>3. QED
    BY <1>1, <1>2

\* The inductive invariant: the flag, the count and the collector agree.
THEOREM Inductive == Spec => []IInv
  BY InitIInv, NextKeeps, PTL DEF Spec

\* Every variable keeps its type; s_active_threads never goes below 0.
THEOREM TypeCorrect == Spec => []TypeOK
  BY Inductive, PTL DEF IInv

\* s_active_threads is the number of active threads.
THEOREM CountIsExact == Spec => []ActiveIsCounted
  BY Inductive, PTL DEF IInv

\* A collection has the heap to itself, whatever the lists of sleepers look like:
\* the flag and the count alone guarantee it.
THEOREM WorldStops == Spec => []StopTheWorld
  BY Inductive, PTL DEF IInv

============================================================================
