--------------------------- MODULE MonitorProofs ---------------------------
(***************************************************************************)
(* Proofs about Monitor for any threads, objects, monitors and bounds: who *)
(* owns a monitor, who is in its queues, and that it is a MonitorLock.     *)
(***************************************************************************)
EXTENDS Monitor, SequenceTheorems, TLAPS

\* A thread that is inside a call of monitor_enter or monitor_wait has an object
\* argument; once past the test of object->monitor, that object has a monitor.
CallArguments ==
  \A t \in Threads :
    /\ pc[t] \notin {"run", "dead"} => want[t] \in Objects
    /\ pc[t] = "lock" => mon[t] \in Monitors
    /\ pc[t] \in {"lock", "toPark", "parked", "woken"} => objMonitor[want[t]] \in Monitors

\* The objects whose regions a live thread is inside of have monitors.
RegionsHaveMonitors ==
  \A t \in Threads : pc[t] # "dead" =>
    \A i \in DOMAIN nest[t] : objMonitor[nest[t][i].obj] \in Monitors

IInv ==
  /\ TypeOK
  /\ CallArguments
  /\ RegionsHaveMonitors
  /\ LinkedIsOwned
  /\ OwnedHasRecursion
  /\ WaiterKeepsCount

\* A synchronized method runs in a frame some INVOKE pushed, never in the bottom
\* frame: its return has a frame to go back to.
SyncFrames ==
  \A t \in Threads :
    /\ pc[t] = "run" => phase[t] = "none"
    /\ phase[t] = "sync" => depth[t] > 1
    /\ \A i \in DOMAIN nest[t] : nest[t][i].sync => nest[t][i].at > 1

LEMMA InitIInv == Init => IInv
  <1> SUFFICES ASSUME Init PROVE IInv
    OBVIOUS
  <1> USE MonitorAssumption DEF Init
  <1>1. TypeOK
    BY DEF TypeOK, PCs, Phases, Frames, NoFrame
  <1>2. CallArguments /\ RegionsHaveMonitors
    BY DEF CallArguments, RegionsHaveMonitors
  <1>3. LinkedIsOwned /\ OwnedHasRecursion /\ WaiterKeepsCount
    BY DEF LinkedIsOwned, OwnedHasRecursion, WaiterKeepsCount
  <1>4. QED
    BY <1>1, <1>2, <1>3 DEF IInv

----------------------------------------------------------------------------
(* Lists *)

LEMMA UnlinkType ==
  ASSUME NEW q \in Seq(Threads), NEW t
  PROVE  Unlink(q, t) \in Seq(Threads)
  <1>1. CASE t \in ToSet(q)
    <2> DEFINE i == CHOOSE j \in DOMAIN q : q[j] = t
    <2>1. i \in 1..Len(q)
      BY <1>1 DEF ToSet
    <2> HIDE DEF i
    <2>2. SubSeq(q, 1, i - 1) \in Seq(Threads)
      <3>1. \A j \in 1..(i - 1) : q[j] \in Threads
        BY <2>1
      <3>2. QED
        BY <2>1, <3>1, SubSeqProperties
    <2>3. SubSeq(q, i + 1, Len(q)) \in Seq(Threads)
      <3>1. \A j \in (i + 1)..Len(q) : q[j] \in Threads
        BY <2>1
      <3>2. QED
        BY <2>1, <3>1, SubSeqProperties
    <2>4. RemoveAt(q, i) \in Seq(Threads)
      BY <2>2, <2>3, ConcatProperties DEF RemoveAt
    <2>5. QED
      BY <1>1, <2>4 DEF Unlink, i
  <1>2. CASE t \notin ToSet(q)
    BY <1>2 DEF Unlink
  <1>3. QED
    BY <1>1, <1>2

\* Signals only ever move a sleeper to "woken".
LEMMA SignalledProperties ==
  ASSUME TypeOK, NEW S
  PROVE  /\ Signalled(S) \in [Threads -> PCs]
         /\ \A u \in Threads : \/ Signalled(S)[u] = pc[u]
                              \/ (pc[u] = "parked" /\ Signalled(S)[u] = "woken")
  BY DEF TypeOK, Signalled, PCs

\* Leaving the innermost region keeps a prefix of the others.
LEMMA LeaveRegionProperties ==
  ASSUME TypeOK, NEW t \in Threads, nest[t] # <<>>
  PROVE  /\ LeaveRegion(t) \in [Threads -> Seq(Regions)]
         /\ \A u \in Threads \ {t} : LeaveRegion(t)[u] = nest[u]
         /\ \A i \in DOMAIN LeaveRegion(t)[t] :
              i \in DOMAIN nest[t] /\ LeaveRegion(t)[t][i] = nest[t][i]
         /\ Innermost(t) \in Regions
         /\ \E i \in DOMAIN nest[t] : Innermost(t) = nest[t][i]
  <1>1. nest[t] \in Seq(Regions) /\ Len(nest[t]) \in Nat \ {0}
    BY DEF TypeOK
  <1>2. Front(nest[t]) \in Seq(Regions) /\ Len(Front(nest[t])) = Len(nest[t]) - 1
    BY <1>1 DEF Front
  <1>3. \A i \in 1..(Len(nest[t]) - 1) : Front(nest[t])[i] = nest[t][i]
    BY <1>1 DEF Front
  <1>4. LeaveRegion(t) = [nest EXCEPT ![t] = Front(nest[t])]
    BY DEF LeaveRegion
  <1>5. Innermost(t) = nest[t][Len(nest[t])]
    BY DEF Innermost, Last
  <1>6. LeaveRegion(t) \in [Threads -> Seq(Regions)]
    BY <1>2, <1>4 DEF TypeOK
  <1>7. LeaveRegion(t)[t] = Front(nest[t])
    BY <1>4 DEF TypeOK
  <1>8. \A u \in Threads \ {t} : LeaveRegion(t)[u] = nest[u]
    BY <1>4 DEF TypeOK
  <1>9. \A i \in DOMAIN LeaveRegion(t)[t] :
          i \in DOMAIN nest[t] /\ LeaveRegion(t)[t][i] = nest[t][i]
    BY <1>1, <1>2, <1>3, <1>7
  <1>10. Innermost(t) \in Regions /\ \E i \in DOMAIN nest[t] : Innermost(t) = nest[t][i]
    BY <1>1, <1>5
  <1>11. QED
    BY <1>6, <1>8, <1>9, <1>10

LEMMA LeaveRegionShrinks ==
  ASSUME TypeOK, NEW t \in Threads, nest[t] # <<>>
  PROVE  \A u \in Threads : \A i \in DOMAIN LeaveRegion(t)[u] :
           i \in DOMAIN nest[u] /\ LeaveRegion(t)[u][i] = nest[u][i]
  BY LeaveRegionProperties

\* Unlinking a monitor's node changes which monitors are stale, nothing else.
LEMMA UnlinkMonitorType ==
  ASSUME TypeOK, NEW m \in Monitors, NEW s \in StaleAfterUnlink(m)
  PROVE  s \in SUBSET Monitors
  BY DEF TypeOK, StaleAfterUnlink, HeldIn

----------------------------------------------------------------------------
(* Type correctness *)

LEMMA ForceExitType ==
  ASSUME TypeOK, NEW S, ForceExit(S)
  PROVE  /\ owner' \in [Monitors -> Threads \cup {NULL}]
         /\ recursion' \in [Monitors -> Nat]
         /\ ownerObject' \in [Monitors -> Objects \cup {NULL}]
         /\ heldAt' \in [Monitors -> Frames \cup {NoFrame}]
         /\ enterSet' \in [Monitors -> Seq(Threads)]
         /\ waitSet' \in [Monitors -> Seq(Threads)]
  BY DEF ForceExit, TypeOK

LEMMA DieType ==
  ASSUME TypeOK, NEW t \in Threads, Die(t)
  PROVE  TypeOK'
  <1> DEFINE S == UNION {HeldIn(<<t, d>>) : d \in 1..depth[t]}
  <1>1. ForceExit(S) /\ pc' = [Signalled(ForceWoken(S)) EXCEPT ![t] = "dead"]
    BY DEF Die
  <1>2. UNCHANGED <<threadVars, wakeRecursion, objectVars, stale>>
    BY DEF Die
  <1> HIDE DEF S
  <1>3. pc' \in [Threads -> PCs]
    BY <1>1, SignalledProperties DEF PCs
  <1>4. QED
    BY <1>1, <1>2, <1>3, ForceExitType DEF TypeOK, threadVars, objectVars

LEMMA ReleaseType ==
  ASSUME TypeOK, OwnedHasRecursion, NEW t \in Threads, NEW m \in Monitors,
         owner[m] = t, Release(t, m)
  PROVE  /\ pc' \in [Threads -> PCs]
         /\ owner' \in [Monitors -> Threads \cup {NULL}]
         /\ recursion' \in [Monitors -> Nat]
         /\ ownerObject' \in [Monitors -> Objects \cup {NULL}]
         /\ heldAt' \in [Monitors -> Frames \cup {NoFrame}]
         /\ enterSet' \in [Monitors -> Seq(Threads)]
         /\ waitSet' \in [Monitors -> Seq(Threads)]
  <1>1. recursion[m] \in Nat \ {0}
    <2>1. owner[m] # NULL
      BY MonitorAssumption
    <2>2. recursion[m] \in Nat
      BY DEF TypeOK
    <2>3. recursion[m] > 0
      BY <2>1 DEF OwnedHasRecursion
    <2>4. QED
      BY <2>2, <2>3
  <1>2. pc' \in [Threads -> PCs]
    <2>1. Signalled(FirstToEnter(m)) \in [Threads -> PCs]
      BY SignalledProperties
    <2>2. QED
      BY <2>1 DEF Release, TypeOK
  <1>3. recursion' \in [Monitors -> Nat]
    BY <1>1 DEF Release, TypeOK
  <1>4. enterSet' \in [Monitors -> Seq(Threads)]
    <2>1. enterSet[m] # <<>> => Tail(enterSet[m]) \in Seq(Threads)
      BY HeadTailProperties DEF TypeOK
    <2>2. QED
      BY <2>1 DEF Release, TypeOK
  <1>5. heldAt' \in [Monitors -> Frames \cup {NoFrame}]
    BY DEF Release, TypeOK
  <1>6. QED
    BY <1>2, <1>3, <1>4, <1>5 DEF Release, TypeOK

----------------------------------------------------------------------------
(* Releasing monitors *)

\* A forced exit of any monitors keeps the ownership invariants.
LEMMA ForceExitKeeps ==
  ASSUME LinkedIsOwned, OwnedHasRecursion, NEW S, ForceExit(S)
  PROVE  LinkedIsOwned' /\ OwnedHasRecursion'
  BY DEF LinkedIsOwned, OwnedHasRecursion, ForceExit

\* monitor_exit by the owner keeps them: it resets the owner at the last exit.
LEMMA ReleaseKeeps ==
  ASSUME TypeOK, LinkedIsOwned, OwnedHasRecursion, NEW t \in Threads,
         NEW m \in Monitors, owner[m] = t, Release(t, m)
  PROVE  LinkedIsOwned' /\ OwnedHasRecursion'
  <1>1. recursion[m] \in Nat \ {0}
    <2>1. owner[m] # NULL
      BY MonitorAssumption
    <2>2. QED
      BY <2>1 DEF OwnedHasRecursion, TypeOK
  <1>2. CASE recursion[m] = 1
    <2>1. LinkedIsOwned'
      BY <1>2 DEF Release, LinkedIsOwned, TypeOK
    <2>2. OwnedHasRecursion'
      BY <1>2 DEF Release, OwnedHasRecursion, TypeOK
    <2>3. QED
      BY <2>1, <2>2
  <1>3. CASE recursion[m] # 1
    <2>1. UNCHANGED <<owner, ownerObject, heldAt>>
      BY <1>3 DEF Release
    <2>2. \A n \in Monitors : recursion'[n] = recursion[n] \/ recursion'[n] > 0
      <3>1. recursion' = [recursion EXCEPT ![m] = recursion[m] - 1]
        BY DEF Release
      <3>2. recursion[m] - 1 > 0
        BY <1>1, <1>3
      <3>3. QED
        BY <3>1, <3>2 DEF TypeOK
    <2>3. QED
      BY <2>1, <2>2 DEF LinkedIsOwned, OwnedHasRecursion
  <1>4. QED
    BY <1>2, <1>3

\* The forced exits of a dying thread wake others and change no other thread.
LEMMA DieKeeps ==
  ASSUME IInv, NEW t \in Threads, pc[t] \in {"run", "alloc"}, Die(t)
  PROVE  IInv'
  <1> DEFINE S == UNION {HeldIn(<<t, d>>) : d \in 1..depth[t]}
  <1>1. ForceExit(S) /\ pc' = [Signalled(ForceWoken(S)) EXCEPT ![t] = "dead"]
    BY DEF Die
  <1>2. UNCHANGED <<phase, want, mon, depth, nest, wakeRecursion, objMonitor>>
    BY DEF Die, threadVars, objectVars
  <1>3. TypeOK /\ TypeOK'
    BY DieType DEF IInv
  <1> HIDE DEF S
  <1>4. \A u \in Threads : \/ pc'[u] = pc[u]
                          \/ (pc[u] = "parked" /\ pc'[u] = "woken")
                          \/ pc'[u] = "dead"
    BY <1>1, <1>3, SignalledProperties
  <1>5. CallArguments'
    BY <1>2, <1>4 DEF IInv, CallArguments
  <1>6. RegionsHaveMonitors'
    BY <1>2, <1>4 DEF IInv, RegionsHaveMonitors
  <1>7. WaiterKeepsCount'
    BY <1>2, <1>4 DEF IInv, WaiterKeepsCount
  <1>8. LinkedIsOwned' /\ OwnedHasRecursion'
    BY <1>1, ForceExitKeeps DEF IInv
  <1>9. QED
    BY <1>3, <1>5, <1>6, <1>7, <1>8 DEF IInv

----------------------------------------------------------------------------
(* monitor_enter *)

\* The actions that touch no monitor: calls, loads, parking and waking up.
LEMMA CallKeeps ==
  ASSUME IInv, NEW t \in Threads,
         (\E o \in Objects : MonitorEnter(t, o) \/ InvokeSync(t, o)) \/ Invoke(t)
  PROVE  IInv'
  <1> USE DEF lockVars, queueVars, objectVars, PassesCheck, Running
  <1>1. TypeOK'
    <2>1. CASE \E o \in Objects : MonitorEnter(t, o)
      BY <2>1 DEF IInv, TypeOK, MonitorEnter, PCs, Phases
    <2>2. CASE (\E o \in Objects : InvokeSync(t, o)) \/ Invoke(t)
      <3>1. depth[t] < MaxDepth /\ depth' = [depth EXCEPT ![t] = depth[t] + 1]
        BY <2>2 DEF InvokeSync, Invoke
      <3>2. depth \in [Threads -> 1..MaxDepth]
        BY DEF IInv, TypeOK
      <3>3. depth' \in [Threads -> 1..MaxDepth]
        BY <3>1, <3>2, MonitorAssumption
      <3>4. CASE \E o \in Objects : InvokeSync(t, o)
        BY <3>3, <3>4 DEF IInv, TypeOK, InvokeSync, PCs, Phases
      <3>5. CASE Invoke(t)
        BY <3>3, <3>5 DEF IInv, TypeOK, Invoke
      <3>6. QED
        BY <2>2, <3>4, <3>5
    <2>3. QED
      BY <2>1, <2>2
  <1>2. CallArguments'
    BY DEF IInv, TypeOK, CallArguments, MonitorEnter, InvokeSync, Invoke
  <1>3. RegionsHaveMonitors'
    BY DEF IInv, TypeOK, RegionsHaveMonitors, MonitorEnter, InvokeSync, Invoke
  <1>4. LinkedIsOwned' /\ OwnedHasRecursion'
    BY DEF IInv, LinkedIsOwned, OwnedHasRecursion, MonitorEnter, InvokeSync, Invoke
  <1>5. WaiterKeepsCount'
    BY DEF IInv, TypeOK, WaiterKeepsCount, MonitorEnter, InvokeSync, Invoke
  <1>6. QED
    BY <1>1, <1>2, <1>3, <1>4, <1>5 DEF IInv

LEMMA SleepKeeps ==
  ASSUME IInv, NEW t \in Threads,
         EnterLoad(t) \/ Park(t) \/ SpuriousWakeup(t) \/ WaitResume(t)
  PROVE  IInv'
  <1> USE DEF threadVars, lockVars, queueVars, objectVars
  <1>1. TypeOK'
    BY DEF IInv, TypeOK, CallArguments, EnterLoad, Park, SpuriousWakeup, WaitResume, PCs, Phases
  <1>2. CallArguments'
    BY DEF IInv, TypeOK, CallArguments, EnterLoad, Park, SpuriousWakeup, WaitResume
  <1>3. RegionsHaveMonitors'
    BY DEF IInv, TypeOK, RegionsHaveMonitors, EnterLoad, Park, SpuriousWakeup, WaitResume
  <1>4. LinkedIsOwned' /\ OwnedHasRecursion'
    BY DEF IInv, LinkedIsOwned, OwnedHasRecursion, EnterLoad, Park, SpuriousWakeup, WaitResume
  <1>5. WaiterKeepsCount'
    BY DEF IInv, TypeOK, WaiterKeepsCount, EnterLoad, Park, SpuriousWakeup, WaitResume
  <1>6. QED
    BY <1>1, <1>2, <1>3, <1>4, <1>5 DEF IInv

LEMMA EnterAllocKeeps ==
  ASSUME IInv, NEW t \in Threads, EnterAlloc(t)
  PROVE  IInv'
  <1>1. PICK m \in freeMonitors :
          /\ freeMonitors' = freeMonitors \ {m}
          /\ objMonitor' = [objMonitor EXCEPT ![want[t]] = m]
          /\ owner' = [owner EXCEPT ![m] = NULL]
          /\ heldAt' = [heldAt EXCEPT ![m] = NoFrame]
          /\ enterSet' = [enterSet EXCEPT ![m] = <<>>]
          /\ waitSet' = [waitSet EXCEPT ![m] = <<>>]
    BY DEF EnterAlloc
  <1>2. /\ pc[t] = "alloc"
        /\ pc' = [pc EXCEPT ![t] = "load"]
        /\ UNCHANGED <<phase, want, mon, depth, nest, wakeRecursion, recursion, ownerObject, stale>>
    BY DEF EnterAlloc, threadVars
  <1>3. m \in Monitors /\ want[t] \in Objects
    BY <1>2 DEF IInv, TypeOK, CallArguments
  <1>4. TypeOK'
    BY <1>1, <1>2, <1>3 DEF IInv, TypeOK, PCs
  <1>5. \A o \in Objects : objMonitor[o] \in Monitors => objMonitor'[o] \in Monitors
    BY <1>1, <1>3 DEF IInv, TypeOK
  <1>6. CallArguments'
    BY <1>2, <1>5 DEF IInv, TypeOK, CallArguments
  <1>7. RegionsHaveMonitors'
    <2>1. \A u \in Threads : \A i \in DOMAIN nest[u] : nest[u][i].obj \in Objects
      <3> SUFFICES ASSUME NEW u \in Threads, NEW i \in DOMAIN nest[u]
                   PROVE  nest[u][i].obj \in Objects
        OBVIOUS
      <3>1. nest[u] \in Seq(Regions)
        BY DEF IInv, TypeOK
      <3>2. nest[u][i] \in Regions
        BY <3>1
      <3>3. QED
        BY <3>2 DEF Regions
    <2>2. QED
      BY <1>2, <1>5, <2>1 DEF IInv, TypeOK, RegionsHaveMonitors
  <1>8. LinkedIsOwned' /\ OwnedHasRecursion'
    BY <1>1, <1>2, <1>3 DEF IInv, TypeOK, LinkedIsOwned, OwnedHasRecursion
  <1>9. WaiterKeepsCount'
    BY <1>2 DEF IInv, TypeOK, WaiterKeepsCount
  <1>10. QED
    BY <1>4, <1>6, <1>7, <1>8, <1>9 DEF IInv

\* monitor_enter returns to a program whose object has a monitor.
LEMMA EnterReturnKeeps ==
  ASSUME IInv, NEW t \in Threads, pc[t] \in {"lock", "woken"}, EnterReturn(t),
         UNCHANGED objMonitor,
         \A u \in Threads \ {t} : wakeRecursion'[u] = wakeRecursion[u]
  PROVE  /\ pc' \in [Threads -> PCs]
         /\ phase' \in [Threads -> Phases]
         /\ want' \in [Threads -> Objects \cup {NULL}]
         /\ mon' \in [Threads -> Monitors \cup {NULL}]
         /\ nest' \in [Threads -> Seq(Regions)]
         /\ CallArguments'
         /\ RegionsHaveMonitors'
         /\ WaiterKeepsCount'
  <1> DEFINE r == [obj |-> want[t], at |-> depth[t], sync |-> phase[t] = "sync"]
  <1>1. want[t] \in Objects /\ objMonitor[want[t]] \in Monitors
    BY DEF IInv, CallArguments
  <1>2. r \in Regions
    BY <1>1 DEF IInv, TypeOK, Regions
  <1>3. nest' = nest \/ nest' = [nest EXCEPT ![t] = Append(nest[t], r)]
    BY DEF EnterReturn
  <1>4. r.obj = want[t]
    OBVIOUS
  <1> HIDE DEF r
  <1>5. nest[t] \in Seq(Regions)
    BY DEF IInv, TypeOK
  <1>6. Append(nest[t], r) \in Seq(Regions)
    BY <1>2, <1>5
  <1>7. nest' \in [Threads -> Seq(Regions)]
    BY <1>3, <1>6 DEF IInv, TypeOK
  <1>8. pc' \in [Threads -> PCs] /\ phase' \in [Threads -> Phases]
    BY DEF IInv, TypeOK, EnterReturn, PCs, Phases
  <1>9. want' \in [Threads -> Objects \cup {NULL}] /\ mon' \in [Threads -> Monitors \cup {NULL}]
    BY DEF IInv, TypeOK, EnterReturn
  <1>10. CallArguments'
    BY DEF IInv, TypeOK, EnterReturn, CallArguments
  <1>11. RegionsHaveMonitors'
    <2> SUFFICES ASSUME NEW u \in Threads, pc'[u] # "dead", NEW i \in DOMAIN nest'[u]
                 PROVE  objMonitor[nest'[u][i].obj] \in Monitors
      BY DEF RegionsHaveMonitors
    <2>1. pc[u] # "dead"
      BY DEF IInv, TypeOK, EnterReturn
    <2>2. CASE i \in DOMAIN nest[u] /\ nest'[u][i] = nest[u][i]
      BY <2>1, <2>2 DEF IInv, RegionsHaveMonitors
    <2>3. CASE nest'[u][i] = r
      BY <2>3, <1>1, <1>4
    <2>4. (i \in DOMAIN nest[u] /\ nest'[u][i] = nest[u][i]) \/ nest'[u][i] = r
      <3>1. CASE u = t /\ nest' # nest
        <4>1. nest'[u] = Append(nest[t], r)
          BY <1>3, <3>1 DEF IInv, TypeOK
        <4>2. QED
          BY <4>1, <3>1, <1>2, <1>5, AppendProperties
      <3>2. CASE u # t \/ nest' = nest
        BY <3>2, <1>3 DEF IInv, TypeOK
      <3>3. QED
        BY <3>1, <3>2
    <2>5. QED
      BY <2>2, <2>3, <2>4
  <1>12. WaiterKeepsCount'
    BY DEF IInv, TypeOK, EnterReturn, WaiterKeepsCount
  <1>13. QED
    BY <1>7, <1>8, <1>9, <1>10, <1>11, <1>12

LEMMA EnterAcquireKeeps ==
  ASSUME IInv, NEW t \in Threads, EnterAcquire(t)
  PROVE  IInv'
  <1> DEFINE m == mon[t]
  <1>1. /\ pc[t] = "lock"
        /\ MayEnter(t, m)
        /\ IF recursion[m] = 0
           THEN heldAt' = [heldAt EXCEPT ![m] = <<t, depth[t]>>] /\ stale' = stale \ {m}
           ELSE UNCHANGED <<heldAt, stale>>
        /\ ownerObject' = [ownerObject EXCEPT ![m] = want[t]]
        /\ owner' = [owner EXCEPT ![m] = t]
        /\ recursion' = [recursion EXCEPT ![m] = CountAfterEnter(t, m)]
        /\ wakeRecursion' = [wakeRecursion EXCEPT ![t] = 0]
        /\ EnterReturn(t)
    BY DEF EnterAcquire
  <1>2. UNCHANGED <<objMonitor, freeMonitors, enterSet, waitSet, depth>>
    BY DEF EnterAcquire, EnterReturn, objectVars, queueVars
  <1>3. m \in Monitors /\ want[t] \in Objects /\ want[t] # NULL
    BY <1>1, MonitorAssumption DEF IInv, CallArguments
  <1> HIDE DEF m
  <1>4. CountAfterEnter(t, m) \in Nat \ {0}
    BY <1>3 DEF CountAfterEnter, IInv, TypeOK
  <1>5. <<t, depth[t]>> \in Frames /\ <<t, depth[t]>>[1] = t
    BY DEF IInv, TypeOK, Frames
  <1>6. wakeRecursion' \in [Threads -> Nat] /\
        \A u \in Threads \ {t} : wakeRecursion'[u] = wakeRecursion[u]
    BY <1>1 DEF IInv, TypeOK
  <1>7. /\ pc' \in [Threads -> PCs]
        /\ phase' \in [Threads -> Phases]
        /\ want' \in [Threads -> Objects \cup {NULL}]
        /\ mon' \in [Threads -> Monitors \cup {NULL}]
        /\ nest' \in [Threads -> Seq(Regions)]
        /\ CallArguments'
        /\ RegionsHaveMonitors'
        /\ WaiterKeepsCount'
    BY <1>1, <1>2, <1>6, EnterReturnKeeps
  <1>8. heldAt' \in [Monitors -> Frames \cup {NoFrame}] /\ stale' \in SUBSET Monitors
    BY <1>1, <1>3, <1>5 DEF IInv, TypeOK
  <1>9. /\ owner' \in [Monitors -> Threads \cup {NULL}]
        /\ recursion' \in [Monitors -> Nat]
        /\ ownerObject' \in [Monitors -> Objects \cup {NULL}]
    BY <1>1, <1>3, <1>4 DEF IInv, TypeOK
  <1>10. TypeOK'
    BY <1>2, <1>6, <1>7, <1>8, <1>9 DEF IInv, TypeOK
  <1>11. LinkedIsOwned'
    <2> SUFFICES ASSUME NEW n \in Monitors, heldAt'[n] # NoFrame
                 PROVE  owner'[n] = heldAt'[n][1] /\ ownerObject'[n] # NULL
      BY DEF LinkedIsOwned
    <2>1. CASE n # m
      BY <2>1, <1>1, <1>3 DEF IInv, TypeOK, LinkedIsOwned
    <2>2. CASE n = m
      <3>1. owner'[m] = t /\ ownerObject'[m] = want[t]
        BY <1>1, <1>3 DEF IInv, TypeOK
      <3>2. CASE recursion[m] = 0
        BY <2>2, <3>1, <3>2, <1>1, <1>3, <1>5 DEF IInv, TypeOK
      <3>3. CASE recursion[m] # 0
        <4>1. heldAt[m] # NoFrame /\ heldAt'[m] = heldAt[m]
          BY <3>3, <1>1, <2>2
        <4>2. owner[m] = heldAt[m][1]
          BY <4>1, <1>3 DEF IInv, LinkedIsOwned
        <4>3. heldAt[m][1] \in Threads
          BY <4>1, <1>3 DEF IInv, TypeOK, Frames
        <4>4. owner[m] = t
          BY <1>1, <4>2, <4>3, MonitorAssumption DEF MayEnter
        <4>5. QED
          BY <2>2, <3>1, <4>1, <4>2, <4>4, <1>3
      <3>4. QED
        BY <3>2, <3>3
    <2>3. QED
      BY <2>1, <2>2
  <1>12. OwnedHasRecursion'
    BY <1>1, <1>3, <1>4 DEF IInv, TypeOK, OwnedHasRecursion
  <1>13. QED
    BY <1>7, <1>10, <1>11, <1>12 DEF IInv

LEMMA EnterQueueKeeps ==
  ASSUME IInv, NEW t \in Threads, EnterQueue(t)
  PROVE  IInv'
  <1> DEFINE m == mon[t]
  <1>1. /\ pc[t] = "lock"
        /\ enterSet' = [n \in Monitors |-> IF n = m
                          THEN Append(Unlink(enterSet[n], t), t) ELSE Unlink(enterSet[n], t)]
        /\ waitSet' = [n \in Monitors |-> Unlink(waitSet[n], t)]
        /\ pc' = [pc EXCEPT ![t] = "toPark"]
    BY DEF EnterQueue
  <1>2. UNCHANGED <<phase, want, mon, depth, nest, wakeRecursion, objMonitor, freeMonitors,
                    owner, recursion, ownerObject, heldAt, stale>>
    BY DEF EnterQueue, threadVars, objectVars, lockVars
  <1> HIDE DEF m
  <1>3. \A n \in Monitors : /\ Unlink(enterSet[n], t) \in Seq(Threads)
                            /\ Append(Unlink(enterSet[n], t), t) \in Seq(Threads)
                            /\ Unlink(waitSet[n], t) \in Seq(Threads)
    BY UnlinkType, AppendProperties DEF IInv, TypeOK
  <1>4. enterSet' \in [Monitors -> Seq(Threads)] /\ waitSet' \in [Monitors -> Seq(Threads)]
    BY <1>1, <1>3
  <1>5. pc' \in [Threads -> PCs]
    BY <1>1 DEF IInv, TypeOK, PCs
  <1>6. TypeOK'
    BY <1>2, <1>4, <1>5 DEF IInv, TypeOK
  <1>7. CallArguments'
    BY <1>1, <1>2 DEF IInv, TypeOK, CallArguments
  <1>8. RegionsHaveMonitors'
    BY <1>1, <1>2 DEF IInv, TypeOK, RegionsHaveMonitors
  <1>9. LinkedIsOwned' /\ OwnedHasRecursion'
    BY <1>2 DEF IInv, LinkedIsOwned, OwnedHasRecursion
  <1>10. WaiterKeepsCount'
    BY <1>1, <1>2 DEF IInv, TypeOK, WaiterKeepsCount
  <1>11. QED
    BY <1>6, <1>7, <1>8, <1>9, <1>10 DEF IInv

LEMMA EnterResumeKeeps ==
  ASSUME IInv, NEW t \in Threads, EnterResume(t)
  PROVE  IInv'
  <1>1. /\ pc[t] = "woken"
        /\ EnterReturn(t)
        /\ UNCHANGED <<wakeRecursion, objMonitor, freeMonitors, owner, recursion, ownerObject,
                       heldAt, stale, enterSet, waitSet, depth>>
    BY DEF EnterResume, EnterReturn, objectVars, lockVars, queueVars
  <1>2. /\ pc' \in [Threads -> PCs]
        /\ phase' \in [Threads -> Phases]
        /\ want' \in [Threads -> Objects \cup {NULL}]
        /\ mon' \in [Threads -> Monitors \cup {NULL}]
        /\ nest' \in [Threads -> Seq(Regions)]
        /\ CallArguments'
        /\ RegionsHaveMonitors'
        /\ WaiterKeepsCount'
    BY <1>1, EnterReturnKeeps
  <1>3. TypeOK'
    BY <1>1, <1>2 DEF IInv, TypeOK
  <1>4. LinkedIsOwned' /\ OwnedHasRecursion'
    BY <1>1 DEF IInv, LinkedIsOwned, OwnedHasRecursion
  <1>5. QED
    BY <1>2, <1>3, <1>4 DEF IInv

----------------------------------------------------------------------------
(* Leaving regions and frames *)

\* The monitor of the innermost region of a live thread exists.
LEMMA InnermostMonitor ==
  ASSUME IInv, NEW t \in Threads, pc[t] # "dead", nest[t] # <<>>
  PROVE  objMonitor[Innermost(t).obj] \in Monitors
  BY LeaveRegionProperties DEF IInv, RegionsHaveMonitors

\* Signals to others, and regions that only shrink, keep the facts of threads.
LEMMA ThreadsKeep ==
  ASSUME IInv,
         UNCHANGED <<phase, want, mon, wakeRecursion, objMonitor>>,
         \A u \in Threads : \/ pc'[u] = pc[u]
                            \/ (pc[u] = "parked" /\ pc'[u] = "woken"),
         \A u \in Threads : \A i \in DOMAIN nest'[u] :
           i \in DOMAIN nest[u] /\ nest'[u][i] = nest[u][i]
  PROVE  CallArguments' /\ RegionsHaveMonitors' /\ WaiterKeepsCount'
  <1>1. CallArguments'
    BY DEF IInv, CallArguments
  <1>2. RegionsHaveMonitors'
    BY DEF IInv, RegionsHaveMonitors
  <1>3. WaiterKeepsCount'
    BY DEF IInv, WaiterKeepsCount
  <1>4. QED
    BY <1>1, <1>2, <1>3

\* monitor_exit by the owner, from either of the places that call it.
LEMMA OwnerReleaseKeeps ==
  ASSUME IInv, NEW t \in Threads, pc[t] = "run", nest[t] # <<>>,
         owner[objMonitor[Innermost(t).obj]] = t,
         Release(t, objMonitor[Innermost(t).obj]),
         nest' = LeaveRegion(t),
         UNCHANGED <<phase, want, mon, wakeRecursion, objMonitor, freeMonitors>>,
         depth' \in [Threads -> 1..MaxDepth],
         stale' \in SUBSET Monitors
  PROVE  IInv'
  <1> DEFINE m == objMonitor[Innermost(t).obj]
  <1>1. m \in Monitors
    BY InnermostMonitor
  <1> HIDE DEF m
  <1>2. owner[m] = t /\ Release(t, m)
    BY DEF m
  <1>3. \A u \in Threads : \/ pc'[u] = pc[u]
                          \/ (pc[u] = "parked" /\ pc'[u] = "woken")
    <2>1. TypeOK
      BY DEF IInv
    <2>2. pc' = pc \/ pc' = Signalled(FirstToEnter(m))
      BY <1>2 DEF Release
    <2>3. \A u \in Threads : \/ Signalled(FirstToEnter(m))[u] = pc[u]
                            \/ (pc[u] = "parked" /\ Signalled(FirstToEnter(m))[u] = "woken")
      BY <2>1, SignalledProperties
    <2>4. CASE pc' = pc
      BY <2>4
    <2>5. CASE pc' = Signalled(FirstToEnter(m))
      BY <2>3, <2>5
    <2>6. QED
      BY <2>2, <2>4, <2>5
  <1>4. nest' \in [Threads -> Seq(Regions)] /\
        \A u \in Threads : \A i \in DOMAIN nest'[u] :
          i \in DOMAIN nest[u] /\ nest'[u][i] = nest[u][i]
    BY LeaveRegionProperties DEF IInv
  <1>5. CallArguments' /\ RegionsHaveMonitors' /\ WaiterKeepsCount'
    BY <1>3, <1>4, ThreadsKeep
  <1>6. LinkedIsOwned' /\ OwnedHasRecursion'
    BY <1>1, <1>2, ReleaseKeeps DEF IInv
  <1>7. TypeOK'
    <2>1. /\ pc' \in [Threads -> PCs]
          /\ owner' \in [Monitors -> Threads \cup {NULL}]
          /\ recursion' \in [Monitors -> Nat]
          /\ ownerObject' \in [Monitors -> Objects \cup {NULL}]
          /\ heldAt' \in [Monitors -> Frames \cup {NoFrame}]
          /\ enterSet' \in [Monitors -> Seq(Threads)]
          /\ waitSet' \in [Monitors -> Seq(Threads)]
      BY <1>1, <1>2, ReleaseType DEF IInv
    <2>2. QED
      BY <1>4, <2>1 DEF IInv, TypeOK
  <1>8. QED
    BY <1>5, <1>6, <1>7 DEF IInv

LEMMA StaleAfterReleaseType ==
  ASSUME TypeOK, NEW m \in Monitors, NEW s \in StaleAfterRelease(m)
  PROVE  s \in SUBSET Monitors
  BY UnlinkMonitorType DEF StaleAfterRelease, TypeOK

LEMMA MonitorExitKeeps ==
  ASSUME IInv, NEW t \in Threads, MonitorExit(t)
  PROVE  IInv'
  <1> DEFINE m == objMonitor[Innermost(t).obj]
  <1>1. pc[t] = "run" /\ nest[t] # <<>>
    BY DEF MonitorExit, Running, InBlock
  <1>2. m \in Monitors
    BY <1>1, InnermostMonitor
  <1>3. CASE Die(t)
    BY <1>1, <1>3, DieKeeps
  <1>4. CASE /\ Owns(t, m)
             /\ Release(t, m)
             /\ stale' \in StaleAfterRelease(m)
             /\ nest' = LeaveRegion(t)
             /\ UNCHANGED <<phase, want, mon, depth, wakeRecursion, objectVars>>
    <2>1. stale' \in SUBSET Monitors
      BY <1>2, <1>4, StaleAfterReleaseType DEF IInv
    <2>2. depth' \in [Threads -> 1..MaxDepth]
      BY <1>4 DEF IInv, TypeOK
    <2>3. QED
      BY <1>1, <1>4, <2>1, <2>2, OwnerReleaseKeeps DEF Owns, objectVars
  <1>5. QED
    BY <1>3, <1>4 DEF MonitorExit

\* The region of a synchronized method lies in the frame being popped; below
\* the bottom frame there is none.
LEMMA PopType ==
  ASSUME TypeOK, NEW t \in Threads, depth[t] > 1
  PROVE  [depth EXCEPT ![t] = @ - 1] \in [Threads -> 1..MaxDepth]
  BY MonitorAssumption DEF TypeOK

LEMMA PoppedType ==
  ASSUME TypeOK, NEW t \in Threads
  PROVE  Popped(t) \in SUBSET Monitors
  BY DEF Popped, HeldIn

LEMMA MethodReturnKeeps ==
  ASSUME IInv, NEW t \in Threads, MethodReturn(t)
  PROVE  IInv'
  <1>1. /\ depth[t] > 1
        /\ stale' = stale \cup Popped(t)
        /\ depth' = [depth EXCEPT ![t] = @ - 1]
        /\ UNCHANGED <<pc, phase, want, mon, nest, wakeRecursion, objMonitor, freeMonitors,
                       owner, recursion, ownerObject, heldAt, enterSet, waitSet>>
    BY DEF MethodReturn, objectVars, queueVars
  <1>2. TypeOK
    BY DEF IInv
  <1>3. depth' \in [Threads -> 1..MaxDepth] /\ stale' \in SUBSET Monitors
    BY <1>1, <1>2, PopType, PoppedType DEF TypeOK
  <1>4. TypeOK'
    BY <1>1, <1>2, <1>3 DEF TypeOK
  <1>5. CallArguments' /\ RegionsHaveMonitors' /\ WaiterKeepsCount'
    BY <1>1, ThreadsKeep
  <1>6. LinkedIsOwned' /\ OwnedHasRecursion'
    BY <1>1 DEF IInv, LinkedIsOwned, OwnedHasRecursion
  <1>7. QED
    BY <1>4, <1>5, <1>6 DEF IInv

LEMMA UnwindKeeps ==
  ASSUME IInv, NEW t \in Threads, Unwind(t)
  PROVE  IInv'
  <1> DEFINE S == HeldIn(<<t, depth[t] - 1>>)
  <1>1. /\ depth[t] > 1
        /\ ForceExit(S)
        /\ pc' = Signalled(ForceWoken(S))
        /\ stale' = stale \cup Popped(t)
        /\ depth' = [depth EXCEPT ![t] = @ - 1]
        /\ nest' = IF InSyncMethod(t) THEN LeaveRegion(t) ELSE nest
        /\ UNCHANGED <<phase, want, mon, wakeRecursion, objMonitor, freeMonitors>>
    BY DEF Unwind, objectVars
  <1> HIDE DEF S
  <1>2. TypeOK
    BY DEF IInv
  <1>3. depth' \in [Threads -> 1..MaxDepth] /\ stale' \in SUBSET Monitors
    BY <1>1, <1>2, PopType, PoppedType DEF TypeOK
  <1>4. /\ pc' \in [Threads -> PCs]
        /\ \A u \in Threads : \/ pc'[u] = pc[u]
                              \/ (pc[u] = "parked" /\ pc'[u] = "woken")
    BY <1>1, <1>2, SignalledProperties
  <1>5. nest' \in [Threads -> Seq(Regions)] /\
        \A u \in Threads : \A i \in DOMAIN nest'[u] :
          i \in DOMAIN nest[u] /\ nest'[u][i] = nest[u][i]
    <2>1. CASE InSyncMethod(t)
      BY <1>1, <1>2, <2>1, LeaveRegionProperties DEF InSyncMethod
    <2>2. CASE ~InSyncMethod(t)
      BY <1>1, <1>2, <2>2 DEF TypeOK
    <2>3. QED
      BY <2>1, <2>2
  <1>6. TypeOK'
    BY <1>1, <1>2, <1>3, <1>4, <1>5, ForceExitType DEF TypeOK
  <1>7. CallArguments' /\ RegionsHaveMonitors' /\ WaiterKeepsCount'
    BY <1>1, <1>4, <1>5, ThreadsKeep
  <1>8. LinkedIsOwned' /\ OwnedHasRecursion'
    BY <1>1, ForceExitKeeps DEF IInv
  <1>9. QED
    BY <1>6, <1>7, <1>8 DEF IInv

LEMMA SyncMethodReturnKeeps ==
  ASSUME IInv, SyncFrames, NEW t \in Threads, SyncMethodReturn(t)
  PROVE  IInv'
  <1> DEFINE m == objMonitor[Innermost(t).obj]
             unlinked == IF recursion[m] = 1 THEN {m} ELSE {}
  <1>1. pc[t] = "run" /\ nest[t] # <<>> /\ Innermost(t).sync /\ Innermost(t).at = depth[t]
    BY DEF SyncMethodReturn, PassesCheck, Running, InSyncMethod
  <1>2. m \in Monitors /\ TypeOK
    BY <1>1, InnermostMonitor DEF IInv
  <1>3. CASE Die(t)
    BY <1>1, <1>3, DieKeeps
  <1>4. CASE /\ Owns(t, m)
             /\ Release(t, m)
             /\ \E s \in StaleAfterRelease(m) : stale' = s \cup (Popped(t) \ unlinked)
             /\ depth' = [depth EXCEPT ![t] = @ - 1]
             /\ nest' = LeaveRegion(t)
             /\ UNCHANGED <<phase, want, mon, wakeRecursion, objectVars>>
    <2>1. stale' \in SUBSET Monitors
      BY <1>2, <1>4, StaleAfterReleaseType, PoppedType
    <2>2. depth[t] > 1
      BY <1>1, <1>2, LeaveRegionProperties DEF SyncFrames
    <2>3. depth' \in [Threads -> 1..MaxDepth]
      BY <1>2, <1>4, <2>2, PopType
    <2>4. QED
      BY <1>1, <1>4, <2>1, <2>3, OwnerReleaseKeeps DEF Owns, objectVars
  <1>5. QED
    BY <1>3, <1>4 DEF SyncMethodReturn

----------------------------------------------------------------------------
(* wait, notify, and the collector *)

\* The object of a region a live thread is inside of has a monitor.
LEMMA InsideMonitor ==
  ASSUME IInv, NEW t \in Threads, NEW o \in Objects, pc[t] # "dead", Inside(t, o)
  PROVE  objMonitor[o] \in Monitors
  BY DEF IInv, RegionsHaveMonitors, Inside

LEMMA ObjectWaitKeeps ==
  ASSUME IInv, NEW t \in Threads, NEW o \in Objects, ObjectWait(t, o)
  PROVE  IInv'
  <1> DEFINE m == objMonitor[o]
  <1>1. pc[t] = "run" /\ Inside(t, o)
    BY DEF ObjectWait, PassesCheck, Running
  <1>2. m \in Monitors
    BY <1>1, InsideMonitor
  <1>3. CASE Die(t)
    BY <1>1, <1>3, DieKeeps
  <1>4. CASE ~Die(t)
    <2>1. /\ owner[m] = t
          /\ UnlinkMonitor(m)
          /\ wakeRecursion' = [wakeRecursion EXCEPT ![t] = recursion[m]]
          /\ recursion' = [recursion EXCEPT ![m] = 0]
          /\ owner' = [owner EXCEPT ![m] = NULL]
          /\ enterSet' = [n \in Monitors |-> Unlink(enterSet[n], t)]
          /\ waitSet' = [n \in Monitors |-> IF n = m
                           THEN Cons(t, Unlink(waitSet[n], t)) ELSE Unlink(waitSet[n], t)]
          /\ pc' = [pc EXCEPT ![t] = "toPark"]
          /\ phase' = [phase EXCEPT ![t] = "wait"]
          /\ want' = [want EXCEPT ![t] = o]
          /\ UNCHANGED <<mon, depth, nest, objMonitor, freeMonitors, ownerObject>>
      BY <1>4 DEF ObjectWait, Owns, SavedCount, objectVars
    <2> HIDE DEF m
    <2>2. heldAt' = [heldAt EXCEPT ![m] = NoFrame] /\ stale' \in SUBSET Monitors
      BY <1>2, <2>1, UnlinkMonitorType DEF UnlinkMonitor, IInv
    <2>3. recursion[m] \in Nat \ {0}
      <3>1. owner[m] # NULL
        BY <2>1, MonitorAssumption
      <3>2. QED
        BY <1>2, <3>1 DEF IInv, TypeOK, OwnedHasRecursion
    <2>4. \A n \in Monitors : /\ Unlink(enterSet[n], t) \in Seq(Threads)
                              /\ Unlink(waitSet[n], t) \in Seq(Threads)
      BY UnlinkType DEF IInv, TypeOK
    <2>5. \A n \in Monitors : Cons(t, Unlink(waitSet[n], t)) \in Seq(Threads)
      BY <2>4, ConcatProperties DEF Cons
    <2>6. enterSet' \in [Monitors -> Seq(Threads)] /\ waitSet' \in [Monitors -> Seq(Threads)]
      BY <2>1, <2>4, <2>5
    <2>7. /\ pc' \in [Threads -> PCs]
          /\ phase' \in [Threads -> Phases]
          /\ want' \in [Threads -> Objects \cup {NULL}]
          /\ wakeRecursion' \in [Threads -> Nat]
      BY <2>1, <2>3 DEF IInv, TypeOK, PCs, Phases
    <2>8. /\ heldAt' \in [Monitors -> Frames \cup {NoFrame}]
          /\ owner' \in [Monitors -> Threads \cup {NULL}]
          /\ recursion' \in [Monitors -> Nat]
      BY <2>1, <2>2 DEF IInv, TypeOK
    <2>9. TypeOK'
      BY <2>1, <2>2, <2>6, <2>7, <2>8 DEF IInv, TypeOK
    <2>10. objMonitor'[o] \in Monitors
      BY <1>2, <2>1 DEF m
    <2>11. CallArguments'
      BY <2>1, <2>10 DEF IInv, TypeOK, CallArguments
    <2>12. RegionsHaveMonitors'
      BY <1>1, <2>1 DEF IInv, TypeOK, RegionsHaveMonitors
    <2>13. LinkedIsOwned'
      BY <1>2, <2>1, <2>2 DEF IInv, TypeOK, LinkedIsOwned
    <2>14. OwnedHasRecursion'
      BY <1>2, <2>1 DEF IInv, TypeOK, OwnedHasRecursion
    <2>15. WaiterKeepsCount'
      BY <2>1, <2>3 DEF IInv, TypeOK, WaiterKeepsCount
    <2>16. QED
      BY <2>9, <2>11, <2>12, <2>13, <2>14, <2>15 DEF IInv
  <1>5. QED
    BY <1>3, <1>4

LEMMA NotifyKeeps ==
  ASSUME IInv, NEW t \in Threads, NEW o \in Objects, NEW n \in Nat, NotifyFirst(t, o, n)
  PROVE  IInv'
  <1> DEFINE m == objMonitor[o]
             k == IF n < Len(waitSet[m]) THEN n ELSE Len(waitSet[m])
  <1>1. pc[t] = "run" /\ Inside(t, o)
    BY DEF NotifyFirst, PassesCheck, Running
  <1>2. m \in Monitors /\ TypeOK
    BY <1>1, InsideMonitor DEF IInv
  <1>3. CASE Die(t)
    BY <1>1, <1>3, DieKeeps
  <1>4. CASE ~Die(t)
    <2>1. /\ waitSet' = [waitSet EXCEPT ![m] = SubSeq(@, k + 1, Len(@))]
          /\ pc' = Signalled(ToSet(SubSeq(waitSet[m], 1, k)))
          /\ UNCHANGED <<phase, want, mon, depth, nest, wakeRecursion, objMonitor,
                         freeMonitors, owner, recursion, ownerObject, heldAt, stale, enterSet>>
      BY <1>4 DEF NotifyFirst, threadVars, objectVars, lockVars
    <2>2. waitSet[m] \in Seq(Threads)
      BY <1>2 DEF TypeOK
    <2>3. k \in Nat
      BY <2>2
    <2> HIDE DEF m, k
    <2>4. SubSeq(waitSet[m], k + 1, Len(waitSet[m])) \in Seq(Threads)
      <3>1. \A j \in (k + 1)..Len(waitSet[m]) : waitSet[m][j] \in Threads
        BY <2>2, <2>3
      <3>2. QED
        BY <2>2, <2>3, <3>1, SubSeqProperties
    <2>5. waitSet' \in [Monitors -> Seq(Threads)]
      BY <1>2, <2>1, <2>4 DEF TypeOK
    <2>6. /\ pc' \in [Threads -> PCs]
          /\ \A u \in Threads : \/ pc'[u] = pc[u]
                                \/ (pc[u] = "parked" /\ pc'[u] = "woken")
      BY <1>2, <2>1, SignalledProperties
    <2>7. TypeOK'
      BY <1>2, <2>1, <2>5, <2>6 DEF TypeOK
    <2>8. CallArguments' /\ RegionsHaveMonitors' /\ WaiterKeepsCount'
      BY <2>1, <2>6, ThreadsKeep
    <2>9. LinkedIsOwned' /\ OwnedHasRecursion'
      BY <2>1 DEF IInv, LinkedIsOwned, OwnedHasRecursion
    <2>10. QED
      BY <2>7, <2>8, <2>9 DEF IInv
  <1>5. QED
    BY <1>3, <1>4

\* Recycling the monitor of an object no thread refers to disturbs no call.
LEMMA MonitorFreeKeeps ==
  ASSUME IInv, NEW o \in Objects, MonitorFree(o)
  PROVE  IInv'
  <1> DEFINE m == objMonitor[o]
  <1>1. /\ m # NULL
        /\ ~Reachable(o)
        /\ objMonitor' = [objMonitor EXCEPT ![o] = NULL]
        /\ ownerObject' = [ownerObject EXCEPT ![m] = NULL]
        /\ UnlinkMonitor(m)
        /\ freeMonitors' = freeMonitors \cup {m}
        /\ UNCHANGED <<pc, phase, want, mon, depth, nest, wakeRecursion, owner, recursion,
                       enterSet, waitSet>>
    BY DEF MonitorFree, threadVars, queueVars
  <1>2. m \in Monitors
    BY <1>1 DEF IInv, TypeOK
  <1> HIDE DEF m
  <1>3. heldAt' = [heldAt EXCEPT ![m] = NoFrame] /\ stale' \in SUBSET Monitors
    BY <1>1, <1>2, UnlinkMonitorType DEF UnlinkMonitor, IInv
  <1>4. TypeOK'
    BY <1>1, <1>2, <1>3 DEF IInv, TypeOK
  <1>5. \A p \in Objects \ {o} : objMonitor'[p] = objMonitor[p]
    BY <1>1 DEF IInv, TypeOK
  <1>6. \A u \in Threads : pc[u] # "dead" => want[u] # o /\ ~Inside(u, o)
    BY <1>1 DEF Reachable
  <1>7. CallArguments'
    BY <1>1, <1>5, <1>6 DEF IInv, CallArguments
  <1>8. RegionsHaveMonitors'
    <2> SUFFICES ASSUME NEW u \in Threads, pc[u] # "dead", NEW i \in DOMAIN nest[u]
                 PROVE  objMonitor'[nest[u][i].obj] \in Monitors
      BY <1>1 DEF RegionsHaveMonitors
    <2>1. nest[u][i].obj # o
      BY <1>6 DEF Inside
    <2>2. nest[u][i].obj \in Objects
      <3>1. nest[u] \in Seq(Regions)
        BY DEF IInv, TypeOK
      <3>2. nest[u][i] \in Regions
        BY <3>1
      <3>3. QED
        BY <3>2 DEF Regions
    <2>3. QED
      BY <1>5, <2>1, <2>2 DEF IInv, RegionsHaveMonitors
  <1>9. LinkedIsOwned'
    BY <1>1, <1>2, <1>3 DEF IInv, TypeOK, LinkedIsOwned
  <1>10. OwnedHasRecursion' /\ WaiterKeepsCount'
    BY <1>1 DEF IInv, OwnedHasRecursion, WaiterKeepsCount
  <1>11. QED
    BY <1>4, <1>7, <1>8, <1>9, <1>10 DEF IInv

----------------------------------------------------------------------------
(* Synchronized methods *)

\* Only calls and returns change phase, depth and nest; all of them keep
\* SyncFrames, whatever the monitors hold.
LEMMA SyncFramesKeeps ==
  ASSUME TypeOK, SyncFrames, [Next]_vars
  PROVE  SyncFrames'
  <1> SUFFICES ASSUME NEW t \in Threads
               PROVE  /\ pc'[t] = "run" => phase'[t] = "none"
                      /\ phase'[t] = "sync" => depth'[t] > 1
                      /\ \A i \in DOMAIN nest'[t] : nest'[t][i].sync => nest'[t][i].at > 1
    BY DEF SyncFrames
  <1>1. /\ pc[t] = "run" => phase[t] = "none"
        /\ phase[t] = "sync" => depth[t] > 1
        /\ \A i \in DOMAIN nest[t] : nest[t][i].sync => nest[t][i].at > 1
    BY DEF SyncFrames
  <1> DEFINE Kept == /\ pc'[t] = "run" => pc[t] = "run"
                     /\ phase'[t] = phase[t]
                     /\ depth'[t] = depth[t]
                     /\ nest'[t] = nest[t]
  <1>2. CASE Kept
    BY <1>1, <1>2
  <1>3. ASSUME NEW u \in Threads, Die(u)
        PROVE  Kept
    <2>1. PICK S : pc' = [Signalled(S) EXCEPT ![u] = "dead"]
      BY <1>3 DEF Die
    <2>2. pc'[t] = "run" => pc[t] = "run"
      BY <2>1, SignalledProperties
    <2>3. QED
      BY <1>3, <2>2 DEF Die, threadVars
  <1>4. ASSUME NEW S, pc' = Signalled(S)
        PROVE  pc'[t] = "run" => pc[t] = "run"
    BY <1>4, SignalledProperties
  <1>5. CASE UNCHANGED vars
    BY <1>2, <1>5 DEF vars, threadVars
  <1>6. ASSUME NEW u \in Threads, NEW o \in Objects, MonitorEnter(u, o)
        PROVE  SyncFrames'
    BY <1>6 DEF MonitorEnter, SyncFrames, TypeOK
  <1>7. ASSUME NEW u \in Threads, NEW o \in Objects, InvokeSync(u, o)
        PROVE  SyncFrames'
    BY <1>7 DEF InvokeSync, PassesCheck, Running, SyncFrames, TypeOK
  <1>8. ASSUME NEW u \in Threads, Invoke(u)
        PROVE  SyncFrames'
    BY <1>8 DEF Invoke, PassesCheck, Running, SyncFrames, TypeOK
  <1>9. ASSUME NEW u \in Threads,
               EnterLoad(u) \/ EnterAlloc(u) \/ EnterQueue(u) \/ Park(u) \/ SpuriousWakeup(u)
        PROVE  Kept
    BY <1>9 DEF EnterLoad, EnterAlloc, EnterQueue, Park, SpuriousWakeup, threadVars, TypeOK
  <1>10. ASSUME NEW u \in Threads, EnterReturn(u)
         PROVE  SyncFrames'
    <2> DEFINE r == [obj |-> want[u], at |-> depth[u], sync |-> phase[u] = "sync"]
    <2>1. r.sync => r.at > 1
      BY DEF SyncFrames
    <2>2. nest' = nest \/ nest' = [nest EXCEPT ![u] = Append(nest[u], r)]
      BY <1>10 DEF EnterReturn
    <2> HIDE DEF r
    <2>3. nest[u] \in Seq(Regions)
      BY DEF TypeOK
    <2>4. \A i \in DOMAIN Append(nest[u], r) :
            (i \in DOMAIN nest[u] /\ Append(nest[u], r)[i] = nest[u][i])
            \/ Append(nest[u], r)[i] = r
      BY <2>3
    <2>5. \A v \in Threads : \A i \in DOMAIN nest'[v] : nest'[v][i].sync => nest'[v][i].at > 1
      BY <2>1, <2>2, <2>4 DEF SyncFrames, TypeOK
    <2>6. \A v \in Threads : /\ pc'[v] = "run" => phase'[v] = "none"
                             /\ phase'[v] = "sync" => depth'[v] > 1
      BY <1>10 DEF EnterReturn, SyncFrames, TypeOK
    <2>7. QED
      BY <2>5, <2>6 DEF SyncFrames
  <1>11. ASSUME NEW u \in Threads, MonitorExit(u), ~Die(u)
         PROVE  SyncFrames'
    <2>1. /\ nest[u] # <<>>
          /\ nest' = LeaveRegion(u)
          /\ UNCHANGED <<phase, depth>>
          /\ Release(u, objMonitor[Innermost(u).obj])
      BY <1>11 DEF MonitorExit, InBlock
    <2>2. pc' = pc \/ \E S : pc' = Signalled(S)
      BY <2>1 DEF Release
    <2>3. \A v \in Threads : pc'[v] = "run" => pc[v] = "run"
      BY <2>2, SignalledProperties
    <2>4. \A v \in Threads : \A i \in DOMAIN nest'[v] :
            i \in DOMAIN nest[v] /\ nest'[v][i] = nest[v][i]
      BY <2>1, LeaveRegionShrinks
    <2>5. QED
      BY <2>1, <2>3, <2>4 DEF SyncFrames
  <1>12. ASSUME NEW u \in Threads, MethodReturn(u)
         PROVE  SyncFrames'
    BY <1>12 DEF MethodReturn, PassesCheck, Running, SyncFrames, TypeOK
  <1>13. ASSUME NEW u \in Threads, SyncMethodReturn(u), ~Die(u)
         PROVE  SyncFrames'
    <2>1. /\ pc[u] = "run"
          /\ nest[u] # <<>>
          /\ nest' = LeaveRegion(u)
          /\ UNCHANGED phase
          /\ depth' = [depth EXCEPT ![u] = @ - 1]
          /\ Release(u, objMonitor[Innermost(u).obj])
      BY <1>13 DEF SyncMethodReturn, InSyncMethod, PassesCheck, Running
    <2>2. pc' = pc \/ \E S : pc' = Signalled(S)
      BY <2>1 DEF Release
    <2>3. \A v \in Threads : pc'[v] = "run" => pc[v] = "run"
      BY <2>2, SignalledProperties
    <2>4. \A v \in Threads : \A i \in DOMAIN nest'[v] :
            i \in DOMAIN nest[v] /\ nest'[v][i] = nest[v][i]
      BY <2>1, LeaveRegionShrinks
    <2>5. \A v \in Threads : phase'[v] = "sync" => depth'[v] > 1
      BY <2>1 DEF SyncFrames, TypeOK
    <2>6. QED
      BY <2>1, <2>3, <2>4, <2>5 DEF SyncFrames
  <1>14. ASSUME NEW u \in Threads, Unwind(u)
         PROVE  SyncFrames'
    <2>1. /\ pc[u] = "run"
          /\ nest' = IF InSyncMethod(u) THEN LeaveRegion(u) ELSE nest
          /\ UNCHANGED phase
          /\ depth' = [depth EXCEPT ![u] = @ - 1]
          /\ \E S : pc' = Signalled(S)
      BY <1>14 DEF Unwind, PassesCheck, Running
    <2>2. \A v \in Threads : pc'[v] = "run" => pc[v] = "run"
      BY <2>1, SignalledProperties
    <2>3. \A v \in Threads : \A i \in DOMAIN nest'[v] :
            i \in DOMAIN nest[v] /\ nest'[v][i] = nest[v][i]
      BY <2>1, LeaveRegionShrinks DEF InSyncMethod
    <2>4. \A v \in Threads : phase'[v] = "sync" => depth'[v] > 1
      BY <2>1 DEF SyncFrames, TypeOK
    <2>5. QED
      BY <2>1, <2>2, <2>3, <2>4 DEF SyncFrames
  <1>15. ASSUME NEW u \in Threads, NEW o \in Objects, ObjectWait(u, o), ~Die(u)
         PROVE  SyncFrames'
    BY <1>15 DEF ObjectWait, PassesCheck, Running, SyncFrames, TypeOK
  <1>16. ASSUME NEW u \in Threads, WaitResume(u)
         PROVE  SyncFrames'
    BY <1>16 DEF WaitResume, SyncFrames, TypeOK
  <1>17. ASSUME NEW u \in Threads, NEW o \in Objects, NEW n, NotifyFirst(u, o, n), ~Die(u)
         PROVE  Kept
    <2>1. UNCHANGED threadVars /\ \E S : pc' = Signalled(S)
      BY <1>17 DEF NotifyFirst
    <2>2. QED
      BY <1>4, <2>1 DEF threadVars
  <1>18. ASSUME NEW o \in Objects, MonitorFree(o)
         PROVE  Kept
    BY <1>18 DEF MonitorFree, threadVars
  <1> HIDE DEF Kept
  <1>19. QED
    BY <1>1, <1>2, <1>3, <1>5, <1>6, <1>7, <1>8, <1>9, <1>10, <1>11, <1>12, <1>13, <1>14,
       <1>15, <1>16, <1>17, <1>18
       DEF Next, SyncFrames, EnterOutOfMemory, EnterAcquire, EnterResume, Notify, NotifyAll

----------------------------------------------------------------------------
(* The inductive step and the theorems *)

LEMMA NextKeeps ==
  ASSUME IInv, SyncFrames, [Next]_vars
  PROVE  IInv' /\ SyncFrames'
  <1>1. SyncFrames'
    BY SyncFramesKeeps DEF IInv
  <1>2. CASE UNCHANGED vars
    <2> USE <1>2 DEF vars, threadVars, objectVars, lockVars, queueVars, IInv
    <2>1. TypeOK'
      BY DEF TypeOK
    <2>2. CallArguments' /\ RegionsHaveMonitors'
      BY DEF CallArguments, RegionsHaveMonitors
    <2>3. LinkedIsOwned' /\ OwnedHasRecursion' /\ WaiterKeepsCount'
      BY DEF LinkedIsOwned, OwnedHasRecursion, WaiterKeepsCount
    <2>4. QED
      BY <1>1, <2>1, <2>2, <2>3
  <1>3. ASSUME NEW t \in Threads, NEW o \in Objects, Notify(t, o) \/ NotifyAll(t, o)
        PROVE  IInv'
    <2>1. pc[t] = "run" /\ Inside(t, o)
      BY <1>3 DEF Notify, NotifyAll, NotifyFirst, PassesCheck, Running
    <2>2. objMonitor[o] \in Monitors
      BY <2>1, InsideMonitor
    <2>3. Len(waitSet[objMonitor[o]]) \in Nat
      BY <2>2 DEF IInv, TypeOK
    <2>4. QED
      BY <1>3, <2>3, NotifyKeeps DEF Notify, NotifyAll
  <1>4. ASSUME NEW t \in Threads, EnterOutOfMemory(t)
        PROVE  IInv'
    BY <1>4, DieKeeps DEF EnterOutOfMemory
  <1>5. QED
    BY <1>1, <1>2, <1>3, <1>4, CallKeeps, ObjectWaitKeeps, SleepKeeps, EnterAllocKeeps,
       EnterAcquireKeeps, EnterQueueKeeps, EnterResumeKeeps, MonitorExitKeeps,
       MethodReturnKeeps, SyncMethodReturnKeeps, UnwindKeeps, MonitorFreeKeeps DEF Next

\* The inductive invariant holds in every reachable state, for any number of
\* threads, objects and monitors and any bounds.
THEOREM Inductive == Spec => [](IInv /\ SyncFrames)
  <1>1. Init => SyncFrames
    BY DEF Init, SyncFrames
  <1>2. QED
    BY <1>1, InitIInv, NextKeeps, PTL DEF Spec

\* Every variable keeps its type; monitor->recursion never becomes negative.
THEOREM TypeCorrect == Spec => []TypeOK
  BY Inductive, PTL DEF IInv

\* frame_unlock_monitors never meets a monitor its thread does not own.
THEOREM LinkedMonitorsAreOwned == Spec => []LinkedIsOwned
  BY Inductive, PTL DEF IInv

\* monitor_exit never decrements a recursion of 0.
THEOREM OwnedMonitorsHaveRecursion == Spec => []OwnedHasRecursion
  BY Inductive, PTL DEF IInv

\* A thread inside monitor_wait never loses the count it has to restore.
THEOREM WaitersKeepTheirCount == Spec => []WaiterKeepsCount
  BY Inductive, PTL DEF IInv

----------------------------------------------------------------------------
(* The queues of the monitors, and MonitorLock *)

\* Objects do not share monitors, and have no free ones.
OneObjectEach ==
  \A o, p \in Objects : objMonitor[o] # NULL =>
    /\ objMonitor[o] \notin freeMonitors
    /\ objMonitor[o] = objMonitor[p] => o = p

\* A thread about to lock a monitor locks one that was made for its object, even if
\* another thread has stored another monitor there since.
LocksItsObject ==
  \A t \in Threads : pc[t] = "lock" =>
    /\ mon[t] \notin freeMonitors
    /\ \A o \in Objects : objMonitor[o] = mon[t] => o = want[t]

Allocated == OneObjectEach /\ LocksItsObject
Queues == NodeInOneList /\ SleeperIsNotOwner

----------------------------------------------------------------------------
(* Queues as sets *)

\* What list_del_init removes, and that nothing else moves.
LEMMA RemoveAtFacts ==
  ASSUME NEW q \in Seq(Threads), NEW i \in 1..Len(q)
  PROVE  /\ RemoveAt(q, i) \in Seq(Threads)
         /\ Len(RemoveAt(q, i)) = Len(q) - 1
         /\ \A j \in 1..Len(q) - 1 : RemoveAt(q, i)[j] = IF j < i THEN q[j] ELSE q[j + 1]
  <1> DEFINE a == SubSeq(q, 1, i - 1)
             b == SubSeq(q, i + 1, Len(q))
  <1>1. Len(q) \in Nat /\ i \in Int /\ \A j \in 1..Len(q) : q[j] \in Threads
    OBVIOUS
  <1>2. /\ a \in Seq(Threads) /\ Len(a) = i - 1
        /\ \A j \in 1..i - 1 : a[j] = q[j]
    <2>1. \A j \in 1..i - 1 : q[j] \in Threads
      BY <1>1
    <2>2. QED
      BY <1>1, <2>1, SubSeqProperties
  <1>3. /\ b \in Seq(Threads) /\ Len(b) = Len(q) - i
        /\ \A j \in 1..Len(q) - i : b[j] = q[i + j]
    <2>1. \A j \in i + 1..Len(q) : q[j] \in Threads
      BY <1>1
    <2>2. /\ b \in Seq(Threads)
          /\ Len(b) = IF i + 1 <= Len(q) THEN Len(q) - (i + 1) + 1 ELSE 0
          /\ \A j \in 1..Len(q) - (i + 1) + 1 : b[j] = q[(i + 1) + j - 1]
      BY <1>1, <2>1, SubSeqProperties
    <2> HIDE DEF b
    <2>3. \A j \in 1..Len(q) - i : j \in 1..Len(q) - (i + 1) + 1 /\ (i + 1) + j - 1 = i + j
      BY <1>1
    <2>4. QED
      BY <1>1, <2>2, <2>3
  <1>4. RemoveAt(q, i) = a \o b
    BY DEF RemoveAt
  <1> HIDE DEF a, b
  <1>5. /\ a \o b \in Seq(Threads) /\ Len(a \o b) = Len(a) + Len(b)
        /\ \A j \in 1..Len(a) + Len(b) : (a \o b)[j] = IF j <= Len(a) THEN a[j] ELSE b[j - Len(a)]
    BY <1>2, <1>3, ConcatProperties
  <1>6. ASSUME NEW j \in 1..Len(q) - 1
        PROVE  (a \o b)[j] = IF j < i THEN q[j] ELSE q[j + 1]
    <2>1. CASE j < i
      BY <1>1, <1>2, <1>3, <1>5, <2>1
    <2>2. CASE ~(j < i)
      <3>1. j - (i - 1) \in 1..Len(q) - i /\ i + (j - (i - 1)) = j + 1
        BY <1>1, <2>2
      <3>2. (a \o b)[j] = b[j - (i - 1)]
        BY <1>1, <1>2, <1>3, <1>5, <2>2
      <3>3. QED
        BY <1>3, <2>2, <3>1, <3>2
    <2>3. QED
      BY <2>1, <2>2
  <1>7. QED
    BY <1>1, <1>2, <1>3, <1>4, <1>5, <1>6

LEMMA UnlinkFacts ==
  ASSUME NEW q \in Seq(Threads), IsInjective(q), NEW t \in Threads
  PROVE  /\ Unlink(q, t) \in Seq(Threads)
         /\ IsInjective(Unlink(q, t))
         /\ ToSet(Unlink(q, t)) = ToSet(q) \ {t}
  <1>1. CASE t \notin ToSet(q)
    BY <1>1 DEF Unlink
  <1>2. CASE t \in ToSet(q)
    <2> DEFINE i == CHOOSE j \in DOMAIN q : q[j] = t
               r == RemoveAt(q, i)
    <2>1. i \in 1..Len(q) /\ q[i] = t /\ Len(q) \in Nat
      BY <1>2 DEF ToSet
    <2>2. Unlink(q, t) = r
      BY <1>2 DEF Unlink
    <2> HIDE DEF i
    <2>3. /\ r \in Seq(Threads) /\ Len(r) = Len(q) - 1
          /\ \A j \in 1..Len(q) - 1 : r[j] = IF j < i THEN q[j] ELSE q[j + 1]
      BY <2>1, RemoveAtFacts
    <2> HIDE DEF r
    <2>4. DOMAIN r = 1..Len(q) - 1 /\ DOMAIN q = 1..Len(q)
      BY <2>3
    <2>5. \A j, k \in 1..Len(q) : q[j] = q[k] => j = k
      BY DEF IsInjective
    <2>6. IsInjective(r)
      <3> SUFFICES ASSUME NEW j \in 1..Len(q) - 1, NEW k \in 1..Len(q) - 1, r[j] = r[k]
                   PROVE  j = k
        BY <2>4 DEF IsInjective
      <3>1. j \in 1..Len(q) /\ j + 1 \in 1..Len(q) /\ k \in 1..Len(q) /\ k + 1 \in 1..Len(q)
        BY <2>1
      <3>2. QED
        BY <2>1, <2>3, <2>5, <3>1
    <2>7. \A u \in ToSet(q) \ {t} : u \in ToSet(r)
      <3> SUFFICES ASSUME NEW j \in 1..Len(q), q[j] # t
                   PROVE  \E k \in 1..Len(q) - 1 : r[k] = q[j]
        BY <2>4 DEF ToSet
      <3>1. CASE j < i
        BY <2>1, <2>3, <3>1
      <3>2. CASE j > i
        <4>1. j - 1 \in 1..Len(q) - 1 /\ ~(j - 1 < i) /\ (j - 1) + 1 = j
          BY <2>1, <3>2
        <4>2. QED
          BY <2>3, <4>1
      <3>3. QED
        BY <2>1, <3>1, <3>2
    <2>8. \A u \in ToSet(r) : u \in ToSet(q) \ {t}
      <3> SUFFICES ASSUME NEW k \in 1..Len(q) - 1
                   PROVE  r[k] # t /\ \E j \in 1..Len(q) : q[j] = r[k]
        BY <2>4 DEF ToSet
      <3>1. k \in 1..Len(q) /\ k + 1 \in 1..Len(q) /\ k # k + 1
        BY <2>1
      <3>2. k < i => k # i
        BY <2>1
      <3>3. ~(k < i) => k + 1 # i
        BY <2>1
      <3>4. QED
        BY <2>1, <2>3, <2>5, <3>1, <3>2, <3>3
    <2>9. QED
      BY <2>2, <2>3, <2>6, <2>7, <2>8
  <1>3. QED
    BY <1>1, <1>2

\* list_add_tail and list_add of a node that was unlinked.
LEMMA LinkFacts ==
  ASSUME NEW q \in Seq(Threads), IsInjective(q), NEW t \in Threads, t \notin ToSet(q)
  PROVE  /\ Append(q, t) \in Seq(Threads) /\ Cons(t, q) \in Seq(Threads)
         /\ IsInjective(Append(q, t)) /\ IsInjective(Cons(t, q))
         /\ ToSet(Append(q, t)) = ToSet(q) \cup {t}
         /\ ToSet(Cons(t, q)) = ToSet(q) \cup {t}
  <1> DEFINE a == Append(q, t)
             c == Cons(t, q)
             n == Len(q)
  <1>1. n \in Nat /\ DOMAIN q = 1..n
    OBVIOUS
  <1>2. /\ a \in Seq(Threads) /\ DOMAIN a = 1..n + 1 /\ a[n + 1] = t
        /\ \A j \in 1..n : a[j] = q[j]
    <2>1. a \in Seq(Threads) /\ Len(a) = n + 1 /\ a[n + 1] = t /\ \A j \in 1..n : a[j] = q[j]
      BY AppendProperties
    <2>2. QED
      BY <2>1
  <1>3. /\ c \in Seq(Threads) /\ DOMAIN c = 1..n + 1 /\ c[1] = t
        /\ \A j \in 1..n : c[j + 1] = q[j]
    <2>1. <<t>> \in Seq(Threads) /\ Len(<<t>>) = 1 /\ <<t>>[1] = t
      OBVIOUS
    <2>2. c = <<t>> \o q
      BY DEF Cons
    <2> HIDE DEF c
    <2>3. /\ c \in Seq(Threads) /\ Len(c) = 1 + n
          /\ \A j \in 1..1 + n : c[j] = IF j <= 1 THEN <<t>>[j] ELSE q[j - 1]
      BY <2>1, <2>2, ConcatProperties
    <2>4. DOMAIN c = 1..n + 1
      BY <1>1, <2>3
    <2>5. \A j \in 1..n : j + 1 \in 1..1 + n /\ ~(j + 1 <= 1) /\ (j + 1) - 1 = j
      BY <1>1
    <2>6. \A j \in 1..n : c[j + 1] = q[j]
      BY <2>3, <2>5
    <2>7. 1 \in 1..1 + n
      BY <1>1
    <2>8. QED
      BY <2>1, <2>3, <2>4, <2>6, <2>7
  <1>4. /\ \A j, k \in 1..n : q[j] = q[k] => j = k
        /\ \A j \in 1..n : q[j] # t
    BY <1>1 DEF IsInjective, ToSet
  <1> HIDE DEF a, c, n
  <1>5. \A j \in 1..n + 1 : j = n + 1 \/ j \in 1..n
    BY <1>1
  <1>6. \A j \in 1..n + 1 : j = 1 \/ (j - 1 \in 1..n /\ (j - 1) + 1 = j)
    BY <1>1
  <1>7. IsInjective(a)
    BY <1>2, <1>4, <1>5 DEF IsInjective
  <1>8. IsInjective(c)
    <2> SUFFICES ASSUME NEW j \in 1..n + 1, NEW k \in 1..n + 1, c[j] = c[k]
                 PROVE  j = k
      BY <1>3 DEF IsInjective
    <2>1. j # 1 => j - 1 \in 1..n /\ c[j] = q[j - 1]
      BY <1>3, <1>6
    <2>2. k # 1 => k - 1 \in 1..n /\ c[k] = q[k - 1]
      BY <1>3, <1>6
    <2>3. QED
      BY <1>1, <1>3, <1>4, <2>1, <2>2
  <1>9. ToSet(a) = ToSet(q) \cup {t}
    BY <1>1, <1>2, <1>5 DEF ToSet
  <1>10. ToSet(c) = ToSet(q) \cup {t}
    <2>1. /\ \A u : u \in ToSet(c) <=> \E j \in 1..n + 1 : c[j] = u
          /\ \A u : u \in ToSet(q) <=> \E j \in 1..n : q[j] = u
      BY <1>1, <1>3 DEF ToSet
    <2>2. ASSUME NEW j \in 1..n
          PROVE  q[j] \in ToSet(c)
      <3>1. j + 1 \in 1..n + 1
        BY <1>1
      <3>2. QED
        BY <1>3, <2>1, <3>1
    <2>3. t \in ToSet(c)
      <3>1. 1 \in 1..n + 1
        BY <1>1
      <3>2. QED
        BY <1>3, <2>1, <3>1
    <2>4. ASSUME NEW j \in 1..n + 1, j # 1
          PROVE  c[j] \in ToSet(q)
      <3>1. j - 1 \in 1..n /\ c[j] = q[j - 1]
        BY <1>3, <1>6, <2>4
      <3>2. QED
        BY <2>1, <3>1
    <2>5. \A u \in ToSet(c) : u \in ToSet(q) \cup {t}
      BY <1>3, <2>1, <2>4
    <2>6. \A u \in ToSet(q) : u \in ToSet(c)
      BY <2>1, <2>2
    <2>7. QED
      BY <2>3, <2>5, <2>6
  <1>11. QED
    BY <1>2, <1>3, <1>7, <1>8, <1>9, <1>10 DEF a, c

\* Who is woken, the first k, leaves the queue.
LEMMA WakeFacts ==
  ASSUME NEW q \in Seq(Threads), IsInjective(q), NEW k \in 0..Len(q)
  PROVE  LET rest == SubSeq(q, k + 1, Len(q))
             woken == SubSeq(q, 1, k)
         IN  /\ rest \in Seq(Threads)
             /\ IsInjective(rest)
             /\ ToSet(woken) \subseteq ToSet(q)
             /\ ToSet(rest) = ToSet(q) \ ToSet(woken)
             /\ k # 0 => ToSet(woken) # {}
  <1> DEFINE rest == SubSeq(q, k + 1, Len(q))
             woken == SubSeq(q, 1, k)
             n == Len(q)
  <1>1. n \in Nat /\ DOMAIN q = 1..n /\ k \in 0..n /\ k \in Int /\ \A j \in 1..n : q[j] \in Threads
    OBVIOUS
  <1>2. /\ rest \in Seq(Threads) /\ DOMAIN rest = 1..n - k
        /\ \A j \in 1..n - k : rest[j] = q[k + j]
    <2>1. \A j \in k + 1..n : q[j] \in Threads
      BY <1>1
    <2>2. /\ rest \in Seq(Threads)
          /\ Len(rest) = IF k + 1 <= n THEN n - (k + 1) + 1 ELSE 0
          /\ \A j \in 1..n - (k + 1) + 1 : rest[j] = q[(k + 1) + j - 1]
      BY <1>1, <2>1, SubSeqProperties
    <2> HIDE DEF rest, n
    <2>3. Len(rest) = n - k
      BY <1>1, <2>2
    <2>4. \A j \in 1..n - k : j \in 1..n - (k + 1) + 1 /\ (k + 1) + j - 1 = k + j
      BY <1>1
    <2>5. QED
      BY <2>2, <2>3, <2>4
  <1>3. DOMAIN woken = 1..k /\ \A j \in 1..k : woken[j] = q[j]
    <2>1. \A j \in 1..k : q[j] \in Threads
      BY <1>1
    <2>2. /\ woken \in Seq(Threads)
          /\ Len(woken) = IF 1 <= k THEN k - 1 + 1 ELSE 0
          /\ \A j \in 1..k - 1 + 1 : woken[j] = q[1 + j - 1]
      BY <1>1, <2>1, SubSeqProperties
    <2> HIDE DEF woken
    <2>3. Len(woken) = k
      BY <1>1, <2>2
    <2>4. \A j \in 1..k : j \in 1..k - 1 + 1 /\ 1 + j - 1 = j
      BY <1>1
    <2>5. QED
      BY <2>2, <2>3, <2>4
  <1> HIDE DEF rest, woken, n
  <1>4. \A i, j \in 1..n : q[i] = q[j] => i = j
    BY <1>1 DEF IsInjective
  <1>5. \A j \in 1..n - k : k + j \in 1..n /\ k + j \notin 1..k
    BY <1>1
  <1>6. IsInjective(rest)
    <2> SUFFICES ASSUME NEW i \in 1..n - k, NEW j \in 1..n - k, rest[i] = rest[j]
                 PROVE  i = j
      BY <1>2 DEF IsInjective
    <2>1. k + i = k + j
      BY <1>2, <1>4, <1>5
    <2>2. QED
      BY <1>1, <2>1
  <1>7. \A j \in 1..k : j \in 1..n
    BY <1>1
  <1>8. ToSet(woken) \subseteq ToSet(q)
    BY <1>1, <1>3, <1>7 DEF ToSet
  <1>9. ToSet(rest) = ToSet(q) \ ToSet(woken)
    <2>1. /\ \A u : u \in ToSet(rest) <=> \E j \in 1..n - k : rest[j] = u
          /\ \A u : u \in ToSet(woken) <=> \E j \in 1..k : woken[j] = u
          /\ \A u : u \in ToSet(q) <=> \E j \in 1..n : q[j] = u
      BY <1>1, <1>2, <1>3 DEF ToSet
    <2>2. ASSUME NEW j \in 1..n - k
          PROVE  rest[j] \in ToSet(q) \ ToSet(woken)
      <3>1. rest[j] = q[k + j] /\ k + j \in 1..n
        BY <1>2, <1>5
      <3>2. \A i \in 1..k : i \in 1..n /\ i # k + j
        BY <1>5, <1>7
      <3>3. \A i \in 1..k : woken[i] # q[k + j]
        BY <1>3, <1>4, <3>1, <3>2
      <3>4. QED
        BY <2>1, <3>1, <3>3
    <2>3. ASSUME NEW i \in 1..n, q[i] \notin ToSet(woken)
          PROVE  \E j \in 1..n - k : rest[j] = q[i]
      <3>1. i \notin 1..k
        BY <1>3, <2>1, <2>3
      <3>2. i - k \in 1..n - k /\ k + (i - k) = i
        BY <1>1, <3>1
      <3>3. QED
        BY <1>2, <3>2
    <2>4. \A u \in ToSet(rest) : u \in ToSet(q) \ ToSet(woken)
      BY <2>1, <2>2
    <2>5. \A u \in ToSet(q) \ ToSet(woken) : u \in ToSet(rest)
      BY <2>1, <2>3
    <2>6. QED
      BY <2>4, <2>5
  <1>10. k # 0 => ToSet(woken) # {}
    <2>1. k # 0 => 1 \in 1..k
      BY <1>1
    <2>2. QED
      BY <1>3, <2>1 DEF ToSet
  <1>11. QED
    BY <1>2, <1>6, <1>8, <1>9, <1>10 DEF rest, woken, n

\* The last monitor_exit wakes the head of enter_set.
LEMMA WakeFirstFacts ==
  ASSUME NEW q \in Seq(Threads), IsInjective(q), q # <<>>
  PROVE  /\ Tail(q) \in Seq(Threads)
         /\ IsInjective(Tail(q))
         /\ Head(q) \in ToSet(q)
         /\ ToSet(Tail(q)) = ToSet(q) \ {Head(q)}
  <1>1. Len(q) \in Nat \ {0} /\ 1 \in 0..Len(q) /\ DOMAIN q = 1..Len(q) /\ 1 \in 1..Len(q)
    OBVIOUS
  <1>2. Head(q) = q[1]
    BY <1>1
  <1>3. Tail(q) = SubSeq(q, 1 + 1, Len(q))
    BY <1>1, TailIsSubSeq
  <1>4. ToSet(SubSeq(q, 1, 1)) = {q[1]}
    <2>1. /\ DOMAIN SubSeq(q, 1, 1) = 1..1 /\ \A j \in 1..1 : SubSeq(q, 1, 1)[j] = q[j]
      BY <1>1
    <2>2. \A j \in 1..1 : j = 1
      OBVIOUS
    <2>3. 1 \in 1..1
      OBVIOUS
    <2>4. QED
      BY <2>1, <2>2, <2>3 DEF ToSet
  <1>5. Head(q) \in ToSet(q)
    BY <1>1, <1>2 DEF ToSet
  <1>6. /\ SubSeq(q, 1 + 1, Len(q)) \in Seq(Threads) /\ IsInjective(SubSeq(q, 1 + 1, Len(q)))
        /\ ToSet(SubSeq(q, 1 + 1, Len(q))) = ToSet(q) \ ToSet(SubSeq(q, 1, 1))
    BY ONLY <1>1, WakeFacts, q \in Seq(Threads), IsInjective(q)
  <1>7. QED
    BY ONLY <1>2, <1>3, <1>4, <1>5, <1>6

LEMMA EmptyQueue ==
  /\ <<>> \in Seq(Threads) /\ IsInjective(<<>>) /\ ToSet(<<>>) = {}
  BY DEF IsInjective, ToSet

LEMMA EmptyIsEmpty ==
  ASSUME NEW q \in Seq(Threads), ToSet(q) = {}
  PROVE  q = <<>>
  <1>1. DOMAIN q = 1..Len(q) /\ Len(q) \in Nat
    OBVIOUS
  <1>2. \A i \in 1..Len(q) : FALSE
    BY <1>1 DEF ToSet
  <1>3. Len(q) = 0
    BY <1>1, <1>2
  <1>4. QED
    BY <1>3

----------------------------------------------------------------------------
(* How steps change the queues *)

Asleep == {"toPark", "parked"}

\* No queue gains a thread, nobody falls asleep, and no sleeper gets a monitor.
LEMMA ShrinkKeeps ==
  ASSUME Queues,
         \A m \in Monitors :
           /\ IsInjective(enterSet'[m]) /\ ToSet(enterSet'[m]) \subseteq ToSet(enterSet[m])
           /\ IsInjective(waitSet'[m]) /\ ToSet(waitSet'[m]) \subseteq ToSet(waitSet[m]),
         \A u \in Threads : pc'[u] \in Asleep =>
           pc[u] \in Asleep /\ \A m \in Monitors : owner'[m] = u => owner[m] = u
  PROVE  Queues'
  <1>1. NodeInOneList'
    <2> SUFFICES ASSUME NEW m \in Monitors, NEW n \in Monitors
                 PROVE  /\ ToSet(enterSet'[m]) \cap ToSet(waitSet'[n]) = {}
                        /\ m # n => /\ ToSet(enterSet'[m]) \cap ToSet(enterSet'[n]) = {}
                                    /\ ToSet(waitSet'[m]) \cap ToSet(waitSet'[n]) = {}
      BY DEF NodeInOneList
    <2>1. /\ ToSet(enterSet[m]) \cap ToSet(waitSet[n]) = {}
          /\ m # n => /\ ToSet(enterSet[m]) \cap ToSet(enterSet[n]) = {}
                      /\ ToSet(waitSet[m]) \cap ToSet(waitSet[n]) = {}
      BY DEF Queues, NodeInOneList
    <2>2. QED
      BY <2>1
  <1>2. SleeperIsNotOwner'
    BY DEF Queues, SleeperIsNotOwner, Asleep
  <1>3. QED
    BY <1>1, <1>2 DEF Queues

\* One thread that does not own m is moved to one queue of m, if to any.
LEMMA RequeueKeeps ==
  ASSUME Queues, NEW t \in Threads, NEW m \in Monitors,
         \A n \in Monitors :
           /\ IsInjective(enterSet'[n]) /\ ToSet(enterSet'[n]) \ {t} \subseteq ToSet(enterSet[n])
           /\ IsInjective(waitSet'[n]) /\ ToSet(waitSet'[n]) \ {t} \subseteq ToSet(waitSet[n])
           /\ t \in ToSet(enterSet'[n]) \cup ToSet(waitSet'[n]) => n = m,
         t \notin ToSet(enterSet'[m]) \cap ToSet(waitSet'[m]),
         owner'[m] # t,
         \A u \in Threads \ {t} : pc'[u] = pc[u],
         \A u \in Threads \ {t}, n \in Monitors : owner'[n] = u => owner[n] = u
  PROVE  Queues'
  <1>1. NodeInOneList'
    <2> SUFFICES ASSUME NEW k \in Monitors, NEW n \in Monitors
                 PROVE  /\ ToSet(enterSet'[k]) \cap ToSet(waitSet'[n]) = {}
                        /\ k # n => /\ ToSet(enterSet'[k]) \cap ToSet(enterSet'[n]) = {}
                                    /\ ToSet(waitSet'[k]) \cap ToSet(waitSet'[n]) = {}
      BY DEF NodeInOneList
    <2>1. /\ ToSet(enterSet[k]) \cap ToSet(waitSet[n]) = {}
          /\ k # n => /\ ToSet(enterSet[k]) \cap ToSet(enterSet[n]) = {}
                      /\ ToSet(waitSet[k]) \cap ToSet(waitSet[n]) = {}
      BY DEF Queues, NodeInOneList
    <2>2. QED
      BY <2>1
  <1>2. SleeperIsNotOwner'
    <2> SUFFICES ASSUME NEW u \in Threads, NEW n \in Monitors, pc'[u] \in Asleep,
                        u \in ToSet(enterSet'[n]) \cup ToSet(waitSet'[n])
                 PROVE  owner'[n] # u
      BY DEF SleeperIsNotOwner, Asleep
    <2>1. CASE u = t
      BY <2>1
    <2>2. CASE u # t
      <3>1. u \in ToSet(enterSet[n]) \cup ToSet(waitSet[n]) /\ pc[u] \in Asleep
        BY <2>2
      <3>2. owner[n] # u
        BY <3>1 DEF Queues, SleeperIsNotOwner, Asleep
      <3>3. QED
        BY <2>2, <3>2
    <2>3. QED
      BY <2>1, <2>2
  <1>3. QED
    BY <1>1, <1>2 DEF Queues

----------------------------------------------------------------------------
(* Steps, seen from the abstract monitors *)

AbstractStep == [Abstract!Next]_(Abstract!vars)

\* A step that touches no owner and no queue, and puts nobody to sleep.
LEMMA QuietQueues ==
  ASSUME Queues, UNCHANGED <<owner, enterSet, waitSet>>,
         \A u \in Threads : pc'[u] \in Asleep => pc[u] \in Asleep
  PROVE  Queues'
  BY ShrinkKeeps DEF Queues, NodeInOneList

\* monitor_alloc, monitor_free and the load of object->monitor apart, no step
\* changes which monitor belongs to which object, or sends a thread to lock one.
LEMMA AllocatedStays ==
  ASSUME Allocated, UNCHANGED <<objMonitor, freeMonitors>>,
         \A u \in Threads : pc'[u] = "lock" =>
           pc[u] = "lock" /\ mon'[u] = mon[u] /\ want'[u] = want[u]
  PROVE  Allocated'
  BY DEF Allocated, OneObjectEach, LocksItsObject

\* The elements of the queues are threads.
LEMMA QueueElements ==
  ASSUME TypeOK, NEW m \in Monitors
  PROVE  /\ enterSet[m] \in Seq(Threads) /\ ToSet(enterSet[m]) \in SUBSET Threads
         /\ waitSet[m] \in Seq(Threads) /\ ToSet(waitSet[m]) \in SUBSET Threads
  <1>1. enterSet[m] \in Seq(Threads) /\ waitSet[m] \in Seq(Threads)
    BY DEF TypeOK
  <1>2. ASSUME NEW q \in Seq(Threads)
        PROVE  ToSet(q) \in SUBSET Threads
    BY DEF ToSet
  <1>3. QED
    BY <1>1, <1>2

\* The forced exit of monitors one thread owns wakes all who are blocked there.
LEMMA ForceExitSteps ==
  ASSUME TypeOK, Queues, NEW t \in Threads, NEW S \in SUBSET Monitors,
         \A m \in S : owner[m] = t, ForceExit(S), UNCHANGED freeMonitors,
         \A u \in Threads : pc'[u] \in Asleep => pc[u] \in Asleep
  PROVE  Queues' /\ AbstractStep
  <1>1. /\ owner' = [m \in Monitors |-> IF m \in S THEN NULL ELSE owner[m]]
        /\ enterSet' = [m \in Monitors |-> IF m \in S THEN <<>> ELSE enterSet[m]]
        /\ waitSet' = waitSet
    BY DEF ForceExit
  <1>2. Queues'
    <2>1. \A m \in Monitors :
            /\ IsInjective(enterSet'[m]) /\ ToSet(enterSet'[m]) \subseteq ToSet(enterSet[m])
            /\ IsInjective(waitSet'[m]) /\ ToSet(waitSet'[m]) \subseteq ToSet(waitSet[m])
      BY <1>1, EmptyQueue DEF Queues, NodeInOneList
    <2>2. \A u \in Threads, m \in Monitors : owner'[m] = u => owner[m] = u
      BY <1>1, MonitorAssumption
    <2>3. QED
      BY <2>1, <2>2, ShrinkKeeps
  <1>3. CASE S = {}
    <2>1. owner' = owner /\ enterSet' = enterSet
      BY <1>1, <1>3 DEF TypeOK
    <2>2. UNCHANGED Abstract!vars
      BY <1>1, <2>1 DEF Abstract!vars
    <2>3. QED
      BY <1>2, <2>2 DEF AbstractStep
  <1>4. CASE S # {}
    <2> DEFINE awake == [m \in S |-> ToSet(enterSet[m])]
    <2>1. awake \in [S -> SUBSET Threads]
      BY QueueElements
    <2>2. [m \in Monitors |-> ToSet(enterSet'[m])] =
            [m \in Monitors |-> IF m \in S THEN ToSet(enterSet[m]) \ awake[m]
                                ELSE ToSet(enterSet[m])]
      BY <1>1, EmptyQueue
    <2>3. Abstract!Unlock(t, S)
      <3> DEFINE entering == [m \in Monitors |-> ToSet(enterSet[m])]
      <3>1. \A m \in S : /\ awake[m] \subseteq entering[m]
                         /\ entering[m] # {} => awake[m] # {}
        OBVIOUS
      <3>2. entering' = [m \in Monitors |-> IF m \in S THEN entering[m] \ awake[m]
                                            ELSE entering[m]]
        BY <2>2
      <3> HIDE DEF awake, entering
      <3>3. \E a \in [S -> SUBSET Threads] :
              /\ \A m \in S : a[m] \subseteq entering[m] /\ (entering[m] # {} => a[m] # {})
              /\ entering' = [m \in Monitors |-> IF m \in S THEN entering[m] \ a[m]
                                                 ELSE entering[m]]
        BY <2>1, <3>1, <3>2
      <3>4. QED
        BY <1>1, <1>4, <3>3 DEF Abstract!Unlock, entering
    <2>4. QED
      BY <1>2, <2>3 DEF AbstractStep, Abstract!Next
  <1>5. QED
    BY <1>3, <1>4

\* What a dying thread and a frame being left hold belongs to that thread.
LEMMA HeldAreOwned ==
  ASSUME LinkedIsOwned, NEW t \in Threads, NEW d, NEW m \in HeldIn(<<t, d>>)
  PROVE  owner[m] = t
  <1>1. m \in Monitors /\ heldAt[m] = <<t, d>>
    BY DEF HeldIn
  <1>2. heldAt[m] # NoFrame
    BY <1>1, MonitorAssumption DEF NoFrame
  <1>3. QED
    BY <1>1, <1>2 DEF LinkedIsOwned

LEMMA DieSteps ==
  ASSUME IInv, Allocated, Queues, NEW t \in Threads, Die(t)
  PROVE  Allocated' /\ Queues' /\ AbstractStep
  <1> DEFINE S == UNION {HeldIn(<<t, d>>) : d \in 1..depth[t]}
  <1>1. ForceExit(S) /\ pc' = [Signalled(ForceWoken(S)) EXCEPT ![t] = "dead"]
    BY DEF Die
  <1>2. UNCHANGED <<want, mon, objMonitor, freeMonitors>>
    BY DEF Die, threadVars, objectVars
  <1>3. S \in SUBSET Monitors /\ \A m \in S : owner[m] = t
    <2>1. S \in SUBSET Monitors
      BY DEF HeldIn
    <2>2. QED
      BY <2>1, HeldAreOwned DEF IInv
  <1> HIDE DEF S
  <1>4. TypeOK
    BY DEF IInv
  <1>5. \A u \in Threads : pc'[u] = pc[u] \/ pc'[u] \in {"woken", "dead"}
    BY <1>1, <1>4, SignalledProperties
  <1>6. Allocated'
    BY <1>2, <1>5, AllocatedStays
  <1>7. QED
    BY <1>1, <1>2, <1>3, <1>4, <1>5, <1>6, ForceExitSteps DEF Asleep

LEMMA UnwindSteps ==
  ASSUME IInv, Allocated, Queues, NEW t \in Threads, Unwind(t)
  PROVE  Allocated' /\ Queues' /\ AbstractStep
  <1> DEFINE S == HeldIn(<<t, depth[t] - 1>>)
  <1>1. ForceExit(S) /\ pc' = Signalled(ForceWoken(S))
    BY DEF Unwind
  <1>2. UNCHANGED <<want, mon, objMonitor, freeMonitors>>
    BY DEF Unwind, objectVars
  <1>3. S \in SUBSET Monitors /\ \A m \in S : owner[m] = t
    <2>1. S \in SUBSET Monitors
      BY DEF HeldIn
    <2>2. QED
      BY <2>1, HeldAreOwned DEF IInv
  <1> HIDE DEF S
  <1>4. TypeOK
    BY DEF IInv
  <1>5. \A u \in Threads : pc'[u] = pc[u] \/ pc'[u] = "woken"
    BY <1>1, <1>4, SignalledProperties
  <1>6. Allocated'
    BY <1>2, <1>5, AllocatedStays
  <1>7. QED
    BY <1>1, <1>2, <1>3, <1>4, <1>5, <1>6, ForceExitSteps DEF Asleep

\* monitor_exit by the owner.
LEMMA ReleaseSteps ==
  ASSUME TypeOK, Queues, NEW t \in Threads, NEW m \in Monitors, owner[m] = t,
         Release(t, m), UNCHANGED freeMonitors
  PROVE  /\ Queues' /\ AbstractStep
         /\ \A u \in Threads : pc'[u] = pc[u] \/ pc'[u] = "woken"
  <1>1. CASE recursion[m] # 1
    <2>1. UNCHANGED <<pc, owner, enterSet, waitSet, freeMonitors>>
      BY <1>1 DEF Release
    <2>2. Queues'
      BY <2>1, QuietQueues
    <2>3. UNCHANGED Abstract!vars
      BY <2>1 DEF Abstract!vars
    <2>4. QED
      BY <2>1, <2>2, <2>3 DEF AbstractStep
  <1>2. CASE recursion[m] = 1
    <2>1. /\ owner' = [owner EXCEPT ![m] = NULL]
          /\ enterSet' = [enterSet EXCEPT ![m] = IF @ = <<>> THEN @ ELSE Tail(@)]
          /\ pc' = Signalled(FirstToEnter(m))
          /\ waitSet' = waitSet
      BY <1>2 DEF Release
    <2>2. \A u \in Threads : pc'[u] = pc[u] \/ pc'[u] = "woken"
      BY <2>1, SignalledProperties
    <2>3. enterSet[m] \in Seq(Threads) /\ IsInjective(enterSet[m])
      BY DEF TypeOK, Queues, NodeInOneList
    <2>4. PICK w \in SUBSET ToSet(enterSet[m]) :
            /\ IsInjective(enterSet'[m])
            /\ ToSet(enterSet'[m]) = ToSet(enterSet[m]) \ w
            /\ ToSet(enterSet[m]) # {} => w # {}
      <3>1. CASE enterSet[m] = <<>>
        <4>1. enterSet'[m] = <<>> /\ ToSet(enterSet[m]) = {}
          BY <2>1, <3>1, EmptyQueue DEF TypeOK
        <4>2. QED
          BY <4>1, EmptyQueue
      <3>2. CASE enterSet[m] # <<>>
        <4>1. enterSet'[m] = Tail(enterSet[m])
          BY <2>1, <3>2 DEF TypeOK
        <4>2. /\ IsInjective(Tail(enterSet[m]))
              /\ Head(enterSet[m]) \in ToSet(enterSet[m])
              /\ ToSet(Tail(enterSet[m])) = ToSet(enterSet[m]) \ {Head(enterSet[m])}
          BY ONLY <2>3, <3>2, WakeFirstFacts
        <4>3. {Head(enterSet[m])} \in SUBSET ToSet(enterSet[m]) /\ {Head(enterSet[m])} # {}
          BY <4>2
        <4>4. QED
          BY <4>1, <4>2, <4>3
      <3>3. QED
        BY <3>1, <3>2
    <2>5. \A n \in Monitors \ {m} : enterSet'[n] = enterSet[n] /\ owner'[n] = owner[n]
      BY <2>1 DEF TypeOK
    <2>6. Queues'
      <3>1. \A n \in Monitors :
              /\ IsInjective(enterSet'[n]) /\ ToSet(enterSet'[n]) \subseteq ToSet(enterSet[n])
              /\ IsInjective(waitSet'[n]) /\ ToSet(waitSet'[n]) \subseteq ToSet(waitSet[n])
        BY <2>1, <2>4, <2>5 DEF Queues, NodeInOneList
      <3>2. \A u \in Threads, n \in Monitors : owner'[n] = u => owner[n] = u
        BY <2>1, <2>5, MonitorAssumption DEF TypeOK
      <3>3. QED
        BY <2>2, <3>1, <3>2, ShrinkKeeps DEF Asleep
    <2>7. Abstract!Unlock(t, {m})
      <3> DEFINE entering == [n \in Monitors |-> ToSet(enterSet[n])]
                 awake == [n \in {m} |-> w]
      <3>1. awake \in [{m} -> SUBSET Threads]
        BY QueueElements
      <3>2. \A n \in {m} : /\ awake[n] \subseteq entering[n]
                           /\ entering[n] # {} => awake[n] # {}
        BY <2>4
      <3>3. entering' = [n \in Monitors |-> IF n \in {m} THEN entering[n] \ awake[n]
                                            ELSE entering[n]]
        BY <2>4, <2>5
      <3> HIDE DEF awake, entering
      <3>4. \E a \in [{m} -> SUBSET Threads] :
              /\ \A n \in {m} : a[n] \subseteq entering[n] /\ (entering[n] # {} => a[n] # {})
              /\ entering' = [n \in Monitors |-> IF n \in {m} THEN entering[n] \ a[n]
                                                 ELSE entering[n]]
        BY <3>1, <3>2, <3>3
      <3>5. owner' = [n \in Monitors |-> IF n \in {m} THEN NULL ELSE owner[n]]
        BY <2>1 DEF TypeOK
      <3>6. QED
        BY <2>1, <3>4, <3>5 DEF Abstract!Unlock, entering
    <2>8. QED
      BY <2>2, <2>6, <2>7 DEF AbstractStep, Abstract!Next
  <1>3. QED
    BY <1>1, <1>2

LEMMA ExitSteps ==
  ASSUME IInv, Allocated, Queues, NEW t \in Threads, MonitorExit(t) \/ SyncMethodReturn(t)
  PROVE  Allocated' /\ Queues' /\ AbstractStep
  <1> DEFINE m == objMonitor[Innermost(t).obj]
  <1>1. pc[t] = "run" /\ nest[t] # <<>>
    BY DEF MonitorExit, SyncMethodReturn, PassesCheck, Running, InBlock, InSyncMethod
  <1>2. m \in Monitors /\ TypeOK
    BY <1>1, InnermostMonitor DEF IInv
  <1>3. CASE Die(t)
    BY <1>3, DieSteps
  <1>4. CASE ~Die(t)
    <2>1. /\ owner[m] = t
          /\ Release(t, m)
          /\ UNCHANGED <<want, mon, objMonitor, freeMonitors>>
      BY <1>4 DEF MonitorExit, SyncMethodReturn, Owns, objectVars
    <2> HIDE DEF m
    <2>2. /\ Queues' /\ AbstractStep
          /\ \A u \in Threads : pc'[u] = pc[u] \/ pc'[u] = "woken"
      BY <1>2, <2>1, ReleaseSteps
    <2>3. Allocated'
      BY <2>1, <2>2, AllocatedStays
    <2>4. QED
      BY <2>2, <2>3
  <1>5. QED
    BY <1>3, <1>4

\* Calls, returns, parking and waking up are nothing to the abstract monitors.
LEMMA QuietSteps ==
  ASSUME IInv, Allocated, Queues, NEW t \in Threads,
         \/ \E o \in Objects : MonitorEnter(t, o) \/ InvokeSync(t, o)
         \/ Invoke(t) \/ EnterResume(t) \/ Park(t) \/ SpuriousWakeup(t)
         \/ MethodReturn(t) \/ WaitResume(t)
  PROVE  Allocated' /\ Queues' /\ AbstractStep
  <1>1. UNCHANGED <<owner, enterSet, waitSet, objMonitor, freeMonitors>>
    BY DEF MonitorEnter, InvokeSync, Invoke, EnterResume, Park, SpuriousWakeup, MethodReturn,
           WaitResume, lockVars, queueVars, objectVars
  <1>2. \A u \in Threads : /\ pc'[u] \in Asleep => pc[u] \in Asleep
                           /\ pc'[u] = "lock" => pc[u] = "lock" /\ mon'[u] = mon[u]
                                                 /\ want'[u] = want[u]
    BY DEF IInv, TypeOK, MonitorEnter, InvokeSync, Invoke, EnterResume, EnterReturn, Park,
           SpuriousWakeup, MethodReturn, WaitResume, threadVars, Asleep
  <1>3. Allocated' /\ Queues'
    BY <1>1, <1>2, AllocatedStays, QuietQueues
  <1>4. UNCHANGED Abstract!vars
    BY <1>1 DEF Abstract!vars
  <1>5. QED
    BY <1>3, <1>4 DEF AbstractStep

LEMMA EnterLoadSteps ==
  ASSUME IInv, Allocated, Queues, NEW t \in Threads, EnterLoad(t)
  PROVE  Allocated' /\ Queues' /\ AbstractStep
  <1>1. /\ pc[t] = "load"
        /\ UNCHANGED <<want, owner, enterSet, waitSet, objMonitor, freeMonitors>>
    BY DEF EnterLoad, lockVars, queueVars, objectVars
  <1>2. \A u \in Threads \ {t} : pc'[u] = pc[u] /\ mon'[u] = mon[u]
    BY DEF EnterLoad, IInv, TypeOK
  <1>3. /\ pc'[t] \in {"alloc", "lock"}
        /\ pc'[t] = "lock" => mon'[t] = objMonitor[want[t]] /\ objMonitor[want[t]] # NULL
    BY DEF EnterLoad, IInv, TypeOK
  <1>4. want[t] \in Objects
    BY <1>1 DEF IInv, CallArguments
  <1>5. OneObjectEach'
    BY <1>1 DEF Allocated, OneObjectEach
  <1>6. LocksItsObject'
    <2> SUFFICES ASSUME NEW u \in Threads, pc'[u] = "lock"
                 PROVE  /\ mon'[u] \notin freeMonitors
                        /\ \A o \in Objects : objMonitor[o] = mon'[u] => o = want[u]
      BY <1>1 DEF LocksItsObject
    <2>1. CASE u = t
      BY <1>3, <1>4, <2>1 DEF Allocated, OneObjectEach
    <2>2. CASE u # t
      BY <1>2, <2>2 DEF Allocated, LocksItsObject
    <2>3. QED
      BY <2>1, <2>2
  <1>7. \A u \in Threads : pc'[u] \in Asleep => pc[u] \in Asleep
    BY <1>2, <1>3 DEF Asleep
  <1>8. Queues'
    BY <1>1, <1>7, QuietQueues
  <1>9. UNCHANGED Abstract!vars
    BY <1>1 DEF Abstract!vars
  <1>10. QED
    BY <1>5, <1>6, <1>8, <1>9 DEF Allocated, AbstractStep

\* The object is given a monitor no other object has and no thread is about to lock.
LEMMA EnterAllocSteps ==
  ASSUME IInv, Allocated, Queues, NEW t \in Threads, EnterAlloc(t)
  PROVE  Allocated' /\ Queues' /\ AbstractStep
  <1>1. PICK m \in freeMonitors :
          /\ freeMonitors' = freeMonitors \ {m}
          /\ objMonitor' = [objMonitor EXCEPT ![want[t]] = m]
          /\ owner' = [owner EXCEPT ![m] = NULL]
          /\ enterSet' = [enterSet EXCEPT ![m] = <<>>]
          /\ waitSet' = [waitSet EXCEPT ![m] = <<>>]
    BY DEF EnterAlloc
  <1>2. /\ pc[t] = "alloc" /\ pc' = [pc EXCEPT ![t] = "load"] /\ UNCHANGED <<want, mon>>
    BY DEF EnterAlloc, threadVars
  <1>3. m \in Monitors /\ want[t] \in Objects
    BY <1>2 DEF IInv, TypeOK, CallArguments
  <1>4. /\ objMonitor'[want[t]] = m
        /\ \A o \in Objects \ {want[t]} : objMonitor'[o] = objMonitor[o]
    BY <1>1, <1>3 DEF IInv, TypeOK
  <1>5. \A o \in Objects : objMonitor[o] # m
    BY <1>3, MonitorAssumption DEF Allocated, OneObjectEach
  <1>6. OneObjectEach'
    <2> SUFFICES ASSUME NEW o \in Objects, NEW p \in Objects, objMonitor'[o] # NULL
                 PROVE  /\ objMonitor'[o] \notin freeMonitors'
                        /\ objMonitor'[o] = objMonitor'[p] => o = p
      BY DEF OneObjectEach
    <2>1. objMonitor'[o] \notin freeMonitors'
      BY <1>1, <1>4 DEF Allocated, OneObjectEach
    <2>2. objMonitor'[o] = objMonitor'[p] => o = p
      BY <1>4, <1>5 DEF Allocated, OneObjectEach
    <2>3. QED
      BY <2>1, <2>2
  <1>7. LocksItsObject'
    <2> SUFFICES ASSUME NEW u \in Threads, pc'[u] = "lock"
                 PROVE  /\ mon[u] \notin freeMonitors'
                        /\ \A o \in Objects : objMonitor'[o] = mon[u] => o = want[u]
      BY <1>2 DEF LocksItsObject
    <2>1. pc[u] = "lock"
      BY <1>2 DEF IInv, TypeOK
    <2>2. mon[u] \notin freeMonitors /\ \A o \in Objects : objMonitor[o] = mon[u] => o = want[u]
      BY <2>1 DEF Allocated, LocksItsObject
    <2>3. QED
      BY <1>1, <1>4, <2>2
  <1>8. Queues'
    <2>1. \A n \in Monitors :
            /\ IsInjective(enterSet'[n]) /\ ToSet(enterSet'[n]) \subseteq ToSet(enterSet[n])
            /\ IsInjective(waitSet'[n]) /\ ToSet(waitSet'[n]) \subseteq ToSet(waitSet[n])
      BY <1>1, EmptyQueue DEF IInv, TypeOK, Queues, NodeInOneList
    <2>2. \A u \in Threads, n \in Monitors : owner'[n] = u => owner[n] = u
      BY <1>1, MonitorAssumption DEF IInv, TypeOK
    <2>3. \A u \in Threads : pc'[u] \in Asleep => pc[u] \in Asleep
      BY <1>2 DEF IInv, TypeOK, Asleep
    <2>4. QED
      BY <2>1, <2>2, <2>3, ShrinkKeeps
  <1>9. Abstract!Alloc(m)
    <2> DEFINE entering == [n \in Monitors |-> ToSet(enterSet[n])]
               waiting == [n \in Monitors |-> ToSet(waitSet[n])]
    <2>1. entering' = [entering EXCEPT ![m] = {}]
      BY <1>1, EmptyQueue DEF IInv, TypeOK
    <2>2. waiting' = [waiting EXCEPT ![m] = {}]
      BY <1>1, EmptyQueue DEF IInv, TypeOK
    <2>3. QED
      BY <1>1, <2>1, <2>2 DEF Abstract!Alloc
  <1>10. QED
    BY <1>3, <1>6, <1>7, <1>8, <1>9 DEF Allocated, AbstractStep, Abstract!Next

\* A monitor granted is free of an owner, or its owner enters once more.
LEMMA EnterAcquireSteps ==
  ASSUME IInv, Allocated, Queues, NEW t \in Threads, EnterAcquire(t)
  PROVE  Allocated' /\ Queues' /\ AbstractStep
  <1> DEFINE m == mon[t]
  <1>1. /\ pc[t] = "lock"
        /\ owner[m] = NULL \/ owner[m] = t
        /\ owner' = [owner EXCEPT ![m] = t]
        /\ UNCHANGED <<objMonitor, freeMonitors, enterSet, waitSet>>
    BY DEF EnterAcquire, MayEnter, objectVars, queueVars
  <1>2. /\ pc'[t] = "run"
        /\ \A u \in Threads \ {t} : /\ pc'[u] = pc[u] /\ mon'[u] = mon[u]
                                    /\ want'[u] = want[u]
    BY DEF EnterAcquire, EnterReturn, IInv, TypeOK
  <1>3. m \in Monitors /\ m \notin freeMonitors
    BY <1>1 DEF IInv, CallArguments, Allocated, LocksItsObject
  <1> HIDE DEF m
  <1>4. Allocated'
    BY <1>1, <1>2, AllocatedStays
  <1>5. Queues'
    <2>1. \A n \in Monitors \ {m} : owner'[n] = owner[n]
      BY <1>1 DEF IInv, TypeOK
    <2>2. owner'[m] = t
      BY <1>1, <1>3 DEF IInv, TypeOK
    <2>3. \A u \in Threads : pc'[u] \in Asleep =>
            pc[u] \in Asleep /\ \A n \in Monitors : owner'[n] = u => owner[n] = u
      BY <1>2, <2>1, <2>2 DEF Asleep
    <2>4. \A n \in Monitors : IsInjective(enterSet'[n]) /\ IsInjective(waitSet'[n])
      BY <1>1 DEF Queues, NodeInOneList
    <2>5. QED
      BY <1>1, <2>3, <2>4, ShrinkKeeps
  <1>6. CASE owner[m] = NULL
    <2>1. Abstract!Lock(t, m)
      BY <1>1, <1>3, <1>6 DEF Abstract!Lock
    <2>2. QED
      BY <1>3, <1>4, <1>5, <2>1 DEF AbstractStep, Abstract!Next
  <1>7. CASE owner[m] = t
    <2>1. owner' = owner
      BY <1>1, <1>7 DEF IInv, TypeOK
    <2>2. UNCHANGED Abstract!vars
      BY <1>1, <2>1 DEF Abstract!vars
    <2>3. QED
      BY <1>4, <1>5, <2>2 DEF AbstractStep
  <1>8. QED
    BY <1>1, <1>6, <1>7

\* A thread refused leaves every queue and joins the enter_set of the monitor.
LEMMA EnterQueueSteps ==
  ASSUME IInv, Allocated, Queues, NEW t \in Threads, EnterQueue(t)
  PROVE  Allocated' /\ Queues' /\ AbstractStep
  <1> DEFINE m == mon[t]
  <1>1. /\ pc[t] = "lock"
        /\ owner[m] # NULL /\ owner[m] # t
        /\ enterSet' = [n \in Monitors |-> IF n = m
                          THEN Append(Unlink(enterSet[n], t), t) ELSE Unlink(enterSet[n], t)]
        /\ waitSet' = [n \in Monitors |-> Unlink(waitSet[n], t)]
        /\ pc' = [pc EXCEPT ![t] = "toPark"]
        /\ UNCHANGED <<want, mon, owner, objMonitor, freeMonitors>>
    BY DEF EnterQueue, MayEnter, threadVars, objectVars, lockVars
  <1>2. m \in Monitors /\ m \notin freeMonitors
    BY <1>1 DEF IInv, CallArguments, Allocated, LocksItsObject
  <1> HIDE DEF m
  <1>3. /\ pc'[t] = "toPark"
        /\ \A u \in Threads \ {t} : pc'[u] = pc[u]
    BY <1>1 DEF IInv, TypeOK
  <1>4. \A n \in Monitors :
          /\ Unlink(enterSet[n], t) \in Seq(Threads) /\ Unlink(waitSet[n], t) \in Seq(Threads)
          /\ IsInjective(Unlink(enterSet[n], t)) /\ IsInjective(Unlink(waitSet[n], t))
          /\ ToSet(Unlink(enterSet[n], t)) = ToSet(enterSet[n]) \ {t}
          /\ ToSet(Unlink(waitSet[n], t)) = ToSet(waitSet[n]) \ {t}
    <2>1. \A n \in Monitors : /\ enterSet[n] \in Seq(Threads) /\ IsInjective(enterSet[n])
                              /\ waitSet[n] \in Seq(Threads) /\ IsInjective(waitSet[n])
      BY QueueElements DEF IInv, Queues, NodeInOneList
    <2>2. QED
      BY <2>1, UnlinkFacts
  <1>5. /\ IsInjective(enterSet'[m])
        /\ ToSet(enterSet'[m]) = ToSet(enterSet[m]) \cup {t}
    <2>1. t \notin ToSet(Unlink(enterSet[m], t))
      BY <1>2, <1>4
    <2>2. /\ IsInjective(Append(Unlink(enterSet[m], t), t))
          /\ ToSet(Append(Unlink(enterSet[m], t), t)) = ToSet(Unlink(enterSet[m], t)) \cup {t}
      BY <1>2, <1>4, <2>1, LinkFacts
    <2>3. enterSet'[m] = Append(Unlink(enterSet[m], t), t)
      BY <1>1, <1>2
    <2>4. QED
      BY <1>2, <1>4, <2>2, <2>3
  <1>6. \A n \in Monitors \ {m} :
          /\ IsInjective(enterSet'[n])
          /\ ToSet(enterSet'[n]) = ToSet(enterSet[n]) \ {t}
    BY <1>1, <1>4
  <1>7. \A n \in Monitors :
          /\ IsInjective(waitSet'[n])
          /\ ToSet(waitSet'[n]) = ToSet(waitSet[n]) \ {t}
    BY <1>1, <1>4
  <1>8. Allocated'
    BY <1>1, <1>3, AllocatedStays
  <1>9. Queues'
    <2>1. \A n \in Monitors :
            /\ IsInjective(enterSet'[n]) /\ ToSet(enterSet'[n]) \ {t} \subseteq ToSet(enterSet[n])
            /\ IsInjective(waitSet'[n]) /\ ToSet(waitSet'[n]) \ {t} \subseteq ToSet(waitSet[n])
            /\ t \in ToSet(enterSet'[n]) \cup ToSet(waitSet'[n]) => n = m
      BY <1>5, <1>6, <1>7
    <2>2. owner'[m] # t /\ t \notin ToSet(enterSet'[m]) \cap ToSet(waitSet'[m])
      BY <1>1, <1>2, <1>7
    <2>3. \A u \in Threads \ {t}, n \in Monitors : owner'[n] = u => owner[n] = u
      BY <1>1
    <2>4. QED
      BY ONLY Queues, t \in Threads, <1>2, <1>3, <2>1, <2>2, <2>3, RequeueKeeps
  <1>10. Abstract!Block(t, m)
    <2> DEFINE entering == [n \in Monitors |-> ToSet(enterSet[n])]
               waiting == [n \in Monitors |-> ToSet(waitSet[n])]
    <2>1. entering' = [n \in Monitors |-> IF n \in {m} THEN entering[n] \cup {t}
                                          ELSE entering[n] \ {t}]
      BY <1>5, <1>6
    <2>2. waiting' = [n \in Monitors |-> IF n \in {} THEN waiting[n] \cup {t}
                                         ELSE waiting[n] \ {t}]
      BY <1>7
    <2>3. QED
      BY <1>1, <1>2, <2>1, <2>2 DEF Abstract!Block, Abstract!Requeued
  <1>11. QED
    BY <1>2, <1>8, <1>9, <1>10 DEF AbstractStep, Abstract!Next

\* monitor_wait gives the monitor up, and its thread joins the wait_set.
LEMMA ObjectWaitSteps ==
  ASSUME IInv, Allocated, Queues, NEW t \in Threads, NEW o \in Objects, ObjectWait(t, o)
  PROVE  Allocated' /\ Queues' /\ AbstractStep
  <1> DEFINE m == objMonitor[o]
  <1>1. pc[t] = "run" /\ Inside(t, o)
    BY DEF ObjectWait, PassesCheck, Running
  <1>2. m \in Monitors /\ m \notin freeMonitors
    BY <1>1, InsideMonitor, MonitorAssumption DEF Allocated, OneObjectEach
  <1>3. CASE Die(t)
    BY <1>3, DieSteps
  <1>4. CASE ~Die(t)
    <2>1. /\ owner[m] = t
          /\ owner' = [owner EXCEPT ![m] = NULL]
          /\ enterSet' = [n \in Monitors |-> Unlink(enterSet[n], t)]
          /\ waitSet' = [n \in Monitors |-> IF n = m
                           THEN Cons(t, Unlink(waitSet[n], t)) ELSE Unlink(waitSet[n], t)]
          /\ pc' = [pc EXCEPT ![t] = "toPark"]
          /\ want' = [want EXCEPT ![t] = o]
          /\ UNCHANGED <<mon, objMonitor, freeMonitors>>
      BY <1>4 DEF ObjectWait, Owns, objectVars
    <2> HIDE DEF m
    <2>2. /\ pc'[t] = "toPark"
          /\ \A u \in Threads \ {t} : pc'[u] = pc[u] /\ want'[u] = want[u]
      BY <2>1 DEF IInv, TypeOK
    <2>3. \A n \in Monitors :
            /\ Unlink(enterSet[n], t) \in Seq(Threads) /\ Unlink(waitSet[n], t) \in Seq(Threads)
            /\ IsInjective(Unlink(enterSet[n], t)) /\ IsInjective(Unlink(waitSet[n], t))
            /\ ToSet(Unlink(enterSet[n], t)) = ToSet(enterSet[n]) \ {t}
            /\ ToSet(Unlink(waitSet[n], t)) = ToSet(waitSet[n]) \ {t}
      <3>1. \A n \in Monitors : /\ enterSet[n] \in Seq(Threads) /\ IsInjective(enterSet[n])
                                /\ waitSet[n] \in Seq(Threads) /\ IsInjective(waitSet[n])
        BY QueueElements DEF IInv, Queues, NodeInOneList
      <3>2. QED
        BY <3>1, UnlinkFacts
    <2>4. /\ IsInjective(waitSet'[m])
          /\ ToSet(waitSet'[m]) = ToSet(waitSet[m]) \cup {t}
      <3>1. t \notin ToSet(Unlink(waitSet[m], t))
        BY <1>2, <2>3
      <3>2. /\ IsInjective(Cons(t, Unlink(waitSet[m], t)))
            /\ ToSet(Cons(t, Unlink(waitSet[m], t))) = ToSet(Unlink(waitSet[m], t)) \cup {t}
        BY <1>2, <2>3, <3>1, LinkFacts
      <3>3. waitSet'[m] = Cons(t, Unlink(waitSet[m], t))
        BY <1>2, <2>1
      <3>4. QED
        BY <1>2, <2>3, <3>2, <3>3
    <2>5. \A n \in Monitors \ {m} :
            /\ IsInjective(waitSet'[n])
            /\ ToSet(waitSet'[n]) = ToSet(waitSet[n]) \ {t}
      BY <2>1, <2>3
    <2>6. \A n \in Monitors :
            /\ IsInjective(enterSet'[n])
            /\ ToSet(enterSet'[n]) = ToSet(enterSet[n]) \ {t}
      BY <2>1, <2>3
    <2>7. Allocated'
      BY <2>1, <2>2, AllocatedStays
    <2>8. owner'[m] # t /\ \A u \in Threads, n \in Monitors : owner'[n] = u => owner[n] = u
      BY <1>2, <2>1, MonitorAssumption DEF IInv, TypeOK
    <2>9. Queues'
      <3>1. \A n \in Monitors :
              /\ IsInjective(enterSet'[n]) /\ ToSet(enterSet'[n]) \ {t} \subseteq ToSet(enterSet[n])
              /\ IsInjective(waitSet'[n]) /\ ToSet(waitSet'[n]) \ {t} \subseteq ToSet(waitSet[n])
              /\ t \in ToSet(enterSet'[n]) \cup ToSet(waitSet'[n]) => n = m
        BY <2>4, <2>5, <2>6
      <3>2. m \in Monitors /\ t \notin ToSet(enterSet'[m]) \cap ToSet(waitSet'[m])
        BY <1>2, <2>6 DEF m
      <3>3. /\ \A u \in Threads \ {t} : pc'[u] = pc[u]
            /\ \A u \in Threads \ {t}, n \in Monitors : owner'[n] = u => owner[n] = u
        BY <2>2, <2>8
      <3>4. QED
        BY ONLY Queues, t \in Threads, <2>8, <3>1, <3>2, <3>3, RequeueKeeps
    <2>10. Abstract!Wait(t, m)
      <3> DEFINE entering == [n \in Monitors |-> ToSet(enterSet[n])]
                 waiting == [n \in Monitors |-> ToSet(waitSet[n])]
      <3>1. entering' = [n \in Monitors |-> IF n \in {} THEN entering[n] \cup {t}
                                            ELSE entering[n] \ {t}]
        BY <2>6
      <3>2. waiting' = [n \in Monitors |-> IF n \in {m} THEN waiting[n] \cup {t}
                                           ELSE waiting[n] \ {t}]
        BY <2>4, <2>5
      <3>3. QED
        BY <1>2, <2>1, <3>1, <3>2 DEF Abstract!Wait, Abstract!Requeued, m
    <2>11. QED
      BY <1>2, <2>7, <2>9, <2>10 DEF AbstractStep, Abstract!Next, m
  <1>5. QED
    BY <1>3, <1>4

\* monitor_notify and monitor_notifyAll.
LEMMA NotifySteps ==
  ASSUME IInv, Allocated, Queues, NEW t \in Threads, NEW o \in Objects, NEW n \in Nat,
         n = 1 \/ n = Len(waitSet[objMonitor[o]]), NotifyFirst(t, o, n)
  PROVE  Allocated' /\ Queues' /\ AbstractStep
  <1> DEFINE m == objMonitor[o]
             q == waitSet[m]
             k == IF n < Len(q) THEN n ELSE Len(q)
  <1>1. pc[t] = "run" /\ Inside(t, o)
    BY DEF NotifyFirst, PassesCheck, Running
  <1>2. m \in Monitors /\ m \notin freeMonitors
    BY <1>1, InsideMonitor, MonitorAssumption DEF Allocated, OneObjectEach
  <1>3. CASE Die(t)
    BY <1>3, DieSteps
  <1>4. CASE ~Die(t)
    <2>1. /\ owner[m] = t
          /\ waitSet' = [waitSet EXCEPT ![m] = SubSeq(q, k + 1, Len(q))]
          /\ pc' = Signalled(ToSet(SubSeq(q, 1, k)))
          /\ UNCHANGED <<want, mon, objMonitor, freeMonitors, owner, enterSet>>
      BY <1>4 DEF NotifyFirst, Owns, threadVars, objectVars, lockVars
    <2>2. q \in Seq(Threads) /\ IsInjective(q) /\ Len(q) \in Nat
      BY <1>2 DEF IInv, TypeOK, Queues, NodeInOneList
    <2>3. k \in 0..Len(q) /\ (q # <<>> => k # 0)
      BY <2>2
    <2> DEFINE woken == ToSet(SubSeq(q, 1, k))
               rest == SubSeq(q, k + 1, Len(q))
    <2> HIDE DEF q, k
    <2>4. /\ IsInjective(rest)
          /\ woken \subseteq ToSet(q)
          /\ ToSet(rest) = ToSet(q) \ woken
          /\ k # 0 => woken # {}
      BY ONLY <2>2, <2>3, WakeFacts
    <2>5. waitSet'[m] = rest
      BY <1>2, <2>1 DEF IInv, TypeOK
    <2> HIDE DEF woken, rest, m
    <2>6. \A u \in Threads : pc'[u] = pc[u] \/ pc'[u] = "woken"
      BY <2>1, SignalledProperties DEF IInv
    <2>7. Allocated'
      BY <2>1, <2>6, AllocatedStays
    <2>8. \A i \in Monitors \ {m} : waitSet'[i] = waitSet[i]
      BY <2>1 DEF IInv, TypeOK
    <2>9. Queues'
      <3>1. \A i \in Monitors :
              /\ IsInjective(enterSet'[i]) /\ ToSet(enterSet'[i]) \subseteq ToSet(enterSet[i])
              /\ IsInjective(waitSet'[i]) /\ ToSet(waitSet'[i]) \subseteq ToSet(waitSet[i])
        BY <2>1, <2>4, <2>5, <2>8 DEF Queues, NodeInOneList, q
      <3>2. \A u \in Threads : pc'[u] \in Asleep =>
              pc[u] \in Asleep /\ \A i \in Monitors : owner'[i] = u => owner[i] = u
        BY <2>1, <2>6 DEF Asleep
      <3>3. QED
        BY <3>1, <3>2, ShrinkKeeps
    <2>10. Abstract!Notify(t, m)
      <3> DEFINE waiting == [i \in Monitors |-> ToSet(waitSet[i])]
      <3>1. waiting[m] = ToSet(q)
        BY <1>2 DEF q, m
      <3>2. waiting[m] # {} => woken # {}
        BY <2>3, <2>4, <3>1, EmptyQueue
      <3>3. waiting' = [waiting EXCEPT ![m] = waiting[m] \ woken]
        BY <2>4, <2>5, <2>8, <3>1
      <3>4. woken \in SUBSET waiting[m]
        BY <2>4, <3>1
      <3> HIDE DEF waiting
      <3>5. \E awake \in SUBSET waiting[m] :
              /\ waiting[m] # {} => awake # {}
              /\ waiting' = [waiting EXCEPT ![m] = @ \ awake]
        BY <3>2, <3>3, <3>4
      <3>6. QED
        BY <1>2, <2>1, <3>5 DEF Abstract!Notify, waiting, m
    <2>11. QED
      BY <1>2, <2>7, <2>9, <2>10 DEF AbstractStep, Abstract!Next, m
  <1>5. QED
    BY <1>3, <1>4

\* The collector takes a monitor from an object no live thread is about to lock.
LEMMA MonitorFreeSteps ==
  ASSUME IInv, Allocated, Queues, NEW o \in Objects, MonitorFree(o)
  PROVE  Allocated' /\ Queues' /\ AbstractStep
  <1> DEFINE m == objMonitor[o]
  <1>1. /\ m # NULL
        /\ ~Reachable(o)
        /\ objMonitor' = [objMonitor EXCEPT ![o] = NULL]
        /\ freeMonitors' = freeMonitors \cup {m}
        /\ UNCHANGED <<pc, want, mon, owner, enterSet, waitSet>>
    BY DEF MonitorFree, threadVars, queueVars
  <1>2. m \in Monitors
    BY <1>1 DEF IInv, TypeOK
  <1> HIDE DEF m
  <1>3. objMonitor'[o] = NULL /\ \A p \in Objects \ {o} : objMonitor'[p] = objMonitor[p]
    BY <1>1 DEF IInv, TypeOK
  <1>4. \A p \in Objects \ {o} : objMonitor[p] # m
    BY <1>1 DEF Allocated, OneObjectEach, m
  <1>5. OneObjectEach'
    <2> SUFFICES ASSUME NEW a \in Objects, NEW b \in Objects, objMonitor'[a] # NULL
                 PROVE  /\ objMonitor'[a] \notin freeMonitors'
                        /\ objMonitor'[a] = objMonitor'[b] => a = b
      BY DEF OneObjectEach
    <2>1. a # o
      BY <1>3
    <2>2. QED
      BY <1>1, <1>3, <1>4, <2>1 DEF Allocated, OneObjectEach
  <1>6. LocksItsObject'
    <2> SUFFICES ASSUME NEW u \in Threads, pc[u] = "lock"
                 PROVE  /\ mon[u] \notin freeMonitors'
                        /\ \A p \in Objects : objMonitor'[p] = mon[u] => p = want[u]
      BY <1>1 DEF LocksItsObject
    <2>1. /\ mon[u] \notin freeMonitors
          /\ \A p \in Objects : objMonitor[p] = mon[u] => p = want[u]
      BY DEF Allocated, LocksItsObject
    <2>2. want[u] # o
      BY <1>1 DEF Reachable
    <2>3. mon[u] # m
      BY <2>1, <2>2 DEF m
    <2>4. mon[u] # NULL
      BY MonitorAssumption DEF IInv, CallArguments
    <2>5. QED
      BY <1>1, <1>3, <2>1, <2>3, <2>4
  <1>7. Queues'
    BY <1>1, QuietQueues
  <1>8. Abstract!Free(m)
    BY <1>1 DEF Abstract!Free
  <1>9. QED
    BY <1>2, <1>5, <1>6, <1>7, <1>8 DEF Allocated, AbstractStep, Abstract!Next

----------------------------------------------------------------------------
(* The theorems *)

LEMMA InitQueues == Init => Allocated /\ Queues /\ Abstract!Init
  <1> SUFFICES ASSUME Init PROVE Allocated /\ Queues /\ Abstract!Init
    OBVIOUS
  <1>1. Allocated
    BY DEF Init, Allocated, OneObjectEach, LocksItsObject
  <1>2. Queues
    BY EmptyQueue DEF Init, Queues, NodeInOneList, SleeperIsNotOwner
  <1>3. Abstract!Init
    BY EmptyQueue DEF Init, Abstract!Init
  <1>4. QED
    BY <1>1, <1>2, <1>3

LEMMA NextSteps ==
  ASSUME IInv, Allocated, Queues, [Next]_vars
  PROVE  Allocated' /\ Queues' /\ AbstractStep
  <1>1. CASE UNCHANGED vars
    <2>1. UNCHANGED <<pc, want, mon, owner, enterSet, waitSet, objMonitor, freeMonitors>>
      BY <1>1 DEF vars, threadVars, objectVars, lockVars, queueVars
    <2>2. Allocated' /\ Queues'
      BY <2>1, AllocatedStays, QuietQueues
    <2>3. UNCHANGED Abstract!vars
      BY <2>1 DEF Abstract!vars
    <2>4. QED
      BY <2>2, <2>3 DEF AbstractStep
  <1>2. ASSUME NEW t \in Threads, NEW o \in Objects, Notify(t, o) \/ NotifyAll(t, o)
        PROVE  Allocated' /\ Queues' /\ AbstractStep
    <2>1. pc[t] = "run" /\ Inside(t, o)
      BY <1>2 DEF Notify, NotifyAll, NotifyFirst, PassesCheck, Running
    <2>2. objMonitor[o] \in Monitors
      BY <2>1, InsideMonitor
    <2>3. Len(waitSet[objMonitor[o]]) \in Nat
      BY <2>2 DEF IInv, TypeOK
    <2>4. QED
      BY <1>2, <2>3, NotifySteps DEF Notify, NotifyAll
  <1>3. ASSUME NEW t \in Threads, EnterOutOfMemory(t)
        PROVE  Allocated' /\ Queues' /\ AbstractStep
    BY <1>3, DieSteps DEF EnterOutOfMemory
  <1>4. QED
    BY <1>1, <1>2, <1>3, QuietSteps, ObjectWaitSteps, EnterLoadSteps, EnterAllocSteps,
       EnterAcquireSteps, EnterQueueSteps, ExitSteps, UnwindSteps, MonitorFreeSteps DEF Next

\* Together with IInv, the invariant of the queues is inductive.
THEOREM QueuesInductive == Spec => [](IInv /\ Allocated /\ Queues)
  <1>1. IInv /\ Allocated /\ Queues /\ [Next]_vars => Allocated' /\ Queues'
    BY NextSteps
  <1>2. QED
    BY <1>1, InitQueues, Inductive, PTL DEF Spec

\* Two threads that find object->monitor NULL both allocate one, and one store is
\* lost; still no monitor is ever shared by two objects, and none is recycled while
\* an object has it.
THEOREM MonitorsAreNotShared == Spec => []OneObjectEach
  BY QueuesInductive, PTL DEF Allocated

\* A thread's list node is in at most one enter_set or wait_set, once, although a
\* thread that woke up spuriously runs on while it is queued.
THEOREM NodesAreInOneList == Spec => []NodeInOneList
  BY QueuesInductive, PTL DEF Queues

\* No thread sleeps in a queue of a monitor it owns.
THEOREM SleepersAreNotOwners == Spec => []SleeperIsNotOwner
  BY QueuesInductive, PTL DEF Queues

\* Every critical section of monitor.c is a step of the abstract monitors: only the
\* holder gives a monitor up, waits on it or notifies; giving it up wakes somebody
\* if anybody is blocked; none is reset while an object has it.
THEOREM MonitorsImplementLock == Spec => ImplementsLock
  <1>1. IInv /\ Allocated /\ Queues /\ [Next]_vars => AbstractStep
    BY NextSteps
  <1>2. Init => Abstract!Init
    BY InitQueues
  <1>3. QED
    BY <1>1, <1>2, QueuesInductive, PTL
       DEF Spec, ImplementsLock, Abstract!Spec, AbstractStep

=============================================================================
