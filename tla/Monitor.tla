------------------------------ MODULE Monitor ------------------------------
(***************************************************************************)
(* Object monitors of the JEspressoVM (monitor.c) as the interpreter uses  *)
(* them: MONITORENTER and MONITOREXIT, synchronized methods, Object.wait,  *)
(* notify and notifyAll, the forced release of monitors while an exception *)
(* unwinds frames or a thread dies, and the recycling of monitors of       *)
(* objects the collector found dead.                                       *)
(*                                                                         *)
(* A step is one critical section under a monitor's spinlock, or one       *)
(* access to object->monitor, which no lock guards.  Between the release   *)
(* of the spinlock and pthread_cond_wait a thread is in pc "toPark": a     *)
(* signal sent then is lost, since the wait tests no predicate.            *)
(*                                                                         *)
(* Not in this module: the safepoints of collections (thread_safepoint_check *)
(* stops a thread here only behind a dying one) and the addresses of objects. *)
(***************************************************************************)
EXTENDS Naturals, SequencesExt

CONSTANTS
  Threads,       \* Java threads, each running a structured program
  Objects,       \* heap slots that hold an object
  Monitors,      \* monitors that fit in the permanent arena
  NULL,          \* the null pointer
  MaxDepth,      \* bound: frames of one thread
  MaxNest,       \* bound: synchronized regions one thread is inside of
  MaxRecursion   \* bound: monitor->recursion

ASSUME MonitorAssumption ==
  /\ NULL \notin Threads \cup Objects \cup Monitors
  /\ MaxDepth \in Nat \ {0}
  /\ MaxNest \in Nat
  /\ MaxRecursion \in Nat

VARIABLES
  pc,             \* where the thread is in the code
  phase,          \* which call of monitor_enter or monitor_wait it executes
  want,           \* the object argument of that call
  mon,            \* the local variable `monitor` of monitor_enter
  depth,          \* number of frames on the thread's interpreter stack
  nest,           \* the regions the program entered: object, frame, kind
  wakeRecursion,  \* Thread_t.wake_recursion
  objMonitor,     \* Object_t.monitor
  freeMonitors,   \* s_free_monitors and what the permanent arena still holds
  owner,          \* Monitor_t.owner
  recursion,      \* Monitor_t.recursion
  ownerObject,    \* Monitor_t.owner_object
  heldAt,         \* the frame whose held_monitors Monitor_t.list is linked to
  stale,          \* monitors linked to a frame that has been popped
  enterSet,       \* Monitor_t.enter_set, first to be woken first
  waitSet         \* Monitor_t.wait_set, first to be notified first

threadVars  == <<phase, want, mon, depth, nest>>
objectVars  == <<objMonitor, freeMonitors>>
lockVars    == <<owner, recursion, ownerObject, heldAt, stale>>
queueVars   == <<enterSet, waitSet>>
vars == <<pc, threadVars, wakeRecursion, objectVars, lockVars, queueVars>>

Frames  == Threads \X (1..MaxDepth)
NoFrame == <<NULL, 0>>
Regions == [obj : Objects, at : 1..MaxDepth, sync : BOOLEAN]

PCs    == {"run", "load", "alloc", "lock", "toPark", "parked", "woken", "dead"}
Phases == {"none", "enter", "sync", "wait", "rewait"}

TypeOK ==
  /\ pc \in [Threads -> PCs]
  /\ phase \in [Threads -> Phases]
  /\ want \in [Threads -> Objects \cup {NULL}]
  /\ mon \in [Threads -> Monitors \cup {NULL}]
  /\ depth \in [Threads -> 1..MaxDepth]
  /\ nest \in [Threads -> Seq(Regions)]
  /\ wakeRecursion \in [Threads -> Nat]
  /\ objMonitor \in [Objects -> Monitors \cup {NULL}]
  /\ freeMonitors \in SUBSET Monitors
  /\ owner \in [Monitors -> Threads \cup {NULL}]
  /\ recursion \in [Monitors -> Nat]
  /\ ownerObject \in [Monitors -> Objects \cup {NULL}]
  /\ heldAt \in [Monitors -> Frames \cup {NoFrame}]
  /\ stale \in SUBSET Monitors
  /\ enterSet \in [Monitors -> Seq(Threads)]
  /\ waitSet \in [Monitors -> Seq(Threads)]

Init ==
  /\ pc = [t \in Threads |-> "run"]
  /\ phase = [t \in Threads |-> "none"]
  /\ want = [t \in Threads |-> NULL]
  /\ mon = [t \in Threads |-> NULL]
  /\ depth = [t \in Threads |-> 1]
  /\ nest = [t \in Threads |-> <<>>]
  /\ wakeRecursion = [t \in Threads |-> 0]
  /\ objMonitor = [o \in Objects |-> NULL]
  /\ freeMonitors = Monitors
  /\ owner = [m \in Monitors |-> NULL]
  /\ recursion = [m \in Monitors |-> 0]
  /\ ownerObject = [m \in Monitors |-> NULL]
  /\ heldAt = [m \in Monitors |-> NoFrame]
  /\ stale = {}
  /\ enterSet = [m \in Monitors |-> <<>>]
  /\ waitSet = [m \in Monitors |-> <<>>]

----------------------------------------------------------------------------
(* Lists and signals *)

\* Mutant: the node is linked into a list without being unlinked first.
UnlinkForgotten(q, t) == q

\* list_del_init of a thread's node, wherever in the list it is.
Unlink(q, t) ==
  IF t \in ToSet(q) THEN RemoveAt(q, CHOOSE i \in DOMAIN q : q[i] = t) ELSE q

\* thread_notify_send: only a thread inside pthread_cond_wait notices.
Signalled(S) ==
  [u \in Threads |-> IF u \in S /\ pc[u] = "parked" THEN "woken" ELSE pc[u]]

\* The monitors a walk over the frame's held_monitors list meets.
HeldIn(f) == {m \in Monitors \ stale : heldAt[m] = f}

\* list_del_init of a monitor's node.  The frames of a thread lie in one arena,
\* so a node that still points at a popped frame may point at the list head of
\* the frame now at that place: the write then empties that frame's list.
StaleAfterUnlink(m) ==
  {stale \ {m}} \cup
  (IF m \in stale /\ heldAt[m][2] <= depth[heldAt[m][1]]
   THEN {(stale \cup HeldIn(heldAt[m])) \ {m}} ELSE {})

\* Mutant: the monitor is left in held_monitors.
UnlinkMonitorForgotten(m) == UNCHANGED <<heldAt, stale>>

UnlinkMonitor(m) ==
  /\ heldAt' = [heldAt EXCEPT ![m] = NoFrame]
  /\ stale' \in StaleAfterUnlink(m)

\* Mutants: nobody checks the owner; the lock is not reentrant; the count a
\* waiter saved is restored whether or not there is one; it is saved too late.
OwnsUnchecked(t, m) == TRUE
MayEnterUnlessOwned(t, m) == owner[m] = NULL
CountAlwaysRestored(t, m) == wakeRecursion[t]
CountSavedAfterReset(m) == 0

\* The tests and counts of monitor_enter, monitor_exit and monitor_wait.
Owns(t, m) == owner[m] = t
MayEnter(t, m) == owner[m] = NULL \/ owner[m] = t
CountAfterEnter(t, m) ==
  IF wakeRecursion[t] > 0 THEN wakeRecursion[t] ELSE recursion[m] + 1
SavedCount(m) == recursion[m]

\* What popping t's top frame leaves behind: monitors linked to its memory.
Popped(t) == HeldIn(<<t, depth[t]>>)

----------------------------------------------------------------------------
(* The program: what bytecode compiled from structured source may do next *)

Running(t) == pc[t] = "run"

\* INVOKE*, *RETURN and ATHROW begin with thread_safepoint_check.  A dying
\* thread has requested a safepoint it never releases: the check does not return.
PassesCheck(t) == Running(t) /\ \A u \in Threads : pc[u] # "dead"

Innermost(t) == Last(nest[t])

\* t is inside a synchronized block / method of its top frame.
InBlock(t) == nest[t] # <<>> /\ Innermost(t).at = depth[t] /\ ~Innermost(t).sync
InSyncMethod(t) == nest[t] # <<>> /\ Innermost(t).at = depth[t] /\ Innermost(t).sync

Inside(t, o) == \E i \in DOMAIN nest[t] : nest[t][i].obj = o

LeaveRegion(t) == [nest EXCEPT ![t] = Front(@)]

\* MONITORENTER
MonitorEnter(t, o) ==
  /\ Running(t)
  /\ Len(nest[t]) < MaxNest
  /\ pc' = [pc EXCEPT ![t] = "load"]
  /\ phase' = [phase EXCEPT ![t] = "enter"]
  /\ want' = [want EXCEPT ![t] = o]
  /\ UNCHANGED <<mon, depth, nest, wakeRecursion, objectVars, lockVars, queueVars>>

\* INVOKE* of a synchronized method pushes the frame, then locks the receiver.
InvokeSync(t, o) ==
  /\ PassesCheck(t)
  /\ Len(nest[t]) < MaxNest
  /\ depth[t] < MaxDepth
  /\ pc' = [pc EXCEPT ![t] = "load"]
  /\ phase' = [phase EXCEPT ![t] = "sync"]
  /\ want' = [want EXCEPT ![t] = o]
  /\ depth' = [depth EXCEPT ![t] = @ + 1]
  /\ UNCHANGED <<mon, nest, wakeRecursion, objectVars, lockVars, queueVars>>

\* INVOKE* of any other method.
Invoke(t) ==
  /\ PassesCheck(t)
  /\ depth[t] < MaxDepth
  /\ depth' = [depth EXCEPT ![t] = @ + 1]
  /\ UNCHANGED <<pc, phase, want, mon, nest, wakeRecursion, objectVars, lockVars,
                 queueVars>>

----------------------------------------------------------------------------
(* Forced release and the death of a thread *)

\* monitor_exit_force on every monitor of S: it leaves recursion as it is and
\* wakes all of enter_set.
ForceExit(S) ==
  /\ owner' = [m \in Monitors |-> IF m \in S THEN NULL ELSE owner[m]]
  /\ ownerObject' = [m \in Monitors |-> IF m \in S THEN NULL ELSE ownerObject[m]]
  /\ heldAt' = [m \in Monitors |-> IF m \in S THEN NoFrame ELSE heldAt[m]]
  /\ enterSet' = [m \in Monitors |-> IF m \in S THEN <<>> ELSE enterSet[m]]
  /\ UNCHANGED <<recursion, waitSet>>

ForceWoken(S) == UNION {ToSet(enterSet[m]) : m \in S}

\* An error the program cannot catch: the monitors of every live frame are
\* released and interpreter_execute returns to thread_task.
Die(t) ==
  LET S == UNION {HeldIn(<<t, d>>) : d \in 1..depth[t]}
  IN  /\ ForceExit(S)
      /\ pc' = [Signalled(ForceWoken(S)) EXCEPT ![t] = "dead"]
      /\ UNCHANGED <<threadVars, wakeRecursion, objectVars, stale>>

----------------------------------------------------------------------------
(* monitor_enter *)

\* The unguarded test of object->monitor.
EnterLoad(t) ==
  /\ pc[t] = "load"
  /\ \/ /\ objMonitor[want[t]] = NULL
        /\ pc' = [pc EXCEPT ![t] = "alloc"]
        /\ UNCHANGED mon
     \/ /\ objMonitor[want[t]] # NULL
        /\ pc' = [pc EXCEPT ![t] = "lock"]
        /\ mon' = [mon EXCEPT ![t] = objMonitor[want[t]]]
  /\ UNCHANGED <<phase, want, depth, nest, wakeRecursion, objectVars, lockVars, queueVars>>

\* monitor_alloc and the store to object->monitor.  monitor_init resets the
\* owner and the lists of a recycled monitor, not its recursion.
EnterAlloc(t) ==
  /\ pc[t] = "alloc"
  /\ \E m \in freeMonitors :
       /\ freeMonitors' = freeMonitors \ {m}
       /\ objMonitor' = [objMonitor EXCEPT ![want[t]] = m]
       /\ owner' = [owner EXCEPT ![m] = NULL]
       /\ heldAt' = [heldAt EXCEPT ![m] = NoFrame]
       /\ enterSet' = [enterSet EXCEPT ![m] = <<>>]
       /\ waitSet' = [waitSet EXCEPT ![m] = <<>>]
  /\ pc' = [pc EXCEPT ![t] = "load"]
  /\ UNCHANGED <<threadVars, wakeRecursion, recursion, ownerObject, stale>>

\* JERR_OOM is no exception: it ends the thread.
EnterOutOfMemory(t) ==
  /\ pc[t] = "alloc"
  /\ freeMonitors = {}
  /\ Die(t)

\* monitor_enter returns JERR_OK: the program goes on inside the region.
EnterReturn(t) ==
  /\ pc' = [pc EXCEPT ![t] = "run"]
  /\ phase' = [phase EXCEPT ![t] = "none"]
  /\ want' = [want EXCEPT ![t] = NULL]
  /\ mon' = [mon EXCEPT ![t] = NULL]
  /\ nest' = IF phase[t] \in {"enter", "sync"}
             THEN [nest EXCEPT ![t] = Append(@, [obj |-> want[t], at |-> depth[t],
                                                 sync |-> phase[t] = "sync"])]
             ELSE nest
  /\ UNCHANGED depth

EnterAcquire(t) ==
  LET m == mon[t]
  IN  /\ pc[t] = "lock"
      /\ MayEnter(t, m)
      /\ recursion[m] < MaxRecursion
      /\ IF recursion[m] = 0
         THEN /\ heldAt' = [heldAt EXCEPT ![m] = <<t, depth[t]>>]
              /\ stale' = stale \ {m}
         ELSE UNCHANGED <<heldAt, stale>>
      /\ ownerObject' = [ownerObject EXCEPT ![m] = want[t]]
      /\ owner' = [owner EXCEPT ![m] = t]
      /\ recursion' = [recursion EXCEPT ![m] = CountAfterEnter(t, m)]
      /\ wakeRecursion' = [wakeRecursion EXCEPT ![t] = 0]
      /\ EnterReturn(t)
      /\ UNCHANGED <<objectVars, queueVars>>

EnterQueue(t) ==
  LET m == mon[t]
  IN  /\ pc[t] = "lock"
      /\ ~MayEnter(t, m)
      /\ enterSet' = [n \in Monitors |-> IF n = m
                        THEN Append(Unlink(enterSet[n], t), t) ELSE Unlink(enterSet[n], t)]
      /\ waitSet' = [n \in Monitors |-> Unlink(waitSet[n], t)]
      /\ pc' = [pc EXCEPT ![t] = "toPark"]
      /\ UNCHANGED <<threadVars, wakeRecursion, objectVars, lockVars>>

\* Back from thread_notify_wait, monitor_enter returns without another look at
\* the monitor.
EnterResume(t) ==
  /\ pc[t] = "woken"
  /\ phase[t] # "wait"
  /\ EnterReturn(t)
  /\ UNCHANGED <<wakeRecursion, objectVars, lockVars, queueVars>>

\* thread_notify_wait: pthread_cond_wait without a predicate, so it may also
\* return although nobody signalled.
Park(t) ==
  /\ pc[t] = "toPark"
  /\ pc' = [pc EXCEPT ![t] = "parked"]
  /\ UNCHANGED <<threadVars, wakeRecursion, objectVars, lockVars, queueVars>>

SpuriousWakeup(t) ==
  /\ pc[t] = "parked"
  /\ pc' = [pc EXCEPT ![t] = "woken"]
  /\ UNCHANGED <<threadVars, wakeRecursion, objectVars, lockVars, queueVars>>

----------------------------------------------------------------------------
(* monitor_exit, and the instructions that call it *)

FirstToEnter(m) == IF enterSet[m] = <<>> THEN {} ELSE {Head(enterSet[m])}

\* monitor_exit by the owner: the last exit unlinks the monitor and wakes the
\* first thread of enter_set.
Release(t, m) ==
  /\ recursion' = [recursion EXCEPT ![m] = @ - 1]
  /\ IF recursion[m] = 1
     THEN /\ heldAt' = [heldAt EXCEPT ![m] = NoFrame]
          /\ owner' = [owner EXCEPT ![m] = NULL]
          /\ ownerObject' = [ownerObject EXCEPT ![m] = NULL]
          /\ enterSet' = [enterSet EXCEPT ![m] = IF @ = <<>> THEN @ ELSE Tail(@)]
          /\ pc' = Signalled(FirstToEnter(m))
     ELSE UNCHANGED <<pc, heldAt, owner, ownerObject, enterSet>>
  /\ UNCHANGED waitSet

StaleAfterRelease(m) == IF recursion[m] = 1 THEN StaleAfterUnlink(m) ELSE {stale}

\* MONITOREXIT.  JERR_INVALIDMONITORSTATE ends the thread: building the
\* exception object fails (its constructor is invoked without arguments).
MonitorExit(t) ==
  LET m == objMonitor[Innermost(t).obj]
  IN  /\ Running(t)
      /\ InBlock(t)
      /\ \/ /\ Owns(t, m)
            /\ Release(t, m)
            /\ stale' \in StaleAfterRelease(m)
            /\ nest' = LeaveRegion(t)
            /\ UNCHANGED <<phase, want, mon, depth, wakeRecursion, objectVars>>
         \/ /\ ~Owns(t, m)
            /\ Die(t)

\* The *RETURN instructions of a method that is not synchronized.
MethodReturn(t) ==
  /\ PassesCheck(t)
  /\ depth[t] > 1
  /\ ~InBlock(t)
  /\ ~InSyncMethod(t)
  /\ stale' = stale \cup Popped(t)
  /\ depth' = [depth EXCEPT ![t] = @ - 1]
  /\ UNCHANGED <<pc, phase, want, mon, nest, wakeRecursion, objectVars, owner, recursion,
                 ownerObject, heldAt, queueVars>>

\* The *RETURN instructions of a synchronized method exit the receiver's
\* monitor, then pop the frame.
SyncMethodReturn(t) ==
  LET m == objMonitor[Innermost(t).obj]
      unlinked == IF recursion[m] = 1 THEN {m} ELSE {}
  IN  /\ PassesCheck(t)
      /\ InSyncMethod(t)
      /\ \/ /\ Owns(t, m)
            /\ Release(t, m)
            /\ \E s \in StaleAfterRelease(m) : stale' = s \cup (Popped(t) \ unlinked)
            /\ depth' = [depth EXCEPT ![t] = @ - 1]
            /\ nest' = LeaveRegion(t)
            /\ UNCHANGED <<phase, want, mon, wakeRecursion, objectVars>>
         \/ /\ ~Owns(t, m)
            /\ Die(t)

\* throw_exception moves past one frame without a handler: it pops it, then
\* releases the monitors of the frame it arrives at.
Unwind(t) ==
  /\ PassesCheck(t)
  /\ depth[t] > 1
  /\ ~InBlock(t)
  /\ LET S == HeldIn(<<t, depth[t] - 1>>)
     IN  /\ ForceExit(S)
         /\ pc' = Signalled(ForceWoken(S))
  /\ stale' = stale \cup Popped(t)
  /\ depth' = [depth EXCEPT ![t] = @ - 1]
  /\ nest' = IF InSyncMethod(t) THEN LeaveRegion(t) ELSE nest
  /\ UNCHANGED <<phase, want, mon, wakeRecursion, objectVars>>

----------------------------------------------------------------------------
(* Object.wait, notify and notifyAll, natives run in the caller's frame *)

\* monitor_wait and monitor_waitTimeout, whose wait is not timed either.
ObjectWait(t, o) ==
  LET m == objMonitor[o]
  IN  /\ PassesCheck(t)
      /\ Inside(t, o)
      /\ \/ /\ Owns(t, m)
            /\ UnlinkMonitor(m)
            /\ wakeRecursion' = [wakeRecursion EXCEPT ![t] = SavedCount(m)]
            /\ recursion' = [recursion EXCEPT ![m] = 0]
            /\ owner' = [owner EXCEPT ![m] = NULL]
            /\ enterSet' = [n \in Monitors |-> Unlink(enterSet[n], t)]
            /\ waitSet' = [n \in Monitors |-> IF n = m
                             THEN Cons(t, Unlink(waitSet[n], t)) ELSE Unlink(waitSet[n], t)]
            /\ pc' = [pc EXCEPT ![t] = "toPark"]
            /\ phase' = [phase EXCEPT ![t] = "wait"]
            /\ want' = [want EXCEPT ![t] = o]
            /\ UNCHANGED <<mon, depth, nest, objectVars, ownerObject>>
         \/ /\ ~Owns(t, m)
            /\ Die(t)

\* Awake again, monitor_wait calls monitor_enter.
WaitResume(t) ==
  /\ pc[t] = "woken"
  /\ phase[t] = "wait"
  /\ pc' = [pc EXCEPT ![t] = "load"]
  /\ phase' = [phase EXCEPT ![t] = "rewait"]
  /\ UNCHANGED <<want, mon, depth, nest, wakeRecursion, objectVars, lockVars, queueVars>>

\* monitor_notify (n = 1) and monitor_notifyAll wake the first n of wait_set.
NotifyFirst(t, o, n) ==
  LET m == objMonitor[o]
      k == IF n < Len(waitSet[m]) THEN n ELSE Len(waitSet[m])
  IN  /\ PassesCheck(t)
      /\ Inside(t, o)
      /\ \/ /\ Owns(t, m)
            /\ waitSet' = [waitSet EXCEPT ![m] = SubSeq(@, k + 1, Len(@))]
            /\ pc' = Signalled(ToSet(SubSeq(waitSet[m], 1, k)))
            /\ UNCHANGED <<threadVars, wakeRecursion, objectVars, lockVars, enterSet>>
         \/ /\ ~Owns(t, m)
            /\ Die(t)

Notify(t, o) == NotifyFirst(t, o, 1)
NotifyAll(t, o) == NotifyFirst(t, o, Len(waitSet[objMonitor[o]]))

----------------------------------------------------------------------------
(* The collector finds object o dead and recycles its monitor: no thread    *)
(* refers to o, and no monitor in a live frame's list has it as owner_object *)

Reachable(o) ==
  \/ \E t \in Threads : pc[t] # "dead" /\ (want[t] = o \/ Inside(t, o))
  \/ \E m \in Monitors \ stale : heldAt[m] # NoFrame /\ ownerObject[m] = o

MonitorFree(o) ==
  LET m == objMonitor[o]
  IN  /\ m # NULL
      /\ ~Reachable(o)
      /\ objMonitor' = [objMonitor EXCEPT ![o] = NULL]
      /\ ownerObject' = [ownerObject EXCEPT ![m] = NULL]
      /\ UnlinkMonitor(m)
      /\ freeMonitors' = freeMonitors \cup {m}
      /\ UNCHANGED <<pc, threadVars, wakeRecursion, owner, recursion, queueVars>>

----------------------------------------------------------------------------

Next ==
  \/ \E t \in Threads, o \in Objects :
       \/ MonitorEnter(t, o)
       \/ InvokeSync(t, o)
       \/ ObjectWait(t, o)
       \/ Notify(t, o)
       \/ NotifyAll(t, o)
  \/ \E t \in Threads :
       \/ Invoke(t)
       \/ EnterLoad(t)
       \/ EnterAlloc(t)
       \/ EnterOutOfMemory(t)
       \/ EnterAcquire(t)
       \/ EnterQueue(t)
       \/ EnterResume(t)
       \/ Park(t)
       \/ SpuriousWakeup(t)
       \/ MonitorExit(t)
       \/ MethodReturn(t)
       \/ SyncMethodReturn(t)
       \/ Unwind(t)
       \/ WaitResume(t)
  \/ \E o \in Objects : MonitorFree(o)

Spec == Init /\ [][Next]_vars

----------------------------------------------------------------------------
(* Properties *)

\* A monitor in some frame's held_monitors belongs to that frame's thread, so
\* the assertion of frame_unlock_monitors, that every forced exit succeeds,
\* never fails; and it has an owner_object, which the collector takes as a root.
LinkedIsOwned ==
  \A m \in Monitors : heldAt[m] # NoFrame =>
    /\ owner[m] = heldAt[m][1]
    /\ ownerObject[m] # NULL

\* An owned monitor has recursion at least 1, whatever forced exits, waits and
\* recycling went before: the decrement of monitor_exit never wraps around.
OwnedHasRecursion ==
  \A m \in Monitors : owner[m] # NULL => recursion[m] > 0

\* Thread_t.list is a single node: a thread is in at most one enter_set or
\* wait_set, once, although a spurious wakeup lets it run on while queued.
NodeInOneList ==
  \A m, n \in Monitors :
    /\ IsInjective(enterSet[m]) /\ IsInjective(waitSet[m])
    /\ ToSet(enterSet[m]) \cap ToSet(waitSet[n]) = {}
    /\ m # n => /\ ToSet(enterSet[m]) \cap ToSet(enterSet[n]) = {}
                /\ ToSet(waitSet[m]) \cap ToSet(waitSet[n]) = {}

\* wake_recursion is 0 only in a thread that is not inside monitor_wait: a
\* waiter never loses the count it has to restore (comment of thread.h).
WaiterKeepsCount ==
  \A t \in Threads :
    phase[t] \in {"wait", "rewait"} /\ pc[t] # "dead" => wakeRecursion[t] > 0

\* A thread asleep in a queue of a monitor does not own that monitor: it never
\* waits for itself.
SleeperIsNotOwner ==
  \A t \in Threads, m \in Monitors :
    /\ pc[t] \in {"toPark", "parked"}
    /\ t \in ToSet(enterSet[m]) \cup ToSet(waitSet[m])
    => owner[m] # t

\* Monitors lock: at most one running thread is inside the regions of an object.
CriticalSection ==
  \A t, u \in Threads, o \in Objects :
    pc[t] = "run" /\ Inside(t, o) /\ pc[u] = "run" /\ Inside(u, o) => t = u

\* held_monitors lies in the frame so that unwinding a frame releases what the
\* frame locked: no monitor stays linked to a frame that is gone.
PoppedFramesHoldNothing == stale = {}

\* The detailed monitors implement the abstract ones: every critical section of
\* monitor.c is a step only the holder may take, or an admissible queueing.
Abstract == INSTANCE MonitorLock WITH
  holder <- owner,
  entering <- [m \in Monitors |-> ToSet(enterSet[m])],
  waiting <- [m \in Monitors |-> ToSet(waitSet[m])],
  free <- freeMonitors

ImplementsLock == Abstract!Spec

============================================================================
