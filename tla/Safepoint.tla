----------------------------- MODULE Safepoint -----------------------------
(***************************************************************************)
(* Stopping the threads for a collection: thread_safepoint_request, _check *)
(* and _release of thread.c around heap_gc_start of heap.c.                *)
(*                                                                         *)
(* A thread counts as active while it may touch the heap.  The requester   *)
(* polls until it alone is active; a thread that reaches a check while the *)
(* flag is set links its Thread_t.list node to s_safepoint_threads and     *)
(* sleeps; release clears the flag, then walks the list, unlinking and     *)
(* signalling.  The links are modelled as the code has them, as pointers,  *)
(* because a node may be linked a second time without being unlinked.      *)
(*                                                                         *)
(* Away from this module: what a collection does, the monitors a thread    *)
(* blocks on (their lists use the same node), thread_join, which has no    *)
(* caller.                                                                 *)
(***************************************************************************)
EXTENDS Naturals, FiniteSets

CONSTANTS
  Threads,        \* Thread_t's
  Head,           \* the list head s_safepoint_threads
  MaxCollections  \* bound: safepoints requested

ASSUME SafepointAssumption ==
  /\ Head \notin Threads
  /\ IsFiniteSet(Threads)
  /\ MaxCollections \in Nat

VARIABLES
  pc,          \* where the thread is
  resume,      \* where thread_safepoint_check was called from
  requested,   \* s_safepoint_requested
  active,      \* s_active_threads
  next, prev,  \* the links of the head and of every Thread_t.list
  thread, tmp, \* the cursors of thread_safepoint_release
  collections  \* safepoints requested so far

listVars == <<next, prev>>
loopVars == <<thread, tmp>>
vars == <<pc, resume, requested, active, listVars, loopVars, collections>>

Nodes == Threads \cup {Head}

\* "back": active again, or for the first time, but not through a check yet.
ActivePCs == {"run", "back", "check", "enlist", "spin", "request", "poll", "collect", "release"}
PCs == ActivePCs \cup {"off", "away", "toPark", "parked", "woken", "leaving", "gone"}

TypeOK ==
  /\ pc \in [Threads -> PCs]
  /\ resume \in [Threads -> {"run", "request"}]
  /\ requested \in BOOLEAN
  /\ active \in Nat
  /\ next \in [Nodes -> Nodes]
  /\ prev \in [Nodes -> Nodes]
  /\ thread \in Nodes
  /\ tmp \in Nodes
  /\ collections \in 0..MaxCollections

Init ==
  /\ pc = [t \in Threads |-> "off"]
  /\ resume = [t \in Threads |-> "run"]
  /\ requested = FALSE
  /\ active = 0
  /\ next = [n \in Nodes |-> n]
  /\ prev = [n \in Nodes |-> n]
  /\ thread = Head
  /\ tmp = Head
  /\ collections = 0

----------------------------------------------------------------------------
(* list.h *)

\* list_add(n, Head), whatever n is linked to.
ListAdd(n) ==
  LET first == next[Head]
  IN  /\ next' = [next EXCEPT ![n] = first, ![Head] = n]
      /\ prev' = [prev EXCEPT ![first] = n, ![n] = Head]

NextWithout(n) == [next EXCEPT ![prev[n]] = next[n], ![n] = n]
PrevWithout(n) == [prev EXCEPT ![next[n]] = prev[n], ![n] = n]

\* list_del_init(n)
ListDelInit(n) == next' = NextWithout(n) /\ prev' = PrevWithout(n)

----------------------------------------------------------------------------

Goto(t, to) == pc' = [pc EXCEPT ![t] = to]

\* Mutants: a thread goes back to sleep uncounted; the flag is read once; the
\* poll takes any other thread for stopped; a requester does not see the flag.
CountAfterWakeForgotten == active
StaysTestedOnce == FALSE
AloneButOne == active <= 2
FlagNeverSeenSet == FALSE

CountAfterWake == active + 1
Stays == requested
Alone == active = 1
FlagSeenSet == requested

\* thread_task begins: the thread is active and runs bytecode until its first check.
Start(t) ==
  /\ pc[t] = "off"
  /\ active' = active + 1
  /\ Goto(t, "back")
  /\ UNCHANGED <<resume, requested, listVars, loopVars, collections>>

\* thread_safepoint_check on a jump, call, return or allocation, or on the way back
\* from a monitor or from sleep.
Check(t) ==
  /\ pc[t] \in {"run", "back"}
  /\ Goto(t, IF requested THEN "enlist" ELSE "run")
  /\ resume' = [resume EXCEPT ![t] = "run"]
  /\ UNCHANGED <<requested, active, listVars, loopVars, collections>>

\* list_add under the list's spinlock.
Enlist(t) ==
  /\ pc[t] = "enlist"
  /\ ListAdd(t)
  /\ Goto(t, "spin")
  /\ UNCHANGED <<resume, requested, active, loopVars, collections>>

\* while(requested) thread_notify_wait(): the test and, if it holds, the decrement.
Spin(t) ==
  /\ pc[t] = "spin"
  /\ \/ Stays /\ Goto(t, "toPark") /\ active' = active - 1
     \/ ~Stays /\ Goto(t, resume[t]) /\ UNCHANGED active
  /\ UNCHANGED <<resume, requested, listVars, loopVars, collections>>

\* pthread_cond_wait, which may also return unsignalled.
Park(t) ==
  /\ pc[t] = "toPark"
  /\ Goto(t, "parked")
  /\ UNCHANGED <<resume, requested, active, listVars, loopVars, collections>>

SpuriousWakeup(t) ==
  /\ pc[t] = "parked"
  /\ Goto(t, "woken")
  /\ UNCHANGED <<resume, requested, active, listVars, loopVars, collections>>

Wake(t) ==
  /\ pc[t] = "woken"
  /\ active' = CountAfterWake
  /\ Goto(t, "spin")
  /\ UNCHANGED <<resume, requested, listVars, loopVars, collections>>

\* The thread blocks on a monitor, which unlinks its node first, or it sleeps.
Block(t) ==
  /\ pc[t] \in {"run", "back"}
  /\ active' = active - 1
  /\ Goto(t, "away")
  /\ ListDelInit(t)
  /\ UNCHANGED <<resume, requested, loopVars, collections>>

Sleep(t) ==
  /\ pc[t] = "run"
  /\ active' = active - 1
  /\ Goto(t, "away")
  /\ UNCHANGED <<resume, requested, listVars, loopVars, collections>>

\* Notified, or done sleeping.
ComeBack(t) ==
  /\ pc[t] = "away"
  /\ active' = active + 1
  /\ Goto(t, "back")
  /\ UNCHANGED <<resume, requested, listVars, loopVars, collections>>

\* thread_exit: the thread stops being active, only then is it unknown to the collector
\* and its Thread_t freed.
Exit(t) ==
  /\ pc[t] = "run"
  /\ active' = active - 1
  /\ Goto(t, "leaving")
  /\ UNCHANGED <<resume, requested, listVars, loopVars, collections>>

Free(t) ==
  /\ pc[t] = "leaving"
  /\ Goto(t, "gone")
  /\ UNCHANGED <<resume, requested, active, listVars, loopVars, collections>>

----------------------------------------------------------------------------
(* heap_gc_start *)

\* An allocation finds the heap full.
NeedSpace(t) ==
  /\ pc[t] = "run"
  /\ collections < MaxCollections
  /\ collections' = collections + 1
  /\ Goto(t, "request")
  /\ UNCHANGED <<resume, requested, active, listVars, loopVars>>

\* thread_safepoint_request: the exchange of the flag; who finds it set stops at a
\* check and tries again.
Request(t) ==
  /\ pc[t] = "request"
  /\ IF FlagSeenSet
     THEN Goto(t, "check") /\ UNCHANGED requested
     ELSE Goto(t, "poll") /\ requested' = TRUE
  /\ UNCHANGED <<resume, active, listVars, loopVars, collections>>

RequesterCheck(t) ==
  /\ pc[t] = "check"
  /\ Goto(t, IF requested THEN "enlist" ELSE "request")
  /\ resume' = [resume EXCEPT ![t] = "request"]
  /\ UNCHANGED <<requested, active, listVars, loopVars, collections>>

Observe(t) ==
  /\ pc[t] = "poll"
  /\ Alone
  /\ Goto(t, "collect")
  /\ UNCHANGED <<resume, requested, active, listVars, loopVars, collections>>

\* The collection is over: the flag is cleared before the list is walked.
Clear(t) ==
  /\ pc[t] = "collect"
  /\ requested' = FALSE
  /\ thread' = next[Head]
  /\ tmp' = next[next[Head]]
  /\ Goto(t, "release")
  /\ UNCHANGED <<resume, active, listVars, collections>>

\* One turn of list_for_each_entry_safe: unlink, signal, advance.
ReleaseOne(t) ==
  /\ pc[t] = "release"
  /\ thread # Head
  /\ ListDelInit(thread)
  /\ pc' = [pc EXCEPT ![thread] = IF @ = "parked" THEN "woken" ELSE @]
  /\ thread' = tmp
  /\ tmp' = NextWithout(thread)[tmp]
  /\ UNCHANGED <<resume, requested, active, collections>>

ReleaseEnd(t) ==
  /\ pc[t] = "release"
  /\ thread = Head
  /\ Goto(t, "run")
  /\ UNCHANGED <<resume, requested, active, listVars, loopVars, collections>>

----------------------------------------------------------------------------

Next ==
  \E t \in Threads :
    \/ Start(t)
    \/ Check(t)
    \/ Enlist(t)
    \/ Spin(t)
    \/ Park(t)
    \/ SpuriousWakeup(t)
    \/ Wake(t)
    \/ Block(t)
    \/ Sleep(t)
    \/ ComeBack(t)
    \/ Exit(t)
    \/ Free(t)
    \/ NeedSpace(t)
    \/ Request(t)
    \/ RequesterCheck(t)
    \/ Observe(t)
    \/ Clear(t)
    \/ ReleaseOne(t)
    \/ ReleaseEnd(t)

Spec == Init /\ [][Next]_vars

\* Threads are preemptive; bytecode reaches a check on its next jump, call or return.
Fairness ==
  \A t \in Threads :
    /\ WF_vars(Check(t)) /\ WF_vars(Enlist(t)) /\ WF_vars(Spin(t)) /\ WF_vars(Park(t))
    /\ WF_vars(Wake(t)) /\ WF_vars(Request(t)) /\ WF_vars(RequesterCheck(t))
    /\ WF_vars(Observe(t)) /\ WF_vars(Clear(t)) /\ WF_vars(ReleaseOne(t))
    /\ WF_vars(ReleaseEnd(t))

FairSpec == Spec /\ Fairness

----------------------------------------------------------------------------
(* Properties *)

\* s_active_threads counts the active threads: it never goes below 0, where an
\* unsigned count would wrap around and no safepoint be reached again.
ActiveIsCounted == active = Cardinality({t \in Threads : pc[t] \in ActivePCs})

\* While a thread collects, no other thread runs bytecode past a check, has a
\* safepoint of its own or still walks the list of the last one, although threads
\* may start and wake up meanwhile.
StopTheWorld ==
  \A t, u \in Threads :
    pc[t] = "collect" /\ u # t => pc[u] \notin {"run", "request", "poll", "collect", "release"}

\* The nodes the walk over s_safepoint_threads meets are those of waiting threads:
\* this is what Thread_t.list is for (comment of thread.h).
Waiting == {"spin", "toPark", "parked", "woken"}
Linked(t) == next[t] # t
ListedIsWaiting == \A t \in Threads : Linked(t) => pc[t] \in Waiting

\* As long as no node is left behind on the list, every thread that set the flag
\* gets its safepoint, unless sleepers keep stirring for ever with nobody to
\* signal them: two of them taking turns can hide every quiet moment from the poll.
Stirs == \E t \in Threads : SpuriousWakeup(t) \/ ComeBack(t)

RequestersCollect ==
  []ListedIsWaiting /\ <>[][~Stirs]_vars =>
    \A t \in Threads : (pc[t] = "poll") ~> (pc[t] = "collect")

============================================================================
