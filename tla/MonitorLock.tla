---------------------------- MODULE MonitorLock ----------------------------
(***************************************************************************)
(* What monitor.c promises of one monitor, without counts, lists, frames   *)
(* or sleeping threads: only the holder gives it up, waits on it or        *)
(* notifies; giving it up lets a blocked thread go; a thread is queued in  *)
(* one place; a monitor is reset only while no object has it.              *)
(***************************************************************************)
EXTENDS FiniteSets

CONSTANTS Threads, Monitors, NULL

VARIABLES
  holder,    \* the thread that owns the monitor
  entering,  \* the threads blocked in monitor_enter
  waiting,   \* the threads blocked in monitor_wait
  free       \* the monitors no object has

vars == <<holder, entering, waiting, free>>

Init ==
  /\ holder = [m \in Monitors |-> NULL]
  /\ entering = [m \in Monitors |-> {}]
  /\ waiting = [m \in Monitors |-> {}]
  /\ free = Monitors

\* queue after t left it, or joined it if m is the monitor it queues at.
Requeued(queue, t, at) ==
  [m \in Monitors |-> IF m \in at THEN queue[m] \cup {t} ELSE queue[m] \ {t}]

\* monitor_enter, granted.
Lock(t, m) ==
  /\ m \notin free
  /\ holder[m] = NULL
  /\ holder' = [holder EXCEPT ![m] = t]
  /\ UNCHANGED <<entering, waiting, free>>

\* monitor_enter, refused.
Block(t, m) ==
  /\ m \notin free
  /\ holder[m] \notin {NULL, t}
  /\ entering' = Requeued(entering, t, {m})
  /\ waiting' = Requeued(waiting, t, {})
  /\ UNCHANGED <<holder, free>>

\* monitor_exit of one monitor, or the forced exit of several: each wakes
\* somebody if anybody is blocked.
Unlock(t, S) ==
  /\ S # {}
  /\ \A m \in S : holder[m] = t
  /\ holder' = [m \in Monitors |-> IF m \in S THEN NULL ELSE holder[m]]
  /\ \E awake \in [S -> SUBSET Threads] :
       /\ \A m \in S : awake[m] \subseteq entering[m] /\ (entering[m] # {} => awake[m] # {})
       /\ entering' = [m \in Monitors |-> IF m \in S THEN entering[m] \ awake[m]
                                                     ELSE entering[m]]
  /\ UNCHANGED <<waiting, free>>

\* monitor_wait
Wait(t, m) ==
  /\ m \notin free
  /\ holder[m] = t
  /\ holder' = [holder EXCEPT ![m] = NULL]
  /\ entering' = Requeued(entering, t, {})
  /\ waiting' = Requeued(waiting, t, {m})
  /\ UNCHANGED free

\* monitor_notify and monitor_notifyAll: somebody is woken if anybody waits.
Notify(t, m) ==
  /\ m \notin free
  /\ holder[m] = t
  /\ \E awake \in SUBSET waiting[m] :
       /\ waiting[m] # {} => awake # {}
       /\ waiting' = [waiting EXCEPT ![m] = @ \ awake]
  /\ UNCHANGED <<holder, entering, free>>

\* monitor_free and monitor_alloc
Free(m) ==
  /\ free' = free \cup {m}
  /\ UNCHANGED <<holder, entering, waiting>>

Alloc(m) ==
  /\ m \in free
  /\ free' = free \ {m}
  /\ holder' = [holder EXCEPT ![m] = NULL]
  /\ entering' = [entering EXCEPT ![m] = {}]
  /\ waiting' = [waiting EXCEPT ![m] = {}]

Next ==
  \/ \E t \in Threads, m \in Monitors :
       Lock(t, m) \/ Block(t, m) \/ Wait(t, m) \/ Notify(t, m)
  \/ \E t \in Threads, S \in SUBSET Monitors : Unlock(t, S)
  \/ \E m \in Monitors : Free(m) \/ Alloc(m)

Spec == Init /\ [][Next]_vars

============================================================================
