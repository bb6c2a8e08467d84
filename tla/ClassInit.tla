----------------------------- MODULE ClassInit -----------------------------
(***************************************************************************)
(* Class initialization: run_clinit of interpreter.c, which PUTSTATIC,     *)
(* GETSTATIC, INVOKESTATIC and NEW call before they use a class.           *)
(*                                                                         *)
(* run_clinit claims the class and then its superclasses, upwards, with a  *)
(* compare-exchange on clinit_stage, until it meets a class somebody       *)
(* claimed before; it waits for that class unless the claim is its own,    *)
(* and then runs the initializers of its claims, superclass first.  An     *)
(* initializer is bytecode and may need further classes, so that calls of  *)
(* run_clinit nest.  A step is one atomic access to clinit_stage or        *)
(* clinit_trigger, or the start or end of an initializer.                  *)
(*                                                                         *)
(* Two things reach across these calls.  A collection waits until every    *)
(* other thread has come to a check, which bytecode does and run_clinit    *)
(* does not; Safepoint has the protocol, here it is a flag and a set.  And *)
(* an exception that no frame of an initializer handles goes on to the     *)
(* frames below: the frames above the handler are gone, but the C calls of *)
(* interpreter_execute that ran them are not, and the innermost of them    *)
(* runs the handler.  A frame is known by the initializer it belongs to:   *)
(* level n is the n-th call of run_clinit, level 0 the program.            *)
(***************************************************************************)
EXTENDS Naturals, SequencesExt

CONSTANTS
  Threads,    \* Java threads
  Classes,    \* loaded and linked classes
  NULL,       \* the null pointer
  Parent,     \* Class_t.parent
  WithClinit, \* the classes whose own methods include <clinit>
  Uses,       \* the classes the bytecode of a class's initializer needs
  MaxCalls    \* bound: nested calls of run_clinit in one thread

ASSUME ClassAssumption ==
  /\ NULL \notin Threads \cup Classes
  /\ Parent \in [Classes -> Classes \cup {NULL}]
  \* No class is its own superclass: linking needs the superclass first.
  /\ \A S \in SUBSET Classes : S # {} => \E c \in S : Parent[c] \notin S
  /\ WithClinit \subseteq Classes
  /\ Uses \in [Classes -> SUBSET Classes]
  /\ MaxCalls \in Nat \ {0}

VARIABLES
  stage,    \* Class_t.clinit_stage: 0 not started, 1 in progress, 2 done
  trigger,  \* Class_t.clinit_trigger
  calls,    \* per thread, its calls of run_clinit, the innermost last
  dead,     \* threads whose interpreter returned a fatal error
  astray,   \* threads whose interpreter goes on in a frame that is gone
  collector,\* the thread that requested a safepoint, or NULL
  stopped   \* the threads that stopped at a check and have not gone on

collection == <<collector, stopped>>
vars == <<stage, trigger, calls, dead, astray, collection>>

\* A call of run_clinit: its class, the cursor of its loop, clinit_list from
\* front to back, and where it is; the level its interpreter_execute runs, and the
\* levels that have frames under it.
Steps == {"claim", "mark", "wait", "launch", "body"}
Levels == 0..MaxCalls
Calls == [class : Classes, cur : Classes \cup {NULL}, list : Seq(Classes), at : Steps,
          runs : Levels, under : SUBSET Levels]

TypeOK ==
  /\ stage \in [Classes -> 0..2]
  /\ trigger \in [Classes -> Threads \cup {NULL}]
  /\ calls \in [Threads -> Seq(Calls)]
  /\ dead \in SUBSET Threads
  /\ astray \in SUBSET Threads
  /\ collector \in Threads \cup {NULL}
  /\ stopped \in SUBSET Threads

Init ==
  /\ stage = [c \in Classes |-> 0]
  /\ trigger = [c \in Classes |-> NULL]
  /\ calls = [t \in Threads |-> <<>>]
  /\ dead = {}
  /\ astray = {}
  /\ collector = NULL
  /\ stopped = {}

----------------------------------------------------------------------------

Followed(t) == t \notin dead \cup astray
InCall(t) == Followed(t) /\ calls[t] # <<>>
Call(t) == Last(calls[t])
At(t, step) == InCall(t) /\ Call(t).at = step

\* t executes bytecode: the program or an initializer, at the level it runs.
Level(t) == IF calls[t] = <<>> THEN 0 ELSE Call(t).runs
InBytecode(t) == Followed(t) /\ (calls[t] # <<>> => Call(t).at = "body")
Runs(t) == InBytecode(t) /\ t \notin stopped /\ collector # t

\* The innermost call of t goes on as r.
SetCall(t, r) == calls' = [calls EXCEPT ![t] = Append(Front(@), r)]

\* class_find_method(class, "<clinit>@()V") walks up the superclasses: the class
\* whose initializer it finds for c, or NULL.
ClinitOf[c \in Classes] ==
  IF c \in WithClinit THEN c
  ELSE IF Parent[c] = NULL THEN NULL ELSE ClinitOf[Parent[c]]

\* Mutants: fetch-and-add for the compare-exchange; list_add_tail for list_add;
\* a waiter content with a class in progress; no test of clinit_trigger; a requester
\* that waits for itself.
AfterFetchAdd(c) == stage[c] + 1
ClaimedAtTail(list, c) == Append(list, c)
StageSeenStarted(c) == stage[c] # 0
OwnClaimIgnored(t, c) == FALSE
AllStoppedWithRequester == Threads \subseteq stopped

AfterClaim(c) == IF stage[c] = 0 THEN 1 ELSE stage[c]
Claimed(list, c) == Cons(c, list)
StageDone(c) == stage[c] = 2
OwnClaim(t, c) == trigger[c] = t

----------------------------------------------------------------------------

\* PUTSTATIC, GETSTATIC, INVOKESTATIC or NEW of class c: in the program of t,
\* or in the initializer t is running.
RunClinit(t, c) ==
  /\ Runs(t)
  /\ Len(calls[t]) < MaxCalls
  /\ Level(t) # 0 => c \in Uses[ClinitOf[Head(calls[t][Level(t)].list)]]
  /\ calls' = [calls EXCEPT ![t] =
                 Append(@, [class |-> c, cur |-> c, list |-> <<>>, at |-> "claim",
                            runs |-> Len(@) + 1,
                            under |-> {Level(t)} \cup IF @ = <<>> THEN {} ELSE Call(t).under])]
  /\ UNCHANGED <<stage, trigger, dead, astray, collection>>

\* One turn of the loop: the compare-exchange of clinit_stage.
Claim(t) ==
  LET r == Call(t)
  IN  /\ At(t, "claim")
      /\ \/ /\ r.cur = NULL
            /\ SetCall(t, [r EXCEPT !.at = "launch"])
            /\ UNCHANGED stage
         \/ /\ r.cur # NULL
            /\ stage' = [stage EXCEPT ![r.cur] = AfterClaim(r.cur)]
            /\ SetCall(t, [r EXCEPT !.at = IF stage[r.cur] = 0 THEN "mark" ELSE "wait"])
      /\ UNCHANGED <<trigger, dead, astray, collection>>

\* The claim succeeded: store clinit_trigger, only now, and go on upwards.
Mark(t) ==
  LET r == Call(t)
  IN  /\ At(t, "mark")
      /\ trigger' = [trigger EXCEPT ![r.cur] = t]
      /\ SetCall(t, [r EXCEPT !.list = Claimed(@, r.cur), !.cur = Parent[r.cur], !.at = "claim"])
      /\ UNCHANGED <<stage, dead, astray, collection>>

\* The polling loop: it ends when the class is done or claimed by t itself.
EndWait(t) ==
  /\ At(t, "wait")
  /\ StageDone(Call(t).cur) \/ OwnClaim(t, Call(t).cur)
  /\ SetCall(t, [Call(t) EXCEPT !.at = "launch"])
  /\ UNCHANGED <<stage, trigger, dead, astray, collection>>

\* The next class of clinit_list has no initializer to run, or has one.
Skip(t) ==
  LET r == Call(t)
  IN  /\ At(t, "launch")
      /\ r.list # <<>>
      /\ ClinitOf[Head(r.list)] = NULL
      /\ stage' = [stage EXCEPT ![Head(r.list)] = 2]
      /\ SetCall(t, [r EXCEPT !.list = Tail(@)])
      /\ UNCHANGED <<trigger, dead, astray, collection>>

StartBody(t) ==
  LET r == Call(t)
  IN  /\ At(t, "launch")
      /\ r.list # <<>>
      /\ ClinitOf[Head(r.list)] # NULL
      /\ SetCall(t, [r EXCEPT !.at = "body"])
      /\ UNCHANGED <<stage, trigger, dead, astray, collection>>

\* The level that runs returns to the frame interpreter_method_invoke pushed below it,
\* whose bytecode ends interpreter_execute.
EndBody(t) ==
  LET r == Call(t)
  IN  /\ At(t, "body") /\ Runs(t)
      /\ stage' = [stage EXCEPT ![Head(r.list)] = 2]
      /\ SetCall(t, [r EXCEPT !.list = Tail(@), !.at = "launch", !.runs = Len(calls[t])])
      /\ UNCHANGED <<trigger, dead, astray, collection>>

\* interpreter_execute returns an error no handler can catch, JERR_OOM say: it
\* becomes JERR_CLINIT_FAILED, which is no exception either, and ends the thread.
FailBody(t) ==
  /\ At(t, "body") /\ Runs(t)
  /\ dead' = dead \cup {t}
  /\ calls' = [calls EXCEPT ![t] = <<>>]
  /\ UNCHANGED <<stage, trigger, astray, collection>>

\* throw_exception finds a handler in a frame of level n, below those of the level that
\* runs, and interpreter_execute goes on there.
Catch(t, n) ==
  LET r == Call(t)
  IN  /\ At(t, "body") /\ Runs(t)
      /\ n \in r.under
      /\ SetCall(t, [r EXCEPT !.runs = n, !.under = {k \in @ : k < n}])
      /\ UNCHANGED <<stage, trigger, dead, astray, collection>>

\* run_clinit returns JERR_OK to the opcode that called it, and that to its frame.
Return(t) ==
  LET r == Call(t)
      outer == Front(calls[t])
  IN  /\ At(t, "launch")
      /\ r.list = <<>>
      /\ IF (IF outer = <<>> THEN 0 ELSE Last(outer).runs) \in r.under
         THEN calls' = [calls EXCEPT ![t] = outer] /\ UNCHANGED astray
         ELSE calls' = [calls EXCEPT ![t] = <<>>] /\ astray' = astray \cup {t}
      /\ UNCHANGED <<stage, trigger, dead, collection>>

----------------------------------------------------------------------------
(* Collections *)

\* The heap is full for an object of the bytecode t executes.
NeedSpace(t) ==
  /\ Runs(t)
  /\ collector = NULL
  /\ collector' = t
  /\ UNCHANGED <<stage, trigger, calls, dead, astray, stopped>>

\* Branches and calls check; a thread that died comes to a check in its own request.
AtCheck(t) == InBytecode(t) \/ t \in dead

Stop(t) ==
  /\ AtCheck(t)
  /\ collector \notin {NULL, t}
  /\ t \notin stopped
  /\ stopped' = stopped \cup {t}
  /\ UNCHANGED <<stage, trigger, calls, dead, astray, collector>>

AllStopped == Threads \ {collector} \subseteq stopped

\* The collection is done, the request withdrawn.
Collect ==
  /\ collector # NULL
  /\ AllStopped
  /\ collector' = NULL
  /\ UNCHANGED <<stage, trigger, calls, dead, astray, stopped>>

GoOn(t) ==
  /\ collector = NULL
  /\ t \in stopped
  /\ stopped' = stopped \ {t}
  /\ UNCHANGED <<stage, trigger, calls, dead, astray, collector>>

----------------------------------------------------------------------------

Next ==
  \/ \E t \in Threads :
       \/ \E c \in Classes : RunClinit(t, c)
       \/ Claim(t)
       \/ Mark(t)
       \/ EndWait(t)
       \/ Skip(t)
       \/ StartBody(t)
       \/ EndBody(t)
       \/ FailBody(t)
       \/ \E n \in Levels : Catch(t, n)
       \/ Return(t)
       \/ NeedSpace(t)
       \/ Stop(t)
       \/ GoOn(t)
  \/ Collect

Spec == Init /\ [][Next]_vars

\* Threads are preemptive, and an initializer executes finitely many instructions and
\* passes a check when it takes long; nobody has to need a class, or to fail.  Whether
\* a stopped thread goes on depends on a signal, which may be lost.
Fairness ==
  /\ \A t \in Threads :
       /\ WF_vars(Claim(t) \/ Mark(t) \/ EndWait(t) \/ Skip(t) \/ StartBody(t) \/ Return(t))
       /\ SF_vars(EndBody(t))
       /\ SF_vars(Stop(t))
  /\ WF_vars(Collect)

FairSpec == Spec /\ Fairness

----------------------------------------------------------------------------
(* Properties *)

\* t executes the initializer of c, on behalf of c or of a subclass without one.
Executing(t, c) == At(t, "body") /\ ClinitOf[Head(Call(t).list)] = c

\* t is turning c into an initialized class: c is on a clinit_list of t.
Initializing(t, c) == \E i \in DOMAIN calls[t] : c \in ToSet(calls[t][i].list)

\* The i-th call of t runs the initializer on the way of c, or has a call nested in it.
InBody(t, i, c) == calls[t][i].at = "body" /\ Head(calls[t][i].list) = c

\* A class is initialized, or its initializer started, only after its superclass.  It may
\* overtake a superclass whose own turn waits, in an outer call of the thread, for the
\* initializer that needed the class; that turn may never come if the thread dies or
\* loses its frame.  Exceptions that leave initializers change nothing in this.
SuperclassFirst ==
  \A c \in Classes : Parent[c] # NULL =>
    /\ stage[c] = 2 =>
         \/ stage[Parent[c]] = 2
         \/ /\ trigger[Parent[c]] = trigger[c]
            /\ ~Followed(trigger[c]) \/ Initializing(trigger[c], Parent[c])
    /\ \A t \in Threads : \A i \in DOMAIN calls[t] : InBody(t, i, c) =>
         \/ stage[Parent[c]] = 2
         \/ \E j \in 1..i - 1 : calls[t][j].at = "body" /\ Parent[c] \in ToSet(calls[t][j].list)

\* When run_clinit returns JERR_OK, the class is done or the returning thread is
\* the one initializing it: no thread uses a class another thread has not finished.
ReturnsInitialized ==
  \A t \in Threads :
    At(t, "launch") /\ Call(t).list = <<>> =>
      stage[Call(t).class] = 2 \/ trigger[Call(t).class] = t

\* Several threads wait for classes claimed by each other.
WaitsFor(t, u) == At(t, "wait") /\ trigger[Call(t).cur] = u /\ ~StageDone(Call(t).cur)
WaitCycle ==
  \E S \in SUBSET Threads :
    Cardinality(S) > 1 /\ \A t \in S : \E u \in S \ {t} : WaitsFor(t, u)

\* A thread polls for a class whose initializer has stopped, or waits for the others to.
PollsForStopped ==
  \E t, u \in Threads : WaitsFor(t, u) /\ collector # NULL /\ (u = collector \/ u \in stopped)

\* An exception left an initializer.
Crossed == \E t \in Threads : calls[t] # <<>> /\ Call(t).runs # Len(calls[t])

\* Nothing of what keeps threads apart for ever in this code has happened.
Undisturbed == dead = {} /\ astray = {} /\ ~Crossed /\ ~WaitCycle /\ ~PollsForStopped

NoSignalIsLost == \A t \in Threads : []<>(t \notin stopped)

\* If no thread dies, no exception leaves an initializer, and initializers neither make
\* threads wait for each other nor stop for a collection under the eyes of a waiting
\* thread, whoever needs a class gets it, however its own initializers recurse and
\* whatever is collected meanwhile.
NeededClassesArrive ==
  []Undisturbed /\ NoSignalIsLost =>
    \A t \in Threads : (calls[t] # <<>>) ~> (calls[t] = <<>>)

\* A collection that is requested takes place, in the program or in any initializer,
\* unless a thread polls for a class whose initializer has to wait for the collection;
\* lost signals do not prevent it.
CollectionsTakePlace ==
  []Undisturbed => (collector # NULL ~> collector = NULL)

\* Stage 1 means "in progress" (class.h): some live thread is at it.
InProgressHasThread ==
  \A c \in Classes : stage[c] = 1 =>
    \E t \in Threads :
      Initializing(t, c) \/ (At(t, "mark") /\ Call(t).cur = c)

\* An initializer executes while its class is in progress, never after the class
\* is done (class.h).
ExecutesInProgress ==
  \A t \in Threads, c \in Classes : Executing(t, c) => stage[c] = 1

============================================================================
