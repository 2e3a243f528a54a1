----------------------------- MODULE WorkQueue -----------------------------
(***************************************************************************)
(* WorkQueue (lib/include/palindrome/work_queue.hpp): persistent workers   *)
(* and the calling thread drain one batch of tasks after another.          *)
(*                                                                         *)
(* Everything but tasks_[i]() happens under mtx_, from a lock (or a wake)  *)
(* to the next unlock or wait; such a section is one action.  A thread in  *)
(* "woken" has been notified and contends for mtx_.  The calling thread's  *)
(* purely inline run() (threads_ == 1) shares nothing and is not modelled. *)
(***************************************************************************)
EXTENDS Integers, FiniteSets

CONSTANTS
  Workers,     \* the threads_ - 1 persistent helpers
  Caller,      \* the thread that calls run() and the destructor
  MaxTasks,    \* the size of the largest batch
  MaxBatches   \* bound: how many times run() is called before destruction

ASSUME ThreadsAssumption ==
  /\ IsFiniteSet(Workers) /\ Workers # {}
  /\ Caller \notin Workers
ASSUME BoundsAssumption == MaxTasks \in Nat /\ MaxBatches \in Nat

Participants == Workers \cup {Caller}
NoTask == -1

VARIABLES
  pc,         \* control point of every thread
  mine,       \* mine[t]: the task thread t claimed last
  threw,      \* threw[t]: its `err` is set
  size,       \* tasks_.size()
  next,       \* next_
  remaining,  \* remaining_
  firstError, \* first_error_: the task that threw it, or NoTask
  stop,       \* stop_
  alive,      \* mtx_, the condition variables and stop_ are not destroyed yet
  batch,      \* history: run() calls so far
  executed,   \* history: how often each task of the batch has been executed
  failed,     \* history: the tasks of the batch that threw
  outcome     \* how the last run() ended: "none", "ok" or "rethrown"

batchVars == <<size, next, remaining, firstError>>
endVars   == <<stop, alive>>
history   == <<executed, failed>>
vars == <<pc, mine, threw, batchVars, endVars, batch, history, outcome>>

Indices == 0 .. MaxTasks - 1

Init ==
  /\ pc = [t \in Participants |-> IF t = Caller THEN "idle" ELSE "woken"]
  /\ mine = [t \in Participants |-> NoTask]
  /\ threw = [t \in Participants |-> FALSE]
  /\ size = 0 /\ next = 0 /\ remaining = 0 /\ firstError = NoTask
  /\ stop = FALSE /\ alive = TRUE
  /\ batch = 0
  /\ executed = [i \in Indices |-> 0] /\ failed = {}
  /\ outcome = "none"

-----------------------------------------------------------------------------
(* notify_all on work_cv_ and notify_one on done_cv_ (only the caller waits*)
(* there), as functions of the control points.                             *)
NotifyWorkers(points) ==
  [t \in Participants |-> IF t \in Workers /\ points[t] = "asleep" THEN "woken" ELSE points[t]]

(* Each definition named X_... is X with a plausible bug: README.md says   *)
(* which property it shows to have teeth.  No specification uses one.      *)
NotifyCaller_Forgotten(points) == points

NotifyCaller(points) ==
  IF points[Caller] = "asleep" THEN [points EXCEPT ![Caller] = "woken"] ELSE points

(* The rest of a critical section of drain(), with remaining_ = left and   *)
(* first_error_ = error: the loop claims the next pending task...          *)
Claim_Unchecked(t, points, error) ==   \* do ... while instead of while
  /\ mine' = [mine EXCEPT ![t] = next]
  /\ next' = next + 1
  /\ pc' = [points EXCEPT ![t] = "claimed"]
  /\ firstError' = error
  /\ UNCHANGED <<size, outcome>>

Claim(t, points, error) ==
  /\ next < size
  /\ mine' = [mine EXCEPT ![t] = next]
  /\ next' = next + 1
  /\ pc' = [points EXCEPT ![t] = "claimed"]
  /\ firstError' = error
  /\ UNCHANGED <<size, outcome>>

(* ... or it is over: a worker waits for stop_ or the next batch...        *)
Park(w, points, error) ==
  /\ next >= size
  /\ pc' = [points EXCEPT ![w] = IF stop THEN "exited" ELSE "asleep"]
  /\ firstError' = error
  /\ UNCHANGED <<mine, size, next, outcome>>

(* The exception is rethrown but stays in first_error_.                    *)
AwaitOrReturn_KeepsError(points, left, error) ==
  /\ next >= size
  /\ IF left > 0
     THEN /\ pc' = [points EXCEPT ![Caller] = "asleep"]
          /\ UNCHANGED <<size, outcome>>
     ELSE /\ pc' = [points EXCEPT ![Caller] = "idle"]
          /\ size' = 0
          /\ outcome' = IF error = NoTask THEN "ok" ELSE "rethrown"
  /\ firstError' = error
  /\ UNCHANGED <<mine, next>>

(* The caller does not wait for the tasks the workers still run.           *)
AwaitOrReturn_NoWait(points, left, error) ==
  /\ next >= size
  /\ pc' = [points EXCEPT ![Caller] = "idle"]
  /\ size' = 0
  /\ outcome' = IF error = NoTask THEN "ok" ELSE "rethrown"
  /\ firstError' = NoTask
  /\ UNCHANGED <<mine, next>>

(* ... and the caller waits for remaining_ == 0, then drops the batch and  *)
(* rethrows its first exception, exchanging it for null.                   *)
AwaitOrReturn(points, left, error) ==
  /\ next >= size
  /\ IF left > 0
     THEN /\ pc' = [points EXCEPT ![Caller] = "asleep"]
          /\ firstError' = error
          /\ UNCHANGED <<size, outcome>>
     ELSE /\ pc' = [points EXCEPT ![Caller] = "idle"]
          /\ size' = 0
          /\ outcome' = IF error = NoTask THEN "ok" ELSE "rethrown"
          /\ firstError' = NoTask
  /\ UNCHANGED <<mine, next>>

Continue(t, points, left, error) ==
  /\ remaining' = left
  /\ \/ Claim(t, points, error)
     \/ t \in Workers /\ Park(t, points, error)
     \/ t = Caller /\ AwaitOrReturn(points, left, error)

-----------------------------------------------------------------------------
(* run(tasks): the batch is published and the workers notified; the caller *)
(* claims the first task, or returns at once from an empty batch.          *)
Submit ==
  /\ pc[Caller] = "idle" /\ batch < MaxBatches
  /\ batch' = batch + 1
  /\ executed' = [i \in Indices |-> 0] /\ failed' = {}
  /\ \E n \in 0 .. MaxTasks :
       /\ size' = n /\ remaining' = n
       /\ IF n = 0
          THEN /\ next' = 0 /\ outcome' = "ok"
               /\ pc' = NotifyWorkers(pc)
               /\ UNCHANGED mine
          ELSE /\ next' = 1 /\ outcome' = "none"
               /\ mine' = [mine EXCEPT ![Caller] = 0]
               /\ pc' = [NotifyWorkers(pc) EXCEPT ![Caller] = "claimed"]
  /\ UNCHANGED <<threw, firstError, endVars>>

(* tasks_[i]() without the lock: the span is read here, not when claimed.  *)
Execute(t) ==
  /\ pc[t] = "claimed"
  /\ executed' = [executed EXCEPT ![mine[t]] = @ + 1]
  /\ \E throws \in BOOLEAN :
       /\ threw' = [threw EXCEPT ![t] = throws]
       /\ failed' = IF throws THEN failed \cup {mine[t]} ELSE failed
  /\ pc' = [pc EXCEPT ![t] = "ran"]
  /\ UNCHANGED <<mine, batchVars, endVars, batch, outcome>>

(* The lock is taken again: the task is accounted for, the last one wakes  *)
(* the caller, and the loop goes on.                                       *)
Finish(t) ==
  /\ pc[t] = "ran"
  /\ Continue(t,
       IF remaining = 1 THEN NotifyCaller(pc) ELSE pc,
       remaining - 1,
       IF threw[t] /\ firstError = NoTask THEN mine[t] ELSE firstError)
  /\ UNCHANGED <<threw, endVars, batch, history>>

(* A notified thread holds mtx_ and tests its predicate: a worker tests    *)
(* stop_ before it looks for tasks.                                        *)
Wake(t) ==
  /\ pc[t] = "woken"
  /\ IF t \in Workers /\ stop
     THEN /\ pc' = [pc EXCEPT ![t] = "exited"]
          /\ UNCHANGED <<mine, batchVars, outcome>>
     ELSE Continue(t, pc, remaining, firstError)
  /\ UNCHANGED <<threw, endVars, batch, history>>

(* wait() may return without a notification.                               *)
SpuriousWake(t) ==
  /\ pc[t] = "asleep"
  /\ pc' = [pc EXCEPT ![t] = "woken"]
  /\ UNCHANGED <<mine, threw, batchVars, endVars, batch, history, outcome>>

-----------------------------------------------------------------------------
(* The workers are not told.                                               *)
Stop_Unnotified ==
  /\ pc[Caller] = "idle"
  /\ stop' = TRUE
  /\ pc' = [pc EXCEPT ![Caller] = "destroying"]
  /\ UNCHANGED <<mine, threw, batchVars, alive, batch, history, outcome>>

(* ~WorkQueue: stop_ is set and the workers notified...                    *)
Stop ==
  /\ pc[Caller] = "idle"
  /\ stop' = TRUE
  /\ pc' = [NotifyWorkers(pc) EXCEPT ![Caller] = "destroying"]
  /\ UNCHANGED <<mine, threw, batchVars, alive, batch, history, outcome>>

(* ... the members declared after workers_ are destroyed before it...      *)
DestroyMembers ==
  /\ pc[Caller] = "destroying"
  /\ alive' = FALSE
  /\ pc' = [pc EXCEPT ![Caller] = "joining"]
  /\ UNCHANGED <<mine, threw, batchVars, stop, batch, history, outcome>>

(* ... and workers_ last: every jthread joins.                             *)
Join ==
  /\ pc[Caller] = "joining"
  /\ \A w \in Workers : pc[w] = "exited"
  /\ pc' = [pc EXCEPT ![Caller] = "exited"]
  /\ UNCHANGED <<mine, threw, batchVars, endVars, batch, history, outcome>>

-----------------------------------------------------------------------------
Thread(t) == Execute(t) \/ Finish(t) \/ Wake(t)

CallerStep == Submit \/ Stop \/ DestroyMembers \/ Join

Gone == pc[Caller] = "exited" /\ UNCHANGED vars

Next ==
  \/ CallerStep
  \/ \E t \in Participants : Thread(t) \/ SpuriousWake(t)
  \/ Gone

Spec == Init /\ [][Next]_vars

(* Every thread runs on; nobody relies on a spurious wakeup.               *)
Fairness ==
  /\ \A t \in Participants : WF_vars(Thread(t))
  /\ WF_vars(CallerStep)

FairSpec == Spec /\ Fairness

-----------------------------------------------------------------------------
(* Properties.                                                             *)

ThreadPoints == {"idle", "asleep", "woken", "claimed", "ran", "destroying", "joining", "exited"}

(* Every variable has its type.                                            *)
TypeOK ==
  /\ pc \in [Participants -> ThreadPoints]
  /\ mine \in [Participants -> Indices \cup {NoTask}]
  /\ threw \in [Participants -> BOOLEAN]
  /\ size \in 0 .. MaxTasks /\ next \in 0 .. MaxTasks
  /\ remaining \in 0 .. MaxTasks
  /\ firstError \in Indices \cup {NoTask}
  /\ stop \in BOOLEAN /\ alive \in BOOLEAN
  /\ batch \in 0 .. MaxBatches
  /\ executed \in [Indices -> Nat] /\ failed \subseteq Indices
  /\ outcome \in {"none", "ok", "rethrown"}

Busy == {t \in Participants : pc[t] \in {"claimed", "ran"}}

(* remaining_ counts exactly the tasks not yet completed: those nobody has *)
(* claimed and those a thread holds.  Off by one, run() returns under a    *)
(* running task or never.                                                  *)
Unclaimed == IF next < size THEN size - next ELSE 0
RemainingExact == remaining = Unclaimed + Cardinality(Busy)

(* The unlocked tasks_[i] of a claimed task reads the batch it was claimed *)
(* from: tasks_ is never replaced or dropped under a thread holding one,   *)
(* and no two threads hold the same task.                                  *)
ClaimsAreOwn ==
  /\ \A t \in Busy : mine[t] \in 0 .. size - 1 /\ mine[t] < next
  /\ \A t, u \in Busy : t # u => mine[t] # mine[u]

(* WorkQueue keeps the promise of run(): once each, all done on return,    *)
(* and the outcome of this batch, not of an earlier one.                   *)
Held(i) == \E t \in Busy : mine[t] = i
Promise == INSTANCE BatchRun WITH
  started <- {i \in Indices : executed[i] > 0},
  done    <- {i \in Indices : executed[i] > 0 /\ ~Held(i)}
Refines == Promise!Spec

(* Every batch returns, whichever threads sleep when it arrives...         *)
BatchReturns == (size > 0) ~> (size = 0)

(* ... and once stop_ is set every worker leaves its loop, parked or not.  *)
WorkersExit == stop ~> (\A w \in Workers : pc[w] = "exited")

(* "The jthread members join on destruction once worker() returns"         *)
(* (work_queue.hpp, ~WorkQueue): they join while the mutex, the condition  *)
(* variables and the flag worker() still uses exist.  The code breaks it   *)
(* (README.md, Disagreements): no run checks it.                           *)
JoinedWhileAlive == ~alive => \A w \in Workers : pc[w] = "exited"
=============================================================================
