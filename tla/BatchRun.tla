------------------------------ MODULE BatchRun ------------------------------
(***************************************************************************)
(* What WorkQueue::run promises its caller (work_queue.hpp, the comment on *)
(* run): every task of a batch runs exactly once, run() returns only when  *)
(* all have completed, and it rethrows an exception of this batch exactly  *)
(* when a task of this batch threw.                                        *)
(***************************************************************************)
EXTENDS Integers

CONSTANT MaxTasks   \* the size of the largest batch

VARIABLES
  size,     \* tasks in the batch being run; 0 between batches
  started,  \* tasks somebody has begun
  done,     \* tasks that have completed, normally or not
  failed,   \* tasks that threw
  outcome   \* of the last batch: "none", "ok" or "rethrown"

vars == <<size, started, done, failed, outcome>>

Tasks(n) == 0 .. n - 1

Init == size = 0 /\ started = {} /\ done = {} /\ failed = {} /\ outcome = "none"

(* run(tasks) with at least one task is entered...                         *)
Submit(n) ==
  /\ size = 0
  /\ size' = n /\ started' = {} /\ done' = {} /\ failed' = {}
  /\ outcome' = "none"

(* ... and with none, it returns at once.                                  *)
SubmitNone ==
  /\ size = 0
  /\ started' = {} /\ done' = {} /\ failed' = {} /\ outcome' = "ok"
  /\ UNCHANGED size

Begin(i) ==
  /\ i \in Tasks(size) \ started
  /\ started' = started \cup {i}
  /\ \/ failed' = failed
     \/ failed' = failed \cup {i}
  /\ UNCHANGED <<size, done, outcome>>

Complete(i) ==
  /\ i \in started \ done
  /\ done' = done \cup {i}
  /\ UNCHANGED <<size, started, failed, outcome>>

(* The last completion and the return may be one step of the caller.       *)
Return ==
  /\ size > 0
  /\ done' = Tasks(size) /\ done \subseteq done'
  /\ started = Tasks(size)
  /\ outcome' = IF failed = {} THEN "ok" ELSE "rethrown"
  /\ size' = 0
  /\ UNCHANGED <<started, failed>>

Next ==
  \/ \E n \in 1 .. MaxTasks : Submit(n)
  \/ SubmitNone
  \/ \E i \in 0 .. MaxTasks - 1 : Begin(i) \/ Complete(i)
  \/ Return

Spec == Init /\ [][Next]_vars
=============================================================================
