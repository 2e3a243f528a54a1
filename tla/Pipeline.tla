------------------------------ MODULE Pipeline ------------------------------
(***************************************************************************)
(* The threaded path of pipe::run (lib/include/palindrome/pipeline_run.hpp).*)
(*                                                                         *)
(* The calling thread pushes the source's blocks; every block becomes one  *)
(* chain of continuations that hops over the stages' worker threads, each  *)
(* of which drains a FIFO run_loop.  Stages 1 .. NStages - 1 are transforms*)
(* and stage NStages is the sink.  Pool 0 is source_pool, pool s the output*)
(* pool of transform s, so stage s reads a buffer of pool s - 1 and a      *)
(* transform s fills one of pool s.                                        *)
(*                                                                         *)
(* A buffer's content is the number of the block it was computed from: a   *)
(* stage that reads a buffer somebody else has refilled is seen at once.   *)
(* Which free buffer an acquire takes (the code takes the back of a list)  *)
(* tells no property apart, so the free list is a set.                     *)
(***************************************************************************)
EXTENDS Integers, Sequences

CONSTANTS
  NStages,   \* the number of stages, the sink included
  InFlight,  \* InFlight[p]: how many buffers pool p owns
  NBlocks    \* how many blocks the source pushes before it ends

ASSUME NStagesAssumption  == NStages \in Nat \ {0}
ASSUME InFlightAssumption == InFlight \in [0 .. NStages - 1 -> Nat \ {0}]
ASSUME NBlocksAssumption  == NBlocks \in Nat

Stages     == 1 .. NStages
Pools      == 0 .. NStages - 1
Transforms == Stages \ {NStages}
Buffers(p) == 1 .. InFlight[p]
AnyBuffer  == UNION {Buffers(p) : p \in Pools}

Empty == 0   \* the buffer of a default-constructed (or moved-from) Handle

(* What a chain delivers to its next worker: the block it belongs to, the  *)
(* handle, and whether the hop happens after a load that saw `stopped_`.   *)
Chain == [blk : Nat, buf : Nat, saw : BOOLEAN]

VARIABLES
  src,      \* control point of the calling thread inside run()
  next,     \* number of the last block spawned as a chain
  srcBuf,   \* the handle held by the emit lambda
  srcErr,   \* source_error is set
  queue,    \* queue[s]: the FIFO run_loop of stage s's worker
  pc,       \* pc[s]: control point of stage s's worker
  job,      \* job[s]: the chain worker s took last
  out,      \* out[s]: the output handle of transform s
  avail,    \* avail[p]: the counting semaphore of pool p
  free,     \* free[p]: the free list of pool p
  data,     \* data[p][b]: the block that buffer b of pool p was filled from
  active,   \* chains spawned in the async_scope and not complete
  err,      \* ErrorFunnel::error_: the stage it was captured from, or 0
  stopped,  \* ErrorFunnel::stopped_
  view,     \* view[s]: worker s is bound (by coherence) to read stopped_ as set
  last,     \* last[s]: the block stage s's function completed last
  bad,      \* history: the blocks some stage's function threw on
  result    \* how run() left: "none" while it has not

callerVars == <<src, next, srcBuf, srcErr, result>>
workerVars == <<pc, job, out, view>>
poolVars   == <<avail, free, data>>
funnelVars == <<err, stopped>>
ghostVars  == <<last, bad>>
vars == <<callerVars, workerVars, poolVars, funnelVars, ghostVars, queue, active>>

CallerPoints == {"emit", "acquire", "pop", "spawn", "drain", "done"}
WorkerPoints == {"idle", "acquire", "pop", "run", "unwind", "unwound",
                 "release", "post", "hop"}
Results      == {"none", "ok", "source", "stage"}

Init ==
  /\ src = "emit" /\ next = 0 /\ srcBuf = Empty /\ srcErr = FALSE
  /\ queue = [s \in Stages |-> <<>>]
  /\ pc = [s \in Stages |-> "idle"]
  /\ job = [s \in Stages |-> [blk |-> 0, buf |-> Empty, saw |-> FALSE]]
  /\ out = [s \in Stages |-> Empty]
  /\ avail = InFlight
  /\ free = [p \in Pools |-> Buffers(p)]
  /\ data = [p \in Pools |-> [b \in Buffers(p) |-> 0]]
  /\ active = 0
  /\ err = 0 /\ stopped = FALSE
  /\ view = [s \in Stages |-> FALSE]
  /\ last = [s \in Stages |-> 0]
  /\ bad = {}
  /\ result = "none"

-----------------------------------------------------------------------------
(* Pool: a semaphore guards a mutex-protected free list.                   *)

(* Each definition named X_... below is X with a plausible bug: README.md   *)
(* says which property it shows to have teeth.  No specification uses one. *)

SemAcquire_NoWait(p) == avail' = [avail EXCEPT ![p] = @ - 1]

(* acquire(), first half: the semaphore is taken, blocking at zero.        *)
SemAcquire(p) ==
  /\ avail[p] > 0
  /\ avail' = [avail EXCEPT ![p] = @ - 1]

(* acquire(), second half: a buffer leaves the free list.                  *)
PopFree(p, b) ==
  /\ b \in free[p]
  /\ free' = [free EXCEPT ![p] = @ \ {b}]

(* release(), first half: the buffer goes back on the free list.           *)
PushFree(p, b) == free' = [free EXCEPT ![p] = @ \cup {b}]

(* release(), second half: the semaphore is raised.                        *)
SemRelease(p) == avail' = [avail EXCEPT ![p] = @ + 1]

(* What a stage reads through its input handle.                            *)
Content(p, b) == IF b \in Buffers(p) THEN data[p][b] ELSE 0

-----------------------------------------------------------------------------
(* The calling thread.                                                     *)

(* The source has another block and calls emit.                            *)
SourceNext ==
  /\ src = "emit" /\ next < NBlocks
  /\ src' = "acquire"
  /\ UNCHANGED <<next, srcBuf, srcErr, result, workerVars, poolVars,
                 funnelVars, ghostVars, queue, active>>

(* The source reaches its end, or throws: either way run() goes to drain.  *)
SourceEnd ==
  /\ src = "emit"
  /\ \/ next = NBlocks /\ srcErr' = srcErr
     \/ srcErr' = TRUE
  /\ src' = "drain"
  /\ UNCHANGED <<next, srcBuf, result, workerVars, poolVars, funnelVars,
                 ghostVars, queue, active>>

SourceAcquire ==
  /\ src = "acquire"
  /\ SemAcquire(0)
  /\ src' = "pop"
  /\ UNCHANGED <<next, srcBuf, srcErr, result, workerVars, free, data,
                 funnelVars, ghostVars, queue, active>>

SourcePop ==
  /\ src = "pop"
  /\ \E b \in Buffers(0) : PopFree(0, b) /\ srcBuf' = b
  /\ src' = "spawn"
  /\ UNCHANGED <<next, srcErr, result, workerVars, avail, data, funnelVars,
                 ghostVars, queue, active>>

(* The handle is not moved into the chain: the emit lambda releases it.    *)
SourceSpawn_ReleasesHandle ==
  /\ src = "spawn"
  /\ next' = next + 1
  /\ data' = [data EXCEPT ![0][srcBuf] = next + 1]
  /\ queue' = [queue EXCEPT ![1] =
                 Append(@, [blk |-> next + 1, buf |-> srcBuf, saw |-> FALSE])]
  /\ active' = active + 1
  /\ srcBuf' = Empty
  /\ src' = "emit"
  /\ PushFree(0, srcBuf) /\ SemRelease(0)
  /\ UNCHANGED <<srcErr, result, workerVars, funnelVars, ghostVars>>

(* The scope does not count the chain it starts.                           *)
SourceSpawn_Uncounted ==
  /\ src = "spawn"
  /\ next' = next + 1
  /\ data' = [data EXCEPT ![0][srcBuf] = next + 1]
  /\ queue' = [queue EXCEPT ![1] =
                 Append(@, [blk |-> next + 1, buf |-> srcBuf, saw |-> FALSE])]
  /\ srcBuf' = Empty
  /\ src' = "emit"
  /\ UNCHANGED <<srcErr, result, workerVars, avail, free, funnelVars, ghostVars, active>>

(* The block is copied into the owned buffer and its chain is spawned: the *)
(* scope counts it and the first hop enters the queue of worker 1.         *)
SourceSpawn ==
  /\ src = "spawn"
  /\ next' = next + 1
  /\ data' = [data EXCEPT ![0][srcBuf] = next + 1]
  /\ queue' = [queue EXCEPT ![1] =
                 Append(@, [blk |-> next + 1, buf |-> srcBuf, saw |-> FALSE])]
  /\ active' = active + 1
  /\ srcBuf' = Empty
  /\ src' = "emit"
  /\ UNCHANGED <<srcErr, result, workerVars, avail, free, funnelVars, ghostVars>>

(* Only source_error is rethrown.                                          *)
Return_ForgetsFunnel ==
  /\ src = "drain" /\ active = 0
  /\ src' = "done"
  /\ result' = IF srcErr THEN "source" ELSE "ok"
  /\ UNCHANGED <<next, srcBuf, srcErr, workerVars, poolVars, funnelVars,
                 ghostVars, queue, active>>

(* sync_wait(scope.on_empty()) returns once every chain is complete; then  *)
(* source_error is rethrown before the funnel's error.                     *)
Return ==
  /\ src = "drain" /\ active = 0
  /\ src' = "done"
  /\ result' = IF srcErr THEN "source" ELSE IF err # 0 THEN "stage" ELSE "ok"
  /\ UNCHANGED <<next, srcBuf, srcErr, workerVars, poolVars, funnelVars,
                 ghostVars, queue, active>>

Caller == SourceNext \/ SourceEnd \/ SourceAcquire \/ SourcePop \/ SourceSpawn \/ Return

-----------------------------------------------------------------------------
(* Stage s's worker.                                                       *)

Goto(s, point) == pc' = [pc EXCEPT ![s] = point]

(* A load that happens after one that saw the flag may still miss it.      *)
Loads_Incoherent(seen) == {FALSE, stopped}

(* Once a load has returned TRUE, or happens after one that did, it returns*)
(* TRUE; otherwise the relaxed load may return the initial value even      *)
(* though the flag has been stored.                                        *)
Loads(seen) == IF seen THEN {TRUE} ELSE {FALSE, stopped}

(* The worker takes the head of its run_loop and loads stopped_: a tripped *)
(* pipeline skips the stage (a transform returns an empty handle).         *)
Start(s) ==
  /\ pc[s] = "idle" /\ queue[s] # <<>>
  /\ job' = [job EXCEPT ![s] = Head(queue[s])]
  /\ queue' = [queue EXCEPT ![s] = Tail(@)]
  /\ out' = [out EXCEPT ![s] = Empty]
  /\ \E v \in Loads(view[s] \/ Head(queue[s]).saw) :
       /\ view' = [view EXCEPT ![s] = v]
       /\ Goto(s, IF v THEN "release" ELSE IF s = NStages THEN "run" ELSE "acquire")
  /\ UNCHANGED <<callerVars, poolVars, funnelVars, ghostVars, active>>

AcquireOut(s) ==
  /\ pc[s] = "acquire"
  /\ SemAcquire(s)
  /\ Goto(s, "pop")
  /\ UNCHANGED <<callerVars, job, out, view, free, data, funnelVars,
                 ghostVars, queue, active>>

PopOut(s) ==
  /\ pc[s] = "pop"
  /\ \E b \in Buffers(s) : PopFree(s, b) /\ out' = [out EXCEPT ![s] = b]
  /\ Goto(s, "run")
  /\ UNCHANGED <<callerVars, job, view, avail, data, funnelVars, ghostVars,
                 queue, active>>

(* The stage's function reads its input; a transform fills its output.     *)
RunOk(s) ==
  LET block == Content(s - 1, job[s].buf) IN
  /\ pc[s] = "run"
  /\ last' = [last EXCEPT ![s] = block]
  /\ data' = IF s = NStages THEN data ELSE [data EXCEPT ![s][out[s]] = block]
  /\ Goto(s, "release")
  /\ UNCHANGED <<callerVars, job, out, view, avail, free, funnelVars, bad,
                 queue, active>>

(* The output handle is not a local of the try block: nothing releases it. *)
RunThrow_LeaksOut(s) ==
  /\ pc[s] = "run"
  /\ bad' = bad \cup {job[s].blk}
  /\ out' = [out EXCEPT ![s] = Empty]
  /\ Goto(s, "unwound")
  /\ UNCHANGED <<callerVars, job, view, poolVars, last, queue, funnelVars, active>>

(* The function throws.  A transform's output handle is destroyed by the   *)
(* unwinding, before the catch block captures the exception.               *)
RunThrow(s) ==
  /\ pc[s] = "run"
  /\ bad' = bad \cup {job[s].blk}
  /\ IF s = NStages THEN UNCHANGED free ELSE PushFree(s, out[s])
  /\ out' = [out EXCEPT ![s] = Empty]
  /\ Goto(s, IF s = NStages THEN "unwound" ELSE "unwind")
  /\ UNCHANGED <<callerVars, job, view, avail, data, funnelVars, last, queue, active>>

UnwindOut(s) ==
  /\ pc[s] = "unwind"
  /\ SemRelease(s)
  /\ Goto(s, "unwound")
  /\ UNCHANGED <<callerVars, job, out, view, free, data, funnelVars,
                 ghostVars, queue, active>>

(* The exception is kept but the flag is never stored.                     *)
Capture_NoStop(s) ==
  /\ pc[s] = "unwound"
  /\ err' = IF err = 0 THEN s ELSE err
  /\ Goto(s, "release")
  /\ UNCHANGED <<callerVars, job, out, view, poolVars, stopped, ghostVars, queue, active>>

(* ErrorFunnel::capture: the first exception is kept, the flag is set.     *)
Capture(s) ==
  /\ pc[s] = "unwound"
  /\ err' = IF err = 0 THEN s ELSE err
  /\ stopped' = TRUE
  /\ view' = [view EXCEPT ![s] = TRUE]
  /\ Goto(s, "release")
  /\ UNCHANGED <<callerVars, job, out, poolVars, ghostVars, queue, active>>

(* The stage's lambda returns: its input handle is destroyed (an empty one *)
(* releases nothing).                                                      *)
ReleaseIn(s) ==
  /\ pc[s] = "release"
  /\ IF job[s].buf = Empty
     THEN Goto(s, "hop") /\ UNCHANGED free
     ELSE Goto(s, "post") /\ PushFree(s - 1, job[s].buf)
  /\ UNCHANGED <<callerVars, job, out, view, avail, data, funnelVars,
                 ghostVars, queue, active>>

PostIn(s) ==
  /\ pc[s] = "post"
  /\ SemRelease(s - 1)
  /\ Goto(s, "hop")
  /\ UNCHANGED <<callerVars, job, out, view, free, data, funnelVars,
                 ghostVars, queue, active>>

(* A tripped transform abandons the chain instead of passing it on empty.  *)
Hop_DropsTripped(s) ==
  /\ pc[s] = "hop"
  /\ IF s = NStages
     THEN active' = active - 1 /\ UNCHANGED queue
     ELSE /\ queue' = IF view[s] THEN queue
                      ELSE [queue EXCEPT ![s + 1] =
                              Append(@, [blk |-> job[s].blk, buf |-> out[s], saw |-> FALSE])]
          /\ UNCHANGED active
  /\ out' = [out EXCEPT ![s] = Empty]
  /\ Goto(s, "idle")
  /\ UNCHANGED <<callerVars, job, view, poolVars, funnelVars, ghostVars>>

(* The chain continues on the next worker, or is complete after the sink.  *)
Hop(s) ==
  /\ pc[s] = "hop"
  /\ IF s = NStages
     THEN active' = active - 1 /\ UNCHANGED queue
     ELSE /\ queue' = [queue EXCEPT ![s + 1] =
                         Append(@, [blk |-> job[s].blk, buf |-> out[s], saw |-> view[s]])]
          /\ UNCHANGED active
  /\ out' = [out EXCEPT ![s] = Empty]
  /\ Goto(s, "idle")
  /\ UNCHANGED <<callerVars, job, view, poolVars, funnelVars, ghostVars>>

Worker(s) ==
  \/ Start(s) \/ AcquireOut(s) \/ PopOut(s)
  \/ RunOk(s) \/ RunThrow(s) \/ UnwindOut(s) \/ Capture(s)
  \/ ReleaseIn(s) \/ PostIn(s) \/ Hop(s)

-----------------------------------------------------------------------------
(* run() has returned: the workers are joined and nothing moves any more.  *)
Returned == src = "done" /\ UNCHANGED vars

Next == Caller \/ (\E s \in Stages : Worker(s)) \/ Returned

Spec == Init /\ [][Next]_vars

(* Every thread keeps running while it can: no lock is held across a block,*)
(* and each semaphore has a single waiter, so weak fairness is enough.     *)
Fairness == WF_vars(Caller) /\ \A s \in Stages : WF_vars(Worker(s))

FairSpec == Spec /\ Fairness
-----------------------------------------------------------------------------
(* Properties.                                                             *)

(* Every variable has its type.                                            *)
TypeOK ==
  /\ src \in CallerPoints /\ next \in Nat /\ srcBuf \in Nat /\ srcErr \in BOOLEAN
  /\ queue \in [Stages -> Seq(Chain)]
  /\ pc \in [Stages -> WorkerPoints]
  /\ job \in [Stages -> Chain]
  /\ out \in [Stages -> Nat]
  /\ avail \in [Pools -> Nat]
  /\ free \in [Pools -> SUBSET Nat]
  /\ \A p \in Pools : free[p] \subseteq Buffers(p)
  /\ DOMAIN data = Pools
  /\ \A p \in Pools : data[p] \in [Buffers(p) -> Nat]
  /\ active \in Nat
  /\ err \in 0 .. NStages /\ stopped \in BOOLEAN
  /\ view \in [Stages -> BOOLEAN]
  /\ last \in [Stages -> Nat]
  /\ bad \subseteq Nat
  /\ result \in Results

(* Pool::acquire never calls back() on an empty free list: whoever passed  *)
(* the semaphore finds a buffer, whatever another thread is halfway        *)
(* through releasing.                                                      *)
PopNeverEmpty ==
  /\ src = "pop" => free[0] # {}
  /\ \A s \in Transforms : pc[s] = "pop" => free[s] # {}

(* A stage's function is never called with the empty handle a tripped      *)
(* upstream stage returned, although stopped_ is stored and loaded relaxed.*)
NoEmptyDeref == \A s \in Stages : pc[s] = "run" => job[s].buf # Empty

(* Every stage's function completes on block 1, 2, 3, ... in order, with   *)
(* no gap or repetition, and on intact data: a buffer refilled while in    *)
(* use, a reordered chain or a block run after a skipped one breaks it.    *)
InOrder ==
  [][\A s \in Stages : last'[s] # last[s] => last'[s] = last[s] + 1]_vars

(* The handles of pool p's buffers: the source's, the ones waiting in the  *)
(* reader's run_loop, the reader's input and the writer's output.          *)
QueuedBuffers(s) == {queue[s][i].buf : i \in 1 .. Len(queue[s])} \ {Empty}
InputHeld(s) == pc[s] \in {"acquire", "pop", "run", "unwind", "unwound", "release"}
Holders(p) ==
  (IF p = 0 THEN {srcBuf} ELSE {out[p]}) \cup QueuedBuffers(p + 1)
    \cup (IF InputHeld(p + 1) THEN {job[p + 1].buf} ELSE {})

(* Every buffer of every pool is free or held, and never both: no path (a  *)
(* skip, a throw, a drop mid-pipeline) leaks a buffer or frees one in use. *)
BuffersConserved ==
  \A p \in Pools : /\ free[p] \cup (Holders(p) \ {Empty}) = Buffers(p)
                   /\ free[p] \cap Holders(p) = {}

(* Until a stage fails, backpressure bounds the blocks that wait for stage *)
(* s or are in its hands by the pool it reads from.                        *)
BackpressureBound ==
  ~stopped => \A s \in Stages :
    Len(queue[s]) + (IF InputHeld(s) THEN 1 ELSE 0) <= InFlight[s - 1]

(* When run() leaves, by any exit, every run_loop is empty, every worker   *)
(* idle and every buffer home: no handle outlives its pool, no chain       *)
(* touches a worker that is being destroyed.                               *)
CleanDrain ==
  src = "done" => /\ \A s \in Stages : queue[s] = <<>> /\ pc[s] = "idle"
                  /\ \A p \in Pools : free[p] = Buffers(p) /\ avail[p] = InFlight[p]

(* Threaded execution keeps the promise of the streaming run.              *)
Promise == INSTANCE StreamRun WITH emitted <- next, sunk <- last[NStages]
Refines == Promise!Spec

(* run() leaves: no schedule of throws and backpressure wedges the drain.  *)
Terminates == <>(src = "done")
=============================================================================
