--------------------------- MODULE PipelineProofs ---------------------------
(***************************************************************************)
(* Proofs about Pipeline, for any number of stages, buffers and blocks.    *)
(***************************************************************************)
EXTENDS Pipeline, FiniteSetTheorems, FunctionTheorems, TLAPS

(* The chains stage s has handed on, and those it has been handed.         *)
Passed(s) == IF pc[s] = "idle" THEN job[s].blk ELSE job[s].blk - 1
Sent(s)   == IF s = 1 THEN next ELSE Passed(s - 1)

(* Chains stay in order: stage s has taken blocks 1 .. job[s].blk, and the *)
(* ones it has been handed beyond these wait in its queue.                 *)
Numbered ==
  \A s \in Stages :
    /\ job[s].blk + Len(queue[s]) = Sent(s)
    /\ \A i \in 1 .. Len(queue[s]) : queue[s][i].blk = job[s].blk + i
    /\ pc[s] # "idle" => job[s].blk > 0

(* No stage overtakes an earlier one; the scope counts what the sink has   *)
(* not completed.                                                          *)
Ordered ==
  /\ \A s \in Stages : Passed(s) <= next
  /\ \A s, u \in Stages : s < u => Passed(u) <= Passed(s)
  /\ active = next - Passed(NStages)
  /\ src = "done" => active = 0

(* An empty handle comes after a load that saw stopped_; a stage that has  *)
(* not seen it has completed every block it took.                          *)
Flagged ==
  \A s \in Stages :
    /\ \A i \in 1 .. Len(queue[s]) : queue[s][i].buf = Empty => queue[s][i].saw
    /\ pc[s] \in {"acquire", "pop", "run"} =>
         ~view[s] /\ job[s].buf # Empty /\ job[s].blk = last[s] + 1
    /\ pc[s] \in {"idle", "release", "post", "hop"} => view[s] \/ job[s].blk = last[s]
    /\ pc[s] \in {"release", "post", "hop"} /\ s # NStages => view[s] \/ out[s] # Empty

(* When a thread holds an output buffer.                                   *)
Holding ==
  /\ srcBuf # Empty <=> src = "spawn"
  /\ \A s \in Stages :
       /\ out[s] # Empty => s # NStages /\ pc[s] \in {"run", "release", "post", "hop"}
       /\ pc[s] = "run" /\ s # NStages => out[s] # Empty
  /\ pc[NStages] \notin {"acquire", "pop", "unwind"}

(* Who may hold a buffer of pool p: the thread that fills it, the chains   *)
(* queued for the stage that reads it, and that stage.                     *)
Writer(p)   == IF p = 0 THEN srcBuf ELSE out[p]
Reader(p)   == IF InputHeld(p + 1) THEN job[p + 1].buf ELSE Empty
Waiting(p)  == queue[p + 1]

(* A held buffer is the pool's, not free, and held once.                   *)
OwnedAt(p) ==
  /\ Writer(p) # Empty => Writer(p) \in Buffers(p) \ free[p]
  /\ Reader(p) # Empty => Reader(p) \in Buffers(p) \ free[p] /\ Reader(p) # Writer(p)
  /\ \A i \in 1 .. Len(Waiting(p)) :
       Waiting(p)[i].buf # Empty =>
         /\ Waiting(p)[i].buf \in Buffers(p) \ free[p]
         /\ Waiting(p)[i].buf # Writer(p) /\ Waiting(p)[i].buf # Reader(p)
         /\ \A j \in 1 .. Len(Waiting(p)) : j # i => Waiting(p)[j].buf # Waiting(p)[i].buf

(* A buffer that is not free is held.                                      *)
NoneLostAt(p) ==
  \A b \in Buffers(p) :
    \/ b \in free[p] \/ b = Writer(p) \/ b = Reader(p)
    \/ \E i \in 1 .. Len(Waiting(p)) : Waiting(p)[i].buf = b

(* A buffer handed over holds the block its chain belongs to.              *)
IntactAt(p) ==
  /\ Reader(p) # Empty => data[p][Reader(p)] = job[p + 1].blk
  /\ \A i \in 1 .. Len(Waiting(p)) :
       Waiting(p)[i].buf # Empty => data[p][Waiting(p)[i].buf] = Waiting(p)[i].blk
  /\ p # 0 /\ out[p] # Empty /\ pc[p] \in {"release", "post", "hop"} =>
       data[p][out[p]] = job[p].blk

(* The semaphore lags the free list by the threads between the two halves  *)
(* of acquire() and of release().                                          *)
Between(p) ==
  (IF p = 0 THEN IF src = "pop" THEN 1 ELSE 0
            ELSE IF pc[p] \in {"pop", "unwind"} THEN 1 ELSE 0)
  + (IF pc[p + 1] = "post" THEN 1 ELSE 0)
CountedAt(p) == Cardinality(free[p]) = avail[p] + Between(p)

Pooled == \A p \in Pools : OwnedAt(p) /\ NoneLostAt(p) /\ IntactAt(p) /\ CountedAt(p)

IInv == TypeOK /\ Numbered /\ Ordered /\ Flagged /\ Holding /\ Pooled

-----------------------------------------------------------------------------
(* The steps of worker s between taking a chain and handing it on.         *)
Inner(s) ==
  \/ AcquireOut(s) \/ PopOut(s) \/ RunOk(s) \/ RunThrow(s) \/ UnwindOut(s)
  \/ Capture(s) \/ ReleaseIn(s) \/ PostIn(s)

(* The steps of the calling thread that spawn nothing.                     *)
Quiet == SourceNext \/ SourceEnd \/ SourceAcquire \/ SourcePop \/ Return

LEMMA NextCases ==
  ASSUME Next
  PROVE  \/ Quiet \/ SourceSpawn \/ Returned
         \/ \E s \in Stages : Start(s) \/ Inner(s) \/ Hop(s)
BY DEF Next, Caller, Worker, Inner, Quiet

LEMMA InnerFrame ==
  ASSUME TypeOK, NEW s \in Stages, Inner(s)
  PROVE  /\ pc[s] # "idle"
         /\ \E point \in WorkerPoints \ {"idle"} : pc' = [pc EXCEPT ![s] = point]
         /\ UNCHANGED <<callerVars, job, queue, active>>
<1>1. CASE AcquireOut(s)
  BY <1>1 DEF AcquireOut, Goto, WorkerPoints
<1>2. CASE PopOut(s)
  BY <1>2 DEF PopOut, Goto, WorkerPoints
<1>3. CASE RunOk(s)
  BY <1>3 DEF RunOk, Goto, WorkerPoints
<1>4. CASE RunThrow(s)
  BY <1>4 DEF RunThrow, Goto, WorkerPoints
<1>5. CASE UnwindOut(s)
  BY <1>5 DEF UnwindOut, Goto, WorkerPoints
<1>6. CASE Capture(s)
  BY <1>6 DEF Capture, Goto, WorkerPoints
<1>7. CASE ReleaseIn(s)
  BY <1>7 DEF ReleaseIn, Goto, WorkerPoints
<1>8. CASE PostIn(s)
  BY <1>8 DEF PostIn, Goto, WorkerPoints
<1> QED
  BY <1>1, <1>2, <1>3, <1>4, <1>5, <1>6, <1>7, <1>8 DEF Inner

LEMMA QuietFrame ==
  ASSUME Quiet
  PROVE  UNCHANGED <<next, workerVars, queue, funnelVars, ghostVars, data, active>>
BY DEF Quiet, SourceNext, SourceEnd, SourceAcquire, SourcePop, Return, callerVars, poolVars

(* What a worker takes from its queue.                                     *)
LEMMA StartFacts ==
  ASSUME TypeOK, Numbered, NEW s \in Stages, Start(s)
  PROVE  /\ pc[s] = "idle" /\ Len(queue[s]) > 0
         /\ job' = [job EXCEPT ![s] = queue[s][1]]
         /\ queue' = [queue EXCEPT ![s] = Tail(queue[s])]
         /\ queue[s][1] \in Chain /\ queue[s][1].blk = job[s].blk + 1
         /\ Len(Tail(queue[s])) = Len(queue[s]) - 1
         /\ \A i \in 1 .. Len(queue[s]) - 1 : Tail(queue[s])[i] = queue[s][i + 1]
         /\ \E v \in BOOLEAN :
              /\ view' = [view EXCEPT ![s] = v]
              /\ ~v => ~view[s] /\ ~queue[s][1].saw
              /\ pc' = [pc EXCEPT ![s] =
                          IF v THEN "release" ELSE IF s = NStages THEN "run" ELSE "acquire"]
         /\ UNCHANGED <<callerVars, poolVars, funnelVars, ghostVars, active>>
<1>1. queue[s] \in Seq(Chain) /\ queue[s] # <<>> /\ Len(queue[s]) > 0
  BY DEF Start, TypeOK
<1>2. Head(queue[s]) = queue[s][1] /\ queue[s][1] \in Chain
  BY <1>1
<1>3. /\ Len(Tail(queue[s])) = Len(queue[s]) - 1
      /\ \A i \in 1 .. Len(queue[s]) - 1 : Tail(queue[s])[i] = queue[s][i + 1]
  BY <1>1
<1>4. queue[s][1].blk = job[s].blk + 1
  BY <1>1 DEF Numbered
<1>5. \E v \in BOOLEAN :
        /\ view' = [view EXCEPT ![s] = v]
        /\ ~v => ~view[s] /\ ~queue[s][1].saw
        /\ pc' = [pc EXCEPT ![s] =
                    IF v THEN "release" ELSE IF s = NStages THEN "run" ELSE "acquire"]
  <2>1. PICK v \in Loads(view[s] \/ Head(queue[s]).saw) :
          /\ view' = [view EXCEPT ![s] = v]
          /\ Goto(s, IF v THEN "release" ELSE IF s = NStages THEN "run" ELSE "acquire")
    BY DEF Start
  <2>2. v \in BOOLEAN /\ (~v => ~view[s] /\ ~queue[s][1].saw)
    BY <1>2, <2>1 DEF Loads, TypeOK, Chain
  <2> QED
    BY <2>1, <2>2 DEF Goto
<1> QED
  BY <1>1, <1>2, <1>3, <1>4, <1>5 DEF Start

(* What a worker hands on.                                                 *)
LEMMA HopFacts ==
  ASSUME TypeOK, NEW s \in Stages, Hop(s)
  PROVE  /\ pc[s] = "hop" /\ pc' = [pc EXCEPT ![s] = "idle"]
         /\ out' = [out EXCEPT ![s] = Empty]
         /\ s = NStages => active' = active - 1 /\ queue' = queue
         /\ s # NStages =>
              /\ active' = active /\ s + 1 \in Stages
              /\ \A u \in Stages \ {s + 1} : queue'[u] = queue[u]
              /\ Len(queue'[s + 1]) = Len(queue[s + 1]) + 1
              /\ \A i \in 1 .. Len(queue[s + 1]) : queue'[s + 1][i] = queue[s + 1][i]
              /\ queue'[s + 1][Len(queue[s + 1]) + 1] =
                   [blk |-> job[s].blk, buf |-> out[s], saw |-> view[s]]
         /\ queue' \in [Stages -> Seq(Chain)]
         /\ UNCHANGED <<callerVars, job, view, poolVars, funnelVars, ghostVars>>
<1>1. /\ pc[s] = "hop" /\ pc' = [pc EXCEPT ![s] = "idle"]
      /\ out' = [out EXCEPT ![s] = Empty]
      /\ UNCHANGED <<callerVars, job, view, poolVars, funnelVars, ghostVars>>
  BY DEF Hop, Goto
<1>2. CASE s = NStages
  BY <1>1, <1>2 DEF Hop, TypeOK
<1>3. CASE s # NStages
  <2>1. s + 1 \in Stages
    BY <1>3, NStagesAssumption DEF Stages
  <2> DEFINE c == [blk |-> job[s].blk, buf |-> out[s], saw |-> view[s]]
  <2>2. /\ active' = active
        /\ queue' = [queue EXCEPT ![s + 1] = Append(queue[s + 1], c)]
    BY <1>3, <2>1 DEF Hop
  <2>3. c \in Chain
    BY DEF TypeOK, Chain
  <2>4. queue[s + 1] \in Seq(Chain)
    BY <2>1 DEF TypeOK
  <2>5. /\ Append(queue[s + 1], c) \in Seq(Chain)
        /\ Len(Append(queue[s + 1], c)) = Len(queue[s + 1]) + 1
        /\ \A i \in 1 .. Len(queue[s + 1]) : Append(queue[s + 1], c)[i] = queue[s + 1][i]
        /\ Append(queue[s + 1], c)[Len(queue[s + 1]) + 1] = c
    BY <2>3, <2>4
  <2> QED
    BY <1>1, <1>3, <2>1, <2>2, <2>5 DEF TypeOK
<1> QED
  BY <1>2, <1>3

(* What the calling thread hands to the first stage.                       *)
LEMMA SpawnFacts ==
  ASSUME TypeOK, SourceSpawn
  PROVE  /\ src = "spawn" /\ src' = "emit" /\ next' = next + 1 /\ srcBuf' = Empty
         /\ data' = [data EXCEPT ![0][srcBuf] = next + 1]
         /\ 1 \in Stages /\ active' = active + 1
         /\ \A u \in Stages \ {1} : queue'[u] = queue[u]
         /\ Len(queue'[1]) = Len(queue[1]) + 1
         /\ \A i \in 1 .. Len(queue[1]) : queue'[1][i] = queue[1][i]
         /\ queue'[1][Len(queue[1]) + 1] = [blk |-> next + 1, buf |-> srcBuf, saw |-> FALSE]
         /\ queue' \in [Stages -> Seq(Chain)]
         /\ UNCHANGED <<srcErr, result, workerVars, avail, free, funnelVars, ghostVars>>
<1> DEFINE c == [blk |-> next + 1, buf |-> srcBuf, saw |-> FALSE]
<1>1. 1 \in Stages
  BY NStagesAssumption DEF Stages
<1>2. queue' = [queue EXCEPT ![1] = Append(queue[1], c)]
  BY <1>1 DEF SourceSpawn
<1>3. c \in Chain /\ queue[1] \in Seq(Chain)
  BY <1>1 DEF TypeOK, Chain
<1>4. /\ Append(queue[1], c) \in Seq(Chain)
      /\ Len(Append(queue[1], c)) = Len(queue[1]) + 1
      /\ \A i \in 1 .. Len(queue[1]) : Append(queue[1], c)[i] = queue[1][i]
      /\ Append(queue[1], c)[Len(queue[1]) + 1] = c
  BY <1>3
<1> QED
  BY <1>1, <1>2, <1>4 DEF SourceSpawn, TypeOK

-----------------------------------------------------------------------------
(* The numbering of the chains.                                            *)

(* Only the numbers, the control points and the queues' numbers matter.    *)
LEMMA NumberedFrame ==
  ASSUME Numbered, Ordered, \A s \in Stages : Passed(s)' = Passed(s),
         UNCHANGED <<next, job, queue, active>>,
         \A s \in Stages : pc'[s] # "idle" => pc[s] # "idle",
         src' = "done" => active' = 0
  PROVE  Numbered' /\ Ordered'
<1>1. \A s \in Stages : Sent(s)' = Sent(s)
  BY NStagesAssumption DEF Sent, Stages
<1>2. Numbered'
  BY <1>1 DEF Numbered
<1>3. NStages \in Stages
  BY NStagesAssumption DEF Stages
<1> QED
  BY <1>2, <1>3 DEF Ordered

(* A stage has not taken more chains than any earlier stage has passed on. *)
LEMMA TakenBound ==
  ASSUME TypeOK, Numbered, Ordered, NEW s \in Stages
  PROVE  /\ job[s].blk <= next
         /\ \A u \in Stages : u < s => job[s].blk <= Passed(u)
         /\ job[s].blk \in Nat /\ Len(queue[s]) \in Nat
         /\ Passed(s) \in Nat
<1>1. job[s].blk \in Nat /\ Len(queue[s]) \in Nat /\ next \in Nat
  BY DEF TypeOK, Chain
<1>2. Passed(s) \in Nat
  BY <1>1 DEF Passed, Numbered
<1>3. CASE s = 1
  BY <1>1, <1>2, <1>3 DEF Numbered, Sent, Stages
<1>4. CASE s # 1
  <2>1. s - 1 \in Stages /\ job[s].blk + Len(queue[s]) = Passed(s - 1)
    <3>1. s - 1 \in Stages
      BY <1>4, NStagesAssumption DEF Stages
    <3>2. Sent(s) = Passed(s - 1)
      BY <1>4 DEF Sent
    <3> QED
      BY <3>1, <3>2 DEF Numbered
  <2>2. \A u \in Stages : u < s => u = s - 1 \/ u < s - 1
    BY DEF Stages
  <2>3. \A u \in Stages : Passed(u) \in Int
    BY DEF Passed, TypeOK, Chain
  <2>4. Passed(s - 1) <= next /\ \A u \in Stages : u < s => Passed(s - 1) <= Passed(u)
    BY <2>1, <2>2, <2>3 DEF Ordered
  <2> QED
    BY <1>1, <1>2, <2>1, <2>3, <2>4
<1> QED
  BY <1>3, <1>4

LEMMA NumberedStep ==
  ASSUME TypeOK, Numbered, Ordered, [Next]_vars
  PROVE  Numbered' /\ Ordered'
<1> USE NStagesAssumption
<1>f. /\ pc \in [Stages -> WorkerPoints] /\ job \in [Stages -> Chain]
      /\ queue \in [Stages -> Seq(Chain)]
  BY DEF TypeOK
<1>0. /\ \A u \in Stages : job[u].blk \in Nat /\ Len(queue[u]) \in Nat
      /\ next \in Nat
      /\ NStages \in Stages /\ 1 \in Stages
  <2>1. NStages \in Stages /\ 1 \in Stages /\ next \in Nat
    BY DEF Stages, TypeOK
  <2>2. ASSUME NEW u \in Stages PROVE job[u].blk \in Nat /\ Len(queue[u]) \in Nat
    <3>1. job[u] \in Chain /\ queue[u] \in Seq(Chain)
      BY <1>f
    <3> QED
      BY <3>1 DEF Chain
  <2> QED
    BY <2>1, <2>2
<1>n. \A u \in Stages : u \in Int /\ (u = 1 \/ u - 1 \in Stages)
  BY DEF Stages
<1>1. CASE Quiet
  <2>1. UNCHANGED <<next, job, pc, queue, active>>
    BY <1>1, QuietFrame DEF workerVars
  <2>2. src' = "done" => active' = 0
    BY <1>1 DEF Quiet, SourceNext, SourceEnd, SourceAcquire, SourcePop, Return
  <2> QED
    BY <2>1, <2>2, NumberedFrame DEF Passed
<1>2. CASE SourceSpawn
  <2>1. /\ src' = "emit" /\ next' = next + 1 /\ active' = active + 1
        /\ pc' = pc /\ job' = job
        /\ \A u \in Stages \ {1} : queue'[u] = queue[u]
        /\ Len(queue'[1]) = Len(queue[1]) + 1
        /\ \A i \in 1 .. Len(queue[1]) : queue'[1][i] = queue[1][i]
        /\ queue'[1][Len(queue[1]) + 1].blk = next + 1
    BY <1>2, SpawnFacts DEF workerVars
  <2>2. \A u \in Stages : Passed(u)' = Passed(u) /\ Passed(u) \in Int
    BY <1>0, <2>1 DEF Passed
  <2>3. \A u \in Stages : Sent(u)' = IF u = 1 THEN Sent(u) + 1 ELSE Sent(u)
    BY <2>1, <2>2 DEF Sent, Stages
  <2>4. Numbered'
    <3>1. ASSUME NEW u \in Stages \ {1} PROVE
            /\ (job[u].blk + Len(queue[u]) = Sent(u))'
            /\ (\A i \in 1 .. Len(queue[u]) : queue[u][i].blk = job[u].blk + i)'
            /\ (pc[u] # "idle" => job[u].blk > 0)'
      BY <2>1, <2>3 DEF Numbered
    <3>2. Sent(1) = next /\ job[1].blk + Len(queue[1]) = next
      BY <1>0 DEF Sent, Numbered
    <3>3. (job[1].blk + Len(queue[1]) = Sent(1))'
      <4>1. Sent(1)' = next + 1
        BY <1>0, <2>3, <3>2
      <4>2. job'[1] = job[1] /\ job[1].blk \in Int /\ Len(queue[1]) \in Int
        BY <1>0, <2>1
      <4> QED
        BY <2>1, <3>2, <4>1, <4>2
    <3>4. (\A i \in 1 .. Len(queue[1]) : queue[1][i].blk = job[1].blk + i)'
      <4>1. \A i \in 1 .. Len(queue[1]) : queue[1][i].blk = job[1].blk + i
        BY <1>0 DEF Numbered
      <4>2. next + 1 = job[1].blk + (Len(queue[1]) + 1)
        <5>1. job[1].blk \in Nat /\ Len(queue[1]) \in Nat /\ job[1].blk + Len(queue[1]) = next
          BY <1>0, <3>2
        <5> QED
          BY <5>1
      <4>3. ASSUME NEW i \in 1 .. Len(queue'[1]) PROVE queue'[1][i].blk = job[1].blk + i
        <5>1. i \in 1 .. Len(queue[1]) \/ i = Len(queue[1]) + 1
          BY <1>0, <2>1
        <5> QED
          BY <2>1, <4>1, <4>2, <5>1
      <4> QED
        BY <2>1, <4>3
    <3>5. (pc[1] # "idle" => job[1].blk > 0)'
      BY <1>0, <2>1 DEF Numbered
    <3> QED
      BY <3>1, <3>3, <3>4, <3>5 DEF Numbered
  <2>5. Ordered'
    BY <1>0, <2>1, <2>2, SMTT(30) DEF Ordered
  <2> QED
    BY <2>4, <2>5
<1>3. ASSUME NEW s \in Stages, Start(s) PROVE Numbered' /\ Ordered'
  <2>1. /\ pc[s] = "idle" /\ Len(queue[s]) > 0
        /\ job' = [job EXCEPT ![s] = queue[s][1]]
        /\ queue' = [queue EXCEPT ![s] = Tail(queue[s])]
        /\ queue[s][1].blk = job[s].blk + 1
        /\ Len(Tail(queue[s])) = Len(queue[s]) - 1
        /\ \A i \in 1 .. Len(queue[s]) - 1 : Tail(queue[s])[i] = queue[s][i + 1]
        /\ \E point \in {"release", "run", "acquire"} : pc' = [pc EXCEPT ![s] = point]
        /\ UNCHANGED <<src, next, active>>
    BY <1>3, StartFacts DEF callerVars
  <2>2. ASSUME NEW u \in Stages PROVE Passed(u)' = Passed(u)
    <3>1. CASE u = s
      <4>1. pc'[s] # "idle" /\ pc[s] = "idle" /\ job'[s].blk = job[s].blk + 1
        BY <1>f, <2>1
      <4>2. Passed(s) = job[s].blk /\ Passed(s)' = job'[s].blk - 1
        BY <4>1 DEF Passed
      <4>3. job[s].blk \in Nat
        BY <1>0
      <4> QED
        BY <3>1, <4>1, <4>2, <4>3
    <3>2. CASE u # s
      BY <1>f, <2>1, <3>2 DEF Passed
    <3> QED
      BY <3>1, <3>2
  <2>3. \A u \in Stages : Sent(u)' = Sent(u)
    BY <2>1, <2>2 DEF Sent, Stages
  <2>4. ASSUME NEW u \in Stages \ {s} PROVE
          /\ (job[u].blk + Len(queue[u]) = Sent(u))'
          /\ (\A i \in 1 .. Len(queue[u]) : queue[u][i].blk = job[u].blk + i)'
          /\ (pc[u] # "idle" => job[u].blk > 0)'
    <3>1. job'[u] = job[u] /\ queue'[u] = queue[u] /\ pc'[u] = pc[u] /\ Sent(u)' = Sent(u)
      BY <1>f, <2>1, <2>3
    <3> QED
      BY <3>1 DEF Numbered
  <2>5. /\ (job[s].blk + Len(queue[s]) = Sent(s))'
        /\ (\A i \in 1 .. Len(queue[s]) : queue[s][i].blk = job[s].blk + i)'
        /\ (pc[s] # "idle" => job[s].blk > 0)'
    <3>1. /\ queue'[s] = Tail(queue[s]) /\ job'[s].blk = job[s].blk + 1
          /\ Len(queue'[s]) = Len(queue[s]) - 1
      BY <1>f, <2>1
    <3>2. \A i \in 1 .. Len(queue[s]) : queue[s][i].blk = job[s].blk + i
      BY DEF Numbered
    <3>3. (job[s].blk + Len(queue[s]) = Sent(s))'
      <4>1. Sent(s)' = job[s].blk + Len(queue[s])
        BY <2>3 DEF Numbered
      <4> QED
        BY <1>0, <3>1, <4>1
    <3>4. ASSUME NEW i \in 1 .. Len(queue'[s]) PROVE queue'[s][i].blk = job'[s].blk + i
      <4>1. i + 1 \in 1 .. Len(queue[s]) /\ i \in 1 .. Len(queue[s]) - 1
        BY <1>0, <3>1
      <4>2. queue[s][i + 1].blk = job[s].blk + (i + 1)
        BY <3>2, <4>1
      <4>3. queue'[s][i] = queue[s][i + 1]
        BY <2>1, <3>1, <4>1
      <4>4. job[s].blk + (i + 1) = (job[s].blk + 1) + i
        <5>1. job[s].blk \in Nat
          BY <1>0
        <5>2. i \in Int
          BY <4>1
        <5> QED
          BY <5>1, <5>2
      <4> QED
        BY <3>1, <4>2, <4>3, <4>4
    <3>5. job'[s].blk > 0
      <4>1. job[s].blk \in Nat
        BY <1>0
      <4> QED
        BY <3>1, <4>1
    <3> QED
      BY <3>3, <3>4, <3>5
  <2>6. Numbered'
    BY <2>4, <2>5 DEF Numbered
  <2>7. Ordered'
    BY <1>0, <2>1, <2>2 DEF Ordered
  <2> QED
    BY <2>6, <2>7
<1>4. ASSUME NEW s \in Stages, Inner(s) PROVE Numbered' /\ Ordered'
  <2>1. /\ pc[s] # "idle"
        /\ \E point \in WorkerPoints \ {"idle"} : pc' = [pc EXCEPT ![s] = point]
        /\ UNCHANGED <<src, next, job, queue, active>>
    BY <1>4, InnerFrame DEF callerVars
  <2>2. \A u \in Stages : Passed(u)' = Passed(u) /\ (pc'[u] # "idle" => pc[u] # "idle")
    BY <1>0, <2>1 DEF Passed
  <2> QED
    BY <2>1, <2>2, NumberedFrame DEF Ordered
<1>5. ASSUME NEW s \in Stages, Hop(s) PROVE Numbered' /\ Ordered'
  <2>1. /\ pc[s] = "hop" /\ pc' = [pc EXCEPT ![s] = "idle"] /\ UNCHANGED <<src, next, job>>
        /\ s = NStages => active' = active - 1 /\ queue' = queue
        /\ s # NStages =>
             /\ active' = active /\ s + 1 \in Stages
             /\ \A u \in Stages \ {s + 1} : queue'[u] = queue[u]
             /\ Len(queue'[s + 1]) = Len(queue[s + 1]) + 1
             /\ \A i \in 1 .. Len(queue[s + 1]) : queue'[s + 1][i] = queue[s + 1][i]
             /\ queue'[s + 1][Len(queue[s + 1]) + 1].blk = job[s].blk
    <3>1. UNCHANGED callerVars
      BY <1>5, HopFacts
    <3>2. UNCHANGED <<src, next>>
      BY <3>1 DEF callerVars
    <3>3. s # NStages =>
            queue'[s + 1][Len(queue[s + 1]) + 1].blk = job[s].blk
      <4>1. SUFFICES ASSUME s # NStages
                     PROVE  queue'[s + 1][Len(queue[s + 1]) + 1].blk = job[s].blk
        OBVIOUS
      <4>2. queue'[s + 1][Len(queue[s + 1]) + 1] =
              [blk |-> job[s].blk, buf |-> out[s], saw |-> view[s]]
        BY <1>5, <4>1, HopFacts
      <4> QED
        BY <4>2
    <3>4. /\ pc[s] = "hop" /\ pc' = [pc EXCEPT ![s] = "idle"] /\ job' = job
          /\ s = NStages => active' = active - 1 /\ queue' = queue
          /\ s # NStages =>
               /\ active' = active /\ s + 1 \in Stages
               /\ \A u \in Stages \ {s + 1} : queue'[u] = queue[u]
               /\ Len(queue'[s + 1]) = Len(queue[s + 1]) + 1
               /\ \A i \in 1 .. Len(queue[s + 1]) : queue'[s + 1][i] = queue[s + 1][i]
      BY <1>5, HopFacts
    <3> QED
      BY <3>2, <3>3, <3>4
  <2>2. /\ Passed(s) = job[s].blk - 1 /\ Passed(s)' = job[s].blk
        /\ \A u \in Stages \ {s} : Passed(u)' = Passed(u)
        /\ \A u \in Stages : Passed(u) \in Int
    <3>1. pc[s] = "hop" /\ pc'[s] = "idle" /\ job' = job /\ \A u \in Stages \ {s} : pc'[u] = pc[u]
      BY <1>f, <2>1
    <3>2. \A u \in Stages : Passed(u) \in Int
      BY <1>0 DEF Passed
    <3> QED
      BY <3>1, <3>2 DEF Passed
  <2>3. \A u \in Stages : Sent(u)' = IF u = s + 1 THEN Sent(u) + 1 ELSE Sent(u)
    <3>2. s + 1 # 1
      BY DEF Stages
    <3>4. ASSUME NEW u \in Stages
          PROVE  Sent(u)' = IF u = s + 1 THEN Sent(u) + 1 ELSE Sent(u)
      <4>1. CASE u = 1
        BY <2>1, <3>2, <4>1 DEF Sent
      <4>2. CASE u # 1 /\ u = s + 1
        <5>1. u - 1 = s /\ Sent(u)' = Passed(s)' /\ Sent(u) = Passed(s)
          BY <1>n, <4>2 DEF Sent
        <5> QED
          BY <1>0, <2>2, <4>2, <5>1
      <4>3. CASE u # 1 /\ u # s + 1
        BY <1>n, <2>2, <4>3 DEF Sent
      <4> QED
        BY <4>1, <4>2, <4>3
    <3> QED
      BY <3>4
  <2>4. ASSUME NEW u \in Stages, u # s + 1 PROVE
          /\ (job[u].blk + Len(queue[u]) = Sent(u))'
          /\ (\A i \in 1 .. Len(queue[u]) : queue[u][i].blk = job[u].blk + i)'
          /\ (pc[u] # "idle" => job[u].blk > 0)'
    <3>1. queue'[u] = queue[u] /\ Sent(u)' = Sent(u) /\ (pc'[u] # "idle" => pc[u] # "idle")
      BY <1>0, <2>1, <2>3, <2>4
    <3> QED
      BY <2>1, <3>1 DEF Numbered
  <2>5. ASSUME s # NStages PROVE
          /\ (job[s + 1].blk + Len(queue[s + 1]) = Sent(s + 1))'
          /\ (\A i \in 1 .. Len(queue[s + 1]) : queue[s + 1][i].blk = job[s + 1].blk + i)'
          /\ (pc[s + 1] # "idle" => job[s + 1].blk > 0)'
    <3>1. s + 1 \in Stages /\ s + 1 # s /\ s + 1 # 1
      BY <2>1, <2>5 DEF Stages
    <3>2. /\ job[s + 1].blk + Len(queue[s + 1]) = Passed(s)
          /\ \A i \in 1 .. Len(queue[s + 1]) : queue[s + 1][i].blk = job[s + 1].blk + i
      <4>1. Sent(s + 1) = Passed(s)
        BY <3>1 DEF Sent, Stages
      <4> QED
        BY <3>1, <4>1 DEF Numbered
    <3>3. ASSUME NEW i \in 1 .. Len(queue'[s + 1])
          PROVE  queue'[s + 1][i].blk = job[s + 1].blk + i
      <4>1. i \in 1 .. Len(queue[s + 1]) \/ i = Len(queue[s + 1]) + 1
        BY <1>0, <2>1, <2>5, <3>1
      <4>2. job[s].blk = job[s + 1].blk + (Len(queue[s + 1]) + 1)
        <5>1. /\ job[s].blk \in Nat /\ job[s + 1].blk \in Nat /\ Len(queue[s + 1]) \in Nat
              /\ job[s + 1].blk + Len(queue[s + 1]) = job[s].blk - 1
          BY <1>0, <2>2, <3>1, <3>2
        <5> QED
          BY <1>n, <3>1, <5>1, SMTT(30)
      <4> QED
        BY <2>1, <2>5, <3>2, <4>1, <4>2
    <3>4. job'[s + 1].blk + Len(queue'[s + 1]) = Sent(s + 1)'
      <4>1. Sent(s + 1)' = Sent(s + 1) + 1 /\ Sent(s + 1) = job[s + 1].blk + Len(queue[s + 1])
        BY <2>3, <3>1 DEF Numbered
      <4>2. /\ job'[s + 1].blk = job[s + 1].blk /\ job[s + 1].blk \in Nat
            /\ Len(queue'[s + 1]) = Len(queue[s + 1]) + 1 /\ Len(queue[s + 1]) \in Nat
        BY <1>0, <2>1, <2>5, <3>1
      <4> QED
        BY <4>1, <4>2
    <3> QED
      BY <1>0, <2>1, <3>1, <3>3, <3>4 DEF Numbered
  <2>6. Numbered'
    <3>1. \A u \in Stages : u = s + 1 => s # NStages
      BY DEF Stages
    <3> QED
      BY <2>4, <2>5, <3>1 DEF Numbered
  <2>7. Ordered'
    <3>1. job[s].blk <= next /\ \A u \in Stages : u < s => job[s].blk <= Passed(u)
      BY TakenBound
    <3>2. \A u \in Stages : Passed(u)' <= next
      BY <2>1, <2>2, <3>1 DEF Ordered
    <3>3. ASSUME NEW u \in Stages, NEW v \in Stages, u < v PROVE Passed(v)' <= Passed(u)'
      <4>1. Passed(v) <= Passed(u)
        BY <3>3 DEF Ordered
      <4>2. CASE v = s
        <5>1. u # s /\ Passed(u)' = Passed(u) /\ Passed(v)' = job[s].blk /\ job[s].blk <= Passed(u)
          BY <1>n, <2>2, <3>1, <3>3, <4>2
        <5> QED
          BY <5>1
      <4>3. CASE v # s /\ u = s
        <5>1. Passed(v)' = Passed(v) /\ Passed(v) <= job[s].blk - 1 /\ Passed(u)' = job[s].blk
          BY <2>2, <4>1, <4>3
        <5> QED
          BY <1>0, <2>2, <5>1
      <4>4. CASE v # s /\ u # s
        BY <2>2, <4>1, <4>4
      <4> QED
        BY <4>2, <4>3, <4>4
    <3>4. active' = next - Passed(NStages)'
      <4>1. active = next - Passed(NStages)
        BY DEF Ordered
      <4> QED
        BY <1>0, <2>1, <2>2, <4>1, SMTT(30)
    <3>5. src' = "done" => active' = 0
      <4>1. SUFFICES ASSUME src = "done" PROVE active' = 0
        BY <2>1
      <4>2. active = 0 /\ Passed(NStages) = next
        BY <1>0, <2>2, <4>1 DEF Ordered
      <4>3. s # NStages
        BY <1>0, <2>2, <3>1, <4>2
      <4> QED
        BY <2>1, <4>2, <4>3
    <3> QED
      BY <2>1, <3>2, <3>3, <3>4, <3>5 DEF Ordered
  <2> QED
    BY <2>6, <2>7
<1>6. CASE Returned \/ UNCHANGED vars
  <2>1. UNCHANGED <<src, next, job, pc, queue, active>>
    BY <1>6 DEF Returned, vars, callerVars, workerVars
  <2> QED
    BY <2>1, NumberedFrame DEF Passed, Ordered
<1> QED
  BY <1>1, <1>2, <1>3, <1>4, <1>5, <1>6, NextCases

-----------------------------------------------------------------------------
(* When a thread holds an output buffer.                                   *)
LEMMA HoldingStep ==
  ASSUME TypeOK, Numbered, Holding, [Next]_vars
  PROVE  Holding'
<1> USE NStagesAssumption DEF Empty
<1>f. pc \in [Stages -> WorkerPoints] /\ out \in [Stages -> Nat]
  BY DEF TypeOK
<1>1. CASE Quiet
  <2>1. pc' = pc /\ out' = out
    BY <1>1, QuietFrame DEF workerVars
  <2>2. srcBuf' # Empty <=> src' = "spawn"
    <3>1. CASE SourcePop
      <4>1. /\ src = "pop" /\ src' = "spawn"
            /\ \E b \in Buffers(0) : srcBuf' = b
        BY <3>1 DEF SourcePop
      <4> QED
        BY <4>1 DEF Buffers
    <3>2. CASE SourceNext \/ SourceEnd \/ SourceAcquire \/ Return
      BY <3>2 DEF SourceNext, SourceEnd, SourceAcquire, Return, Holding
    <3> QED
      BY <1>1, <3>1, <3>2 DEF Quiet
  <2> QED
    BY <2>1, <2>2 DEF Holding
<1>2. CASE SourceSpawn
  BY <1>2, SpawnFacts DEF workerVars, Holding
<1>3. ASSUME NEW s \in Stages, Start(s) PROVE Holding'
  <2>1. /\ pc[s] = "idle" /\ out' = [out EXCEPT ![s] = Empty] /\ UNCHANGED <<src, srcBuf>>
    BY <1>3 DEF Start, callerVars
  <2>2. PICK v \in BOOLEAN :
          pc' = [pc EXCEPT ![s] =
                  IF v THEN "release" ELSE IF s = NStages THEN "run" ELSE "acquire"]
    BY <1>3, StartFacts
  <2>3. /\ out'[s] = Empty /\ pc'[s] # "pop" /\ pc'[s] # "unwind"
        /\ pc'[s] = "run" => s = NStages
        /\ pc'[s] = "acquire" => s # NStages
        /\ \A u \in Stages \ {s} : out'[u] = out[u] /\ pc'[u] = pc[u]
    BY <1>f, <2>1, <2>2
  <2>4. NStages \in Stages
    BY DEF Stages
  <2> QED
    BY <2>1, <2>3, <2>4 DEF Holding
<1>4. ASSUME NEW s \in Stages, Inner(s) PROVE Holding'
  <2>1. UNCHANGED <<src, srcBuf>>
    BY <1>4, InnerFrame DEF callerVars
  <2>2. CASE AcquireOut(s)
    BY <1>f, <2>1, <2>2 DEF AcquireOut, Goto, Holding
  <2>3. CASE PopOut(s)
    <3>1. /\ pc[s] = "pop" /\ pc' = [pc EXCEPT ![s] = "run"]
          /\ \E b \in Buffers(s) : out' = [out EXCEPT ![s] = b]
      BY <2>3 DEF PopOut, Goto
    <3>2. s # NStages
      BY <3>1 DEF Holding
    <3>3. \A b \in Buffers(s) : b # 0
      BY DEF Buffers
    <3> QED
      BY <1>f, <2>1, <3>1, <3>2, <3>3 DEF Holding
  <2>4. CASE RunOk(s)
    BY <1>f, <2>1, <2>4 DEF RunOk, Goto, Holding
  <2>5. CASE RunThrow(s)
    BY <1>f, <2>1, <2>5 DEF RunThrow, Goto, Holding
  <2>6. CASE UnwindOut(s)
    BY <1>f, <2>1, <2>6 DEF UnwindOut, Goto, Holding
  <2>7. CASE Capture(s)
    BY <1>f, <2>1, <2>7 DEF Capture, Goto, Holding
  <2>8. CASE ReleaseIn(s)
    <3>1. /\ pc[s] = "release" /\ out' = out
          /\ pc' = [pc EXCEPT ![s] = "hop"] \/ pc' = [pc EXCEPT ![s] = "post"]
      BY <2>8 DEF ReleaseIn, Goto
    <3>2. /\ pc'[s] \in {"hop", "post"} /\ out'[s] = out[s]
          /\ \A u \in Stages \ {s} : pc'[u] = pc[u] /\ out'[u] = out[u]
      BY <1>f, <3>1
    <3>3. NStages \in Stages
      BY DEF Stages
    <3> QED
      BY <2>1, <3>1, <3>2, <3>3 DEF Holding
  <2>9. CASE PostIn(s)
    BY <1>f, <2>1, <2>9 DEF PostIn, Goto, Holding
  <2> QED
    BY <1>4, <2>2, <2>3, <2>4, <2>5, <2>6, <2>7, <2>8, <2>9 DEF Inner
<1>5. ASSUME NEW s \in Stages, Hop(s) PROVE Holding'
  <2>1. /\ pc[s] = "hop" /\ pc' = [pc EXCEPT ![s] = "idle"]
        /\ out' = [out EXCEPT ![s] = Empty] /\ UNCHANGED callerVars
    BY <1>5, HopFacts
  <2> QED
    BY <1>f, <2>1 DEF Holding, callerVars
<1>6. CASE Returned \/ UNCHANGED vars
  <2>1. UNCHANGED <<src, srcBuf, pc, out>>
    BY <1>6 DEF Returned, vars, callerVars, workerVars
  <2> QED
    BY <2>1 DEF Holding
<1> QED
  BY <1>1, <1>2, <1>3, <1>4, <1>5, <1>6, NextCases

-----------------------------------------------------------------------------
(* What the flag a stage has seen says about what it has done.             *)

(* A stage's function reads the block its chain belongs to.                *)
LEMMA ReadsOwnBlock ==
  ASSUME TypeOK, Flagged, Pooled, NEW s \in Stages, pc[s] = "run"
  PROVE  /\ job[s].buf \in Buffers(s - 1) /\ s - 1 \in Pools
         /\ Content(s - 1, job[s].buf) = job[s].blk
         /\ job[s].blk = last[s] + 1
<1>1. s - 1 \in Pools /\ (s - 1) + 1 = s
  BY NStagesAssumption DEF Stages, Pools
<1>2. Reader(s - 1) = job[s].buf /\ job[s].buf # Empty /\ job[s].blk = last[s] + 1
  BY <1>1 DEF Reader, InputHeld, Flagged
<1>3. Reader(s - 1) \in Buffers(s - 1) /\ data[s - 1][Reader(s - 1)] = job[s].blk
  BY <1>1, <1>2 DEF Pooled, OwnedAt, IntactAt
<1> QED
  BY <1>1, <1>2, <1>3 DEF Content

LEMMA FlaggedStep ==
  ASSUME TypeOK, Numbered, Flagged, Holding, Pooled, [Next]_vars
  PROVE  Flagged'
<1> USE NStagesAssumption
<1>f. /\ pc \in [Stages -> WorkerPoints] /\ out \in [Stages -> Nat]
      /\ view \in [Stages -> BOOLEAN] /\ job \in [Stages -> Chain]
      /\ last \in [Stages -> Nat] /\ queue \in [Stages -> Seq(Chain)]
  BY DEF TypeOK
<1>1. CASE Quiet
  BY <1>1, QuietFrame DEF workerVars, ghostVars, Flagged
<1>2. CASE SourceSpawn
  <2>1. srcBuf # Empty
    BY <1>2 DEF SourceSpawn, Holding
  <2>2. /\ UNCHANGED <<workerVars, ghostVars>> /\ 1 \in Stages
        /\ \A u \in Stages \ {1} : queue'[u] = queue[u]
        /\ Len(queue'[1]) = Len(queue[1]) + 1
        /\ \A i \in 1 .. Len(queue[1]) : queue'[1][i] = queue[1][i]
        /\ queue'[1][Len(queue[1]) + 1].buf = srcBuf
    BY <1>2, SpawnFacts
  <2>3. \A u \in Stages : \A i \in 1 .. Len(queue'[u]) :
          queue'[u][i].buf = Empty => queue'[u][i].saw
    <3>1. ASSUME NEW i \in 1 .. Len(queue'[1]) PROVE queue'[1][i].buf = Empty => queue'[1][i].saw
      <4>1. Len(queue[1]) \in Nat
        BY <1>f, <2>2
      <4>2. i \in 1 .. Len(queue[1]) \/ i = Len(queue[1]) + 1
        BY <2>2, <4>1
      <4> QED
        BY <2>1, <2>2, <4>2 DEF Flagged
    <3> QED
      BY <2>2, <3>1 DEF Flagged
  <2>4. UNCHANGED <<pc, job, out, view, last>>
    BY <2>2 DEF workerVars, ghostVars
  <2> QED
    BY <2>3, <2>4 DEF Flagged
<1>3. ASSUME NEW s \in Stages, Start(s) PROVE Flagged'
  <2>1. /\ pc[s] = "idle" /\ Len(queue[s]) > 0
        /\ job' = [job EXCEPT ![s] = queue[s][1]]
        /\ queue' = [queue EXCEPT ![s] = Tail(queue[s])]
        /\ queue[s][1] \in Chain /\ queue[s][1].blk = job[s].blk + 1
        /\ Len(Tail(queue[s])) = Len(queue[s]) - 1
        /\ \A i \in 1 .. Len(queue[s]) - 1 : Tail(queue[s])[i] = queue[s][i + 1]
    BY <1>3, StartFacts
  <2>2. PICK v \in BOOLEAN :
          /\ view' = [view EXCEPT ![s] = v]
          /\ ~v => ~view[s] /\ ~queue[s][1].saw
          /\ pc' = [pc EXCEPT ![s] =
                      IF v THEN "release" ELSE IF s = NStages THEN "run" ELSE "acquire"]
    BY <1>3, StartFacts
  <2>3. last' = last /\ out' = [out EXCEPT ![s] = Empty]
    BY <1>3 DEF Start, ghostVars
  <2>4. Len(queue[s]) \in Nat /\ queue'[s] = Tail(queue[s]) /\ job'[s] = queue[s][1]
        /\ \A u \in Stages \ {s} : queue'[u] = queue[u] /\ job'[u] = job[u] /\ pc'[u] = pc[u]
                                   /\ view'[u] = view[u] /\ out'[u] = out[u]
    BY <1>f, <2>1, <2>2, <2>3
  <2>5. ASSUME NEW i \in 1 .. Len(queue'[s]) PROVE queue'[s][i].buf = Empty => queue'[s][i].saw
    <3>1. Len(queue'[s]) = Len(queue[s]) - 1
      BY <2>1, <2>4
    <3>2. i + 1 \in 1 .. Len(queue[s]) /\ i \in 1 .. Len(queue[s]) - 1
      BY <2>4, <3>1
    <3>3. queue'[s][i] = queue[s][i + 1]
      BY <2>1, <2>4, <3>2
    <3> QED
      BY <3>2, <3>3 DEF Flagged
  <2>6. ~v => job[s].blk = last[s] /\ queue[s][1].buf # Empty
    <3>1. 1 \in 1 .. Len(queue[s])
      BY <2>1, <2>4
    <3> QED
      BY <2>1, <2>2, <3>1 DEF Flagged
  <2>7. /\ pc'[s] \in {"acquire", "pop", "run"} =>
             ~view'[s] /\ job'[s].buf # Empty /\ job'[s].blk = last'[s] + 1
        /\ pc'[s] \in {"idle", "release", "post", "hop"} => view'[s] \/ job'[s].blk = last'[s]
        /\ pc'[s] \in {"release", "post", "hop"} => view'[s]
    <3>1. CASE v
      BY <1>f, <2>2, <3>1
    <3>2. CASE ~v
      BY <1>f, <2>1, <2>2, <2>3, <2>4, <2>6, <3>2
    <3> QED
      BY <2>2, <3>1, <3>2
  <2>8. ASSUME NEW u \in Stages \ {s} PROVE
          /\ \A i \in 1 .. Len(queue'[u]) : queue'[u][i].buf = Empty => queue'[u][i].saw
          /\ pc'[u] \in {"acquire", "pop", "run"} =>
               ~view'[u] /\ job'[u].buf # Empty /\ job'[u].blk = last'[u] + 1
          /\ pc'[u] \in {"idle", "release", "post", "hop"} => view'[u] \/ job'[u].blk = last'[u]
          /\ pc'[u] \in {"release", "post", "hop"} /\ u # NStages => view'[u] \/ out'[u] # Empty
    BY <2>3, <2>4 DEF Flagged
  <2> QED
    BY <2>5, <2>7, <2>8 DEF Flagged
<1>4. ASSUME NEW s \in Stages, Inner(s) PROVE Flagged'
  <2>1. UNCHANGED <<job, queue>>
    BY <1>4, InnerFrame
  <2>2. CASE AcquireOut(s)
    BY <1>f, <2>1, <2>2 DEF AcquireOut, Goto, ghostVars, Flagged
  <2>3. CASE PopOut(s)
    <3>1. PICK b \in Buffers(s) : out' = [out EXCEPT ![s] = b]
      BY <2>3 DEF PopOut
    <3> QED
      BY <1>f, <2>1, <2>3, <3>1 DEF PopOut, Goto, ghostVars, Flagged
  <2>4. CASE RunOk(s)
    <3>1. /\ pc[s] = "run" /\ pc' = [pc EXCEPT ![s] = "release"]
          /\ last' = [last EXCEPT ![s] = Content(s - 1, job[s].buf)]
          /\ out' = out /\ view' = view
      BY <2>4 DEF RunOk, Goto
    <3>2. Content(s - 1, job[s].buf) = job[s].blk
      BY <3>1, ReadsOwnBlock
    <3>3. s # NStages => out[s] # Empty
      BY <3>1 DEF Holding
    <3> QED
      BY <1>f, <2>1, <3>1, <3>2, <3>3 DEF Flagged
  <2>5. CASE RunThrow(s)
    BY <1>f, <2>1, <2>5 DEF RunThrow, Goto, Flagged
  <2>6. CASE UnwindOut(s)
    BY <1>f, <2>1, <2>6 DEF UnwindOut, Goto, ghostVars, Flagged
  <2>7. CASE Capture(s)
    BY <1>f, <2>1, <2>7 DEF Capture, Goto, ghostVars, Flagged
  <2>8. CASE ReleaseIn(s)
    BY <1>f, <2>1, <2>8 DEF ReleaseIn, Goto, ghostVars, Flagged
  <2>9. CASE PostIn(s)
    BY <1>f, <2>1, <2>9 DEF PostIn, Goto, ghostVars, Flagged
  <2> QED
    BY <1>4, <2>2, <2>3, <2>4, <2>5, <2>6, <2>7, <2>8, <2>9 DEF Inner
<1>5. ASSUME NEW s \in Stages, Hop(s) PROVE Flagged'
  <2>1. /\ pc[s] = "hop" /\ pc' = [pc EXCEPT ![s] = "idle"]
        /\ out' = [out EXCEPT ![s] = Empty] /\ UNCHANGED <<job, view, ghostVars>>
    BY <1>5, HopFacts
  <2>2. view[s] \/ job[s].blk = last[s]
    BY <2>1 DEF Flagged
  <2>3. \A u \in Stages : \A i \in 1 .. Len(queue'[u]) :
          queue'[u][i].buf = Empty => queue'[u][i].saw
    <3>1. CASE s = NStages
      BY <1>5, <3>1, HopFacts DEF Flagged
    <3>2. CASE s # NStages
      <4>1. /\ s + 1 \in Stages
            /\ \A u \in Stages \ {s + 1} : queue'[u] = queue[u]
            /\ Len(queue'[s + 1]) = Len(queue[s + 1]) + 1
            /\ \A i \in 1 .. Len(queue[s + 1]) : queue'[s + 1][i] = queue[s + 1][i]
            /\ queue'[s + 1][Len(queue[s + 1]) + 1] =
                 [blk |-> job[s].blk, buf |-> out[s], saw |-> view[s]]
        BY <1>5, <3>2, HopFacts
      <4>2. out[s] = Empty => view[s]
        BY <2>1, <3>2 DEF Flagged
      <4>3. ASSUME NEW i \in 1 .. Len(queue'[s + 1])
            PROVE  queue'[s + 1][i].buf = Empty => queue'[s + 1][i].saw
        <5>1. Len(queue[s + 1]) \in Nat
          BY <1>f, <4>1
        <5>2. i \in 1 .. Len(queue[s + 1]) \/ i = Len(queue[s + 1]) + 1
          BY <4>1, <5>1
        <5> QED
          BY <4>1, <4>2, <5>2 DEF Flagged
      <4> QED
        BY <4>1, <4>3 DEF Flagged
    <3> QED
      BY <3>1, <3>2
  <2> QED
    BY <1>f, <2>1, <2>2, <2>3 DEF Flagged, ghostVars
<1>6. CASE Returned \/ UNCHANGED vars
  BY <1>6 DEF Returned, vars, workerVars, ghostVars, Flagged
<1> QED
  BY <1>1, <1>2, <1>3, <1>4, <1>5, <1>6, NextCases

-----------------------------------------------------------------------------
(* Every step moves the handles of a pool in one of six ways.              *)
KeptAt(p) ==
  /\ Writer(p)' = Writer(p) /\ Reader(p)' = Reader(p)
  /\ Waiting(p)' = Waiting(p) /\ free'[p] = free[p]

TakenAt(p) ==      \* the writer takes a free buffer
  /\ Writer(p) = Empty /\ Writer(p)' \in free[p]
  /\ free'[p] = free[p] \ {Writer(p)'}
  /\ Reader(p)' = Reader(p) /\ Waiting(p)' = Waiting(p)

SentAt(p) ==       \* the writer's buffer joins the reader's queue
  /\ Writer(p)' = Empty /\ Reader(p)' = Reader(p) /\ free'[p] = free[p]
  /\ Len(Waiting(p)') = Len(Waiting(p)) + 1
  /\ \A i \in 1 .. Len(Waiting(p)) : Waiting(p)'[i] = Waiting(p)[i]
  /\ Waiting(p)'[Len(Waiting(p)) + 1].buf = Writer(p)

ReceivedAt(p) ==   \* the reader takes the first of its queue
  /\ Reader(p) = Empty /\ Len(Waiting(p)) > 0
  /\ Reader(p)' = Waiting(p)[1].buf
  /\ Len(Waiting(p)') = Len(Waiting(p)) - 1
  /\ \A i \in 1 .. Len(Waiting(p)) - 1 : Waiting(p)'[i] = Waiting(p)[i + 1]
  /\ Writer(p)' = Writer(p) /\ free'[p] = free[p]

ReleasedAt(p) ==   \* the reader gives its buffer back
  /\ Reader(p) # Empty /\ Reader(p)' = Empty
  /\ free'[p] = free[p] \cup {Reader(p)}
  /\ Writer(p)' = Writer(p) /\ Waiting(p)' = Waiting(p)

DroppedAt(p) ==    \* the writer gives its buffer back
  /\ Writer(p) # Empty /\ Writer(p)' = Empty
  /\ free'[p] = free[p] \cup {Writer(p)}
  /\ Reader(p)' = Reader(p) /\ Waiting(p)' = Waiting(p)

MovedAt(p) ==
  \/ KeptAt(p) \/ TakenAt(p) \/ SentAt(p) \/ ReceivedAt(p) \/ ReleasedAt(p) \/ DroppedAt(p)

(* Pools and stages, as numbers.                                           *)
LEMMA PoolNumbers ==
  /\ \A p \in Pools : p \in Int /\ p + 1 \in Stages /\ (p = 0 \/ p \in Stages)
                      /\ p # NStages
  /\ \A s \in Stages : s \in Int /\ s - 1 \in Pools /\ (s - 1) + 1 = s
                       /\ (s # NStages => s \in Pools) /\ s # 0 /\ s # s + 1
  /\ 0 \in Pools /\ 1 \in Stages /\ NStages \in Stages
BY NStagesAssumption DEF Pools, Stages

(* A step that keeps everything a pool's handles are in keeps them.        *)
LEMMA KeptFrame ==
  ASSUME NEW p \in Pools, srcBuf' = srcBuf, out' = out, job' = job, queue' = queue,
         free' = free, InputHeld(p + 1)' = InputHeld(p + 1)
  PROVE  KeptAt(p)
BY DEF KeptAt, Writer, Reader, Waiting

LEMMA Moves ==
  ASSUME TypeOK, Numbered, Holding, [Next]_vars, NEW p \in Pools
  PROVE  MovedAt(p)
<1>f. /\ pc \in [Stages -> WorkerPoints] /\ out \in [Stages -> Nat]
      /\ job \in [Stages -> Chain] /\ queue \in [Stages -> Seq(Chain)]
      /\ free \in [Pools -> SUBSET Nat]
  BY DEF TypeOK
<1>p. /\ p \in Int /\ p + 1 \in Stages /\ (p = 0 \/ p \in Stages) /\ p # NStages
      /\ 0 \in Pools /\ 1 \in Stages
  BY PoolNumbers
<1>1. CASE Quiet
  <2>1. UNCHANGED <<pc, out, job, queue>>
    BY <1>1, QuietFrame DEF workerVars
  <2>2. CASE SourcePop
    <3>1. PICK b \in Buffers(0) :
            b \in free[0] /\ free' = [free EXCEPT ![0] = @ \ {b}] /\ srcBuf' = b
      BY <2>2 DEF SourcePop, PopFree
    <3>2. srcBuf = Empty
      BY <2>2 DEF SourcePop, Holding
    <3>3. CASE p = 0
      BY <1>f, <1>p, <2>1, <3>1, <3>2, <3>3 DEF MovedAt, TakenAt, Writer, Reader, Waiting, InputHeld
    <3>4. CASE p # 0
      BY <1>f, <1>p, <2>1, <3>1, <3>4 DEF MovedAt, KeptAt, Writer, Reader, Waiting, InputHeld
    <3> QED
      BY <3>3, <3>4
  <2>3. CASE SourceNext \/ SourceEnd \/ SourceAcquire \/ Return
    <3>1. srcBuf' = srcBuf /\ free' = free
      BY <2>3 DEF SourceNext, SourceEnd, SourceAcquire, Return, poolVars
    <3> QED
      BY <2>1, <3>1, KeptFrame DEF MovedAt, InputHeld
  <2> QED
    BY <1>1, <2>2, <2>3 DEF Quiet
<1>2. CASE SourceSpawn
  <2>1. /\ srcBuf' = Empty /\ UNCHANGED <<pc, out, job, free>>
        /\ \A u \in Stages \ {1} : queue'[u] = queue[u]
        /\ Len(queue'[1]) = Len(queue[1]) + 1
        /\ \A i \in 1 .. Len(queue[1]) : queue'[1][i] = queue[1][i]
        /\ queue'[1][Len(queue[1]) + 1].buf = srcBuf
    BY <1>2, SpawnFacts DEF workerVars
  <2>2. CASE p = 0
    BY <2>1, <2>2 DEF MovedAt, SentAt, Writer, Reader, Waiting, InputHeld
  <2>3. CASE p # 0
    <3>1. p + 1 # 1
      BY <1>p, <2>3
    <3> QED
      BY <1>p, <2>1, <2>3, <3>1 DEF MovedAt, KeptAt, Writer, Reader, Waiting, InputHeld
  <2> QED
    BY <2>2, <2>3
<1>3. ASSUME NEW s \in Stages, Start(s) PROVE MovedAt(p)
  <2>1. /\ pc[s] = "idle" /\ Len(queue[s]) > 0
        /\ job' = [job EXCEPT ![s] = queue[s][1]]
        /\ queue' = [queue EXCEPT ![s] = Tail(queue[s])]
        /\ Len(Tail(queue[s])) = Len(queue[s]) - 1
        /\ \A i \in 1 .. Len(queue[s]) - 1 : Tail(queue[s])[i] = queue[s][i + 1]
        /\ \E point \in {"release", "run", "acquire"} : pc' = [pc EXCEPT ![s] = point]
        /\ UNCHANGED <<callerVars, poolVars>>
    BY <1>3, StartFacts
  <2>2. out' = [out EXCEPT ![s] = Empty] /\ srcBuf' = srcBuf /\ free' = free
    BY <1>3 DEF Start, callerVars, poolVars
  <2>3. out[s] = Empty
    BY <2>1 DEF Holding
  <2>4. Writer(p)' = Writer(p)
    BY <1>f, <1>p, <2>2, <2>3 DEF Writer
  <2>5. CASE s = p + 1
    <3>1. queue'[p + 1] = Tail(queue[s]) /\ job'[p + 1] = queue[s][1]
          /\ pc'[p + 1] \in {"release", "run", "acquire"}
      BY <1>f, <1>p, <2>1, <2>5
    <3>2. Reader(p) = Empty /\ Reader(p)' = queue[s][1].buf
      BY <1>p, <2>1, <2>5, <3>1 DEF Reader, InputHeld
    <3> QED
      BY <2>1, <2>2, <2>4, <2>5, <3>1, <3>2 DEF MovedAt, ReceivedAt, Waiting
  <2>6. CASE s # p + 1
    <3>1. queue'[p + 1] = queue[p + 1] /\ job'[p + 1] = job[p + 1] /\ pc'[p + 1] = pc[p + 1]
      BY <1>f, <1>p, <2>1, <2>6
    <3> QED
      BY <2>2, <2>4, <3>1 DEF MovedAt, KeptAt, Reader, Waiting, InputHeld
  <2> QED
    BY <2>5, <2>6
<1>4. ASSUME NEW s \in Stages, Inner(s) PROVE MovedAt(p)
  <2>1. UNCHANGED <<job, queue, srcBuf>>
    BY <1>4, InnerFrame DEF callerVars
  <2>2. CASE AcquireOut(s) \/ RunOk(s) \/ UnwindOut(s) \/ Capture(s) \/ PostIn(s)
    <3>1. out' = out /\ free' = free
      BY <2>2 DEF AcquireOut, RunOk, UnwindOut, Capture, PostIn, poolVars
    <3>2. InputHeld(p + 1)' = InputHeld(p + 1)
      <4>1. \/ pc[s] = "acquire" /\ pc' = [pc EXCEPT ![s] = "pop"]
            \/ pc[s] = "run" /\ pc' = [pc EXCEPT ![s] = "release"]
            \/ pc[s] = "unwind" /\ pc' = [pc EXCEPT ![s] = "unwound"]
            \/ pc[s] = "unwound" /\ pc' = [pc EXCEPT ![s] = "release"]
            \/ pc[s] = "post" /\ pc' = [pc EXCEPT ![s] = "hop"]
        BY <2>2 DEF AcquireOut, RunOk, UnwindOut, Capture, PostIn, Goto
      <4> QED
        BY <1>f, <1>p, <4>1 DEF InputHeld
    <3> QED
      BY <2>1, <3>1, <3>2, KeptFrame DEF MovedAt
  <2>3. CASE PopOut(s)
    <3>1. PICK b \in Buffers(s) :
            b \in free[s] /\ free' = [free EXCEPT ![s] = @ \ {b}] /\ out' = [out EXCEPT ![s] = b]
      BY <2>3 DEF PopOut, PopFree
    <3>2. pc[s] = "pop" /\ pc' = [pc EXCEPT ![s] = "run"]
      BY <2>3 DEF PopOut, Goto
    <3>3. out[s] = Empty /\ s # NStages
      BY <3>2 DEF Holding
    <3>4. InputHeld(p + 1)' = InputHeld(p + 1)
      BY <1>f, <1>p, <3>2 DEF InputHeld
    <3>5. Reader(p)' = Reader(p) /\ Waiting(p)' = Waiting(p)
      BY <2>1, <3>4 DEF Reader, Waiting
    <3>6. CASE p = s
      <4>1. p # 0
        BY <3>6, PoolNumbers
      <4>2. Writer(p) = Empty /\ Writer(p)' = b /\ free'[p] = free[p] \ {b}
        BY <1>f, <3>1, <3>3, <3>6, <4>1 DEF Writer
      <4> QED
        BY <3>1, <3>5, <3>6, <4>2 DEF MovedAt, TakenAt
    <3>7. CASE p # s
      BY <1>f, <1>p, <2>1, <3>1, <3>5, <3>7 DEF MovedAt, KeptAt, Writer
    <3> QED
      BY <3>6, <3>7
  <2>4. CASE RunThrow(s)
    <3>1. /\ pc[s] = "run" /\ out' = [out EXCEPT ![s] = Empty]
          /\ pc' = [pc EXCEPT ![s] = IF s = NStages THEN "unwound" ELSE "unwind"]
          /\ IF s = NStages THEN free' = free ELSE free' = [free EXCEPT ![s] = @ \cup {out[s]}]
      BY <2>4 DEF RunThrow, PushFree, Goto
    <3>2. /\ s # NStages => out[s] # Empty
          /\ s = NStages => out[s] = Empty
      BY <3>1 DEF Holding
    <3>3. InputHeld(p + 1)' = InputHeld(p + 1)
      BY <1>f, <1>p, <3>1 DEF InputHeld
    <3>4. Reader(p)' = Reader(p) /\ Waiting(p)' = Waiting(p)
      BY <2>1, <3>3 DEF Reader, Waiting
    <3>5. CASE p = s
      <4>1. p # 0 /\ s # NStages
        BY <3>5, PoolNumbers
      <4>2. Writer(p) # Empty /\ Writer(p)' = Empty /\ free'[p] = free[p] \cup {Writer(p)}
        BY <1>f, <3>1, <3>2, <3>5, <4>1 DEF Writer
      <4> QED
        BY <3>4, <4>2 DEF MovedAt, DroppedAt
    <3>6. CASE p # s
      <4>1. Writer(p)' = Writer(p)
        BY <1>f, <1>p, <2>1, <3>1, <3>6 DEF Writer
      <4>2. free'[p] = free[p]
        BY <1>f, <3>1, <3>6
      <4> QED
        BY <3>4, <4>1, <4>2 DEF MovedAt, KeptAt
    <3> QED
      BY <3>5, <3>6
  <2>5. CASE ReleaseIn(s)
    <3>1. /\ pc[s] = "release" /\ out' = out
          /\ \/ job[s].buf = Empty /\ pc' = [pc EXCEPT ![s] = "hop"] /\ free' = free
             \/ /\ job[s].buf # Empty /\ pc' = [pc EXCEPT ![s] = "post"]
                /\ free' = [free EXCEPT ![s - 1] = @ \cup {job[s].buf}]
      BY <2>5 DEF ReleaseIn, PushFree, Goto
    <3>2. Writer(p)' = Writer(p) /\ Waiting(p)' = Waiting(p)
      BY <2>1, <3>1 DEF Writer, Waiting
    <3>3. CASE s = p + 1
      <4>1. Reader(p) = job[s].buf /\ Reader(p)' = Empty
        BY <1>f, <1>p, <2>1, <3>1, <3>3 DEF Reader, InputHeld
      <4>2. s - 1 = p
        BY <1>p, <3>3
      <4> QED
        BY <1>f, <3>1, <3>2, <4>1, <4>2 DEF MovedAt, KeptAt, ReleasedAt
    <3>4. CASE s # p + 1
      <4>1. s - 1 # p
        BY <1>p, <3>4, PoolNumbers
      <4>2. free'[p] = free[p] /\ InputHeld(p + 1)' = InputHeld(p + 1)
        BY <1>f, <1>p, <3>1, <3>4, <4>1 DEF InputHeld
      <4> QED
        BY <2>1, <3>2, <4>2 DEF MovedAt, KeptAt, Reader
    <3> QED
      BY <3>3, <3>4
  <2> QED
    BY <1>4, <2>2, <2>3, <2>4, <2>5 DEF Inner
<1>5. ASSUME NEW s \in Stages, Hop(s) PROVE MovedAt(p)
  <2>1. /\ pc[s] = "hop" /\ pc' = [pc EXCEPT ![s] = "idle"]
        /\ out' = [out EXCEPT ![s] = Empty] /\ UNCHANGED <<callerVars, job, poolVars>>
    BY <1>5, HopFacts
  <2>2. srcBuf' = srcBuf /\ free' = free
    BY <2>1 DEF callerVars, poolVars
  <2>3. InputHeld(p + 1)' = InputHeld(p + 1)
    BY <1>f, <1>p, <2>1 DEF InputHeld
  <2>4. Reader(p)' = Reader(p)
    BY <2>1, <2>3 DEF Reader
  <2>5. CASE p = s
    <3>1. p # 0 /\ s # NStages
      BY <2>5, PoolNumbers
    <3>2. /\ Len(queue'[s + 1]) = Len(queue[s + 1]) + 1
          /\ \A i \in 1 .. Len(queue[s + 1]) : queue'[s + 1][i] = queue[s + 1][i]
          /\ queue'[s + 1][Len(queue[s + 1]) + 1] =
               [blk |-> job[s].blk, buf |-> out[s], saw |-> view[s]]
      BY <1>5, <3>1, HopFacts
    <3>3. queue'[s + 1][Len(queue[s + 1]) + 1].buf = out[s]
      BY <3>2
    <3>4. Writer(p) = out[s] /\ Writer(p)' = Empty
      BY <1>f, <2>1, <2>5, <3>1 DEF Writer
    <3> QED
      BY <2>2, <2>4, <2>5, <3>2, <3>3, <3>4 DEF MovedAt, SentAt, Waiting
  <2>6. CASE p # s
    <3>1. Writer(p)' = Writer(p)
      BY <1>f, <1>p, <2>1, <2>2, <2>6 DEF Writer
    <3>2. Waiting(p)' = Waiting(p)
      <4>1. CASE s = NStages
        BY <1>5, <4>1, HopFacts DEF Waiting
      <4>2. CASE s # NStages
        <5>1. \A u \in Stages \ {s + 1} : queue'[u] = queue[u]
          BY <1>5, <4>2, HopFacts
        <5>2. p + 1 # s + 1
          BY <1>p, <2>6, PoolNumbers
        <5> QED
          BY <1>p, <5>1, <5>2 DEF Waiting
      <4> QED
        BY <4>1, <4>2
    <3> QED
      BY <2>2, <2>4, <3>1, <3>2 DEF MovedAt, KeptAt
  <2> QED
    BY <2>5, <2>6
<1>6. CASE Returned \/ UNCHANGED vars
  <2>1. UNCHANGED <<srcBuf, out, job, queue, free, pc>>
    BY <1>6 DEF Returned, vars, callerVars, workerVars, poolVars
  <2> QED
    BY <2>1, KeptFrame DEF MovedAt, InputHeld
<1> QED
  BY <1>1, <1>2, <1>3, <1>4, <1>5, <1>6, NextCases

(* No move loses a buffer or gives it to two holders.                      *)
LEMMA MovesConserve ==
  ASSUME TypeOK, NEW p \in Pools, OwnedAt(p), NoneLostAt(p), MovedAt(p)
  PROVE  OwnedAt(p)' /\ NoneLostAt(p)'
<1> DEFINE q == Waiting(p)  w == Writer(p)  r == Reader(p)
<1>0. Len(q) \in Nat /\ Len(q) = Len(Waiting(p)) /\ free[p] \subseteq Buffers(p)
  <2>1. p + 1 \in Stages
    BY PoolNumbers
  <2> QED
    BY <2>1 DEF TypeOK, Waiting
<1>e. Empty \notin Buffers(p)
  BY DEF Empty, Buffers
<1>1. CASE KeptAt(p)
  BY <1>1 DEF KeptAt, OwnedAt, NoneLostAt
<1>2. CASE TakenAt(p)
  BY <1>0, <1>2, <1>e DEF TakenAt, OwnedAt, NoneLostAt
<1>3. CASE SentAt(p)
  <2>1. /\ w' = Empty /\ r' = r /\ free'[p] = free[p] /\ Len(q') = Len(q) + 1
        /\ \A i \in 1 .. Len(q) : q'[i] = q[i]
        /\ q'[Len(q) + 1].buf = w
    BY <1>3 DEF SentAt
  <2>2. \A i \in 1 .. Len(q') : i \in 1 .. Len(q) \/ i = Len(q) + 1
    BY <1>0, <2>1
  <2>3. \A i \in 1 .. Len(q) : i \in 1 .. Len(q') /\ i # Len(q) + 1
    BY <1>0, <2>1
  <2>4. Len(q) + 1 \in 1 .. Len(q')
    BY <1>0, <2>1
  <2>5. ASSUME NEW i \in 1 .. Len(q'), q'[i].buf # Empty
        PROVE  /\ q'[i].buf \in Buffers(p) \ free'[p]
               /\ q'[i].buf # w' /\ q'[i].buf # r'
               /\ \A j \in 1 .. Len(q') : j # i => q'[j].buf # q'[i].buf
    <3>1. CASE i \in 1 .. Len(q)
      BY <2>1, <2>2, <2>5, <3>1 DEF OwnedAt
    <3>2. CASE i = Len(q) + 1
      BY <2>1, <2>2, <2>5, <3>2 DEF OwnedAt
    <3> QED
      BY <2>2, <3>1, <3>2
  <2>6. OwnedAt(p)'
    BY <2>1, <2>5 DEF OwnedAt
  <2>7. NoneLostAt(p)'
    BY <2>1, <2>3, <2>4 DEF NoneLostAt
  <2> QED
    BY <2>6, <2>7
<1>4. CASE ReceivedAt(p)
  <2>1. /\ r = Empty /\ r' = q[1].buf /\ w' = w /\ free'[p] = free[p]
        /\ Len(q) > 0 /\ Len(q') = Len(q) - 1
        /\ \A i \in 1 .. Len(q) - 1 : q'[i] = q[i + 1]
    BY <1>4 DEF ReceivedAt
  <2>2. \A i \in 1 .. Len(q') : i + 1 \in 1 .. Len(q) /\ i + 1 # 1 /\ q'[i] = q[i + 1] /\ i \in Int
    BY <1>0, <2>1
  <2>3. 1 \in 1 .. Len(q)
    BY <1>0, <2>1
  <2>4. ASSUME NEW i \in 1 .. Len(q'), q'[i].buf # Empty
        PROVE  /\ q'[i].buf \in Buffers(p) \ free'[p]
               /\ q'[i].buf # w' /\ q'[i].buf # r'
               /\ \A j \in 1 .. Len(q') : j # i => q'[j].buf # q'[i].buf
    <3>1. i + 1 \in 1 .. Len(q) /\ q'[i] = q[i + 1] /\ i + 1 # 1
      BY <2>2
    <3>2. ASSUME NEW j \in 1 .. Len(q'), j # i PROVE q'[j].buf # q'[i].buf
      <4>1. j + 1 \in 1 .. Len(q) /\ q'[j] = q[j + 1] /\ j + 1 # i + 1
        BY <2>2, <3>2
      <4> QED
        BY <2>4, <3>1, <4>1 DEF OwnedAt
    <3> QED
      BY <2>1, <2>3, <2>4, <3>1, <3>2 DEF OwnedAt
  <2>5. OwnedAt(p)'
    <3>1. r' # Empty => r' \in Buffers(p) \ free[p] /\ r' # w
      BY <2>1, <2>3 DEF OwnedAt
    <3> QED
      BY <2>1, <2>4, <3>1 DEF OwnedAt
  <2>6. NoneLostAt(p)'
    <3>1. ASSUME NEW b \in Buffers(p), NEW i \in 1 .. Len(q), q[i].buf = b, b # r'
          PROVE  \E j \in 1 .. Len(q') : q'[j].buf = b
      <4>1. i # 1
        BY <2>1, <3>1
      <4>2. i - 1 \in 1 .. Len(q') /\ i - 1 \in 1 .. Len(q) - 1 /\ (i - 1) + 1 = i
        BY <1>0, <2>1, <4>1
      <4>3. q'[i - 1] = q[i]
        BY <2>1, <4>2
      <4> QED
        BY <3>1, <4>2, <4>3
    <3> QED
      BY <1>e, <2>1, <3>1 DEF NoneLostAt
  <2> QED
    BY <2>5, <2>6
<1>5. CASE ReleasedAt(p)
  BY <1>0, <1>5, <1>e DEF ReleasedAt, OwnedAt, NoneLostAt
<1>6. CASE DroppedAt(p)
  BY <1>0, <1>6, <1>e DEF DroppedAt, OwnedAt, NoneLostAt
<1> QED
  BY <1>1, <1>2, <1>3, <1>4, <1>5, <1>6 DEF MovedAt

(* What a buffer holds only changes while its writer has it.               *)
LEMMA IntactStep ==
  ASSUME TypeOK, Numbered, Flagged, Holding, Pooled, [Next]_vars, NEW p \in Pools
  PROVE  IntactAt(p)'
<1>f. /\ pc \in [Stages -> WorkerPoints] /\ out \in [Stages -> Nat]
      /\ job \in [Stages -> Chain] /\ queue \in [Stages -> Seq(Chain)]
      /\ DOMAIN data = Pools /\ \A u \in Pools : data[u] \in [Buffers(u) -> Nat]
  BY DEF TypeOK
<1>p. /\ p \in Int /\ p + 1 \in Stages /\ (p = 0 \/ p \in Stages) /\ p # NStages
      /\ 0 \in Pools /\ 1 \in Stages
  BY PoolNumbers
<1>0. OwnedAt(p) /\ IntactAt(p) /\ Len(Waiting(p)) \in Nat
  BY <1>f, <1>p DEF Pooled, Waiting
<1>1. CASE Quiet \/ Returned \/ UNCHANGED vars
  <2>1. UNCHANGED <<pc, out, job, queue, data>>
    BY <1>1, QuietFrame DEF workerVars, Returned, vars, poolVars
  <2> QED
    BY <1>0, <2>1 DEF IntactAt, Reader, Waiting, InputHeld
<1>2. CASE SourceSpawn
  <2>1. /\ src = "spawn" /\ UNCHANGED <<pc, out, job>>
        /\ data' = [data EXCEPT ![0][srcBuf] = next + 1]
        /\ \A u \in Stages \ {1} : queue'[u] = queue[u]
        /\ Len(queue'[1]) = Len(queue[1]) + 1
        /\ \A i \in 1 .. Len(queue[1]) : queue'[1][i] = queue[1][i]
        /\ queue'[1][Len(queue[1]) + 1] = [blk |-> next + 1, buf |-> srcBuf, saw |-> FALSE]
    BY <1>2, SpawnFacts DEF workerVars
  <2>2. Reader(p)' = Reader(p)
    BY <2>1 DEF Reader, InputHeld
  <2>3. CASE p = 0
    <3>1. srcBuf # Empty /\ Writer(p) = srcBuf
      BY <2>1, <2>3 DEF Holding, Writer
    <3>2. /\ srcBuf \in Buffers(p) /\ data'[p][srcBuf] = next + 1
          /\ \A b \in Buffers(p) : b # srcBuf => data'[p][b] = data[p][b]
      BY <1>f, <1>0, <2>1, <2>3, <3>1 DEF OwnedAt
    <3>3. Reader(p)' # Empty => data'[p][Reader(p)'] = job'[p + 1].blk
      BY <1>0, <2>1, <2>2, <3>1, <3>2 DEF OwnedAt, IntactAt
    <3>4. ASSUME NEW i \in 1 .. Len(Waiting(p)'), Waiting(p)'[i].buf # Empty
          PROVE  data'[p][Waiting(p)'[i].buf] = Waiting(p)'[i].blk
      <4>1. i \in 1 .. Len(Waiting(p)) \/ i = Len(Waiting(p)) + 1
        BY <1>0, <2>1, <2>3 DEF Waiting
      <4>2. CASE i \in 1 .. Len(Waiting(p))
        <5>1. Waiting(p)'[i] = Waiting(p)[i]
          BY <2>1, <2>3, <4>2 DEF Waiting
        <5>2. Waiting(p)[i].buf \in Buffers(p) /\ Waiting(p)[i].buf # srcBuf
          BY <1>0, <3>1, <3>4, <4>2, <5>1 DEF OwnedAt
        <5> QED
          BY <1>0, <3>2, <3>4, <4>2, <5>1, <5>2 DEF IntactAt
      <4>3. CASE i = Len(Waiting(p)) + 1
        <5>1. Waiting(p)'[i] = [blk |-> next + 1, buf |-> srcBuf, saw |-> FALSE]
          BY <2>1, <2>3, <4>3 DEF Waiting
        <5> QED
          BY <3>2, <5>1
      <4> QED
        BY <4>1, <4>2, <4>3
    <3> QED
      BY <2>3, <3>3, <3>4 DEF IntactAt
  <2>4. CASE p # 0
    <3>1. data'[p] = data[p] /\ Waiting(p)' = Waiting(p)
      BY <1>f, <1>p, <2>1, <2>4 DEF Waiting
    <3> QED
      BY <1>0, <2>1, <2>2, <3>1 DEF IntactAt
  <2> QED
    BY <2>3, <2>4
<1>3. ASSUME NEW s \in Stages, Start(s) PROVE IntactAt(p)'
  <2>1. /\ pc[s] = "idle" /\ Len(queue[s]) > 0
        /\ job' = [job EXCEPT ![s] = queue[s][1]]
        /\ queue' = [queue EXCEPT ![s] = Tail(queue[s])]
        /\ Len(Tail(queue[s])) = Len(queue[s]) - 1
        /\ \A i \in 1 .. Len(queue[s]) - 1 : Tail(queue[s])[i] = queue[s][i + 1]
        /\ \E point \in {"release", "run", "acquire"} : pc' = [pc EXCEPT ![s] = point]
        /\ UNCHANGED poolVars
    BY <1>3, StartFacts
  <2>2. out' = [out EXCEPT ![s] = Empty] /\ data' = data
    BY <1>3, <2>1 DEF Start, poolVars
  <2>3. p # 0 /\ out'[p] # Empty /\ pc'[p] \in {"release", "post", "hop"} => data'[p][out'[p]] = job'[p].blk
    <3>1. SUFFICES ASSUME p # 0, out'[p] # Empty, pc'[p] \in {"release", "post", "hop"}
                   PROVE  data'[p][out'[p]] = job'[p].blk
      OBVIOUS
    <3>2. p # s
      BY <1>f, <1>p, <2>2, <3>1
    <3>3. out'[p] = out[p] /\ pc'[p] = pc[p] /\ job'[p] = job[p]
      BY <1>f, <1>p, <2>1, <2>2, <3>1, <3>2
    <3> QED
      BY <1>0, <2>2, <3>1, <3>3 DEF IntactAt
  <2>4. CASE s = p + 1
    <3>1. Waiting(p)' = Tail(queue[s]) /\ job'[p + 1] = queue[s][1] /\ Waiting(p) = queue[s]
      BY <1>f, <1>p, <2>1, <2>4 DEF Waiting
    <3>2. ASSUME NEW i \in 1 .. Len(Waiting(p)'), Waiting(p)'[i].buf # Empty
          PROVE  data'[p][Waiting(p)'[i].buf] = Waiting(p)'[i].blk
      <4>1. i + 1 \in 1 .. Len(queue[s]) /\ i \in 1 .. Len(queue[s]) - 1
        BY <1>0, <2>1, <3>1
      <4>2. Waiting(p)'[i] = Waiting(p)[i + 1]
        BY <2>1, <3>1, <4>1
      <4> QED
        BY <1>0, <2>2, <3>1, <3>2, <4>1, <4>2 DEF IntactAt
    <3>3. 1 \in 1 .. Len(Waiting(p))
      BY <1>0, <2>1, <3>1
    <3>4. Reader(p)' # Empty => data'[p][Reader(p)'] = job'[p + 1].blk
      <4>1. Reader(p)' # Empty => Reader(p)' = Waiting(p)[1].buf
        BY <3>1 DEF Reader
      <4> QED
        BY <1>0, <2>2, <3>1, <3>3, <4>1 DEF IntactAt
    <3> QED
      BY <2>3, <3>2, <3>4 DEF IntactAt
  <2>5. CASE s # p + 1
    <3>1. queue'[p + 1] = queue[p + 1] /\ job'[p + 1] = job[p + 1] /\ pc'[p + 1] = pc[p + 1]
      BY <1>f, <1>p, <2>1, <2>5
    <3>2. Waiting(p)' = Waiting(p) /\ Reader(p)' = Reader(p)
      BY <3>1 DEF Waiting, Reader, InputHeld
    <3> QED
      BY <1>0, <2>2, <2>3, <3>1, <3>2 DEF IntactAt
  <2> QED
    BY <2>4, <2>5
<1>4. ASSUME NEW s \in Stages, Inner(s) PROVE IntactAt(p)'
  <2>1. UNCHANGED <<job, queue>> /\ Waiting(p)' = Waiting(p)
    BY <1>4, InnerFrame DEF Waiting
  <2>2. CASE RunOk(s)
    <3>1. /\ pc[s] = "run" /\ pc' = [pc EXCEPT ![s] = "release"] /\ out' = out
          /\ data' = IF s = NStages THEN data
                     ELSE [data EXCEPT ![s][out[s]] = Content(s - 1, job[s].buf)]
      BY <2>2 DEF RunOk, Goto
    <3>2. Content(s - 1, job[s].buf) = job[s].blk
      BY <3>1, ReadsOwnBlock
    <3>3. Reader(p)' = Reader(p)
      BY <1>f, <1>p, <2>1, <3>1 DEF Reader, InputHeld
    <3>4. CASE p = s
      <4>1. p # 0 /\ s # NStages /\ Writer(p) = out[s] /\ out[s] # Empty
        BY <1>p, <3>1, <3>4, PoolNumbers DEF Writer, Holding
      <4>2. /\ out[s] \in Buffers(p) /\ data'[p][out[s]] = job[s].blk
            /\ \A b \in Buffers(p) : b # out[s] => data'[p][b] = data[p][b]
        BY <1>f, <1>0, <3>1, <3>2, <3>4, <4>1 DEF OwnedAt
      <4>3. Reader(p)' # Empty => data'[p][Reader(p)'] = job'[p + 1].blk
        BY <1>0, <2>1, <3>3, <4>1, <4>2 DEF OwnedAt, IntactAt
      <4>4. ASSUME NEW i \in 1 .. Len(Waiting(p)'), Waiting(p)'[i].buf # Empty
            PROVE  data'[p][Waiting(p)'[i].buf] = Waiting(p)'[i].blk
        BY <1>0, <2>1, <4>1, <4>2, <4>4 DEF OwnedAt, IntactAt
      <4> QED
        BY <2>1, <3>1, <3>4, <4>2, <4>3, <4>4 DEF IntactAt
    <3>5. CASE p # s
      <4>1. data'[p] = data[p]
        BY <1>f, <3>1, <3>5
      <4>2. p # 0 => pc'[p] = pc[p] /\ out'[p] = out[p]
        BY <1>f, <1>p, <3>1, <3>5
      <4> QED
        BY <1>0, <2>1, <3>3, <4>1, <4>2 DEF IntactAt
    <3> QED
      BY <3>4, <3>5
  <2>3. CASE ~RunOk(s)
    <3>1. data' = data
      BY <1>4, <2>3 DEF Inner, AcquireOut, PopOut, RunThrow, UnwindOut, Capture, ReleaseIn,
                        PostIn, poolVars
    <3>2. Reader(p)' # Empty => Reader(p)' = Reader(p)
      <4>1. /\ pc[s] \in {"acquire", "pop", "run", "unwind", "unwound", "release", "post"}
            /\ \/ pc' = [pc EXCEPT ![s] = "pop"] \/ pc' = [pc EXCEPT ![s] = "run"]
               \/ pc' = [pc EXCEPT ![s] = "unwind"] \/ pc' = [pc EXCEPT ![s] = "unwound"]
               \/ pc' = [pc EXCEPT ![s] = "release"]
               \/ pc' = [pc EXCEPT ![s] = "post"] \/ pc' = [pc EXCEPT ![s] = "hop"]
            /\ pc[s] = "post" => pc' = [pc EXCEPT ![s] = "hop"]
        BY <1>4, <2>3 DEF Inner, AcquireOut, PopOut, RunThrow, UnwindOut, Capture, ReleaseIn,
                          PostIn, Goto
      <4> QED
        BY <1>f, <1>p, <2>1, <4>1 DEF Reader, InputHeld
    <3>3. p # 0 /\ out'[p] # Empty /\ pc'[p] \in {"release", "post", "hop"} =>
            out'[p] = out[p] /\ pc[p] \in {"release", "post", "hop"}
      <4>1. SUFFICES ASSUME p # 0, out'[p] # Empty, pc'[p] \in {"release", "post", "hop"}
                     PROVE  out'[p] = out[p] /\ pc[p] \in {"release", "post", "hop"}
        OBVIOUS
      <4>2. p \in Stages
        BY <1>p, <4>1
      <4>3. CASE p # s
        <5>1. pc'[p] = pc[p] /\ out'[p] = out[p]
          BY <1>4, <1>f, <2>3, <4>2, <4>3
             DEF Inner, AcquireOut, PopOut, RunThrow, UnwindOut, Capture, ReleaseIn, PostIn, Goto
        <5> QED
          BY <4>1, <5>1
      <4>4. CASE p = s
        <5>1. CASE Capture(s)
          <6>1. pc[s] = "unwound" /\ out' = out
            BY <5>1 DEF Capture
          <6> QED
            BY <4>1, <4>4, <6>1 DEF Holding
        <5>2. CASE ReleaseIn(s) \/ PostIn(s)
          <6>1. pc[s] \in {"release", "post"} /\ out' = out
            BY <5>2 DEF ReleaseIn, PostIn
          <6> QED
            BY <4>4, <6>1
        <5>3. CASE AcquireOut(s) \/ PopOut(s) \/ RunThrow(s) \/ UnwindOut(s)
          <6>1. pc'[s] \in {"pop", "run", "unwind", "unwound"}
            BY <1>f, <5>3 DEF AcquireOut, PopOut, RunThrow, UnwindOut, Goto
          <6> QED
            BY <4>1, <4>4, <6>1
        <5> QED
          BY <1>4, <2>3, <5>1, <5>2, <5>3 DEF Inner
      <4> QED
        BY <4>3, <4>4
    <3> QED
      BY <1>0, <2>1, <3>1, <3>2, <3>3 DEF IntactAt
  <2> QED
    BY <2>2, <2>3
<1>5. ASSUME NEW s \in Stages, Hop(s) PROVE IntactAt(p)'
  <2>1. /\ pc[s] = "hop" /\ pc' = [pc EXCEPT ![s] = "idle"]
        /\ out' = [out EXCEPT ![s] = Empty] /\ UNCHANGED <<job, poolVars>>
    BY <1>5, HopFacts
  <2>2. data' = data
    BY <2>1 DEF poolVars
  <2>3. Reader(p)' = Reader(p)
    BY <1>f, <1>p, <2>1 DEF Reader, InputHeld
  <2>4. p # 0 /\ out'[p] # Empty => p # s /\ out'[p] = out[p] /\ pc'[p] = pc[p]
    BY <1>f, <1>p, <2>1
  <2>5. ASSUME NEW i \in 1 .. Len(Waiting(p)'), Waiting(p)'[i].buf # Empty
        PROVE  data[p][Waiting(p)'[i].buf] = Waiting(p)'[i].blk
    <3>1. CASE p = s
      <4>1. p # 0 /\ s # NStages
        BY <1>p, <3>1, PoolNumbers
      <4>2. /\ Len(Waiting(p)') = Len(Waiting(p)) + 1
            /\ \A j \in 1 .. Len(Waiting(p)) : Waiting(p)'[j] = Waiting(p)[j]
            /\ Waiting(p)'[Len(Waiting(p)) + 1] =
                 [blk |-> job[s].blk, buf |-> out[s], saw |-> view[s]]
        BY <1>5, <3>1, <4>1, HopFacts DEF Waiting
      <4>3. i \in 1 .. Len(Waiting(p)) \/ i = Len(Waiting(p)) + 1
        BY <1>0, <4>2
      <4>4. out[s] # Empty => data[p][out[s]] = job[s].blk
        BY <1>0, <2>1, <3>1, <4>1 DEF IntactAt
      <4> QED
        BY <1>0, <2>5, <4>2, <4>3, <4>4 DEF IntactAt
    <3>2. CASE p # s
      <4>1. Waiting(p)' = Waiting(p)
        <5>1. CASE s = NStages
          BY <1>5, <5>1, HopFacts DEF Waiting
        <5>2. CASE s # NStages
          <6>1. \A u \in Stages \ {s + 1} : queue'[u] = queue[u]
            BY <1>5, <5>2, HopFacts
          <6>2. p + 1 # s + 1
            BY <1>p, <3>2, PoolNumbers
          <6> QED
            BY <1>p, <6>1, <6>2 DEF Waiting
        <5> QED
          BY <5>1, <5>2
      <4> QED
        BY <1>0, <2>5, <4>1 DEF IntactAt
    <3> QED
      BY <3>1, <3>2
  <2> QED
    BY <1>0, <2>1, <2>2, <2>3, <2>4, <2>5 DEF IntactAt
<1> QED
  BY <1>1, <1>2, <1>3, <1>4, <1>5, NextCases

-----------------------------------------------------------------------------
(* The semaphores count the free buffers, give or take the threads that    *)
(* are halfway through acquire() or release().                             *)

LEMMA PoolSizes ==
  ASSUME TypeOK, NEW p \in Pools
  PROVE  /\ IsFiniteSet(free[p]) /\ Cardinality(free[p]) \in Nat
         /\ IsFiniteSet(Buffers(p)) /\ Cardinality(Buffers(p)) = InFlight[p]
         /\ InFlight[p] \in Nat /\ avail[p] \in Nat
<1>1. InFlight[p] \in Nat /\ InFlight[p] > 0
  BY InFlightAssumption DEF Pools
<1>2. IsFiniteSet(Buffers(p)) /\ Cardinality(Buffers(p)) = InFlight[p]
  <2>1. 1 \in Int /\ InFlight[p] \in Int
    BY <1>1
  <2>2. /\ IsFiniteSet(1 .. InFlight[p])
        /\ Cardinality(1 .. InFlight[p]) =
             IF 1 > InFlight[p] THEN 0 ELSE InFlight[p] - 1 + 1
    BY <2>1, FS_Interval
  <2>3. Cardinality(1 .. InFlight[p]) = InFlight[p]
    BY <1>1, <2>2
  <2> QED
    BY <2>2, <2>3 DEF Buffers
<1>3. free[p] \in SUBSET Buffers(p) /\ avail[p] \in Nat
  BY DEF TypeOK
<1>4. IsFiniteSet(free[p])
  BY <1>2, <1>3, FS_Subset
<1> QED
  BY <1>1, <1>2, <1>3, <1>4, FS_CardinalityType

(* What one step may do to a pool's free list and to the count of it.      *)
Reckoned(p) == avail[p] + Between(p)
TallyAt(p) ==
  \/ free'[p] = free[p] /\ Reckoned(p)' = Reckoned(p)
  \/ \E b \in free[p] : free'[p] = free[p] \ {b} /\ Reckoned(p)' = Reckoned(p) - 1
  \/ \E b \in Buffers(p) \ free[p] :
       free'[p] = free[p] \cup {b} /\ Reckoned(p)' = Reckoned(p) + 1

LEMMA TallyCounts ==
  ASSUME TypeOK, NEW p \in Pools, CountedAt(p), TallyAt(p)
  PROVE  CountedAt(p)'
<1>1. IsFiniteSet(free[p]) /\ Cardinality(free[p]) \in Nat /\ Cardinality(free[p]) = Reckoned(p)
  BY PoolSizes DEF CountedAt, Reckoned
<1>2. CASE free'[p] = free[p] /\ Reckoned(p)' = Reckoned(p)
  BY <1>1, <1>2 DEF CountedAt, Reckoned
<1>3. ASSUME NEW b \in free[p], free'[p] = free[p] \ {b}, Reckoned(p)' = Reckoned(p) - 1
      PROVE  CountedAt(p)'
  <2>1. Cardinality(free'[p]) = Cardinality(free[p]) - 1
    BY <1>1, <1>3, FS_RemoveElement
  <2> QED
    BY <1>1, <1>3, <2>1 DEF CountedAt, Reckoned
<1>4. ASSUME NEW b \in Buffers(p) \ free[p], free'[p] = free[p] \cup {b},
             Reckoned(p)' = Reckoned(p) + 1
      PROVE  CountedAt(p)'
  <2>1. Cardinality(free'[p]) = Cardinality(free[p]) + 1
    BY <1>1, <1>4, FS_AddElement
  <2> QED
    BY <1>1, <1>4, <2>1 DEF CountedAt, Reckoned
<1> QED
  BY <1>2, <1>3, <1>4 DEF TallyAt

(* A step that moves no semaphore, free list or halfway thread.            *)
LEMMA TallyFrame ==
  ASSUME NEW p \in Pools, UNCHANGED <<avail, free>>, Between(p)' = Between(p)
  PROVE  TallyAt(p)
BY DEF TallyAt, Reckoned

LEMMA TallyStep ==
  ASSUME TypeOK, Holding, Pooled, [Next]_vars, NEW p \in Pools
  PROVE  TallyAt(p)
<1>f. /\ pc \in [Stages -> WorkerPoints] /\ free \in [Pools -> SUBSET Nat]
      /\ avail \in [Pools -> Nat]
  BY DEF TypeOK
<1>p. /\ p \in Int /\ p + 1 \in Stages /\ (p = 0 \/ p \in Stages) /\ p # NStages
      /\ 0 \in Pools
  BY PoolNumbers
<1>a. avail[p] \in Int /\ OwnedAt(p) /\ Between(p) \in Int
  BY <1>f DEF Pooled, Between
<1>1. CASE SourceNext \/ SourceEnd \/ Return \/ SourceSpawn \/ Returned \/ UNCHANGED vars
  <2>1. UNCHANGED <<avail, free, pc>> /\ (src' = "pop" <=> src = "pop")
    BY <1>1 DEF SourceNext, SourceEnd, Return, SourceSpawn, Returned, vars, callerVars,
                workerVars, poolVars
  <2> QED
    BY <2>1, TallyFrame DEF Between
<1>2. CASE SourceAcquire
  <2>1. /\ src = "acquire" /\ src' = "pop" /\ pc' = pc /\ free' = free
        /\ avail' = [avail EXCEPT ![0] = @ - 1]
    BY <1>2 DEF SourceAcquire, SemAcquire, workerVars
  <2>2. CASE p = 0
    <3>1. Between(p)' = Between(p) + 1 /\ avail'[p] = avail[p] - 1
      BY <1>f, <2>1, <2>2 DEF Between
    <3> QED
      BY <1>a, <2>1, <3>1 DEF TallyAt, Reckoned
  <2>3. CASE p # 0
    <3>1. Between(p)' = Between(p) /\ avail'[p] = avail[p]
      BY <1>f, <2>1, <2>3 DEF Between
    <3> QED
      BY <2>1, <3>1 DEF TallyAt, Reckoned
  <2> QED
    BY <2>2, <2>3
<1>3. CASE SourcePop
  <2>1. /\ src = "pop" /\ src' = "spawn" /\ pc' = pc /\ avail' = avail
        /\ \E b \in free[0] : free' = [free EXCEPT ![0] = @ \ {b}]
    BY <1>3 DEF SourcePop, PopFree, workerVars
  <2>2. CASE p = 0
    <3>1. Between(p)' = Between(p) - 1
      BY <1>f, <2>1, <2>2 DEF Between
    <3>2. \E b \in free[p] : free'[p] = free[p] \ {b}
      BY <1>f, <2>1, <2>2
    <3> QED
      BY <1>a, <2>1, <3>1, <3>2 DEF TallyAt, Reckoned
  <2>3. CASE p # 0
    <3>1. Between(p)' = Between(p) /\ free'[p] = free[p]
      BY <1>f, <2>1, <2>3 DEF Between
    <3> QED
      BY <2>1, <3>1 DEF TallyAt, Reckoned
  <2> QED
    BY <2>2, <2>3
<1>4. ASSUME NEW s \in Stages, Start(s) \/ Hop(s) PROVE TallyAt(p)
  <2>1. UNCHANGED <<avail, free, src>>
    BY <1>4 DEF Start, Hop, callerVars, poolVars
  <2>2. /\ pc[s] \notin {"pop", "unwind", "post"}
        /\ \E point \in {"release", "run", "acquire", "idle"} : pc' = [pc EXCEPT ![s] = point]
    BY <1>4 DEF Start, Hop, Goto
  <2>3. Between(p)' = Between(p)
    BY <1>f, <1>p, <2>1, <2>2 DEF Between
  <2> QED
    BY <2>1, <2>3, TallyFrame
<1>5. ASSUME NEW s \in Stages, Inner(s) PROVE TallyAt(p)
  <2>0. src' = src
    BY <1>5, InnerFrame DEF callerVars
  <2>s. s \in Int /\ s - 1 \in Pools /\ (s - 1) + 1 = s /\ s # 0 /\ s # s + 1
        /\ (s # NStages => s \in Pools)
    BY PoolNumbers
  <2>1. CASE AcquireOut(s)
    <3>1. /\ pc[s] = "acquire" /\ pc' = [pc EXCEPT ![s] = "pop"] /\ free' = free
          /\ avail' = [avail EXCEPT ![s] = @ - 1]
      BY <2>1 DEF AcquireOut, SemAcquire, Goto
    <3>2. CASE p = s
      <4>1. pc'[p] = "pop" /\ pc'[p + 1] = pc[p + 1] /\ p # 0 /\ avail'[p] = avail[p] - 1
        BY <1>f, <1>p, <2>s, <3>1, <3>2
      <4>2. Between(p)' = Between(p) + 1
        BY <3>1, <3>2, <4>1 DEF Between
      <4> QED
        BY <1>a, <3>1, <4>1, <4>2 DEF TallyAt, Reckoned
    <3>3. CASE p # s
      <4>1. avail'[p] = avail[p] /\ Between(p)' = Between(p)
        BY <1>f, <1>p, <2>0, <3>1, <3>3 DEF Between
      <4> QED
        BY <3>1, <4>1 DEF TallyAt, Reckoned
    <3> QED
      BY <3>2, <3>3
  <2>2. CASE PopOut(s)
    <3>1. /\ pc[s] = "pop" /\ pc' = [pc EXCEPT ![s] = "run"] /\ avail' = avail
          /\ \E b \in free[s] : free' = [free EXCEPT ![s] = @ \ {b}]
      BY <2>2 DEF PopOut, PopFree, Goto
    <3>2. CASE p = s
      <4>1. pc'[p] = "run" /\ pc'[p + 1] = pc[p + 1] /\ p # 0
        BY <1>f, <1>p, <2>s, <3>1, <3>2
      <4>2. Between(p)' = Between(p) - 1
        BY <3>1, <3>2, <4>1 DEF Between
      <4>3. \E b \in free[p] : free'[p] = free[p] \ {b}
        BY <1>f, <3>1, <3>2
      <4> QED
        BY <1>a, <3>1, <4>2, <4>3 DEF TallyAt, Reckoned
    <3>3. CASE p # s
      <4>1. free'[p] = free[p] /\ Between(p)' = Between(p)
        BY <1>f, <1>p, <2>0, <3>1, <3>3 DEF Between
      <4> QED
        BY <3>1, <4>1 DEF TallyAt, Reckoned
    <3> QED
      BY <3>2, <3>3
  <2>3. CASE RunOk(s) \/ Capture(s)
    <3>1. /\ UNCHANGED <<avail, free>> /\ pc[s] \in {"run", "unwound"}
          /\ pc' = [pc EXCEPT ![s] = "release"]
      BY <2>3 DEF RunOk, Capture, Goto, poolVars
    <3>2. Between(p)' = Between(p)
      BY <1>f, <1>p, <2>0, <3>1 DEF Between
    <3> QED
      BY <3>1, <3>2, TallyFrame
  <2>4. CASE RunThrow(s)
    <3>1. CASE s = NStages
      <4>1. /\ UNCHANGED <<avail, free>> /\ pc[s] = "run"
            /\ pc' = [pc EXCEPT ![s] = "unwound"]
        BY <2>4, <3>1 DEF RunThrow, Goto
      <4>2. Between(p)' = Between(p)
        BY <1>f, <1>p, <2>0, <4>1 DEF Between
      <4> QED
        BY <4>1, <4>2, TallyFrame
    <3>2. CASE s # NStages
      <4>1. /\ pc[s] = "run" /\ pc' = [pc EXCEPT ![s] = "unwind"] /\ avail' = avail
            /\ free' = [free EXCEPT ![s] = @ \cup {out[s]}]
        BY <2>4, <3>2 DEF RunThrow, Goto, PushFree
      <4>2. CASE p = s
        <5>1. Writer(p) = out[s] /\ out[s] # Empty
          BY <2>s, <3>2, <4>1, <4>2 DEF Writer, Holding
        <5>2. out[s] \in Buffers(p) \ free[p] /\ free'[p] = free[p] \cup {out[s]}
          BY <1>a, <1>f, <4>1, <4>2, <5>1 DEF OwnedAt
        <5>3. pc'[p] = "unwind" /\ pc'[p + 1] = pc[p + 1] /\ p # 0
          BY <1>f, <1>p, <2>s, <4>1, <4>2
        <5>4. Between(p)' = Between(p) + 1
          BY <4>1, <4>2, <5>3 DEF Between
        <5>5. Reckoned(p)' = Reckoned(p) + 1
          BY <1>a, <4>1, <5>4 DEF Reckoned
        <5> QED
          BY <5>2, <5>5 DEF TallyAt
      <4>3. CASE p # s
        <5>1. free'[p] = free[p] /\ Between(p)' = Between(p)
          BY <1>f, <1>p, <2>0, <4>1, <4>3 DEF Between
        <5> QED
          BY <4>1, <5>1 DEF TallyAt, Reckoned
      <4> QED
        BY <4>2, <4>3
    <3> QED
      BY <3>1, <3>2
  <2>5. CASE UnwindOut(s)
    <3>1. /\ pc[s] = "unwind" /\ pc' = [pc EXCEPT ![s] = "unwound"] /\ free' = free
          /\ avail' = [avail EXCEPT ![s] = @ + 1]
      BY <2>5 DEF UnwindOut, SemRelease, Goto
    <3>2. CASE p = s
      <4>1. pc'[p] = "unwound" /\ pc'[p + 1] = pc[p + 1] /\ p # 0 /\ avail'[p] = avail[p] + 1
        BY <1>f, <1>p, <2>s, <3>1, <3>2
      <4>2. Between(p)' = Between(p) - 1
        BY <3>1, <3>2, <4>1 DEF Between
      <4> QED
        BY <1>a, <3>1, <4>1, <4>2 DEF TallyAt, Reckoned
    <3>3. CASE p # s
      <4>1. avail'[p] = avail[p] /\ Between(p)' = Between(p)
        BY <1>f, <1>p, <2>0, <3>1, <3>3 DEF Between
      <4> QED
        BY <3>1, <4>1 DEF TallyAt, Reckoned
    <3> QED
      BY <3>2, <3>3
  <2>6. CASE ReleaseIn(s)
    <3>1. CASE job[s].buf = Empty
      <4>1. /\ UNCHANGED <<avail, free>> /\ pc[s] = "release"
            /\ pc' = [pc EXCEPT ![s] = "hop"]
        BY <2>6, <3>1 DEF ReleaseIn, Goto
      <4>2. Between(p)' = Between(p)
        BY <1>f, <1>p, <2>0, <4>1 DEF Between
      <4> QED
        BY <4>1, <4>2, TallyFrame
    <3>2. CASE job[s].buf # Empty
      <4>1. /\ pc[s] = "release" /\ pc' = [pc EXCEPT ![s] = "post"] /\ avail' = avail
            /\ free' = [free EXCEPT ![s - 1] = @ \cup {job[s].buf}]
        BY <2>6, <3>2 DEF ReleaseIn, Goto, PushFree
      <4>2. CASE p = s - 1
        <5>1. p + 1 = s /\ Reader(p) = job[s].buf
          BY <1>p, <2>s, <4>1, <4>2 DEF Reader, InputHeld
        <5>2. job[s].buf \in Buffers(p) \ free[p] /\ free'[p] = free[p] \cup {job[s].buf}
          BY <1>a, <1>f, <3>2, <4>1, <4>2, <5>1 DEF OwnedAt
        <5>3. pc'[p + 1] = "post" /\ (p # 0 => pc'[p] = pc[p])
          BY <1>f, <1>p, <2>s, <4>1, <5>1
        <5>4. Between(p)' = Between(p) + 1
          BY <2>0, <4>1, <5>1, <5>3 DEF Between
        <5>5. Reckoned(p)' = Reckoned(p) + 1
          BY <1>a, <4>1, <5>4 DEF Reckoned
        <5> QED
          BY <5>2, <5>5 DEF TallyAt
      <4>3. CASE p # s - 1
        <5>1. p + 1 # s
          BY <1>p, <2>s, <4>3
        <5>2. free'[p] = free[p] /\ Between(p)' = Between(p)
          BY <1>f, <1>p, <2>0, <4>1, <4>3, <5>1 DEF Between
        <5> QED
          BY <4>1, <5>2 DEF TallyAt, Reckoned
      <4> QED
        BY <4>2, <4>3
    <3> QED
      BY <3>1, <3>2
  <2>7. CASE PostIn(s)
    <3>1. /\ pc[s] = "post" /\ pc' = [pc EXCEPT ![s] = "hop"] /\ free' = free
          /\ avail' = [avail EXCEPT ![s - 1] = @ + 1]
      BY <2>7 DEF PostIn, SemRelease, Goto
    <3>2. CASE p = s - 1
      <4>1. p + 1 = s /\ pc'[p + 1] = "hop" /\ (p # 0 => pc'[p] = pc[p])
            /\ avail'[p] = avail[p] + 1
        BY <1>f, <1>p, <2>s, <3>1, <3>2
      <4>2. Between(p)' = Between(p) - 1
        BY <2>0, <3>1, <4>1 DEF Between
      <4> QED
        BY <1>a, <3>1, <4>1, <4>2 DEF TallyAt, Reckoned
    <3>3. CASE p # s - 1
      <4>1. p + 1 # s
        BY <1>p, <2>s, <3>3
      <4>2. avail'[p] = avail[p] /\ Between(p)' = Between(p)
        BY <1>f, <1>p, <2>0, <3>1, <3>3, <4>1 DEF Between
      <4> QED
        BY <3>1, <4>2 DEF TallyAt, Reckoned
    <3> QED
      BY <3>2, <3>3
  <2> QED
    BY <1>5, <2>1, <2>2, <2>3, <2>4, <2>5, <2>6, <2>7 DEF Inner
<1> QED
  BY <1>1, <1>2, <1>3, <1>4, <1>5, NextCases DEF Quiet

-----------------------------------------------------------------------------
(* Types.                                                                  *)

LEMMA TypeStep ==
  ASSUME TypeOK, Numbered, Ordered, Holding, Pooled, [Next]_vars
  PROVE  TypeOK'
<1> USE NStagesAssumption
<1>f. /\ pc \in [Stages -> WorkerPoints] /\ out \in [Stages -> Nat]
      /\ job \in [Stages -> Chain] /\ queue \in [Stages -> Seq(Chain)]
      /\ avail \in [Pools -> Nat] /\ free \in [Pools -> SUBSET Nat]
      /\ DOMAIN data = Pools /\ \A p \in Pools : data[p] \in [Buffers(p) -> Nat]
      /\ view \in [Stages -> BOOLEAN] /\ last \in [Stages -> Nat] /\ next \in Nat
  BY DEF TypeOK
(* The free lists. *)
<1>1. \A p \in Pools : free'[p] \subseteq Buffers(p)
  <2>1. ASSUME NEW p \in Pools PROVE free'[p] \subseteq Buffers(p)
    <3>1. TallyAt(p) /\ free[p] \subseteq Buffers(p)
      BY TallyStep DEF TypeOK
    <3> QED
      BY <3>1 DEF TallyAt
  <2> QED
    BY <2>1
(* What a stage reads. *)
<1>2. \A s \in Stages : Content(s - 1, job[s].buf) \in Nat
  <2>1. ASSUME NEW s \in Stages PROVE Content(s - 1, job[s].buf) \in Nat
    <3>1. s - 1 \in Pools
      BY PoolNumbers
    <3> QED
      BY <1>f, <3>1 DEF Content
  <2> QED
    BY <2>1
<1>3. CASE Quiet
  <2>1. /\ UNCHANGED <<next, pc, job, out, view, queue, err, stopped, last, bad, data, active>>
        /\ src' \in CallerPoints /\ srcBuf' \in Nat /\ srcErr' \in BOOLEAN /\ result' \in Results
        /\ avail' \in [Pools -> Nat] /\ free' \in [Pools -> SUBSET Nat]
    <3>1. UNCHANGED <<next, pc, job, out, view, queue, err, stopped, last, bad, data, active>>
      BY <1>3, QuietFrame DEF workerVars, funnelVars, ghostVars
    <3>2. CASE SourceNext \/ SourceEnd \/ Return
      <4>1. UNCHANGED <<srcBuf, avail, free>>
        BY <3>2 DEF SourceNext, SourceEnd, Return, poolVars
      <4>2. src' \in CallerPoints /\ srcErr' \in BOOLEAN /\ result' \in Results
        BY <3>2 DEF SourceNext, SourceEnd, Return, TypeOK, CallerPoints, Results
      <4> QED
        BY <3>1, <4>1, <4>2 DEF TypeOK
    <3>3. CASE SourceAcquire
      <4>1. /\ UNCHANGED <<srcBuf, srcErr, result, free>> /\ src' = "pop"
            /\ avail[0] > 0 /\ avail' = [avail EXCEPT ![0] = @ - 1]
        BY <3>3 DEF SourceAcquire, SemAcquire
      <4>2. 0 \in Pools /\ avail[0] \in Nat
        BY <1>f, PoolNumbers
      <4>3. avail[0] - 1 \in Nat
        BY <4>1, <4>2
      <4>4. avail' \in [Pools -> Nat]
        BY <1>f, <4>1, <4>2, <4>3
      <4> QED
        BY <3>1, <4>1, <4>4 DEF TypeOK, CallerPoints
    <3>4. CASE SourcePop
      <4>1. /\ UNCHANGED <<srcErr, result, avail>> /\ src' = "spawn"
            /\ \E b \in Buffers(0) : free' = [free EXCEPT ![0] = @ \ {b}] /\ srcBuf' = b
        BY <3>4 DEF SourcePop, PopFree
      <4>2. 0 \in Pools /\ Buffers(0) \subseteq Nat
        BY PoolNumbers DEF Buffers
      <4>3. free' \in [Pools -> SUBSET Nat] /\ srcBuf' \in Nat
        BY <1>f, <4>1, <4>2
      <4> QED
        BY <3>1, <4>1, <4>3 DEF TypeOK, CallerPoints
    <3> QED
      BY <1>3, <3>2, <3>3, <3>4 DEF Quiet
  <2> QED
    BY <1>1, <2>1 DEF TypeOK
<1>4. CASE SourceSpawn
  <2>1. /\ UNCHANGED <<srcErr, result, pc, job, out, view, avail, free, err, stopped, last, bad>>
        /\ src' = "emit" /\ next' = next + 1 /\ srcBuf' = Empty /\ active' = active + 1
        /\ data' = [data EXCEPT ![0][srcBuf] = next + 1]
        /\ queue' \in [Stages -> Seq(Chain)]
    BY <1>4, SpawnFacts DEF workerVars, funnelVars, ghostVars
  <2>2. next' \in Nat /\ active' \in Nat /\ srcBuf' \in Nat /\ src' \in CallerPoints
    BY <2>1 DEF TypeOK, Empty, CallerPoints
  <2>3. DOMAIN data' = Pools /\ \A p \in Pools : data'[p] \in [Buffers(p) -> Nat]
    <3>1. DOMAIN data' = DOMAIN data
      BY <2>1
    <3>2. \A p \in Pools : data'[p] \in [Buffers(p) -> Nat]
      BY <1>f, <2>1, <2>2
    <3> QED
      BY <1>f, <3>1, <3>2
  <2> QED
    BY <2>1, <2>2, <2>3 DEF TypeOK
<1>5. ASSUME NEW s \in Stages, Start(s) PROVE TypeOK'
  <2>1. /\ job' = [job EXCEPT ![s] = queue[s][1]] /\ queue[s][1] \in Chain
        /\ queue' = [queue EXCEPT ![s] = Tail(queue[s])] /\ Len(queue[s]) > 0
        /\ \E v \in BOOLEAN : view' = [view EXCEPT ![s] = v]
        /\ \E point \in {"release", "run", "acquire"} : pc' = [pc EXCEPT ![s] = point]
        /\ UNCHANGED <<callerVars, poolVars, funnelVars, ghostVars, active>>
    BY <1>5, StartFacts
  <2>2. out' \in [Stages -> Nat]
    BY <1>5, <1>f DEF Start, Empty
  <2>3. job' \in [Stages -> Chain] /\ view' \in [Stages -> BOOLEAN]
    BY <1>f, <2>1
  <2>4. pc' \in [Stages -> WorkerPoints]
    BY <1>f, <2>1 DEF WorkerPoints
  <2>5. queue' \in [Stages -> Seq(Chain)]
    <3>1. queue[s] \in Seq(Chain) /\ queue[s] # <<>>
      BY <1>f, <2>1
    <3>2. Tail(queue[s]) \in Seq(Chain)
      BY <3>1
    <3> QED
      BY <1>f, <2>1, <3>2
  <2> QED
    BY <2>1, <2>2, <2>3, <2>4, <2>5 DEF TypeOK, callerVars, poolVars, funnelVars, ghostVars
<1>6. ASSUME NEW s \in Stages, Inner(s) PROVE TypeOK'
  <2>1. /\ UNCHANGED <<src, next, srcBuf, srcErr, result, job, queue, active>>
        /\ pc' \in [Stages -> WorkerPoints]
    BY <1>6, <1>f, InnerFrame DEF callerVars
  <2>2. s - 1 \in Pools /\ (s # NStages => s \in Pools) /\ Content(s - 1, job[s].buf) \in Nat
    BY <1>2, PoolNumbers
  <2>3. CASE AcquireOut(s)
    <3>1. s \in Pools
      BY <2>2, <2>3 DEF AcquireOut, Holding
    <3>2. /\ avail[s] > 0 /\ avail' = [avail EXCEPT ![s] = @ - 1]
          /\ UNCHANGED <<out, view, free, data, err, stopped, last, bad>>
      BY <2>3 DEF AcquireOut, SemAcquire, funnelVars, ghostVars
    <3>3. avail[s] - 1 \in Nat
      BY <1>f, <3>1, <3>2
    <3>4. avail' \in [Pools -> Nat]
      BY <1>f, <3>1, <3>2, <3>3
    <3> QED
      BY <2>1, <3>2, <3>4 DEF TypeOK
  <2>4. CASE PopOut(s)
    <3>1. /\ \E b \in Buffers(s) : free' = [free EXCEPT ![s] = @ \ {b}]
                                   /\ out' = [out EXCEPT ![s] = b]
          /\ UNCHANGED <<view, avail, data, err, stopped, last, bad>>
      BY <2>4 DEF PopOut, PopFree, funnelVars, ghostVars
    <3>2. PICK b \in Buffers(s) : free' = [free EXCEPT ![s] = @ \ {b}]
                                  /\ out' = [out EXCEPT ![s] = b]
      BY <3>1
    <3>3. b \in Nat /\ \A p \in Pools : free[p] \ {b} \in SUBSET Nat
      BY <1>f DEF Buffers
    <3>4. free' \in [Pools -> SUBSET Nat] /\ out' \in [Stages -> Nat]
      BY <1>f, <3>2, <3>3
    <3> QED
      BY <1>1, <2>1, <3>1, <3>4 DEF TypeOK
  <2>5. CASE RunOk(s)
    <3>1. /\ last' = [last EXCEPT ![s] = Content(s - 1, job[s].buf)]
          /\ data' = IF s = NStages THEN data
                     ELSE [data EXCEPT ![s][out[s]] = Content(s - 1, job[s].buf)]
          /\ UNCHANGED <<out, view, avail, free, err, stopped, bad>>
      BY <2>5 DEF RunOk, funnelVars
    <3>2. last' \in [Stages -> Nat]
      BY <1>f, <2>2, <3>1
    <3>3. DOMAIN data' = Pools /\ \A p \in Pools : data'[p] \in [Buffers(p) -> Nat]
      BY <1>f, <2>2, <3>1
    <3> QED
      BY <2>1, <3>1, <3>2, <3>3 DEF TypeOK
  <2>6. CASE RunThrow(s)
    <3>1. /\ bad' = bad \cup {job[s].blk} /\ out' = [out EXCEPT ![s] = Empty]
          /\ free' = free \/ free' = [free EXCEPT ![s] = @ \cup {out[s]}]
          /\ UNCHANGED <<view, avail, data, err, stopped, last>>
      BY <2>6 DEF RunThrow, PushFree, funnelVars
    <3>2. job[s].blk \in Nat
      BY <1>f DEF Chain
    <3>3. bad' \subseteq Nat
      BY <3>1, <3>2 DEF TypeOK
    <3>4. out[s] \in Nat /\ \A p \in Pools : free[p] \cup {out[s]} \in SUBSET Nat
      BY <1>f
    <3>5. out' \in [Stages -> Nat] /\ free' \in [Pools -> SUBSET Nat]
      BY <1>f, <3>1, <3>4 DEF Empty
    <3> QED
      BY <1>1, <2>1, <3>1, <3>3, <3>5 DEF TypeOK
  <2>7. CASE UnwindOut(s)
    <3>1. /\ avail' = [avail EXCEPT ![s] = @ + 1]
          /\ UNCHANGED <<out, view, free, data, err, stopped, last, bad>>
      BY <2>7 DEF UnwindOut, SemRelease, funnelVars, ghostVars
    <3>2. avail \in [Pools -> Nat] /\ \A p \in Pools : avail[p] + 1 \in Nat
      BY <1>f
    <3>3. avail' \in [Pools -> Nat]
      <4>1. avail' = [avail EXCEPT ![s] = avail[s] + 1]
        BY <3>1
      <4> QED
        BY <3>2, <4>1
    <3> QED
      BY <2>1, <3>1, <3>3 DEF TypeOK
  <2>8. CASE Capture(s)
    <3>1. /\ err' = (IF err = 0 THEN s ELSE err) /\ stopped' = TRUE
          /\ view' = [view EXCEPT ![s] = TRUE]
          /\ UNCHANGED <<out, avail, free, data, last, bad>>
      BY <2>8 DEF Capture, poolVars, ghostVars
    <3>2. err' \in 0 .. NStages
      BY <3>1 DEF TypeOK, Stages
    <3>3. view' \in [Stages -> BOOLEAN]
      BY <1>f, <3>1
    <3> QED
      BY <2>1, <3>1, <3>2, <3>3 DEF TypeOK
  <2>9. CASE ReleaseIn(s)
    <3>1. /\ free' = free \/ free' = [free EXCEPT ![s - 1] = @ \cup {job[s].buf}]
          /\ UNCHANGED <<out, view, avail, data, err, stopped, last, bad>>
      BY <2>9 DEF ReleaseIn, PushFree, funnelVars, ghostVars
    <3>2. job[s].buf \in Nat /\ \A p \in Pools : free[p] \cup {job[s].buf} \in SUBSET Nat
      BY <1>f DEF Chain
    <3>3. free' \in [Pools -> SUBSET Nat]
      BY <1>f, <3>1, <3>2, ZenonT(60)
    <3> QED
      BY <1>1, <2>1, <3>1, <3>3 DEF TypeOK
  <2>10. CASE PostIn(s)
    <3>1. /\ avail' = [avail EXCEPT ![s - 1] = @ + 1]
          /\ UNCHANGED <<out, view, free, data, err, stopped, last, bad>>
      BY <2>10 DEF PostIn, SemRelease, funnelVars, ghostVars
    <3>2. \A p \in Pools : avail[p] \in Nat /\ avail[p] + 1 \in Nat
      BY <1>f
    <3>3. avail' \in [Pools -> Nat]
      BY <1>f, <3>1, <3>2
    <3> QED
      BY <2>1, <3>1, <3>3 DEF TypeOK
  <2> QED
    BY <1>6, <2>3, <2>4, <2>5, <2>6, <2>7, <2>8, <2>9, <2>10 DEF Inner
<1>7. ASSUME NEW s \in Stages, Hop(s) PROVE TypeOK'
  <2>1. /\ pc' = [pc EXCEPT ![s] = "idle"] /\ out' = [out EXCEPT ![s] = Empty]
        /\ queue' \in [Stages -> Seq(Chain)]
        /\ UNCHANGED <<callerVars, job, view, poolVars, funnelVars, ghostVars>>
    BY <1>7, HopFacts
  <2>2. pc' \in [Stages -> WorkerPoints] /\ out' \in [Stages -> Nat]
    BY <1>f, <2>1 DEF WorkerPoints, Empty
  <2>3. active' \in Nat
    <3>1. Ordered' /\ NStages \in Stages
      BY NumberedStep, PoolNumbers
    <3>2. Passed(NStages)' <= next' /\ active' = next' - Passed(NStages)'
      BY <3>1 DEF Ordered
    <3>3. next' \in Nat /\ job'[NStages].blk \in Nat
      BY <1>f, <2>1, <3>1 DEF callerVars, Chain
    <3>4. Passed(NStages)' \in Int
      BY <3>3 DEF Passed
    <3> QED
      BY <3>2, <3>3, <3>4
  <2> QED
    BY <2>1, <2>2, <2>3 DEF TypeOK, callerVars, poolVars, funnelVars, ghostVars
<1>8. CASE Returned \/ UNCHANGED vars
  BY <1>8 DEF Returned, vars, callerVars, workerVars, poolVars, funnelVars, ghostVars, TypeOK
<1> QED
  BY <1>3, <1>4, <1>5, <1>6, <1>7, <1>8, NextCases

-----------------------------------------------------------------------------
(* The invariant holds initially and is kept.                              *)

LEMMA InitHolds ==
  ASSUME Init
  PROVE  IInv
<1> USE NStagesAssumption
<1>1. /\ \A s \in Stages : /\ queue[s] = <<>> /\ pc[s] = "idle" /\ out[s] = Empty /\ view[s] = FALSE
                           /\ last[s] = 0 /\ job[s] = [blk |-> 0, buf |-> Empty, saw |-> FALSE]
      /\ next = 0 /\ src = "emit" /\ srcBuf = Empty /\ active = 0
  BY DEF Init
<1>2. TypeOK
  <2>1. avail \in [Pools -> Nat] /\ free \in [Pools -> SUBSET Nat]
    BY InFlightAssumption DEF Init, Pools, Buffers
  <2>2. /\ queue \in [Stages -> Seq(Chain)] /\ pc \in [Stages -> WorkerPoints]
        /\ view \in [Stages -> BOOLEAN]
    BY DEF Init, WorkerPoints
  <2>3. job \in [Stages -> Chain] /\ out \in [Stages -> Nat] /\ last \in [Stages -> Nat]
    BY DEF Init, Chain, Empty
  <2>4. DOMAIN data = Pools /\ \A p \in Pools : data[p] \in [Buffers(p) -> Nat]
    BY DEF Init
  <2>5. \A p \in Pools : free[p] \subseteq Buffers(p)
    BY DEF Init
  <2>6. /\ src \in CallerPoints /\ next \in Nat /\ srcBuf \in Nat /\ srcErr \in BOOLEAN
        /\ active \in Nat /\ err \in 0 .. NStages /\ stopped \in BOOLEAN /\ result \in Results
    <3>1. /\ src = "emit" /\ next = 0 /\ srcBuf = 0 /\ srcErr = FALSE /\ active = 0
          /\ err = 0 /\ stopped = FALSE /\ result = "none"
      BY DEF Init, Empty
    <3>2. next \in Nat /\ srcBuf \in Nat /\ active \in Nat /\ err \in 0 .. NStages
      BY <3>1
    <3>3. src \in CallerPoints /\ srcErr \in BOOLEAN /\ stopped \in BOOLEAN /\ result \in Results
      BY <3>1, Zenon DEF CallerPoints, Results
    <3> QED
      BY <3>2, <3>3
  <2>7. bad \subseteq Nat
    BY DEF Init
  <2> QED
    BY <2>1, <2>2, <2>3, <2>4, <2>5, <2>6, <2>7 DEF TypeOK
<1>3. \A s \in Stages : Passed(s) = 0 /\ Sent(s) = 0
  BY <1>1 DEF Passed, Sent, Stages
<1>4. Numbered /\ Ordered
  <2>1. NStages \in Stages
    BY PoolNumbers
  <2> QED
    BY <1>1, <1>3, <2>1 DEF Numbered, Ordered
<1>5. Flagged
  BY <1>1 DEF Flagged
<1>6. Holding
  BY <1>1, PoolNumbers DEF Holding
<1>7. ASSUME NEW p \in Pools PROVE OwnedAt(p) /\ NoneLostAt(p) /\ IntactAt(p) /\ CountedAt(p)
  <2>1. p + 1 \in Stages /\ (p = 0 \/ p \in Stages)
    BY PoolNumbers
  <2>2. Writer(p) = Empty /\ Reader(p) = Empty /\ Waiting(p) = <<>> /\ free[p] = Buffers(p)
    BY <1>1, <2>1 DEF Init, Writer, Reader, Waiting, InputHeld
  <2>3. OwnedAt(p) /\ NoneLostAt(p)
    BY <2>2 DEF OwnedAt, NoneLostAt
  <2>4. IntactAt(p)
    BY <1>1, <2>1, <2>2 DEF IntactAt
  <2>5. Between(p) = 0
    BY <1>1, <2>1 DEF Between
  <2>6. avail[p] = InFlight[p]
    BY DEF Init
  <2>7. Cardinality(free[p]) = InFlight[p] /\ InFlight[p] \in Nat
    BY <1>2, <2>2, PoolSizes
  <2>8. CountedAt(p)
    BY <2>5, <2>6, <2>7 DEF CountedAt
  <2> QED
    BY <2>3, <2>4, <2>8
<1> QED
  BY <1>2, <1>4, <1>5, <1>6, <1>7 DEF IInv, Pooled

LEMMA StepHolds ==
  ASSUME IInv, [Next]_vars
  PROVE  IInv'
<1> USE DEF IInv
<1>1. TypeOK' /\ Numbered' /\ Ordered'
  BY TypeStep, NumberedStep
<1>2. Flagged' /\ Holding'
  BY FlaggedStep, HoldingStep
<1>3. ASSUME NEW p \in Pools PROVE (OwnedAt(p) /\ NoneLostAt(p) /\ IntactAt(p) /\ CountedAt(p))'
  <2>1. OwnedAt(p)' /\ NoneLostAt(p)'
    BY Moves, MovesConserve DEF Pooled
  <2>2. IntactAt(p)'
    BY IntactStep
  <2>3. CountedAt(p)'
    BY TallyStep, TallyCounts DEF Pooled
  <2> QED
    BY <2>1, <2>2, <2>3
<1> QED
  BY <1>1, <1>2, <1>3 DEF Pooled

(* The inductive invariant, for every number of stages, pool sizes and     *)
(* stream length.                                                          *)
THEOREM Invariant == Spec => []IInv
BY InitHolds, StepHolds, PTL DEF Spec

-----------------------------------------------------------------------------
(* The properties.                                                         *)

(* Every variable keeps its type: no counter goes below zero.              *)
THEOREM TypeCorrect == Spec => []TypeOK
<1>1. IInv => TypeOK
  BY DEF IInv
<1> QED
  BY <1>1, Invariant, PTL

(* No stage's function gets the empty handle of a tripped chain.           *)
THEOREM NeverEmptyInput == Spec => []NoEmptyDeref
<1>1. IInv => NoEmptyDeref
  BY DEF IInv, Flagged, NoEmptyDeref
<1> QED
  BY <1>1, Invariant, PTL

(* Whoever passed a pool's semaphore finds a free buffer.                  *)
THEOREM FreeListSuffices == Spec => []PopNeverEmpty
<1>1. ASSUME IInv, NEW p \in Pools, Between(p) > 0 PROVE free[p] # {}
  <2>1. /\ Cardinality(free[p]) = avail[p] + Between(p) /\ avail[p] \in Nat
        /\ Between(p) \in Int
    BY <1>1, PoolSizes DEF IInv, Pooled, CountedAt, Between
  <2>2. Cardinality(free[p]) > 0
    BY <1>1, <2>1
  <2> QED
    BY <2>2, FS_EmptySet
<1>2. IInv => PopNeverEmpty
  <2>1. SUFFICES ASSUME IInv PROVE PopNeverEmpty
    OBVIOUS
  <2>2. 0 \in Pools /\ \A s \in Transforms : s \in Pools /\ s # 0
    BY PoolNumbers DEF Transforms
  <2>3. src = "pop" => Between(0) > 0
    BY DEF Between
  <2>4. \A s \in Transforms : pc[s] = "pop" => Between(s) > 0
    BY <2>2 DEF Between
  <2> QED
    BY <1>1, <2>1, <2>2, <2>3, <2>4 DEF PopNeverEmpty
<1> QED
  BY <1>2, Invariant, PTL

(* Every stage sees blocks 1, 2, 3, ... complete, each on intact data.     *)
THEOREM StagesInOrder == Spec => InOrder
<1>1. IInv /\ [Next]_vars => [\A s \in Stages : last'[s] # last[s] => last'[s] = last[s] + 1]_vars
  <2>1. SUFFICES ASSUME IInv, Next, NEW s \in Stages, last'[s] # last[s]
                 PROVE  last'[s] = last[s] + 1
    OBVIOUS
  <2>2. last \in [Stages -> Nat]
    BY <2>1 DEF IInv, TypeOK
  <2>3. CASE Quiet \/ SourceSpawn \/ Returned
    <3>1. last' = last
      BY <2>3, QuietFrame DEF SourceSpawn, Returned, ghostVars, vars
    <3> QED
      BY <2>1, <3>1
  <2>4. ASSUME NEW u \in Stages, Start(u) \/ Inner(u) \/ Hop(u) PROVE last'[s] = last[s] + 1
    <3>1. RunOk(u)
      BY <2>1, <2>4 DEF Start, Hop, Inner, AcquireOut, PopOut, RunThrow, UnwindOut, Capture,
                        ReleaseIn, PostIn, ghostVars
    <3>2. pc[u] = "run" /\ last' = [last EXCEPT ![u] = Content(u - 1, job[u].buf)]
      BY <3>1 DEF RunOk
    <3>3. Content(u - 1, job[u].buf) = last[u] + 1
      BY <2>1, <3>2, ReadsOwnBlock DEF IInv
    <3>4. s = u
      BY <2>1, <2>2, <3>2
    <3> QED
      BY <2>2, <3>2, <3>3, <3>4
  <2> QED
    BY <2>1, <2>3, <2>4, NextCases
<1> QED
  BY <1>1, Invariant, PTL DEF Spec, InOrder

(* Every buffer is free or held by a handle, and never both.               *)
THEOREM NoBufferLost == Spec => []BuffersConserved
<1>1. ASSUME IInv, NEW p \in Pools
      PROVE  /\ free[p] \cup (Holders(p) \ {Empty}) = Buffers(p)
             /\ free[p] \cap Holders(p) = {}
  <2>1. OwnedAt(p) /\ NoneLostAt(p) /\ free[p] \subseteq Buffers(p)
    BY <1>1 DEF IInv, Pooled, TypeOK
  <2>2. Empty \notin Buffers(p)
    BY DEF Empty, Buffers
  <2>3. \A b : b \in QueuedBuffers(p + 1) <=>
                 b # Empty /\ \E i \in 1 .. Len(Waiting(p)) : Waiting(p)[i].buf = b
    BY DEF QueuedBuffers, Waiting
  <2>4. \A b : b # Empty =>
          (b \in Holders(p) <=> \/ b = Writer(p) \/ b = Reader(p)
                                \/ \E i \in 1 .. Len(Waiting(p)) : Waiting(p)[i].buf = b)
    BY <2>3 DEF Holders, Writer, Reader
  <2>5. ASSUME NEW b, b \in Holders(p), b # Empty PROVE b \in Buffers(p) \ free[p]
    BY <2>1, <2>4, <2>5 DEF OwnedAt
  <2>6. ASSUME NEW b \in Buffers(p), b \notin free[p] PROVE b \in Holders(p)
    BY <2>1, <2>2, <2>4, <2>6 DEF NoneLostAt
  <2> QED
    BY <2>1, <2>2, <2>5, <2>6
<1>2. IInv => BuffersConserved
  BY <1>1 DEF BuffersConserved
<1> QED
  BY <1>2, Invariant, PTL

(* Once every chain is complete, every stage has taken all the blocks and  *)
(* is idle.                                                                *)
LEMMA Settled ==
  ASSUME IInv, active = 0, NEW s \in Stages
  PROVE  queue[s] = <<>> /\ pc[s] = "idle" /\ job[s].blk = next
<1>1. NStages \in Stages /\ s <= NStages
  BY PoolNumbers, NStagesAssumption DEF Stages
<1>2. Passed(NStages) = next
  <2>1. active = 0 /\ active = next - Passed(NStages)
    BY DEF IInv, Ordered
  <2>2. next \in Nat /\ Passed(NStages) \in Nat
    BY <1>1, TakenBound DEF IInv, TypeOK
  <2> QED
    BY <2>1, <2>2
<1>3. Passed(s) \in Nat /\ next \in Nat /\ job[s].blk \in Nat /\ Len(queue[s]) \in Nat
  BY TakenBound DEF IInv, TypeOK
<1>4. Passed(s) = next
  <2>1. s = NStages \/ s < NStages
    BY <1>1, NStagesAssumption DEF Stages
  <2>2. s < NStages => Passed(NStages) <= Passed(s)
    BY <1>1 DEF IInv, Ordered
  <2>3. Passed(s) <= next
    BY DEF IInv, Ordered
  <2> QED
    BY <1>2, <1>3, <2>1, <2>2, <2>3
<1>5. job[s].blk <= next
  BY TakenBound DEF IInv
<1>6. pc[s] = "idle" /\ job[s].blk = next
  <2>1. pc[s] # "idle" => Passed(s) = job[s].blk - 1
    BY DEF Passed
  <2>2. pc[s] = "idle" => Passed(s) = job[s].blk
    BY DEF Passed
  <2> QED
    BY <1>3, <1>4, <1>5, <2>1, <2>2
<1>7. Sent(s) <= next
  <2>1. s = 1 \/ s - 1 \in Stages
    BY NStagesAssumption DEF Stages
  <2> QED
    BY <1>3, <2>1 DEF IInv, Ordered, Sent
<1>8. job[s].blk + Len(queue[s]) = Sent(s)
  BY DEF IInv, Numbered
<1>9. Len(queue[s]) = 0
  BY <1>3, <1>6, <1>7, <1>8
<1>10. queue[s] \in Seq(Chain)
  BY DEF IInv, TypeOK
<1> QED
  BY <1>6, <1>9, <1>10

(* When run() leaves, nothing is queued, running or borrowed any more.     *)
THEOREM DrainIsClean == Spec => []CleanDrain
<1>1. ASSUME IInv, src = "done", NEW s \in Stages PROVE queue[s] = <<>> /\ pc[s] = "idle"
  BY <1>1, Settled DEF IInv, Ordered
<1>2. ASSUME IInv, src = "done", NEW p \in Pools
      PROVE  free[p] = Buffers(p) /\ avail[p] = InFlight[p]
  <2>1. p + 1 \in Stages /\ (p = 0 \/ p \in Stages)
    BY PoolNumbers
  <2>2. queue[p + 1] = <<>> /\ pc[p + 1] = "idle" /\ (p # 0 => pc[p] = "idle")
    BY <1>1, <1>2, <2>1
  <2>3. Writer(p) = Empty /\ Reader(p) = Empty /\ Waiting(p) = <<>>
    <3>1. srcBuf = Empty /\ (p # 0 => out[p] = Empty)
      BY <1>2, <2>1, <2>2 DEF IInv, Holding
    <3> QED
      BY <2>2, <3>1 DEF Writer, Reader, Waiting, InputHeld
  <2>4. free[p] = Buffers(p)
    <3>1. NoneLostAt(p) /\ free[p] \subseteq Buffers(p) /\ Empty \notin Buffers(p)
      BY <1>2 DEF IInv, Pooled, TypeOK, Empty, Buffers
    <3>2. ~ \E i \in 1 .. Len(Waiting(p)) : TRUE
      BY <2>3
    <3>3. \A b \in Buffers(p) : b \in free[p]
      BY <2>3, <3>1, <3>2 DEF NoneLostAt
    <3> QED
      BY <3>1, <3>3
  <2>5. Between(p) = 0
    BY <1>2, <2>1, <2>2 DEF Between
  <2>6. Cardinality(free[p]) = InFlight[p] /\ InFlight[p] \in Nat /\ avail[p] \in Nat
    BY <1>2, <2>4, PoolSizes DEF IInv
  <2>7. Cardinality(free[p]) = avail[p] + Between(p)
    BY <1>2 DEF IInv, Pooled, CountedAt
  <2> QED
    BY <2>4, <2>5, <2>6, <2>7
<1>3. IInv => CleanDrain
  BY <1>1, <1>2 DEF CleanDrain
<1> QED
  BY <1>3, Invariant, PTL

-----------------------------------------------------------------------------
(* Only a pipeline that has been stopped carries empty handles.            *)
Heard ==
  \A s \in Stages :
    /\ view[s] => stopped
    /\ \A i \in 1 .. Len(queue[s]) : queue[s][i].saw => stopped
    /\ pc[s] \in {"unwind", "unwound"} => job[s].buf # Empty
    /\ pc[s] = "release" => view[s] \/ job[s].buf # Empty

LEMMA HeardStep ==
  ASSUME IInv, Heard, [Next]_vars
  PROVE  Heard'
<1>1. TypeOK /\ Numbered /\ Flagged /\ (stopped => stopped')
  <2>1. TypeOK /\ Numbered /\ Flagged
    BY DEF IInv
  <2>2. CASE Quiet \/ SourceSpawn \/ Returned \/ vars' = vars
    <3>1. stopped' = stopped
      BY <2>2, QuietFrame DEF SourceSpawn, Returned, vars, funnelVars
    <3> QED
      BY <2>1, <3>1
  <2>3. ASSUME NEW s \in Stages, Start(s) \/ Inner(s) \/ Hop(s) PROVE stopped => stopped'
    BY <2>3 DEF Start, Hop, Inner, AcquireOut, PopOut, RunOk, RunThrow, UnwindOut, Capture,
                ReleaseIn, PostIn, funnelVars
  <2> QED
    BY <2>1, <2>2, <2>3, NextCases
<1>2. CASE Quiet \/ Returned \/ vars' = vars
  <2>1. UNCHANGED <<pc, job, view, queue, stopped>>
    BY <1>2, QuietFrame DEF Returned, vars, workerVars, funnelVars
  <2> QED
    BY <2>1 DEF Heard
<1>3. CASE SourceSpawn
  <2>1. UNCHANGED <<pc, job, view, stopped>>
    BY <1>3 DEF SourceSpawn, workerVars, funnelVars
  <2>2. ASSUME NEW s \in Stages, NEW i \in 1 .. Len(queue'[s]), queue'[s][i].saw
        PROVE  stopped
    <3>1. CASE s # 1
      <4>1. queue'[s] = queue[s]
        BY <1>1, <1>3, <3>1, SpawnFacts
      <4> QED
        BY <2>2, <4>1 DEF Heard
    <3>2. CASE s = 1
      <4>1. Len(queue[1]) \in Nat
        BY <1>1, <3>2 DEF TypeOK
      <4>2. /\ Len(queue'[1]) = Len(queue[1]) + 1
            /\ \A k \in 1 .. Len(queue[1]) : queue'[1][k] = queue[1][k]
            /\ queue'[1][Len(queue[1]) + 1] =
                 [blk |-> next + 1, buf |-> srcBuf, saw |-> FALSE]
        BY <1>1, <1>3, SpawnFacts
      <4>3. i \in 1 .. Len(queue[1])
        BY <2>2, <3>2, <4>1, <4>2
      <4> QED
        BY <2>2, <3>2, <4>2, <4>3 DEF Heard
    <3> QED
      BY <3>1, <3>2
  <2> QED
    BY <2>1, <2>2 DEF Heard
<1>4. ASSUME NEW u \in Stages, Start(u) PROVE Heard'
  <2>1. /\ job' = [job EXCEPT ![u] = queue[u][1]]
        /\ queue' = [queue EXCEPT ![u] = Tail(queue[u])]
        /\ Len(Tail(queue[u])) = Len(queue[u]) - 1 /\ Len(queue[u]) \in Nat \ {0}
        /\ \A i \in 1 .. Len(queue[u]) - 1 : Tail(queue[u])[i] = queue[u][i + 1]
        /\ stopped' = stopped
    BY <1>1, <1>4, StartFacts DEF TypeOK, funnelVars
  <2>2. PICK v \in BOOLEAN :
          /\ view' = [view EXCEPT ![u] = v]
          /\ v => view[u] \/ queue[u][1].saw \/ stopped
          /\ pc' = [pc EXCEPT ![u] =
                      IF v THEN "release" ELSE IF u = NStages THEN "run" ELSE "acquire"]
    <3>1. Head(queue[u]) = queue[u][1] /\ queue[u][1] \in Chain
      BY <1>1, <2>1 DEF TypeOK
    <3>2. PICK v \in Loads(view[u] \/ Head(queue[u]).saw) :
            /\ view' = [view EXCEPT ![u] = v]
            /\ Goto(u, IF v THEN "release" ELSE IF u = NStages THEN "run" ELSE "acquire")
      BY <1>4 DEF Start
    <3>3. v \in BOOLEAN /\ (v => view[u] \/ queue[u][1].saw \/ stopped)
      BY <1>1, <3>1, <3>2 DEF Loads, TypeOK, Chain
    <3> QED
      BY <3>2, <3>3 DEF Goto
  <2>3. v => stopped
    BY <2>1, <2>2 DEF Heard
  <2>4. ASSUME NEW s \in Stages, NEW i \in 1 .. Len(queue'[s]), queue'[s][i].saw
        PROVE  stopped
    BY <1>1, <2>1, <2>4 DEF Heard, TypeOK
  <2>5. ASSUME NEW s \in Stages
        PROVE  /\ view'[s] => stopped
               /\ pc'[s] \in {"unwind", "unwound"} => job'[s].buf # Empty
               /\ pc'[s] = "release" => view'[s] \/ job'[s].buf # Empty
    <3>1. CASE s = u
      BY <1>1, <2>2, <2>3, <3>1 DEF TypeOK
    <3>2. CASE s # u
      BY <1>1, <2>1, <2>2, <3>2 DEF Heard, TypeOK
    <3> QED
      BY <3>1, <3>2
  <2> QED
    BY <2>1, <2>4, <2>5 DEF Heard
<1>5. ASSUME NEW u \in Stages, Inner(u) PROVE Heard'
  <2>1. UNCHANGED <<job, queue>> /\ pc[u] # "idle"
    BY <1>1, <1>5, InnerFrame
  <2>2. ASSUME NEW s \in Stages PROVE view'[s] => stopped'
    BY <1>1, <1>5, <2>2 DEF Inner, AcquireOut, PopOut, RunOk, RunThrow, UnwindOut, Capture,
                ReleaseIn, PostIn, funnelVars, Heard, TypeOK
  <2>3. ASSUME NEW s \in Stages
        PROVE  /\ pc'[s] \in {"unwind", "unwound"} => job[s].buf # Empty
               /\ pc'[s] = "release" => view'[s] \/ job[s].buf # Empty
    <3>1. CASE s = u
      <4>1. pc[u] \in {"acquire", "pop", "run"} => job[u].buf # Empty
        BY <1>1 DEF Flagged
      <4>2. pc[u] \in {"unwind", "unwound"} => job[u].buf # Empty
        BY DEF Heard
      <4>3. pc'[u] \in {"unwind", "unwound", "release"} =>
              pc[u] \in {"run", "unwind", "unwound"}
        BY <1>1, <1>5 DEF Inner, AcquireOut, PopOut, RunOk, RunThrow, UnwindOut, Capture,
                ReleaseIn, PostIn, Goto, TypeOK
      <4> QED
        BY <3>1, <4>1, <4>2, <4>3
    <3>2. CASE s # u
      <4>1. pc'[s] = pc[s] /\ view'[s] = view[s]
        BY <1>1, <1>5, <3>2 DEF Inner, AcquireOut, PopOut, RunOk, RunThrow, UnwindOut, Capture,
                ReleaseIn, PostIn, Goto, TypeOK
      <4> QED
        BY <4>1 DEF Heard
    <3> QED
      BY <3>1, <3>2
  <2>4. stopped => stopped'
    BY <1>1
  <2> QED
    BY <2>1, <2>2, <2>3, <2>4 DEF Heard
<1>6. ASSUME NEW u \in Stages, Hop(u) PROVE Heard'
  <2>1. /\ pc' = [pc EXCEPT ![u] = "idle"] /\ UNCHANGED <<job, view, stopped>>
    BY <1>1, <1>6, HopFacts DEF funnelVars
  <2>2. ASSUME NEW s \in Stages, NEW i \in 1 .. Len(queue'[s]), queue'[s][i].saw
        PROVE  stopped
    <3>1. CASE u = NStages \/ s # u + 1
      <4>1. CASE u = NStages
        <5>1. queue' = queue
          BY <1>1, <1>6, <4>1, HopFacts, Zenon
        <5> QED
          BY <2>2, <5>1 DEF Heard
      <4>2. CASE u # NStages /\ s # u + 1
        <5>1. s \in Stages \ {u + 1}
          BY <4>2
        <5>2. queue'[s] = queue[s]
          BY <1>1, <1>6, <4>2, <5>1, HopFacts, Zenon
        <5> QED
          BY <2>2, <5>2 DEF Heard
      <4> QED
        BY <3>1, <4>1, <4>2
    <3>2. CASE u # NStages /\ s = u + 1
      <4>1. Len(queue[s]) \in Nat
        BY <1>1 DEF TypeOK
      <4>2. /\ Len(queue'[s]) = Len(queue[s]) + 1
            /\ \A k \in 1 .. Len(queue[s]) : queue'[s][k] = queue[s][k]
            /\ queue'[s][Len(queue[s]) + 1] =
                 [blk |-> job[u].blk, buf |-> out[u], saw |-> view[u]]
        BY <1>1, <1>6, <3>2, HopFacts
      <4>3. CASE i \in 1 .. Len(queue[s])
        BY <2>2, <4>2, <4>3 DEF Heard
      <4>4. CASE i = Len(queue[s]) + 1
        BY <2>2, <4>2, <4>4 DEF Heard
      <4> QED
        BY <4>1, <4>2, <4>3, <4>4
    <3> QED
      BY <3>1, <3>2
  <2>3. \A s \in Stages : pc'[s] \in {"unwind", "unwound", "release"} => pc'[s] = pc[s]
    BY <1>1, <2>1 DEF TypeOK
  <2> QED
    BY <2>1, <2>2, <2>3 DEF Heard
<1> QED
  BY <1>2, <1>3, <1>4, <1>5, <1>6, NextCases

(* The buffers a stage waits on or works on are distinct ones of its pool. *)
LEMMA BacklogFits ==
  ASSUME IInv, Heard, ~stopped, NEW s \in Stages
  PROVE  Len(queue[s]) + (IF InputHeld(s) THEN 1 ELSE 0) <= InFlight[s - 1]
<1> DEFINE p == s - 1
           taken == IF InputHeld(s) THEN 1 ELSE 0
           n == Len(queue[s]) + taken
           held(j) == IF j <= Len(queue[s]) THEN queue[s][j].buf ELSE job[s].buf
           f == [j \in 1 .. n |-> held(j)]
<1>1. p \in Pools /\ p + 1 = s /\ InFlight[p] \in Nat
  BY NStagesAssumption, InFlightAssumption DEF Stages, Pools
<1>2. /\ Len(queue[s]) \in Nat
      /\ \/ InputHeld(s) /\ n = Len(queue[s]) + 1
         \/ ~InputHeld(s) /\ n = Len(queue[s])
  <2>1. Len(queue[s]) \in Nat
    BY DEF IInv, TypeOK
  <2>2. \/ InputHeld(s) /\ taken = 1
        \/ ~InputHeld(s) /\ taken = 0
    OBVIOUS
  <2> HIDE DEF taken
  <2> QED
    BY <2>1, <2>2
<1> HIDE DEF n
<1>3. OwnedAt(p)
  BY <1>1 DEF IInv, Pooled
<1>4. \A i \in 1 .. Len(queue[s]) : queue[s][i].buf # Empty
  BY DEF IInv, Flagged, Heard
<1>5. InputHeld(s) => job[s].buf # Empty
  BY DEF IInv, Flagged, Heard, InputHeld
<1>6. InputHeld(s) => Reader(p) = job[s].buf
  BY <1>1 DEF Reader
<1>7. \A i \in 1 .. Len(queue[s]) :
        /\ queue[s][i].buf \in Buffers(p)
        /\ InputHeld(s) => queue[s][i].buf # job[s].buf
        /\ \A j \in 1 .. Len(queue[s]) : j # i => queue[s][j].buf # queue[s][i].buf
  BY <1>1, <1>3, <1>4, <1>6 DEF OwnedAt, Waiting
<1>8. InputHeld(s) => job[s].buf \in Buffers(p)
  BY <1>3, <1>5, <1>6 DEF OwnedAt
<1>9. ASSUME NEW j \in 1 .. n
      PROVE  j \in 1 .. Len(queue[s]) \/ (j = Len(queue[s]) + 1 /\ InputHeld(s))
  BY <1>2
<1>10. ASSUME NEW j \in 1 .. n PROVE f[j] \in Buffers(p)
  BY <1>2, <1>7, <1>8, <1>9
<1>11. ASSUME NEW i \in 1 .. n, NEW j \in 1 .. n, f[i] = f[j] PROVE i = j
  <2>1. f[i] = held(i) /\ f[j] = held(j)
    OBVIOUS
  <2>2. CASE i \in 1 .. Len(queue[s]) /\ j \in 1 .. Len(queue[s])
    BY <1>2, <1>7, <1>11, <2>1, <2>2
  <2>3. CASE i \in 1 .. Len(queue[s]) /\ j = Len(queue[s]) + 1 /\ InputHeld(s)
    BY <1>2, <1>7, <1>11, <2>1, <2>3
  <2>4. CASE j \in 1 .. Len(queue[s]) /\ i = Len(queue[s]) + 1 /\ InputHeld(s)
    BY <1>2, <1>7, <1>11, <2>1, <2>4
  <2> QED
    BY <1>9, <2>2, <2>3, <2>4
<1>12. f \in Injection(1 .. n, Buffers(p))
  <2>1. f \in [1 .. n -> Buffers(p)]
    BY <1>10
  <2> HIDE DEF f
  <2> QED
    BY <1>11, <2>1, Fun_IsInj
<1>13. IsFiniteSet(Buffers(p)) /\ Cardinality(Buffers(p)) = InFlight[p]
  <2>1. Buffers(p) = 1 .. InFlight[p]
    BY DEF Buffers
  <2>2. IsFiniteSet(1 .. InFlight[p]) /\ Cardinality(1 .. InFlight[p]) =
          IF 1 > InFlight[p] THEN 0 ELSE InFlight[p] - 1 + 1
    BY <1>1, FS_Interval, SMTT(30)
  <2> QED
    BY <1>1, <2>1, <2>2
<1>14. Cardinality(1 .. n) <= Cardinality(Buffers(p))
  BY <1>12, <1>13, FS_Injection
<1>15. n \in Nat
  BY <1>2
<1>16. Cardinality(1 .. n) = n
  BY <1>15, FS_Interval
<1>17. n <= InFlight[p]
  BY <1>13, <1>14, <1>16
<1> QED
  BY <1>17 DEF n

(* Until a stage fails, each pool bounds the backlog of its reader.        *)
THEOREM BacklogIsBounded == Spec => []BackpressureBound
<1>1. Init => Heard
  BY DEF Init, Heard
<1>2. IInv /\ Heard /\ [Next]_vars => Heard'
  BY HeardStep
<1>3. IInv /\ Heard => BackpressureBound
  BY BacklogFits DEF BackpressureBound
<1> QED
  BY <1>1, <1>2, <1>3, Invariant, PTL DEF Spec
-----------------------------------------------------------------------------
(* The promise of the streaming run: what StreamRun needs to know beyond   *)
(* the inductive invariant.                                                *)

(* The source ends early only by throwing; run() leaves once.              *)
Sourced ==
  /\ next <= NBlocks
  /\ src \in {"acquire", "pop", "spawn"} => next < NBlocks
  /\ src \in {"drain", "done"} => srcErr \/ next = NBlocks
  /\ result = "none" <=> src # "done"

(* Stage t threw on block b, has set the flag or is about to, and whoever  *)
(* comes to b or a later block after t does so with the flag seen.         *)
Tainted(b, t) ==
  /\ job[t].blk >= b /\ (view[t] \/ pc[t] \in {"unwind", "unwound"})
  /\ \A s \in Stages : s > t =>
       /\ job[s].blk >= b => view[s]
       /\ \A i \in 1 .. Len(queue[s]) : queue[s][i].blk >= b => queue[s][i].saw

Failing ==
  /\ stopped <=> err # 0
  /\ err # 0 => bad # {}
  /\ \A s \in Stages : pc[s] \in {"unwind", "unwound"} => job[s].blk \in bad
  /\ \A b \in bad : \E t \in Stages : Tainted(b, t)

(* No stage has completed a block it has not taken.                        *)
Taken == \A s \in Stages : last[s] <= job[s].blk

RInv == Heard /\ Sourced /\ Failing /\ Taken

LEMMA SourcedStep ==
  ASSUME TypeOK, Sourced, [Next]_vars
  PROVE  Sourced'
<1> USE DEF Sourced, TypeOK
<1>1. next \in Nat /\ NBlocks \in Nat
  BY NBlocksAssumption
<1>2. CASE UNCHANGED callerVars
  BY <1>2 DEF callerVars
<1>3. CASE SourceNext
  BY <1>1, <1>3 DEF SourceNext
<1>4. CASE SourceEnd
  BY <1>1, <1>4 DEF SourceEnd
<1>5. CASE SourceAcquire \/ SourcePop
  BY <1>5 DEF SourceAcquire, SourcePop
<1>6. CASE SourceSpawn
  BY <1>1, <1>6 DEF SourceSpawn
<1>7. CASE Return
  <2>1. result' # "none" /\ src' = "done" /\ UNCHANGED <<next, srcErr>> /\ src = "drain"
    BY <1>7 DEF Return
  <2> QED
    BY <2>1
<1>8. ASSUME NEW s \in Stages, Start(s) \/ Inner(s) \/ Hop(s)
      PROVE  UNCHANGED callerVars
  <2>1. CASE Start(s)
    BY <2>1 DEF Start
  <2>2. CASE Inner(s)
    BY <2>2, InnerFrame
  <2>3. CASE Hop(s)
    BY <2>3 DEF Hop
  <2> QED
    BY <1>8, <2>1, <2>2, <2>3
<1>9. Returned \/ vars' = vars => UNCHANGED callerVars
  BY DEF Returned, vars
<1> QED
  BY <1>2, <1>3, <1>4, <1>5, <1>6, <1>7, <1>8, <1>9, NextCases DEF Quiet

(* Which steps complete a block, throw on one, or store the flag.          *)
LEMMA GhostFrame ==
  ASSUME TypeOK, [Next]_vars, \A s \in Stages : ~RunOk(s) /\ ~RunThrow(s) /\ ~Capture(s)
  PROVE  UNCHANGED <<last, bad, err, stopped>>
<1>1. CASE Quiet \/ SourceSpawn \/ Returned \/ vars' = vars
  BY <1>1, QuietFrame DEF SourceSpawn, Returned, vars, funnelVars, ghostVars
<1>2. ASSUME NEW s \in Stages, Start(s) \/ Inner(s) \/ Hop(s)
      PROVE  UNCHANGED <<last, bad, err, stopped>>
  BY <1>2 DEF Start, Inner, AcquireOut, PopOut, UnwindOut, ReleaseIn, PostIn, Hop, funnelVars,
              ghostVars
<1> QED
  BY <1>1, <1>2, NextCases

LEMMA TakenStep ==
  ASSUME IInv, Taken, [Next]_vars
  PROVE  Taken'
<1>1. TypeOK /\ Numbered /\ Flagged /\ Pooled
  BY DEF IInv
<1>2. \A s \in Stages : job[s].blk \in Nat /\ last[s] \in Nat
  BY <1>1 DEF TypeOK, Chain
<1>3. \A s \in Stages : job[s].blk <= job'[s].blk
  <2>1. CASE UNCHANGED job
    BY <1>2, <2>1
  <2>2. ASSUME NEW u \in Stages, Start(u) PROVE \A s \in Stages : job[s].blk <= job'[s].blk
    <3>1. job' = [job EXCEPT ![u] = queue[u][1]] /\ queue[u][1].blk = job[u].blk + 1
      BY <1>1, <2>2, StartFacts
    <3> QED
      BY <1>1, <1>2, <3>1 DEF TypeOK
  <2>3. ASSUME NEW u \in Stages, Inner(u) \/ Hop(u) PROVE UNCHANGED job
    BY <1>1, <2>3, InnerFrame, HopFacts
  <2>4. Quiet \/ SourceSpawn \/ Returned \/ vars' = vars => UNCHANGED job
    BY QuietFrame DEF SourceSpawn, Returned, vars, workerVars
  <2> QED
    BY <2>1, <2>2, <2>3, <2>4, NextCases
<1>4. \A s \in Stages : job'[s].blk \in Nat
  BY <1>1, TypeStep DEF IInv, TypeOK, Chain
<1>5. CASE last' = last
  <2>1. ASSUME NEW s \in Stages PROVE last'[s] <= job'[s].blk
    <3>1. last[s] <= job[s].blk /\ job[s].blk <= job'[s].blk /\ last'[s] = last[s]
      BY <1>3, <1>5 DEF Taken
    <3>2. job'[s].blk \in Nat
      BY <1>4
    <3> QED
      BY <1>2, <3>1, <3>2
  <2> QED
    BY <2>1 DEF Taken
<1>6. ASSUME NEW u \in Stages, RunOk(u) PROVE Taken'
  <2>1. last' = [last EXCEPT ![u] = Content(u - 1, job[u].buf)] /\ job' = job /\ pc[u] = "run"
    BY <1>6 DEF RunOk
  <2>2. Content(u - 1, job[u].buf) = job[u].blk
    BY <1>1, <2>1, ReadsOwnBlock
  <2>3. ASSUME NEW s \in Stages PROVE last'[s] <= job'[s].blk
    <3>1. CASE s = u
      <4>1. last'[s] = job[s].blk
        BY <1>1, <2>1, <2>2, <3>1 DEF TypeOK
      <4> QED
        BY <1>2, <2>1, <4>1
    <3>2. CASE s # u
      <4>1. last'[s] = last[s]
        BY <1>1, <2>1, <3>2 DEF TypeOK
      <4> QED
        BY <2>1, <4>1 DEF Taken
    <3> QED
      BY <3>1, <3>2
  <2> QED
    BY <2>3 DEF Taken
<1>7. ASSUME NEW u \in Stages, RunThrow(u) \/ Capture(u) PROVE last' = last
  BY <1>7 DEF RunThrow, Capture, ghostVars
<1> QED
  BY <1>1, <1>5, <1>6, <1>7, GhostFrame

(* What was tainted stays so: the flag travels with the chains.            *)
LEMMA TaintStep ==
  ASSUME IInv, NEW b \in Nat, NEW t \in Stages, Tainted(b, t), [Next]_vars
  PROVE  Tainted(b, t)'
<1>1. TypeOK /\ Numbered /\ Ordered /\ Flagged
  BY DEF IInv
<1>2. CASE UNCHANGED <<job, view, queue, pc>>
  BY <1>2 DEF Tainted
<1>3. CASE Quiet \/ Returned \/ vars' = vars
  <2>1. UNCHANGED <<job, view, queue, pc>>
    BY <1>3, QuietFrame DEF Returned, vars, workerVars
  <2> QED
    BY <1>2, <2>1
<1>4. CASE SourceSpawn
  <2>1. UNCHANGED <<job, view, pc>> /\ \A s \in Stages : s > t => queue'[s] = queue[s]
    BY <1>1, <1>4, SpawnFacts DEF workerVars, Stages
  <2> QED
    BY <2>1 DEF Tainted
<1>5. ASSUME NEW u \in Stages, Start(u) PROVE Tainted(b, t)'
  <2>1. PICK v \in BOOLEAN :
          /\ view' = [view EXCEPT ![u] = v]
          /\ ~v => ~view[u] /\ ~queue[u][1].saw
          /\ pc' = [pc EXCEPT ![u] =
                      IF v THEN "release" ELSE IF u = NStages THEN "run" ELSE "acquire"]
    BY <1>1, <1>5, StartFacts
  <2>2. /\ pc[u] = "idle" /\ Len(queue[u]) \in Nat \ {0}
        /\ job' = [job EXCEPT ![u] = queue[u][1]] /\ queue[u][1].blk = job[u].blk + 1
        /\ queue' = [queue EXCEPT ![u] = Tail(queue[u])]
        /\ Len(Tail(queue[u])) = Len(queue[u]) - 1
        /\ \A i \in 1 .. Len(queue[u]) - 1 : Tail(queue[u])[i] = queue[u][i + 1]
    <3>1. queue[u] \in Seq(Chain)
      BY <1>1 DEF TypeOK
    <3>2. Len(queue[u]) > 0
      BY <1>1, <1>5, StartFacts, Zenon
    <3>3. Len(queue[u]) \in Nat \ {0}
      BY <3>1, <3>2
    <3> QED
      BY <1>1, <1>5, <3>3, StartFacts, Zenon
  <2>3. \A s \in Stages : job[s].blk \in Nat
    BY <1>1 DEF TypeOK, Chain
  <2>4. job'[t].blk >= b /\ (view'[t] \/ pc'[t] \in {"unwind", "unwound"})
    BY <1>1, <2>1, <2>2, <2>3 DEF Tainted, TypeOK
  <2>5. ASSUME NEW s \in Stages, s > t, job'[s].blk >= b PROVE view'[s]
    <3>1. CASE s = u
      <4>1. 1 \in 1 .. Len(queue[u]) /\ queue[u][1].blk >= b
        BY <1>1, <2>2, <2>5, <3>1 DEF TypeOK
      <4>2. queue[u][1].saw
        BY <2>5, <3>1, <4>1 DEF Tainted
      <4> QED
        BY <1>1, <2>1, <3>1, <4>2 DEF TypeOK
    <3>2. CASE s # u
      BY <1>1, <2>1, <2>2, <2>5, <3>2 DEF Tainted, TypeOK
    <3> QED
      BY <3>1, <3>2
  <2>6. ASSUME NEW s \in Stages, s > t, NEW i \in 1 .. Len(queue'[s]), queue'[s][i].blk >= b
        PROVE  queue'[s][i].saw
    <3>1. CASE s = u
      <4>1. queue'[s] = Tail(queue[u])
        BY <1>1, <2>2, <3>1 DEF TypeOK
      <4>2. i \in 1 .. Len(queue[u]) - 1 /\ i + 1 \in 1 .. Len(queue[u])
        <5>1. i \in 1 .. Len(Tail(queue[u]))
          BY <3>1, <4>1
        <5> QED
          BY <2>2, <5>1
      <4>3. queue'[s][i] = queue[u][i + 1]
        BY <2>2, <4>1, <4>2
      <4> QED
        BY <2>6, <3>1, <4>2, <4>3 DEF Tainted
    <3>2. CASE s # u
      <4>1. queue'[s] = queue[s]
        BY <1>1, <2>2, <3>2 DEF TypeOK
      <4> QED
        BY <2>6, <4>1 DEF Tainted
    <3> QED
      BY <3>1, <3>2
  <2> QED
    BY <2>4, <2>5, <2>6 DEF Tainted
<1>6. ASSUME NEW u \in Stages, Inner(u) PROVE Tainted(b, t)'
  <2>1. UNCHANGED <<job, queue>>
    BY <1>1, <1>6, InnerFrame
  <2>2. \A s \in Stages : view[s] => view'[s]
    BY <1>1, <1>6 DEF Inner, AcquireOut, PopOut, RunOk, RunThrow, UnwindOut, Capture, ReleaseIn,
                      PostIn, TypeOK
  <2>3. pc[t] \in {"unwind", "unwound"} => view'[t] \/ pc'[t] \in {"unwind", "unwound"}
    <3>1. CASE u = t
      BY <1>1, <1>6, <3>1 DEF Inner, AcquireOut, PopOut, RunOk, RunThrow, UnwindOut, Capture,
                              ReleaseIn, PostIn, Goto, TypeOK
    <3>2. CASE u # t
      <4>1. pc'[t] = pc[t]
        BY <1>1, <1>6, <3>2, InnerFrame DEF TypeOK
      <4> QED
        BY <4>1
    <3> QED
      BY <3>1, <3>2
  <2> QED
    BY <2>1, <2>2, <2>3 DEF Tainted
<1>7. ASSUME NEW u \in Stages, Hop(u) PROVE Tainted(b, t)'
  <2>1. /\ pc[u] = "hop" /\ pc' = [pc EXCEPT ![u] = "idle"]
        /\ UNCHANGED <<job, view>>
    BY <1>1, <1>7, HopFacts
  <2>2. view[t] \/ pc'[t] \in {"unwind", "unwound"}
    BY <1>1, <2>1 DEF Tainted, TypeOK
  <2>3. ASSUME NEW s \in Stages, s > t, NEW i \in 1 .. Len(queue'[s]), queue'[s][i].blk >= b
        PROVE  queue'[s][i].saw
    <3>1. CASE u = NStages \/ s # u + 1
      <4>1. u = NStages => queue' = queue
        BY <1>1, <1>7, HopFacts
      <4>2. u # NStages => \A k \in Stages \ {u + 1} : queue'[k] = queue[k]
        BY <1>1, <1>7, HopFacts
      <4>3. queue'[s] = queue[s]
        BY <3>1, <4>1, <4>2
      <4> QED
        BY <2>3, <4>3 DEF Tainted
    <3>2. CASE u # NStages /\ s = u + 1
      <4>1. Len(queue[s]) \in Nat
        BY <1>1 DEF TypeOK
      <4>2. /\ Len(queue'[s]) = Len(queue[s]) + 1
            /\ \A k \in 1 .. Len(queue[s]) : queue'[s][k] = queue[s][k]
            /\ queue'[s][Len(queue[s]) + 1] =
                 [blk |-> job[u].blk, buf |-> out[u], saw |-> view[u]]
        BY <1>1, <1>7, <3>2, HopFacts
      <4>3. CASE i \in 1 .. Len(queue[s])
        BY <2>3, <4>2, <4>3 DEF Tainted
      <4>4. CASE i = Len(queue[s]) + 1
        <5>1. u = t \/ u > t
          BY <2>3, <3>2 DEF Stages
        <5>2. job[u].blk >= b
          BY <2>3, <4>2, <4>4
        <5>3. view[u]
          BY <2>1, <5>1, <5>2 DEF Tainted
        <5> QED
          BY <4>2, <4>4, <5>3
      <4> QED
        BY <4>1, <4>2, <4>3, <4>4
    <3> QED
      BY <3>1, <3>2
  <2> QED
    BY <2>1, <2>2, <2>3 DEF Tainted
<1> QED
  BY <1>3, <1>4, <1>5, <1>6, <1>7, NextCases

(* A block that is thrown on taints the stage, before anyone gets past it. *)
LEMMA ThrowTaints ==
  ASSUME IInv, Taken, NEW u \in Stages, RunThrow(u)
  PROVE  /\ bad' = bad \cup {job[u].blk} /\ Tainted(job[u].blk, u)'
         /\ job[u].blk \in 1 .. next /\ job[u].blk \in last[NStages] + 1 .. next
         /\ UNCHANGED <<callerVars, last, job, queue, view, err, stopped>>
         /\ \E point \in {"unwind", "unwound"} : pc' = [pc EXCEPT ![u] = point]
<1>1. TypeOK /\ Numbered /\ Ordered /\ Flagged
  BY DEF IInv
<1>2. /\ pc[u] = "run" /\ bad' = bad \cup {job[u].blk}
      /\ UNCHANGED <<callerVars, last, job, queue, view, err, stopped>>
      /\ \E point \in {"unwind", "unwound"} : pc' = [pc EXCEPT ![u] = point]
  BY DEF RunThrow, Goto, callerVars, funnelVars
<1>3. /\ job[u].blk \in Nat \ {0} /\ job[u].blk <= next /\ next \in Nat
      /\ \A s \in Stages : job[s].blk \in Nat /\ Len(queue[s]) \in Nat
      /\ \A s \in Stages : last[s] \in Nat
  <2>1. \A s \in Stages : job[s].blk \in Nat /\ Len(queue[s]) \in Nat /\ last[s] \in Nat
    BY <1>1 DEF TypeOK, Chain
  <2>2. job[u].blk <= next
    BY <1>1, TakenBound
  <2>3. job[u].blk > 0
    BY <1>1, <1>2 DEF Numbered
  <2>4. next \in Nat
    BY <1>1 DEF TypeOK
  <2> QED
    BY <2>1, <2>2, <2>3, <2>4
<1>4. ASSUME NEW s \in Stages, s > u
      PROVE  /\ job[s].blk < job[u].blk
             /\ \A i \in 1 .. Len(queue[s]) : queue[s][i].blk < job[u].blk
  <2>1. s - 1 \in Stages /\ s # 1 /\ (u = s - 1 \/ u < s - 1)
    BY <1>4, NStagesAssumption DEF Stages
  <2>2. Passed(u) = job[u].blk - 1 /\ Passed(s - 1) <= Passed(u)
    <3>1. Passed(u) = job[u].blk - 1
      BY <1>2 DEF Passed
    <3>2. u < s - 1 => Passed(s - 1) <= Passed(u)
      BY <1>1, <2>1 DEF Ordered
    <3> QED
      BY <1>3, <2>1, <3>1, <3>2
  <2>3. Passed(s - 1) \in Nat
    BY <1>1, <2>1, TakenBound
  <2>4. job[s].blk + Len(queue[s]) = Passed(s - 1)
    BY <1>1, <2>1 DEF Numbered, Sent
  <2>5. \A i \in 1 .. Len(queue[s]) : queue[s][i].blk = job[s].blk + i
    BY <1>1 DEF Numbered
  <2>6. job[s].blk + Len(queue[s]) < job[u].blk
    BY <1>3, <2>2, <2>3, <2>4
  <2>7. job[s].blk \in Nat /\ Len(queue[s]) \in Nat /\ job[u].blk \in Nat
    BY <1>3
  <2>8. job[s].blk < job[u].blk
    BY <2>6, <2>7
  <2>9. ASSUME NEW i \in 1 .. Len(queue[s]) PROVE queue[s][i].blk < job[u].blk
    <3>1. job[s].blk + i < job[u].blk
      BY <2>6, <2>7
    <3> QED
      BY <2>5, <3>1
  <2> QED
    BY <2>8, <2>9
<1>5. Tainted(job[u].blk, u)'
  <2>1. \A s \in Stages : s > u => ~(job[s].blk >= job[u].blk)
    BY <1>3, <1>4
  <2>2. \A s \in Stages : s > u => \A i \in 1 .. Len(queue[s]) : ~(queue[s][i].blk >= job[u].blk)
    <3>1. \A s \in Stages : \A i \in 1 .. Len(queue[s]) : queue[s][i].blk \in Nat
      BY <1>1, <1>3 DEF Numbered
    <3> QED
      BY <1>3, <1>4, <3>1
  <2>3. pc'[u] \in {"unwind", "unwound"}
    BY <1>1, <1>2 DEF TypeOK
  <2>4. job[u].blk >= job[u].blk
    BY <1>3
  <2> QED
    BY <1>2, <2>1, <2>2, <2>3, <2>4 DEF Tainted
<1>6. last[NStages] < job[u].blk
  <2>1. NStages \in Stages /\ (u = NStages \/ NStages > u)
    BY NStagesAssumption DEF Stages
  <2>2. CASE u = NStages
    <3>1. job[u].blk = last[u] + 1
      BY <1>1, <1>2 DEF Flagged
    <3> QED
      BY <1>3, <2>1, <2>2, <3>1
  <2>3. CASE NStages > u
    <3>1. job[NStages].blk < job[u].blk
      BY <1>4, <2>1, <2>3
    <3>2. last[NStages] <= job[NStages].blk
      BY <2>1 DEF Taken
    <3> QED
      BY <1>3, <2>1, <3>1, <3>2
  <2> QED
    BY <2>1, <2>2, <2>3
<1>7. NStages \in Stages
  BY NStagesAssumption DEF Stages
<1>8. job[u].blk \in 1 .. next
  BY <1>3
<1>9. job[u].blk \in last[NStages] + 1 .. next
  BY <1>3, <1>6, <1>7
<1> QED
  BY <1>2, <1>5, <1>8, <1>9

(* A step that is neither a throw nor a capture.                           *)
LEMMA CalmStep ==
  ASSUME TypeOK, [Next]_vars, \A s \in Stages : ~RunThrow(s) /\ ~Capture(s)
  PROVE  /\ UNCHANGED <<bad, err, stopped>>
         /\ \A s \in Stages : pc'[s] \in {"unwind", "unwound"} =>
              pc[s] \in {"unwind", "unwound"} /\ job'[s] = job[s]
<1>1. CASE Quiet \/ SourceSpawn \/ Returned \/ vars' = vars
  BY <1>1, QuietFrame DEF SourceSpawn, Returned, vars, funnelVars, ghostVars, workerVars
<1>2. ASSUME NEW u \in Stages, Start(u) \/ Inner(u) \/ Hop(u)
      PROVE  /\ UNCHANGED <<bad, err, stopped>>
             /\ \A s \in Stages : pc'[s] \in {"unwind", "unwound"} =>
                  pc[s] \in {"unwind", "unwound"} /\ job'[s] = job[s]
  <2>1. UNCHANGED <<bad, err, stopped>>
    BY <1>2 DEF Start, Inner, AcquireOut, PopOut, RunOk, UnwindOut, ReleaseIn, PostIn, Hop,
                funnelVars, ghostVars
  <2>2. \A s \in Stages : s # u => pc'[s] = pc[s] /\ job'[s] = job[s]
    BY <1>2 DEF Start, Inner, AcquireOut, PopOut, RunOk, UnwindOut, ReleaseIn, PostIn, Hop,
                Goto, TypeOK
  <2>3. pc'[u] \in {"unwind", "unwound"} => UnwindOut(u)
    BY <1>2 DEF Start, Inner, AcquireOut, PopOut, RunOk, UnwindOut, ReleaseIn, PostIn, Hop,
                Goto, TypeOK
  <2>4. UnwindOut(u) => pc[u] = "unwind" /\ job' = job
    BY DEF UnwindOut
  <2> QED
    BY <2>1, <2>2, <2>3, <2>4
<1> QED
  BY <1>1, <1>2, NextCases

LEMMA FailingStep ==
  ASSUME IInv, Taken, Failing, [Next]_vars
  PROVE  Failing'
<1>1. TypeOK /\ bad \subseteq Nat
  BY DEF IInv, TypeOK
<1>2. \A b \in bad : \E t \in Stages : Tainted(b, t)'
  BY <1>1, TaintStep DEF Failing
<1>3. CASE \A s \in Stages : ~RunThrow(s) /\ ~Capture(s)
  <2>1. /\ UNCHANGED <<bad, err, stopped>>
        /\ \A s \in Stages : pc'[s] \in {"unwind", "unwound"} =>
             pc[s] \in {"unwind", "unwound"} /\ job'[s] = job[s]
    BY <1>1, <1>3, CalmStep
  <2> QED
    BY <1>2, <2>1 DEF Failing
<1>4. ASSUME NEW u \in Stages, RunThrow(u) PROVE Failing'
  <2>1. /\ bad' = bad \cup {job[u].blk} /\ Tainted(job[u].blk, u)'
        /\ UNCHANGED <<job, err, stopped>>
        /\ \E point \in {"unwind", "unwound"} : pc' = [pc EXCEPT ![u] = point]
    BY <1>4, ThrowTaints
  <2>2. \A s \in Stages : s # u => pc'[s] = pc[s]
    BY <1>1, <2>1 DEF TypeOK
  <2>3. \A s \in Stages : pc'[s] \in {"unwind", "unwound"} => job'[s].blk \in bad'
    BY <2>1, <2>2 DEF Failing
  <2>4. \A b \in bad' : \E t \in Stages : Tainted(b, t)'
    BY <1>2, <2>1
  <2>5. (stopped' <=> err' # 0) /\ (err' # 0 => bad' # {})
    BY <2>1 DEF Failing
  <2> QED
    BY <2>3, <2>4, <2>5 DEF Failing
<1>5. ASSUME NEW u \in Stages, Capture(u) PROVE Failing'
  <2>1. /\ pc[u] = "unwound" /\ pc' = [pc EXCEPT ![u] = "release"]
        /\ err' = (IF err = 0 THEN u ELSE err) /\ stopped' = TRUE
        /\ UNCHANGED <<job, bad>>
    BY <1>5 DEF Capture, Goto, ghostVars
  <2>2. err' # 0
    BY <2>1 DEF Stages
  <2>3. bad # {}
    BY <2>1 DEF Failing
  <2>4. \A s \in Stages : pc'[s] \in {"unwind", "unwound"} => pc'[s] = pc[s]
    BY <1>1, <2>1 DEF TypeOK
  <2>5. \A s \in Stages : pc'[s] \in {"unwind", "unwound"} => job'[s].blk \in bad'
    BY <2>1, <2>4 DEF Failing
  <2> QED
    BY <1>2, <2>1, <2>2, <2>3, <2>5 DEF Failing
<1> QED
  BY <1>3, <1>4, <1>5

(* What the promise needs holds in every state.                            *)
LEMMA PromiseInvariant == Spec => []RInv
<1>1. Init => RInv
  <2>1. ASSUME Init PROVE Heard /\ Failing /\ Taken
    BY <2>1 DEF Init, Heard, Failing, Taken
  <2>2. ASSUME Init PROVE Sourced
    BY <2>2, NBlocksAssumption DEF Init, Sourced
  <2> QED
    BY <2>1, <2>2 DEF RInv
<1>2. IInv /\ RInv /\ [Next]_vars => RInv'
  <2>1. SUFFICES ASSUME IInv, RInv, [Next]_vars PROVE RInv'
    OBVIOUS
  <2>2. Heard'
    BY <2>1, HeardStep DEF RInv
  <2>3. Sourced'
    BY <2>1, SourcedStep DEF RInv, IInv
  <2>4. Failing'
    BY <2>1, FailingStep DEF RInv
  <2>5. Taken'
    BY <2>1, TakenStep DEF RInv
  <2> QED
    BY <2>2, <2>3, <2>4, <2>5 DEF RInv
<1> QED
  BY <1>1, <1>2, Invariant, PTL DEF Spec

(* While a stage has a chain in hand, run() has not left.                  *)
LEMMA StillRunning ==
  ASSUME IInv, Sourced, NEW s \in Stages, pc[s] # "idle"
  PROVE  result = "none"
<1>1. active # 0
  BY Settled
<1> QED
  BY <1>1 DEF IInv, Ordered, Sourced

(* The sink completes the next block, and no failed block lies before it.  *)
LEMMA SinkReceives ==
  ASSUME IInv, RInv, RunOk(NStages)
  PROVE  Promise!Receive
<1>1. TypeOK /\ Numbered /\ Ordered /\ Flagged /\ Pooled
  BY DEF IInv
<1> DEFINE k == job[NStages].blk
<1>2. NStages \in Stages
  BY NStagesAssumption DEF Stages
<1>3. /\ pc[NStages] = "run" /\ UNCHANGED <<callerVars, bad>>
      /\ last' = [last EXCEPT ![NStages] = Content(NStages - 1, job[NStages].buf)]
  BY DEF RunOk
<1>4. k = last[NStages] + 1 /\ ~view[NStages]
  BY <1>1, <1>2, <1>3 DEF Flagged
<1>5. last'[NStages] = k
  <2>1. Content(NStages - 1, job[NStages].buf) = k
    BY <1>1, <1>2, <1>3, ReadsOwnBlock
  <2> QED
    BY <1>1, <1>2, <1>3, <2>1 DEF TypeOK
<1>6. k \in Nat /\ next \in Nat /\ last[NStages] \in Nat /\ k <= next
  BY <1>1, <1>2, TakenBound DEF TypeOK
<1>7. ASSUME NEW b \in bad PROVE k < b
  <2>1. b \in Nat
    BY <1>1 DEF TypeOK
  <2>2. PICK t \in Stages : Tainted(b, t)
    BY DEF RInv, Failing
  <2>3. CASE t = NStages
    BY <1>3, <1>4, <2>2, <2>3 DEF Tainted
  <2>4. CASE NStages > t
    <3>1. ~(k >= b)
      BY <1>2, <1>4, <2>2, <2>4 DEF Tainted
    <3> QED
      BY <1>6, <2>1, <3>1
  <2> QED
    BY <2>3, <2>4, NStagesAssumption DEF Stages
<1>8. result = "none"
  BY <1>2, <1>3, StillRunning DEF RInv
<1>9. last[NStages] < next
  BY <1>4, <1>6
<1> QED
  BY <1>3, <1>4, <1>5, <1>7, <1>8, <1>9 DEF Promise!Receive, callerVars

(* A stage throws on a block the sink has not received.                    *)
LEMMA StageFails ==
  ASSUME IInv, RInv, NEW u \in Stages, RunThrow(u)
  PROVE  [Promise!Next]_(Promise!vars)
<1> DEFINE b == job[u].blk
<1>1. /\ bad' = bad \cup {b} /\ b \in 1 .. next /\ b \in last[NStages] + 1 .. next
      /\ UNCHANGED <<callerVars, last>>
  BY ThrowTaints DEF RInv
<1>2. result = "none"
  <2>1. pc[u] # "idle"
    BY DEF RunThrow
  <2> QED
    BY <2>1, StillRunning DEF RInv
<1>3. CASE b \in bad
  BY <1>1, <1>3 DEF Promise!vars, callerVars
<1>4. CASE b \notin bad
  <2>1. b \in 1 .. NBlocks
    BY <1>1, NBlocksAssumption DEF RInv, Sourced, IInv, TypeOK
  <2>2. Promise!Fail(b)
    BY <1>1, <1>2, <1>4 DEF Promise!Fail, callerVars
  <2> QED
    BY <2>1, <2>2 DEF Promise!Next
<1> QED
  BY <1>3, <1>4

(* run() leaves after the drain: with the error of the source, with that   *)
(* of a stage, or with everything delivered.                               *)
LEMMA RunLeaves ==
  ASSUME IInv, RInv, Return
  PROVE  Promise!Leave
<1>1. /\ src = "drain" /\ active = 0 /\ UNCHANGED <<next, last, bad>>
      /\ result' = IF srcErr THEN "source" ELSE IF err # 0 THEN "stage" ELSE "ok"
  BY DEF Return, ghostVars
<1>2. result = "none"
  BY <1>1 DEF RInv, Sourced
<1>3. \A s \in Stages : pc[s] = "idle" /\ job[s].blk = next
  BY <1>1, Settled
<1>4. bad # {} => err # 0
  <2>1. SUFFICES ASSUME NEW b \in bad PROVE err # 0
    OBVIOUS
  <2>2. PICK t \in Stages : Tainted(b, t)
    BY DEF RInv, Failing
  <2>3. view[t]
    BY <1>3, <2>2 DEF Tainted
  <2> QED
    BY <2>3 DEF RInv, Failing, Heard
<1>5. err # 0 => bad # {}
  BY DEF RInv, Failing
<1>6. bad = {} => last[NStages] = next
  <2>1. SUFFICES ASSUME err = 0 PROVE last[NStages] = next
    BY <1>5
  <2>2. NStages \in Stages
    BY NStagesAssumption DEF Stages
  <2>3. ~view[NStages]
    BY <2>1, <2>2 DEF RInv, Failing, Heard
  <2> QED
    BY <1>3, <2>2, <2>3 DEF IInv, Flagged
<1>7. CASE srcErr
  BY <1>1, <1>2, <1>6, <1>7 DEF Promise!Leave, Promise!RethrowSource
<1>8. CASE ~srcErr /\ err # 0
  BY <1>1, <1>2, <1>5, <1>8 DEF Promise!Leave, Promise!RethrowStage
<1>9. CASE ~srcErr /\ err = 0
  <2>1. next = NBlocks
    BY <1>1, <1>9 DEF RInv, Sourced
  <2>2. bad = {}
    BY <1>4, <1>9
  <2> QED
    BY <1>1, <1>2, <1>6, <1>9, <2>1, <2>2 DEF Promise!Leave, Promise!ReturnOk
<1> QED
  BY <1>7, <1>8, <1>9

(* Threaded execution, under every schedule, every pattern of throws and   *)
(* every delay of the relaxed flag, is a run of the sequential promise.    *)
THEOREM ImplementsStreamRun == Spec => Refines
<1>1. Init => Promise!Init
  BY NStagesAssumption DEF Init, Promise!Init, Stages
<1>2. IInv /\ RInv /\ [Next]_vars => [Promise!Next]_(Promise!vars)
  <2>1. SUFFICES ASSUME IInv, RInv, [Next]_vars PROVE [Promise!Next]_(Promise!vars)
    OBVIOUS
  <2>2. CASE SourceSpawn
    <3>1. next' = next + 1 /\ src = "spawn" /\ UNCHANGED <<last, bad, result>>
      BY <2>2 DEF SourceSpawn, ghostVars
    <3>2. result = "none" /\ next < NBlocks
      BY <2>1, <3>1 DEF RInv, Sourced
    <3> QED
      BY <3>1, <3>2 DEF Promise!Next, Promise!Emit
  <2>3. CASE Return
    BY <2>1, <2>3, RunLeaves DEF Promise!Next
  <2>4. ASSUME NEW u \in Stages, RunOk(u) PROVE [Promise!Next]_(Promise!vars)
    <3>1. CASE u = NStages
      BY <2>1, <2>4, <3>1, SinkReceives DEF Promise!Next
    <3>2. CASE u # NStages
      <4>1. last'[NStages] = last[NStages]
        BY <2>1, <2>4, <3>2 DEF RunOk, IInv, TypeOK
      <4>2. UNCHANGED <<next, bad, result>>
        BY <2>4 DEF RunOk, callerVars
      <4> QED
        BY <4>1, <4>2 DEF Promise!vars
    <3> QED
      BY <3>1, <3>2
  <2>5. ASSUME NEW u \in Stages, RunThrow(u) PROVE [Promise!Next]_(Promise!vars)
    BY <2>1, <2>5, StageFails
  <2>6. CASE SourceNext \/ SourceEnd \/ SourceAcquire \/ SourcePop \/ Returned \/ vars' = vars
    BY <2>6 DEF SourceNext, SourceEnd, SourceAcquire, SourcePop, Returned, vars, callerVars,
                ghostVars, Promise!vars
  <2>7. ASSUME NEW u \in Stages, Start(u) \/ Inner(u) \/ Hop(u), ~RunOk(u), ~RunThrow(u)
        PROVE  [Promise!Next]_(Promise!vars)
    BY <2>7 DEF Start, Hop, Inner, AcquireOut, PopOut, UnwindOut, Capture, ReleaseIn, PostIn,
                callerVars, ghostVars, Promise!vars
  <2> QED
    BY <2>1, <2>2, <2>3, <2>4, <2>5, <2>6, <2>7, NextCases DEF Quiet
<1> QED
  BY <1>1, <1>2, Invariant, PromiseInvariant, PTL DEF Spec, Refines, Promise!Spec
=============================================================================
