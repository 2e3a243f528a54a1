-------------------------- MODULE WorkQueueProofs --------------------------
(***************************************************************************)
(* Proofs about WorkQueue, for any number of workers, tasks and batches.   *)
(***************************************************************************)
EXTENDS WorkQueue, FiniteSetTheorems, TLAPS

(* Between batches and in the destructor nothing is pending and nobody     *)
(* holds a task: this is what makes dropping tasks_ safe.                  *)
CallerAway == pc[Caller] \in {"idle", "destroying", "joining", "exited"}
QuietBetween == CallerAway => size = 0 /\ remaining = 0 /\ Busy = {}

(* Only the caller visits its own control points, so a batch stays open    *)
(* while it is inside run().                                               *)
WorkersInLoop ==
  \A w \in Workers : pc[w] \in {"asleep", "woken", "claimed", "ran", "exited"}

IInv == TypeOK /\ RemainingExact /\ ClaimsAreOwn /\ QuietBetween /\ WorkersInLoop

-----------------------------------------------------------------------------
(* The threads that hold a task, at given control points.                  *)
BusyIn(points) == {t \in Participants : points[t] \in {"claimed", "ran"}}

(* Every set of participants is finite.                                    *)
LEMMA ParticipantsFinite ==
  ASSUME NEW S \in SUBSET Participants
  PROVE  IsFiniteSet(S) /\ Cardinality(S) \in Nat
<1>1. IsFiniteSet(Participants)
  BY FS_AddElement, ThreadsAssumption DEF Participants
<1>2. IsFiniteSet(S)
  BY <1>1, FS_Subset
<1> QED
  BY <1>2, FS_CardinalityType

(* Taking a thread out of a set of participants, and putting it back.      *)
LEMMA WithAndWithout ==
  ASSUME NEW S \in SUBSET Participants, NEW t \in Participants
  PROVE  /\ Cardinality(S \cup {t}) = Cardinality(S \ {t}) + 1
         /\ Cardinality(S \ {t}) \in Nat
         /\ t \in S => Cardinality(S) = Cardinality(S \ {t}) + 1
         /\ t \notin S => Cardinality(S) = Cardinality(S \ {t})
<1>1. IsFiniteSet(S \ {t}) /\ Cardinality(S \ {t}) \in Nat
  BY ParticipantsFinite
<1>2. Cardinality((S \ {t}) \cup {t}) = Cardinality(S \ {t}) + 1
  BY <1>1, FS_AddElement
<1>3. S \cup {t} = (S \ {t}) \cup {t}
  OBVIOUS
<1>4. t \in S => S = S \cup {t}
  OBVIOUS
<1>5. t \notin S => S = S \ {t}
  OBVIOUS
<1> QED
  BY <1>1, <1>2, <1>3, <1>4, <1>5

-----------------------------------------------------------------------------
LEMMA InitIInv == Init => IInv
<1> SUFFICES ASSUME Init PROVE IInv
  OBVIOUS
<1>1. Busy = {}
  BY DEF Init, Busy
<1>2. Cardinality(Busy) = 0 /\ Unclaimed = 0
  BY <1>1, FS_EmptySet DEF Init, Unclaimed
<1>3. TypeOK
  <2>1. pc \in [Participants -> ThreadPoints]
    BY DEF Init, ThreadPoints
  <2>2. 0 \in 0 .. MaxTasks /\ 0 \in 0 .. MaxBatches
    BY BoundsAssumption
  <2>3. /\ mine \in [Participants -> Indices \cup {NoTask}]
        /\ threw \in [Participants -> BOOLEAN]
        /\ executed \in [Indices -> Nat]
    BY DEF Init
  <2> QED
    BY <2>1, <2>2, <2>3 DEF Init, TypeOK
<1>4. WorkersInLoop
  BY ThreadsAssumption DEF Init, WorkersInLoop, Participants
<1> QED
  BY <1>1, <1>2, <1>3, <1>4
     DEF IInv, Init, RemainingExact, ClaimsAreOwn, QuietBetween

(* The rest of a critical section: a thread t that holds or looks for a    *)
(* task claims one, parks, waits or returns.                               *)
LEMMA ContinueStep ==
  ASSUME IInv, NEW t \in Participants, pc[t] \in {"ran", "woken"},
         NEW points \in [Participants -> ThreadPoints],
         NEW left, NEW error \in Indices \cup {NoTask},
         points[t] = pc[t],
         \A u \in Participants \ {t} :
           points[u] = pc[u] \/ (pc[u] = "asleep" /\ points[u] = "woken"),
         left = Unclaimed + Cardinality(Busy \ {t}),
         left <= MaxTasks,
         Continue(t, points, left, error),
         UNCHANGED <<threw, endVars, batch, history>>
  PROVE  IInv'
<1> DEFINE Others == Busy \ {t}
<1> USE BoundsAssumption, ThreadsAssumption DEF IInv, TypeOK
<1>1. /\ Busy \in SUBSET Participants
      /\ Cardinality(Others) \in Nat
      /\ Cardinality(Others \cup {t}) = Cardinality(Others) + 1
  <2>1. Busy \in SUBSET Participants
    BY DEF Busy
  <2>2. Others \cup {t} = Busy \cup {t}
    OBVIOUS
  <2> QED
    BY <2>1, <2>2, WithAndWithout
<1>2. BusyIn(points) \ {t} = Others
  BY DEF BusyIn, Busy
<1>3. ~CallerAway \/ (t # Caller /\ points[Caller] = pc[Caller])
  BY DEF CallerAway, Participants
<1>4. left \in Nat /\ remaining' = left
  BY <1>1 DEF Unclaimed, Continue
<1>5. CASE Claim(t, points, error)
  <2>1. /\ next < size /\ next' = next + 1 /\ size' = size
        /\ mine' = [mine EXCEPT ![t] = next]
        /\ pc' = [points EXCEPT ![t] = "claimed"]
    BY <1>5 DEF Claim
  <2>2. Busy' = Others \cup {t}
    BY <1>2, <2>1 DEF Busy, BusyIn
  <2>3. TypeOK'
    BY <1>4, <1>5, <2>1 DEF Claim, ThreadPoints, Indices, endVars, history
  <2>4. RemainingExact'
    <3>1. Unclaimed = Unclaimed' + 1 /\ Unclaimed' \in Nat
      BY <2>1 DEF Unclaimed
    <3> QED
      BY <1>1, <1>4, <2>2, <3>1 DEF RemainingExact
  <2>5. ClaimsAreOwn'
    <3>1. mine'[t] = next /\ \A u \in Others : mine'[u] = mine[u] /\ u \in Busy
      BY <2>1 DEF Busy
    <3>2. \A u \in Others : mine[u] \in 0 .. size - 1 /\ mine[u] < next
      BY DEF ClaimsAreOwn
    <3>3. \A u \in Busy' : mine'[u] \in 0 .. size - 1 /\ mine'[u] < next + 1
      BY <2>1, <2>2, <3>1, <3>2
    <3>4. \A u, v \in Busy' : u # v => mine'[u] # mine'[v]
      BY <2>2, <3>1, <3>2 DEF ClaimsAreOwn
    <3> QED
      BY <2>1, <3>3, <3>4 DEF ClaimsAreOwn
  <2>6. QuietBetween'
    <3>1. size # 0
      BY <2>1
    <3>2. ~CallerAway /\ ~CallerAway'
      BY <1>3, <2>1, <3>1 DEF QuietBetween, CallerAway, Participants
    <3> QED
      BY <3>2 DEF QuietBetween
  <2>7. WorkersInLoop'
    BY <2>1 DEF WorkersInLoop, Participants
  <2> QED
    BY <2>3, <2>4, <2>5, <2>6, <2>7
<1>6. ASSUME t \in Workers, Park(t, points, error) PROVE IInv'
  <2>1. /\ next >= size /\ next' = next /\ size' = size /\ mine' = mine
        /\ pc' = [points EXCEPT ![t] = IF stop THEN "exited" ELSE "asleep"]
    BY <1>6 DEF Park
  <2>2. Busy' = Others
    BY <1>2, <2>1 DEF Busy, BusyIn
  <2>3. TypeOK'
    BY <1>4, <1>6, <2>1 DEF Park, ThreadPoints, endVars, history
  <2>4. Unclaimed' = Unclaimed /\ Unclaimed = 0
    BY <2>1 DEF Unclaimed
  <2>5. RemainingExact'
    BY <1>4, <2>2, <2>4 DEF RemainingExact
  <2>6. ClaimsAreOwn'
    BY <2>1, <2>2 DEF ClaimsAreOwn
  <2>7. QuietBetween'
    <3>1. t # Caller /\ (CallerAway' => CallerAway)
      BY <1>6, <2>1 DEF CallerAway, Participants
    <3>2. SUFFICES ASSUME CallerAway PROVE size' = 0 /\ remaining' = 0 /\ Busy' = {}
      BY <3>1 DEF QuietBetween
    <3>3. size = 0 /\ Others = {}
      BY <3>2 DEF QuietBetween
    <3> QED
      BY <1>4, <2>1, <2>2, <2>4, <3>3, FS_EmptySet
  <2>8. WorkersInLoop'
    BY <2>1 DEF WorkersInLoop, Participants
  <2> QED
    BY <2>3, <2>5, <2>6, <2>7, <2>8
<1>7. ASSUME t = Caller, AwaitOrReturn(points, left, error) PROVE IInv'
  <2>1. next >= size /\ next' = next /\ mine' = mine /\ Unclaimed = 0
    BY <1>7 DEF AwaitOrReturn, Unclaimed
  <2>2. CASE left > 0
    <3>1. pc' = [points EXCEPT ![t] = "asleep"] /\ size' = size /\ firstError' = error
      BY <1>7, <2>2 DEF AwaitOrReturn
    <3>2. Busy' = Others
      BY <1>2, <3>1 DEF Busy, BusyIn
    <3>3. TypeOK'
      BY <1>4, <1>7, <2>1, <3>1 DEF AwaitOrReturn, ThreadPoints, endVars, history
    <3>4. RemainingExact'
      BY <1>4, <2>1, <3>1, <3>2 DEF RemainingExact, Unclaimed
    <3>5. ClaimsAreOwn'
      BY <2>1, <3>1, <3>2 DEF ClaimsAreOwn
    <3>6. QuietBetween' /\ WorkersInLoop'
      BY <1>7, <3>1 DEF QuietBetween, CallerAway, WorkersInLoop, Participants
    <3> QED
      BY <3>3, <3>4, <3>5, <3>6
  <2>3. CASE left = 0
    <3>1. pc' = [points EXCEPT ![t] = "idle"] /\ size' = 0 /\ firstError' = NoTask
      BY <1>7, <2>3 DEF AwaitOrReturn
    <3>2. Busy' = Others
      BY <1>2, <3>1 DEF Busy, BusyIn
    <3>3. Others = {}
      BY <1>1, <2>1, <2>3, ParticipantsFinite, FS_EmptySet
    <3>4. TypeOK'
      BY <1>4, <1>7, <2>1, <3>1 DEF AwaitOrReturn, ThreadPoints, endVars, history
    <3>5. RemainingExact' /\ ClaimsAreOwn' /\ QuietBetween'
      BY <1>4, <2>1, <2>3, <3>1, <3>2, <3>3, FS_EmptySet
         DEF RemainingExact, Unclaimed, ClaimsAreOwn, QuietBetween
    <3>6. WorkersInLoop'
      BY <1>7, <3>1 DEF WorkersInLoop, Participants
    <3> QED
      BY <3>4, <3>5, <3>6
  <2> QED
    BY <1>4, <2>2, <2>3
<1> QED
  BY <1>5, <1>6, <1>7 DEF Continue

(* Every step keeps the invariant.                                         *)
LEMMA NextIInv == IInv /\ [Next]_vars => IInv'
<1> SUFFICES ASSUME IInv, [Next]_vars PROVE IInv'
  OBVIOUS
<1> USE BoundsAssumption, ThreadsAssumption DEF IInv, TypeOK
<1>1. CASE Submit
  <2>1. pc[Caller] = "idle" /\ Busy = {} /\ size = 0
    BY <1>1 DEF Submit, QuietBetween, CallerAway
  <2>2. PICK n \in 0 .. MaxTasks :
          /\ size' = n /\ remaining' = n
          /\ IF n = 0
             THEN /\ next' = 0 /\ outcome' = "ok"
                  /\ pc' = NotifyWorkers(pc)
                  /\ UNCHANGED mine
             ELSE /\ next' = 1 /\ outcome' = "none"
                  /\ mine' = [mine EXCEPT ![Caller] = 0]
                  /\ pc' = [NotifyWorkers(pc) EXCEPT ![Caller] = "claimed"]
    BY <1>1 DEF Submit
  <2>3. /\ NotifyWorkers(pc) \in [Participants -> ThreadPoints]
        /\ BusyIn(NotifyWorkers(pc)) = {}
        /\ NotifyWorkers(pc)[Caller] = "idle"
        /\ \A w \in Workers : NotifyWorkers(pc)[w] \in {"woken", "claimed", "ran", "exited"}
    BY <2>1 DEF NotifyWorkers, BusyIn, Busy, Participants, ThreadPoints, WorkersInLoop
  <2>4. executed' = [i \in Indices |-> 0] /\ failed' = {} /\ batch' \in 0 .. MaxBatches
    BY <1>1 DEF Submit
  <2>5. CASE n = 0
    <3>1. Busy' = {}
      BY <2>2, <2>3, <2>5 DEF Busy, BusyIn
    <3>2. TypeOK'
      BY <1>1, <2>2, <2>3, <2>4, <2>5 DEF Submit, endVars
    <3> QED
      BY <2>2, <2>3, <2>5, <3>1, <3>2, FS_EmptySet
         DEF RemainingExact, Unclaimed, ClaimsAreOwn, QuietBetween, WorkersInLoop
  <2>6. CASE n # 0
    <3>1. Busy' = {Caller}
      BY <2>2, <2>3, <2>6 DEF Busy, BusyIn, Participants
    <3>2. Cardinality(Busy') = 1
      BY <3>1, FS_Singleton
    <3>3. 0 \in Indices /\ 1 \in 0 .. MaxTasks /\ "claimed" \in ThreadPoints
      BY <2>6 DEF Indices, ThreadPoints
    <3>4. TypeOK'
      BY <1>1, <2>2, <2>3, <2>4, <2>6, <3>3 DEF Submit, endVars
    <3>5. RemainingExact'
      BY <2>2, <2>6, <3>2 DEF RemainingExact, Unclaimed
    <3>6. ClaimsAreOwn'
      BY <2>2, <2>6, <3>1 DEF ClaimsAreOwn, Participants
    <3>7. QuietBetween' /\ WorkersInLoop'
      BY <2>2, <2>3, <2>6 DEF QuietBetween, CallerAway, WorkersInLoop, Participants
    <3> QED
      BY <3>4, <3>5, <3>6, <3>7
  <2> QED
    BY <2>5, <2>6
<1>2. ASSUME NEW t \in Participants, Execute(t) PROVE IInv'
  <2>1. /\ pc[t] = "claimed" /\ pc' = [pc EXCEPT ![t] = "ran"]
        /\ mine' = mine /\ size' = size /\ next' = next /\ remaining' = remaining
    BY <1>2 DEF Execute, batchVars
  <2>2. Busy' = Busy /\ t \in Busy
    BY <2>1 DEF Busy
  <2>3. mine[t] \in Indices
    BY <2>2 DEF ClaimsAreOwn, Indices
  <2>4. PICK throws \in BOOLEAN :
          /\ threw' = [threw EXCEPT ![t] = throws]
          /\ failed' = IF throws THEN failed \cup {mine[t]} ELSE failed
    BY <1>2 DEF Execute
  <2>5. executed' \in [Indices -> Nat] /\ failed' \subseteq Indices
    BY <1>2, <2>3, <2>4 DEF Execute
  <2>6. TypeOK'
    BY <1>2, <2>1, <2>4, <2>5 DEF Execute, ThreadPoints, batchVars, endVars
  <2>7. QuietBetween' /\ WorkersInLoop'
    BY <2>1, <2>2 DEF QuietBetween, CallerAway, WorkersInLoop, Participants
  <2> QED
    BY <2>1, <2>2, <2>6, <2>7 DEF RemainingExact, Unclaimed, ClaimsAreOwn
<1>3. ASSUME NEW t \in Participants, Finish(t) PROVE IInv'
  <2> DEFINE points == IF remaining = 1 THEN NotifyCaller(pc) ELSE pc
             error == IF threw[t] /\ firstError = NoTask THEN mine[t] ELSE firstError
  <2>1. t \in Busy /\ Busy \in SUBSET Participants
    BY <1>3 DEF Finish, Busy
  <2>2. points \in [Participants -> ThreadPoints] /\ points[t] = pc[t]
    BY <1>3 DEF Finish, NotifyCaller, ThreadPoints, Participants
  <2>3. \A u \in Participants \ {t} :
          points[u] = pc[u] \/ (pc[u] = "asleep" /\ points[u] = "woken")
    BY DEF NotifyCaller, Participants
  <2>4. remaining - 1 = Unclaimed + Cardinality(Busy \ {t}) /\ remaining - 1 <= MaxTasks
    BY <2>1, WithAndWithout DEF RemainingExact, Unclaimed
  <2>5. error \in Indices \cup {NoTask}
    BY <2>1 DEF ClaimsAreOwn, Indices
  <2>6. Continue(t, points, remaining - 1, error)
    BY <1>3 DEF Finish
  <2> HIDE DEF points, error
  <2> QED
    BY <1>3, <2>2, <2>3, <2>4, <2>5, <2>6, ContinueStep DEF Finish
<1>4. ASSUME NEW t \in Participants, Wake(t) PROVE IInv'
  <2>1. pc[t] = "woken" /\ t \notin Busy /\ Busy \in SUBSET Participants
    BY <1>4 DEF Wake, Busy
  <2>2. CASE t \in Workers /\ stop
    <3>1. /\ pc' = [pc EXCEPT ![t] = "exited"]
          /\ UNCHANGED <<mine, threw, batchVars, endVars, batch, history, outcome>>
      BY <1>4, <2>2 DEF Wake
    <3>2. Busy' = Busy
      BY <2>1, <3>1 DEF Busy
    <3>3. TypeOK'
      BY <3>1 DEF ThreadPoints, batchVars, endVars, history
    <3> QED
      BY <2>2, <3>1, <3>2, <3>3
         DEF RemainingExact, Unclaimed, ClaimsAreOwn, QuietBetween, CallerAway,
             WorkersInLoop, Participants, batchVars
  <2>3. CASE ~(t \in Workers /\ stop)
    <3>1. Continue(t, pc, remaining, firstError)
          /\ UNCHANGED <<threw, endVars, batch, history>>
      BY <1>4, <2>3 DEF Wake
    <3>2. remaining = Unclaimed + Cardinality(Busy \ {t}) /\ remaining <= MaxTasks
      BY <2>1, WithAndWithout DEF RemainingExact
    <3> QED
      BY <2>1, <3>1, <3>2, ContinueStep
  <2> QED
    BY <2>2, <2>3
<1>5. ASSUME NEW t \in Participants, SpuriousWake(t) PROVE IInv'
  <2>1. /\ pc[t] = "asleep" /\ pc' = [pc EXCEPT ![t] = "woken"]
        /\ UNCHANGED <<mine, threw, batchVars, endVars, batch, history, outcome>>
    BY <1>5 DEF SpuriousWake
  <2>2. Busy' = Busy
    BY <2>1 DEF Busy
  <2>3. TypeOK'
    BY <2>1 DEF ThreadPoints, batchVars, endVars, history
  <2> QED
    BY <2>1, <2>2, <2>3
       DEF RemainingExact, Unclaimed, ClaimsAreOwn, QuietBetween, CallerAway,
           WorkersInLoop, Participants, batchVars
<1>6. CASE Stop
  <2>1. Busy' = Busy
    BY <1>6 DEF Stop, NotifyWorkers, Busy, Participants
  <2>2. TypeOK'
    BY <1>6 DEF Stop, NotifyWorkers, ThreadPoints, Participants, batchVars, history
  <2>3. WorkersInLoop'
    BY <1>6 DEF Stop, NotifyWorkers, WorkersInLoop, Participants
  <2> QED
    BY <1>6, <2>1, <2>2, <2>3
       DEF Stop, RemainingExact, Unclaimed, ClaimsAreOwn, QuietBetween, CallerAway, batchVars
<1>7. CASE DestroyMembers \/ Join
  <2>1. /\ pc[Caller] \in {"destroying", "joining"}
        /\ pc' \in {[pc EXCEPT ![Caller] = p] : p \in {"joining", "exited"}}
        /\ alive' \in BOOLEAN
        /\ UNCHANGED <<mine, threw, batchVars, stop, batch, history, outcome>>
    BY <1>7 DEF DestroyMembers, Join, endVars
  <2>2. Busy' = Busy
    BY <2>1 DEF Busy, Participants
  <2>3. TypeOK' /\ WorkersInLoop'
    BY <2>1 DEF ThreadPoints, Participants, batchVars, history, WorkersInLoop
  <2> QED
    BY <2>1, <2>2, <2>3
       DEF RemainingExact, Unclaimed, ClaimsAreOwn, QuietBetween, CallerAway, batchVars
<1>8. CASE UNCHANGED vars
  BY <1>8 DEF vars, batchVars, endVars, history, RemainingExact, Unclaimed, Busy,
              ClaimsAreOwn, QuietBetween, CallerAway, WorkersInLoop
<1> QED
  BY <1>1, <1>2, <1>3, <1>4, <1>5, <1>6, <1>7, <1>8
     DEF Next, CallerStep, Thread, Gone

(* The inductive invariant, for any helpers, batch size and number of      *)
(* batches.                                                                *)
THEOREM Invariant == Spec => []IInv
<1> QED
  BY InitIInv, NextIInv, PTL DEF Spec

-----------------------------------------------------------------------------
(* Whatever the number of workers, tasks and batches, every variable keeps *)
(* its type.                                                               *)
THEOREM TypeCorrect == Spec => []TypeOK
<1> QED
  BY Invariant, PTL DEF IInv

(* remaining_ is exactly the number of tasks that have not completed, so   *)
(* run() returns neither under a running task nor too late.                *)
THEOREM CountIsExact == Spec => []RemainingExact
<1> QED
  BY Invariant, PTL DEF IInv

(* A thread that executes a task without the lock reads the batch it       *)
(* claimed it from, and no other thread has the same task.                 *)
THEOREM ClaimsStayOwn == Spec => []ClaimsAreOwn
<1> QED
  BY Invariant, PTL DEF IInv

-----------------------------------------------------------------------------
(* That WorkQueue implements BatchRun takes three more facts.  A batch is  *)
(* open exactly while the caller is in run()...                            *)
BatchOpen == ~CallerAway => size > 0 /\ next <= size

(* ... the executed tasks are the claimed ones whose execution nobody has  *)
(* still to begin...                                                       *)
Claimed(i) == \E t \in Participants : pc[t] = "claimed" /\ mine[t] = i
ExecutedOnce == \A i \in Indices : executed[i] > 0 <=> i < next /\ ~Claimed(i)

(* ... and a failure of the batch is in first_error_ or on its way there.  *)
Pending == \E t \in Participants : pc[t] = "ran" /\ threw[t]
ErrorKept ==
  /\ size = 0 => firstError = NoTask
  /\ size > 0 => (failed # {} <=> firstError # NoTask \/ Pending)

RInv == IInv /\ BatchOpen /\ ExecutedOnce /\ ErrorKept

Started   == {i \in Indices : executed[i] > 0}
Completed == {i \in Indices : executed[i] > 0 /\ ~Held(i)}

LEMMA InitRInv == Init => RInv /\ Promise!Init
<1> SUFFICES ASSUME Init PROVE RInv /\ Promise!Init
  OBVIOUS
<1>1. IInv
  BY InitIInv
<1>2. BatchOpen /\ ExecutedOnce /\ ErrorKept
  BY ThreadsAssumption, BoundsAssumption
     DEF Init, BatchOpen, CallerAway, ExecutedOnce, ErrorKept, Pending, Indices, Participants
<1>3. Promise!Init
  BY DEF Init, Promise!Init
<1> QED
  BY <1>1, <1>2, <1>3 DEF RInv

(* A task that begins or completes is a step of the promise.               *)
LEMMA TaskStep ==
  ASSUME NEW i \in Indices, Promise!Begin(i) \/ Promise!Complete(i)
  PROVE  Promise!Next
<1>1. i \in 0 .. MaxTasks - 1
  BY DEF Indices
<1>2. \E j \in 0 .. MaxTasks - 1 : Promise!Begin(j) \/ Promise!Complete(j)
  BY <1>1
<1> QED
  BY <1>2 DEF Promise!Next

(* The rest of a critical section of a thread that looks for a task        *)
(* (woken): nothing the caller can see happens, or run() returns.          *)
LEMMA WakeRefines ==
  ASSUME RInv, IInv', NEW t \in Participants, Wake(t)
  PROVE  RInv' /\ (Promise!Next \/ UNCHANGED Promise!vars)
<1> USE BoundsAssumption, ThreadsAssumption DEF RInv, IInv, TypeOK
<1>1. pc[t] = "woken" /\ UNCHANGED <<threw, endVars, batch, history>>
  BY DEF Wake
<1>2. CASE t \in Workers /\ stop
  <2>1. /\ pc' = [pc EXCEPT ![t] = "exited"] /\ t # Caller
        /\ UNCHANGED <<mine, batchVars, outcome>>
    BY <1>2 DEF Wake
  <2>2. Pending' = Pending /\ \A i \in Indices : Claimed(i)' = Claimed(i) /\ Held(i)' = Held(i)
    BY <1>1, <2>1 DEF Pending, Claimed, Held, Busy
  <2>3. BatchOpen' /\ ExecutedOnce' /\ ErrorKept'
    BY <1>1, <2>1, <2>2
       DEF BatchOpen, CallerAway, ExecutedOnce, ErrorKept, batchVars, history, Participants
  <2>4. Completed' = Completed /\ Started' = Started
    BY <1>1, <2>2 DEF Completed, Started, history
  <2> QED
    BY <1>1, <2>1, <2>3, <2>4
       DEF Promise!vars, Completed, Started, batchVars, history
<1>3. ASSUME Claim(t, pc, firstError) PROVE RInv' /\ UNCHANGED Promise!vars
  <2>1. /\ next < size /\ next' = next + 1 /\ size' = size /\ outcome' = outcome
        /\ mine' = [mine EXCEPT ![t] = next]
        /\ pc' = [pc EXCEPT ![t] = "claimed"]
        /\ firstError' = firstError
        /\ executed' = executed /\ failed' = failed /\ threw' = threw
    BY <1>1, <1>3 DEF Claim, history
  <2>2. Pending' = Pending
    BY <1>1, <2>1 DEF Pending
  <2>3. \A i \in Indices : Claimed(i)' <=> Claimed(i) \/ i = next
    BY <1>1, <2>1 DEF Claimed
  <2>4. \A i \in Indices : Held(i)' <=> Held(i) \/ i = next
    BY <1>1, <2>1 DEF Held, Busy
  <2>5. ExecutedOnce'
    BY <2>1, <2>3 DEF ExecutedOnce, Indices
  <2>6. BatchOpen' /\ ErrorKept'
    BY <2>1, <2>2 DEF BatchOpen, ErrorKept
  <2>7. Completed' = Completed /\ Started' = Started
    BY <2>1, <2>4 DEF Completed, Started, ExecutedOnce
  <2> QED
    BY <2>1, <2>5, <2>6, <2>7 DEF Promise!vars, Completed, Started
<1>4. ASSUME t \in Workers, Park(t, pc, firstError) PROVE RInv' /\ UNCHANGED Promise!vars
  <2>1. /\ t # Caller /\ UNCHANGED <<mine, size, next, outcome, firstError, executed, failed, threw>>
        /\ pc' = [pc EXCEPT ![t] = IF stop THEN "exited" ELSE "asleep"]
    BY <1>1, <1>4 DEF Park, history
  <2>2. Pending' = Pending /\ \A i \in Indices : Claimed(i)' = Claimed(i) /\ Held(i)' = Held(i)
    BY <1>1, <2>1 DEF Pending, Claimed, Held, Busy
  <2>3. BatchOpen' /\ ExecutedOnce' /\ ErrorKept'
    BY <1>1, <2>1, <2>2 DEF BatchOpen, CallerAway, ExecutedOnce, ErrorKept, Participants
  <2>4. Completed' = Completed /\ Started' = Started
    BY <2>1, <2>2 DEF Completed, Started
  <2> QED
    BY <2>1, <2>3, <2>4 DEF Promise!vars, Completed, Started
<1>5. ASSUME t = Caller, AwaitOrReturn(pc, remaining, firstError)
      PROVE  RInv' /\ (Promise!Next \/ UNCHANGED Promise!vars)
  <2>1. /\ UNCHANGED <<mine, next, executed, failed, threw>> /\ next >= size
        /\ size > 0
    BY <1>1, <1>5 DEF AwaitOrReturn, history, BatchOpen, CallerAway
  <2>2. \E p \in {"asleep", "idle"} : pc' = [pc EXCEPT ![t] = p]
    BY <1>5 DEF AwaitOrReturn
  <2>3. Pending' = Pending /\ \A i \in Indices : Claimed(i)' = Claimed(i) /\ Held(i)' = Held(i)
    BY <1>1, <2>1, <2>2 DEF Pending, Claimed, Held, Busy
  <2>4. ExecutedOnce'
    BY <2>1, <2>3 DEF ExecutedOnce
  <2>5. Completed' = Completed /\ Started' = Started
    BY <2>1, <2>3 DEF Completed, Started
  <2>6. CASE remaining > 0
    <3>1. pc' = [pc EXCEPT ![t] = "asleep"] /\ UNCHANGED <<size, outcome, firstError>>
      BY <1>5, <2>6 DEF AwaitOrReturn
    <3>2. BatchOpen' /\ ErrorKept'
      BY <1>1, <1>5, <2>1, <2>3, <3>1 DEF BatchOpen, ErrorKept, CallerAway
    <3> QED
      BY <2>1, <2>4, <2>5, <3>1, <3>2 DEF Promise!vars, Completed, Started
  <2>7. CASE remaining = 0
    <3>1. /\ pc' = [pc EXCEPT ![t] = "idle"] /\ size' = 0 /\ firstError' = NoTask
          /\ outcome' = IF firstError = NoTask THEN "ok" ELSE "rethrown"
      BY <1>5, <2>7 DEF AwaitOrReturn
    <3>2. Busy = {}
      <4>1. Cardinality(Busy) = 0 /\ IsFiniteSet(Busy)
        BY <2>7, ParticipantsFinite DEF RemainingExact, Unclaimed, Busy
      <4> QED
        BY <4>1, FS_EmptySet
    <3>3. BatchOpen' /\ ErrorKept'
      BY <1>5, <3>1 DEF BatchOpen, ErrorKept, CallerAway
    <3>4. ~Pending /\ \A i \in Indices : ~Claimed(i) /\ ~Held(i)
      BY <3>2 DEF Pending, Claimed, Held, Busy
    <3>5. next = size /\ Started = 0 .. size - 1 /\ Completed = 0 .. size - 1
      <4>1. next = size
        BY <1>1, <1>5, <2>1 DEF BatchOpen, CallerAway
      <4>2. \A i \in Indices : executed[i] > 0 <=> i < size
        BY <4>1, <3>4 DEF ExecutedOnce
      <4>3. size \in 0 .. MaxTasks /\ MaxTasks \in Nat
        BY BoundsAssumption DEF TypeOK
      <4>4. 0 .. size - 1 = {i \in Indices : i < size}
        BY <4>3, SMTT(30) DEF Indices
      <4>5. Started = {i \in Indices : i < size} /\ Completed = {i \in Indices : i < size}
        BY <4>2, <3>4 DEF Started, Completed
      <4> QED
        BY <4>1, <4>4, <4>5
    <3>6. Promise!Return
      BY <2>1, <2>5, <3>1, <3>4, <3>5
         DEF Promise!Return, Promise!Tasks, ErrorKept, Started, Completed
    <3> QED
      BY <2>4, <3>3, <3>6 DEF Promise!Next
  <2> QED
    BY <2>6, <2>7
<1> QED
  BY <1>2, <1>3, <1>4, <1>5 DEF Wake, Continue

(* The same for a thread whose task has just returned: the task completes, *)
(* and run() may return in the same step.                                  *)
LEMMA FinishRefines ==
  ASSUME RInv, IInv', NEW t \in Participants, Finish(t)
  PROVE  RInv' /\ Promise!Next
<1> USE BoundsAssumption, ThreadsAssumption DEF RInv, IInv, TypeOK
<1> DEFINE points == IF remaining = 1 THEN NotifyCaller(pc) ELSE pc
           error == IF threw[t] /\ firstError = NoTask THEN mine[t] ELSE firstError
<1>1. pc[t] = "ran" /\ UNCHANGED <<threw, endVars, batch, history>>
  BY DEF Finish
<1>2. t \in Busy /\ mine[t] \in Indices /\ mine[t] < next /\ mine[t] < size
  <2>1. t \in Busy
    BY <1>1 DEF Busy
  <2>2. mine[t] \in 0 .. size - 1 /\ mine[t] < next
    BY <2>1, Zenon DEF ClaimsAreOwn
  <2>3. size \in 0 .. MaxTasks /\ MaxTasks \in Nat
    OBVIOUS
  <2> QED
    BY <2>1, <2>2, <2>3, SMTT(30) DEF Indices
<1>task. PICK own \in Indices : own = mine[t]
  BY <1>2
<1>3. ~CallerAway /\ size > 0 /\ next <= size
  BY <1>2 DEF QuietBetween, BatchOpen
<1>4. /\ points \in [Participants -> ThreadPoints] /\ points[t] = "ran"
      /\ \A u \in Participants \ {t} :
           points[u] = pc[u] \/ (pc[u] = "asleep" /\ points[u] = "woken")
  BY <1>1 DEF NotifyCaller, ThreadPoints, Participants
<1>5. Continue(t, points, remaining - 1, error) /\ remaining' = remaining - 1
  BY DEF Finish, Continue
<1>6. (error # NoTask <=> firstError # NoTask \/ threw[t]) /\ error \in Indices \cup {NoTask}
  BY <1>2 DEF Indices, NoTask
<1>7. failed # {} <=> error # NoTask \/ \E u \in Participants \ {t} : pc[u] = "ran" /\ threw[u]
  BY <1>1, <1>3, <1>6 DEF ErrorKept, Pending
<1>8. executed[mine[t]] > 0 /\ mine[t] \in Started /\ mine[t] \notin Completed
  BY <1>1, <1>2 DEF ExecutedOnce, Claimed, Started, Completed, ClaimsAreOwn, Busy, Held
<1>9. \A u \in Busy : u # t => mine[u] # mine[t] /\ mine[u] < next
  BY <1>2 DEF ClaimsAreOwn
<1> HIDE DEF points, error
<1>10. ASSUME Claim(t, points, error) PROVE RInv' /\ Promise!Next
  <2>1. /\ next < size /\ next' = next + 1 /\ size' = size /\ outcome' = outcome
        /\ mine' = [mine EXCEPT ![t] = next]
        /\ pc' = [points EXCEPT ![t] = "claimed"]
        /\ firstError' = error
        /\ executed' = executed /\ failed' = failed /\ threw' = threw
    BY <1>1, <1>10 DEF Claim, history
  <2>2. Pending' <=> \E u \in Participants \ {t} : pc[u] = "ran" /\ threw[u]
    BY <1>4, <2>1 DEF Pending
  <2>3. \A i \in Indices : Claimed(i)' <=> Claimed(i) \/ i = next
    BY <1>1, <1>4, <2>1 DEF Claimed
  <2>4. \A i \in Indices : Held(i)' <=> (Held(i) /\ i # mine[t]) \/ i = next
    BY <1>1, <1>4, <1>9, <2>1 DEF Held, Busy
  <2>5. ExecutedOnce'
    BY <2>1, <2>3 DEF ExecutedOnce, Indices
  <2>6. BatchOpen' /\ ErrorKept'
    BY <1>3, <1>7, <2>1, <2>2 DEF BatchOpen, ErrorKept
  <2>7. Completed' = Completed \cup {mine[t]} /\ Started' = Started
    BY <1>8, <2>1, <2>4 DEF Completed, Started, ExecutedOnce
  <2>8. Promise!Complete(own)
    BY <1>task, <1>8, <2>1, <2>7 DEF Promise!Complete, Completed, Started
  <2>9. Promise!Next
    BY <2>8, TaskStep
  <2> QED
    BY <2>5, <2>6, <2>9
<1>11. ASSUME t \in Workers, Park(t, points, error) PROVE RInv' /\ Promise!Next
  <2>1. /\ t # Caller /\ firstError' = error
        /\ UNCHANGED <<mine, size, next, outcome, executed, failed, threw>>
        /\ pc' = [points EXCEPT ![t] = IF stop THEN "exited" ELSE "asleep"]
    BY <1>1, <1>11 DEF Park, history
  <2>2. Pending' <=> \E u \in Participants \ {t} : pc[u] = "ran" /\ threw[u]
    BY <1>4, <2>1 DEF Pending
  <2>3. \A i \in Indices : Claimed(i)' = Claimed(i)
    BY <1>1, <1>4, <2>1 DEF Claimed
  <2>4. \A i \in Indices : Held(i)' <=> Held(i) /\ i # mine[t]
    BY <1>1, <1>4, <1>9, <2>1 DEF Held, Busy
  <2>5. BatchOpen' /\ ExecutedOnce' /\ ErrorKept'
    BY <1>3, <1>7, <2>1, <2>2, <2>3 DEF BatchOpen, ExecutedOnce, ErrorKept
  <2>6. Completed' = Completed \cup {mine[t]} /\ Started' = Started
    BY <1>8, <2>1, <2>4 DEF Completed, Started
  <2>7. Promise!Complete(own)
    BY <1>task, <1>8, <2>1, <2>6 DEF Promise!Complete, Completed, Started
  <2>8. Promise!Next
    BY <2>7, TaskStep
  <2> QED
    BY <2>5, <2>8
<1>12. ASSUME t = Caller, AwaitOrReturn(points, remaining - 1, error)
       PROVE  RInv' /\ Promise!Next
  <2>1. UNCHANGED <<mine, next, executed, failed, threw>> /\ next >= size
    BY <1>1, <1>12 DEF AwaitOrReturn, history
  <2>2. \E p \in {"asleep", "idle"} : pc' = [points EXCEPT ![t] = p]
    BY <1>12 DEF AwaitOrReturn
  <2>3. Pending' <=> \E u \in Participants \ {t} : pc[u] = "ran" /\ threw[u]
    BY <1>4, <2>1, <2>2 DEF Pending
  <2>4. \A i \in Indices : Claimed(i)' = Claimed(i)
    BY <1>1, <1>4, <2>1, <2>2 DEF Claimed
  <2>5. \A i \in Indices : Held(i)' <=> Held(i) /\ i # mine[t]
    BY <1>1, <1>4, <1>9, <2>1, <2>2 DEF Held, Busy
  <2>6. ExecutedOnce'
    BY <2>1, <2>4 DEF ExecutedOnce
  <2>7. Completed' = Completed \cup {mine[t]} /\ Started' = Started
    BY <1>8, <2>1, <2>5 DEF Completed, Started
  <2>8. CASE remaining - 1 > 0
    <3>1. UNCHANGED <<size, outcome>> /\ firstError' = error
      BY <1>12, <2>8 DEF AwaitOrReturn
    <3>2. BatchOpen' /\ ErrorKept'
      BY <1>3, <1>7, <2>1, <2>3, <3>1 DEF BatchOpen, ErrorKept
    <3>3. Promise!Complete(own)
      BY <1>task, <1>8, <2>1, <2>7, <3>1 DEF Promise!Complete, Completed, Started
    <3>4. Promise!Next
      BY <3>3, TaskStep
    <3> QED
      BY <2>6, <3>2, <3>4
  <2>9. CASE remaining - 1 = 0
    <3>1. /\ pc' = [points EXCEPT ![t] = "idle"] /\ size' = 0 /\ firstError' = NoTask
          /\ outcome' = IF error = NoTask THEN "ok" ELSE "rethrown"
      BY <1>12, <2>9 DEF AwaitOrReturn
    <3>2. Busy' = {}
      BY <1>12, <3>1 DEF QuietBetween, CallerAway
    <3>3. BatchOpen' /\ ErrorKept'
      BY <1>12, <3>1 DEF BatchOpen, ErrorKept, CallerAway
    <3>4. ~Pending' /\ \A i \in Indices : ~Claimed(i)' /\ ~Held(i)'
      BY <3>2 DEF Pending, Claimed, Held, Busy
    <3>5. Started' = 0 .. size - 1 /\ Completed' = 0 .. size - 1
      <4>1. next = size
        BY <1>3, <2>1
      <4>2. \A i \in Indices : executed[i] > 0 <=> i < size
        BY <2>4, <3>4, <4>1 DEF ExecutedOnce
      <4> QED
        BY <2>1, <3>4, <4>2 DEF Started, Completed, Indices
    <3>6. Promise!Return
      BY <1>3, <1>7, <2>1, <2>3, <2>7, <3>1, <3>4, <3>5
         DEF Promise!Return, Promise!Tasks, Started, Completed
    <3> QED
      BY <2>6, <3>3, <3>6 DEF Promise!Next
  <2> QED
    BY <2>8, <2>9, <1>5
<1> QED
  BY <1>5, <1>10, <1>11, <1>12 DEF Continue

(* Every step of the queue is a step of the promise, or changes nothing of *)
(* what the promise is about.                                              *)
LEMMA NextRefines ==
  RInv /\ IInv' /\ [Next]_vars => RInv' /\ [Promise!Next]_(Promise!vars)
<1> SUFFICES ASSUME RInv, IInv', [Next]_vars
             PROVE  RInv' /\ (Promise!Next \/ UNCHANGED Promise!vars)
  OBVIOUS
<1> USE BoundsAssumption, ThreadsAssumption DEF RInv, IInv, TypeOK
<1>1. CASE Submit
  <2>1. pc[Caller] = "idle" /\ Busy = {} /\ size = 0 /\ firstError = NoTask
    BY <1>1 DEF Submit, QuietBetween, CallerAway, ErrorKept
  <2>2. PICK n \in 0 .. MaxTasks :
          /\ size' = n
          /\ IF n = 0
             THEN /\ next' = 0 /\ outcome' = "ok"
                  /\ pc' = NotifyWorkers(pc)
                  /\ UNCHANGED mine
             ELSE /\ next' = 1 /\ outcome' = "none"
                  /\ mine' = [mine EXCEPT ![Caller] = 0]
                  /\ pc' = [NotifyWorkers(pc) EXCEPT ![Caller] = "claimed"]
    BY <1>1 DEF Submit
  <2>3. executed' = [i \in Indices |-> 0] /\ failed' = {} /\ firstError' = NoTask
    BY <1>1, <2>1 DEF Submit
  <2>4. Started' = {} /\ Completed' = {}
    BY <2>3 DEF Started, Completed
  <2>5. NotifyWorkers(pc)[Caller] = "idle"
        /\ \A t \in Participants : NotifyWorkers(pc)[t] \notin {"claimed", "ran"}
    BY <2>1 DEF NotifyWorkers, Busy, Participants
  <2>6. ~Pending'
    BY <2>2, <2>5 DEF Pending, Participants
  <2>7. CASE n = 0
    <3>1. ExecutedOnce' /\ BatchOpen' /\ ErrorKept'
      BY <2>2, <2>3, <2>5, <2>7
         DEF ExecutedOnce, BatchOpen, ErrorKept, CallerAway, Indices
    <3>2. Promise!SubmitNone
      BY <2>1, <2>2, <2>3, <2>4, <2>7 DEF Promise!SubmitNone, Started, Completed
    <3> QED
      BY <3>1, <3>2 DEF Promise!Next
  <2>8. CASE n # 0
    <3>1. Claimed(0)'
      BY <2>2, <2>5, <2>8 DEF Claimed, Participants
    <3>2. ExecutedOnce' /\ BatchOpen' /\ ErrorKept'
      BY <2>2, <2>3, <2>6, <2>8, <3>1
         DEF ExecutedOnce, BatchOpen, ErrorKept, CallerAway, Indices
    <3>3. Promise!Submit(n) /\ n \in 1 .. MaxTasks
      BY <2>1, <2>2, <2>3, <2>4, <2>8 DEF Promise!Submit, Started, Completed
    <3> QED
      BY <3>2, <3>3 DEF Promise!Next
  <2> QED
    BY <2>7, <2>8
<1>2. ASSUME NEW t \in Participants, Execute(t) PROVE RInv' /\ Promise!Next
  <2>1. /\ pc[t] = "claimed" /\ pc' = [pc EXCEPT ![t] = "ran"]
        /\ UNCHANGED <<mine, size, next, firstError, outcome>>
        /\ executed' = [executed EXCEPT ![mine[t]] = @ + 1]
    BY <1>2 DEF Execute, batchVars
  <2>2. PICK throws \in BOOLEAN :
          /\ threw' = [threw EXCEPT ![t] = throws]
          /\ failed' = IF throws THEN failed \cup {mine[t]} ELSE failed
    BY <1>2 DEF Execute
  <2>3. t \in Busy /\ mine[t] \in Indices /\ mine[t] < next /\ mine[t] < size
    BY <2>1 DEF Busy, ClaimsAreOwn, Indices
  <2>4. ~CallerAway
    BY <2>3 DEF QuietBetween
  <2>5. Pending' <=> Pending \/ throws
    BY <2>1, <2>2 DEF Pending
  <2>6. \A i \in Indices : Claimed(i)' <=> Claimed(i) /\ i # mine[t]
    BY <2>1, <2>3 DEF Claimed, ClaimsAreOwn, Busy
  <2>7. \A i \in Indices : Held(i)' = Held(i)
    BY <2>1 DEF Held, Busy
  <2>8. executed[mine[t]] = 0
    BY <2>1, <2>3 DEF ExecutedOnce, Claimed
  <2>9. ExecutedOnce'
    BY <2>1, <2>3, <2>6, <2>8 DEF ExecutedOnce
  <2>10. BatchOpen' /\ ErrorKept'
    BY <2>1, <2>2, <2>3, <2>4, <2>5 DEF BatchOpen, ErrorKept
  <2>11. Started' = Started \cup {mine[t]} /\ mine[t] \notin Started
    BY <2>1, <2>3, <2>8 DEF Started
  <2>12. Completed' = Completed
    BY <2>1, <2>3, <2>7, <2>8 DEF Completed, Held
  <2>13. PICK own \in Indices : own = mine[t]
    BY <2>3
  <2>14. Promise!Begin(own)
    BY <2>13, <2>1, <2>2, <2>3, <2>11, <2>12
       DEF Promise!Begin, Promise!Tasks, Started, Completed, Indices
  <2>15. Promise!Next
    BY <2>14, TaskStep
  <2> QED
    BY <2>9, <2>10, <2>15
<1>3. ASSUME NEW t \in Participants, Finish(t) PROVE RInv' /\ Promise!Next
  BY <1>3, FinishRefines
<1>4. ASSUME NEW t \in Participants, Wake(t)
      PROVE  RInv' /\ (Promise!Next \/ UNCHANGED Promise!vars)
  BY <1>4, WakeRefines
<1>5. ASSUME (\E t \in Participants : SpuriousWake(t)) \/ Stop \/ DestroyMembers \/ Join
             \/ UNCHANGED vars
      PROVE  RInv' /\ UNCHANGED Promise!vars
  <2>1. /\ UNCHANGED <<mine, size, next, firstError, outcome, executed, failed, threw>>
        /\ \A t \in Participants :
             /\ pc'[t] = "claimed" <=> pc[t] = "claimed"
             /\ pc'[t] = "ran" <=> pc[t] = "ran"
        /\ CallerAway' <=> CallerAway
    BY <1>5 DEF SpuriousWake, Stop, DestroyMembers, Join, vars, batchVars, history,
                NotifyWorkers, CallerAway, Participants
  <2>2. Pending' = Pending /\ \A i \in Indices : Claimed(i)' = Claimed(i) /\ Held(i)' = Held(i)
    BY <2>1 DEF Pending, Claimed, Held, Busy
  <2>3. BatchOpen' /\ ExecutedOnce' /\ ErrorKept'
    BY <2>1, <2>2 DEF BatchOpen, ExecutedOnce, ErrorKept
  <2>4. Started' = Started /\ Completed' = Completed
    BY <2>1, <2>2 DEF Started, Completed
  <2> QED
    BY <2>1, <2>3, <2>4 DEF Promise!vars, Started, Completed
<1> QED
  BY <1>1, <1>2, <1>3, <1>4, <1>5 DEF Next, CallerStep, Thread, Gone

(* WorkQueue keeps run()'s promise with any number of workers and tasks:   *)
(* every task once, all complete on return, and the outcome of this batch. *)
THEOREM ImplementsBatchRun == Spec => Refines
<1>1. Init => RInv /\ Promise!Init
  BY InitRInv
<1>2. RInv /\ IInv' /\ [Next]_vars => RInv' /\ [Promise!Next]_(Promise!vars)
  BY NextRefines
<1> QED
  BY <1>1, <1>2, Invariant, PTL DEF Spec, Refines, Promise!Spec
=============================================================================
