------------------------------ MODULE CardPump ------------------------------
(***************************************************************************)
(* CardPump (tools/live_view.py): one thread owns the capture card, copies *)
(* its stream into the stdin pipe of whichever decoder child is current,   *)
(* and tees it to a file while a recording is active.  Around it: the      *)
(* restarts of Decoder, which attach a new child's pipe, and the handlers  *)
(* of POST /record, which wait for the recording to be complete.           *)
(*                                                                         *)
(* The lock is held by the pump from "write" to the end of "tee"; every    *)
(* other critical section is one action.  A piece is what one os.write may *)
(* transfer; pieces are numbered in stream order, modulo the cycle below.  *)
(***************************************************************************)
EXTENDS Integers, Sequences

CONSTANTS
  Recorders,  \* handlers of /record, each serving one request
  Parts,      \* pieces to a CHUNK
  Room,       \* pieces the pipe to a child holds
  Takes,      \* bound: how many pieces recordings ask for
  MaxGens,    \* bound: children spawned
  Cycle       \* bound: chunks after which the numbering starts again

ASSUME CardAssumption ==
  /\ Parts \in Nat \ {0} /\ Room \in Nat \ {0}
  /\ Takes \subseteq Nat /\ MaxGens \in Nat \ {0} /\ Cycle \in Nat \ {0}
  /\ "nobody" \notin Recorders

NoSink   == 0
Gens     == 1 .. MaxGens
Pieces   == 0 .. Cycle * Parts - 1
NoPiece  == -1
NoRec    == [who |-> "nobody", left |-> 0]
After(x) == (x + 1) % (Cycle * Parts)

VARIABLES
  pump,      \* the pump thread: "read", "lock", "write", "tee", "ended"
  first,     \* the first piece of the chunk in hand
  left,      \* pieces of it not yet written to the sink
  sink,      \* self.sink: the child whose stdin it is
  rec,       \* self.rec
  done,      \* the completion event
  restarter, \* the thread inside restart(): "idle", "spawn", "attach"
  gen,       \* the last child spawned
  child,     \* child[g]: "none", "running", "killed" (signalled), "gone"
  pipe,      \* pipe[g]: what child g has not read yet
  open,      \* the children whose pipe's write end is open
  got,       \* history: the piece child g, while alive, read last
  recorder,  \* recorder[h]: "idle", "begun", "waiting", "notified", "replied"
  asked,     \* asked[h]: pieces recorder h asked for
  file,      \* file[h]: the pieces in its file
  reply      \* reply[h]: "none", "ok", "stalled", "refused"

pumpVars    == <<pump, first, left>>
childVars   == <<gen, child, pipe, got>>
recordVars  == <<recorder, asked, reply>>
vars == <<pumpVars, sink, rec, done, restarter, childVars, open, recordVars, file>>

Init ==
  /\ pump = "read" /\ first = (Cycle - 1) * Parts /\ left = 0
  /\ sink = NoSink /\ rec = NoRec /\ done = FALSE
  /\ restarter = "idle" /\ gen = 0
  /\ child = [g \in Gens |-> "none"]
  /\ pipe = [g \in Gens |-> <<>>]
  /\ open = {}
  /\ got = [g \in Gens |-> NoPiece]
  /\ recorder = [h \in Recorders |-> "idle"]
  /\ asked = [h \in Recorders |-> 0]
  /\ file = [h \in Recorders |-> <<>>]
  /\ reply = [h \in Recorders |-> "none"]

LockFree == pump \notin {"write", "tee"}

Run(x, n) == [i \in 1 .. n |-> (x + i - 1) % (Cycle * Parts)]
ChunkPieces == Run(first, Parts)

-----------------------------------------------------------------------------
(* The pump.                                                               *)

(* os.read returns the next chunk...                                       *)
ReadCard ==
  /\ pump = "read"
  /\ first' = (first + Parts) % (Cycle * Parts)
  /\ left' = Parts
  /\ pump' = "lock"
  /\ UNCHANGED <<sink, rec, done, restarter, childVars, open, recordVars, file>>

(* ... or nothing, or raises: the thread is over, the sink stays as it is. *)
CardGone ==
  /\ pump = "read"
  /\ pump' = "ended"
  /\ UNCHANGED <<first, left, sink, rec, done, restarter, childVars, open, recordVars, file>>

TakeLock ==
  /\ pump = "lock"
  /\ pump' = IF sink = NoSink THEN "tee" ELSE "write"
  /\ UNCHANGED <<first, left, sink, rec, done, restarter, childVars, open, recordVars, file>>

(* os.write: blocks while the pipe is full, and may return short.          *)
Write ==
  /\ pump = "write" /\ child[sink] # "gone"
  /\ \E n \in 1 .. left :
       /\ Len(pipe[sink]) + n <= Room
       /\ pipe' = [pipe EXCEPT ![sink] = @ \o Run(first + Parts - left, n)]
       /\ left' = left - n
  /\ pump' = IF left' = 0 THEN "tee" ELSE "write"
  /\ UNCHANGED <<first, sink, rec, done, restarter, gen, child, got, open, recordVars, file>>

(* Each definition named X_... is X with a plausible bug: README.md says   *)
(* which property it shows to have teeth.  No specification uses one.      *)
(* Here the sink is closed but not forgotten.                              *)
BrokenPipe_KeepsSink ==
  /\ pump = "write" /\ child[sink] = "gone"
  /\ open' = open \ {sink}
  /\ left' = 0
  /\ pump' = "tee"
  /\ UNCHANGED <<first, sink, rec, done, restarter, childVars, recordVars, file>>

(* The child has gone: its pipe is closed, the rest of the chunk dropped.  *)
BrokenPipe ==
  /\ pump = "write" /\ child[sink] = "gone"
  /\ open' = open \ {sink} /\ sink' = NoSink
  /\ left' = 0
  /\ pump' = "tee"
  /\ UNCHANGED <<first, rec, done, restarter, childVars, recordVars, file>>

(* threading.Event.set: whoever waits is notified, even if the event is    *)
(* cleared before it runs.                                                 *)
Notify ==
  recorder' = [h \in Recorders |-> IF recorder[h] = "waiting" THEN "notified" ELSE recorder[h]]

(* buf[:left] goes to the file; the last piece completes the recording.    *)
Tee ==
  /\ pump = "tee"
  /\ IF rec = NoRec
     THEN UNCHANGED <<rec, file, done, recorder>>
     ELSE LET n == IF rec.left < Parts THEN rec.left ELSE Parts IN
          /\ file' = [file EXCEPT ![rec.who] = @ \o SubSeq(ChunkPieces, 1, n)]
          /\ IF rec.left <= Parts
             THEN rec' = NoRec /\ done' = TRUE /\ Notify
             ELSE rec' = [rec EXCEPT !.left = @ - Parts] /\ UNCHANGED <<done, recorder>>
  /\ pump' = "read"
  /\ UNCHANGED <<first, left, sink, restarter, childVars, open, asked, reply>>

(* f.write raises (a full disk): the lock is released, the thread is over. *)
TeeFails ==
  /\ pump = "tee" /\ rec # NoRec
  /\ pump' = "ended"
  /\ UNCHANGED <<first, left, sink, rec, done, restarter, childVars, open, recordVars, file>>

-----------------------------------------------------------------------------
(* restart(), under Decoder.lock: one thread at a time.                    *)

(* The child is left to find out by itself.                                *)
Kill_Nobody ==
  /\ restarter = "idle" /\ gen < MaxGens
  /\ restarter' = "spawn"
  /\ UNCHANGED <<pumpVars, sink, rec, done, childVars, open, recordVars, file>>

(* _kill(): terminate, wait up to three seconds, then kill without waiting:*)
(* the child may or may not be gone when the next one is spawned.          *)
Kill ==
  /\ restarter = "idle" /\ gen < MaxGens
  /\ child' = [g \in Gens |-> IF g = gen /\ child[g] = "running" THEN "killed" ELSE child[g]]
  /\ restarter' = "spawn"
  /\ UNCHANGED <<pumpVars, sink, rec, done, gen, pipe, got, open, recordVars, file>>

(* _spawn(): a pipe is made and the child started on its read end.         *)
Spawn ==
  /\ restarter = "spawn"
  /\ gen' = gen + 1
  /\ child' = [child EXCEPT ![gen'] = "running"]
  /\ open' = open \cup {gen'}
  /\ restarter' = "attach"
  /\ UNCHANGED <<pumpVars, sink, rec, done, pipe, got, recordVars, file>>

(* The sink is swapped without the lock.                                   *)
Attach_Unlocked ==
  /\ restarter = "attach"
  /\ open' = open \ {sink} /\ sink' = gen
  /\ restarter' = "idle"
  /\ UNCHANGED <<pumpVars, rec, done, childVars, recordVars, file>>

(* attach(): the old write end is closed, the stream pointed at the new.   *)
Attach ==
  /\ restarter = "attach" /\ LockFree
  /\ open' = open \ {sink} /\ sink' = gen
  /\ restarter' = "idle"
  /\ UNCHANGED <<pumpVars, rec, done, childVars, recordVars, file>>

-----------------------------------------------------------------------------
Gone(g) ==
  /\ child' = [child EXCEPT ![g] = "gone"]
  /\ pipe' = [pipe EXCEPT ![g] = <<>>]
  /\ got' = [got EXCEPT ![g] = NoPiece]
  /\ UNCHANGED <<pumpVars, sink, rec, done, restarter, gen, open, recordVars, file>>

(* A child reads its stdin up to the end of file, where it ends...         *)
ChildReads(g) ==
  /\ child[g] = "running" /\ (g \in open => pipe[g] # <<>>)
  /\ IF pipe[g] = <<>>
     THEN Gone(g)
     ELSE /\ got' = [got EXCEPT ![g] = Head(pipe[g])]
          /\ pipe' = [pipe EXCEPT ![g] = Tail(@)]
          /\ UNCHANGED <<pumpVars, sink, rec, done, restarter, gen, child, open, recordVars, file>>

(* ... dies of a signal, or of its own accord.                             *)
ChildDies(g) == child[g] = "killed" /\ Gone(g)
ChildFails(g) == child[g] = "running" /\ Gone(g)

-----------------------------------------------------------------------------
(* POST /record.                                                           *)

Reply(h, answer) ==
  /\ recorder' = [recorder EXCEPT ![h] = "replied"]
  /\ reply' = [reply EXCEPT ![h] = answer]

(* The event is left as the recording before it set it.                    *)
Record_KeepsDone(h) ==
  /\ recorder[h] = "idle" /\ LockFree /\ rec = NoRec
  /\ \E n \in Takes :
       /\ rec' = [who |-> h, left |-> n]
       /\ asked' = [asked EXCEPT ![h] = n]
  /\ recorder' = [recorder EXCEPT ![h] = "begun"]
  /\ UNCHANGED <<pumpVars, sink, done, restarter, childVars, open, reply, file>>

(* record(): a new recording, its completion event cleared.                *)
Record(h) ==
  /\ recorder[h] = "idle" /\ LockFree /\ rec = NoRec
  /\ \E n \in Takes :
       /\ rec' = [who |-> h, left |-> n]
       /\ asked' = [asked EXCEPT ![h] = n]
  /\ done' = FALSE
  /\ recorder' = [recorder EXCEPT ![h] = "begun"]
  /\ UNCHANGED <<pumpVars, sink, restarter, childVars, open, reply, file>>

(* It is refused (409), or open() raises (500).                            *)
RecordRefused(h) ==
  /\ recorder[h] = "idle" /\ LockFree
  /\ Reply(h, "refused")
  /\ UNCHANGED <<pumpVars, sink, rec, done, restarter, childVars, open, asked, file>>

(* done.wait(seconds + 5).                                                 *)
Wait(h) ==
  /\ recorder[h] = "begun"
  /\ IF done
     THEN Reply(h, "ok")
     ELSE recorder' = [recorder EXCEPT ![h] = "waiting"] /\ UNCHANGED reply
  /\ UNCHANGED <<pumpVars, sink, rec, done, restarter, childVars, open, asked, file>>

Answer(h) ==
  /\ \/ recorder[h] = "notified" /\ Reply(h, "ok")
     \/ recorder[h] = "waiting" /\ Reply(h, "stalled")   \* the timeout
  /\ UNCHANGED <<pumpVars, sink, rec, done, restarter, childVars, open, asked, file>>

-----------------------------------------------------------------------------
PumpStep == ReadCard \/ TakeLock \/ Write \/ BrokenPipe \/ Tee

Next ==
  \/ PumpStep \/ CardGone \/ TeeFails
  \/ Kill \/ Spawn \/ Attach
  \/ \E g \in Gens : ChildReads(g) \/ ChildDies(g) \/ ChildFails(g)
  \/ \E h \in Recorders : Record(h) \/ RecordRefused(h) \/ Wait(h) \/ Answer(h)

Spec == Init /\ [][Next]_vars

(* The card keeps delivering, a signalled child dies, and the pump frees   *)
(* its lock for as long as the card takes to fill a chunk: a thread that   *)
(* waits in attach() gets it sooner or later.  A child need not read.      *)
Fairness ==
  /\ WF_vars(PumpStep)
  /\ WF_vars(Spawn) /\ SF_vars(Attach)
  /\ \A g \in Gens : WF_vars(ChildDies(g))

FairSpec == Spec /\ Fairness

(* ... and the children run, too.                                          *)
LiveSpec == FairSpec /\ \A g \in Gens : WF_vars(ChildReads(g))

-----------------------------------------------------------------------------
(* Properties.                                                             *)

(* Every variable has its type.                                            *)
TypeOK ==
  /\ pump \in {"read", "lock", "write", "tee", "ended"}
  /\ first \in Pieces /\ left \in 0 .. Parts
  /\ sink \in Gens \cup {NoSink} /\ (pump = "write" => sink # NoSink)
  /\ rec \in [who : Recorders, left : Nat] \cup {NoRec}
  /\ done \in BOOLEAN
  /\ restarter \in {"idle", "spawn", "attach"} /\ gen \in 0 .. MaxGens
  /\ child \in [Gens -> {"none", "running", "killed", "gone"}]
  /\ \A g \in Gens : Len(pipe[g]) <= Room
  /\ open \subseteq Gens
  /\ got \in [Gens -> Pieces \cup {NoPiece}]
  /\ recorder \in [Recorders -> {"idle", "begun", "waiting", "notified", "replied"}]
  /\ reply \in [Recorders -> {"none", "ok", "stalled", "refused"}]

(* "A dropped byte would shear every sample after it" (CardPump.run): a    *)
(* child's input begins with a whole chunk and misses nothing after that,  *)
(* whenever it is attached and however short the writes.                   *)
InputUnsheared ==
  [][\A g \in Gens : got'[g] \notin {got[g], NoPiece} =>
       IF got[g] = NoPiece THEN got'[g] % Parts = 0 ELSE got'[g] = After(got[g])]_vars

(* A write end is closed when nobody means to write to it, and only then:  *)
(* attach() never closes a descriptor that is closed already (its number   *)
(* may be somebody else's by now), and an old child gets its end of file.  *)
SinkIsOwned ==
  /\ sink # NoSink => sink \in open
  /\ open \subseteq {sink} \cup (IF restarter = "attach" THEN {gen} ELSE {})

(* "The response IS the completion notice" (_record): a recorder that is   *)
(* told ok has in its file what it asked for, contiguous from a chunk's    *)
(* start, and never the completion of somebody else's recording.           *)
OkMeansRecorded ==
  \A h \in Recorders : reply[h] = "ok" =>
    /\ Len(file[h]) = asked[h]
    /\ asked[h] > 0 => file[h] = Run(file[h][1], asked[h]) /\ file[h][1] % Parts = 0

(* A restart gets through even if the old child has stopped reading and    *)
(* the pump sits in a write to it with the lock held.                      *)
RestartCompletes == (restarter # "idle") ~> (restarter = "idle")

(* "Stop the server if the decoder dies (bad gain, device gone), so we     *)
(* don't keep the last frame up forever" (live_view.py, main): when the    *)
(* device goes, the decoder reading from it ends.  The code breaks it      *)
(* (README.md, Disagreements): no run checks it.                           *)
DeviceGoneEndsDecoder ==
  \A g \in Gens : (pump = "ended" /\ child[g] = "running") ~> (child[g] # "running")
=============================================================================
