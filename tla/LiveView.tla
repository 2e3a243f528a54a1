------------------------------ MODULE LiveView ------------------------------
(***************************************************************************)
(* The decode child under a running server (tools/live_view.py, Decoder):  *)
(* the /set handlers restart it with new flags, every child has a reader   *)
(* thread of its own that publishes its frames, and the server stops when  *)
(* the child dies by itself or on Ctrl-C.                                  *)
(*                                                                         *)
(* A value is a number in thousandths, whatever a query can say.  Knob     *)
(* Colour decides how many channels a frame has, and twice: the server     *)
(* asks whether the value is zero, the child has the flag of its whole     *)
(* part.  values_lock is held by a handler from "restart" on, Decoder.lock *)
(* from "kill" on, both until the reply.  What the card or the tuner feeds *)
(* the child is left out (see CardPump).                                   *)
(***************************************************************************)
EXTENDS Integers

CONSTANTS
  Setters,   \* handlers of /set, each serving one request
  Knobs,     \* the sliders, and the toggle Colour
  Colour,
  Slides,    \* Slides[k]: where slider k may be; a toggle takes any number
  Defaults,  \* the values main() starts with
  Request,   \* Request[h]: the values in the query of handler h, by knob
  MaxSpawns  \* bound: children, the first one included

ASSUME LiveViewAssumption ==
  /\ Colour \in Knobs /\ Defaults \in [Knobs -> Int]
  /\ \A h \in Setters : \A k \in DOMAIN Request[h] : Request[h][k] \in Int
  /\ MaxSpawns \in Nat \ {0}

Values   == [Knobs -> Int]
Children == 1 .. MaxSpawns

WholePartIsZero(x) == x \in -999 .. 999

\* What the server counts on, and what a child run with these values writes.
Channels(v) == IF v[Colour] # 0 THEN 3 ELSE 1
Emits(v)    == IF WholePartIsZero(v[Colour]) THEN 1 ELSE 3

\* flags_for raises.
IsRefused(request) == \E k \in DOMAIN request \cap (Knobs \ {Colour}) : request[k] \notin Slides[k]

VARIABLES
  values,    \* the applied values
  extra,     \* Decoder.extra: the values the next child's flags are made of
  channels,  \* Decoder.channels
  setter,    \* setter[h]: "idle", "restart", "kill", "spawn", "replied"
  flags,     \* flags[h]: what handler h will restart with
  gen,       \* Decoder.gen
  spawned,   \* how many children have been spawned: the last one is self.proc
  proc,      \* self.proc is not None
  child,     \* child[n]: "none", "running", "killed" (signalled), "gone"
  runs,      \* runs[n]: the values child n was started with
  bornAt,    \* bornAt[n]: the gen its reader was given
  reader,    \* reader[n]: "none", "starting", "reading", "encoding", "over", "ended"
  sized,     \* sized[n]: the channels its reader counts on
  dead,      \* Decoder.dead is set
  failed,    \* history: children that died, or whose reader failed, unasked
  server     \* "serving", "stopping", "stopped", "exited"

decVars   == <<extra, channels, gen>>
childVars == <<spawned, proc, child, runs, bornAt>>
readVars  == <<reader, sized, dead>>
setVars   == <<values, setter, flags>>
vars == <<setVars, decVars, childVars, readVars, failed, server>>

(* main() has restarted the decoder for the first time and now serves.     *)
Init ==
  /\ values = Defaults /\ extra = values /\ channels = Channels(values)
  /\ setter = [h \in Setters |-> "idle"]
  /\ flags = [h \in Setters |-> values]
  /\ gen = 1 /\ spawned = 1 /\ proc = TRUE
  /\ child = [n \in Children |-> IF n = 1 THEN "running" ELSE "none"]
  /\ runs = [n \in Children |-> values]
  /\ bornAt = [n \in Children |-> 1]
  /\ reader = [n \in Children |-> IF n = 1 THEN "starting" ELSE "none"]
  /\ sized = [n \in Children |-> 0]
  /\ dead = FALSE /\ failed = {}
  /\ server = "serving"

Alive == server # "exited"   \* the process: its exit takes every thread with it

ValuesFree  == \A h \in Setters : setter[h] \notin {"restart", "kill", "spawn"}
DecoderFree == \A h \in Setters : setter[h] \notin {"kill", "spawn"}

Goto(h, point) == setter' = [setter EXCEPT ![h] = point]

-----------------------------------------------------------------------------
(* GET /set.                                                               *)

\* A query names some of the knobs; the others stay where they are.
Merged(request) == [k \in Knobs |-> IF k \in DOMAIN request THEN request[k] ELSE values[k]]

(* Each definition named X_... is X with a plausible bug: README.md says   *)
(* which property it shows to have teeth.  No specification uses one.      *)
(* Here values_lock is released before the decoder is restarted.           *)
Set_EarlyUnlock(h) ==
  /\ Alive /\ setter[h] = "idle" /\ ~IsRefused(Request[h])
  /\ values' = Merged(Request[h])
  /\ flags' = [flags EXCEPT ![h] = values']
  /\ Goto(h, "restart")
  /\ UNCHANGED <<decVars, childVars, readVars, failed, server>>

(* The frame size changes before the decoder's lock is taken.              *)
Set_ChannelsEarly(h) ==
  /\ Alive /\ setter[h] = "idle" /\ ValuesFree /\ ~IsRefused(Request[h])
  /\ values' = Merged(Request[h])
  /\ flags' = [flags EXCEPT ![h] = values']
  /\ channels' = Channels(values')
  /\ Goto(h, "restart")
  /\ UNCHANGED <<extra, gen, childVars, readVars, failed, server>>

(* The request is merged into the applied values, under values_lock...     *)
Set(h) ==
  /\ Alive /\ setter[h] = "idle" /\ ValuesFree /\ ~IsRefused(Request[h])
  /\ values' = Merged(Request[h])
  /\ flags' = [flags EXCEPT ![h] = values']
  /\ Goto(h, "restart")
  /\ UNCHANGED <<decVars, childVars, readVars, failed, server>>

(* ... unless the knobs refuse it, which is a 400 and changes nothing.     *)
SetRefused(h) ==
  /\ Alive /\ setter[h] = "idle" /\ ValuesFree /\ IsRefused(Request[h])
  /\ Goto(h, "replied")
  /\ UNCHANGED <<values, flags, decVars, childVars, readVars, failed, server>>

(* The outgoing reader is not told.                                        *)
Restart_KeepsGen(h) ==
  /\ Alive /\ setter[h] = "restart" /\ DecoderFree
  /\ extra' = flags[h] /\ channels' = Channels(flags[h])
  /\ Goto(h, "kill")
  /\ UNCHANGED <<gen, values, flags, childVars, readVars, failed, server>>

(* restart(): under Decoder.lock the outgoing reader is told, the flags    *)
(* and the frame size change...                                            *)
Restart(h) ==
  /\ Alive /\ setter[h] = "restart" /\ DecoderFree
  /\ gen' = gen + 1
  /\ extra' = flags[h] /\ channels' = Channels(flags[h])
  /\ Goto(h, "kill")
  /\ UNCHANGED <<values, flags, childVars, readVars, failed, server>>

(* ... the child is killed...                                              *)
KillChild ==
  /\ child' = [child EXCEPT ![spawned] = IF @ = "running" /\ proc THEN "killed" ELSE @]
  /\ proc' = FALSE
  /\ UNCHANGED <<spawned, runs, bornAt>>

Kill(h) ==
  /\ Alive /\ setter[h] = "kill"
  /\ KillChild
  /\ Goto(h, "spawn")
  /\ UNCHANGED <<values, flags, decVars, readVars, failed, server>>

(* ... and the next one spawned with a pipe and a reader of its own.       *)
Spawn(h) ==
  /\ Alive /\ setter[h] = "spawn" /\ spawned < MaxSpawns
  /\ spawned' = spawned + 1 /\ proc' = TRUE
  /\ child' = [child EXCEPT ![spawned'] = "running"]
  /\ runs' = [runs EXCEPT ![spawned'] = extra]
  /\ bornAt' = [bornAt EXCEPT ![spawned'] = gen]
  /\ reader' = [reader EXCEPT ![spawned'] = "starting"]
  /\ Goto(h, "replied")
  /\ UNCHANGED <<values, flags, decVars, sized, dead, failed, server>>

(* Popen raises: the locks are released, no child and no reader is left.   *)
SpawnFails(h) ==
  /\ Alive /\ setter[h] = "spawn"
  /\ Goto(h, "replied")
  /\ UNCHANGED <<values, flags, decVars, childVars, readVars, failed, server>>

-----------------------------------------------------------------------------
(* Child n dies, by itself or of the signal.                               *)
Die(n) ==
  /\ child[n] \in {"running", "killed"}
  /\ child' = [child EXCEPT ![n] = "gone"]
  /\ failed' = IF child[n] = "running" THEN failed \cup {n} ELSE failed
  /\ UNCHANGED <<setVars, decVars, spawned, proc, runs, bornAt, readVars, server>>

(* The reader thread of child n.  self.channels is read without the lock.  *)
ReaderStarts(n) ==
  /\ Alive /\ reader[n] = "starting"
  /\ sized' = [sized EXCEPT ![n] = channels]
  /\ reader' = [reader EXCEPT ![n] = "reading"]
  /\ UNCHANGED <<setVars, decVars, childVars, dead, failed, server>>

(* A whole frame, or the end of the file: the pipe is shorter than a frame,*)
(* so none is left in it when the child has gone.                          *)
ReadFrame(n) ==
  /\ Alive /\ reader[n] = "reading"
  /\ reader' = [reader EXCEPT ![n] = IF child[n] = "gone" THEN "over" ELSE "encoding"]
  /\ UNCHANGED <<setVars, decVars, childVars, sized, dead, failed, server>>

Publish(n) ==
  /\ Alive /\ reader[n] = "encoding"
  /\ reader' = [reader EXCEPT ![n] = "reading"]
  /\ UNCHANGED <<setVars, decVars, childVars, sized, dead, failed, server>>

(* The encoder raises: reader_loop closes the pipe and returns, too; its   *)
(* on_fail does nothing.                                                   *)
ReaderFails(n) ==
  /\ Alive /\ reader[n] = "encoding"
  /\ reader' = [reader EXCEPT ![n] = "over"]
  /\ failed' = failed \cup {n}
  /\ UNCHANGED <<setVars, decVars, childVars, sized, dead, server>>

(* The end of the stream is left to on_fail, which does nothing.           *)
ReaderEnds_OnFailOnly(n) ==
  /\ Alive /\ reader[n] = "over" /\ DecoderFree
  /\ reader' = [reader EXCEPT ![n] = "ended"]
  /\ UNCHANGED <<setVars, decVars, childVars, sized, dead, failed, server>>

(* _read(): unless a restart meant it, the end of the stream is the end.   *)
ReaderEnds(n) ==
  /\ Alive /\ reader[n] = "over" /\ DecoderFree
  /\ dead' = (dead \/ bornAt[n] = gen)
  /\ reader' = [reader EXCEPT ![n] = "ended"]
  /\ UNCHANGED <<setVars, decVars, childVars, sized, failed, server>>

-----------------------------------------------------------------------------
(* The main thread: serve_forever ends when `dead` shuts it down...        *)
Shutdown ==
  /\ server = "serving" /\ dead
  /\ server' = "stopping"
  /\ UNCHANGED <<setVars, decVars, childVars, readVars, failed>>

(* ... or on Ctrl-C...                                                     *)
CtrlC ==
  /\ server = "serving"
  /\ server' = "stopping"
  /\ UNCHANGED <<setVars, decVars, childVars, readVars, failed>>

(* ... then dec.stop()...                                                  *)
Stop ==
  /\ server = "stopping" /\ DecoderFree
  /\ gen' = gen + 1
  /\ KillChild
  /\ server' = "stopped"
  /\ UNCHANGED <<setVars, extra, channels, readVars, failed>>

(* ... and the process exits, whatever its daemon threads are doing.       *)
Exit ==
  /\ server = "stopped"
  /\ server' = "exited"
  /\ UNCHANGED <<setVars, decVars, childVars, readVars, failed>>

-----------------------------------------------------------------------------
Setter(h) == Set(h) \/ SetRefused(h) \/ Restart(h) \/ Kill(h) \/ Spawn(h) \/ SpawnFails(h)
Reader(n) == ReaderStarts(n) \/ ReadFrame(n) \/ Publish(n) \/ ReaderFails(n) \/ ReaderEnds(n)

Next ==
  \/ \E h \in Setters : Setter(h)
  \/ \E n \in Children : Die(n) \/ Reader(n)
  \/ Shutdown \/ CtrlC \/ Stop \/ Exit

Spec == Init /\ [][Next]_vars

(* Every thread runs on; each handler takes Decoder.lock once, so whoever  *)
(* waits for it gets it.  Nobody has to move a slider or to press Ctrl-C,  *)
(* no child has to die by itself and no Popen to fail.                     *)
Fairness ==
  /\ \A h \in Setters : WF_vars(Kill(h) \/ Spawn(h) \/ SpawnFails(h))
  /\ \A n \in Children :
       WF_vars(ReaderStarts(n) \/ ReadFrame(n) \/ Publish(n) \/ ReaderEnds(n))
  /\ WF_vars(Shutdown \/ Stop \/ Exit)

FairSpec == Spec /\ Fairness

-----------------------------------------------------------------------------
(* Properties.                                                             *)

(* Every variable has its type.                                            *)
TypeOK ==
  /\ values \in Values /\ extra \in Values /\ channels \in {1, 3}
  /\ setter \in [Setters -> {"idle", "restart", "kill", "spawn", "replied"}]
  /\ flags \in [Setters -> Values]
  /\ gen \in Nat /\ spawned \in Children /\ proc \in BOOLEAN
  /\ child \in [Children -> {"none", "running", "killed", "gone"}]
  /\ runs \in [Children -> Values] /\ bornAt \in [Children -> Nat]
  /\ reader \in [Children -> {"none", "starting", "reading", "encoding", "over", "ended"}]
  /\ sized \in [Children -> {0, 1, 3}]
  /\ dead \in BOOLEAN /\ failed \subseteq Children
  /\ server \in {"serving", "stopping", "stopped", "exited"}

(* "A child exiting during a restart is expected" (Decoder._read): however *)
(* late the reader of an old child comes to its end, the server is not     *)
(* stopped for it.                                                         *)
RestartIsNoDeath == dead => failed # {}

(* The page is "seeded from `values`", which makes a reload "show what the *)
(* decoder is actually running" (do_GET): only the last child spawned ever *)
(* runs, and with no /set in progress it runs the applied values, whatever *)
(* requests have raced.                                                    *)
DecoderRunsValues ==
  \A n \in Children : child[n] = "running" =>
    n = spawned /\ proc /\ (ValuesFree => runs[n] = values)

(* "Stop the server if the decoder dies" (main): a child that died, or     *)
(* whose reader failed, is replaced by a restart or ends the server.       *)
DeathIsNoticed ==
  \A n \in Children :
    (n \in failed /\ n = spawned) ~> (server = "exited" \/ n # spawned \/ ~proc)

(* "The reader is sized for 1-channel frames" (main): the reader of the    *)
(* current child counts on the frames that child writes, although it reads *)
(* Decoder.channels late and without the lock - but for a colour other     *)
(* than zero whose whole part is zero, and then it never does: the child   *)
(* writes one channel, and the reader takes three such frames for one.     *)
CurrentReaderIsSized ==
  \A n \in Children :
    reader[n] \in {"reading", "encoding"} /\ bornAt[n] = gen =>
      (sized[n] = Emits(runs[n]) <=> runs[n][Colour] = 0 \/ ~WholePartIsZero(runs[n][Colour]))

(* "Ctrl-C stops all three" (the module's docstring).  The code breaks it  *)
(* (README.md, Disagreements): no run checks it.                           *)
NoneSurvives == server = "exited" => \A n \in Children : child[n] # "running"
=============================================================================
