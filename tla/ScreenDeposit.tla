--------------------------- MODULE ScreenDeposit ---------------------------
(***************************************************************************)
(* How the Screen (lib/screen.cpp) feeds its deposit backend: the samples  *)
(* of a block write records straight into staging the backend lent         *)
(* (slab_), a flush commits them, and the field boundary, the field        *)
(* callback and the readers each flush, latch, read or fade.               *)
(*                                                                         *)
(* Which samples start a line, wrap the field or are blanked is the        *)
(* signal's doing: any pattern.  A record is the number of its sample.     *)
(***************************************************************************)
EXTENDS CpuDeposit

CONSTANTS
  MaxBlock,   \* the longest block process() is called with
  Prepared,   \* records prepare() reserves; 0: prepare() is skipped
  MaxSplats,  \* bound: records painted
  MaxFields   \* bound: field boundaries

ASSUME ScreenAssumption ==
  /\ MaxBlock \in Nat \ {0} /\ Prepared \in Nat
  /\ MaxSplats \in Nat /\ MaxFields \in Nat

VARIABLES
  be,         \* the backend
  slab,       \* slab_ and slab_n_: where the span lies, its length, its records
  left,       \* samples of the current block not processed yet
  pc,         \* "idle" between calls; inside process(): "sample", "boundary", "rest"
  latched,    \* latch_white_ >= 0
  painted,    \* history: records written
  fields,     \* history: field boundaries passed
  shown,      \* the last frame a reader got, or <<>>
  spanLive    \* the acquired span is valid by the backend's contract

vars == <<be, slab, left, pc, latched, painted, fields, shown, spanLive>>

NoSlab == [block |-> 0, base |-> 0, len |-> 0, n |-> 0]

Init ==
  /\ be = Reserve(Backend0, Prepared)
  /\ slab = NoSlab
  /\ left = 0 /\ pc = "idle"
  /\ latched = FALSE
  /\ painted = 0 /\ fields = 0
  /\ shown = <<>>
  /\ spanLive = FALSE

(* flush(): commit what the slab holds, then drop it.                      *)
Flushed(b, sl) == IF sl.n > 0 THEN Commit(b, sl.n) ELSE b

(* The span acquire(max) returns: the storage after the committed run.     *)
SpanOf(b, max) == [block |-> b.block, base |-> b.size, len |-> max, n |-> 0]

(* A record is stored through the slab.  Storage that has been reallocated *)
(* since is somebody else's: the record is lost.                           *)
Record(b, sl, r) ==
  IF sl.block = b.block THEN Store(b, sl.base + sl.n + 1, r) ELSE b

-----------------------------------------------------------------------------
(* process() is called with the next block.                                *)
Process ==
  /\ pc = "idle"
  /\ \E n \in 1 .. MaxBlock : left' = n
  /\ pc' = "sample"
  /\ UNCHANGED <<be, slab, latched, painted, fields, shown, spanLive>>

(* The sample is the field's retrace: flush, then on_field.                *)
Retrace ==
  /\ pc = "sample" /\ fields < MaxFields
  /\ be' = Flushed(be, slab) /\ slab' = NoSlab
  /\ spanLive' = FALSE
  /\ pc' = "boundary"
  /\ UNCHANGED <<left, latched, painted, fields, shown>>

(* snapshot(): FieldEvent::frame() inside the callback, or a call between  *)
(* blocks.                                                                 *)
Snapshot ==
  /\ pc \in {"boundary", "idle"}
  /\ shown' = <<LiveFrame(Flushed(be, slab))>>
  /\ be' = AfterReadout(Flushed(be, slab)) /\ slab' = NoSlab
  /\ spanLive' = FALSE
  /\ UNCHANGED <<left, pc, latched, painted, fields>>

(* FieldEvent::latch().                                                    *)
LatchBoundary ==
  /\ pc = "boundary"
  /\ be' = LatchNow(Flushed(be, slab)) /\ slab' = NoSlab
  /\ latched' = TRUE
  /\ spanLive' = FALSE
  /\ UNCHANGED <<left, pc, painted, fields, shown>>

(* on_field has returned: the field fades.                                 *)
FieldEnds ==
  /\ pc = "boundary"
  /\ be' = EndField(be)
  /\ fields' = fields + 1
  /\ spanLive' = FALSE
  /\ pc' = "rest"
  /\ UNCHANGED <<slab, left, latched, painted, shown>>

(* The sample goes on: at a line start the slab is flushed, and a sample   *)
(* that is not blanked is recorded, in a new span if the slab is full.     *)
NextSample(b, sl, live) ==
  /\ pc \in {"sample", "rest"}
  /\ left' = left - 1
  /\ pc' = IF left = 1 THEN "idle" ELSE "sample"
  /\ \/ /\ be' = b /\ slab' = sl /\ spanLive' = live   \* blanked
        /\ UNCHANGED painted
     \/ /\ painted < MaxSplats
        /\ painted' = painted + 1
        /\ IF sl.n = sl.len
           THEN LET b2 == Acquire(Flushed(b, sl), left)
                    sl2 == SpanOf(b2, left)
                IN /\ be' = Record(b2, sl2, painted')
                   /\ slab' = [sl2 EXCEPT !.n = 1]
                   /\ spanLive' = TRUE
           ELSE /\ be' = Record(b, sl, painted')
                /\ slab' = [sl EXCEPT !.n = @ + 1]
                /\ spanLive' = live
  /\ UNCHANGED <<latched, fields, shown>>

Sample ==
  \/ NextSample(be, slab, spanLive)
  \/ NextSample(Flushed(be, slab), NoSlab, FALSE)   \* line_start

(* latched_frame(): the live state if nothing was ever latched, else what  *)
(* the backend latched, without a flush.                                   *)
LatchedFrameRead ==
  /\ pc = "idle" /\ latched
  /\ shown' = <<LatchedFrame(be)>>
  /\ be' = AfterReadoutLatched(be)
  /\ spanLive' = FALSE
  /\ UNCHANGED <<slab, left, pc, latched, painted, fields>>

Next ==
  \/ Process \/ Retrace \/ Snapshot \/ LatchBoundary \/ FieldEnds \/ Sample
  \/ LatchedFrameRead

Spec == Init /\ [][Next]_vars

-----------------------------------------------------------------------------
(* Properties.                                                             *)

(* Every variable has its type.                                            *)
TypeOK ==
  /\ be.size \in 0 .. Capacity(be)
  /\ be.latch \in {"None", "Live", "Copied"} /\ be.owed \in BOOLEAN
  /\ slab.n \in 0 .. slab.len
  /\ left \in 0 .. MaxBlock
  /\ pc \in {"idle", "sample", "boundary", "rest"}
  /\ latched \in BOOLEAN /\ spanLive \in BOOLEAN
  /\ painted \in 0 .. MaxSplats /\ fields \in 0 .. MaxFields

(* The lazy, batched, span-staged deposit shows every reader what an eager *)
(* phosphor would: every record once, in sample order, before its field's  *)
(* fade; latched frames are the boundary they were latched at.  That takes *)
(* a slab in use to lie right after the committed run of the storage the   *)
(* backend has now, also across process() calls.                           *)
Eager == INSTANCE Phosphor WITH
  lit     <- Light(Flushed(be, slab)),
  latched <- LatchedLight(be)
ShowsEagerPhosphor == Eager!Spec

(* flush() "runs at every line start, at the field boundary, and lazily on *)
(* any read" (screen.hpp, the comment on slab_), and the span is           *)
(* "invalidated by commit(), end_field(), latch(), readout() and           *)
(* readout_latched()" (deposit_backend.hpp, DepositBackend::acquire): the  *)
(* Screen keeps no span beyond the call that invalidates it.  The code     *)
(* breaks it (README.md, Disagreements): no run checks it.                 *)
NoInvalidSpanKept == slab.len > 0 => spanLive
=============================================================================
