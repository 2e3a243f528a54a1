----------------------------- MODULE CpuDeposit -----------------------------
(***************************************************************************)
(* CpuDepositBackend (lib/cpu_deposit.cpp): committed records wait in      *)
(* pending_, a field's fade is owed, and both land only when the phosphor  *)
(* is needed; a latch is the live buffer until land() has to move it on.   *)
(*                                                                         *)
(* The backend's state is one record, its operations functions of it: the  *)
(* Screen's handlers call several of them in one step.                     *)
(***************************************************************************)
EXTENDS Integers, Sequences

CONSTANTS
  Fade,        \* a field's multiply; the splats are numbers
  Junk,        \* what a slot of pending_ holds when its contents are unspecified
  MinGrowth    \* records the first acquire() makes room for (1 << 16)

ASSUME CpuDepositAssumption ==
  /\ Fade \notin Nat /\ Junk \notin Nat /\ Fade # Junk
  /\ MinGrowth \in Nat \ {0}

JunkSlots(n) == [i \in 1 .. n |-> Junk]

Backend0 ==
  [bright   |-> <<>>,     \* bright_: what has landed
   owed     |-> FALSE,    \* owed_decay_ is set
   latch    |-> "None",   \* latch_
   copied   |-> <<>>,     \* latch_bright_
   mem      |-> <<>>,     \* pending_'s storage, up to its capacity
   size     |-> 0,        \* pending_.size(): the committed records
   block    |-> 0]        \* which allocation the storage is

Capacity(be) == Len(be.mem)
Committed(be) == SubSeq(be.mem, 1, be.size)

(* Buffer::reserve: grow into a new allocation, keeping what is committed. *)
Reserve(be, n) ==
  IF n <= Capacity(be) THEN be
  ELSE [be EXCEPT !.mem = Committed(be) \o JunkSlots(n - be.size),
                  !.block = @ + 1]

(* acquire(max): the storage beyond the committed run, grown if needed.    *)
Acquire(be, max) ==
  LET need == be.size + max
      twice == IF Capacity(be) > 0 THEN 2 * Capacity(be) ELSE MinGrowth
  IN IF need > Capacity(be) THEN Reserve(be, IF need > twice THEN need ELSE twice) ELSE be

(* The caller stores record r in slot i of the storage.                    *)
Store(be, i, r) == [be EXCEPT !.mem[i] = r]

Commit(be, n) == [be EXCEPT !.size = @ + n]

Debts(be) == IF be.owed THEN <<Fade>> ELSE <<>>

(* X_... is X with a plausible bug (README.md says which property sees it):*)
(* here the records land under the fade that came before them.             *)
Land_RecordsFirst(be) ==
  IF ~be.owed /\ be.size = 0 THEN be
  ELSE [be EXCEPT !.latch  = IF @ = "Live" THEN "Copied" ELSE @,
                  !.copied = IF be.latch = "Live" THEN be.bright ELSE @,
                  !.bright = @ \o Committed(be) \o Debts(be),
                  !.owed   = FALSE,
                  !.mem    = JunkSlots(Capacity(be)),
                  !.size   = 0]

(* land(): keep a live latch aside, then the owed fade, then the records.  *)
Land(be) ==
  IF ~be.owed /\ be.size = 0 THEN be
  ELSE [be EXCEPT !.latch  = IF @ = "Live" THEN "Copied" ELSE @,
                  !.copied = IF be.latch = "Live" THEN be.bright ELSE @,
                  !.bright = @ \o Debts(be) \o Committed(be),
                  !.owed   = FALSE,
                  !.mem    = JunkSlots(Capacity(be)),
                  !.size   = 0]

EndField(be) == [Land(be) EXCEPT !.owed = TRUE]

(* The old latch is dropped before land() would copy it.                   *)
LatchNow(be) == [Land([be EXCEPT !.latch = "None"]) EXCEPT !.latch = "Live"]

(* readout lands first, also when readout_latched falls back to it.        *)
AfterReadout(be) == Land(be)
AfterReadoutLatched(be) == IF be.latch = "None" THEN Land(be) ELSE be

(* The light quantise() is given.                                          *)
LiveFrame(be) == Land(be).bright
LatchedFrame(be) ==
  CASE be.latch = "None"   -> LiveFrame(be)
    [] be.latch = "Live"   -> be.bright
    [] be.latch = "Copied" -> be.copied

-----------------------------------------------------------------------------
(* The light a backend state stands for, with everything owed landed.      *)
Light(be) == be.bright \o Debts(be) \o Committed(be)
LatchedLight(be) == IF be.latch = "None" THEN <<>> ELSE <<LatchedFrame(be)>>
=============================================================================
