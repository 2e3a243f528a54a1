--------------------------- MODULE LiveViewProofs ---------------------------
(***************************************************************************)
(* Proofs about LiveView, for any handlers, requests, knobs and any number *)
(* of children.                                                            *)
(***************************************************************************)
EXTENDS LiveView, TLAPS

HoldsValues(h)  == setter[h] \in {"restart", "kill", "spawn"}
HoldsDecoder(h) == setter[h] \in {"kill", "spawn"}

(* values_lock is held by one handler at most, and what it restarts with   *)
(* are the applied values: nobody applied others in between.               *)
ValuesLocked ==
  /\ \A g, h \in Setters : HoldsValues(g) /\ HoldsValues(h) => g = h
  /\ \A h \in Setters : HoldsValues(h) => flags[h] = values

(* The flags of the next child are the applied values, except while a      *)
(* handler waits for Decoder.lock; the frame size always goes with them.   *)
FlagsFollow ==
  /\ channels = Channels(extra)
  /\ ValuesFree => extra = values
  /\ \A h \in Setters : HoldsDecoder(h) => extra = values

(* Nothing runs but self.proc, and, outside a restart, with those flags.   *)
LastChildRuns ==
  /\ \A n \in Children : child[n] = "running" => n = spawned /\ proc
  /\ \A h \in Setters : setter[h] = "spawn" => ~proc
  /\ DecoderFree /\ proc => runs[spawned] = extra

(* gen separates the children: none is of a later one, and during a        *)
(* restart, as well as once it has been killed, each is of an earlier one. *)
GenSeparates ==
  /\ \A n \in Children : bornAt[n] <= gen
  /\ \A n \in Children : child[n] = "killed" => bornAt[n] < gen
  /\ \A h \in Setters : HoldsDecoder(h) => \A n \in Children : bornAt[n] < gen

(* A reader of the current gen reads a child that has the current flags,   *)
(* and when it or its child ends, nobody asked for it.                     *)
CurrentReader ==
  \A n \in Children : bornAt[n] = gen =>
    /\ child[n] = "gone" => n \in failed
    /\ reader[n] = "over" => n \in failed
    /\ reader[n] # "none" => runs[n] = extra

(* Its reader counts on the channels the server makes of those values.     *)
SizedByServer ==
  \A n \in Children :
    reader[n] \in {"reading", "encoding"} /\ bornAt[n] = gen => sized[n] = Channels(runs[n])

IInv ==
  /\ TypeOK /\ ValuesLocked /\ FlagsFollow /\ LastChildRuns
  /\ GenSeparates /\ CurrentReader /\ SizedByServer /\ RestartIsNoDeath
-----------------------------------------------------------------------------
LEMMA InitIInv == Init => IInv
<1> SUFFICES ASSUME Init PROVE IInv
  OBVIOUS
<1>1. TypeOK
  <2>1. 1 \in Children
    BY LiveViewAssumption DEF Children
  <2>2. values \in Values /\ extra \in Values /\ channels \in {1, 3}
    BY LiveViewAssumption DEF Init, Values, Channels
  <2> QED
    BY <2>1, <2>2 DEF Init, TypeOK
<1>2. ValuesLocked
  BY DEF Init, ValuesLocked, HoldsValues
<1>3. FlagsFollow
  BY DEF Init, FlagsFollow, HoldsDecoder
<1>4. LastChildRuns
  BY LiveViewAssumption DEF Init, LastChildRuns, Children
<1>5. GenSeparates
  BY DEF Init, GenSeparates, HoldsDecoder
<1>6. CurrentReader
  BY DEF Init, CurrentReader
<1>7. SizedByServer
  BY DEF Init, SizedByServer
<1>8. RestartIsNoDeath
  BY DEF Init, RestartIsNoDeath
<1> QED
  BY <1>1, <1>2, <1>3, <1>4, <1>5, <1>6, <1>7, <1>8 DEF IInv

(* One lemma per action.  The handlers of /set:                             *)
LEMMA SetInv ==
  ASSUME IInv, NEW h \in Setters, Set(h)
  PROVE  IInv'
<1> USE DEF IInv, Set, decVars, childVars, readVars, Goto, ValuesFree,
            DecoderFree, Channels
<1>1. TypeOK'
  <2>1. values' \in Values
    BY LiveViewAssumption DEF TypeOK, Values, Merged
  <2> QED
    BY <2>1 DEF TypeOK
<1>2. ValuesLocked'
  BY DEF ValuesLocked, HoldsValues, TypeOK
<1>3. FlagsFollow'
  BY DEF FlagsFollow, ValuesLocked, HoldsDecoder, HoldsValues, TypeOK
<1>4. LastChildRuns'
  BY DEF LastChildRuns, FlagsFollow, ValuesLocked, HoldsDecoder, HoldsValues,
         TypeOK
<1>5. GenSeparates'
  BY DEF GenSeparates, ValuesLocked, HoldsDecoder, HoldsValues, TypeOK
<1>6. CurrentReader'
  BY DEF CurrentReader, GenSeparates, HoldsDecoder, TypeOK
<1>7. SizedByServer'
  BY DEF SizedByServer, CurrentReader, FlagsFollow, GenSeparates,
         HoldsDecoder, TypeOK
<1>8. RestartIsNoDeath'
  BY DEF RestartIsNoDeath, CurrentReader, TypeOK
<1> QED
  BY <1>1, <1>2, <1>3, <1>4, <1>5, <1>6, <1>7, <1>8

LEMMA SetRefusedInv ==
  ASSUME IInv, NEW h \in Setters, SetRefused(h)
  PROVE  IInv'
<1> USE DEF IInv, SetRefused, decVars, childVars, readVars, Goto, ValuesFree,
            DecoderFree
<1>1. TypeOK'
  BY DEF TypeOK
<1>2. ValuesLocked'
  BY DEF ValuesLocked, HoldsValues, TypeOK
<1>3. FlagsFollow'
  BY DEF FlagsFollow, ValuesLocked, HoldsDecoder, HoldsValues, TypeOK
<1>4. LastChildRuns'
  BY DEF LastChildRuns, HoldsDecoder, TypeOK
<1>5. GenSeparates'
  BY DEF GenSeparates, HoldsDecoder, TypeOK
<1>6. CurrentReader' /\ SizedByServer' /\ RestartIsNoDeath'
  BY DEF CurrentReader, SizedByServer, RestartIsNoDeath
<1> QED
  BY <1>1, <1>2, <1>3, <1>4, <1>5, <1>6

LEMMA RestartInv ==
  ASSUME IInv, NEW h \in Setters, Restart(h)
  PROVE  IInv'
<1> USE DEF IInv, Restart, childVars, readVars, Goto, ValuesFree, DecoderFree,
            Channels
<1>1. TypeOK'
  BY LiveViewAssumption DEF TypeOK, Values, Children
<1>2. ValuesLocked'
  BY DEF ValuesLocked, HoldsValues, TypeOK
<1>3. FlagsFollow'
  BY DEF FlagsFollow, ValuesLocked, HoldsDecoder, HoldsValues, TypeOK
<1>4. LastChildRuns'
  BY DEF LastChildRuns, FlagsFollow, ValuesLocked, HoldsDecoder, HoldsValues,
         TypeOK
<1>5. GenSeparates'
  BY DEF GenSeparates, ValuesLocked, HoldsDecoder, HoldsValues, TypeOK
<1>6. CurrentReader'
  BY DEF CurrentReader, GenSeparates, HoldsDecoder, TypeOK
<1>7. SizedByServer'
  BY DEF SizedByServer, CurrentReader, FlagsFollow, GenSeparates,
         HoldsDecoder, TypeOK
<1>8. RestartIsNoDeath'
  BY DEF RestartIsNoDeath, CurrentReader, TypeOK
<1> QED
  BY <1>1, <1>2, <1>3, <1>4, <1>5, <1>6, <1>7, <1>8

LEMMA KillInv ==
  ASSUME IInv, NEW h \in Setters, Kill(h)
  PROVE  IInv'
<1> USE DEF IInv, Kill, KillChild, decVars, readVars, Goto, ValuesFree,
            DecoderFree
<1>1. TypeOK'
  BY LiveViewAssumption DEF TypeOK, Values, Children
<1>2. ValuesLocked'
  BY DEF ValuesLocked, HoldsValues, TypeOK
<1>3. FlagsFollow'
  BY DEF FlagsFollow, ValuesLocked, HoldsDecoder, HoldsValues, TypeOK
<1>4. LastChildRuns'
  BY DEF LastChildRuns, FlagsFollow, ValuesLocked, HoldsDecoder, HoldsValues,
         TypeOK
<1>5. GenSeparates'
  BY DEF GenSeparates, ValuesLocked, HoldsDecoder, HoldsValues, TypeOK
<1>6. CurrentReader'
  BY DEF CurrentReader, GenSeparates, HoldsDecoder, TypeOK
<1>7. SizedByServer'
  BY DEF SizedByServer, CurrentReader, FlagsFollow, GenSeparates,
         HoldsDecoder, TypeOK
<1>8. RestartIsNoDeath'
  BY DEF RestartIsNoDeath, CurrentReader, TypeOK
<1> QED
  BY <1>1, <1>2, <1>3, <1>4, <1>5, <1>6, <1>7, <1>8

LEMMA SpawnInv ==
  ASSUME IInv, NEW h \in Setters, Spawn(h)
  PROVE  IInv'
<1> USE DEF IInv, Spawn, decVars, Goto, ValuesFree, DecoderFree, Children
<1>1. TypeOK'
  BY LiveViewAssumption DEF TypeOK, Values, Children
<1>2. ValuesLocked'
  BY DEF ValuesLocked, HoldsValues, TypeOK
<1>3. FlagsFollow'
  BY DEF FlagsFollow, ValuesLocked, HoldsDecoder, HoldsValues, TypeOK
<1>4. LastChildRuns'
  <2>1. \A n \in Children : child[n] # "running"
    BY DEF LastChildRuns
  <2>2. spawned' \in Children
    BY LiveViewAssumption DEF TypeOK
  <2>3. runs'[spawned'] = extra'
    BY <2>2 DEF TypeOK
  <2>4. proc'
    OBVIOUS
  <2>5. \A n \in Children : child'[n] = "running" => n = spawned'
    BY <2>1 DEF TypeOK
  <2>6. \A g \in Setters : setter'[g] # "spawn"
    BY DEF ValuesLocked, HoldsValues, TypeOK
  <2> QED
    BY <2>3, <2>4, <2>5, <2>6 DEF LastChildRuns
<1>5. GenSeparates'
  BY DEF GenSeparates, ValuesLocked, HoldsDecoder, HoldsValues, TypeOK
<1>6. CurrentReader'
  BY DEF CurrentReader, GenSeparates, HoldsDecoder, TypeOK
<1>7. SizedByServer'
  BY DEF SizedByServer, CurrentReader, FlagsFollow, GenSeparates,
         HoldsDecoder, TypeOK
<1>8. RestartIsNoDeath'
  BY DEF RestartIsNoDeath, CurrentReader, TypeOK
<1> QED
  BY <1>1, <1>2, <1>3, <1>4, <1>5, <1>6, <1>7, <1>8

LEMMA SpawnFailsInv ==
  ASSUME IInv, NEW h \in Setters, SpawnFails(h)
  PROVE  IInv'
<1> USE DEF IInv, SpawnFails, decVars, childVars, readVars, Goto, ValuesFree,
            DecoderFree
<1>1. TypeOK'
  BY LiveViewAssumption DEF TypeOK, Values, Children
<1>2. ValuesLocked'
  BY DEF ValuesLocked, HoldsValues, TypeOK
<1>3. FlagsFollow'
  BY DEF FlagsFollow, ValuesLocked, HoldsDecoder, HoldsValues, TypeOK
<1>4. LastChildRuns'
  BY DEF LastChildRuns, FlagsFollow, ValuesLocked, HoldsDecoder, HoldsValues,
         TypeOK
<1>5. GenSeparates'
  BY DEF GenSeparates, ValuesLocked, HoldsDecoder, HoldsValues, TypeOK
<1>6. CurrentReader'
  BY DEF CurrentReader, GenSeparates, HoldsDecoder, TypeOK
<1>7. SizedByServer'
  BY DEF SizedByServer, CurrentReader, FlagsFollow, GenSeparates,
         HoldsDecoder, TypeOK
<1>8. RestartIsNoDeath'
  BY DEF RestartIsNoDeath, CurrentReader, TypeOK
<1> QED
  BY <1>1, <1>2, <1>3, <1>4, <1>5, <1>6, <1>7, <1>8

(* The children and their readers:                                         *)
LEMMA DieInv ==
  ASSUME IInv, NEW n \in Children, Die(n)
  PROVE  IInv'
<1> USE DEF IInv, Die, setVars, decVars, childVars, readVars, ValuesFree,
            DecoderFree
<1>1. TypeOK'
  BY LiveViewAssumption DEF TypeOK, Values, Children
<1>2. ValuesLocked'
  BY DEF ValuesLocked, HoldsValues, TypeOK
<1>3. FlagsFollow'
  BY DEF FlagsFollow, ValuesLocked, HoldsDecoder, HoldsValues, TypeOK
<1>4. LastChildRuns'
  BY DEF LastChildRuns, FlagsFollow, ValuesLocked, HoldsDecoder, HoldsValues,
         TypeOK
<1>5. GenSeparates'
  BY DEF GenSeparates, ValuesLocked, HoldsDecoder, HoldsValues, TypeOK
<1>6. CurrentReader'
  BY DEF CurrentReader, GenSeparates, HoldsDecoder, TypeOK
<1>7. SizedByServer'
  BY DEF SizedByServer, CurrentReader, FlagsFollow, GenSeparates,
         HoldsDecoder, TypeOK
<1>8. RestartIsNoDeath'
  BY DEF RestartIsNoDeath, CurrentReader, TypeOK
<1> QED
  BY <1>1, <1>2, <1>3, <1>4, <1>5, <1>6, <1>7, <1>8

LEMMA ReaderStartsInv ==
  ASSUME IInv, NEW n \in Children, ReaderStarts(n)
  PROVE  IInv'
<1> USE DEF IInv, ReaderStarts, setVars, decVars, childVars, readVars,
            ValuesFree, DecoderFree, Channels
<1>1. TypeOK'
  BY LiveViewAssumption DEF TypeOK, Values, Children
<1>2. ValuesLocked'
  BY DEF ValuesLocked, HoldsValues, TypeOK
<1>3. FlagsFollow'
  BY DEF FlagsFollow, ValuesLocked, HoldsDecoder, HoldsValues, TypeOK
<1>4. LastChildRuns'
  BY DEF LastChildRuns, FlagsFollow, ValuesLocked, HoldsDecoder, HoldsValues,
         TypeOK
<1>5. GenSeparates'
  BY DEF GenSeparates, ValuesLocked, HoldsDecoder, HoldsValues, TypeOK
<1>6. CurrentReader'
  BY DEF CurrentReader, GenSeparates, HoldsDecoder, TypeOK
<1>7. SizedByServer'
  BY DEF SizedByServer, CurrentReader, FlagsFollow, GenSeparates,
         HoldsDecoder, TypeOK
<1>8. RestartIsNoDeath'
  BY DEF RestartIsNoDeath, CurrentReader, TypeOK
<1> QED
  BY <1>1, <1>2, <1>3, <1>4, <1>5, <1>6, <1>7, <1>8

LEMMA ReadFrameInv ==
  ASSUME IInv, NEW n \in Children, ReadFrame(n)
  PROVE  IInv'
<1> USE DEF IInv, ReadFrame, setVars, decVars, childVars, readVars, ValuesFree,
            DecoderFree
<1>1. TypeOK'
  BY LiveViewAssumption DEF TypeOK, Values, Children
<1>2. ValuesLocked'
  BY DEF ValuesLocked, HoldsValues, TypeOK
<1>3. FlagsFollow'
  BY DEF FlagsFollow, ValuesLocked, HoldsDecoder, HoldsValues, TypeOK
<1>4. LastChildRuns'
  BY DEF LastChildRuns, FlagsFollow, ValuesLocked, HoldsDecoder, HoldsValues,
         TypeOK
<1>5. GenSeparates'
  BY DEF GenSeparates, ValuesLocked, HoldsDecoder, HoldsValues, TypeOK
<1>6. CurrentReader'
  BY DEF CurrentReader, GenSeparates, HoldsDecoder, TypeOK
<1>7. SizedByServer'
  BY DEF SizedByServer, CurrentReader, FlagsFollow, GenSeparates,
         HoldsDecoder, TypeOK
<1>8. RestartIsNoDeath'
  BY DEF RestartIsNoDeath, CurrentReader, TypeOK
<1> QED
  BY <1>1, <1>2, <1>3, <1>4, <1>5, <1>6, <1>7, <1>8

LEMMA PublishInv ==
  ASSUME IInv, NEW n \in Children, Publish(n)
  PROVE  IInv'
<1> USE DEF IInv, Publish, setVars, decVars, childVars, readVars, ValuesFree,
            DecoderFree
<1>1. TypeOK'
  BY LiveViewAssumption DEF TypeOK, Values, Children
<1>2. ValuesLocked'
  BY DEF ValuesLocked, HoldsValues, TypeOK
<1>3. FlagsFollow'
  BY DEF FlagsFollow, ValuesLocked, HoldsDecoder, HoldsValues, TypeOK
<1>4. LastChildRuns'
  BY DEF LastChildRuns, FlagsFollow, ValuesLocked, HoldsDecoder, HoldsValues,
         TypeOK
<1>5. GenSeparates'
  BY DEF GenSeparates, ValuesLocked, HoldsDecoder, HoldsValues, TypeOK
<1>6. CurrentReader'
  BY DEF CurrentReader, GenSeparates, HoldsDecoder, TypeOK
<1>7. SizedByServer'
  BY DEF SizedByServer, CurrentReader, FlagsFollow, GenSeparates,
         HoldsDecoder, TypeOK
<1>8. RestartIsNoDeath'
  BY DEF RestartIsNoDeath, CurrentReader, TypeOK
<1> QED
  BY <1>1, <1>2, <1>3, <1>4, <1>5, <1>6, <1>7, <1>8

LEMMA ReaderFailsInv ==
  ASSUME IInv, NEW n \in Children, ReaderFails(n)
  PROVE  IInv'
<1> USE DEF IInv, ReaderFails, setVars, decVars, childVars, readVars,
            ValuesFree, DecoderFree
<1>1. TypeOK'
  BY LiveViewAssumption DEF TypeOK, Values, Children
<1>2. ValuesLocked'
  BY DEF ValuesLocked, HoldsValues, TypeOK
<1>3. FlagsFollow'
  BY DEF FlagsFollow, ValuesLocked, HoldsDecoder, HoldsValues, TypeOK
<1>4. LastChildRuns'
  BY DEF LastChildRuns, FlagsFollow, ValuesLocked, HoldsDecoder, HoldsValues,
         TypeOK
<1>5. GenSeparates'
  BY DEF GenSeparates, ValuesLocked, HoldsDecoder, HoldsValues, TypeOK
<1>6. CurrentReader'
  BY DEF CurrentReader, GenSeparates, HoldsDecoder, TypeOK
<1>7. SizedByServer'
  BY DEF SizedByServer, CurrentReader, FlagsFollow, GenSeparates,
         HoldsDecoder, TypeOK
<1>8. RestartIsNoDeath'
  BY DEF RestartIsNoDeath, CurrentReader, TypeOK
<1> QED
  BY <1>1, <1>2, <1>3, <1>4, <1>5, <1>6, <1>7, <1>8

LEMMA ReaderEndsInv ==
  ASSUME IInv, NEW n \in Children, ReaderEnds(n)
  PROVE  IInv'
<1> USE DEF IInv, ReaderEnds, setVars, decVars, childVars, readVars,
            ValuesFree, DecoderFree
<1>1. TypeOK'
  BY LiveViewAssumption DEF TypeOK, Values, Children
<1>2. ValuesLocked'
  BY DEF ValuesLocked, HoldsValues, TypeOK
<1>3. FlagsFollow'
  BY DEF FlagsFollow, ValuesLocked, HoldsDecoder, HoldsValues, TypeOK
<1>4. LastChildRuns'
  BY DEF LastChildRuns, FlagsFollow, ValuesLocked, HoldsDecoder, HoldsValues,
         TypeOK
<1>5. GenSeparates'
  BY DEF GenSeparates, ValuesLocked, HoldsDecoder, HoldsValues, TypeOK
<1>6. CurrentReader'
  BY DEF CurrentReader, GenSeparates, HoldsDecoder, TypeOK
<1>7. SizedByServer'
  BY DEF SizedByServer, CurrentReader, FlagsFollow, GenSeparates,
         HoldsDecoder, TypeOK
<1>8. RestartIsNoDeath'
  BY DEF RestartIsNoDeath, CurrentReader, TypeOK
<1> QED
  BY <1>1, <1>2, <1>3, <1>4, <1>5, <1>6, <1>7, <1>8

(* The main thread:                                                        *)
LEMMA StopInv ==
  ASSUME IInv, Stop
  PROVE  IInv'
<1> USE DEF IInv, Stop, setVars, decVars, childVars, readVars, KillChild,
            ValuesFree, DecoderFree
<1>1. TypeOK'
  <2>1. child' \in [Children -> {"none", "running", "killed", "gone"}]
    BY DEF TypeOK
  <2>2. gen' \in Nat
    BY DEF TypeOK
  <2>3. proc' \in BOOLEAN
    OBVIOUS
  <2> QED
    BY <2>1, <2>2, <2>3 DEF TypeOK
<1>2. ValuesLocked'
  BY DEF ValuesLocked, HoldsValues, TypeOK
<1>3. FlagsFollow'
  BY DEF FlagsFollow, ValuesLocked, HoldsDecoder, HoldsValues, TypeOK
<1>4. LastChildRuns'
  BY DEF LastChildRuns, FlagsFollow, ValuesLocked, HoldsDecoder, HoldsValues,
         TypeOK
<1>5. GenSeparates'
  BY DEF GenSeparates, ValuesLocked, HoldsDecoder, HoldsValues, TypeOK
<1>6. CurrentReader'
  BY DEF CurrentReader, GenSeparates, HoldsDecoder, TypeOK
<1>7. SizedByServer'
  BY DEF SizedByServer, CurrentReader, FlagsFollow, GenSeparates,
         HoldsDecoder, TypeOK
<1>8. RestartIsNoDeath'
  BY DEF RestartIsNoDeath, CurrentReader, TypeOK
<1> QED
  BY <1>1, <1>2, <1>3, <1>4, <1>5, <1>6, <1>7, <1>8

(* Nothing else the server does touches what the invariant is about.       *)
LEMMA UnchangedInv ==
  ASSUME IInv, UNCHANGED <<setVars, decVars, childVars, readVars, failed>>,
         server' \in {"serving", "stopping", "stopped", "exited"}
  PROVE  IInv'
<1> USE DEF IInv, setVars, decVars, childVars, readVars
<1>1. TypeOK'
  BY DEF TypeOK
<1>2. ValuesLocked' /\ FlagsFollow'
  BY DEF ValuesLocked, FlagsFollow, HoldsValues, HoldsDecoder, ValuesFree
<1>3. LastChildRuns' /\ GenSeparates'
  BY DEF LastChildRuns, GenSeparates, HoldsDecoder, DecoderFree
<1>4. CurrentReader' /\ SizedByServer' /\ RestartIsNoDeath'
  BY DEF CurrentReader, SizedByServer, RestartIsNoDeath
<1> QED
  BY <1>1, <1>2, <1>3, <1>4

LEMMA NextIInv == IInv /\ [Next]_vars => IInv'
<1> SUFFICES ASSUME IInv, [Next]_vars PROVE IInv'
  OBVIOUS
<1>1. ASSUME NEW h \in Setters, Setter(h) PROVE IInv'
  BY <1>1, SetInv, SetRefusedInv, RestartInv, KillInv, SpawnInv, SpawnFailsInv DEF Setter
<1>2. ASSUME NEW n \in Children, Die(n) \/ Reader(n) PROVE IInv'
  BY <1>2, DieInv, ReaderStartsInv, ReadFrameInv, PublishInv, ReaderFailsInv, ReaderEndsInv
     DEF Reader
<1>3. CASE Shutdown \/ CtrlC \/ Exit
  BY <1>3, UnchangedInv DEF Shutdown, CtrlC, Exit
<1>4. CASE Stop
  BY <1>4, StopInv
<1>5. CASE UNCHANGED vars
  BY <1>5, UnchangedInv DEF vars, IInv, TypeOK
<1> QED
  BY <1>1, <1>2, <1>3, <1>4, <1>5 DEF Next

(* The inductive invariant holds in every state of every behaviour.        *)
THEOREM Invariant == Spec => []IInv
  BY InitIInv, NextIInv, PTL DEF Spec

(* Every variable of LiveView keeps its type.                              *)
THEOREM TypeCorrect == Spec => []TypeOK
<1>1. IInv => TypeOK
  BY DEF IInv
<1> QED
  BY <1>1, Invariant, PTL

(* However many /set requests race and however late the readers of the old *)
(* children come to their end, Decoder.dead is set only when a child died, *)
(* or its reader failed, unasked.                                          *)
THEOREM NoFalseDeath == Spec => []RestartIsNoDeath
<1>1. IInv => RestartIsNoDeath
  BY DEF IInv
<1> QED
  BY <1>1, Invariant, PTL

(* Only the child of self.proc runs, and when no handler is inside /set it *)
(* runs with the values the page shows.                                    *)
THEOREM PageShowsDecoder == Spec => []DecoderRunsValues
<1>1. IInv => DecoderRunsValues
  BY DEF IInv, DecoderRunsValues, LastChildRuns, FlagsFollow, ValuesFree,
         DecoderFree
<1> QED
  BY <1>1, Invariant, PTL

(* Whatever the requests and however they race, the reader of the current  *)
(* gen counts on what its child writes, although it reads Decoder.channels *)
(* late and without the lock - unless the colour has a whole part of zero  *)
(* and is not zero, and then it does not.                                  *)
THEOREM FramesAreWhole == Spec => []CurrentReaderIsSized
<1>1. ASSUME IInv PROVE CurrentReaderIsSized
  <2>1. \A n \in Children : runs[n][Colour] \in Int
    BY <1>1, LiveViewAssumption DEF IInv, TypeOK, Values
  <2> QED
    BY <1>1, <2>1 DEF IInv, SizedByServer, CurrentReaderIsSized, Channels, Emits, WholePartIsZero
<1> QED
  BY <1>1, Invariant, PTL
=============================================================================
