--------------------------- MODULE CardPumpProofs ---------------------------
(***************************************************************************)
(* Proofs about CardPump, for any handlers, chunk and pipe sizes, lengths  *)
(* of recordings, and any number of children.                              *)
(***************************************************************************)
EXTENDS CardPump, SequenceTheorems, TLAPS

Total == Cycle * Parts

(* What TypeOK leaves to the histories.                                    *)
Types ==
  /\ TypeOK
  /\ pipe \in [Gens -> Seq(Pieces)] /\ file \in [Recorders -> Seq(Pieces)]
  /\ asked \in [Recorders -> Nat]
  /\ first % Parts = 0

(* A child that has been spawned and not attached is newer than the sink,  *)
(* and only its pipe is open besides.                                      *)
Owned ==
  /\ SinkIsOwned
  /\ sink <= gen
  /\ restarter = "spawn" => gen < MaxGens
  /\ restarter = "attach" => gen \in open /\ sink < gen

-----------------------------------------------------------------------------
(* y may be the piece a child gets after x.                                *)
Follows(x, y) == IF x = NoPiece THEN y % Parts = 0 ELSE y = After(x)

(* The last piece given to child g, and the next one the pump will write.  *)
LastGiven(g) == IF pipe[g] = <<>> THEN got[g] ELSE pipe[g][Len(pipe[g])]
Upcoming == (IF pump \in {"lock", "write"} THEN first + Parts - left ELSE first + Parts) % Total

(* What is in the pipes continues what the children have read, and the     *)
(* pump continues what is in the sink's pipe.                              *)
Streams ==
  /\ pump = "lock" => left = Parts
  /\ \A g \in Gens : g > gen \/ (g = gen /\ restarter = "attach") =>
       pipe[g] = <<>> /\ got[g] = NoPiece
  /\ \A g \in Gens : \A i \in 1 .. Len(pipe[g]) :
       Follows(IF i = 1 THEN got[g] ELSE pipe[g][i - 1], pipe[g][i])
  /\ (sink # NoSink /\ child[sink] # "gone" /\ pump # "ended") =>
       Follows(LastGiven(sink), Upcoming)

-----------------------------------------------------------------------------
(* The pump is to fill the file of handler h.                              *)
HeldBy(h) == rec # NoRec /\ rec.who = h

(* The file of h holds consecutive pieces, from a chunk's start on.        *)
Contiguous(h) ==
  /\ \A i \in 1 .. Len(file[h]) : file[h][i] = (file[h][1] + (i - 1)) % Total
  /\ file[h] # <<>> => file[h][1] % Parts = 0

(* The chunk the file of h is to be continued with.                        *)
TeeNext == IF pump \in {"lock", "write", "tee"} THEN first ELSE (first + Parts) % Total

InProgress(h) ==
  /\ Len(file[h]) + rec.left = asked[h]
  /\ file[h] # <<>> /\ pump # "ended" => TeeNext = (file[h][1] + Len(file[h])) % Total

Complete(h) == ~HeldBy(h) /\ Len(file[h]) = asked[h]

Records ==
  /\ rec # NoRec => ~done
  /\ \A h \in Recorders :
       /\ Contiguous(h)
       /\ HeldBy(h) => InProgress(h)
       /\ recorder[h] = "idle" => file[h] = <<>> /\ ~HeldBy(h)
       /\ recorder[h] \in {"begun", "waiting"} => HeldBy(h) \/ Complete(h)
       /\ recorder[h] = "notified" \/ reply[h] = "ok" => Complete(h)
       /\ recorder[h] # "replied" => reply[h] = "none"

IInv == Types /\ Owned /\ Streams /\ Records
-----------------------------------------------------------------------------
(* Division with remainder, and the two laws of % the numbering needs.     *)
LEMMA DivMod ==
  ASSUME NEW a \in Nat, NEW n \in Nat \ {0}
  PROVE  \E q \in Nat, r \in 0 .. n - 1 : a = n * q + r /\ a % n = r
<1>1. a % n \in 0 .. n - 1 /\ a \div n \in Nat /\ a = n * (a \div n) + (a % n)
  OBVIOUS
<1> QED
  BY <1>1

LEMMA ModUnique ==
  ASSUME NEW a \in Nat, NEW n \in Nat \ {0}, NEW q \in Nat, NEW r \in 0 .. n - 1,
         a = n * q + r
  PROVE  a % n = r
  OBVIOUS

LEMMA MultipleMod ==
  ASSUME NEW n \in Nat \ {0}, NEW q \in Nat
  PROVE  n * q \in Nat /\ (n * q) % n = 0
  OBVIOUS

LEMMA ModAdd ==
  ASSUME NEW a \in Nat, NEW b \in Nat, NEW n \in Nat \ {0}
  PROVE  ((a % n) + b) % n = (a + b) % n
<1>1. PICK p \in Nat, s \in 0 .. n - 1 : a = n * p + s /\ a % n = s
  BY DivMod
<1>2. s + b \in Nat
  OBVIOUS
<1>3. PICK q \in Nat, r \in 0 .. n - 1 : s + b = n * q + r /\ (s + b) % n = r
  BY <1>2, DivMod
<1>4. a + b = n * (p + q) + r /\ p + q \in Nat /\ a + b \in Nat
  BY <1>1, <1>3
<1>5. (a + b) % n = r
  BY <1>4, ModUnique
<1> QED
  BY <1>1, <1>3, <1>5

LEMMA ModMod ==
  ASSUME NEW a \in Nat, NEW p \in Nat \ {0}, NEW c \in Nat \ {0}
  PROVE  (a % (c * p)) % p = a % p
<1>1. c * p \in Nat \ {0}
  OBVIOUS
<1>2. PICK q \in Nat, b \in 0 .. c * p - 1 : a = (c * p) * q + b /\ a % (c * p) = b
  BY <1>1, DivMod
<1>3. b \in Nat
  OBVIOUS
<1>4. PICK s \in Nat, r \in 0 .. p - 1 : b = p * s + r /\ b % p = r
  BY <1>3, DivMod
<1>5. a = p * (c * q + s) + r /\ c * q + s \in Nat
  BY <1>2, <1>4
<1>6. a % p = r
  BY <1>5, ModUnique
<1> QED
  BY <1>2, <1>4, <1>6

-----------------------------------------------------------------------------
(* The numbering of the pieces.                                            *)
LEMMA Numbering ==
  /\ Total \in Nat \ {0} /\ Pieces = 0 .. Total - 1
  /\ \A a \in Nat : a % Total \in Pieces /\ (a % Total) % Parts = a % Parts
  /\ \A a, b \in Nat : ((a % Total) + b) % Total = (a + b) % Total
  /\ \A x \in Pieces : x \in Nat /\ x % Total = x
<1>1. Total \in Nat \ {0} /\ Pieces = 0 .. Total - 1
  BY CardAssumption DEF Total, Pieces
<1>2. ASSUME NEW a \in Nat
      PROVE  a % Total \in Pieces /\ (a % Total) % Parts = a % Parts
  <2>1. (a % Total) % Parts = a % Parts
    BY ModMod, CardAssumption DEF Total
  <2>2. PICK q \in Nat, r \in 0 .. Total - 1 : a = Total * q + r /\ a % Total = r
    BY <1>1, DivMod
  <2> QED
    BY <1>1, <2>1, <2>2
<1>3. ASSUME NEW a \in Nat, NEW b \in Nat
      PROVE  ((a % Total) + b) % Total = (a + b) % Total
  BY <1>1, ModAdd
<1>4. ASSUME NEW x \in Pieces PROVE x \in Nat /\ x % Total = x
  <2>1. x \in 0 .. Total - 1 /\ x \in Nat /\ x = Total * 0 + x
    BY <1>1
  <2> QED
    BY <1>1, <2>1, ModUnique
<1> QED
  BY <1>1, <1>2, <1>3, <1>4

(* The piece after a given one.                                            *)
LEMMA AfterMod ==
  ASSUME NEW a \in Nat
  PROVE  /\ After(a % Total) = (a + 1) % Total
         /\ a % Total \in Nat /\ a % Total # NoPiece
<1>1. ((a % Total) + 1) % Total = (a + 1) % Total
  BY ModAdd, Numbering
<1>2. a % Total \in Pieces
  BY Numbering
<1> QED
  BY <1>1, <1>2, Numbering DEF After, Total, NoPiece

(* The next chunk begins a chunk after this one.                           *)
LEMMA NextChunk ==
  ASSUME NEW x \in Nat, x % Parts = 0
  PROVE  (x + Parts) % Parts = 0 /\ ((x + Parts) % Total) % Parts = 0
<1>1. PICK q \in Nat, r \in 0 .. Parts - 1 : x = Parts * q + r /\ x % Parts = r
  BY DivMod, CardAssumption
<1>2. x + Parts \in Nat /\ x + Parts = Parts * (q + 1) /\ q + 1 \in Nat
  BY <1>1, CardAssumption
<1>3. (Parts * (q + 1)) % Parts = 0
  BY <1>2, MultipleMod, CardAssumption
<1> QED
  BY <1>2, <1>3, Numbering, SMTT(30)

(* Run(x, n): n consecutive pieces.                                        *)
LEMMA RunProperties ==
  ASSUME NEW x \in Nat, NEW n \in Nat
  PROVE  /\ Run(x, n) \in Seq(Pieces) /\ Len(Run(x, n)) = n
         /\ \A i \in 1 .. n : Run(x, n)[i] = (x + (i - 1)) % Total
<1>1. ASSUME NEW i \in 1 .. n
      PROVE  (x + i - 1) % Total \in Pieces /\ x + i - 1 = x + (i - 1)
  <2>1. x + i - 1 \in Nat
    OBVIOUS
  <2> QED
    BY <2>1, Numbering
<1>2. Run(x, n) \in [1 .. n -> Pieces]
  BY <1>1 DEF Run, Total
<1> QED
  BY <1>1, <1>2 DEF Run, Total

-----------------------------------------------------------------------------
(* Types.                                                                  *)
LEMMA TypesInit == Init => Types
<1> SUFFICES ASSUME Init PROVE Types
  OBVIOUS
<1>1. first \in Pieces /\ first % Parts = 0
  <2>1. Cycle - 1 \in Nat /\ first = Parts * (Cycle - 1)
    BY CardAssumption DEF Init
  <2>2. first \in Nat /\ first % Parts = 0
    BY <2>1, MultipleMod, CardAssumption
  <2>3. first < Total
    BY <2>1, CardAssumption DEF Total
  <2> QED
    BY <2>2, <2>3, Numbering
<1>2. \A g \in Gens : Len(pipe[g]) <= Room
  BY CardAssumption DEF Init
<1>3. pipe \in [Gens -> Seq(Pieces)] /\ file \in [Recorders -> Seq(Pieces)]
  BY DEF Init
<1>4. asked \in [Recorders -> Nat] /\ got \in [Gens -> Pieces \cup {NoPiece}]
  BY DEF Init
<1>5. left \in 0 .. Parts /\ gen \in 0 .. MaxGens
  BY CardAssumption DEF Init
<1>6. TypeOK
  BY <1>1, <1>2, <1>4, <1>5 DEF Init, TypeOK
<1> QED
  BY <1>1, <1>3, <1>4, <1>6 DEF Types

LEMMA TypesNext ==
  ASSUME Types, Owned, [Next]_vars
  PROVE  Types'
<1> USE DEF Types, TypeOK, pumpVars, childVars, recordVars
<1>1. CASE ReadCard
  <2>1. first \in Nat /\ first + Parts \in Nat /\ first' = (first + Parts) % Total
    BY <1>1, Numbering, CardAssumption DEF ReadCard, Total
  <2>2. first' \in Pieces /\ first' % Parts = 0
    BY <2>1, NextChunk, Numbering
  <2> QED
    BY <1>1, <2>2, CardAssumption DEF ReadCard
<1>2. CASE CardGone \/ TakeLock \/ TeeFails \/ BrokenPipe
  BY <1>2, CardAssumption DEF CardGone, TakeLock, TeeFails, BrokenPipe
<1>3. CASE Write
  <2>1. PICK n \in 1 .. left :
          /\ Len(pipe[sink]) + n <= Room
          /\ pipe' = [pipe EXCEPT ![sink] = @ \o Run(first + Parts - left, n)]
          /\ left' = left - n
    BY <1>3 DEF Write
  <2>2. sink \in Gens /\ first + Parts - left \in Nat /\ n \in Nat
    BY <1>3, Numbering, CardAssumption DEF Write
  <2> DEFINE r == Run(first + Parts - left, n)
  <2>3. r \in Seq(Pieces) /\ Len(r) = n
    BY <2>2, RunProperties
  <2> HIDE DEF r
  <2>4. pipe[sink] \o r \in Seq(Pieces) /\ Len(pipe[sink] \o r) <= Room
    BY <2>1, <2>2, <2>3, ConcatProperties
  <2>5. pipe' \in [Gens -> Seq(Pieces)] /\ \A g \in Gens : Len(pipe'[g]) <= Room
    BY <2>1, <2>2, <2>4 DEF r
  <2>6. left' \in 0 .. Parts
    BY <2>1, CardAssumption
  <2> QED
    BY <1>3, <2>5, <2>6 DEF Write
<1>4. CASE Tee
  <2>1. CASE rec = NoRec
    BY <1>4, <2>1 DEF Tee
  <2>2. CASE rec # NoRec
    <3> DEFINE n == IF rec.left < Parts THEN rec.left ELSE Parts
               more == SubSeq(ChunkPieces, 1, n)
    <3>1. rec.who \in Recorders /\ rec.left \in Nat /\ n \in 0 .. Parts
      BY <2>2, CardAssumption
    <3>2. more \in Seq(Pieces)
      <4>1. first \in Nat
        BY Numbering
      <4>2. \A i \in 1 .. Parts : ChunkPieces[i] \in Pieces
        BY <4>1, RunProperties, CardAssumption, ElementOfSeq DEF ChunkPieces
      <4> QED
        BY <3>1, <4>2, SubSeqProperties, CardAssumption
    <3> HIDE DEF more
    <3>3. file' = [file EXCEPT ![rec.who] = @ \o more]
      BY <1>4, <2>2 DEF Tee, more
    <3>4. file' \in [Recorders -> Seq(Pieces)]
      BY <3>1, <3>2, <3>3, ConcatProperties
    <3>5. /\ rec' \in [who : Recorders, left : Nat] \cup {NoRec} /\ done' \in BOOLEAN
          /\ recorder' \in [Recorders -> {"idle", "begun", "waiting", "notified", "replied"}]
      <4>1. CASE rec.left <= Parts
        <5>1. rec' = NoRec /\ done' = TRUE /\ Notify
          BY <1>4, <2>2, <4>1 DEF Tee
        <5>2. recorder' \in [Recorders -> {"idle", "begun", "waiting", "notified", "replied"}]
          BY <5>1 DEF Notify
        <5> QED
          BY <5>1, <5>2
      <4>2. CASE ~(rec.left <= Parts)
        <5>1. rec' = [rec EXCEPT !.left = @ - Parts] /\ UNCHANGED <<done, recorder>>
          BY <1>4, <2>2, <4>2 DEF Tee
        <5>2. rec.left - Parts \in Nat
          BY <3>1, <4>2, CardAssumption
        <5> QED
          BY <2>2, <5>1, <5>2
      <4> QED
        BY <4>1, <4>2
    <3> QED
      BY <1>4, <3>4, <3>5 DEF Tee
  <2> QED
    BY <2>1, <2>2
<1>5. CASE Kill
  BY <1>5 DEF Kill
<1>6. CASE Spawn
  <2>1. gen' \in Gens
    BY <1>6, CardAssumption DEF Spawn, Owned, Gens
  <2> QED
    BY <1>6, <2>1 DEF Spawn, Gens
<1>7. CASE Attach
  BY <1>7 DEF Attach, Owned, LockFree
<1>8. ASSUME NEW g \in Gens, ChildReads(g) \/ ChildDies(g) \/ ChildFails(g)
      PROVE  Types'
  <2>1. CASE Gone(g)
    <3>1. pipe' \in [Gens -> Seq(Pieces)] /\ \A k \in Gens : Len(pipe'[k]) <= Room
      BY <2>1, CardAssumption DEF Gone
    <3> QED
      BY <2>1, <3>1 DEF Gone
  <2>2. CASE ~Gone(g)
    <3>1. /\ pipe[g] # <<>>
          /\ got' = [got EXCEPT ![g] = Head(pipe[g])]
          /\ pipe' = [pipe EXCEPT ![g] = Tail(@)]
          /\ UNCHANGED <<pumpVars, sink, rec, done, restarter, gen, child, open, recordVars, file>>
      BY <1>8, <2>2 DEF ChildReads, ChildDies, ChildFails
    <3>2. /\ Head(pipe[g]) \in Pieces /\ Tail(pipe[g]) \in Seq(Pieces)
          /\ Len(Tail(pipe[g])) <= Room
      BY <3>1, HeadTailProperties, CardAssumption
    <3> QED
      BY <3>1, <3>2
  <2> QED
    BY <2>1, <2>2
<1>9. ASSUME NEW h \in Recorders, Record(h) \/ RecordRefused(h) \/ Wait(h) \/ Answer(h)
      PROVE  Types'
  <2>1. CASE Record(h)
    <3>1. PICK n \in Takes : rec' = [who |-> h, left |-> n] /\ asked' = [asked EXCEPT ![h] = n]
      BY <2>1 DEF Record
    <3>2. n \in Nat
      BY CardAssumption
    <3> QED
      BY <2>1, <3>1, <3>2 DEF Record
  <2>2. CASE RecordRefused(h) \/ Wait(h) \/ Answer(h)
    BY <2>2, ZenonT(60) DEF RecordRefused, Wait, Answer, Reply
  <2> QED
    BY <1>9, <2>1, <2>2
<1>10. CASE UNCHANGED vars
  BY <1>10 DEF vars
<1> QED
  BY <1>1, <1>2, <1>3, <1>4, <1>5, <1>6, <1>7, <1>8, <1>9, <1>10 DEF Next, PumpStep

-----------------------------------------------------------------------------
(* Who owns a write end.                                                   *)
LEMMA OwnedInit == Init => Owned
  BY CardAssumption DEF Init, Owned, SinkIsOwned, NoSink

LEMMA OwnedNext ==
  ASSUME Types, Owned, [Next]_vars
  PROVE  Owned'
<1> USE DEF Owned, SinkIsOwned, pumpVars, childVars, recordVars
<1>1. CASE UNCHANGED <<sink, open, gen, restarter>>
  BY <1>1
<1>2. CASE BrokenPipe
  BY <1>2 DEF BrokenPipe, Types, TypeOK, NoSink, Gens
<1>3. CASE Kill
  BY <1>3 DEF Kill
<1>4. CASE Spawn
  BY <1>4 DEF Spawn, Types, TypeOK, NoSink, Gens
<1>5. CASE Attach
  BY <1>5 DEF Attach, Types, TypeOK, NoSink, Gens
<1>6. ReadCard \/ TakeLock \/ Write \/ Tee \/ CardGone \/ TeeFails =>
        UNCHANGED <<sink, open, gen, restarter>>
  BY DEF ReadCard, TakeLock, Write, Tee, CardGone, TeeFails
<1>7. \A g \in Gens : ChildReads(g) \/ ChildDies(g) \/ ChildFails(g) =>
        UNCHANGED <<sink, open, gen, restarter>>
  BY DEF ChildReads, ChildDies, ChildFails, Gone
<1>8. \A h \in Recorders : Record(h) \/ RecordRefused(h) \/ Wait(h) \/ Answer(h) =>
        UNCHANGED <<sink, open, gen, restarter>>
  BY DEF Record, RecordRefused, Wait, Answer
<1>9. UNCHANGED vars => UNCHANGED <<sink, open, gen, restarter>>
  BY DEF vars
<1> QED
  BY <1>1, <1>2, <1>3, <1>4, <1>5, <1>6, <1>7, <1>8, <1>9 DEF Next, PumpStep

-----------------------------------------------------------------------------
(* What the children are given.                                            *)
LEMMA StreamsInit == Init => Streams
  BY DEF Init, Streams

(* Neither the pipes nor the pump's place in the stream is touched.        *)
StreamVars == <<pump, first, left, sink, restarter, gen, child, pipe, got>>

LEMMA StreamsNext ==
  ASSUME Types, Owned, Streams, [Next]_vars
  PROVE  Streams'
<1> USE DEF pumpVars, childVars, recordVars
<1>1. first \in Nat /\ first + Parts \in Nat /\ first % Total = first /\ first % Parts = 0
  <2>1. first \in Pieces /\ first % Parts = 0
    BY DEF Types, TypeOK
  <2>2. first \in Nat /\ first % Total = first
    BY <2>1, Numbering
  <2> QED
    BY <2>1, <2>2, CardAssumption
<1>2. CASE UNCHANGED StreamVars
  BY <1>2 DEF StreamVars, Streams, LastGiven, Upcoming
<1>3. CASE ReadCard
  <2>1. first' = (first + Parts) % Total /\ left' = Parts /\ first' \in Pieces
    BY <1>1, <1>3, Numbering DEF ReadCard, Total
  <2>2. first' \in Nat /\ first' % Total = first'
    BY <2>1, Numbering
  <2>3. first' + Parts - left' = first'
    BY <2>1, <2>2, CardAssumption
  <2>4. Upcoming' = Upcoming
    BY <1>3, <2>1, <2>2, <2>3 DEF Upcoming, ReadCard
  <2> QED
    BY <1>3, <2>1, <2>4 DEF Streams, LastGiven, ReadCard
<1>4. CASE CardGone \/ TeeFails
  BY <1>4 DEF Streams, LastGiven, CardGone, TeeFails
<1>5. CASE TakeLock
  BY <1>5 DEF Streams, LastGiven, Upcoming, TakeLock
<1>6. CASE Tee
  BY <1>6 DEF Streams, LastGiven, Upcoming, Tee
<1>7. CASE BrokenPipe
  BY <1>7 DEF Streams, LastGiven, BrokenPipe
<1>8. CASE Kill
  <2>1. sink # NoSink => (child'[sink] = "gone" <=> child[sink] = "gone")
    BY <1>8 DEF Kill, Types, TypeOK
  <2> QED
    BY <1>8, <2>1 DEF Streams, LastGiven, Upcoming, Kill
<1>9. CASE Spawn
  <2>1. gen' = gen + 1 /\ gen \in Nat /\ gen' \in Gens
    BY <1>9, CardAssumption DEF Spawn, Types, TypeOK, Gens, Owned
  <2>2. sink # NoSink => child'[sink] = child[sink]
    BY <1>9, <2>1 DEF Spawn, Types, TypeOK, Gens, Owned
  <2>3. \A g \in Gens : g > gen' \/ g = gen' => g > gen
    BY <2>1 DEF Gens
  <2> QED
    BY <1>9, <2>2, <2>3 DEF Streams, LastGiven, Upcoming, Spawn
<1>10. CASE Attach
  <2>1. gen \in Gens /\ sink' = gen /\ restarter' = "idle"
    BY <1>10 DEF Attach, Owned, Types, TypeOK
  <2>2. LastGiven(gen) = NoPiece /\ LastGiven(gen)' = NoPiece
    BY <1>10, <2>1 DEF Attach, Streams, LastGiven
  <2>3. Upcoming' = Upcoming
    BY <1>10 DEF Attach, Upcoming
  <2>4. pump # "ended" => Upcoming % Parts = 0
    <3>1. CASE pump = "lock"
      <4>1. first + Parts - left = first
        BY <1>1, <3>1, CardAssumption DEF Streams
      <4> QED
        BY <1>1, <3>1, <4>1 DEF Upcoming
    <3>2. CASE pump # "lock"
      <4>1. pump # "write"
        BY <1>10 DEF Attach, LockFree
      <4> QED
        BY <1>1, <3>2, <4>1, NextChunk DEF Upcoming
    <3> QED
      BY <3>1, <3>2
  <2>5. LastGiven(sink)' = NoPiece
    BY <1>10, <2>1, <2>2 DEF Attach, LastGiven
  <2>6. pump # "ended" => Follows(LastGiven(sink), Upcoming)'
    BY <2>3, <2>4, <2>5 DEF Follows
  <2> QED
    BY <1>10, <2>6 DEF Streams, Attach
<1>11. CASE Write
  <2>1. PICK n \in 1 .. left :
          /\ Len(pipe[sink]) + n <= Room
          /\ pipe' = [pipe EXCEPT ![sink] = @ \o Run(first + Parts - left, n)]
          /\ left' = left - n
    BY <1>11 DEF Write
  <2> DEFINE x == first + Parts - left
             r == Run(x, n)
             old == pipe[sink]
  <2>2. sink \in Gens /\ x \in Nat /\ n \in Nat \ {0}
    BY <1>1, <1>11, CardAssumption DEF Write, Types, TypeOK
  <2>3. r \in Seq(Pieces) /\ Len(r) = n /\ \A i \in 1 .. n : r[i] = (x + (i - 1)) % Total
    BY <2>2, RunProperties
  <2>4. old \in Seq(Pieces) /\ Len(old) \in Nat
    BY <2>2 DEF Types
  <2> HIDE DEF r, old
  <2>5. /\ old \o r \in Seq(Pieces) /\ Len(old \o r) = Len(old) + n
        /\ \A i \in 1 .. Len(old) : (old \o r)[i] = old[i]
        /\ \A i \in 1 .. n : (old \o r)[Len(old) + i] = r[i]
    BY <2>3, <2>4, ConcatProperties
  <2>6. /\ pipe'[sink] = old \o r
        /\ \A g \in Gens : g # sink => pipe'[g] = pipe[g]
    BY <2>1, <2>2 DEF r, old, Types
  <2>7. Upcoming = x % Total /\ Upcoming' = (x + n) % Total
    <3>1. Upcoming' = (first + Parts - left') % Total
      BY <1>1, <1>11, CardAssumption DEF Upcoming, Write
    <3>2. first + Parts - left' = x + n
      BY <1>1, <2>1, CardAssumption DEF Types, TypeOK
    <3> QED
      BY <1>11, <3>1, <3>2 DEF Upcoming, Write
  <2>8. Follows(LastGiven(sink), Upcoming)
    BY <1>11, <2>2 DEF Streams, Write, NoSink, Gens
  <2>9. \A i \in 1 .. n - 1 : r[i + 1] = After(r[i]) /\ r[i] # NoPiece
    <3>1. ASSUME NEW i \in 1 .. n - 1
          PROVE  r[i + 1] = After(r[i]) /\ r[i] # NoPiece
      <4>1. x + (i - 1) \in Nat /\ (x + (i - 1)) + 1 = x + ((i + 1) - 1)
        BY <2>2
      <4>2. r[i] = (x + (i - 1)) % Total /\ r[i + 1] = (x + ((i + 1) - 1)) % Total
        BY <2>2, <2>3
      <4> QED
        BY <4>1, <4>2, AfterMod
    <3> QED
      BY <3>1
  <2>10. Follows(r[n], Upcoming')
    <3>1. x + (n - 1) \in Nat /\ (x + (n - 1)) + 1 = x + n
      BY <2>2
    <3>2. r[n] = (x + (n - 1)) % Total
      BY <2>2, <2>3
    <3> QED
      BY <2>7, <3>1, <3>2, AfterMod DEF Follows
  <2>11. r[1] = Upcoming
    <3>1. x + (1 - 1) = x
      BY <2>2
    <3> QED
      BY <2>2, <2>3, <2>7, <3>1
  <2> DEFINE new == old \o r
  <2>12. ASSUME NEW i \in 1 .. Len(new)
         PROVE  Follows(IF i = 1 THEN got[sink] ELSE new[i - 1], new[i])
    <3>1. CASE i <= Len(old)
      <4>1. Follows(IF i = 1 THEN got[sink] ELSE old[i - 1], old[i])
        BY <2>2, <2>4, <2>5, <3>1 DEF Streams, old
      <4>2. i \in 1 .. Len(old) /\ (i # 1 => i - 1 \in 1 .. Len(old))
        BY <2>4, <3>1
      <4>3. new[i] = old[i] /\ (i # 1 => new[i - 1] = old[i - 1])
        BY <2>5, <4>2
      <4> QED
        BY <4>1, <4>3
    <3>2. CASE i = Len(old) + 1
      <4>1. new[i] = Upcoming
        BY <2>2, <2>5, <2>11, <3>2
      <4>2. (IF i = 1 THEN got[sink] ELSE new[i - 1]) = LastGiven(sink)
        BY <2>2, <2>4, <2>5, <3>2, EmptySeq DEF LastGiven, old
      <4> QED
        BY <2>8, <4>1, <4>2
    <3>3. CASE i > Len(old) + 1
      <4> DEFINE k == i - Len(old) - 1
      <4>1. k \in 1 .. n - 1 /\ i = Len(old) + (k + 1) /\ i - 1 = Len(old) + k
        <5>1. i \in 1 .. Len(old) + n
          BY <2>5
        <5> QED
          BY <2>2, <2>4, <3>3, <5>1
      <4> HIDE DEF k
      <4>2. new[i] = r[k + 1] /\ new[i - 1] = r[k] /\ i # 1
        BY <2>2, <2>4, <2>5, <4>1
      <4> QED
        BY <2>9, <4>1, <4>2 DEF Follows
    <3> QED
      BY <2>4, <2>5, <3>1, <3>2, <3>3
  <2>13. LastGiven(sink)' = r[n]
    <3>1. sink' = sink /\ new # <<>> /\ new[Len(new)] = r[n]
      BY <1>11, <2>2, <2>4, <2>5 DEF Write
    <3> QED
      BY <2>6, <3>1 DEF LastGiven
  <2> HIDE DEF new, x
  <2>14. \A g \in Gens : \A i \in 1 .. Len(pipe'[g]) :
           Follows(IF i = 1 THEN got[g] ELSE pipe'[g][i - 1], pipe'[g][i])
    <3>1. ASSUME NEW g \in Gens, NEW i \in 1 .. Len(pipe'[g])
          PROVE  Follows(IF i = 1 THEN got[g] ELSE pipe'[g][i - 1], pipe'[g][i])
      <4>1. CASE g = sink
        BY <2>6, <2>12, <4>1 DEF new
      <4>2. CASE g # sink
        BY <2>6, <4>2 DEF Streams
      <4> QED
        BY <4>1, <4>2
    <3> QED
      BY <3>1
  <2>15. \A g \in Gens : g > gen \/ (g = gen /\ restarter = "attach") => g # sink
    BY <2>2 DEF Owned, Types, TypeOK, Gens
  <2>16. Follows(LastGiven(sink), Upcoming)'
    BY <2>10, <2>13
  <2>17. /\ UNCHANGED <<sink, got, gen, restarter, child>> /\ pump' # "lock"
    BY <1>11 DEF Write
  <2>18. \A g \in Gens : g > gen \/ (g = gen /\ restarter = "attach") =>
           pipe'[g] = <<>> /\ got[g] = NoPiece
    BY <2>6, <2>15 DEF Streams
  <2> QED
    BY <2>14, <2>16, <2>17, <2>18 DEF Streams
<1>12. ASSUME NEW k \in Gens, Gone(k)
       PROVE  Streams'
  <2>1. child'[k] = "gone" /\ pipe'[k] = <<>> /\ got'[k] = NoPiece /\ Len(<<>>) = 0
    BY <1>12 DEF Gone, Types, TypeOK
  <2>2. \A g \in Gens : g # k => child'[g] = child[g] /\ pipe'[g] = pipe[g] /\ got'[g] = got[g]
    BY <1>12 DEF Gone, Types, TypeOK
  <2>3. UNCHANGED <<pump, first, left, sink, gen, restarter>>
    BY <1>12 DEF Gone
  <2>4. ASSUME sink # NoSink, child'[sink] # "gone", pump # "ended"
        PROVE  Follows(LastGiven(sink), Upcoming)'
    <3>1. sink \in Gens /\ sink # k
      BY <2>1, <2>4 DEF Types, TypeOK
    <3>2. LastGiven(sink)' = LastGiven(sink) /\ Upcoming' = Upcoming
      BY <2>2, <2>3, <3>1 DEF LastGiven, Upcoming
    <3> QED
      BY <2>2, <2>4, <3>1, <3>2 DEF Streams
  <2>5. ASSUME NEW g \in Gens, NEW i \in 1 .. Len(pipe'[g])
        PROVE  Follows(IF i = 1 THEN got'[g] ELSE pipe'[g][i - 1], pipe'[g][i])
    <3>1. g # k
      BY <2>1
    <3> QED
      BY <2>2, <3>1 DEF Streams
  <2>6. \A g \in Gens : g > gen \/ (g = gen /\ restarter = "attach") =>
          pipe'[g] = <<>> /\ got'[g] = NoPiece
    BY <2>1, <2>2 DEF Streams
  <2> QED
    BY <2>3, <2>4, <2>5, <2>6 DEF Streams
<1>13. ASSUME NEW k \in Gens, ChildReads(k), ~Gone(k)
       PROVE  Streams'
  <2> DEFINE old == pipe[k]
             new == Tail(old)
  <2>1. /\ old # <<>>
        /\ got' = [got EXCEPT ![k] = Head(old)] /\ pipe' = [pipe EXCEPT ![k] = new]
        /\ UNCHANGED <<pump, first, left, sink, gen, restarter, child>>
    BY <1>13 DEF ChildReads
  <2>2. old \in Seq(Pieces) /\ Len(old) \in Nat \ {0}
    BY <2>1, EmptySeq DEF Types
  <2>3. /\ Head(old) = old[1] /\ Len(new) = Len(old) - 1 /\ new \in Seq(Pieces)
        /\ \A i \in 1 .. Len(old) - 1 : new[i] = old[i + 1]
        /\ old[1] \in Pieces
    BY <2>1, <2>2, HeadTailProperties
  <2> HIDE DEF new, old
  <2>4. /\ got'[k] = old[1] /\ pipe'[k] = new
        /\ \A g \in Gens : g # k => got'[g] = got[g] /\ pipe'[g] = pipe[g]
    BY <2>1, <2>3 DEF Types, TypeOK
  <2>5. \A i \in 1 .. Len(old) : Follows(IF i = 1 THEN got[k] ELSE old[i - 1], old[i])
    BY DEF Streams, old
  <2>6. ASSUME NEW i \in 1 .. Len(new)
        PROVE  Follows(IF i = 1 THEN old[1] ELSE new[i - 1], new[i])
    <3>1. i + 1 \in 1 .. Len(old) /\ i + 1 # 1 /\ (i + 1) - 1 = i /\ new[i] = old[i + 1]
      BY <2>2, <2>3
    <3>2. Follows(old[i], old[i + 1])
      BY <2>5, <3>1
    <3>3. i # 1 => new[i - 1] = old[i]
      <4>1. i # 1 => i - 1 \in 1 .. Len(old) - 1 /\ (i - 1) + 1 = i
        BY <2>2, <2>3
      <4> QED
        BY <2>3, <4>1
    <3> QED
      BY <3>1, <3>2, <3>3
  <2>7. LastGiven(k)' = LastGiven(k)
    <3>1. CASE Len(old) = 1
      <4>1. new = <<>>
        BY <2>3, <3>1, EmptySeq
      <4> QED
        BY <2>1, <2>4, <3>1, <4>1 DEF LastGiven, old
    <3>2. CASE Len(old) # 1
      <4>1. Len(new) \in 1 .. Len(old) - 1 /\ new # <<>> /\ Len(new) + 1 = Len(old)
        BY <2>2, <2>3, <3>2, EmptySeq
      <4>2. new[Len(new)] = old[Len(old)]
        BY <2>3, <4>1
      <4> QED
        BY <2>1, <2>4, <4>1, <4>2 DEF LastGiven, old
    <3> QED
      BY <3>1, <3>2
  <2>8. ASSUME sink # NoSink, child[sink] # "gone", pump # "ended"
        PROVE  Follows(LastGiven(sink), Upcoming)'
    <3>1. LastGiven(sink)' = LastGiven(sink)
      <4>1. sink \in Gens
        BY <2>8 DEF Types, TypeOK
      <4> QED
        BY <2>1, <2>4, <2>7, <4>1 DEF LastGiven
    <3>2. Upcoming' = Upcoming
      BY <2>1 DEF Upcoming
    <3> QED
      BY <2>8, <3>1, <3>2 DEF Streams
  <2>9. \A g \in Gens : g > gen \/ (g = gen /\ restarter = "attach") => g # k
    BY <2>1 DEF Streams, old
  <2>10. ASSUME NEW g \in Gens, NEW i \in 1 .. Len(pipe'[g])
         PROVE  Follows(IF i = 1 THEN got'[g] ELSE pipe'[g][i - 1], pipe'[g][i])
    <3>1. CASE g = k
      BY <2>4, <2>6, <3>1
    <3>2. CASE g # k
      BY <2>4, <3>2 DEF Streams
    <3> QED
      BY <3>1, <3>2
  <2>11. \A g \in Gens : g > gen \/ (g = gen /\ restarter = "attach") =>
           pipe'[g] = <<>> /\ got'[g] = NoPiece
    BY <2>4, <2>9 DEF Streams
  <2> QED
    BY <2>1, <2>8, <2>10, <2>11 DEF Streams
<1>14. \A g \in Gens : ChildReads(g) \/ ChildDies(g) \/ ChildFails(g) =>
         Gone(g) \/ (ChildReads(g) /\ ~Gone(g))
  BY DEF ChildDies, ChildFails
<1>15. \A h \in Recorders : Record(h) \/ RecordRefused(h) \/ Wait(h) \/ Answer(h) =>
         UNCHANGED StreamVars
  BY DEF Record, RecordRefused, Wait, Answer, StreamVars
<1>16. UNCHANGED vars => UNCHANGED StreamVars
  BY DEF vars, StreamVars
<1> QED
  BY <1>2, <1>3, <1>4, <1>5, <1>6, <1>7, <1>8, <1>9, <1>10, <1>11, <1>12, <1>13,
     <1>14, <1>15, <1>16 DEF Next, PumpStep

-----------------------------------------------------------------------------
(* What the recorders are told.                                            *)
LEMMA RecordsInit == Init => Records
  BY DEF Init, Records, Contiguous, HeldBy

(* Neither the recordings nor the pump's place in the chunks is touched.   *)
TeeVars == <<pump, first, rec, done, recorder, asked, reply, file>>

LEMMA RecordsKept ==
  ASSUME Records, UNCHANGED <<rec, done, recorder, asked, reply, file>>,
         pump' = "ended" \/ (TeeNext' = TeeNext /\ (pump = "ended" => pump' = "ended"))
  PROVE  Records'
<1>1. \A h \in Recorders : Contiguous(h)' = Contiguous(h) /\ HeldBy(h)' = HeldBy(h)
  BY DEF Contiguous, HeldBy
<1>2. \A h \in Recorders : Complete(h)' = Complete(h)
  BY DEF Complete, HeldBy
<1>3. \A h \in Recorders : InProgress(h) => InProgress(h)'
  BY DEF InProgress
<1> QED
  BY <1>1, <1>2, <1>3 DEF Records

(* One handler is at work: the others' files and answers stay.             *)
LEMMA RecorderStep ==
  ASSUME Types, Records, NEW h \in Recorders,
         Record(h) \/ RecordRefused(h) \/ Wait(h) \/ Answer(h)
  PROVE  Records'
<1>1. UNCHANGED <<pump, first, file>> /\ TeeNext' = TeeNext
  BY DEF Record, RecordRefused, Wait, Answer, pumpVars, TeeNext
<1>2. \A k \in Recorders : k # h =>
        recorder'[k] = recorder[k] /\ asked'[k] = asked[k] /\ reply'[k] = reply[k]
  BY DEF Record, RecordRefused, Wait, Answer, Reply, Types, TypeOK
<1>3. CASE Record(h)
  <2>1. PICK n \in Takes : rec' = [who |-> h, left |-> n] /\ asked' = [asked EXCEPT ![h] = n]
    BY <1>3 DEF Record
  <2>2. n \in Nat /\ asked'[h] = n /\ rec'.who = h /\ rec'.left = n
    BY <2>1, CardAssumption DEF Types
  <2>3. rec' # NoRec
    BY <2>1, CardAssumption DEF NoRec
  <2>4. rec = NoRec /\ recorder[h] = "idle" /\ done' = FALSE /\ reply' = reply
    BY <1>3 DEF Record
  <2>5. recorder'[h] = "begun" /\ file[h] = <<>> /\ reply[h] = "none" /\ Len(file[h]) = 0
    BY <1>3, <2>4 DEF Record, Records, Types, TypeOK
  <2>6. HeldBy(h)' /\ InProgress(h)'
    BY <1>1, <2>2, <2>3, <2>5 DEF HeldBy, InProgress
  <2>7. \A k \in Recorders : k # h => ~HeldBy(k) /\ ~HeldBy(k)'
    BY <2>2, <2>4 DEF HeldBy
  <2>8. \A k \in Recorders : k # h => Complete(k)' = Complete(k)
    BY <1>1, <1>2, <2>7 DEF Complete
  <2>9. \A k \in Recorders : Contiguous(k)'
    BY <1>1 DEF Contiguous, Records
  <2> QED
    BY <1>1, <1>2, <2>3, <2>4, <2>5, <2>6, <2>7, <2>8, <2>9 DEF Records
<1>4. CASE RecordRefused(h) \/ Wait(h) \/ Answer(h)
  <2>1. UNCHANGED <<rec, done, asked>>
    BY <1>4 DEF RecordRefused, Wait, Answer
  <2>2. \A k \in Recorders : /\ Contiguous(k)' = Contiguous(k) /\ HeldBy(k)' = HeldBy(k)
                            /\ InProgress(k)' = InProgress(k) /\ Complete(k)' = Complete(k)
    BY <1>1, <2>1 DEF Contiguous, HeldBy, InProgress, Complete
  <2>3. recorder[h] \notin {"replied", "idle"} \/ RecordRefused(h)
    BY <1>4 DEF Wait, Answer
  <2>4. \/ recorder'[h] = "replied" /\ (reply'[h] = "ok" => Complete(h))
        \/ recorder'[h] = "waiting" /\ recorder[h] = "begun" /\ reply'[h] = reply[h]
    BY <1>4, <2>3 DEF RecordRefused, Wait, Answer, Reply, Types, TypeOK, Records, HeldBy
  <2> QED
    BY <1>1, <1>2, <2>1, <2>2, <2>4 DEF Records
<1> QED
  BY <1>3, <1>4

(* A chunk, or the beginning of one, is appended to the file of h.         *)
LEMMA FileGrows ==
  ASSUME Types, Records, NEW h \in Recorders, HeldBy(h), pump = "tee",
         NEW n \in 0 .. Parts,
         file' = [file EXCEPT ![h] = @ \o SubSeq(ChunkPieces, 1, n)]
  PROVE  /\ Contiguous(h)' /\ Len(file'[h]) = Len(file[h]) + n
         /\ n > 0 => (first + n) % Total = (file'[h][1] + Len(file'[h])) % Total
<1> DEFINE more == SubSeq(ChunkPieces, 1, n)
           old  == file[h]
           new  == old \o more
<1>1. first \in Nat /\ first % Total = first /\ first % Parts = 0 /\ Parts \in Nat /\ n \in Nat
  <2>1. first \in Pieces /\ first % Parts = 0
    BY DEF Types, TypeOK
  <2>2. first \in Nat /\ first % Total = first
    BY <2>1, Numbering
  <2> QED
    BY <2>1, <2>2, CardAssumption
<1>2. ChunkPieces \in Seq(Pieces) /\ Len(ChunkPieces) = Parts
      /\ \A i \in 1 .. Parts : ChunkPieces[i] = (first + (i - 1)) % Total
  BY <1>1, RunProperties DEF ChunkPieces
<1>3. more \in Seq(Pieces) /\ Len(more) = n
  <2>1. \A i \in 1 .. n : ChunkPieces[i] \in Pieces
    BY <1>1, <1>2, ElementOfSeq
  <2> QED
    BY <1>1, <2>1, SubSeqProperties
<1>4. \A i \in 1 .. n : more[i] = (first + (i - 1)) % Total
  <2>1. \A i \in 1 .. n : ChunkPieces[i] \in Pieces
    BY <1>1, <1>2, ElementOfSeq
  <2>2. \A i \in 1 .. n : more[i] = ChunkPieces[i]
    BY <1>1, <2>1, SubSeqProperties
  <2> QED
    BY <1>1, <1>2, <2>2
<1>5. old \in Seq(Pieces) /\ Len(old) \in Nat
  BY DEF Types
<1>6. file'[h] = new
  BY DEF Types
<1> HIDE DEF more, old
<1>7. /\ Len(new) = Len(old) + n
      /\ \A i \in 1 .. Len(old) : new[i] = old[i]
      /\ \A i \in 1 .. n : new[Len(old) + i] = more[i]
  <2>1. /\ Len(new) = Len(old) + Len(more)
        /\ \A i \in 1 .. Len(old) + Len(more) :
             new[i] = IF i <= Len(old) THEN old[i] ELSE more[i - Len(old)]
    BY <1>3, <1>5, ConcatProperties
  <2> HIDE DEF new
  <2>2. \A i \in 1 .. Len(old) : new[i] = old[i]
    BY <1>1, <1>3, <1>5, <2>1
  <2>3. ASSUME NEW i \in 1 .. n PROVE new[Len(old) + i] = more[i]
    <3>1. /\ Len(old) + i \in 1 .. Len(old) + Len(more)
          /\ ~(Len(old) + i <= Len(old)) /\ (Len(old) + i) - Len(old) = i
      BY <1>1, <1>3, <1>5
    <3> QED
      BY <2>1, <3>1
  <2> QED
    BY <1>3, <2>1, <2>2, <2>3
<1> HIDE DEF new
<1>8. CASE old = <<>>
  <2>1. \A i \in 1 .. Len(new) : new[i] = (first + (i - 1)) % Total
    BY <1>1, <1>4, <1>7, <1>8, EmptySeq
  <2>2. n > 0 => new[1] = first
    <3>1. first + (1 - 1) = first
      BY <1>1
    <3> QED
      BY <1>1, <1>7, <1>8, <2>1, <3>1, EmptySeq
  <2>3. Len(new) = n
    BY <1>1, <1>7, <1>8, EmptySeq
  <2>4. new # <<>> => n > 0
    <3>1. new \in Seq(Pieces)
      BY <1>3, <1>5, ConcatProperties DEF new
    <3> QED
      BY <1>1, <2>3, <3>1, EmptySeq
  <2>5. Contiguous(h)'
    <3>1. \A i \in 1 .. Len(new) : new[i] = (new[1] + (i - 1)) % Total
      BY <1>1, <2>1, <2>2, <2>3
    <3> QED
      BY <1>1, <1>6, <2>2, <2>4, <3>1 DEF Contiguous
  <2> QED
    BY <1>6, <1>7, <2>2, <2>3, <2>5 DEF old
<1>9. CASE old # <<>>
  <2>1. Len(old) \in Nat \ {0} /\ old[1] \in Nat
    <3>1. Len(old) \in Nat \ {0}
      BY <1>5, <1>9, EmptySeq
    <3>2. old[1] \in Pieces
      BY <1>5, <3>1, ElementOfSeq
    <3> QED
      BY <3>1, <3>2, Numbering
  <2>2. /\ first = (old[1] + Len(old)) % Total
        /\ \A i \in 1 .. Len(old) : old[i] = (old[1] + (i - 1)) % Total
        /\ old[1] % Parts = 0
    BY <1>9 DEF Records, InProgress, TeeNext, Contiguous, old
  <2>3. \A b \in Nat : (first + b) % Total = ((old[1] + Len(old)) + b) % Total
    <3>1. old[1] + Len(old) \in Nat
      BY <2>1
    <3> QED
      BY <2>2, <3>1, Numbering
  <2>4. new[1] = old[1] /\ new # <<>>
    <3>1. Len(new) # 0
      BY <1>1, <1>7, <2>1
    <3> QED
      BY <1>7, <2>1, <3>1, EmptySeq
  <2>5. ASSUME NEW i \in 1 .. Len(new)
        PROVE  new[i] = (new[1] + (i - 1)) % Total
    <3>1. CASE i <= Len(old)
      BY <1>7, <2>1, <2>2, <2>4, <3>1
    <3>2. CASE i > Len(old)
      <4> DEFINE k == i - Len(old)
      <4>1. k \in 1 .. n /\ i = Len(old) + k /\ k - 1 \in Nat
        BY <1>1, <1>7, <2>1, <3>2
      <4> HIDE DEF k
      <4>2. new[i] = (first + (k - 1)) % Total
        BY <1>4, <1>7, <4>1
      <4>3. (old[1] + Len(old)) + (k - 1) = old[1] + (i - 1)
        BY <2>1, <4>1
      <4> QED
        BY <2>3, <2>4, <4>1, <4>2, <4>3
    <3> QED
      BY <1>1, <1>7, <2>1, <3>1, <3>2
  <2>6. (first + n) % Total = (new[1] + Len(new)) % Total
    <3>1. (old[1] + Len(old)) + n = old[1] + Len(new)
      BY <1>1, <1>7, <2>1
    <3> QED
      BY <1>1, <2>3, <2>4, <3>1
  <2>7. Contiguous(h)'
    BY <1>6, <2>2, <2>4, <2>5 DEF Contiguous
  <2> QED
    BY <1>6, <1>7, <2>6, <2>7 DEF old
<1> QED
  BY <1>8, <1>9

LEMMA TeeStep ==
  ASSUME Types, Records, Tee, rec # NoRec
  PROVE  Records'
<1> PICK h \in Recorders, n \in Nat : h = rec.who /\ n = IF rec.left < Parts THEN rec.left ELSE Parts
  BY CardAssumption DEF Types, TypeOK
<1>1. h = rec.who /\ rec.left \in Nat /\ n \in 0 .. Parts /\ HeldBy(h)
  BY CardAssumption DEF Types, TypeOK, HeldBy
<1>2. /\ pump = "tee" /\ pump' = "read" /\ UNCHANGED <<first, asked, reply>>
      /\ file' = [file EXCEPT ![h] = @ \o SubSeq(ChunkPieces, 1, n)]
  BY DEF Tee, pumpVars
<1>3. /\ Contiguous(h)' /\ Len(file'[h]) = Len(file[h]) + n
      /\ n > 0 => (first + n) % Total = (file'[h][1] + Len(file'[h])) % Total
  BY <1>1, <1>2, FileGrows
<1>4. \A k \in Recorders : k # h => file'[k] = file[k] /\ ~HeldBy(k) /\ Contiguous(k)'
  <2>1. \A k \in Recorders : k # h => file'[k] = file[k]
    BY <1>2 DEF Types
  <2> QED
    BY <1>1, <2>1 DEF HeldBy, Contiguous, Records
<1>5. Len(file[h]) + rec.left = asked[h] /\ recorder[h] # "idle" /\ reply[h] # "ok"
      /\ recorder[h] # "notified"
  BY <1>1 DEF Records, InProgress, Complete
<1>6. Len(file[h]) \in Nat
  BY <1>1 DEF Types
<1>7. CASE rec.left <= Parts
  <2>1. rec' = NoRec /\ Notify
    BY <1>7 DEF Tee
  <2>2. n = rec.left
    BY <1>1, <1>7, CardAssumption
  <2>3. \A k \in Recorders : ~HeldBy(k)'
    BY <2>1 DEF HeldBy
  <2>4. Complete(h)'
    BY <1>1, <1>2, <1>3, <1>5, <2>2, <2>3 DEF Complete
  <2>5. \A k \in Recorders : k # h => Complete(k)' = Complete(k)
    BY <1>2, <1>4, <2>3 DEF Complete
  <2>6. \A k \in Recorders :
          recorder'[k] = IF recorder[k] = "waiting" THEN "notified" ELSE recorder[k]
    BY <2>1 DEF Notify
  <2>7. \A k \in Recorders : k # h /\ recorder[k] \in {"begun", "waiting"} => Complete(k)
    BY <1>4 DEF Records
  <2>8. ASSUME NEW k \in Recorders, k # h
        PROVE  /\ recorder'[k] = "idle" => file'[k] = <<>>
               /\ recorder'[k] \in {"begun", "notified"} \/ reply'[k] = "ok" => Complete(k)'
               /\ recorder'[k] # "waiting"
               /\ recorder'[k] # "replied" => reply'[k] = "none"
    BY <1>2, <1>4, <2>5, <2>6, <2>7, <2>8 DEF Records
  <2>9. /\ recorder'[h] \notin {"idle", "waiting"}
        /\ recorder'[h] # "replied" => reply'[h] = "none"
    BY <1>1, <1>2, <1>5, <2>6 DEF Records
  <2> QED
    BY <1>3, <1>4, <2>1, <2>3, <2>4, <2>8, <2>9 DEF Records
<1>8. CASE ~(rec.left <= Parts)
  <2>1. rec' = [rec EXCEPT !.left = @ - Parts] /\ UNCHANGED <<done, recorder>>
    BY <1>8 DEF Tee
  <2>2. n = Parts /\ Parts \in Nat /\ Parts > 0
    BY <1>1, <1>8, CardAssumption
  <2>3. rec'.who = h /\ rec'.left = rec.left - Parts /\ rec' # NoRec
    <3>1. rec'.who = h /\ rec'.left = rec.left - Parts
      BY <1>1, <2>1 DEF Types, TypeOK
    <3> QED
      BY <1>1, <3>1, CardAssumption DEF NoRec
  <2>4. \A k \in Recorders : HeldBy(k)' = HeldBy(k)
    BY <1>1, <1>4, <2>3 DEF HeldBy
  <2>5. InProgress(h)'
    <3>1. Len(file'[h]) + (rec.left - Parts) = asked[h]
      <4>1. \A a, b, c \in Nat : (a + b) + (c - b) = a + c
        OBVIOUS
      <4>2. Len(file'[h]) = Len(file[h]) + Parts
        BY <1>3, <2>2
      <4>3. (Len(file[h]) + Parts) + (rec.left - Parts) = Len(file[h]) + rec.left
        BY <1>1, <1>6, <2>2, <4>1, Zenon
      <4> QED
        BY <1>5, <4>2, <4>3, Zenon
    <3>2. TeeNext' = (first + Parts) % Total
      BY <1>2 DEF TeeNext
    <3> QED
      BY <1>2, <1>3, <2>2, <2>3, <3>1, <3>2 DEF InProgress
  <2>6. \A k \in Recorders : k # h => Complete(k)' = Complete(k)
    BY <1>2, <1>4, <2>4 DEF Complete
  <2>7. \A k \in Recorders : k # h => ~HeldBy(k)'
    BY <1>4, <2>4
  <2>8. HeldBy(h)'
    BY <1>1, <2>4
  <2>9. rec # NoRec /\ ~done'
    BY <1>1, <2>1 DEF Records, HeldBy
  <2> QED
    BY <1>1, <1>2, <1>3, <1>4, <1>5, <2>1, <2>5, <2>6, <2>7, <2>8, <2>9 DEF Records
<1> QED
  BY <1>7, <1>8

LEMMA RecordsNext ==
  ASSUME Types, Records, [Next]_vars
  PROVE  Records'
<1> USE DEF pumpVars, childVars, recordVars
<1> DEFINE Kept == UNCHANGED <<rec, done, recorder, asked, reply, file>>
<1>1. first \in Nat /\ first % Total = first
  BY Numbering DEF Types, TypeOK
<1>2. CASE ReadCard
  <2>1. Kept /\ pump = "read" /\ pump' = "lock" /\ first' = (first + Parts) % Total
    BY <1>2 DEF ReadCard, Total
  <2>2. TeeNext' = TeeNext
    BY <2>1 DEF TeeNext
  <2> QED
    BY <2>1, <2>2, RecordsKept
<1>3. CASE CardGone \/ TeeFails
  BY <1>3, RecordsKept DEF CardGone, TeeFails
<1>4. CASE TakeLock \/ Write \/ BrokenPipe
  <2>1. Kept /\ pump # "ended" /\ pump' # "ended" /\ TeeNext' = TeeNext
    BY <1>4 DEF TakeLock, Write, BrokenPipe, TeeNext
  <2> QED
    BY <2>1, RecordsKept
<1>5. CASE Tee /\ rec = NoRec
  <2>1. Kept /\ pump' = "read"
    BY <1>5 DEF Tee
  <2>2. \A k \in Recorders : ~HeldBy(k) /\ ~HeldBy(k)'
    BY <1>5, <2>1 DEF HeldBy
  <2>3. \A k \in Recorders : Contiguous(k)' /\ Complete(k)' = Complete(k)
    BY <2>1, <2>2 DEF Contiguous, Complete, Records
  <2> QED
    BY <2>1, <2>2, <2>3 DEF Records
<1>6. CASE Tee /\ rec # NoRec
  BY <1>6, TeeStep
<1>7. CASE Kill \/ Spawn \/ Attach \/ (\E g \in Gens : ChildReads(g) \/ ChildDies(g) \/ ChildFails(g))
  <2>1. Kept /\ UNCHANGED <<pump, first>>
    BY <1>7 DEF Kill, Spawn, Attach, ChildReads, ChildDies, ChildFails, Gone
  <2>2. TeeNext' = TeeNext
    BY <2>1 DEF TeeNext
  <2> QED
    BY <2>1, <2>2, RecordsKept
<1>8. CASE \E h \in Recorders : Record(h) \/ RecordRefused(h) \/ Wait(h) \/ Answer(h)
  BY <1>8, RecorderStep
<1>9. CASE UNCHANGED vars
  <2>1. Kept /\ UNCHANGED <<pump, first>>
    BY <1>9 DEF vars
  <2>2. TeeNext' = TeeNext
    BY <2>1 DEF TeeNext
  <2> QED
    BY <2>1, <2>2, RecordsKept
<1> QED
  BY <1>2, <1>3, <1>4, <1>5, <1>6, <1>7, <1>8, <1>9 DEF Next, PumpStep

-----------------------------------------------------------------------------
(* The inductive invariant holds in every state of every behaviour.        *)
THEOREM Invariant == Spec => []IInv
<1>1. Init => IInv
  BY TypesInit, OwnedInit, StreamsInit, RecordsInit DEF IInv
<1>2. IInv /\ [Next]_vars => IInv'
  BY TypesNext, OwnedNext, StreamsNext, RecordsNext DEF IInv
<1> QED
  BY <1>1, <1>2, PTL DEF Spec

(* Every variable of CardPump keeps its type.                              *)
THEOREM TypeCorrect == Spec => []TypeOK
<1>1. IInv => TypeOK
  BY DEF IInv, Types
<1> QED
  BY <1>1, Invariant, PTL

(* The sink's descriptor is open, and nobody else's write end is, but that *)
(* of a child that is about to be attached: whatever the order of writes,  *)
(* broken pipes and restarts, close() meets each descriptor once.          *)
THEOREM EachEndClosedOnce == Spec => []SinkIsOwned
<1>1. IInv => SinkIsOwned
  BY DEF IInv, Owned
<1> QED
  BY <1>1, Invariant, PTL

(* Whatever a child reads next follows what it has read, from the start of *)
(* a chunk on, for short writes and restarts at any point.                 *)
THEOREM NothingSheared == Spec => InputUnsheared
<1>1. IInv /\ [Next]_vars =>
        \A g \in Gens : got'[g] \notin {got[g], NoPiece} =>
          IF got[g] = NoPiece THEN got'[g] % Parts = 0 ELSE got'[g] = After(got[g])
  <2> SUFFICES ASSUME IInv, [Next]_vars, NEW g \in Gens, got'[g] \notin {got[g], NoPiece}
               PROVE  Follows(got[g], got'[g])
    BY DEF Follows
  <2>1. PICK k \in Gens : ChildReads(k) \/ ChildDies(k) \/ ChildFails(k)
    <3>1. got' # got
      OBVIOUS
    <3> QED
      BY <3>1 DEF Next, PumpStep, ReadCard, TakeLock, Write, BrokenPipe, Tee, CardGone,
         TeeFails, Kill, Spawn, Attach, Record, RecordRefused, Wait, Answer, childVars, vars
  <2>2. got \in [Gens -> Pieces \cup {NoPiece}]
    BY DEF IInv, Types, TypeOK
  <2>3. ~Gone(k)
    BY <2>2 DEF Gone
  <2>4. pipe[k] # <<>> /\ got' = [got EXCEPT ![k] = Head(pipe[k])]
    BY <2>1, <2>3 DEF ChildReads, ChildDies, ChildFails
  <2>5. g = k /\ got'[g] = Head(pipe[g])
    BY <2>2, <2>4
  <2>6. Len(pipe[g]) \in Nat \ {0} /\ Head(pipe[g]) = pipe[g][1]
    <3>1. pipe[g] \in Seq(Pieces)
      BY DEF IInv, Types
    <3> QED
      BY <2>4, <2>5, <3>1, EmptySeq, HeadTailProperties
  <2> QED
    BY <2>5, <2>6 DEF IInv, Streams
<1> QED
  BY <1>1, Invariant, PTL DEF Spec, InputUnsheared

(* A recorder that is told ok has the whole of its own recording, however  *)
(* other requests, timeouts and the pump have interleaved with it.         *)
THEOREM OkIsComplete == Spec => []OkMeansRecorded
<1>1. IInv => OkMeansRecorded
  <2> SUFFICES ASSUME IInv, NEW h \in Recorders, reply[h] = "ok"
               PROVE  /\ Len(file[h]) = asked[h]
                      /\ asked[h] > 0 => file[h] = Run(file[h][1], asked[h]) /\ file[h][1] % Parts = 0
    BY DEF OkMeansRecorded
  <2>1. Len(file[h]) = asked[h] /\ Contiguous(h) /\ file[h] \in Seq(Pieces) /\ asked[h] \in Nat
    BY DEF IInv, Records, Complete, Types
  <2>2. ASSUME asked[h] > 0
        PROVE  file[h] = Run(file[h][1], asked[h]) /\ file[h][1] % Parts = 0
    <3>1. file[h] # <<>> /\ file[h][1] \in Nat
      <4>1. 1 \in 1 .. Len(file[h])
        BY <2>1, <2>2
      <4>2. file[h][1] \in Pieces
        BY <2>1, <4>1, ElementOfSeq
      <4>3. file[h] # <<>>
        BY <2>1, <2>2, EmptySeq
      <4> QED
        BY <4>2, <4>3, Numbering
    <3>2. /\ Run(file[h][1], asked[h]) \in Seq(Pieces)
          /\ Len(Run(file[h][1], asked[h])) = asked[h]
          /\ \A i \in 1 .. asked[h] :
               Run(file[h][1], asked[h])[i] = (file[h][1] + (i - 1)) % Total
      BY <2>1, <3>1, RunProperties
    <3>3. file[h] = Run(file[h][1], asked[h])
      BY <2>1, <3>2, SeqEqual DEF Contiguous
    <3> QED
      BY <2>1, <3>1, <3>3 DEF Contiguous
  <2> QED
    BY <2>1, <2>2
<1> QED
  BY <1>1, Invariant, PTL
=============================================================================
