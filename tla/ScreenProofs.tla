--------------------------- MODULE ScreenProofs ---------------------------
(***************************************************************************)
(* Proofs about the screen: the staging of its records (ScreenDeposit) and *)
(* the banded deposit of a batch of them (SplatBands).                     *)
(***************************************************************************)
EXTENDS ScreenDeposit, SplatBands, SequenceTheorems, WellFoundedInduction, TLAPS

-----------------------------------------------------------------------------
(***************************************************************************)
(* Proofs about ScreenDeposit, for any block length, preparation, growth   *)
(* and any number of records and fields.                                   *)
(***************************************************************************)

Values == Nat \cup {Fade, Junk}

(* The states of the backend; its storage holds what is committed.         *)
Backends ==
  {b \in [bright : Seq(Values), owed : BOOLEAN, latch : {"None", "Live", "Copied"},
          copied : Seq(Values), mem : Seq(Values), size : Nat, block : Nat] :
     b.size <= Len(b.mem)}

Slabs == {sl \in [block : Nat, base : Nat, len : Nat, n : Nat] : sl.n <= sl.len}

(* A slab in use lies right after the committed run of the storage the     *)
(* backend has now.                                                        *)
Aligned(b, sl) ==
  sl.len > 0 => sl.block = b.block /\ sl.base = b.size /\ b.size + sl.len <= Len(b.mem)

(* The Screen holds no slab when the field fades, and a sample is due      *)
(* inside process().                                                       *)
Phased ==
  /\ pc = "boundary" => slab = NoSlab /\ fields < MaxFields
  /\ pc # "idle" => left > 0

IInv ==
  /\ TypeOK
  /\ be \in Backends /\ slab \in Slabs /\ Aligned(be, slab)
  /\ Phased
  /\ latched => be.latch # "None"
-----------------------------------------------------------------------------
(* The backend's operations.                                               *)

LEMMA LightParts ==
  ASSUME NEW b \in Backends
  PROVE  /\ Committed(b) \in Seq(Values) /\ Len(Committed(b)) = b.size
         /\ \A i \in 1 .. b.size : Committed(b)[i] = b.mem[i]
         /\ Debts(b) \in Seq(Values) /\ b.bright \o Debts(b) \in Seq(Values)
         /\ Light(b) \in Seq(Values)
<1>1. b.bright \in Seq(Values) /\ b.mem \in Seq(Values) /\ b.size \in Nat /\ b.size <= Len(b.mem)
  BY DEF Backends
<1>2. \A i \in 1 .. b.size : b.mem[i] \in Values
  BY <1>1, ElementOfSeq
<1>3. /\ Committed(b) \in Seq(Values) /\ Len(Committed(b)) = b.size
      /\ \A i \in 1 .. b.size : Committed(b)[i] = b.mem[i]
  BY <1>1, <1>2, SubSeqProperties DEF Committed
<1>4. Debts(b) \in Seq(Values)
  <2>1. Fade \in Values
    BY DEF Values
  <2>2. <<>> \in Seq(Values) /\ <<Fade>> \in Seq(Values)
    BY <2>1
  <2> QED
    BY <2>2 DEF Debts
<1>5. b.bright \o Debts(b) \in Seq(Values)
  BY <1>1, <1>4, ConcatProperties
<1>6. Light(b) \in Seq(Values)
  BY <1>3, <1>5, ConcatProperties DEF Light
<1> QED
  BY <1>3, <1>4, <1>5, <1>6

(* Two states with the same light.                                         *)
LEMMA SameLight ==
  ASSUME NEW b, NEW c, c.bright = b.bright, c.owed = b.owed, Committed(c) = Committed(b)
  PROVE  Light(c) = Light(b)
BY DEF Light, Debts

(* What is latched, and two states with the same latched light.            *)
LEMMA LatchedIs ==
  ASSUME NEW b \in Backends
  PROVE  LatchedLight(b) = IF b.latch = "None" THEN <<>>
                           ELSE IF b.latch = "Live" THEN <<b.bright>> ELSE <<b.copied>>
<1>1. b.latch \in {"None", "Live", "Copied"}
  BY DEF Backends
<1>2. b.latch = "Live" => LatchedFrame(b) = b.bright
  BY DEF LatchedFrame
<1>3. b.latch = "Copied" => LatchedFrame(b) = b.copied
  BY DEF LatchedFrame
<1> QED
  BY <1>1, <1>2, <1>3 DEF LatchedLight

LEMMA SameLatched ==
  ASSUME NEW b \in Backends, NEW c \in Backends,
         c.bright = b.bright, c.latch = b.latch, c.copied = b.copied
  PROVE  LatchedLight(c) = LatchedLight(b)
BY LatchedIs

(* With nothing owed and nothing committed, the light is what has landed.  *)
LEMMA LandedLight ==
  ASSUME NEW b \in Backends, ~b.owed, b.size = 0
  PROVE  Light(b) = b.bright
<1>1. b.bright \in Seq(Values)
  BY DEF Backends
<1>2. Committed(b) = <<>>
  BY SubSeqEmpty DEF Committed
<1>3. Debts(b) = <<>>
  BY DEF Debts
<1> QED
  BY <1>1, <1>2, <1>3, ConcatEmptySeq DEF Light

LEMMA JunkIsValues ==
  ASSUME NEW n \in Nat
  PROVE  JunkSlots(n) \in Seq(Values) /\ Len(JunkSlots(n)) = n
BY DEF JunkSlots, Values

(* land() moves the light on, keeps it, and keeps what was latched.        *)
LEMMA LandFacts ==
  ASSUME NEW b \in Backends
  PROVE  /\ Land(b) \in Backends
         /\ ~Land(b).owed /\ Land(b).size = 0 /\ Land(b).bright = Light(b)
         /\ Light(Land(b)) = Light(b) /\ LatchedLight(Land(b)) = LatchedLight(b)
         /\ Land(b).latch = "None" <=> b.latch = "None"
<1> DEFINE c == Land(b)
<1>1. CASE ~b.owed /\ b.size = 0
  <2>1. Land(b) = b
    BY <1>1 DEF Land
  <2> QED
    BY <1>1, <2>1, LandedLight
<1>2. CASE ~(~b.owed /\ b.size = 0)
  <2>1. /\ b.bright \in Seq(Values) /\ b.copied \in Seq(Values) /\ b.mem \in Seq(Values)
        /\ b.block \in Nat /\ b.latch \in {"None", "Live", "Copied"} /\ Len(b.mem) \in Nat
    BY DEF Backends
  <2>2. c = [bright |-> Light(b), owed |-> FALSE,
             latch |-> IF b.latch = "Live" THEN "Copied" ELSE b.latch,
             copied |-> IF b.latch = "Live" THEN b.bright ELSE b.copied,
             mem |-> JunkSlots(Len(b.mem)), size |-> 0, block |-> b.block]
    BY <1>2 DEF Land, Light, Capacity, Backends
  <2>3. Light(b) \in Seq(Values)
    BY LightParts
  <2>4. JunkSlots(Len(b.mem)) \in Seq(Values) /\ Len(JunkSlots(Len(b.mem))) \in Nat
    BY <2>1, JunkIsValues
  <2>5. c \in Backends
    BY <2>1, <2>2, <2>3, <2>4 DEF Backends
  <2>6. ~c.owed /\ c.size = 0 /\ c.bright = Light(b) /\ (c.latch = "None" <=> b.latch = "None")
    BY <2>1, <2>2
  <2>7. Light(c) = Light(b)
    BY <2>5, <2>6, LandedLight
  <2>8. LatchedLight(c) = LatchedLight(b)
    BY <2>1, <2>2, <2>5, LatchedIs
  <2> QED
    BY <2>5, <2>6, <2>7, <2>8
<1> QED
  BY <1>1, <1>2

(* end_field(): the fade comes after everything committed so far.          *)
LEMMA EndFieldFacts ==
  ASSUME NEW b \in Backends
  PROVE  /\ EndField(b) \in Backends
         /\ Light(EndField(b)) = Append(Light(b), Fade)
         /\ LatchedLight(EndField(b)) = LatchedLight(b)
         /\ EndField(b).latch = "None" <=> b.latch = "None"
<1> DEFINE c == EndField(b)
<1>1. /\ Land(b) \in Backends /\ Land(b).size = 0 /\ Land(b).bright = Light(b)
      /\ LatchedLight(Land(b)) = LatchedLight(b)
      /\ Land(b).latch = "None" <=> b.latch = "None"
  BY LandFacts
<1>2. c = [Land(b) EXCEPT !.owed = TRUE]
  BY DEF EndField
<1>3. /\ c \in Backends /\ c.owed = TRUE /\ c.size = 0 /\ c.bright = Light(b)
      /\ c.latch = Land(b).latch /\ c.copied = Land(b).copied
  BY <1>1, <1>2 DEF Backends
<1>4. Light(c) = Append(Light(b), Fade)
  <2>1. Light(b) \in Seq(Values) /\ Fade \in Values
    BY LightParts DEF Values
  <2>2. Debts(c) = <<Fade>>
    BY <1>3 DEF Debts
  <2>3. Committed(c) = <<>>
    BY <1>3, SubSeqEmpty DEF Committed
  <2>4. Append(Light(b), Fade) = Light(b) \o <<Fade>>
    BY <2>1, AppendIsConcat
  <2>5. Light(b) \o <<Fade>> \in Seq(Values)
    BY <2>1, <2>4, AppendProperties
  <2>6. (Light(b) \o <<Fade>>) \o <<>> = Light(b) \o <<Fade>>
    BY <2>5, ConcatEmptySeq
  <2> QED
    BY <1>3, <2>2, <2>3, <2>4, <2>6 DEF Light
<1>5. LatchedLight(c) = LatchedLight(Land(b))
  BY <1>1, <1>3, SameLatched
<1> QED
  BY <1>1, <1>3, <1>4, <1>5

(* latch(): from now on the latched light is the light of this moment.     *)
LEMMA LatchFacts ==
  ASSUME NEW b \in Backends
  PROVE  /\ LatchNow(b) \in Backends
         /\ Light(LatchNow(b)) = Light(b)
         /\ LatchedLight(LatchNow(b)) = <<Light(b)>>
         /\ LatchNow(b).latch # "None"
<1> DEFINE a == [b EXCEPT !.latch = "None"]
           c == LatchNow(b)
<1>1. a \in Backends /\ a.bright = b.bright /\ a.owed = b.owed /\ a.mem = b.mem /\ a.size = b.size
  BY DEF Backends
<1>2. Light(a) = Light(b)
  <2>1. Committed(a) = Committed(b)
    BY <1>1 DEF Committed
  <2> QED
    BY <1>1, <2>1, SameLight
<1> HIDE DEF a
<1>3. /\ Land(a) \in Backends /\ ~Land(a).owed /\ Land(a).size = 0 /\ Land(a).bright = Light(a)
  BY <1>1, LandFacts
<1>4. c = [Land(a) EXCEPT !.latch = "Live"]
  BY DEF LatchNow, a
<1>5. /\ c \in Backends /\ ~c.owed /\ c.size = 0 /\ c.bright = Light(a) /\ c.latch = "Live"
  BY <1>3, <1>4 DEF Backends
<1>6. Light(c) = Light(b)
  BY <1>2, <1>5, LandedLight
<1>7. LatchedLight(c) = <<Light(b)>>
  BY <1>2, <1>5, LatchedIs
<1> QED
  BY <1>5, <1>6, <1>7

(* flush() commits the slab's records and nothing else.                    *)
LEMMA FlushFacts ==
  ASSUME NEW b \in Backends, NEW sl \in Slabs, Aligned(b, sl)
  PROVE  LET c == Flushed(b, sl) IN
         /\ c \in Backends /\ c.size = b.size + sl.n
         /\ c.bright = b.bright /\ c.owed = b.owed /\ c.latch = b.latch /\ c.copied = b.copied
         /\ c.mem = b.mem /\ c.block = b.block
         /\ LatchedLight(c) = LatchedLight(b)
<1> DEFINE c == Flushed(b, sl)
<1>1. /\ b.size \in Nat /\ Len(b.mem) \in Nat /\ b.mem \in Seq(Values) /\ b.size <= Len(b.mem)
      /\ sl.n \in Nat /\ sl.len \in Nat /\ sl.n <= sl.len
  BY DEF Backends, Slabs
<1>2. c = IF sl.n > 0 THEN [b EXCEPT !.size = b.size + sl.n] ELSE b
  BY DEF Flushed, Commit
<1>3. sl.n > 0 => b.size + sl.n <= Len(b.mem)
  BY <1>1 DEF Aligned
<1>4. /\ c.size = b.size + sl.n
      /\ c.bright = b.bright /\ c.owed = b.owed /\ c.latch = b.latch /\ c.copied = b.copied
      /\ c.mem = b.mem /\ c.block = b.block
  BY <1>1, <1>2 DEF Backends
<1>5. c \in Backends
  <2>1. CASE sl.n > 0
    <3>1. b.size + sl.n \in Nat /\ b.size + sl.n <= Len(b.mem)
      BY <1>1, <1>3, <2>1
    <3>2. c = [bright |-> b.bright, owed |-> b.owed, latch |-> b.latch, copied |-> b.copied,
               mem |-> b.mem, size |-> b.size + sl.n, block |-> b.block]
      BY <1>2, <2>1 DEF Backends
    <3> QED
      BY <3>1, <3>2 DEF Backends
  <2>2. CASE ~(sl.n > 0)
    BY <1>2, <2>2
  <2> QED
    BY <2>1, <2>2
<1>6. LatchedLight(c) = LatchedLight(b)
  BY <1>4, <1>5, SameLatched
<1> QED
  BY <1>4, <1>5, <1>6

(* acquire() keeps what is committed, wherever the storage goes.           *)
LEMMA AcquireFacts ==
  ASSUME NEW b \in Backends, NEW max \in Nat
  PROVE  LET c == Acquire(b, max) IN
         /\ c \in Backends /\ c.size = b.size /\ b.size + max <= Len(c.mem)
         /\ c.bright = b.bright /\ c.owed = b.owed /\ c.latch = b.latch /\ c.copied = b.copied
         /\ Light(c) = Light(b) /\ LatchedLight(c) = LatchedLight(b)
<1> DEFINE c == Acquire(b, max)
<1>1. /\ b.size \in Nat /\ Len(b.mem) \in Nat /\ b.mem \in Seq(Values) /\ b.size <= Len(b.mem)
      /\ b.block \in Nat
  BY DEF Backends
<1>2. CASE b.size + max <= Len(b.mem)
  <2>1. c = b
    BY <1>1, <1>2 DEF Acquire, Capacity
  <2> QED
    BY <1>2, <2>1
<1>3. CASE ~(b.size + max <= Len(b.mem))
  <2>1. PICK n \in Nat : n >= b.size + max /\ c = Reserve(b, n)
    BY <1>1, <1>3, CpuDepositAssumption DEF Acquire, Capacity
  <2>2. c = [b EXCEPT !.mem = Committed(b) \o JunkSlots(n - b.size), !.block = b.block + 1]
    BY <1>1, <1>3, <2>1 DEF Reserve, Capacity
  <2> DEFINE m == Committed(b) \o JunkSlots(n - b.size)
  <2>3. /\ Committed(b) \in Seq(Values) /\ Len(Committed(b)) = b.size
        /\ \A i \in 1 .. b.size : Committed(b)[i] = b.mem[i]
    BY LightParts
  <2>4. n - b.size \in Nat
    BY <1>1, <2>1
  <2>5. JunkSlots(n - b.size) \in Seq(Values) /\ Len(JunkSlots(n - b.size)) = n - b.size
    BY <2>4, JunkIsValues
  <2>6. m \in Seq(Values) /\ Len(m) = b.size + (n - b.size)
    <3>1. m \in Seq(Values) /\ Len(m) = Len(Committed(b)) + Len(JunkSlots(n - b.size))
      BY <2>3, <2>5, ConcatProperties, Zenon
    <3> QED
      BY <2>3, <2>5, <3>1, Zenon
  <2>7. Len(m) = n
    BY <1>1, <2>1, <2>6
  <2>8. \A i \in 1 .. b.size : m[i] = Committed(b)[i]
    <3>1. ASSUME NEW i \in 1 .. b.size PROVE m[i] = Committed(b)[i]
      <4>1. i \in 1 .. Len(Committed(b)) + Len(JunkSlots(n - b.size)) /\ i <= Len(Committed(b))
        BY <1>1, <2>3, <2>4, <2>5
      <4> QED
        BY <2>3, <2>5, <4>1, ConcatProperties
    <3> QED
      BY <3>1
  <2> HIDE DEF m
  <2>9. /\ c.size = b.size /\ c.mem = m /\ c.bright = b.bright /\ c.owed = b.owed
        /\ c.latch = b.latch /\ c.copied = b.copied
    BY <2>2 DEF Backends, m
  <2>10. c \in Backends
    <3>1. c = [bright |-> b.bright, owed |-> b.owed, latch |-> b.latch, copied |-> b.copied,
               mem |-> m, size |-> b.size, block |-> b.block + 1]
      BY <2>2 DEF m, Backends
    <3>2. b.size <= Len(m) /\ b.block + 1 \in Nat
      BY <1>1, <2>1, <2>7
    <3> QED
      BY <2>6, <3>1, <3>2 DEF Backends
  <2>11. Committed(c) = Committed(b)
    <3>1. /\ Committed(c) \in Seq(Values) /\ Len(Committed(c)) = b.size
          /\ \A i \in 1 .. b.size : Committed(c)[i] = m[i]
      BY <2>9, <2>10, LightParts
    <3> QED
      BY <2>3, <2>8, <3>1, SeqEqual
  <2>12. b.size + max <= Len(c.mem)
    BY <2>1, <2>7, <2>9
  <2> QED
    BY <2>9, <2>10, <2>11, <2>12, SameLight, SameLatched
<1> QED
  BY <1>1, <1>2, <1>3

(* A record stored through an aligned slab with room is the next one of    *)
(* the light once the slab is flushed.                                     *)
LEMMA RecordFacts ==
  ASSUME NEW b \in Backends, NEW sl \in Slabs, Aligned(b, sl), sl.n < sl.len, NEW r \in Nat
  PROVE  LET c == Record(b, sl, r)
             s2 == [sl EXCEPT !.n = sl.n + 1]
         IN /\ c \in Backends /\ s2 \in Slabs /\ Aligned(c, s2) /\ c.latch = b.latch
            /\ Light(Flushed(c, s2)) = Append(Light(Flushed(b, sl)), r)
            /\ LatchedLight(c) = LatchedLight(b)
<1> DEFINE c == Record(b, sl, r)
           s2 == [sl EXCEPT !.n = sl.n + 1]
           i  == b.size + sl.n + 1
           x  == Flushed(b, sl)
           y  == Flushed(c, s2)
<1>1. /\ b.size \in Nat /\ Len(b.mem) \in Nat /\ b.mem \in Seq(Values) /\ b.size <= Len(b.mem)
      /\ sl.n \in Nat /\ sl.len \in Nat /\ sl.block = b.block /\ sl.base = b.size
      /\ b.size + sl.len <= Len(b.mem)
  BY DEF Backends, Slabs, Aligned
<1>2. i \in 1 .. Len(b.mem) /\ r \in Values
  BY <1>1 DEF Values
<1>3. c = [b EXCEPT !.mem = [b.mem EXCEPT ![i] = r]]
  BY <1>1 DEF Record, Store, Backends
<1> DEFINE m == [b.mem EXCEPT ![i] = r]
<1>4. /\ m \in Seq(Values) /\ Len(m) = Len(b.mem)
      /\ \A j \in 1 .. Len(b.mem) : m[j] = IF j = i THEN r ELSE b.mem[j]
  BY <1>1, <1>2, ExceptSeq
<1> HIDE DEF m
<1>5. /\ c.mem = m /\ c.size = b.size /\ c.block = b.block /\ c.bright = b.bright
      /\ c.owed = b.owed /\ c.latch = b.latch /\ c.copied = b.copied
  BY <1>3 DEF Backends, m
<1>6. c \in Backends
  <2>1. c = [bright |-> b.bright, owed |-> b.owed, latch |-> b.latch, copied |-> b.copied,
             mem |-> m, size |-> b.size, block |-> b.block]
    BY <1>3 DEF m, Backends
  <2>2. b.size <= Len(m)
    BY <1>1, <1>4
  <2> QED
    BY <1>4, <2>1, <2>2 DEF Backends
<1>7. s2 \in Slabs /\ s2.n = sl.n + 1 /\ s2.len = sl.len /\ s2.block = sl.block /\ s2.base = sl.base
  BY <1>1 DEF Slabs
<1>8. Aligned(c, s2)
  BY <1>1, <1>4, <1>5, <1>7 DEF Aligned
<1> HIDE DEF c, s2
<1>9. x \in Backends /\ x.size = b.size + sl.n /\ x.mem = b.mem /\ x.bright = b.bright /\ x.owed = b.owed
  BY FlushFacts
<1>10. y \in Backends /\ y.size = i /\ y.mem = m /\ y.bright = b.bright /\ y.owed = b.owed
  <2>1. y \in Backends /\ y.size = c.size + s2.n /\ y.mem = c.mem /\ y.bright = c.bright /\ y.owed = c.owed
    BY <1>6, <1>7, <1>8, FlushFacts
  <2> QED
    BY <1>1, <1>5, <1>7, <2>1
<1>11. Committed(y) = Append(Committed(x), r)
  <2>1. /\ Committed(x) \in Seq(Values) /\ Len(Committed(x)) = b.size + sl.n
        /\ \A j \in 1 .. b.size + sl.n : Committed(x)[j] = b.mem[j]
    BY <1>9, LightParts
  <2>2. /\ Committed(y) \in Seq(Values) /\ Len(Committed(y)) = i
        /\ \A j \in 1 .. i : Committed(y)[j] = m[j]
    BY <1>10, LightParts
  <2>3. /\ Append(Committed(x), r) \in Seq(Values) /\ Len(Append(Committed(x), r)) = i
        /\ \A j \in 1 .. b.size + sl.n : Append(Committed(x), r)[j] = Committed(x)[j]
        /\ Append(Committed(x), r)[i] = r
    BY <1>2, <2>1, AppendProperties
  <2>4. ASSUME NEW j \in 1 .. i PROVE Committed(y)[j] = Append(Committed(x), r)[j]
    <3>1. j \in 1 .. Len(b.mem) /\ (j = i \/ j \in 1 .. b.size + sl.n)
      BY <1>1, <1>2
    <3> QED
      BY <1>1, <1>4, <2>1, <2>2, <2>3, <3>1
  <2> QED
    BY <2>2, <2>3, <2>4, SeqEqual
<1>12. Light(y) = Append(Light(x), r)
  <2> DEFINE base == b.bright \o Debts(x)
  <2>1. Debts(y) = Debts(x)
    BY <1>9, <1>10 DEF Debts
  <2>2. Light(x) = base \o Committed(x) /\ Light(y) = base \o Append(Committed(x), r)
    BY <1>9, <1>10, <1>11, <2>1 DEF Light
  <2>3. base \in Seq(Values) /\ Committed(x) \in Seq(Values) /\ Light(x) \in Seq(Values)
    BY <1>9, LightParts
  <2> HIDE DEF base
  <2>4. Append(Committed(x), r) = Committed(x) \o <<r>> /\ Append(Light(x), r) = Light(x) \o <<r>>
    BY <1>2, <2>3, AppendIsConcat
  <2>5. <<r>> \in Seq(Values)
    BY <1>2
  <2>6. (base \o Committed(x)) \o <<r>> = base \o (Committed(x) \o <<r>>)
    BY <2>3, <2>5, ConcatAssociative
  <2> QED
    BY <2>2, <2>4, <2>6
<1>13. LatchedLight(c) = LatchedLight(b)
  BY <1>5, <1>6, SameLatched
<1> QED
  BY <1>5, <1>6, <1>7, <1>8, <1>12, <1>13 DEF c, s2
-----------------------------------------------------------------------------
(* The Screen's handlers.                                                  *)

(* What every handler that flushes starts from.                            *)
LEMMA FlushedScreen ==
  ASSUME IInv
  PROVE  /\ Flushed(be, slab) \in Backends /\ Flushed(be, slab).latch = be.latch
         /\ LatchedLight(Flushed(be, slab)) = LatchedLight(be)
         /\ be \in Backends
BY FlushFacts DEF IInv

LEMMA NoSlabFacts ==
  /\ NoSlab \in Slabs /\ NoSlab.n = 0 /\ NoSlab.len = 0
  /\ \A b : Aligned(b, NoSlab) /\ Flushed(b, NoSlab) = b
BY DEF NoSlab, Slabs, Aligned, Flushed

(* What a handler that leaves the backend in state b, with no slab, keeps. *)
LEMMA BackendTyped ==
  ASSUME NEW b \in Backends
  PROVE  /\ b.size \in 0 .. Capacity(b)
         /\ b.latch \in {"None", "Live", "Copied"} /\ b.owed \in BOOLEAN
BY DEF Backends, Capacity

(* A record enters the light: the slab has room, or a new span is staged.  *)
LEMMA PaintFacts ==
  ASSUME NEW b \in Backends, NEW sl \in Slabs, Aligned(b, sl), NEW max \in Nat \ {0}, NEW r \in Nat,
         NEW b2, NEW sl2,
         IF sl.n = sl.len
         THEN LET b1  == Acquire(Flushed(b, sl), max)
                  sl1 == SpanOf(b1, max)
              IN b2 = Record(b1, sl1, r) /\ sl2 = [sl1 EXCEPT !.n = 1]
         ELSE b2 = Record(b, sl, r) /\ sl2 = [sl EXCEPT !.n = @ + 1]
  PROVE  /\ b2 \in Backends /\ sl2 \in Slabs /\ Aligned(b2, sl2) /\ b2.latch = b.latch
         /\ Light(Flushed(b2, sl2)) = Append(Light(Flushed(b, sl)), r)
         /\ LatchedLight(b2) = LatchedLight(b)
<1>1. CASE sl.n # sl.len
  <2>1. sl.n < sl.len /\ sl2 = [sl EXCEPT !.n = sl.n + 1] /\ b2 = Record(b, sl, r)
    BY <1>1 DEF Slabs
  <2> QED
    BY <2>1, RecordFacts
<1>2. CASE sl.n = sl.len
  <2> DEFINE f   == Flushed(b, sl)
             b1  == Acquire(f, max)
             sl1 == SpanOf(b1, max)
  <2>1. f \in Backends /\ f.latch = b.latch /\ LatchedLight(f) = LatchedLight(b)
    BY FlushFacts
  <2> HIDE DEF f
  <2>2. /\ b1 \in Backends /\ b1.size = f.size /\ f.size + max <= Len(b1.mem)
        /\ b1.latch = f.latch /\ Light(b1) = Light(f) /\ LatchedLight(b1) = LatchedLight(f)
    BY <2>1, AcquireFacts
  <2>3. b2 = Record(b1, sl1, r) /\ sl2 = [sl1 EXCEPT !.n = 1]
    BY <1>2 DEF f
  <2> HIDE DEF b1
  <2>4. /\ sl1 = [block |-> b1.block, base |-> b1.size, len |-> max, n |-> 0]
        /\ sl1 \in Slabs /\ sl1.n < sl1.len /\ Aligned(b1, sl1) /\ Flushed(b1, sl1) = b1
    <3>1. b1.block \in Nat /\ b1.size \in Nat
      BY <2>2 DEF Backends
    <3> QED
      BY <2>2, <3>1 DEF SpanOf, Slabs, Aligned, Flushed
  <2>5. sl2 = [sl1 EXCEPT !.n = sl1.n + 1]
    BY <2>3, <2>4
  <2> HIDE DEF sl1
  <2>6. /\ b2 \in Backends /\ sl2 \in Slabs /\ Aligned(b2, sl2) /\ b2.latch = b1.latch
        /\ Light(Flushed(b2, sl2)) = Append(Light(Flushed(b1, sl1)), r)
        /\ LatchedLight(b2) = LatchedLight(b1)
    BY <2>2, <2>3, <2>4, <2>5, RecordFacts, SMTT(30)
  <2> QED
    BY <2>1, <2>2, <2>4, <2>6 DEF f
<1> QED
  BY <1>1, <1>2

(* A sample, of a line that goes on or of one that starts.                 *)
LEMMA NextSampleFacts ==
  ASSUME IInv, NEW b \in Backends, NEW sl \in Slabs, NEW live \in BOOLEAN, Aligned(b, sl),
         b.latch = be.latch, LatchedLight(b) = LatchedLight(be),
         Light(Flushed(b, sl)) = Light(Flushed(be, slab)),
         NextSample(b, sl, live)
  PROVE  IInv' /\ [Eager!Next]_(Eager!vars)
<1>1. /\ left \in Nat \ {0} /\ left <= MaxBlock /\ MaxBlock \in Nat
      /\ painted \in Nat /\ painted <= MaxSplats /\ MaxSplats \in Nat
  BY ScreenAssumption DEF IInv, TypeOK, Phased, NextSample
<1>2. /\ UNCHANGED <<latched, fields, shown>>
      /\ left' = left - 1 /\ pc' = IF left = 1 THEN "idle" ELSE "sample"
  BY DEF NextSample
<1>3. /\ be' \in Backends /\ slab' \in Slabs /\ Aligned(be', slab') /\ be'.latch = be.latch
      /\ LatchedLight(be') = LatchedLight(be) /\ spanLive' \in BOOLEAN
      /\ \/ painted' = painted /\ Light(Flushed(be', slab')) = Light(Flushed(be, slab))
         \/ /\ painted' = painted + 1 /\ painted < MaxSplats
            /\ Light(Flushed(be', slab')) = Append(Light(Flushed(be, slab)), painted')
  <2>1. CASE be' = b /\ slab' = sl /\ spanLive' = live /\ UNCHANGED painted
    BY <2>1
  <2>2. CASE /\ painted < MaxSplats
             /\ painted' = painted + 1
             /\ IF sl.n = sl.len
                THEN LET b2 == Acquire(Flushed(b, sl), left)
                         sl2 == SpanOf(b2, left)
                     IN /\ be' = Record(b2, sl2, painted')
                        /\ slab' = [sl2 EXCEPT !.n = 1]
                        /\ spanLive' = TRUE
                ELSE /\ be' = Record(b, sl, painted')
                     /\ slab' = [sl EXCEPT !.n = @ + 1]
                     /\ spanLive' = live
    <3>1. spanLive' \in BOOLEAN
      BY <2>2
    <3>2. IF sl.n = sl.len
          THEN LET b1  == Acquire(Flushed(b, sl), left)
                   sl1 == SpanOf(b1, left)
               IN be' = Record(b1, sl1, painted') /\ slab' = [sl1 EXCEPT !.n = 1]
          ELSE be' = Record(b, sl, painted') /\ slab' = [sl EXCEPT !.n = @ + 1]
      BY <2>2
    <3>3. painted' \in Nat
      BY <1>1, <2>2
    <3>4. /\ be' \in Backends /\ slab' \in Slabs /\ Aligned(be', slab') /\ be'.latch = b.latch
          /\ Light(Flushed(be', slab')) = Append(Light(Flushed(b, sl)), painted')
          /\ LatchedLight(be') = LatchedLight(b)
      BY <1>1, <3>2, <3>3, PaintFacts
    <3> QED
      BY <2>2, <3>1, <3>4
  <2> QED
    BY <2>1, <2>2 DEF NextSample
<1>4. TypeOK'
  <2>1. /\ be'.size \in 0 .. Capacity(be') /\ be'.latch \in {"None", "Live", "Copied"}
        /\ be'.owed \in BOOLEAN
    BY <1>3, BackendTyped
  <2>2. slab'.n \in 0 .. slab'.len
    BY <1>3 DEF Slabs
  <2>3. left' \in 0 .. MaxBlock /\ pc' \in {"idle", "sample", "boundary", "rest"}
    BY <1>1, <1>2
  <2>4. painted' \in 0 .. MaxSplats
    BY <1>1, <1>3
  <2>5. latched' \in BOOLEAN /\ fields' \in 0 .. MaxFields
    BY <1>2 DEF IInv, TypeOK
  <2> QED
    BY <1>3, <2>1, <2>2, <2>3, <2>4, <2>5 DEF TypeOK
<1>5. Phased' /\ (latched' => be'.latch # "None")
  BY <1>1, <1>2, <1>3 DEF IInv, Phased
<1>6. [Eager!Next]_(Eager!vars)
  BY <1>2, <1>3 DEF Eager!Next, Eager!Paint, Eager!vars
<1> QED
  BY <1>3, <1>4, <1>5, <1>6 DEF IInv

LEMMA InitHolds == Init => IInv /\ Eager!Init
<1> SUFFICES ASSUME Init PROVE IInv /\ Eager!Init
  OBVIOUS
<1>1. /\ Backend0 \in Backends /\ ~Backend0.owed /\ Backend0.size = 0 /\ Backend0.bright = <<>>
      /\ Backend0.latch = "None" /\ Len(Backend0.mem) = 0
  BY DEF Backend0, Backends
<1>2. Prepared \in Nat /\ MaxBlock \in Nat \ {0} /\ MaxSplats \in Nat /\ MaxFields \in Nat
  BY ScreenAssumption
<1>3. be \in Backends /\ ~be.owed /\ be.size = 0 /\ be.bright = <<>> /\ be.latch = "None"
  <2>1. CASE Prepared <= Len(Backend0.mem)
    <3>1. be = Backend0
      BY <2>1 DEF Init, Reserve, Capacity
    <3> QED
      BY <1>1, <3>1
  <2>2. CASE ~(Prepared <= Len(Backend0.mem))
    <3>1. be = [bright |-> <<>>, owed |-> FALSE, latch |-> "None", copied |-> <<>>,
                mem |-> Committed(Backend0) \o JunkSlots(Prepared - 0), size |-> 0, block |-> 0 + 1]
      BY <2>2 DEF Init, Reserve, Capacity, Backend0
    <3>2. Committed(Backend0) \in Seq(Values) /\ JunkSlots(Prepared - 0) \in Seq(Values)
      BY <1>1, <1>2, LightParts, JunkIsValues
    <3>3. Committed(Backend0) \o JunkSlots(Prepared - 0) \in Seq(Values)
      BY <3>2, ConcatProperties
    <3>4. <<>> \in Seq(Values)
      BY EmptySeq
    <3> HIDE DEF JunkSlots
    <3>5. Len(Committed(Backend0) \o JunkSlots(Prepared - 0)) \in Nat
      BY <3>3
    <3> QED
      BY <3>1, <3>3, <3>4, <3>5 DEF Backends
  <2> QED
    BY <2>1, <2>2
<1>4. slab = NoSlab /\ Flushed(be, slab) = be /\ slab \in Slabs /\ Aligned(be, slab)
  BY NoSlabFacts DEF Init
<1>5. Light(be) = <<>> /\ LatchedLight(be) = <<>>
  BY <1>3, LandedLight, LatchedIs
<1>6. TypeOK
  <2>1. /\ be.size \in 0 .. Capacity(be) /\ be.latch \in {"None", "Live", "Copied"}
        /\ be.owed \in BOOLEAN
    BY <1>3, BackendTyped
  <2>2. slab.n \in 0 .. slab.len
    BY <1>4, NoSlabFacts
  <2>3. left = 0 /\ painted = 0 /\ fields = 0 /\ pc = "idle"
    BY DEF Init
  <2>4. left \in 0 .. MaxBlock /\ painted \in 0 .. MaxSplats /\ fields \in 0 .. MaxFields
    BY <1>2, <2>3
  <2>5. latched \in BOOLEAN /\ spanLive \in BOOLEAN
    BY Zenon DEF Init
  <2> QED
    BY <2>1, <2>2, <2>3, <2>4, <2>5 DEF TypeOK
<1>7. IInv
  BY <1>3, <1>4, <1>6 DEF IInv, Phased, Init
<1>8. Eager!Init
  BY <1>4, <1>5 DEF Init, Eager!Init
<1> QED
  BY <1>7, <1>8

LEMMA StepHolds ==
  ASSUME IInv, [Next]_vars
  PROVE  IInv' /\ [Eager!Next]_(Eager!vars)
<1>1. /\ MaxBlock \in Nat \ {0} /\ MaxSplats \in Nat /\ MaxFields \in Nat
      /\ be \in Backends /\ slab \in Slabs /\ Aligned(be, slab)
  BY ScreenAssumption DEF IInv
<1> DEFINE f == Flushed(be, slab)
<1>2. /\ f \in Backends /\ f.latch = be.latch /\ LatchedLight(f) = LatchedLight(be)
  BY FlushedScreen
(* A handler that ends without a slab.                                     *)
<1>3. ASSUME be' \in Backends, slab' = NoSlab, latched' => be'.latch # "None",
             pc' \in {"idle", "sample", "boundary", "rest"}, left' \in 0 .. MaxBlock,
             latched' \in BOOLEAN, spanLive' \in BOOLEAN, painted' = painted,
             fields' \in 0 .. MaxFields, Phased'
      PROVE  IInv' /\ Flushed(be', slab') = be'
  <2>1. slab' \in Slabs /\ Aligned(be', slab') /\ slab'.n = 0 /\ slab'.len = 0
        /\ Flushed(be', slab') = be'
    BY <1>3, NoSlabFacts
  <2>2. /\ be'.size \in 0 .. Capacity(be') /\ be'.latch \in {"None", "Live", "Copied"}
        /\ be'.owed \in BOOLEAN
    BY <1>3, BackendTyped
  <2>3. TypeOK'
    BY <1>3, <2>1, <2>2 DEF TypeOK, IInv
  <2> QED
    BY <1>3, <2>1, <2>3 DEF IInv
<1>4. CASE Process
  <2>1. \E n \in 1 .. MaxBlock : left' = n
    BY <1>4 DEF Process
  <2>2. /\ left' \in 1 .. MaxBlock /\ pc' = "sample"
        /\ UNCHANGED <<be, slab, latched, painted, fields, shown, spanLive>>
    BY <1>4, <2>1 DEF Process
  <2>3. IInv'
    BY <2>2 DEF IInv, TypeOK, Phased, Aligned, Capacity
  <2> QED
    BY <2>2, <2>3 DEF Eager!vars
<1>5. CASE Retrace
  <2>1. /\ pc = "sample" /\ fields < MaxFields /\ be' = f /\ slab' = NoSlab
        /\ spanLive' = FALSE /\ pc' = "boundary"
        /\ UNCHANGED <<left, latched, painted, fields, shown>>
    BY <1>5 DEF Retrace
  <2>2. Phased'
    BY <2>1 DEF IInv, Phased
  <2>3. IInv' /\ Flushed(be', slab') = be'
    BY <1>2, <1>3, <2>1, <2>2 DEF IInv, TypeOK
  <2> QED
    BY <1>2, <2>1, <2>3 DEF Eager!vars
<1>6. CASE Snapshot
  <2>1. /\ pc \in {"boundary", "idle"} /\ shown' = <<LiveFrame(f)>> /\ be' = AfterReadout(f)
        /\ slab' = NoSlab /\ spanLive' = FALSE /\ UNCHANGED <<left, pc, latched, painted, fields>>
    BY <1>6 DEF Snapshot
  <2>2. /\ be' \in Backends /\ Light(be') = Light(f) /\ LatchedLight(be') = LatchedLight(f)
        /\ shown' = <<Light(f)>> /\ (be'.latch = "None" <=> f.latch = "None")
    BY <1>2, <2>1, LandFacts DEF LiveFrame, AfterReadout
  <2>3. Phased'
    BY <2>1 DEF IInv, Phased
  <2>4. IInv' /\ Flushed(be', slab') = be'
    BY <1>2, <1>3, <2>1, <2>2, <2>3 DEF IInv, TypeOK
  <2> QED
    BY <1>2, <2>1, <2>2, <2>4 DEF Eager!Next, Eager!Show
<1>7. CASE LatchBoundary
  <2>1. /\ pc = "boundary" /\ be' = LatchNow(f) /\ slab' = NoSlab /\ latched' = TRUE
        /\ spanLive' = FALSE /\ UNCHANGED <<left, pc, painted, fields, shown>>
    BY <1>7 DEF LatchBoundary
  <2>2. /\ be' \in Backends /\ Light(be') = Light(f) /\ LatchedLight(be') = <<Light(f)>>
        /\ be'.latch # "None"
    BY <1>2, <2>1, LatchFacts
  <2>3. Phased'
    BY <2>1 DEF IInv, Phased
  <2>4. IInv' /\ Flushed(be', slab') = be'
    BY <1>3, <2>1, <2>2, <2>3 DEF IInv, TypeOK
  <2> QED
    BY <2>1, <2>2, <2>4 DEF Eager!Next, Eager!Latch
<1>8. CASE FieldEnds
  <2>1. /\ pc = "boundary" /\ be' = EndField(be) /\ fields' = fields + 1 /\ spanLive' = FALSE
        /\ pc' = "rest" /\ UNCHANGED <<slab, left, latched, painted, shown>>
    BY <1>8 DEF FieldEnds
  <2>2. slab = NoSlab /\ f = be /\ fields < MaxFields /\ left > 0
    BY <2>1, NoSlabFacts DEF IInv, Phased
  <2>3. /\ be' \in Backends /\ Light(be') = Append(Light(f), Fade)
        /\ LatchedLight(be') = LatchedLight(be) /\ (be'.latch = "None" <=> be.latch = "None")
    BY <1>1, <2>1, <2>2, EndFieldFacts
  <2>4. Phased' /\ fields' \in 0 .. MaxFields
    BY <1>1, <2>1, <2>2 DEF IInv, TypeOK, Phased
  <2>5. IInv' /\ Flushed(be', slab') = be'
    BY <1>3, <2>1, <2>2, <2>3, <2>4 DEF IInv, TypeOK
  <2> QED
    BY <2>1, <2>3, <2>5 DEF Eager!Next, Eager!FadeField
<1>9. CASE Sample
  <2>1. CASE NextSample(be, slab, spanLive)
    BY <1>1, <2>1, NextSampleFacts DEF IInv, TypeOK
  <2>2. CASE NextSample(f, NoSlab, FALSE)
    <3>1. NoSlab \in Slabs /\ Aligned(f, NoSlab) /\ Flushed(f, NoSlab) = f
      BY NoSlabFacts
    <3> HIDE DEF f
    <3>2. Light(Flushed(f, NoSlab)) = Light(Flushed(be, slab))
      BY <3>1 DEF f
    <3> QED
      BY <1>2, <2>2, <3>1, <3>2, NextSampleFacts
  <2> QED
    BY <1>9, <2>1, <2>2 DEF Sample
<1>10. CASE LatchedFrameRead
  <2>1. /\ pc = "idle" /\ latched /\ shown' = <<LatchedFrame(be)>> /\ be' = AfterReadoutLatched(be)
        /\ spanLive' = FALSE /\ UNCHANGED <<slab, left, pc, latched, painted, fields>>
    BY <1>10 DEF LatchedFrameRead
  <2>2. be.latch # "None" /\ be' = be
    BY <2>1 DEF IInv, AfterReadoutLatched
  <2>3. IInv'
    BY <2>1, <2>2 DEF IInv, TypeOK, Phased, Aligned, Capacity
  <2>4. LatchedLight(be) = shown' /\ LatchedLight(be) # <<>>
    BY <2>1, <2>2 DEF LatchedLight
  <2> QED
    BY <2>1, <2>2, <2>3, <2>4 DEF Eager!Next, Eager!ShowLatched
<1>11. CASE vars' = vars
  <2>1. IInv'
    BY <1>11 DEF vars, IInv, TypeOK, Phased, Aligned, Capacity
  <2> QED
    BY <1>11, <2>1 DEF vars, Eager!vars
<1> QED
  BY <1>4, <1>5, <1>6, <1>7, <1>8, <1>9, <1>10, <1>11 DEF Next

(* The inductive invariant, the types among it.                            *)
THEOREM Invariant == Spec => []IInv
<1>1. IInv /\ [Next]_vars => IInv'
  BY StepHolds
<1> QED
  BY <1>1, InitHolds, PTL DEF Spec

(* Every variable of ScreenDeposit keeps its type.                         *)
THEOREM TypeCorrect == Spec => []TypeOK
<1>1. IInv => TypeOK
  BY DEF IInv
<1> QED
  BY <1>1, Invariant, PTL

(* The lazy, span-staged deposit is the eager phosphor to every reader.    *)
THEOREM ImplementsPhosphor == Spec => ShowsEagerPhosphor
<1>1. IInv /\ [Next]_vars => [Eager!Next]_(Eager!vars)
  BY StepHolds
<1> QED
  BY <1>1, Invariant, InitHolds, PTL DEF Spec, ShowsEagerPhosphor, Eager!Spec

-----------------------------------------------------------------------------
(***************************************************************************)
(* Proofs about SplatBands, for any frame height, any number of lanes and  *)
(* bands, and any batch of records.                                        *)
(***************************************************************************)

(* f lists the members of a set of numbers in ascending order.             *)
Lists(f, S) ==
  /\ Range(f) = S
  /\ \A j, k \in 1 .. Len(f) : j < k => f[j] < f[k]

(* The binned records that touch band b, that cover row r, and those among *)
(* band b's that its task has added.                                       *)
Touching(b) == {i \in 1 .. binned : b \in BinnedInto(recs[i])}
Covering(r) == {i \in 1 .. binned : r \in Splatted(recs[i], 0, Height)}
Added(b)    == {buckets[b][k] : k \in 1 .. at[b]}

(* The buckets and the serial loop keep the list order.                    *)
Binned ==
  /\ \A b \in Bands : Lists(buckets[b], Touching(b))
  /\ \A r \in Rows : Lists(serial[r], Covering(r))
  /\ phase # "bin" => binned = Len(recs)

(* A row has what the task of its band has added, in the list order.       *)
Deposited == \A r \in Rows : Lists(fb[r], Added(RowBand(r)) \cap Covering(r))

(* A task runs from its first record to its last, after the binning.       *)
Tasks ==
  \A b \in Bands :
    /\ at[b] >= 0 => phase # "bin" /\ (b \in running \/ at[b] = Len(buckets[b]))
    /\ b \in running => at[b] >= 0
    /\ phase = "done" => at[b] >= 0 /\ b \notin running

BandsIInv == BandsTypeOK /\ Binned /\ Deposited /\ Tasks
-----------------------------------------------------------------------------
(* The bands split the rows.                                               *)

(* A set of numbers has a least member.                                    *)
LEMMA LeastNumber ==
  ASSUME NEW T \in SUBSET Nat, T # {}
  PROVE  \E m \in T : \A n \in T : m <= n
<1> DEFINE R == OpToRel(<, Nat)
<1>1. IsWellFoundedOn(R, Nat)
  BY NatLessThanWellFounded
<1>2. \A x, y \in Nat : x < y => <<x, y>> \in R
  BY DEF OpToRel
<1> HIDE DEF R
<1>3. PICK x \in T : \A y \in T : ~ (<<y, x>> \in R)
  BY <1>1, WFMin
<1>4. \A y \in T : y \in Nat /\ x \in Nat
  OBVIOUS
<1>5. \A y \in T : ~(y < x)
  BY <1>2, <1>3, <1>4
<1> QED
  BY <1>4, <1>5

LEMMA BandCount == NBands \in Nat \ {0} /\ NBands <= Height /\ Height \in Nat \ {0}
<1>1. Height \in Nat \ {0} /\ Lanes \in Nat \ {0} /\ BandsPerLane \in Nat \ {0}
  BY SplatAssumption
<1>2. Lanes * BandsPerLane \in Nat \ {0}
  BY <1>1
<1> QED
  BY <1>1, <1>2 DEF NBands, Least

LEMMA DivOrder ==
  ASSUME NEW a \in Nat, NEW c \in Nat, a <= c, NEW n \in Nat \ {0}
  PROVE  a \div n \in Nat /\ a \div n <= c \div n
<1>1. /\ a \div n \in Nat /\ a % n \in 0 .. n - 1 /\ a = n * (a \div n) + (a % n)
      /\ c \div n \in Nat /\ c % n \in 0 .. n - 1 /\ c = n * (c \div n) + (c % n)
  OBVIOUS
<1>2. SUFFICES ASSUME a \div n >= c \div n + 1 PROVE FALSE
  BY <1>1
<1>3. n * (a \div n) >= n * (c \div n + 1)
  BY <1>1, <1>2
<1>4. n * (c \div n + 1) = n * (c \div n) + n
  BY <1>1
<1> QED
  BY <1>1, <1>3, <1>4

LEMMA EdgesAscend ==
  /\ \A b \in 0 .. NBands : BandEdge(b) \in Nat
  /\ \A b, c \in 0 .. NBands : b <= c => BandEdge(b) <= BandEdge(c)
  /\ BandEdge(0) = 0 /\ BandEdge(NBands) = Height
<1>1. NBands \in Nat \ {0} /\ Height \in Nat \ {0}
  BY BandCount
<1>2. ASSUME NEW b \in 0 .. NBands, NEW c \in 0 .. NBands, b <= c
      PROVE  BandEdge(b) \in Nat /\ BandEdge(b) <= BandEdge(c)
  <2>1. b * Height \in Nat /\ c * Height \in Nat
    BY <1>1
  <2>2. b * Height <= c * Height
    BY <1>1, <1>2
  <2> QED
    BY <1>1, <2>1, <2>2, DivOrder DEF BandEdge
<1>3. BandEdge(0) = 0
  BY <1>1 DEF BandEdge
<1>4. BandEdge(NBands) = Height
  <2>1. (NBands * Height) \div NBands = Height
    BY <1>1
  <2> QED
    BY <2>1 DEF BandEdge
<1> QED
  BY <1>1, <1>2, <1>3, <1>4

(* Every row has a band, and only one.                                     *)
LEMMA RowHasBand ==
  ASSUME NEW r \in Rows
  PROVE  RowBand(r) \in Bands /\ r \in BandRows(RowBand(r))
<1>1. r \in Nat /\ r < Height /\ NBands \in Nat \ {0} /\ Height \in Nat
  BY BandCount DEF Rows
<1> DEFINE T == {b \in 0 .. NBands : r < BandEdge(b)}
<1>2. NBands \in T /\ T \in SUBSET Nat
  BY <1>1, EdgesAscend
<1>3. PICK m \in T : \A b \in T : m <= b
  BY <1>2, LeastNumber
<1>4. m \in 0 .. NBands /\ r < BandEdge(m) /\ m # 0
  BY <1>1, <1>3, EdgesAscend
<1>5. m - 1 \in Bands /\ m - 1 \in 0 .. NBands /\ m - 1 \notin T
  BY <1>1, <1>3, <1>4 DEF Bands
<1>6. BandEdge(m - 1) \in Nat /\ BandEdge(m) \in Nat
  BY <1>4, <1>5, EdgesAscend
<1>7. BandEdge(m - 1) <= r
  BY <1>1, <1>5, <1>6
<1>8. (m - 1) + 1 = m
  BY <1>4
<1>9. r \in BandRows(m - 1)
  BY <1>1, <1>4, <1>6, <1>7, <1>8 DEF BandRows
<1>10. \E b \in Bands : r \in BandRows(b)
  BY <1>5, <1>9
<1> QED
  BY <1>10 DEF RowBand

LEMMA BandIs ==
  ASSUME NEW b \in Bands, NEW r
  PROVE  /\ b \in Nat /\ b \in 0 .. NBands /\ b + 1 \in 0 .. NBands
         /\ BandEdge(b) \in Nat /\ BandEdge(b + 1) \in Nat /\ BandEdge(b + 1) <= Height
         /\ r \in BandRows(b) <=> r \in Nat /\ BandEdge(b) <= r /\ r < BandEdge(b + 1)
<1>1. NBands \in Nat \ {0} /\ Height \in Nat
  BY BandCount
<1>2. b \in Nat /\ b \in 0 .. NBands /\ b + 1 \in 0 .. NBands /\ NBands \in 0 .. NBands
  BY <1>1 DEF Bands
<1>3. /\ BandEdge(b) \in Nat /\ BandEdge(b + 1) \in Nat /\ BandEdge(b + 1) <= Height
  BY <1>1, <1>2, EdgesAscend
<1>4. r \in BandRows(b) <=> r \in Nat /\ BandEdge(b) <= r /\ r < BandEdge(b + 1)
  BY <1>3 DEF BandRows
<1> QED
  BY <1>2, <1>3, <1>4

(* A lower row is in the same band or a lower one.                         *)
LEMMA BandOrder ==
  ASSUME NEW b \in Bands, NEW c \in Bands, NEW q \in BandRows(b), NEW r \in BandRows(c), q <= r
  PROVE  b <= c
<1>1. /\ b \in Nat /\ c \in Nat /\ b + 1 \in 0 .. NBands /\ c + 1 \in 0 .. NBands
      /\ b \in 0 .. NBands /\ c \in 0 .. NBands
      /\ BandEdge(b) \in Nat /\ BandEdge(c + 1) \in Nat
      /\ q \in Nat /\ BandEdge(b) <= q /\ r \in Nat /\ r < BandEdge(c + 1)
  BY BandIs
<1>2. SUFFICES ASSUME c + 1 <= b PROVE FALSE
  BY <1>1
<1>3. BandEdge(c + 1) <= BandEdge(b)
  BY <1>1, <1>2, EdgesAscend
<1> QED
  BY <1>1, <1>3

LEMMA OneBand ==
  ASSUME NEW b \in Bands, NEW r \in BandRows(b)
  PROVE  r \in Rows /\ RowBand(r) = b
<1>1. r \in Rows
  <2>1. r \in Nat /\ r < BandEdge(b + 1) /\ BandEdge(b + 1) <= Height /\ BandEdge(b + 1) \in Nat
    BY BandIs
  <2> QED
    BY <2>1, BandCount DEF Rows
<1>2. RowBand(r) \in Bands /\ r \in BandRows(RowBand(r)) /\ r \in Nat
  BY <1>1, RowHasBand, BandIs
<1>3. b <= RowBand(r) /\ RowBand(r) <= b
  BY <1>2, BandOrder
<1>4. b \in Nat /\ RowBand(r) \in Nat
  BY <1>2, BandIs
<1> QED
  BY <1>1, <1>3, <1>4

-----------------------------------------------------------------------------
(* A record's rows.                                                        *)

LEMMA SplattedIs ==
  ASSUME NEW rec \in Records, NEW lo \in Int, NEW end \in Int, NEW r
  PROVE  /\ Base(rec) \in Int /\ rec.radius \in Nat
         /\ r \in Splatted(rec, lo, end) <=>
              /\ r \in Int /\ Base(rec) <= r /\ r < Base(rec) + 2 * rec.radius + 1
              /\ lo <= r /\ r < end
<1>1. rec.y \in Int /\ rec.radius \in Nat
  BY SplatAssumption DEF Records
<1>2. Base(rec) \in Int
  BY <1>1 DEF Base
<1> DEFINE B == Base(rec)
           K == Greatest(0, lo - B) .. Least(2 * rec.radius + 1, end - B) - 1
<1> HIDE DEF B
<1>3. B \in Int
  BY <1>2 DEF B
<1>4. r \in Splatted(rec, lo, end) <=> \E k \in K : r = B + k
  BY DEF Splatted, B
<1>5. \A k : k \in K <=> /\ k \in Int /\ 0 <= k /\ lo - B <= k
                         /\ k < 2 * rec.radius + 1 /\ k < end - B
  BY <1>1, <1>3 DEF Greatest, Least
<1> HIDE DEF K
<1>6. ASSUME NEW k \in K, r = B + k
      PROVE  /\ r \in Int /\ B <= r /\ r < B + 2 * rec.radius + 1 /\ lo <= r /\ r < end
  BY <1>1, <1>3, <1>5, <1>6
<1>7. ASSUME r \in Int, B <= r, r < B + 2 * rec.radius + 1, lo <= r, r < end
      PROVE  r - B \in K /\ r = B + (r - B)
  BY <1>1, <1>3, <1>5, <1>7
<1> QED
  BY <1>1, <1>2, <1>4, <1>6, <1>7 DEF B

(* What a band's task adds of a record is the band's share of its rows.    *)
LEMMA TaskShare ==
  ASSUME NEW rec \in Records, NEW b \in Bands, NEW r \in Rows
  PROVE  r \in TaskRows(b, rec) <=> RowBand(r) = b /\ r \in Splatted(rec, 0, Height)
<1>1. Height \in Nat /\ r \in Nat /\ r < Height
  BY BandCount DEF Rows
<1>2. /\ BandEdge(b) \in Nat /\ BandEdge(b + 1) \in Nat
      /\ r \in BandRows(b) <=> BandEdge(b) <= r /\ r < BandEdge(b + 1)
  BY <1>1, BandIs
<1>3. r \in BandRows(b) <=> RowBand(r) = b
  BY OneBand, RowHasBand
<1>4. r \in TaskRows(b, rec) <=>
        /\ Base(rec) <= r /\ r < Base(rec) + 2 * rec.radius + 1
        /\ BandEdge(b) <= r /\ r < BandEdge(b + 1)
  BY <1>1, <1>2, SplattedIs DEF TaskRows
<1>5. r \in Splatted(rec, 0, Height) <=> Base(rec) <= r /\ r < Base(rec) + 2 * rec.radius + 1
  BY <1>1, SplattedIs
<1> QED
  BY <1>2, <1>3, <1>4, <1>5

(* A record is binned into the band of every row it covers.                *)
LEMMA CoveredBand ==
  ASSUME NEW rec \in Records, NEW r \in Rows, r \in Splatted(rec, 0, Height)
  PROVE  RowBand(r) \in BinnedInto(rec)
<1>1. Height \in Nat /\ r \in Nat /\ r < Height
  BY BandCount DEF Rows
<1>2. /\ Base(rec) \in Int /\ rec.radius \in Nat
      /\ Base(rec) <= r /\ r < Base(rec) + 2 * rec.radius + 1
  BY <1>1, SplattedIs
<1>3. SpanLo(rec) \in Nat /\ SpanLo(rec) <= r
  BY <1>1, <1>2 DEF SpanLo, Greatest
<1>4. SpanEnd(rec) \in Int /\ r < SpanEnd(rec) /\ SpanEnd(rec) <= Height
  BY <1>1, <1>2 DEF SpanEnd, Least
<1>5. SpanLo(rec) \in Rows /\ SpanEnd(rec) - 1 \in Rows
  BY <1>1, <1>3, <1>4 DEF Rows
<1>6. /\ RowBand(r) \in Bands /\ r \in BandRows(RowBand(r))
      /\ RowBand(SpanLo(rec)) \in Bands /\ SpanLo(rec) \in BandRows(RowBand(SpanLo(rec)))
      /\ RowBand(SpanEnd(rec) - 1) \in Bands
      /\ SpanEnd(rec) - 1 \in BandRows(RowBand(SpanEnd(rec) - 1))
  BY <1>5, RowHasBand
<1>7. RowBand(SpanLo(rec)) <= RowBand(r)
  BY <1>3, <1>6, BandOrder
<1>8. RowBand(r) <= RowBand(SpanEnd(rec) - 1)
  <2>1. r <= SpanEnd(rec) - 1
    BY <1>1, <1>4
  <2> QED
    BY <1>6, <2>1, BandOrder
<1>9. RowBand(r) \in Nat /\ RowBand(SpanLo(rec)) \in Nat /\ RowBand(SpanEnd(rec) - 1) \in Nat
  BY <1>6, BandIs
<1>10. RowBand(r) \in RowBand(SpanLo(rec)) .. RowBand(SpanEnd(rec) - 1)
  BY <1>7, <1>8, <1>9
<1>11. ~(SpanLo(rec) >= SpanEnd(rec))
  BY <1>1, <1>3, <1>4
<1> QED
  BY <1>10, <1>11 DEF BinnedInto

-----------------------------------------------------------------------------
(* Lists of numbers in ascending order.                                    *)

LEMMA EmptyLists == Lists(<<>>, {})
BY DEF Lists, Range

LEMMA ListedAt ==
  ASSUME NEW f \in Seq(Nat), NEW S, Lists(f, S), NEW x
  PROVE  x \in S <=> \E k \in 1 .. Len(f) : f[k] = x
BY DEF Lists, Range

(* A number above all the others goes at the end.                          *)
LEMMA AppendLists ==
  ASSUME NEW f \in Seq(Nat), NEW S, Lists(f, S), NEW n \in Nat, \A x \in S : x < n
  PROVE  Lists(Append(f, n), S \cup {n})
<1> DEFINE g == Append(f, n)
<1>1. /\ g \in Seq(Nat) /\ Len(g) = Len(f) + 1 /\ Len(f) \in Nat
      /\ \A i \in 1 .. Len(f) : g[i] = f[i]
      /\ g[Len(f) + 1] = n
  BY AppendProperties
<1> HIDE DEF g
<1>2. \A i \in 1 .. Len(g) : i \in 1 .. Len(f) \/ i = Len(f) + 1
  BY <1>1
<1>3. \A k \in 1 .. Len(f) : f[k] \in S /\ f[k] \in Nat
  BY ListedAt, ElementOfSeq
<1>4. Range(g) = S \cup {n}
  <2>0. DOMAIN g = 1 .. Len(g)
    BY <1>1
  <2>1. ASSUME NEW x PROVE x \in Range(g) <=> x \in S \cup {n}
    <3>1. x \in Range(g) <=> \E k \in 1 .. Len(g) : g[k] = x
      BY <2>0, Zenon DEF Range
    <3>2. x \in S <=> \E k \in 1 .. Len(f) : f[k] = x
      BY ListedAt
    <3>3. 1 .. Len(f) \subseteq 1 .. Len(g) /\ Len(f) + 1 \in 1 .. Len(g)
      BY <1>1
    <3> QED
      BY <1>1, <1>2, <3>1, <3>2, <3>3
  <2> QED
    BY <2>1
<1>5. ASSUME NEW j \in 1 .. Len(g), NEW k \in 1 .. Len(g), j < k PROVE g[j] < g[k]
  <2>1. j \in 1 .. Len(f)
    BY <1>1, <1>5
  <2>2. CASE k \in 1 .. Len(f)
    BY <1>1, <1>5, <2>1, <2>2 DEF Lists
  <2>3. CASE k = Len(f) + 1
    BY <1>1, <1>3, <2>1, <2>3
  <2> QED
    BY <1>2, <2>2, <2>3
<1> QED
  BY <1>4, <1>5 DEF Lists, g

(* What lists the lowest members of a set is a prefix of what lists it.    *)
LEMMA PrefixLists ==
  ASSUME NEW f \in Seq(Nat), NEW g \in Seq(Nat), NEW S, NEW T, Lists(f, S), Lists(g, T),
         S \subseteq T, \A x \in T, y \in S : x < y => x \in S
  PROVE  IsPrefix(f, g)
<1>1. /\ Len(f) \in Nat /\ Len(g) \in Nat
      /\ \A k \in 1 .. Len(f) : f[k] \in Nat /\ f[k] \in S
      /\ \A k \in 1 .. Len(g) : g[k] \in Nat /\ g[k] \in T
  BY ListedAt, ElementOfSeq
<1>2. /\ \A j, k \in 1 .. Len(f) : j < k => f[j] < f[k]
      /\ \A j, k \in 1 .. Len(g) : j < k => g[j] < g[k]
  BY DEF Lists
<1> DEFINE Bad == {i \in 1 .. Len(f) : ~(i <= Len(g) /\ f[i] = g[i])}
<1>3. Bad = {}
  <2>1. SUFFICES ASSUME Bad # {} PROVE FALSE
    OBVIOUS
  <2>2. PICK i \in Bad : \A j \in Bad : i <= j
    <3>1. Bad \in SUBSET Nat
      BY <1>1
    <3> HIDE DEF Bad
    <3> QED
      BY <2>1, <3>1, LeastNumber
  <2>3. i \in 1 .. Len(f) /\ ~(i <= Len(g) /\ f[i] = g[i])
    OBVIOUS
  <2>4. \A j \in 1 .. Len(f) : j < i => j <= Len(g) /\ f[j] = g[j]
    BY <1>1, <2>2
  <2> HIDE DEF Bad
  <2>5. PICK j \in 1 .. Len(g) : g[j] = f[i]
    <3>1. f[i] \in T
      BY <1>1, <2>3
    <3> QED
      BY <3>1, ListedAt
  <2>6. ~(j < i)
    <3>1. SUFFICES ASSUME j < i PROVE FALSE
      OBVIOUS
    <3>2. j \in 1 .. Len(f)
      BY <1>1, <2>3, <3>1
    <3>3. f[j] = f[i] /\ f[j] < f[i]
      BY <1>2, <2>3, <2>4, <2>5, <3>1, <3>2
    <3> QED
      BY <1>1, <2>3, <3>2, <3>3
  <2>7. i \in 1 .. Len(g) /\ i < j
    BY <1>1, <2>3, <2>5, <2>6
  <2>8. g[i] < f[i]
    BY <1>2, <2>5, <2>7
  <2>9. PICK k \in 1 .. Len(f) : f[k] = g[i]
    <3>1. g[i] \in S
      BY <1>1, <2>3, <2>7, <2>8
    <3> QED
      BY <3>1, ListedAt
  <2>10. k < i
    <3>1. SUFFICES ASSUME k = i \/ i < k PROVE FALSE
      BY <1>1, <2>3
    <3>2. CASE k = i
      <4>1. g[i] = f[i] /\ g[i] < f[i] /\ f[i] \in Nat
        BY <1>1, <2>3, <2>8, <2>9, <3>2
      <4> QED
        BY <4>1
    <3>3. CASE i < k
      <4>1. f[i] < f[k]
        BY <1>2, <2>3, <3>3, Zenon
      <4>2. f[k] < f[i] /\ f[i] \in Nat /\ f[k] \in Nat
        BY <1>1, <2>3, <2>8, <2>9
      <4> QED
        BY <4>1, <4>2
    <3> QED
      BY <3>1, <3>2, <3>3
  <2>11. g[k] = g[i] /\ k \in 1 .. Len(g)
    BY <1>1, <2>4, <2>9, <2>10
  <2>12. g[k] < g[i]
    BY <1>2, <2>7, <2>10, <2>11
  <2> QED
    BY <1>1, <2>7, <2>11, <2>12
<1>4. \A i \in 1 .. Len(f) : i <= Len(g) /\ f[i] = g[i]
  BY <1>3
<1>5. Len(f) <= Len(g)
  <2>1. CASE Len(f) = 0
    BY <1>1, <2>1
  <2>2. CASE Len(f) # 0
    <3>1. Len(f) \in 1 .. Len(f)
      BY <1>1, <2>2
    <3> QED
      BY <1>4, <3>1
  <2> QED
    BY <2>1, <2>2
<1>6. SubSeq(f, 1, Len(f)) = f
  BY SubSeqFull
<1>7. f = SubSeq(g, 1, Len(f))
  <2>1. \A i \in 1 .. Len(f) : g[i] \in Nat
    BY <1>1, <1>4
  <2>2. PICK n \in Nat : n = Len(f)
    BY <1>1
  <2>3. /\ SubSeq(g, 1, n) \in Seq(Nat) /\ Len(SubSeq(g, 1, n)) = n
        /\ \A i \in 1 .. n : SubSeq(g, 1, n)[i] = g[i]
    BY <2>1, <2>2, SubSeqProperties
  <2> QED
    BY <1>4, <2>2, <2>3, SeqEqual
<1> QED
  BY <1>5, <1>6, <1>7 DEF IsPrefix

LEMMA SameLists ==
  ASSUME NEW f \in Seq(Nat), NEW g \in Seq(Nat), NEW S, Lists(f, S), Lists(g, S)
  PROVE  f = g
<1>1. IsPrefix(f, g) /\ IsPrefix(g, f)
  BY PrefixLists
<1>2. Len(f) <= Len(g) /\ Len(g) <= Len(f) /\ Len(f) \in Nat /\ Len(g) \in Nat
  BY <1>1 DEF IsPrefix
<1>3. Len(f) = Len(g)
  BY <1>2
<1>4. SubSeq(f, 1, Len(f)) = f /\ SubSeq(g, 1, Len(g)) = g
  BY SubSeqFull
<1> QED
  BY <1>1, <1>3, <1>4 DEF IsPrefix
-----------------------------------------------------------------------------
(* The batch's steps.                                                      *)

LEMMA Typed ==
  ASSUME BandsTypeOK
  PROVE  /\ Len(recs) \in Nat /\ binned \in Nat /\ binned <= Len(recs)
         /\ \A i \in 1 .. Len(recs) : i \in Nat /\ recs[i] \in Records
         /\ \A b \in Bands : /\ buckets[b] \in Seq(1 .. Len(recs)) /\ buckets[b] \in Seq(Nat)
                             /\ Len(buckets[b]) \in Nat
                             /\ at[b] \in Int /\ -1 <= at[b] /\ at[b] <= Len(buckets[b])
         /\ \A r \in Rows : /\ fb[r] \in Seq(1 .. Len(recs)) /\ fb[r] \in Seq(Nat)
                            /\ serial[r] \in Seq(1 .. Len(recs)) /\ serial[r] \in Seq(Nat)
<1>1. recs \in Seq(Records) /\ Len(recs) \in Nat
  BY DEF BandsTypeOK
<1>2. 1 .. Len(recs) \subseteq Nat
  BY <1>1
<1>3. \A s \in Seq(1 .. Len(recs)) : s \in Seq(Nat) /\ Len(s) \in Nat
  BY <1>2, SeqMonotonic
<1>4. \A i \in 1 .. Len(recs) : i \in Nat /\ recs[i] \in Records
  BY <1>1, <1>2, ElementOfSeq
<1>5. binned \in Nat /\ binned <= Len(recs)
  BY <1>1 DEF BandsTypeOK
<1>6. ASSUME NEW b \in Bands
      PROVE  /\ buckets[b] \in Seq(1 .. Len(recs))
             /\ at[b] \in Int /\ -1 <= at[b] /\ at[b] <= Len(buckets[b])
  <2>1. buckets[b] \in Seq(1 .. Len(recs))
    BY DEF BandsTypeOK
  <2>2. Len(buckets[b]) \in Nat /\ at[b] \in -1 .. Len(buckets[b])
    BY <1>3, <2>1 DEF BandsTypeOK
  <2> QED
    BY <2>1, <2>2
<1>7. \A r \in Rows : fb[r] \in Seq(1 .. Len(recs)) /\ serial[r] \in Seq(1 .. Len(recs))
  BY DEF BandsTypeOK
<1> QED
  BY <1>1, <1>3, <1>4, <1>5, <1>6, <1>7

LEMMA BandsInitHolds == BandsInit => BandsIInv
<1> SUFFICES ASSUME BandsInit PROVE BandsIInv
  OBVIOUS
<1>1. /\ phase = "bin" /\ binned = 0 /\ running = {}
      /\ \A b \in Bands : buckets[b] = <<>> /\ at[b] = -1
      /\ \A r \in Rows : fb[r] = <<>> /\ serial[r] = <<>>
  BY DEF BandsInit
<1>2. recs \in Seq(Records)
  <2>1. PICK n \in 0 .. MaxRecs : recs \in [1 .. n -> Records]
    BY DEF BandsInit
  <2>2. n \in Nat
    BY SplatAssumption
  <2> QED
    BY <2>1, <2>2, SeqDef
<1>3. <<>> \in Seq(1 .. Len(recs)) /\ Len(<<>>) = 0
  BY EmptySeq
<1>4. BandsTypeOK
  <2>1. buckets = [b \in Bands |-> <<>>] /\ at = [b \in Bands |-> -1]
    BY DEF BandsInit
  <2>2. fb = [r \in Rows |-> <<>>] /\ serial = [r \in Rows |-> <<>>]
    BY DEF BandsInit
  <2>3. binned \in 0 .. Len(recs)
    BY <1>1, <1>2
  <2>4. \A b \in Bands : at[b] \in -1 .. Len(buckets[b])
    BY <1>1, <1>3
  <2> QED
    BY <1>1, <1>2, <1>3, <2>1, <2>2, <2>3, <2>4 DEF BandsTypeOK
<1>5. \A b \in Bands : Touching(b) = {} /\ Added(b) = {}
  BY <1>1 DEF Touching, Added
<1>6. \A r \in Rows : Covering(r) = {}
  BY <1>1 DEF Covering
<1>7. Binned
  BY <1>1, <1>5, <1>6, EmptyLists DEF Binned
<1>8. Deposited
  BY <1>1, <1>6, EmptyLists DEF Deposited
<1>9. Tasks
  BY <1>1 DEF Tasks
<1> QED
  BY <1>4, <1>7, <1>8, <1>9 DEF BandsIInv

LEMMA BinStep ==
  ASSUME BandsIInv, Bin
  PROVE  BandsIInv'
<1> DEFINE n == binned + 1
<1>1. /\ phase = "bin" /\ phase' = "bin" /\ binned' = n
      /\ UNCHANGED <<recs, phase, running, at, fb>>
  BY DEF Bin
<1>2. BandsTypeOK /\ Binned /\ Deposited /\ Tasks
  BY DEF BandsIInv
<1>3. n \in 1 .. Len(recs) /\ n \in Nat /\ binned \in Nat /\ Len(recs) \in Nat
  BY <1>2, Typed DEF Bin
<1>4. \A x : x \in 1 .. n <=> x \in 1 .. binned \/ x = n
  BY <1>3
<1>5. \A x \in 1 .. binned : x < n
  BY <1>3
<1>6. buckets' = [b \in Bands |-> IF b \in BinnedInto(recs[n])
                                  THEN Append(buckets[b], n) ELSE buckets[b]]
  BY <1>1 DEF Bin
<1>7. serial' = [r \in Rows |-> IF r \in Splatted(recs[n], 0, Height)
                                THEN Append(serial[r], n) ELSE serial[r]]
  BY <1>1 DEF Bin, SerialAdds
<1> HIDE DEF n
<1>8. ASSUME NEW b \in Bands PROVE Lists(buckets'[b], Touching(b)')
  <2>1. Touching(b)' = IF b \in BinnedInto(recs[n]) THEN Touching(b) \cup {n} ELSE Touching(b)
    BY <1>1, <1>4 DEF Touching
  <2>2. \A x \in Touching(b) : x < n
    BY <1>5 DEF Touching
  <2>3. buckets[b] \in Seq(Nat) /\ Lists(buckets[b], Touching(b))
    BY <1>2, Typed DEF Binned
  <2>4. buckets'[b] = IF b \in BinnedInto(recs[n]) THEN Append(buckets[b], n) ELSE buckets[b]
    BY <1>6
  <2>5. CASE b \in BinnedInto(recs[n])
    <3>1. Lists(Append(buckets[b], n), Touching(b) \cup {n})
      BY <1>3, <2>2, <2>3, AppendLists
    <3> QED
      BY <2>1, <2>4, <2>5, <3>1
  <2>6. CASE b \notin BinnedInto(recs[n])
    BY <2>1, <2>3, <2>4, <2>6
  <2> QED
    BY <2>5, <2>6
<1>9. ASSUME NEW r \in Rows PROVE Lists(serial'[r], Covering(r)')
  <2>1. Covering(r)' = IF r \in Splatted(recs[n], 0, Height) THEN Covering(r) \cup {n} ELSE Covering(r)
    BY <1>1, <1>4 DEF Covering
  <2>2. \A x \in Covering(r) : x < n
    BY <1>5 DEF Covering
  <2>3. serial[r] \in Seq(Nat) /\ Lists(serial[r], Covering(r))
    BY <1>2, Typed DEF Binned
  <2>4. serial'[r] = IF r \in Splatted(recs[n], 0, Height) THEN Append(serial[r], n) ELSE serial[r]
    BY <1>7
  <2>5. CASE r \in Splatted(recs[n], 0, Height)
    <3>1. Lists(Append(serial[r], n), Covering(r) \cup {n})
      BY <1>3, <2>2, <2>3, AppendLists
    <3> QED
      BY <2>1, <2>4, <2>5, <3>1
  <2>6. CASE r \notin Splatted(recs[n], 0, Height)
    BY <2>1, <2>3, <2>4, <2>6
  <2> QED
    BY <2>5, <2>6
<1>10. Binned'
  BY <1>1, <1>8, <1>9 DEF Binned
<1>11. \A b \in Bands : at[b] = -1 /\ b \notin running
  BY <1>1, <1>2, Typed DEF Tasks
<1>12. Deposited'
  <2>1. ASSUME NEW r \in Rows
        PROVE  Added(RowBand(r)) \cap Covering(r) = {} /\ (Added(RowBand(r)) \cap Covering(r))' = {}
    <3>1. RowBand(r) \in Bands
      BY RowHasBand
    <3>2. at[RowBand(r)] = -1 /\ at'[RowBand(r)] = -1
      BY <1>1, <1>11, <3>1
    <3> QED
      BY <3>2 DEF Added
  <2> QED
    BY <1>1, <1>2, <2>1 DEF Deposited
<1>13. Tasks'
  <2>1. \A b \in Bands : at'[b] = -1 /\ b \notin running'
    BY <1>1, <1>11
  <2> QED
    BY <1>1, <2>1 DEF Tasks
<1>14. BandsTypeOK'
  <2>1. buckets' \in [Bands -> Seq(1 .. Len(recs))]
    <3>1. \A b \in Bands : /\ buckets[b] \in Seq(1 .. Len(recs))
                           /\ Append(buckets[b], n) \in Seq(1 .. Len(recs))
      BY <1>2, <1>3, Typed, AppendProperties
    <3> QED
      BY <1>6, <3>1
  <2>2. serial' \in [Rows -> Seq(1 .. Len(recs))]
    <3>1. \A r \in Rows : /\ serial[r] \in Seq(1 .. Len(recs))
                          /\ Append(serial[r], n) \in Seq(1 .. Len(recs))
      BY <1>2, <1>3, Typed, AppendProperties
    <3> QED
      BY <1>7, <3>1
  <2>3. \A b \in Bands : at'[b] \in -1 .. Len(buckets'[b])
    <3>1. \A b \in Bands : at'[b] = -1 /\ Len(buckets'[b]) \in Nat
      BY <1>1, <1>11, <2>1
    <3> QED
      BY <3>1
  <2>4. binned' \in 0 .. Len(recs)
    BY <1>1, <1>3
  <2> QED
    BY <1>1, <1>2, <2>1, <2>2, <2>3, <2>4 DEF BandsTypeOK
<1> QED
  BY <1>10, <1>12, <1>13, <1>14 DEF BandsIInv

(* The record a task adds next: it comes after those the task has added.   *)
LEMMA NextRecord ==
  ASSUME BandsIInv, NEW b \in Bands, b \in running, at[b] < Len(buckets[b])
  PROVE  LET i == buckets[b][at[b] + 1] IN
         /\ at[b] \in Nat /\ i \in 1 .. binned /\ i \in Nat /\ recs[i] \in Records
         /\ \A x \in Added(b) : x < i
         /\ {buckets[b][k] : k \in 1 .. at[b] + 1} = Added(b) \cup {i}
<1> DEFINE f == buckets[b]
           m == at[b] + 1
<1>1. BandsTypeOK /\ Binned /\ Tasks
  BY DEF BandsIInv
<1>2. f \in Seq(Nat) /\ Len(f) \in Nat /\ at[b] \in Int /\ at[b] >= 0 /\ Lists(f, Touching(b))
  BY <1>1, Typed DEF Tasks, Binned
<1>3. m \in 1 .. Len(f) /\ at[b] \in Nat
  BY <1>2
<1> HIDE DEF f
<1>4. f[m] \in Touching(b)
  BY <1>2, <1>3, ListedAt
<1>5. f[m] \in 1 .. binned /\ f[m] \in Nat /\ recs[f[m]] \in Records
  BY <1>1, <1>4, Typed DEF Touching
<1>6. ASSUME NEW k \in 1 .. at[b] PROVE f[k] < f[m]
  <2>1. k \in 1 .. Len(f) /\ k < m
    BY <1>2, <1>3
  <2> QED
    BY <1>2, <1>3, <2>1 DEF Lists
<1>7. \A k : k \in 1 .. m <=> k \in 1 .. at[b] \/ k = m
  BY <1>3
<1> HIDE DEF m
<1>8. {f[k] : k \in 1 .. m} = {f[k] : k \in 1 .. at[b]} \cup {f[m]}
  BY <1>7
<1> QED
  BY <1>3, <1>5, <1>6, <1>8 DEF f, m, Added

LEMMA ApplyStep ==
  ASSUME BandsIInv, NEW b \in Bands, ApplyNext(b)
  PROVE  BandsIInv'
<1> DEFINE i == buckets[b][at[b] + 1]
<1>1. BandsTypeOK /\ Binned /\ Deposited /\ Tasks
  BY DEF BandsIInv
<1>2. /\ b \in running /\ at[b] < Len(buckets[b])
      /\ fb' = [r \in Rows |-> IF r \in TaskRows(b, recs[i]) THEN Append(fb[r], i) ELSE fb[r]]
      /\ at' = [at EXCEPT ![b] = at[b] + 1]
      /\ UNCHANGED <<recs, phase, binned, buckets, running, serial>>
  BY DEF ApplyNext
<1>3. /\ at[b] \in Nat /\ i \in 1 .. binned /\ i \in Nat /\ recs[i] \in Records
      /\ \A x \in Added(b) : x < i
      /\ {buckets[b][k] : k \in 1 .. at[b] + 1} = Added(b) \cup {i}
  BY <1>2, NextRecord
<1>4. /\ at'[b] = at[b] + 1 /\ DOMAIN at' = Bands
      /\ \A c \in Bands : c # b => at'[c] = at[c]
  BY <1>1, <1>2 DEF BandsTypeOK
<1>5. Added(b)' = Added(b) \cup {i} /\ \A c \in Bands : c # b => Added(c)' = Added(c)
  BY <1>2, <1>3, <1>4 DEF Added
<1>6. \A r \in Rows : Covering(r)' = Covering(r)
  BY <1>2 DEF Covering
<1>7. \A c \in Bands : Touching(c)' = Touching(c)
  BY <1>2 DEF Touching
<1> HIDE DEF i
<1>8. ASSUME NEW r \in Rows PROVE Lists(fb'[r], (Added(RowBand(r)) \cap Covering(r))')
  <2>1. /\ fb[r] \in Seq(Nat) /\ Lists(fb[r], Added(RowBand(r)) \cap Covering(r))
        /\ fb'[r] = IF r \in TaskRows(b, recs[i]) THEN Append(fb[r], i) ELSE fb[r]
    BY <1>1, <1>2, Typed DEF Deposited
  <2>2. r \in TaskRows(b, recs[i]) <=> RowBand(r) = b /\ r \in Splatted(recs[i], 0, Height)
    BY <1>3, TaskShare
  <2>3. RowBand(r) \in Bands
    BY RowHasBand
  <2>4. i \in Covering(r) <=> r \in Splatted(recs[i], 0, Height)
    BY <1>3 DEF Covering
  <2>5. CASE RowBand(r) # b
    BY <1>5, <1>6, <2>1, <2>2, <2>3, <2>5
  <2>6. CASE RowBand(r) = b
    <3> DEFINE S == Added(b) \cap Covering(r)
    <3>1. (Added(RowBand(r)) \cap Covering(r))' =
            IF i \in Covering(r) THEN S \cup {i} ELSE S
      BY <1>5, <1>6, <2>6
    <3>2. \A x \in S : x < i
      BY <1>3
    <3>3. fb'[r] = IF i \in Covering(r) THEN Append(fb[r], i) ELSE fb[r]
      BY <2>1, <2>2, <2>4, <2>6
    <3>4. Lists(fb[r], S)
      BY <2>1, <2>6
    <3> HIDE DEF S
    <3>5. CASE i \in Covering(r)
      <4>1. Lists(Append(fb[r], i), S \cup {i})
        BY <1>3, <2>1, <3>2, <3>4, AppendLists
      <4> QED
        BY <3>1, <3>3, <3>5, <4>1
    <3>6. CASE i \notin Covering(r)
      BY <3>1, <3>3, <3>4, <3>6
    <3> QED
      BY <3>5, <3>6
  <2> QED
    BY <2>5, <2>6
<1>9. Deposited'
  BY <1>8 DEF Deposited
<1>10. Binned'
  BY <1>1, <1>2, <1>6, <1>7 DEF Binned
<1>11. Tasks'
  <2>1. ASSUME NEW c \in Bands
        PROVE  /\ at'[c] >= 0 => phase # "bin" /\ (c \in running \/ at'[c] = Len(buckets[c]))
               /\ c \in running => at'[c] >= 0
               /\ phase = "done" => at'[c] >= 0 /\ c \notin running
    <3>1. CASE c = b
      BY <1>1, <1>2, <1>3, <1>4, <3>1 DEF Tasks
    <3>2. CASE c # b
      BY <1>1, <1>4, <3>2 DEF Tasks
    <3> QED
      BY <3>1, <3>2
  <2> QED
    BY <1>2, <2>1 DEF Tasks
<1>12. BandsTypeOK'
  <2>1. fb' \in [Rows -> Seq(1 .. Len(recs))]
    <3>1. i \in 1 .. Len(recs)
      BY <1>1, <1>3, Typed
    <3>2. \A r \in Rows : /\ fb[r] \in Seq(1 .. Len(recs))
                          /\ Append(fb[r], i) \in Seq(1 .. Len(recs))
      BY <1>1, <3>1, Typed, AppendProperties
    <3> QED
      BY <1>2, <3>2
  <2>2. ASSUME NEW c \in Bands PROVE at'[c] \in -1 .. Len(buckets[c])
    <3>1. /\ at[c] \in Int /\ -1 <= at[c] /\ at[c] <= Len(buckets[c]) /\ Len(buckets[c]) \in Nat
      BY <1>1, Typed
    <3>2. CASE c = b
      BY <1>2, <1>3, <1>4, <3>1, <3>2
    <3>3. CASE c # b
      BY <1>4, <3>1, <3>3
    <3> QED
      BY <3>2, <3>3
  <2> QED
    BY <1>1, <1>2, <1>4, <2>1, <2>2 DEF BandsTypeOK
<1> QED
  BY <1>9, <1>10, <1>11, <1>12 DEF BandsIInv

LEMMA ClaimStep ==
  ASSUME BandsIInv, NEW b \in Bands, Claim(b)
  PROVE  BandsIInv'
<1>1. BandsTypeOK /\ Binned /\ Deposited /\ Tasks
  BY DEF BandsIInv
<1>2. /\ phase = "apply" /\ at[b] = -1
      /\ running' = running \cup {b} /\ at' = [at EXCEPT ![b] = 0]
      /\ UNCHANGED <<recs, phase, binned, buckets, fb, serial>>
  BY DEF Claim
<1>3. /\ at'[b] = 0 /\ DOMAIN at' = Bands
      /\ \A c \in Bands : c # b => at'[c] = at[c]
  BY <1>1, <1>2 DEF BandsTypeOK
<1>4. \A c \in Bands : Added(c)' = Added(c)
  <2>1. Added(b) = {} /\ Added(b)' = {}
    BY <1>2, <1>3 DEF Added
  <2>2. \A c \in Bands : c # b => Added(c)' = Added(c)
    BY <1>2, <1>3 DEF Added
  <2> QED
    BY <2>1, <2>2
<1>5. Binned'
  BY <1>1, <1>2 DEF Binned, Touching, Covering
<1>6. Deposited'
  <2>1. ASSUME NEW r \in Rows PROVE Lists(fb'[r], (Added(RowBand(r)) \cap Covering(r))')
    <3>1. Covering(r)' = Covering(r)
      BY <1>2 DEF Covering
    <3>2. Added(RowBand(r))' = Added(RowBand(r))
      BY <1>4, RowHasBand
    <3> QED
      BY <1>1, <1>2, <3>1, <3>2 DEF Deposited
  <2> QED
    BY <2>1 DEF Deposited
<1>7. Tasks'
  <2>1. ASSUME NEW c \in Bands
        PROVE  /\ at'[c] >= 0 => phase # "bin" /\ (c \in running' \/ at'[c] = Len(buckets[c]))
               /\ c \in running' => at'[c] >= 0
    <3>1. CASE c = b
      BY <1>2, <1>3, <3>1
    <3>2. CASE c # b
      BY <1>1, <1>2, <1>3, <3>2 DEF Tasks
    <3> QED
      BY <3>1, <3>2
  <2> QED
    BY <1>2, <2>1 DEF Tasks
<1>8. BandsTypeOK'
  <2>1. ASSUME NEW c \in Bands PROVE at'[c] \in -1 .. Len(buckets[c])
    <3>1. /\ at[c] \in Int /\ -1 <= at[c] /\ at[c] <= Len(buckets[c]) /\ Len(buckets[c]) \in Nat
      BY <1>1, Typed
    <3>2. at'[c] = 0 \/ at'[c] = at[c]
      BY <1>3
    <3> QED
      BY <3>1, <3>2
  <2> QED
    BY <1>1, <1>2, <1>3, <2>1 DEF BandsTypeOK
<1> QED
  BY <1>5, <1>6, <1>7, <1>8 DEF BandsIInv

(* The other steps leave the buckets and the rows alone.                   *)
LEMMA FrameStep ==
  ASSUME BandsIInv, UNCHANGED <<recs, binned, buckets, at, fb, serial>>,
         running' \subseteq running, Tasks',
         phase' \in {"bin", "apply", "done"}, phase' # "bin" => binned = Len(recs)
  PROVE  BandsIInv'
<1>1. Binned'
  BY DEF BandsIInv, Binned, Touching, Covering
<1>2. Deposited'
  BY DEF BandsIInv, Deposited, Added, Covering
<1>3. BandsTypeOK'
  BY DEF BandsIInv, BandsTypeOK
<1> QED
  BY <1>1, <1>2, <1>3 DEF BandsIInv

LEMMA BandsStepHolds ==
  ASSUME BandsIInv, [BandsNext]_bandsVars
  PROVE  BandsIInv'
<1>1. CASE Run
  <2>1. /\ phase = "bin" /\ phase' = "apply" /\ binned = Len(recs)
        /\ UNCHANGED <<recs, binned, buckets, running, at, fb, serial>>
    BY <1>1 DEF Run
  <2>2. Tasks'
    BY <2>1 DEF BandsIInv, Tasks
  <2> QED
    BY <2>1, <2>2, FrameStep
<1>2. CASE Return
  <2>1. /\ phase = "apply" /\ phase' = "done" /\ running = {} /\ \A b \in Bands : at[b] >= 0
        /\ UNCHANGED <<recs, binned, buckets, running, at, fb, serial>>
    BY <1>2 DEF Return
  <2>2. Tasks'
    BY <2>1 DEF BandsIInv, Tasks
  <2> QED
    BY <2>1, <2>2, FrameStep DEF BandsIInv, Binned
<1>3. ASSUME NEW b \in Bands, Finish(b) PROVE BandsIInv'
  <2>1. /\ b \in running /\ at[b] = Len(buckets[b]) /\ running' = running \ {b}
        /\ UNCHANGED <<recs, phase, binned, buckets, at, fb, serial>>
    BY <1>3 DEF Finish
  <2>2. Tasks'
    BY <2>1 DEF BandsIInv, Tasks
  <2> QED
    BY <2>1, <2>2, FrameStep DEF BandsIInv, Binned, BandsTypeOK
<1>4. CASE Done \/ bandsVars' = bandsVars
  <2>1. UNCHANGED <<recs, phase, binned, buckets, running, at, fb, serial>>
    BY <1>4 DEF Done, bandsVars
  <2>2. Tasks'
    BY <2>1 DEF BandsIInv, Tasks
  <2> QED
    BY <2>1, <2>2, FrameStep DEF BandsIInv, Binned, BandsTypeOK
<1> QED
  BY <1>1, <1>2, <1>3, <1>4, BinStep, ClaimStep, ApplyStep DEF BandsNext

(* The inductive invariant, the types among it.                            *)
THEOREM BandsInvariant == BandsSpec => []BandsIInv
<1>1. BandsIInv /\ [BandsNext]_bandsVars => BandsIInv'
  BY BandsStepHolds
<1> QED
  BY <1>1, BandsInitHolds, PTL DEF BandsSpec

(* Every variable of SplatBands keeps its type.                            *)
THEOREM BandsTypeCorrect == BandsSpec => []BandsTypeOK
<1>1. BandsIInv => BandsTypeOK
  BY DEF BandsIInv
<1> QED
  BY <1>1, BandsInvariant, PTL

(* The bands add to each row what the serial loop adds, in its order.      *)
THEOREM BandsAreSerial == BandsSpec => []ByteIdentical
<1>1. ASSUME BandsIInv, NEW r \in Rows
      PROVE  IsPrefix(fb[r], serial[r]) /\ (phase = "done" => fb[r] = serial[r])
  <2> DEFINE b == RowBand(r)
             S == Added(b) \cap Covering(r)
             T == Covering(r)
  <2>1. BandsTypeOK /\ Binned /\ Deposited /\ Tasks
    BY <1>1 DEF BandsIInv
  <2>2. b \in Bands
    BY RowHasBand
  <2>3. /\ fb[r] \in Seq(Nat) /\ serial[r] \in Seq(Nat) /\ buckets[b] \in Seq(Nat)
        /\ at[b] \in Int /\ at[b] <= Len(buckets[b]) /\ Len(buckets[b]) \in Nat
    BY <2>1, <2>2, Typed
  <2>4. Lists(fb[r], S) /\ Lists(serial[r], T) /\ Lists(buckets[b], Touching(b))
    BY <2>1, <2>2 DEF Deposited, Binned
  <2>5. T \subseteq Touching(b)
    <3>1. ASSUME NEW x \in T PROVE x \in Touching(b)
      <4>1. x \in 1 .. binned /\ r \in Splatted(recs[x], 0, Height)
        BY DEF Covering
      <4>2. recs[x] \in Records
        BY <2>1, <4>1, Typed
      <4> QED
        BY <4>1, <4>2, CoveredBand DEF Touching
    <3> QED
      BY <3>1
  <2>6. ASSUME NEW x \in T, NEW y \in S, x < y PROVE x \in S
    <3>1. PICK m \in 1 .. at[b] : y = buckets[b][m]
      BY DEF Added
    <3>2. PICK n \in 1 .. Len(buckets[b]) : buckets[b][n] = x
      BY <2>3, <2>4, <2>5, ListedAt
    <3>3. m \in 1 .. Len(buckets[b])
      BY <2>3
    <3>4. buckets[b][m] \in Nat /\ buckets[b][n] \in Nat
      BY <2>3, <3>2, <3>3, ElementOfSeq
    <3>5. m < n => buckets[b][m] < buckets[b][n]
      BY <2>4, <3>2, <3>3 DEF Lists
    <3>6. n <= m
      BY <2>6, <3>1, <3>2, <3>3, <3>4, <3>5
    <3>7. n \in 1 .. at[b]
      BY <2>3, <3>2, <3>6
    <3> QED
      BY <3>2, <3>7 DEF Added
  <2>7. IsPrefix(fb[r], serial[r])
    <3> HIDE DEF b, S, T
    <3>1. S \subseteq T
      BY DEF S, T
    <3> QED
      BY <2>3, <2>4, <2>6, <3>1, PrefixLists
  <2>8. ASSUME phase = "done" PROVE fb[r] = serial[r]
    <3>1. at[b] = Len(buckets[b])
      BY <2>1, <2>2, <2>8 DEF Tasks
    <3>2. T \subseteq Added(b)
      <4>1. \A x \in Touching(b) : \E k \in 1 .. at[b] : buckets[b][k] = x
        BY <2>3, <2>4, <3>1, ListedAt
      <4> QED
        BY <2>5, <4>1 DEF Added
    <3>3. S = T
      BY <3>2
    <3> HIDE DEF b, S, T
    <3> QED
      BY <2>3, <2>4, <3>3, SameLists
  <2> QED
    BY <2>7, <2>8
<1>2. BandsIInv => ByteIdentical
  BY <1>1 DEF ByteIdentical
<1> QED
  BY <1>2, BandsInvariant, PTL

=============================================================================
