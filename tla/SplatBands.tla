----------------------------- MODULE SplatBands -----------------------------
(***************************************************************************)
(* SplatDeposit::apply (lib/splat.cpp) on a threaded deposit: the records  *)
(* are binned into horizontal bands, one task per band is run on the       *)
(* WorkQueue, and each task adds its band's rows of its records.           *)
(*                                                                         *)
(* A row of the framebuffer is the sequence of records added to it: the    *)
(* adds are floating-point, so their order is the result.  A record is its *)
(* centre row and its class radius; columns are never split.               *)
(***************************************************************************)
EXTENDS Integers, SequencesExt

CONSTANTS
  Height,        \* height_
  Lanes,         \* lanes, the queue's participants
  BandsPerLane,  \* kBandsPerLane
  Centres,       \* bound: y_pixel of a record
  Radii,         \* bound: radius_y of the focus classes
  MaxRecs        \* bound: records in a batch

ASSUME SplatAssumption ==
  /\ Height \in Nat \ {0} /\ Lanes \in Nat \ {0, 1} /\ BandsPerLane \in Nat \ {0}
  /\ Centres \subseteq Int /\ Radii \subseteq Nat
  /\ MaxRecs \in Nat

Least(a, b) == IF a < b THEN a ELSE b
Greatest(a, b) == IF a < b THEN b ELSE a

NBands == Least(Height, Lanes * BandsPerLane)
Bands  == 0 .. NBands - 1
Rows   == 0 .. Height - 1

(* band_edges_: band b owns the rows BandEdge(b) .. BandEdge(b + 1) - 1.   *)
BandEdge(b) == (b * Height) \div NBands
BandRows(b) == BandEdge(b) .. BandEdge(b + 1) - 1

(* row_band_, filled band by band.                                         *)
RowBand(r) == CHOOSE b \in Bands : r \in BandRows(b)

(* row_span: the rows of the frame a record's spot covers.                 *)
Base(rec)    == rec.y - rec.radius
SpanLo(rec)  == Greatest(0, Base(rec))
SpanEnd(rec) == Least(Height, Base(rec) + 2 * rec.radius + 1)

(* splat: the rows it adds to when clipped to lo .. end - 1.               *)
Splatted(rec, lo, end) ==
  {Base(rec) + k : k \in Greatest(0, lo - Base(rec)) ..
                         Least(2 * rec.radius + 1, end - Base(rec)) - 1}

Records == [y : Centres, radius : Radii]

(* The rows band b's task writes for a record (apply_band).                *)
TaskRows(b, rec) == Splatted(rec, BandEdge(b), BandEdge(b + 1))

VARIABLES
  recs,     \* the batch
  phase,    \* "bin", "apply" (the tasks run), "done"
  binned,   \* records bin() has put into their buckets
  buckets,  \* buckets_: per band, record indices
  running,  \* bands whose task a thread has claimed and not finished
  at,       \* at[b]: records band b's task has added
  fb,       \* the framebuffer, row by row
  serial    \* history: the framebuffer of apply_serial after those records

bandsVars == <<recs, phase, binned, buckets, running, at, fb, serial>>

BandsInit ==
  /\ recs \in UNION {[1 .. n -> Records] : n \in 0 .. MaxRecs}
  /\ phase = "bin" /\ binned = 0
  /\ buckets = [b \in Bands |-> <<>>]
  /\ running = {}
  /\ at = [b \in Bands |-> -1]
  /\ fb = [r \in Rows |-> <<>>]
  /\ serial = [r \in Rows |-> <<>>]

(* Only the band of the spot's first row gets the record.                  *)
BinnedInto_First(rec) ==
  IF SpanLo(rec) >= SpanEnd(rec) THEN {} ELSE {RowBand(SpanLo(rec))}

(* The bands a record is binned into: none if it lies off the frame.       *)
BinnedInto(rec) ==
  IF SpanLo(rec) >= SpanEnd(rec) THEN {}
  ELSE RowBand(SpanLo(rec)) .. RowBand(SpanEnd(rec) - 1)

(* What the serial loop does with record i: add its rows to the frame.     *)
SerialAdds(i) ==
  [r \in Rows |-> IF r \in Splatted(recs[i], 0, Height) THEN Append(serial[r], i) ELSE serial[r]]

(* bin() appends the next record to the bucket of each of its bands; the   *)
(* serial loop, which needs no buckets, is the reference beside it.        *)
Bin ==
  /\ phase = "bin" /\ binned < Len(recs)
  /\ binned' = binned + 1
  /\ buckets' = [b \in Bands |-> IF b \in BinnedInto(recs[binned'])
                                  THEN Append(buckets[b], binned') ELSE buckets[b]]
  /\ serial' = SerialAdds(binned')
  /\ UNCHANGED <<recs, phase, running, at, fb>>

(* Every record is binned: one task per band, and the queue runs them.     *)
Run ==
  /\ phase = "bin" /\ binned = Len(recs)
  /\ phase' = "apply"
  /\ UNCHANGED <<recs, binned, buckets, running, at, fb, serial>>

(* A participant of the queue claims the next band's task.                 *)
Claim(b) ==
  /\ phase = "apply" /\ at[b] = -1
  /\ \A c \in 0 .. b - 1 : at[c] >= 0
  /\ Cardinality(running) < Lanes
  /\ running' = running \cup {b}
  /\ at' = [at EXCEPT ![b] = 0]
  /\ UNCHANGED <<recs, phase, binned, buckets, fb, serial>>

(* Band b's task adds its next record, clipped to the band's rows.         *)
ApplyNext(b) ==
  /\ b \in running /\ at[b] < Len(buckets[b])
  /\ LET i == buckets[b][at[b] + 1]
         rows == TaskRows(b, recs[i])
     IN fb' = [r \in Rows |-> IF r \in rows THEN Append(fb[r], i) ELSE fb[r]]
  /\ at' = [at EXCEPT ![b] = @ + 1]
  /\ UNCHANGED <<recs, phase, binned, buckets, running, serial>>

Finish(b) ==
  /\ b \in running /\ at[b] = Len(buckets[b])
  /\ running' = running \ {b}
  /\ UNCHANGED <<recs, phase, binned, buckets, at, fb, serial>>

(* run() returns when every task has completed.                            *)
Return ==
  /\ phase = "apply" /\ running = {} /\ \A b \in Bands : at[b] >= 0
  /\ phase' = "done"
  /\ UNCHANGED <<recs, binned, buckets, running, at, fb, serial>>

Done == phase = "done" /\ UNCHANGED bandsVars

BandsNext ==
  \/ Bin \/ Run \/ Return \/ Done
  \/ \E b \in Bands : Claim(b) \/ ApplyNext(b) \/ Finish(b)

BandsSpec == BandsInit /\ [][BandsNext]_bandsVars

-----------------------------------------------------------------------------
(* Properties.                                                             *)

(* Every variable has its type.                                            *)
BandsTypeOK ==
  /\ recs \in Seq(Records)
  /\ phase \in {"bin", "apply", "done"}
  /\ binned \in 0 .. Len(recs)
  /\ running \subseteq Bands
  /\ buckets \in [Bands -> Seq(1 .. Len(recs))]
  /\ DOMAIN at = Bands /\ \A b \in Bands : at[b] \in -1 .. Len(buckets[b])
  /\ fb \in [Rows -> Seq(1 .. Len(recs))] /\ serial \in [Rows -> Seq(1 .. Len(recs))]

(* "Byte-identical to the serial loop" (SplatDeposit::apply): at no moment *)
(* has a row received adds the serial loop does not make first and in that *)
(* order, and at the end it has received them all.  With no lock on the    *)
(* rows this takes the running tasks to share none.                        *)
ByteIdentical ==
  \A r \in Rows : /\ IsPrefix(fb[r], serial[r])
                 /\ phase = "done" => fb[r] = serial[r]

=============================================================================
