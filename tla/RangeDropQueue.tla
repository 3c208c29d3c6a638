--------------------------- MODULE RangeDropQueue ---------------------------
(***************************************************************************)
(* detail/range_drop_queue.hpp: sequence-only DROPREQ replies to NAKs that *)
(* predate the send buffer.  The queue keeps the exact union of the        *)
(* reported ranges as sorted, disjoint, non-adjacent and non-wrapping      *)
(* intervals; a wrapping range is stored as two intervals and joined again *)
(* on emission.  The ring (head_, size_) is a sequence here.               *)
(***************************************************************************)
EXTENDS SequenceNumber, Sequences, FiniteSets, SequencesExt

CONSTANTS
  MaxTerms,     \* maximum_range_drop_terms: ranges one NAK datagram can name
  Batches       \* the batches of ranges callers hand to queue()

VARIABLES
  ranges,       \* ranges_[head_ .. head_ + size_), in order
  emitted       \* the range the last next() returned, <<>> if none

vars == <<ranges, emitted>>

RangeRec == [first : SeqNum, last : SeqNum]

(* Mutant: no room for the second half of a range that crosses the rollover. *)
capacityTight == MaxTerms

\* One interval more than a datagram: a batch may contain one rollover split.
capacity == MaxTerms + 1

(* A range that crosses the rollover becomes the two intervals it consists of. *)
SplitAtWrap(r) ==
  IF r.first <= r.last
    THEN <<r>>
    ELSE <<[first |-> 0, last |-> r.last], [first |-> r.first, last |-> Modulus - 1]>>

ByFirst(a, b) == a.first < b.first

(* Mutant: adjacent intervals are kept apart. *)
MergeStepOverlapOnly(merged, r) ==
  IF merged # <<>> /\ r.first <= Last(merged).last
    THEN Append(Front(merged),
                [Last(merged) EXCEPT !.last = IF r.last > @ THEN r.last ELSE @])
    ELSE Append(merged, r)

(* One iteration of the merging loop: extend the last interval or append. *)
MergeStep(merged, r) ==
  IF merged # <<>> /\ r.first <= Last(merged).last + 1
    THEN Append(Front(merged),
                [Last(merged) EXCEPT !.last = IF r.last > @ THEN r.last ELSE @])
    ELSE Append(merged, r)

Merged(old, incoming) ==
  LET split == FlattenSeq([i \in DOMAIN incoming |-> SplitAtWrap(incoming[i])])
  IN  FoldLeft(MergeStep, <<>>, SortSeq(old \o split, ByFirst))

Valid(batch) ==
  /\ Len(batch) <= MaxTerms
  /\ \A i \in DOMAIN batch : DistanceFrom(batch[i].last, batch[i].first) >= 0

(* queue(): the whole union is previewed before the queue is touched. *)
Accepts(batch) == Valid(batch) /\ Len(Merged(ranges, batch)) <= capacity

Queue(batch) ==
  /\ ranges' = IF Accepts(batch) THEN Merged(ranges, batch) ELSE ranges
  /\ emitted' = <<>>

(* The interval next() hands out when the ends of the queue meet at zero. *)
WrapRange == [first |-> Last(ranges).first, last |-> Head(ranges).last]

(* Mutant: the ends are joined however long the result is. *)
JoinsAtWrapAlways ==
  /\ Len(ranges) > 1
  /\ Head(ranges).first = 0
  /\ Last(ranges).last = Modulus - 1

JoinsAtWrap ==
  /\ Len(ranges) > 1
  /\ Head(ranges).first = 0
  /\ Last(ranges).last = Modulus - 1
  /\ DistanceFrom(WrapRange.last, WrapRange.first) >= 0

(* next(): join across the rollover, clip what half the space cannot order. *)
Next_range ==
  /\ ranges # <<>>
  /\ LET head == Head(ranges)
     IN  IF JoinsAtWrap
           THEN /\ emitted' = <<WrapRange>>
                /\ ranges' = Front(Tail(ranges))
         ELSE IF head.last - head.first >= HalfRange
           THEN LET cut == Advanced(head.first, HalfRange - 1)
                IN  /\ emitted' = <<[head EXCEPT !.last = cut]>>
                    /\ ranges' = <<[head EXCEPT !.first = NextSeq(cut)]>> \o Tail(ranges)
         ELSE /\ emitted' = <<head>>
              /\ ranges' = Tail(ranges)

Init == ranges = <<>> /\ emitted = <<>>

Next == (\E batch \in Batches : Queue(batch)) \/ Next_range

Spec == Init /\ [][Next]_vars

-----------------------------------------------------------------------------
(* The stored intervals are pairs of wire sequence numbers, ascending,       *)
(* non-wrapping and separated by at least one sequence, and never exceed the *)
(* storage: what next() relies on when it joins only the two end intervals.  *)
Canonical ==
  /\ Len(ranges) <= capacity
  /\ \A i \in DOMAIN ranges : ranges[i] \in RangeRec /\ ranges[i].first <= ranges[i].last
  /\ \A i \in 1 .. Len(ranges) - 1 : ranges[i].last + 1 < ranges[i + 1].first

(* "Exhausting the pending range capacity" is the only reason to refuse a    *)
(* valid batch: an empty queue takes any single NAK datagram whole, also one *)
(* whose ranges cross the rollover, so a NAK can always be answered once the *)
(* backlog has drained.                                                      *)
EmptyAcceptsAnyReport ==
  ranges = <<>> => \A batch \in Batches : Valid(batch) => Accepts(batch)

(* queue() and next() implement the set of owed sequences their users rely   *)
(* on: nothing is lost or added by merging, by the rollover split or by the  *)
(* half-range cut, and every DROPREQ names, unambiguously, exactly the       *)
(* sequences that leave the queue.                                           *)
Owed == INSTANCE RangeDropSet WITH
          owed <- UNION {ranges[i].first .. ranges[i].last : i \in DOMAIN ranges}

ImplementsOwedSet == Owed!Spec
=============================================================================
