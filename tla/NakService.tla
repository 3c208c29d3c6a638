----------------------------- MODULE NakService -----------------------------
(***************************************************************************)
(* The sender's answer to loss reports: ReliabilitySession keeps the       *)
(* ranges it was asked for in pending_naks_, a sorted array, and works     *)
(* them off from a cursor, Budget packets per call.  The parts of a report *)
(* that lie before the send buffer become DROPREQ replies, which wait in   *)
(* the send buffer until an action slot is free.                           *)
(*                                                                         *)
(* The send buffer appears as its first and next sequence; what a marked   *)
(* packet goes through is SendBuffer's, the reply queue is                 *)
(* RangeDropQueue's, and both take every request here.                     *)
(***************************************************************************)
EXTENDS SequenceNumber, Sequences, FiniteSets, SequencesExt

CONSTANTS
    Start,      \* the first sequence number
    Packets,    \* packets sent in one behaviour
    Span,       \* packets the send buffer holds
    Words,      \* maximum_loss_words_per_packet, as ranges of one report
    Budget      \* packets one call works off (256)

VARIABLES
    send_buffer,        \* [first, next]: the sequences that can be retransmitted
    peer_acknowledged,  \* peer_acknowledged_sequence_
    pending_naks,       \* the array, as a sequence of ranges
    cursor,             \* pending_nak_cursor_
    replies,            \* sequences with a DROPREQ reply queued
    emitted,            \* sequences the last step named in a DROPREQ
    owed,               \* history: reported sequences not yet marked
    waited              \* history: packets marked while a sequence was owed

vars == <<send_buffer, peer_acknowledged, pending_naks, cursor, replies, emitted, owed, waited>>

pending_nak_capacity == 2 * Words

Sequences_ == {Advanced(Start, k) : k \in 0 .. Packets - 1}
Order(s) == DistanceFrom(s, send_buffer.first)
Held == {s \in Sequences_ : Order(s) >= 0 /\ DistanceFrom(s, send_buffer.next) < 0}
Covered(r) == {s \in Sequences_ : DistanceFrom(s, r.first) >= 0 /\ DistanceFrom(s, r.last) <= 0}
All(ranges) == UNION {Covered(ranges[i]) : i \in DOMAIN ranges}

(* The maximal runs of a set of sequences, in order: what sorting ranges and *)
(* joining the overlapping and adjacent ones leaves.                         *)
Runs(S) ==
    LET starts == SetToSortSeq({s \in S : PrevSeq(s) \notin S}, LAMBDA a, b : Order(a) < Order(b))
        end(s) == CHOOSE e \in S : /\ Order(e) >= Order(s) /\ NextSeq(e) \notin S
                                   /\ \A x \in S : (Order(s) <= Order(x) /\ Order(x) <= Order(e))
                                        => (x = e \/ NextSeq(x) \in S)
    IN  [i \in DOMAIN starts |-> [first |-> starts[i], last |-> end(starts[i])]]

(* Ranges before the send buffer are discarded, one across its start is cut. *)
Clipped(ranges, floor) ==
    LET live == SelectSeq(ranges, LAMBDA r : DistanceFrom(r.last, floor) >= 0)
    IN  [i \in DOMAIN live |->
            IF DistanceFrom(live[i].first, floor) < 0 THEN [live[i] EXCEPT !.first = floor] ELSE live[i]]

(* Mutant: every call begins with the first range. *)
ChosenFirst(ranges, at, floor) == 1

(* The first range that ends at or after the cursor, else the first one. *)
Chosen(ranges, at, floor) ==
    LET reaching == {i \in DOMAIN ranges :
                        DistanceFrom(ranges[i].last, floor) >= DistanceFrom(at, floor)}
    IN  IF DistanceFrom(at, floor) < 0 \/ reaching = {} THEN 1
        ELSE CHOOSE i \in reaching : \A j \in reaching : i <= j

(* Mutant: the piece before the cursor is dropped with the served one. *)
CutTail(ranges, i, begin, end) ==
    LET r == ranges[i]
        tail == IF end = r.last THEN << >> ELSE <<[first |-> NextSeq(end), last |-> r.last]>>
    IN  SubSeq(ranges, 1, i - 1) \o tail \o SubSeq(ranges, i + 1, Len(ranges))

(* The unprocessed pieces on both sides of begin .. end stay. *)
Cut(ranges, i, begin, end) ==
    LET r == ranges[i]
        head == IF begin = r.first THEN << >> ELSE <<[first |-> r.first, last |-> PrevSeq(begin)]>>
        tail == IF end = r.last THEN << >> ELSE <<[first |-> NextSeq(end), last |-> r.last]>>
    IN  SubSeq(ranges, 1, i - 1) \o head \o tail \o SubSeq(ranges, i + 1, Len(ranges))

RECURSIVE Serve(_, _, _, _)
(* The loop of service_pending_naks: what is left, where the cursor stands   *)
(* and the sequences marked, in order.                                       *)
Serve(ranges, at, budget, marked) ==
    IF budget = 0 \/ ranges = << >> THEN [ranges |-> ranges, at |-> at, marked |-> marked]
    ELSE LET floor == send_buffer.first
             i == Chosen(ranges, at, floor)
             r == ranges[i]
             begin == IF DistanceFrom(at, r.first) > 0 /\ DistanceFrom(r.last, at) >= 0 THEN at ELSE r.first
             left == DistanceFrom(r.last, begin) + 1
             count == IF left < budget THEN left ELSE budget
             end == Advanced(begin, count - 1)
         IN  Serve(Cut(ranges, i, begin, end), NextSeq(end), budget - count,
                   marked \o [k \in 1 .. count |-> Advanced(begin, k - 1)])

service_pending_naks(ranges, at) == Serve(Clipped(ranges, send_buffer.first), at, Budget, << >>)

(* History: the sequences marked leave, the others have waited longer. *)
Account(asked, marked) ==
    /\ owed' = (owed \cup asked) \ ToSet(marked)
    /\ waited' = [s \in Sequences_ |->
          IF s \notin owed' THEN 0
          ELSE IF s \in owed THEN waited[s] + Len(marked) ELSE Len(marked)]

-----------------------------------------------------------------------------
Init ==
    /\ send_buffer = [first |-> Start, next |-> Start]
    /\ peer_acknowledged = Start
    /\ pending_naks = << >> /\ cursor = Start
    /\ replies = {} /\ emitted = {} /\ owed = {} /\ waited = [s \in Sequences_ |-> 0]

SendData ==
    /\ Cardinality(Held) < Span
    /\ DistanceFrom(send_buffer.next, Start) < Packets
    /\ send_buffer' = [send_buffer EXCEPT !.next = NextSeq(@)]
    /\ emitted' = {}
    /\ UNCHANGED <<peer_acknowledged, pending_naks, cursor, replies, owed, waited>>

(* The part of a report before the send buffer that needs a reply. *)
Stale(S) == {s \in S : Order(s) < 0 /\ DistanceFrom(s, peer_acknowledged) >= 0}

(* A loss report of the sequences S, which were all sent.  It is merged with *)
(* the pending ranges as a whole or, when they do not fit, refused.          *)
NakArrives(S) ==
    LET current == S \cap Held
        merged == Runs(All(Clipped(pending_naks, send_buffer.first)) \cup current)
        done == service_pending_naks(merged, IF pending_naks = << >> THEN send_buffer.first ELSE cursor)
    IN  /\ Len(merged) <= pending_nak_capacity
        /\ pending_naks' = done.ranges
        /\ cursor' = done.at
        /\ replies' = replies \cup Stale(S)
        /\ emitted' = {}
        /\ Account(current, done.marked)
        /\ UNCHANGED <<send_buffer, peer_acknowledged>>

(* The timer's call: the pending ranges are due at once. *)
ServiceTimer ==
    LET done == service_pending_naks(pending_naks, cursor) IN
    /\ pending_naks # << >>
    /\ pending_naks' = done.ranges
    /\ cursor' = done.at
    /\ emitted' = {}
    /\ Account({}, done.marked)
    /\ UNCHANGED <<send_buffer, peer_acknowledged, replies>>

(* Mutant: a queued reply goes out as it was queued. *)
StillWantedAlways(s) == TRUE

(* A reply is dropped or cut when the peer has acknowledged it meanwhile. *)
StillWanted(s) == DistanceFrom(s, peer_acknowledged) >= 0

append_pending_drop_requests ==
    \E s \in replies :
        /\ replies' = replies \ {s}
        /\ emitted' = {x \in {s} : StillWanted(x)}
        /\ UNCHANGED <<send_buffer, peer_acknowledged, pending_naks, cursor, owed, waited>>

(* The send buffer starts at s: acknowledged or abandoned up to there. *)
ReleaseBefore(s) ==
    /\ send_buffer' = [send_buffer EXCEPT !.first = s]
    /\ owed' = {x \in owed : DistanceFrom(x, s) >= 0}
    /\ waited' = [x \in Sequences_ |-> IF x \in owed' THEN waited[x] ELSE 0]
    /\ emitted' = {}
    /\ UNCHANGED <<pending_naks, cursor, replies>>

AckArrives(s) ==
    /\ DistanceFrom(s, peer_acknowledged) > 0 /\ DistanceFrom(s, send_buffer.next) <= 0
    /\ peer_acknowledged' = s
    /\ ReleaseBefore(IF Order(s) > 0 THEN s ELSE send_buffer.first)

AbandonBefore(s) ==
    /\ Order(s) > 0 /\ DistanceFrom(s, send_buffer.next) <= 0
    /\ ReleaseBefore(s)
    /\ UNCHANGED peer_acknowledged

(* Reports of up to Words runs of sequences that were sent and whose         *)
(* acknowledgement the peer may not have sent yet.                           *)
Reports ==
    {S \in SUBSET {s \in Sequences_ : DistanceFrom(s, send_buffer.next) < 0} :
        S # {} /\ Cardinality({s \in S : PrevSeq(s) \notin S}) <= Words}

Next ==
    \/ SendData \/ ServiceTimer \/ append_pending_drop_requests
    \/ \E S \in Reports : NakArrives(S)
    \/ \E k \in 1 .. Packets : LET s == Advanced(Start, k) IN AckArrives(s) \/ AbandonBefore(s)

Spec == Init /\ [][Next]_vars

-----------------------------------------------------------------------------
(* The array is what sorting and joining left, never longer than its         *)
(* storage, and still holds every sequence that was reported, neither marked *)
(* for retransmission nor released.  (pending_naks_, service_pending_naks.)  *)
PendingExact ==
    /\ Len(pending_naks) <= pending_nak_capacity + 1
    /\ LET live == Clipped(pending_naks, send_buffer.first)
       IN  live = Runs(owed)

(* No report can starve a sequence: while it waits, at most every other      *)
(* sequence of the send buffer is marked once, whatever reports extend the   *)
(* ranges before or behind the cursor.  (pending_nak_cursor_.)               *)
NakServed == \A s \in owed : waited[s] < Span

(* A delayed report never makes the sender abandon what was acknowledged: a  *)
(* DROPREQ for it would delete data the peer is holding for its delivery     *)
(* time.  (append_pending_drop_requests.)                                    *)
RepliesWanted == \A s \in emitted : DistanceFrom(s, peer_acknowledged) >= 0
=============================================================================
