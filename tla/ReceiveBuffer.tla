--------------------------- MODULE ReceiveBuffer ---------------------------
(***************************************************************************)
(* The receive buffer (src/src/receive_buffer.cpp): a ring of Capacity     *)
(* slots that starts at first_stored_sequence.  Position i of "slots" is   *)
(* the ring slot i places after head_, so the ring index is not a variable *)
(* and moving the frontier rotates the function; a slot that is passed     *)
(* without being cleared comes back at the far end, as in the ring.        *)
(*                                                                         *)
(* Arrivals, reads, drops and queries are driven the way                   *)
(* ReliabilitySession drives them: Mode is the session's API and profile   *)
(* ("message", "stream" or "sensor").                                      *)
(***************************************************************************)
EXTENDS SequenceNumber, Sequences, FiniteSets, SequencesExt

CONSTANTS
    InitialSequence,   \* sequence number of the peer's first packet
    Scenarios,         \* the configurations of a connection that are explored
    RepairDelay,       \* sensor_repair_deadline_microseconds, in ticks
    MaxTime            \* bound on the clock

(* A configuration: slots of the ring; the message number of each packet of
   the peer; the API or profile; readable units of one payload (stream reads
   split it); whether some payloads fail authentication; whether another group
   member may deliver a prefix first; a bound on the packets in one DROPREQ. *)
ASSUME ScenarioAssumption == \A c \in Scenarios :
    /\ c.capacity \in Nat \ {0}
    /\ c.layout \in Seq(Nat)
    /\ Len(c.layout) + c.capacity < HalfRange
    /\ \A i, j \in DOMAIN c.layout : i < j => c.layout[i] <= c.layout[j]
    /\ c.mode \in {"message", "stream", "sensor"}
    /\ c.mode = "sensor" => IsInjective(c.layout) /\ ~c.group_member
    /\ c.units \in Nat \ {0} /\ c.max_drop_span \in Nat \ {0}
    /\ c.discards \in BOOLEAN /\ c.group_member \in BOOLEAN
ASSUME PeerSequenceAssumption == InitialSequence \in SeqNum
ASSUME ClockAssumption == MaxTime \in Nat /\ RepairDelay \in Nat \ {0}

VARIABLES
    scenario,               \* the configuration, which never changes
    slots,                  \* [0..Capacity-1 -> Slot]
    first_stored_sequence,  \* receive frontier
    next_ack_sequence,      \* first sequence the cumulative ACK does not cover
    discarding_message,     \* message whose fragments are removed on arrival
    message_query,          \* cache of first_complete_message
    packet_query,           \* cache of first_buffered_packet
    endpoints,              \* first and last buffered sequence
    peer_send_horizon,      \* highest DATA sequence observed
    delivered,              \* history: packets handed to the application
    accounted,              \* history: packets that arrived or were given up
    now

vars == <<scenario, slots, first_stored_sequence, next_ack_sequence, discarding_message,
          message_query, packet_query, endpoints, peer_send_horizon, delivered,
          accounted, now>>

Capacity == scenario.capacity
Layout == scenario.layout
Mode == scenario.mode
Units == scenario.units
Discards == scenario.discards
GroupMember == scenario.group_member
MaxDropSpan == scenario.max_drop_span

Positions == 0 .. Capacity - 1
None == -1               \* no sequence number, no message number
Nothing == << >>         \* a query that found nothing
Unknown == <<None, None>> \* a cache that is not valid

(***************************************************************************)
(* The peer's packets.                                                     *)
(***************************************************************************)
Sent == {Advanced(InitialSequence, k - 1) : k \in DOMAIN Layout}
Place(s) == DistanceFrom(s, InitialSequence) + 1
Message(s) == Layout[Place(s)]
BeginsMessage(s) == Place(s) > 1 => Layout[Place(s) - 1] # Message(s)
EndsMessage(s) == Place(s) < Len(Layout) => Layout[Place(s) + 1] # Message(s)
Precedes(s, t) == DistanceFrom(s, t) < 0
Below(s) == {t \in Sent : Precedes(t, s)}
Span(lo, hi) == {t \in Sent : ~Precedes(t, lo) /\ ~Precedes(hi, t)}

(***************************************************************************)
(* Slots.  seq = None: no DATA (not occupied); dropped: settled without    *)
(* DATA; gap: the deadline of a marked gap, 0 when unmarked.               *)
(***************************************************************************)
Slot == [seq : Sent \cup {None}, dropped : BOOLEAN, rejected : BOOLEAN,
         offset : 0 .. Units - 1, gap : 0 .. MaxTime + RepairDelay]
EmptySlot == [seq |-> None, dropped |-> FALSE, rejected |-> FALSE,
              offset |-> 0, gap |-> 0]
DroppedSlot == [EmptySlot EXCEPT !.dropped = TRUE]

(* The buffer as one value, so that an operation is a function of it. *)
buffer == [slots |-> slots, first |-> first_stored_sequence,
           ack |-> next_ack_sequence, discarding |-> discarding_message,
           message |-> message_query, packet |-> packet_query,
           ends |-> endpoints]

Becomes(b) ==
    /\ slots' = b.slots
    /\ first_stored_sequence' = b.first
    /\ next_ack_sequence' = b.ack
    /\ discarding_message' = b.discarding
    /\ message_query' = b.message
    /\ packet_query' = b.packet
    /\ endpoints' = b.ends

Offset(b, s) == DistanceFrom(s, b.first)
SequenceAt(b, i) == Advanced(b.first, i)
Occupied(b, i) == b.slots[i].seq # None
Stored(b) == {i \in Positions : Occupied(b, i)}
Holds(b, i) == b.slots[i].seq = SequenceAt(b, i)

(* find: DATA that can be read at position i. *)
Readable(b, i) == Holds(b, i) /\ ~b.slots[i].rejected

is_settled(b, i) == b.slots[i].dropped \/ Holds(b, i)

message_rejected(b, m) ==
    \E i \in Stored(b) : b.slots[i].rejected /\ Message(b.slots[i].seq) = m

(* Mutant: the frontier moves without the caches being forgotten. *)
invalidate_delivery_queriesNever(b) == b

invalidate_delivery_queries(b) ==
    [b EXCEPT !.message = Unknown, !.packet = Unknown]

(* Mutant: the frontier moves but the ring index does not. *)
advance_frontierHeadKept(b, n) == [b EXCEPT !.first = Advanced(@, n)]

advance_frontier(b, n) ==
    [b EXCEPT !.first = Advanced(@, n),
              !.slots = [i \in Positions |-> @[(i + n) % Capacity]]]

(* Mutant: the ACK boundary steps over the slot after the settled run. *)
advance_acknowledgementOneTooFar(b) ==
    LET from == Offset(b, b.ack) IN
    IF from \notin Positions THEN b
    ELSE [b EXCEPT !.ack = Advanced(@,
            Max({k \in 0 .. Capacity - from :
                    \A i \in from + 1 .. from + k - 1 : is_settled(b, i)}))]

(* The loop that moves the ACK boundary over settled slots of the window. *)
advance_acknowledgement(b) ==
    LET from == Offset(b, b.ack) IN
    IF from \notin Positions THEN b
    ELSE [b EXCEPT !.ack = Advanced(@,
            Max({k \in 0 .. Capacity - from :
                    \A i \in from .. from + k - 1 : is_settled(b, i)}))]

refresh_first_buffered_timestamp(b) ==
    IF Stored(b) = {} THEN [b EXCEPT !.ends = <<None, None>>]
    ELSE [b EXCEPT !.ends[1] = b.slots[Min(Stored(b))].seq]

(* Mutant: only the first endpoint is refreshed. *)
refresh_buffered_timestamp_boundsFirst(b) == refresh_first_buffered_timestamp(b)

refresh_buffered_timestamp_bounds(b) ==
    IF Stored(b) = {} THEN [b EXCEPT !.ends = <<None, None>>]
    ELSE [b EXCEPT !.ends = <<b.slots[Min(Stored(b))].seq,
                              b.slots[Max(Stored(b))].seq>>]

(* Mutant: rejection is noticed only at the rejected fragment itself. *)
DoomedOnlyAtMark(b, i) ==
    \/ b.slots[i].dropped
    \/ Occupied(b, i) /\ (b.slots[i].rejected \/ Message(b.slots[i].seq) = b.discarding)

(* A head slot that trim_dropped_prefix removes: settled without DATA, or a
   fragment of a message being discarded. *)
Doomed(b, i) ==
    \/ b.slots[i].dropped
    \/ /\ Occupied(b, i)
       /\ LET m == Message(b.slots[i].seq)
          IN  m = b.discarding \/ message_rejected(b, m)

(* The whole trimming loop: n is the number of head slots removed.  The
   message being discarded is remembered across a gap that follows one of its
   fragments, and forgotten at its last fragment or at another message. *)
trim_dropped_prefix(b) ==
    LET n == Max({k \in 0 .. Capacity : \A i \in 0 .. k - 1 : Doomed(b, i)})
        removed == {i \in 0 .. n - 1 : Occupied(b, i)}
        final == b.slots[Max(removed)].seq
        pending == IF removed = {} THEN b.discarding
                   ELSE IF EndsMessage(final) THEN None ELSE Message(final)
        cleared == [b EXCEPT
            !.slots = [i \in Positions |-> IF i < n THEN EmptySlot ELSE @[i]],
            !.discarding = IF n < Capacity /\ Occupied(b, n) THEN None
                           ELSE pending]
    IN  IF n = 0 THEN cleared
        ELSE advance_frontier(invalidate_delivery_queries(cleared), n)

(* Rejects the message of a stored packet: all its fragments are removed when
   the frontier reaches them, those that arrive later included. *)
discard_message_payload(b, s) ==
    LET i == Offset(b, s) IN
    IF i \notin Positions \/ ~Readable(b, i) THEN b
    ELSE refresh_buffered_timestamp_bounds(trim_dropped_prefix(
            invalidate_delivery_queries([b EXCEPT !.slots[i].rejected = TRUE])))

Accepts(b, s) ==
    /\ Offset(b, s) \in Positions
    /\ b.slots[Offset(b, s)].seq = None
    /\ ~b.slots[Offset(b, s)].dropped

(* A packet that joins a message being rejected is trimmed at once. *)
TrimRejected(b) ==
    IF b.discarding # None \/ \E i \in Stored(b) : b.slots[i].rejected
    THEN refresh_buffered_timestamp_bounds(trim_dropped_prefix(b))
    ELSE b

insert(b, s) ==
    TrimRejected(advance_acknowledgement([invalidate_delivery_queries(b) EXCEPT
        !.slots[Offset(b, s)] = [EmptySlot EXCEPT !.seq = s],
        !.ends = IF Stored(b) = {} THEN <<s, s>>
                 ELSE <<IF Precedes(s, @[1]) THEN s ELSE @[1],
                        IF Precedes(@[2], s) THEN s ELSE @[2]>>]))

(* Mutant: only the last sequence of the gap gets a deadline. *)
mark_gapLastOnly(b, lo, hi, deadline) ==
    [b EXCEPT !.slots = [i \in Positions |->
        IF SequenceAt(b, i) = hi /\ ~Occupied(b, i) /\ ~@[i].dropped /\ @[i].gap = 0
        THEN [@[i] EXCEPT !.gap = deadline] ELSE @[i]]]

(* mark_gap over the sequences lo .. hi that are still open and unmarked. *)
mark_gap(b, lo, hi, deadline) ==
    [b EXCEPT !.slots = [i \in Positions |->
        IF /\ ~Precedes(SequenceAt(b, i), lo) /\ ~Precedes(hi, SequenceAt(b, i))
           /\ ~Occupied(b, i) /\ ~@[i].dropped /\ @[i].gap = 0
        THEN [@[i] EXCEPT !.gap = deadline] ELSE @[i]]]

(* Mutant: a message may start at any fragment. *)
MessageAtAnyStart(b, first, last) ==
    /\ \A i \in first .. last : Readable(b, i)
    /\ EndsMessage(SequenceAt(b, last))
    /\ \A i \in first .. last - 1 : ~EndsMessage(SequenceAt(b, i))

(* The positions first .. last hold one message that can be read whole. *)
MessageAt(b, first, last) ==
    /\ \A i \in first .. last : Readable(b, i)
    /\ BeginsMessage(SequenceAt(b, first))
    /\ EndsMessage(SequenceAt(b, last))
    /\ \A i \in first .. last - 1 : ~EndsMessage(SequenceAt(b, i))

FirstWhere(S) == IF S = {} THEN Nothing ELSE CHOOSE r \in S : \A q \in S : r[1] <= q[1]

(* What a scan finds, as sequence numbers; the caches keep a scan's result. *)
ScanMessage(b) ==
    LET found == FirstWhere({r \in Positions \X Positions :
                                r[1] <= r[2] /\ MessageAt(b, r[1], r[2])})
    IN  IF found = Nothing THEN Nothing
        ELSE <<SequenceAt(b, found[1]), SequenceAt(b, found[2])>>

ScanPacket(b) ==
    LET open == {i \in Positions : Readable(b, i)} IN
    IF open = {} THEN Nothing
    ELSE <<SequenceAt(b, Min(open)), SequenceAt(b, Min(open))>>

query_first_complete_message(b) ==
    IF b.message # Unknown THEN b ELSE [b EXCEPT !.message = ScanMessage(b)]

query_first_buffered_packet(b) ==
    IF b.packet # Unknown THEN b ELSE [b EXCEPT !.packet = ScanPacket(b)]

(* Mutant: the payload is released but the frontier stays. *)
pop_messageFrontierKept(b, n) ==
    refresh_first_buffered_timestamp(
        [invalidate_delivery_queries(b) EXCEPT
            !.slots = [i \in Positions |-> IF i < n THEN EmptySlot ELSE @[i]]])

(* pop_message: the message at the head, of n packets, is removed. *)
pop_message(b, n) ==
    refresh_first_buffered_timestamp(trim_dropped_prefix(advance_frontier(
        [invalidate_delivery_queries(b) EXCEPT
            !.slots = [i \in Positions |-> IF i < n THEN EmptySlot ELSE @[i]]], n)))

(* pop_message_unordered behind a gap: a delivered marker stays in the slot. *)
TakeSample(b, i) ==
    refresh_buffered_timestamp_bounds(trim_dropped_prefix(advance_acknowledgement(
        [invalidate_delivery_queries(b) EXCEPT !.slots[i] = DroppedSlot])))

(* pop_stream of one unit from the packet at the head. *)
pop_stream(b) ==
    IF b.slots[0].offset + 1 < Units THEN [b EXCEPT !.slots[0].offset = @ + 1]
    ELSE pop_message(b, 1)

(* complete_message_last_offset: position i belongs to a message that is
   stored from its first to its last fragment.  Unlike Readable, it does not
   look at the rejection of a payload. *)
CompleteMember(b, i) ==
    \E first \in 0 .. i, last \in i .. Capacity - 1 :
        /\ \A j \in first .. last : Holds(b, j) /\ b.slots[j].offset = 0
        /\ BeginsMessage(SequenceAt(b, first))
        /\ EndsMessage(SequenceAt(b, last))
        /\ \A j \in first .. last - 1 : ~EndsMessage(SequenceAt(b, j))

(* Mutant: only solo messages are recognised as complete. *)
PreservesSolo(b, i, preservation) ==
    \/ preservation = "received_packets" /\ Readable(b, i)
    \/ /\ preservation = "complete_messages"
       /\ Holds(b, i)
       /\ BeginsMessage(SequenceAt(b, i)) /\ EndsMessage(SequenceAt(b, i))

(* What drop_range_impl leaves alone inside the range. *)
Preserves(b, i, preservation) ==
    \/ preservation = "received_packets" /\ Readable(b, i)
    \/ preservation = "complete_messages" /\ CompleteMember(b, i)

(* Mutant: the payload of a dropped packet stays in its slot. *)
MarkDroppedOccupied(b, gone) ==
    [b EXCEPT !.slots = [i \in Positions |->
        IF i \in gone THEN [@[i] EXCEPT !.dropped = TRUE] ELSE @[i]]]

MarkDropped(b, gone) ==
    LET marked == [b EXCEPT !.slots = [i \in Positions |->
                      IF i \in gone THEN DroppedSlot ELSE @[i]]]
    IN  IF gone \cap Stored(b) = {} THEN marked
        ELSE invalidate_delivery_queries(marked)

(* The end of drop_range_impl.  The frontier moves over the part of the range
   that lies past the trimmed window or up to the first preserved packet. *)
PassRange(b, atHead, hi, preserved) ==
    LET target == IF /\ preserved # None /\ Offset(b, preserved) >= 0
                     /\ Precedes(preserved, NextSeq(hi))
                  THEN preserved ELSE NextSeq(hi)
    IN  IF ~atHead \/ Offset(b, hi) < 0 \/ Offset(b, target) = 0 THEN b
        ELSE advance_frontier(invalidate_delivery_queries(b), Offset(b, target))

(* The ACK boundary follows a frontier that has passed it. *)
CatchUp(b) ==
    IF Precedes(b.ack, b.first) THEN advance_acknowledgement([b EXCEPT !.ack = b.first])
    ELSE b

(* The endpoints are refreshed if DATA was removed. *)
RefreshIfRemoved(b, occupied_before) ==
    IF Cardinality(Stored(b)) = occupied_before THEN b
    ELSE refresh_buffered_timestamp_bounds(b)

drop_range_impl(b, lo, hi, preservation) ==
    LET affected == {i \in Positions : Offset(b, lo) <= i /\ i <= Offset(b, hi)}
        kept == {i \in affected : Preserves(b, i, preservation)}
        preserved == IF kept = {} THEN None ELSE SequenceAt(b, Min(kept))
        marked == MarkDropped(b, affected \ kept)
    IN  IF Offset(b, hi) < 0 THEN b
        ELSE RefreshIfRemoved(
                CatchUp(PassRange(trim_dropped_prefix(advance_acknowledgement(marked)),
                                  Offset(b, lo) <= 0, hi, preserved)),
                Cardinality(Stored(b)))

drop_range(b, lo, hi) == drop_range_impl(b, lo, hi, "none")

drop_peer_requested_range(b, lo, hi) ==
    drop_range_impl(b, lo, hi,
        IF Mode = "stream" THEN "received_packets" ELSE "complete_messages")

(* Mutant: packets stored after the range are not acknowledged with it. *)
acknowledge_peer_drop_rangeOnly(b, lo, hi) ==
    IF Precedes(b.ack, lo) \/ Precedes(hi, b.ack) THEN b
    ELSE [b EXCEPT !.ack = NextSeq(hi)]

acknowledge_peer_drop_range(b, lo, hi) ==
    IF Precedes(b.ack, lo) \/ Precedes(hi, b.ack) THEN b
    ELSE advance_acknowledgement([b EXCEPT !.ack = NextSeq(hi)])

(* discard_before: the slots are cleared and the frontier moves; neither the
   ACK boundary nor the new head is looked at again. *)
discard_before(b, s) ==
    LET n == Offset(b, s)
        cleared == [invalidate_delivery_queries(b) EXCEPT
            !.slots = [i \in Positions |-> IF i < n THEN EmptySlot ELSE @[i]],
            !.ack = IF Precedes(@, s) THEN s ELSE @]
    IN  refresh_first_buffered_timestamp(advance_frontier(cleared, n))

(* Mutant: the copy stops at the first gap, like ordered delivery. *)
copy_complete_messagesToGap(b) ==
    {SequenceAt(b, i) : i \in {j \in Positions :
        CompleteMember(b, j) /\ \A k \in 0 .. j : Readable(b, k)}}

(* copy_complete_messages within its budget: the copied packets.  A complete
   message is found by its readable first packet; a member of it that cannot
   be read ends the copy with an error and nothing copied. *)
copy_complete_messages(b) ==
    LET starts(i) == Readable(b, i) /\ BeginsMessage(SequenceAt(b, i))
        member(i, j) == /\ i <= j /\ CompleteMember(b, i) /\ CompleteMember(b, j)
                        /\ Message(SequenceAt(b, i)) = Message(SequenceAt(b, j))
        copied == {j \in Positions : \E i \in Positions : starts(i) /\ member(i, j)}
    IN  IF \E j \in copied : ~Readable(b, j) THEN {}
        ELSE {SequenceAt(b, j) : j \in copied}

ExpiredGaps(b) ==
    {i \in Positions : /\ ~Occupied(b, i) /\ ~b.slots[i].dropped
                       /\ b.slots[i].gap # 0 /\ b.slots[i].gap <= now}

(* expire_sensor_receive_gaps: every expired gap is dropped, in order. *)
expire_sensor_receive_gaps(b) ==
    FoldLeft(LAMBDA acc, s : drop_range(acc, s, s), b,
             SetToSortSeq({SequenceAt(b, i) : i \in ExpiredGaps(b)}, Precedes))

(***************************************************************************)
(* The session's use of the buffer.                                        *)
(***************************************************************************)
Init ==
    /\ scenario \in Scenarios
    /\ slots = [i \in Positions |-> EmptySlot]
    /\ first_stored_sequence = InitialSequence
    /\ next_ack_sequence = InitialSequence
    /\ discarding_message = None
    /\ message_query = Unknown /\ packet_query = Unknown
    /\ endpoints = <<None, None>>
    /\ peer_send_horizon = PrevSeq(InitialSequence)
    /\ delivered = << >>
    /\ accounted = {}
    /\ now = 0

(* The receive path of one DATA packet: it is stored, the gap it reveals gets
   its deadline, and a payload that failed authentication is discarded. *)
MarkRevealedGap(b, ack, s) ==
    IF Mode = "sensor" /\ Precedes(ack, s)
    THEN mark_gap(b, ack, PrevSeq(s), now + RepairDelay)
    ELSE b

Reject(b, s) ==
    IF Mode = "stream" THEN drop_range(b, s, s) ELSE discard_message_payload(b, s)

Arrived(b, s, discard) ==
    IF ~Accepts(b, s) THEN b
    ELSE IF discard THEN Reject(MarkRevealedGap(insert(b, s), b.ack, s), s)
    ELSE MarkRevealedGap(insert(b, s), b.ack, s)

(* DATA arrives: s is any packet the peer sent, in any order and any number
   of times; discard says that its payload failed authentication.  Sensor
   gaps that are overdue are given up first. *)
Arrival(ready, expired, s, discard) ==
    /\ discard => Discards /\ Accepts(ready, s)
    /\ Becomes(Arrived(ready, s, discard))
    /\ accounted' = accounted \cup expired \cup (IF Accepts(ready, s) THEN {s} ELSE {})
    /\ peer_send_horizon' = IF Precedes(peer_send_horizon, s) THEN s
                            ELSE peer_send_horizon
    /\ UNCHANGED <<delivered, now>>

Receive(s, discard) ==
    IF Mode = "sensor"
    THEN Arrival(expire_sensor_receive_gaps(buffer),
                 {SequenceAt(buffer, i) : i \in ExpiredGaps(buffer)}, s, discard)
    ELSE Arrival(buffer, {}, s, discard)

(* pop_message_at: the message at the head goes to the application. *)
PopMessage(n) ==
    /\ Mode # "stream"
    /\ MessageAt(buffer, 0, n - 1)
    /\ Becomes(pop_message(buffer, n))
    /\ delivered' = delivered \o [i \in 1 .. n |-> SequenceAt(buffer, i - 1)]
    /\ UNCHANGED <<peer_send_horizon, accounted, now>>

(* pop_message_unordered: the first complete sample, found through the cache,
   when it lies behind a gap. *)
PopSample ==
    LET found == query_first_complete_message(buffer).message IN
    /\ Mode = "sensor"
    /\ found # Nothing
    /\ found[1] # first_stored_sequence
    /\ Readable(buffer, Offset(buffer, found[1]))
    /\ Becomes(TakeSample(buffer, Offset(buffer, found[1])))
    /\ delivered' = Append(delivered, found[1])
    /\ UNCHANGED <<peer_send_horizon, accounted, now>>

(* pop_stream_at, one unit at a time: a longer read is a run of these. *)
PopStream ==
    /\ Mode = "stream"
    /\ Readable(buffer, 0)
    /\ Becomes(pop_stream(buffer))
    /\ delivered' = IF slots[0].offset + 1 = Units
                    THEN Append(delivered, first_stored_sequence) ELSE delivered
    /\ UNCHANGED <<peer_send_horizon, accounted, now>>

(* message_ready_at, first_deliverable_unit: the readiness queries. *)
Query ==
    /\ Becomes(IF Mode = "stream" THEN query_first_buffered_packet(buffer)
               ELSE query_first_complete_message(buffer))
    /\ UNCHANGED <<peer_send_horizon, delivered, accounted, now>>

(* The ranges a DROPREQ may name once clipped to the peer's send horizon. *)
PeerRanges ==
    {r \in Sent \X Sent : /\ DistanceFrom(r[2], r[1]) \in 0 .. MaxDropSpan - 1
                          /\ ~Precedes(peer_send_horizon, r[2])
                          /\ Mode = "sensor" => r[1] = r[2]}

(* apply_peer_drop_range without a grace period, or after it ended. *)
PeerDrop(r) ==
    /\ Becomes(drop_peer_requested_range(buffer, r[1], r[2]))
    /\ accounted' = accounted \cup Span(r[1], r[2])
    /\ UNCHANGED <<peer_send_horizon, delivered, now>>

(* apply_peer_drop_range inside the grace period: only the ACK moves. *)
PeerDropDeferred(r) ==
    /\ Mode # "sensor"
    /\ Offset(buffer, r[2]) >= 0
    /\ Becomes(acknowledge_peer_drop_range(buffer, r[1], r[2]))
    /\ accounted' = accounted \cup Span(r[1], r[2])
    /\ UNCHANGED <<peer_send_horizon, delivered, now>>

(* drop_too_late_receiver: the gap before the first deliverable unit, which is
   due, is given up. *)
DropTooLate ==
    LET looked == IF Mode = "stream" THEN query_first_buffered_packet(buffer)
                  ELSE query_first_complete_message(buffer)
        unit == IF Mode = "stream" THEN looked.packet ELSE looked.message
    IN  /\ Mode # "sensor"
        /\ unit # Nothing
        /\ unit[1] # first_stored_sequence
        /\ Becomes(drop_range(looked, first_stored_sequence, PrevSeq(unit[1])))
        /\ accounted' = accounted \cup Below(unit[1])
        /\ UNCHANGED <<peer_send_horizon, delivered, now>>

(* discard_received_before: the group delivered everything before s. *)
GroupRetires(s) ==
    /\ GroupMember
    /\ Offset(buffer, s) > 0
    /\ Becomes(discard_before(buffer, s))
    /\ accounted' = accounted \cup Below(s)
    /\ peer_send_horizon' = IF Precedes(peer_send_horizon, PrevSeq(s)) THEN PrevSeq(s)
                            ELSE peer_send_horizon
    /\ UNCHANGED <<delivered, now>>

ExpireGaps ==
    /\ Mode = "sensor"
    /\ ExpiredGaps(buffer) # {}
    /\ Becomes(expire_sensor_receive_gaps(buffer))
    /\ accounted' = accounted \cup {SequenceAt(buffer, i) : i \in ExpiredGaps(buffer)}
    /\ UNCHANGED <<peer_send_horizon, delivered, now>>

Tick ==
    /\ Mode = "sensor"
    /\ now < MaxTime
    /\ now' = now + 1
    /\ UNCHANGED <<slots, first_stored_sequence, next_ack_sequence,
                   discarding_message, message_query, packet_query, endpoints,
                   peer_send_horizon, delivered, accounted>>

Step ==
    \/ \E s \in Sent, discard \in BOOLEAN : Receive(s, discard)
    \/ \E n \in 1 .. Capacity : PopMessage(n)
    \/ PopSample
    \/ PopStream
    \/ Query
    \/ \E r \in PeerRanges : PeerDrop(r)
    \/ \E r \in PeerRanges : PeerDropDeferred(r)
    \/ DropTooLate
    \/ \E s \in Sent : GroupRetires(s)
    \/ ExpireGaps
    \/ Tick

Next == Step /\ UNCHANGED scenario

Spec == Init /\ [][Next]_vars

(***************************************************************************)
(* Properties.                                                             *)
(***************************************************************************)
Queries == {Nothing, Unknown} \cup (Sent \X Sent)

(* Type correctness of the ring, the two boundaries and the caches; a slot is
   never both occupied and dropped, and only stored DATA is rejected, partly
   read or without a gap mark. *)
TypeOK ==
    /\ scenario \in Scenarios
    /\ slots \in [Positions -> Slot]
    /\ \A i \in Positions : LET slot == slots[i] IN
          /\ slot.seq # None => ~slot.dropped /\ slot.gap = 0
          /\ slot.rejected \/ slot.offset # 0 => slot.seq # None
    /\ first_stored_sequence \in SeqNum /\ next_ack_sequence \in SeqNum
    /\ discarding_message \in Range(Layout) \cup {None}
    /\ message_query \in Queries /\ packet_query \in Queries
    /\ endpoints \in (Sent \cup {None}) \X (Sent \cup {None})
    /\ peer_send_horizon \in SeqNum
    /\ accounted \subseteq Sent /\ now \in 0 .. MaxTime

(* Every stored packet sits at the position of its own sequence number: a
   frontier movement never strands a packet in a recycled slot, where it would
   turn a new packet away as a duplicate (insert, find). *)
Aligned == \A i \in Stored(buffer) : Holds(buffer, i)

(* The cumulative ACK covers only packets that arrived, were dropped, or that
   the peer or the group gave up (advance_acknowledgement). *)
AckCoversOnlyAccounted == Below(next_ack_sequence) \subseteq accounted

(* The cumulative ACK is not late either: it is never behind the frontier and
   the sequence it waits for is really missing.  Group retirement breaks this
   (discard_before, see AckNotBehindFrontier). *)
AckNotLate ==
    ~GroupMember =>
        LET o == Offset(buffer, next_ack_sequence) IN
        o >= 0 /\ (o \in Positions => ~is_settled(buffer, o))

(* The two query caches answer what a fresh scan would answer, whatever
   arrivals, reads and drops came in between (invalidate_delivery_queries). *)
CachesAgree ==
    /\ message_query # Unknown => message_query = ScanMessage(buffer)
    /\ packet_query # Unknown => packet_query = ScanPacket(buffer)

(* The head never holds a settled packet nor a fragment of a rejected message:
   ordered delivery would wait there for ever (trim_dropped_prefix, which group
   retirement does not call). *)
HeadNotResolved ==
    /\ ~GroupMember => ~slots[0].dropped
    /\ Occupied(buffer, 0) => ~message_rejected(buffer, Message(slots[0].seq))

(* Packets are delivered at most once and, except in the sensor profile, in
   sequence order. *)
DeliveredInOrder ==
    \A i, j \in DOMAIN delivered : i < j =>
        IF Mode = "sensor" THEN delivered[i] # delivered[j]
        ELSE Precedes(delivered[i], delivered[j])

(* The message API delivers whole messages: every delivered fragment but a
   message's last is followed by the next fragment. *)
DeliveredWhole ==
    Mode # "stream" => \A i \in DOMAIN delivered :
        /\ ~EndsMessage(delivered[i]) =>
              /\ i < Len(delivered) /\ delivered[i + 1] = NextSeq(delivered[i])
        /\ ~BeginsMessage(delivered[i]) =>
              /\ i > 1 /\ delivered[i - 1] = PrevSeq(delivered[i])

(* The recorded endpoints of the stored data are exact: the buffered time span
   reported to the peer and to statistics is computed from them. *)
EndpointsExact ==
    Stored(buffer) # {} =>
        endpoints = <<slots[Min(Stored(buffer))].seq, slots[Max(Stored(buffer))].seq>>

(* In the sensor profile every open sequence below a stored sample has a
   repair deadline, so that a missing sample cannot hold the window for ever
   (mark_gap, expire_sensor_receive_gaps). *)
GapsHaveDeadlines ==
    Mode = "sensor" => \A i, j \in Positions :
        i < j /\ Occupied(buffer, j) /\ ~is_settled(buffer, i) => slots[i].gap # 0

(* What the application could still read, as sequence numbers. *)
Deliverable(b) ==
    IF Mode = "stream" THEN {SequenceAt(b, i) : i \in {j \in Positions : Readable(b, j)}}
    ELSE {SequenceAt(b, i) : i \in
            {j \in Positions : \E f \in 0 .. j, l \in j .. Capacity - 1 : MessageAt(b, f, l)}}

(* A peer DROPREQ erases no complete message (in stream mode: no packet) that
   arrived before it (receive_buffer.hpp 137-138). *)
PeerDropKeepsMessages ==
    LET complete == Deliverable(buffer) IN
    complete # {} => \A r \in PeerRanges :
        complete \subseteq Deliverable(drop_peer_requested_range(buffer, r[1], r[2]))

(* The rest of a message, from the first packet not acknowledged: what the
   peer names when the message expires after its start was acknowledged
   (SendBuffer::drop_expired_message). *)
ExpiredTails == {r \in PeerRanges : r[1] = next_ack_sequence /\ EndsMessage(r[2])}

(* A peer DROPREQ leaves no fragment of the incomplete message it names: what
   is left could never be read and would block what follows it
   (receive_buffer.hpp 137-138). *)
PeerDropDropsIncomplete ==
    Mode = "message" => \A r \in ExpiredTails :
        LET b == drop_peer_requested_range(buffer, r[1], r[2]) IN
        \A i, j \in Positions :
            Readable(b, i) /\ b.slots[j].dropped /\ SequenceAt(b, j) \in Span(r[1], r[2])
            => Message(SequenceAt(b, i)) # Message(SequenceAt(b, j))

(* A member that leaves its group hands over every complete message it holds
   (copy_complete_messages, docs/connection-groups.md 418-420).  A rejected
   later fragment makes the copy fail as a whole: rejected payload is left out
   here. *)
CopyKeepsMessages ==
    Mode = "message" /\ ~Discards => Deliverable(buffer) \subseteq copy_complete_messages(buffer)

(* The cumulative ACK is never behind the receive frontier: a packet that was
   received and handed to the application is acknowledged, so that the peer
   can release it (session.hpp 472-475). *)
AckNotBehindFrontier == Offset(buffer, next_ack_sequence) >= 0
=============================================================================
