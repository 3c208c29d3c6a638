----------------------------- MODULE SendBuffer -----------------------------
(***************************************************************************)
(* send_buffer.cpp: the sender's window of packets.  A slot holds a packet *)
(* until a cumulative ACK or a too-late drop retires it, or, when its TTL  *)
(* expires, the tombstone that answers later NAKs with a DROPREQ.          *)
(*                                                                         *)
(* The ring slots_[(head_ + offset) % capacity()] is the sequence slots:   *)
(* slots[offset + 1].  Payload bytes, ciphertext and enqueue times (used   *)
(* for statistics only) are left out; message numbers and packet flags are *)
(* kept.  The queue of sequence-only drop replies is module                *)
(* RangeDropQueue.                                                         *)
(*                                                                         *)
(* The caller is the connection runtime, which selects a packet, hands it  *)
(* to UDP, and reports the submission; between the two, while the datagram *)
(* waits in the runtime's FIFO, every other operation may run.             *)
(***************************************************************************)
EXTENDS SequenceNumber, Sequences, FiniteSets, SequencesExt

CONSTANTS
  Capacity,            \* capacity(): slots of the ring
  InitialSequence,     \* the initial sequence number of this direction
  MaxFragments,        \* bound: packets per message
  MaxMessages,         \* bound: messages the application sends
  MaxTime,             \* bound: ticks of the clock
  MaxSkip,             \* bound: sequence numbers a group skip passes over
  TTLs,                \* times to live, in ticks; 0 is none
  MinimumRepeats,      \* minimum_repeat_microseconds a NAK may carry
  DropAfter            \* age at which too-late drop abandons a sent packet

ASSUME CapacityAssumption == Capacity \in Nat /\ 0 < Capacity /\ Capacity < HalfRange
ASSUME InitialSequenceAssumption == InitialSequence \in SeqNum
ASSUME MaxFragmentsAssumption == MaxFragments \in Nat
ASSUME MaxSkipAssumption == MaxSkip \in Nat
ASSUME TTLsAssumption == TTLs \subseteq Nat

VARIABLES
  first_sequence,         \* first_sequence_
  slots,                  \* the slots from head_ on; its length is sequence_span_
  next_unsent_offset,     \* next_unsent_offset_
  retransmission_queue,   \* sequences selected for retransmission, in order
  drop_request_queue,     \* first sequences of tombstones to be reported
  packets_in_flight,      \* packets_in_flight_
  expiring_packet_count,  \* expiring_packet_count_
  earliest_expiration,    \* earliest_expiration_microseconds_
  prepared,               \* the DATA datagram the runtime selected and has not
                          \* submitted yet: <<>> or <<[sequence, retransmitted]>>
  next_message_number,    \* the session's message counter
  now                     \* the monotonic clock

window == <<first_sequence, slots, next_unsent_offset>>
queues == <<retransmission_queue, drop_request_queue>>
counts == <<packets_in_flight, expiring_packet_count, earliest_expiration>>
bufferVars == <<first_sequence, slots, next_unsent_offset, retransmission_queue,
                drop_request_queue, packets_in_flight, expiring_packet_count,
                earliest_expiration, prepared>>
vars == <<bufferVars, next_message_number, now>>

NoTime == -1       \* has_retransmission_send_time is false
NoExpiration == 0  \* expiration_microseconds of a message without TTL
Boundary == {"solo", "first", "subsequent", "last"}
Time == Nat

Slot ==
  [message : Nat, boundary : Boundary,
   occupied : BOOLEAN,     \* FALSE: dropped, a tombstone awaiting the ACK
   sent : BOOLEAN, submitted : BOOLEAN,
   retransmission_queued : BOOLEAN, drop_request_queued : BOOLEAN,
   first_send : Time, expiration : Time, last_retransmission : Time \cup {NoTime},
   message_first : SeqNum, message_last : SeqNum]

Packet == [sequence : SeqNum, retransmitted : BOOLEAN]

Positions == DOMAIN slots

SequenceAt(i) == Advanced(first_sequence, i - 1)
Offset(sequence) == DistanceFrom(sequence, first_sequence)
InSpan(sequence) == Offset(sequence) \in 0 .. Len(slots) - 1
Index(sequence) == Offset(sequence) + 1

(* find(): the slot of a packet that can still be sent. *)
Retains(sequence) == InSpan(sequence) /\ slots[Index(sequence)].occupied

Available == Capacity - Len(slots)

next_sequence == SequenceAt(Len(slots) + 1)

CountIn(S, P(_)) == Cardinality({i \in S : P(slots[i])})
IsSent(slot) == slot.sent
IsExpiring(slot) == slot.occupied /\ slot.expiration # NoExpiration

-----------------------------------------------------------------------------
(* Producers                                                               *)

BoundaryOf(i, n) ==
  IF n = 1 THEN "solo"
  ELSE IF i = 1 THEN "first" ELSE IF i = n THEN "last" ELSE "subsequent"

Fragment(message, i, n, expiration) ==
  [message |-> message, boundary |-> BoundaryOf(i, n), occupied |-> TRUE,
   sent |-> FALSE, submitted |-> FALSE,
   retransmission_queued |-> FALSE, drop_request_queued |-> FALSE,
   first_send |-> 0, expiration |-> expiration, last_retransmission |-> NoTime,
   message_first |-> 0, message_last |-> 0]

(* Mutant: the bound is overwritten. *)
EarlierExpirationReplaced(expiration) == expiration

(* The lower bound of the active expirations, with one more. *)
EarlierExpiration(expiration) ==
  IF expiring_packet_count = 0 \/ expiration < earliest_expiration
    THEN expiration ELSE earliest_expiration

(* Mutant: the free slots are not counted. *)
EnqueueMessageOverfull(message, n, expiration) ==
  /\ n > 0
  /\ slots' = slots \o [i \in 1 .. n |-> Fragment(message, i, n, expiration)]
  /\ IF expiration = NoExpiration
       THEN UNCHANGED <<expiring_packet_count, earliest_expiration>>
       ELSE /\ expiring_packet_count' = expiring_packet_count + n
            /\ earliest_expiration' = EarlierExpiration(expiration)
  /\ UNCHANGED <<first_sequence, next_unsent_offset, packets_in_flight, queues, prepared>>

(* enqueue_message(): all fragments of the message, or none of them. *)
EnqueueMessage(message, n, expiration) ==
  /\ n > 0 /\ n <= Available
  /\ slots' = slots \o [i \in 1 .. n |-> Fragment(message, i, n, expiration)]
  /\ IF expiration = NoExpiration
       THEN UNCHANGED <<expiring_packet_count, earliest_expiration>>
       ELSE /\ expiring_packet_count' = expiring_packet_count + n
            /\ earliest_expiration' = EarlierExpiration(expiration)
  /\ UNCHANGED <<first_sequence, next_unsent_offset, packets_in_flight, queues, prepared>>

-----------------------------------------------------------------------------
(* Selection of the next packet and its submission                         *)

IsQueued(sequence) ==
  Retains(sequence) /\ slots[Index(sequence)].retransmission_queued

has_pending_retransmission == \E i \in DOMAIN retransmission_queue : IsQueued(retransmission_queue[i])

(* The first entry that is still due; the loop drops the stale ones before it. *)
FirstQueued == SelectInSeq(retransmission_queue, IsQueued)

(* Mutant: the mark is cleared on selection, not on submission. *)
NextRetransmissionUnmarked ==
  /\ prepared = <<>>
  /\ has_pending_retransmission
  /\ prepared' = <<[sequence |-> retransmission_queue[FirstQueued], retransmitted |-> TRUE]>>
  /\ retransmission_queue' =
       SubSeq(retransmission_queue, FirstQueued + 1, Len(retransmission_queue))
  /\ slots' = [slots EXCEPT
       ![Index(retransmission_queue[FirstQueued])].retransmission_queued = FALSE]
  /\ UNCHANGED <<first_sequence, next_unsent_offset, drop_request_queue, counts>>

(* next_packet() takes a retransmission.  It stays marked until its datagram *)
(* is submitted, so repeated NAKs cannot queue a second copy behind it.      *)
NextRetransmission ==
  /\ prepared = <<>>
  /\ has_pending_retransmission
  /\ prepared' = <<[sequence |-> retransmission_queue[FirstQueued], retransmitted |-> TRUE]>>
  /\ retransmission_queue' =
       SubSeq(retransmission_queue, FirstQueued + 1, Len(retransmission_queue))
  /\ UNCHANGED <<window, drop_request_queue, counts>>

(* next_packet() takes the next original; with allow_retransmission the loop *)
(* before it has dropped stale retransmissions.                              *)
NextOriginal(allow_retransmission) ==
  /\ prepared = <<>>
  /\ allow_retransmission => ~has_pending_retransmission
  /\ \E i \in Positions :
       /\ i > next_unsent_offset /\ slots[i].occupied /\ ~slots[i].sent
       /\ \A j \in next_unsent_offset + 1 .. i - 1 : ~slots[j].occupied \/ slots[j].sent
       /\ next_unsent_offset' = i
       /\ slots' = [slots EXCEPT ![i].sent = TRUE, ![i].submitted = FALSE,
                                 ![i].first_send = now]
       /\ prepared' = <<[sequence |-> SequenceAt(i), retransmitted |-> FALSE]>>
  /\ retransmission_queue' = IF allow_retransmission THEN <<>> ELSE retransmission_queue
  /\ packets_in_flight' = packets_in_flight + 1
  /\ UNCHANGED <<first_sequence, drop_request_queue, expiring_packet_count, earliest_expiration>>

(* next_packet() finds nothing: the loops have dropped stale retransmissions *)
(* and moved the cursor over trailing tombstones.                            *)
NextNothing(allow_retransmission) ==
  /\ prepared = <<>>
  /\ allow_retransmission => ~has_pending_retransmission
  /\ \A i \in Positions : i > next_unsent_offset => ~slots[i].occupied \/ slots[i].sent
  /\ next_unsent_offset' = Len(slots)
  /\ retransmission_queue' = IF allow_retransmission THEN <<>> ELSE retransmission_queue
  /\ UNCHANGED <<first_sequence, slots, drop_request_queue, counts, prepared>>

(* peek_retransmission_packet() drops the stale entries before the first due. *)
PeekRetransmissionPacket ==
  /\ retransmission_queue' =
       IF has_pending_retransmission
         THEN SubSeq(retransmission_queue, FirstQueued, Len(retransmission_queue))
         ELSE <<>>
  /\ UNCHANGED <<window, drop_request_queue, counts, prepared>>

(* Mutant: a repeat restarts the age of its packet. *)
SubmitPreparedRestamped ==
  /\ prepared # <<>>
  /\ Retains(prepared[1].sequence)
  /\ LET i == Index(prepared[1].sequence)
         repeated == prepared[1].retransmitted /\ slots[i].sent
     IN  slots' = [slots EXCEPT
           ![i].submitted = @ \/ slots[i].sent,
           ![i].retransmission_queued = @ /\ ~repeated,
           ![i].first_send = now]
  /\ prepared' = <<>>
  /\ UNCHANGED <<first_sequence, next_unsent_offset, queues, counts>>

(* complete_datagram(): note_packet_submitted(), and for a repeated packet   *)
(* note_retransmission_sent().                                               *)
SubmitPrepared ==
  /\ prepared # <<>>
  /\ Retains(prepared[1].sequence)
  /\ LET i == Index(prepared[1].sequence)
         repeated == prepared[1].retransmitted /\ slots[i].sent
     IN  slots' = [slots EXCEPT
           ![i].submitted = @ \/ slots[i].sent,
           ![i].retransmission_queued = @ /\ ~repeated,
           ![i].last_retransmission = IF repeated THEN now ELSE @]
  /\ prepared' = <<>>
  /\ UNCHANGED <<first_sequence, next_unsent_offset, queues, counts>>

(* flush_pending_datagrams(): the packet was retired while it waited. *)
DiscardPrepared ==
  /\ prepared # <<>>
  /\ ~Retains(prepared[1].sequence)
  /\ prepared' = <<>>
  /\ UNCHANGED <<window, queues, counts>>

-----------------------------------------------------------------------------
(* Loss reports                                                            *)

(* Mutant: the unsent tail is not examined. *)
ValidRangeUncounted(range) ==
  LET f == Offset(range.first)
      l == Offset(range.last)
  IN  DistanceFrom(range.last, range.first) >= 0 /\ f >= 0 /\ l >= f /\ l < Len(slots)

(* validate_retransmission_range(): below the cursor everything was sent or  *)
(* dropped, so only the rest is counted.                                     *)
ValidRange(range) ==
  LET f == Offset(range.first)
      l == Offset(range.last)
      unsent == {i \in Positions : i > next_unsent_offset /\ i > f /\ i <= l + 1}
  IN  /\ DistanceFrom(range.last, range.first) >= 0
      /\ f >= 0 /\ l >= f /\ l < Len(slots)
      /\ \A i \in unsent : ~slots[i].occupied

(* The slot queue_drop_request() flags for the tombstone at position i: the  *)
(* first one of its message that is still in the window.                     *)
ReportedAt(i) == IF Offset(slots[i].message_first) < 0 THEN 1 ELSE Index(slots[i].message_first)

(* Queueing works through positions in order and accumulates the slots it    *)
(* marks; a full ring is compacted to the entries whose slot is marked.      *)
QueueState ==
  [retransmissions |-> retransmission_queue, drops |-> drop_request_queue,
   marked |-> {i \in Positions : slots[i].retransmission_queued},
   reported |-> {i \in Positions : slots[i].drop_request_queued},
   ok |-> TRUE]

(* Mutant: stale entries stay. *)
CompactedNot(queue, live) == queue

Compacted(queue, live) == SelectSeq(queue, LAMBDA s : InSpan(s) /\ Index(s) \in live)

Pushed(queue, live, i) ==
  Append(IF Len(queue) = Capacity THEN Compacted(queue, live) ELSE queue, SequenceAt(i))

(* queue_drop_request() *)
QueueDropRequest(st, i) ==
  LET first == ReportedAt(i)
      queue == Pushed(st.drops, st.reported, first)
  IN  IF first \in st.reported THEN st
      ELSE IF Len(queue) > Capacity THEN [st EXCEPT !.ok = FALSE]
      ELSE [st EXCEPT !.drops = queue, !.reported = @ \cup {first}]

(* queue_retransmission() *)
QueueRetransmission(st, i) ==
  LET queue == Pushed(st.retransmissions, st.marked, i)
  IN  IF ~st.ok THEN st
      ELSE IF ~slots[i].occupied THEN QueueDropRequest(st, i)
      ELSE IF ~slots[i].sent \/ i \in st.marked THEN st
      ELSE IF Len(queue) > Capacity THEN [st EXCEPT !.ok = FALSE]
      ELSE [st EXCEPT !.retransmissions = queue, !.marked = @ \cup {i}]

Ascending(S) == SelectSeq([i \in Positions |-> i], LAMBDA i : i \in S)

QueueAll(S) == FoldLeft(QueueRetransmission, QueueState, Ascending(S))

(* The buffer after queueing: only the two marks of a slot may have changed. *)
Apply(st) ==
  /\ retransmission_queue' = st.retransmissions
  /\ drop_request_queue' = st.drops
  /\ slots' = [i \in Positions |->
                 [slots[i] EXCEPT !.retransmission_queued = i \in st.marked,
                                  !.drop_request_queued = i \in st.reported]]
  /\ UNCHANGED <<first_sequence, next_unsent_offset, counts, prepared>>

(* Positions a NAK selects: a packet repeated less than minimum_repeat ago is *)
(* skipped.                                                                   *)
Due(range, minimum_repeat) ==
  {i \in Positions :
     /\ i - 1 \in Offset(range.first) .. Offset(range.last)
     /\ ~ /\ slots[i].occupied
          /\ minimum_repeat # 0
          /\ slots[i].last_retransmission # NoTime
          /\ now - slots[i].last_retransmission < minimum_repeat}

(* request_retransmission(): an invalid range is refused without effect. *)
RequestRetransmission(range, minimum_repeat) ==
  /\ ValidRange(range)
  /\ Apply(QueueAll(Due(range, minimum_repeat)))

SentPositions == {i \in Positions : slots[i].occupied /\ slots[i].sent}

(* request_retransmission_of_last_sent(): the tail loss probe. *)
RequestRetransmissionOfLastSent ==
  /\ SentPositions # {}
  /\ Apply(QueueAll({i \in SentPositions : \A j \in SentPositions : j <= i}))

(* request_retransmission_of_all_sent(): the retransmission timeout. *)
RequestRetransmissionOfAllSent == Apply(QueueAll(SentPositions))

(* Mutant: the mark is still set, so nothing is queued. *)
RequeuePreparedKeepingMark ==
  /\ prepared # <<>> /\ prepared[1].retransmitted
  /\ Retains(prepared[1].sequence)
  /\ prepared' = <<>>
  /\ UNCHANGED <<window, queues, counts>>

(* requeue_prepared_retransmission(): the repeat budget closed while the     *)
(* datagram waited; the packet goes back to the end of the queue.            *)
RequeuePrepared ==
  /\ prepared # <<>> /\ prepared[1].retransmitted
  /\ Retains(prepared[1].sequence)
  /\ LET i == Index(prepared[1].sequence)
         st == QueueRetransmission([QueueState EXCEPT !.marked = @ \ {i}], i)
     IN  /\ retransmission_queue' = st.retransmissions
         /\ slots' = [slots EXCEPT ![i].retransmission_queued = i \in st.marked]
  /\ prepared' = <<>>
  /\ UNCHANGED <<first_sequence, next_unsent_offset, drop_request_queue, counts>>

-----------------------------------------------------------------------------
(* Retirement                                                              *)

(* Mutant: the cursor starts over. *)
CursorReset(n) == 0

(* The cursor, and the window, after the first n slots are discarded         *)
(* (discard_slot() on each).                                                 *)
CursorAfter(n) == IF next_unsent_offset > n THEN next_unsent_offset - n ELSE 0

RetirePrefix(n) ==
  /\ slots' = SubSeq(slots, n + 1, Len(slots))
  /\ first_sequence' = Advanced(first_sequence, n)
  /\ next_unsent_offset' = CursorAfter(n)
  /\ packets_in_flight' = packets_in_flight - CountIn(1 .. n, IsSent)
  /\ expiring_packet_count' = expiring_packet_count - CountIn(1 .. n, IsExpiring)
  /\ UNCHANGED <<queues, earliest_expiration, prepared>>

(* retire_group_prefix(): another group member delivered everything this one *)
(* holds and n numbers more.  acknowledge_before(next_sequence()), then      *)
(* synchronize_empty().  skip_group_sequences() is the case of an empty      *)
(* window.                                                                   *)
RetireGroupPrefix(n) ==
  /\ Len(slots) + n > 0
  /\ first_sequence' = Advanced(next_sequence, n)
  /\ slots' = <<>>
  /\ next_unsent_offset' = 0
  /\ packets_in_flight' = packets_in_flight - CountIn(Positions, IsSent)
  /\ expiring_packet_count' = 0
  /\ UNCHANGED <<queues, earliest_expiration, prepared>>

AcknowledgeAllowed(sequence) ==
  \A i \in 1 .. Offset(sequence) : slots[i].occupied => slots[i].submitted

(* acknowledge_submitted_before(): a wire ACK; refused without effect when it *)
(* covers a packet that never reached UDP.                                    *)
AcknowledgeSubmittedBefore(sequence) ==
  /\ Offset(sequence) \in 0 .. Len(slots)
  /\ AcknowledgeAllowed(sequence)
  /\ RetirePrefix(Offset(sequence))

(* Mutant: every fragment is judged by its own age. *)
ContinuesMessageNever(i) == FALSE

(* Slot i goes the way of slot i - 1 in a too-late drop. *)
ContinuesMessage(i) ==
  /\ i > 1
  /\ slots[i].message = slots[i - 1].message
  /\ slots[i].boundary \in {"subsequent", "last"}

TooLate(i, cutoff) == slots[i].sent /\ slots[i].first_send <= cutoff

Abandoned(i, cutoff) ==
  slots[i].occupied /\ (ContinuesMessage(i) \/ TooLate(i, cutoff))

(* drop_messages_older_than(): the prefix of abandoned messages, with the    *)
(* complete tail of the last one.                                            *)
DropMessagesOlderThan(cutoff) ==
  \E n \in Positions :
    /\ \A i \in 1 .. n : Abandoned(i, cutoff)
    /\ n < Len(slots) => ~Abandoned(n + 1, cutoff)
    /\ RetirePrefix(n)

Expired(i) == IsExpiring(slots[i]) /\ now > slots[i].expiration

(* Mutant: only the expired fragment itself is dropped. *)
MessageTailMissed(i, last) == last = i

(* The retained packets of one message from position i on end at last. *)
MessageTail(i, last) ==
  LET continues(k) == slots[k].occupied /\ slots[k].message = slots[i].message
  IN  /\ i <= last
      /\ \A k \in i .. last : continues(k)
      /\ last < Len(slots) => ~continues(last + 1)

(* discard_slot() with a drop marker: the tombstone of a message. *)
Tombstone(slot, first, last) ==
  [slot EXCEPT !.occupied = FALSE, !.sent = FALSE, !.submitted = FALSE,
               !.retransmission_queued = FALSE, !.drop_request_queued = FALSE,
               !.expiration = NoExpiration, !.last_retransmission = NoTime,
               !.message_first = first, !.message_last = last]

(* drop_expired_message(): the first expired message becomes tombstones. *)
DropExpiredMessage ==
  /\ expiring_packet_count # 0
  /\ now > earliest_expiration
  /\ \E i, last \in Positions :
       /\ Expired(i)
       /\ \A j \in 1 .. i - 1 : ~Expired(j)
       /\ MessageTail(i, last)
       /\ slots' = [j \in Positions |->
                      IF j \in i .. last
                        THEN Tombstone(slots[j], SequenceAt(i), SequenceAt(last))
                        ELSE slots[j]]
       /\ packets_in_flight' = packets_in_flight - CountIn(i .. last, IsSent)
       /\ expiring_packet_count' = expiring_packet_count - CountIn(i .. last, IsExpiring)
  /\ UNCHANGED <<first_sequence, next_unsent_offset, queues, earliest_expiration, prepared>>

(* drop_expired_message() finds nothing and refines the lower bound. *)
RefineExpiration ==
  /\ expiring_packet_count # 0
  /\ now > earliest_expiration
  /\ \A i \in Positions : ~Expired(i)
  /\ earliest_expiration' =
       (LET active == {slots[i].expiration : i \in {j \in Positions : IsExpiring(slots[j])}}
        IN  CHOOSE t \in active : \A u \in active : t <= u)
  /\ UNCHANGED <<window, queues, packets_in_flight, expiring_packet_count, prepared>>

-----------------------------------------------------------------------------
(* Replies for tombstones                                                  *)

IsReported(sequence) ==
  /\ InSpan(sequence)
  /\ ~slots[Index(sequence)].occupied
  /\ slots[Index(sequence)].drop_request_queued

(* The DROPREQ next_pending_drop_request() builds for the tombstone at i. *)
DropReply(i) ==
  [first |-> SequenceAt(i), last |-> slots[i].message_last, message |-> slots[i].message]

FirstReported == SelectInSeq(drop_request_queue, IsReported)

(* Mutant: the mark outlives the reply. *)
NextPendingDropRequestMarked ==
  /\ FirstReported # 0
  /\ drop_request_queue' = SubSeq(drop_request_queue, FirstReported + 1, Len(drop_request_queue))
  /\ UNCHANGED <<window, retransmission_queue, counts, prepared>>

NextPendingDropRequest ==
  /\ FirstReported # 0
  /\ drop_request_queue' = SubSeq(drop_request_queue, FirstReported + 1, Len(drop_request_queue))
  /\ slots' = [slots EXCEPT ![Index(drop_request_queue[FirstReported])].drop_request_queued = FALSE]
  /\ UNCHANGED <<first_sequence, next_unsent_offset, retransmission_queue, counts, prepared>>

(* has_pending_drop_request() compacts the queue as a side effect. *)
CompactDropRequests ==
  /\ drop_request_queue # <<>>
  /\ drop_request_queue' = SelectSeq(drop_request_queue, IsReported)
  /\ UNCHANGED <<window, retransmission_queue, counts, prepared>>

(* queue_retained_drop_requests(): one reply for every run of tombstones. *)
QueueRetainedDropRequests ==
  LET heads == {i \in Positions :
                  /\ ~slots[i].occupied
                  /\ i > 1 => slots[i - 1].occupied \/ slots[i - 1].message # slots[i].message}
  IN  /\ heads # {}
      /\ Apply(FoldLeft(QueueDropRequest, QueueState, Ascending(heads)))

(* release_retired_prefix(): the leading tombstones of a no-ARQ sender. *)
ReleaseRetiredPrefix ==
  \E n \in Positions :
    /\ \A i \in 1 .. n : ~slots[i].occupied
    /\ n < Len(slots) => slots[n + 1].occupied
    /\ RetirePrefix(n)

-----------------------------------------------------------------------------
(* The runtime's calls                                                     *)

Init ==
  /\ first_sequence = InitialSequence
  /\ slots = <<>>
  /\ next_unsent_offset = 0
  /\ retransmission_queue = <<>> /\ drop_request_queue = <<>>
  /\ packets_in_flight = 0 /\ expiring_packet_count = 0 /\ earliest_expiration = 0
  /\ prepared = <<>>
  /\ next_message_number = 1
  /\ now = 1

Ranges == {[first |-> SequenceAt(i), last |-> SequenceAt(j)] : i, j \in 0 .. Len(slots) + 1}

Send ==
  /\ next_message_number <= MaxMessages
  /\ \E n \in 1 .. MaxFragments, ttl \in TTLs :
       EnqueueMessage(next_message_number, n, IF ttl = 0 THEN NoExpiration ELSE now + ttl - 1)
  /\ next_message_number' = next_message_number + 1
  /\ UNCHANGED now

GroupConfirmed ==
  /\ next_message_number <= MaxMessages
  /\ \E n \in 0 .. MaxSkip : RetireGroupPrefix(n)
  /\ next_message_number' = next_message_number + 1
  /\ UNCHANGED now

Transmit ==
  \/ NextRetransmission
  \/ \E allow_retransmission \in BOOLEAN :
       NextOriginal(allow_retransmission) \/ NextNothing(allow_retransmission)
  \/ PeekRetransmissionPacket

Resolve == SubmitPrepared \/ DiscardPrepared \/ RequeuePrepared

Feedback ==
  \/ \E i \in 0 .. Len(slots) :
       AcknowledgeSubmittedBefore(Advanced(first_sequence, i))
  \/ \E range \in Ranges, minimum_repeat \in MinimumRepeats :
       RequestRetransmission(range, minimum_repeat)

Timers ==
  \/ RequestRetransmissionOfLastSent
  \/ RequestRetransmissionOfAllSent
  \/ now > DropAfter /\ DropMessagesOlderThan(now - DropAfter)
  \/ DropExpiredMessage
  \/ RefineExpiration
  \/ QueueRetainedDropRequests
  \/ ReleaseRetiredPrefix

Replies == NextPendingDropRequest \/ CompactDropRequests

Tick ==
  /\ now < MaxTime
  /\ now' = now + 1
  /\ UNCHANGED <<bufferVars, next_message_number>>

Step == Transmit \/ Resolve \/ Feedback \/ Timers \/ Replies

Next ==
  \/ Send
  \/ GroupConfirmed
  \/ Step /\ UNCHANGED <<next_message_number, now>>
  \/ Tick

Spec == Init /\ [][Next]_vars

(* The runtime keeps polling: what is due is selected, and a selected        *)
(* datagram is submitted, discarded or put back.                             *)
Fairness ==
  /\ WF_vars(NextRetransmission /\ UNCHANGED <<next_message_number, now>>)
  /\ WF_vars(Resolve /\ UNCHANGED <<next_message_number, now>>)

FairSpec == Spec /\ Fairness

-----------------------------------------------------------------------------
(* Properties                                                              *)

(* The window: slots within capacity, the cursor within the span. *)
WindowOK ==
  /\ first_sequence \in SeqNum
  /\ slots \in Seq(Slot)
  /\ Len(slots) <= Capacity
  /\ next_unsent_offset \in 0 .. Len(slots)

(* Type invariant: the window, the two rings of at most capacity() entries,  *)
(* the counters and the selected datagram.                                   *)
TypeOK ==
  /\ WindowOK
  /\ retransmission_queue \in Seq(SeqNum) /\ Len(retransmission_queue) <= Capacity
  /\ drop_request_queue \in Seq(SeqNum) /\ Len(drop_request_queue) <= Capacity
  /\ packets_in_flight \in Nat /\ expiring_packet_count \in Nat
  /\ earliest_expiration \in Time
  /\ prepared \in {<<>>} \cup {<<p>> : p \in Packet}

(* Everything below the send cursor was sent or is a tombstone, and nothing  *)
(* at or above it was sent (validate_retransmission_range() relies on it).   *)
CursorSplitsWindow ==
  \A i \in Positions :
    IF i <= next_unsent_offset THEN slots[i].sent \/ ~slots[i].occupied ELSE ~slots[i].sent

(* Originals leave in sequence order, so first-send times grow along the     *)
(* window: the prefix drop_messages_older_than() abandons has no younger     *)
(* message before an older one.                                              *)
FirstSendTimesGrow ==
  \A i, j \in Positions :
    i < j /\ slots[i].sent /\ slots[j].sent => slots[i].first_send <= slots[j].first_send

(* A packet is marked exactly when one entry of the retransmission ring or   *)
(* the selected datagram stands for it: no queued repeat is lost, none is    *)
(* queued twice, and no mark is left behind that would bar the packet from   *)
(* ever being repeated again.                                                *)
MarkedOnce ==
  \A i \in Positions :
    slots[i].occupied =>
      Cardinality({k \in DOMAIN retransmission_queue : retransmission_queue[k] = SequenceAt(i)})
        + (IF prepared = <<[sequence |-> SequenceAt(i), retransmitted |-> TRUE]>> THEN 1 ELSE 0)
      = (IF slots[i].retransmission_queued THEN 1 ELSE 0)

(* The same of tombstones: a reply marked as queued is in the ring once. *)
ReplyQueuedOnce ==
  \A i \in Positions :
    ~slots[i].occupied =>
      Cardinality({k \in DOMAIN drop_request_queue : drop_request_queue[k] = SequenceAt(i)})
      = (IF slots[i].drop_request_queued THEN 1 ELSE 0)

(* A loss report that passes validation is applied in full: the rings have   *)
(* room once stale entries are compacted away, so request_retransmission()   *)
(* never fails between two packets of one range.                             *)
ValidReportAppliedInFull ==
  \A range \in Ranges, minimum_repeat \in MinimumRepeats :
    ValidRange(range) => QueueAll(Due(range, minimum_repeat)).ok

(* A report is valid exactly when each of its packets is in the window and   *)
(* was sent or dropped: counting tombstones past the cursor decides it.      *)
ValidationIsExact ==
  \A range \in Ranges :
    LET f == Offset(range.first)
        l == Offset(range.last)
    IN  ValidRange(range) <=>
          /\ 0 <= f /\ f <= l /\ l < Len(slots)
          /\ \A i \in f + 1 .. l + 1 : slots[i].sent \/ ~slots[i].occupied

(* The counters equal a recount, and the expiration bound is never later     *)
(* than the first packet to expire, so no TTL is missed.                     *)
CountersExact ==
  /\ packets_in_flight = CountIn(Positions, IsSent)
  /\ expiring_packet_count = CountIn(Positions, IsExpiring)
  /\ \A i \in Positions : IsExpiring(slots[i]) => earliest_expiration <= slots[i].expiration

(* A message is kept or dropped whole, and each of its tombstones names the  *)
(* remaining run: the DROPREQ built from it covers that message's tombstones *)
(* and no packet of another message.                                         *)
TombstonesCoverMessage ==
  \A i \in Positions :
    LET run == {j \in Positions : slots[j].message = slots[i].message}
    IN  ~slots[i].occupied =>
          /\ \A j \in run : ~slots[j].occupied
          /\ ReportedAt(i) \in run /\ \A j \in run : ReportedAt(i) <= j
          /\ Index(slots[i].message_last) \in run
          /\ \A j \in run : j <= Index(slots[i].message_last)

(* A too-late drop leaves no fragment of an abandoned message behind.        *)
AbandonsWholeMessages ==
  [][\A cutoff \in 1 .. MaxTime : DropMessagesOlderThan(cutoff) =>
       \A i \in DOMAIN slots', j \in 1 .. Len(slots) - Len(slots') :
          slots'[i].message # slots[j].message]_vars

(* A queued repeat is eventually selected or its packet retired: the ring is *)
(* served in order, and putting a packet back does not overtake the others.  *)
Served(s) == ~IsQueued(s) \/ (prepared # <<>> /\ prepared[1].sequence = s)
QueuedIsServed == \A s \in SeqNum : IsQueued(s) ~> Served(s)
=============================================================================
