---------------------------- MODULE FileTransfer ----------------------------
(***************************************************************************)
(* session.cpp, timing.cpp and the connection runtime in file mode: one    *)
(* sender with Total packets queued, one receiver whose application reads  *)
(* them, and a network that delays, reorders, repeats and (when Lossy)     *)
(* loses datagrams.  The two buffers are reduced to what the feedback loop *)
(* depends on: positions instead of sequence numbers and slots (modules    *)
(* SendBuffer and ReceiveBuffer have those), sets instead of queues.       *)
(* Timers may expire at any time they are armed.  File mode has no TSBPD,  *)
(* no drops, no periodic NAK and no reorder tolerance.                     *)
(***************************************************************************)
EXTENDS Integers, FiniteSets

CONSTANTS
    Total,              \* packets of the transfer
    ReceiveCapacity,    \* receive capacity, the peer's flow window ceiling
    Lossy,              \* the network loses datagrams
    Repeating,          \* the network repeats datagrams
    LiteInterval,       \* lite_acknowledgement_packet_interval
    MaxAcks             \* bound on the ACKs in flight

ASSUME TransferAssumption ==
    /\ Total \in Nat /\ ReceiveCapacity \in Nat \ {0}
    /\ Lossy \in BOOLEAN /\ Repeating \in BOOLEAN
    /\ LiteInterval \in Nat \ {0} /\ MaxAcks \in Nat \ {0}

VARIABLES
    (* the sender *)
    first,              \* send_buffer_.first_sequence(): everything before is released
    next,               \* the next packet never sent
    selected,           \* sent packets selected for retransmission
    flow_window,        \* flow_window_packets_
    (* the receiver *)
    read,               \* receive_buffer_.first_stored_sequence(): read so far
    next_ack,           \* receive_buffer_.next_ack_sequence()
    early,              \* stored packets after next_ack
    highest,            \* packets up to highest_received_sequence_
    acknowledgement_dirty,
    until_lite,         \* next_lite_ack_threshold_ - packets_since_full_ack_, at least 0
    (* datagrams in flight *)
    data, acks, naks

sender == <<first, next, selected, flow_window>>
receiver == <<read, next_ack, early, highest, acknowledgement_dirty, until_lite>>
vars == <<sender, receiver, data, acks, naks>>

Packet == 0 .. Total - 1
Ack == [kind : {"full", "lite"}, next_sequence : 0 .. Total, available : 0 .. ReceiveCapacity]
Nak == [first : Packet, last : Packet]

Init ==
    /\ first = 0 /\ next = 0 /\ selected = {}
    /\ flow_window = ReceiveCapacity
    /\ read = 0 /\ next_ack = 0 /\ early = {} /\ highest = 0
    /\ acknowledgement_dirty = FALSE /\ until_lite = LiteInterval
    /\ data = {} /\ acks = {} /\ naks = {}

Lesser(a, b) == IF a < b THEN a ELSE b
Greater(a, b) == IF a < b THEN b ELSE a

(* A delivered datagram is gone, unless the network repeats it. *)
Taken(net, m, net_) == net_ = net \ {m} \/ (Repeating /\ net_ = net)

-----------------------------------------------------------------------------
(* The sender                                                              *)

(* poll_locked(), next_paced_data_packet(): retransmissions come first and   *)
(* are not held back by the flow window.                                     *)
SendOriginal ==
    /\ selected = {} /\ next < Total
    /\ next - first < flow_window
    /\ data' = data \cup {next}
    /\ next' = next + 1
    /\ UNCHANGED <<first, selected, flow_window, receiver, acks, naks>>

Retransmit(s) ==
    /\ s \in selected
    /\ data' = data \cup {s}
    /\ selected' = selected \ {s}
    /\ UNCHANGED <<first, next, flow_window, receiver, acks, naks>>

(* Mutant: a Lite ACK leaves the window as it was. *)
WindowAfterUnspent(a) ==
    IF a.next_sequence < first \/ a.kind = "lite" THEN flow_window
    ELSE Lesser(ReceiveCapacity, a.available)

(* Mutant: the progress of a Lite ACK is not limited by the window left. *)
WindowAfterUnderflow(a) ==
    IF a.next_sequence < first THEN flow_window
    ELSE IF a.kind = "full" THEN Lesser(ReceiveCapacity, a.available)
    ELSE flow_window - (a.next_sequence - first)

(* process_reliability_packet_locked(): a current Full ACK replaces the flow *)
(* window; the progress of a Lite ACK is taken from it.                      *)
WindowAfter(a) ==
    IF a.next_sequence < first THEN flow_window
    ELSE IF a.kind = "full" THEN Lesser(ReceiveCapacity, a.available)
    ELSE flow_window - Lesser(flow_window, a.next_sequence - first)

(* receive() of an ACK.  An ACK for a packet that was never sent is refused. *)
ReceiveAck(a) ==
    /\ a \in acks /\ Taken(acks, a, acks')
    /\ IF a.next_sequence > next THEN UNCHANGED sender
       ELSE /\ first' = Greater(first, a.next_sequence)
            /\ selected' = {s \in selected : s >= a.next_sequence}
            /\ flow_window' = WindowAfter(a)
            /\ UNCHANGED next
    /\ UNCHANGED <<receiver, data, naks>>

(* receive() of a NAK: what the window still holds is selected, packets      *)
(* released by an ACK are passed over, a range with a packet never sent is   *)
(* refused.                                                                  *)
ReceiveNak(n) ==
    /\ n \in naks /\ Taken(naks, n, naks')
    /\ selected' = IF n.last >= next THEN selected
                   ELSE selected \cup {s \in n.first .. n.last : s >= first}
    /\ UNCHANGED <<first, next, flow_window, receiver, data, acks>>

(* Mutant: the timeout retries all but the last packet, as if a later one    *)
(* were to expose it.                                                        *)
RetransmissionTimeoutButLast ==
    /\ next > first /\ selected = {}
    /\ selected' = first .. next - 2
    /\ UNCHANGED <<first, next, flow_window, receiver, data, acks, naks>>

(* poll_sender_retransmission_timeout(): FileCC keeps a NAK selection, else  *)
(* it retries the whole flight.                                              *)
RetransmissionTimeout ==
    /\ next > first /\ selected = {}
    /\ selected' = first .. next - 1
    /\ UNCHANGED <<first, next, flow_window, receiver, data, acks, naks>>

-----------------------------------------------------------------------------
(* The receiver                                                            *)

(* advance_acknowledgement(): past the stored packets that follow on. *)
AckPast(stored, s) ==
    CHOOSE n \in s .. Total :
        n \notin stored /\ \A t \in s .. n - 1 : t \in stored

(* Mutant: the NAK ends after the packet that reveals the gap. *)
GapThroughNext(s) ==
    IF s <= highest THEN {} ELSE {[first |-> highest, last |-> Lesser(Total - 1, s + 1)]}

(* The gap a packet beyond the highest one reveals; one NAK reports it. *)
GapBefore(s) == IF s <= highest THEN {} ELSE {[first |-> highest, last |-> s - 1]}

(* receive() of DATA: stored if new, and acknowledged (by marking the timer  *)
(* dirty) in any case.                                                       *)
ReceiveData(s) ==
    /\ s \in data /\ Taken(data, s, data')
    /\ s < read + ReceiveCapacity
    /\ LET stored == IF s < next_ack THEN early ELSE early \cup {s} IN
       /\ next_ack' = AckPast(stored, next_ack)
       /\ early' = {t \in stored : t > next_ack'}
    /\ naks' = naks \cup GapBefore(s)
    /\ highest' = Greater(highest, s + 1)
    /\ acknowledgement_dirty' = TRUE
    /\ until_lite' = Greater(until_lite - 1, 0)
    /\ UNCHANGED <<sender, read, acks>>

(* The application reads; note_receive_buffer_released() asks for a Full ACK. *)
Read ==
    /\ read < next_ack
    /\ read' = read + 1
    /\ acknowledgement_dirty' = TRUE
    /\ UNCHANGED <<sender, next_ack, early, highest, until_lite, data, acks, naks>>

available == ReceiveCapacity - (next_ack - read) - Cardinality(early)

(* Mutant: the ACK covers everything up to the highest packet received. *)
AcknowledgementOfHighest(kind) ==
    [kind |-> kind, next_sequence |-> highest, available |-> available]

Acknowledgement(kind) == [kind |-> kind, next_sequence |-> next_ack, available |-> available]

(* poll_timers(): one Full ACK answers everything since the last one. *)
FullAcknowledgement ==
    /\ acknowledgement_dirty
    /\ Cardinality(acks) < MaxAcks
    /\ acks' = acks \cup {Acknowledgement("full")}
    /\ acknowledgement_dirty' = FALSE /\ until_lite' = LiteInterval
    /\ UNCHANGED <<sender, read, next_ack, early, highest, data, naks>>

LiteAcknowledgement ==
    /\ acknowledgement_dirty /\ until_lite = 0
    /\ Cardinality(acks) < MaxAcks
    /\ acks' = acks \cup {Acknowledgement("lite")}
    /\ until_lite' = LiteInterval
    /\ UNCHANGED <<sender, read, next_ack, early, highest, acknowledgement_dirty, data, naks>>

-----------------------------------------------------------------------------
Lose ==
    /\ Lossy
    /\ \/ \E s \in data : data' = data \ {s} /\ UNCHANGED <<acks, naks>>
       \/ \E a \in acks : acks' = acks \ {a} /\ UNCHANGED <<data, naks>>
       \/ \E n \in naks : naks' = naks \ {n} /\ UNCHANGED <<data, acks>>
    /\ UNCHANGED <<sender, receiver>>

Done == read = Total /\ first = Total /\ UNCHANGED vars

Next ==
    \/ SendOriginal
    \/ \E s \in selected : Retransmit(s)
    \/ RetransmissionTimeout
    \/ \E s \in data : ReceiveData(s)
    \/ \E a \in acks : ReceiveAck(a)
    \/ \E n \in naks : ReceiveNak(n)
    \/ Read
    \/ FullAcknowledgement
    \/ LiteAcknowledgement
    \/ Lose
    \/ Done

Spec == Init /\ [][Next]_vars

(* Both runtimes are polled for ever and the application keeps reading.  A   *)
(* datagram that is sent again and again arrives at last.                    *)
Fairness ==
    /\ WF_vars(SendOriginal)
    /\ WF_vars(RetransmissionTimeout)
    /\ WF_vars(Read)
    /\ SF_vars(FullAcknowledgement)
    /\ \A s \in Packet : WF_vars(Retransmit(s)) /\ SF_vars(ReceiveData(s))
    /\ \A n \in 0 .. Total :
           SF_vars(\E a \in acks : a.next_sequence = n /\ ReceiveAck(a))

FairSpec == Spec /\ Fairness

-----------------------------------------------------------------------------
TypeOK ==
    /\ first \in 0 .. Total /\ next \in 0 .. Total /\ selected \subseteq Packet
    /\ flow_window \in 0 .. ReceiveCapacity
    /\ read \in 0 .. Total /\ next_ack \in 0 .. Total /\ early \subseteq Packet
    /\ highest \in 0 .. Total
    /\ acknowledgement_dirty \in BOOLEAN /\ until_lite \in 0 .. LiteInterval
    /\ data \subseteq Packet /\ acks \subseteq Ack /\ naks \subseteq Nak

(* The sender releases a packet only when the receiver holds it or the       *)
(* application has read it, whatever ACKs are lost, repeated or late.        *)
ReleasedIsHeld ==
    /\ first <= next_ack /\ next_ack <= next
    /\ \A a \in acks : a.next_sequence <= next_ack

(* No DATA in flight can arrive beyond the receive window: the flow window   *)
(* kept from Full ACKs and spent by Lite ACKs (which is why the runtime      *)
(* subtracts their progress) never promises space the reader has not freed.  *)
WindowRespected ==
    /\ \A s \in data \cup selected : s < read + ReceiveCapacity
    /\ first + flow_window <= read + ReceiveCapacity

(* The sender refuses no feedback of an honest receiver: an ACK or a NAK in  *)
(* flight names packets that were sent.                                      *)
FeedbackAcceptable ==
    /\ \A a \in acks : a.next_sequence <= next
    /\ \A n \in naks : n.first <= n.last /\ n.last < next

(* File mode is reliable: the application reads every packet, and the sender *)
(* learns of it and releases its last packet.                                *)
TransferCompletes == <>(read = Total /\ first = Total)
=============================================================================
