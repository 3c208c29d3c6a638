---------------------------- MODULE LiveSession -----------------------------
(***************************************************************************)
(* The receiving half of ReliabilitySession in live mode, fed by a sender  *)
(* that abandons messages: DATA, DROPREQ and its remainder, the deferred   *)
(* peer drops, the loss list with its reorder tolerance, the too-late drop *)
(* and the acknowledgements.  Every message is one packet (solo), and the  *)
(* sequence numbers in play do not wrap: the wrapping arithmetic is        *)
(* SequenceNumber's, the slots of the receive buffer are ReceiveBuffer's   *)
(* and the ranges of the loss list are ReceiveLossList's.                  *)
(*                                                                         *)
(* The network keeps every packet it was ever given, so a packet may       *)
(* arrive late, more than once, out of order, or never.                    *)
(***************************************************************************)
EXTENDS Integers, FiniteSets, FiniteSetsExt, Functions

CONSTANTS
    Casts,        \* options and bounds of one behaviour
    Delay,        \* receive_delay_milliseconds, in ticks
    OrderedRun,   \* ordered packets that lower the reorder tolerance (50)
    EarlyRun      \* early reorders that lower it (10)

(***************************************************************************)
(* A cast: born gives the queueing time of every message, capacity the     *)
(* receive window, queue the pending peer drops that fit, defer says that  *)
(* TSBPD and TLPKTDROP were negotiated, tolerance is SRTO_LOSSMAXTTL       *)
(* (a peer with the retransmit flag), abandons bounds the messages or      *)
(* ranges the sender gives up, until bounds the clock, and heard names the *)
(* feedback that is not lost altogether.                                   *)
(***************************************************************************)
VARIABLES
    cast,
    clock,
    sent,         \* sequences whose original DATA is in the network
    abandoned,    \* sequences the sender gave up
    resent,       \* sequences of which a retransmitted copy is in the network
    requests,     \* DROPREQs in the network
    peer_acked,   \* peer_acknowledged_sequence_ of the sender
    session,      \* the receiving session
    reported,     \* sequences a NAK in the network asks for
    acks,         \* acknowledgements in the network
    punctual,     \* history: sequences whose DATA reached the window in time
    delivered     \* history: sequences the application read

vars == <<cast, clock, sent, abandoned, resent, requests, peer_acked,
          session, reported, acks, punctual, delivered>>

senderVars == <<sent, abandoned, resent, requests, peer_acked>>
receiverVars == <<session, reported, acks, punctual, delivered>>

Messages == DOMAIN cast.born
Queued == {s \in Messages : cast.born[s] <= clock}
Due(s) == cast.born[s] + Delay

(* Feedback of a kind enters the network where the cast lets it through, and *)
(* only as long as the sender has not been told more.                        *)
Fresh(kind, S) == IF kind \in cast.heard THEN {s \in S : s >= peer_acked} ELSE {}

Range_(lo, hi, deadline) == [first |-> lo, last |-> hi, deadline |-> deadline]

-----------------------------------------------------------------------------
(* The receive buffer: first_stored_sequence is floor; stored and dropped    *)
(* are the settled slots of the window.                                      *)

Settled(r) == r.stored \cup r.dropped
Window(r) == r.floor .. r.floor + cast.capacity - 1

advance_acknowledgement(r) ==
    [r EXCEPT !.ack = IF @ \notin Window(r) THEN @
                      ELSE Min({a \in @ .. r.floor + cast.capacity : a \notin Settled(r) \cap Window(r)})]

(* advance_frontier: the classified prefix shrinks with the slots it spans. *)
FrontierTo(r, s) ==
    [r EXCEPT !.floor = s, !.classified = Max({@, s}),
              !.stored = {x \in @ : x >= s}, !.dropped = {x \in @ : x >= s}]

trim_dropped_prefix(r) ==
    FrontierTo(r, Min({s \in r.floor .. r.floor + cast.capacity : s \notin r.dropped}))

CatchUp(r) ==
    IF r.ack < r.floor THEN advance_acknowledgement([r EXCEPT !.ack = r.floor]) ELSE r

(* drop_range_impl; a peer's request leaves complete messages alone. *)
drop_range(r, lo, hi, kept) ==
    LET held == {s \in lo .. hi : s \in kept}
        marked == [r EXCEPT !.dropped = @ \cup (((lo .. hi) \cap Window(r)) \ held),
                            !.stored = @ \ ((lo .. hi) \ held)]
        trimmed == trim_dropped_prefix(advance_acknowledgement(marked))
        ahead == {s \in held : s >= trimmed.floor}
        target == IF ahead = {} THEN hi + 1 ELSE Min(ahead)
    IN  IF hi < r.floor THEN r
        ELSE CatchUp(IF lo <= r.floor /\ target > trimmed.floor
                     THEN FrontierTo(trimmed, target) ELSE trimmed)

drop_peer_requested_range(r, lo, hi) == drop_range(r, lo, hi, r.stored)

acknowledge_peer_drop_range(r, lo, hi) ==
    IF r.ack < lo \/ hi < r.ack THEN r
    ELSE advance_acknowledgement([r EXCEPT !.ack = hi + 1])

-----------------------------------------------------------------------------
(* The loss list: the ttl of a fresh loss, 0 when it is being reported. *)

Forget(r, S) == [r EXCEPT !.loss = Restrict(@, DOMAIN @ \ S)]

(* A gap becomes loss work where its slots are open and not yet classified. *)
add_unsettled_receive_losses(r, lo, hi, ttl) ==
    LET begin == Max({lo, r.classified})
        end == Min({hi, r.floor + cast.capacity - 1})
        missing == {s \in begin .. end : s \notin Settled(r)} \ DOMAIN r.loss
    IN  [r EXCEPT !.loss = [s \in {x \in DOMAIN @ : x >= r.floor} \cup missing |->
                                IF s \in missing THEN ttl ELSE @[s]],
                  !.classified = IF end >= begin THEN end + 1 ELSE @]

(* age_fresh: ttl -1 stands for a loss whose first report is due or made. *)
age_fresh(r) == [r EXCEPT !.loss = [s \in DOMAIN @ |-> IF @[s] >= 0 THEN @[s] - 1 ELSE @[s]]]

Reportable(r) == {s \in DOMAIN r.loss : r.loss[s] < 0}

note_reordered_packet(r, distance, ttl) ==
    LET raised == distance > r.tolerance
        tolerance == IF raised THEN Min({distance, cast.tolerance}) ELSE r.tolerance
        early == IF raised THEN 0 ELSE IF ttl > 2 THEN r.early + 1 ELSE r.early
        lowered == early = EarlyRun
    IN  IF tolerance = 0 THEN r
        ELSE [r EXCEPT !.ordered = 0,
                       !.early = IF lowered THEN 0 ELSE early,
                       !.tolerance = IF lowered THEN tolerance - 1 ELSE tolerance]

note_ordered_packet(r) ==
    LET full == r.ordered + 1 = OrderedRun
    IN  [r EXCEPT !.ordered = IF full THEN 0 ELSE @ + 1,
                  !.tolerance = IF full /\ @ > 0 THEN @ - 1 ELSE @]

-----------------------------------------------------------------------------
(* Peer drops. *)

Pending(r, lo, hi) == \E p \in r.pending : p.first = lo /\ p.last = hi

(* apply_peer_drop_range refuses a new grace entry when none fits. *)
Refuses(r, lo, hi) ==
    /\ cast.defer /\ hi >= r.floor
    /\ ~Pending(r, lo, hi) /\ Cardinality(r.pending) = cast.queue

(* Mutant: the range is dropped when the request arrives. *)
DropOrDeferAtOnce(r, lo, hi, deadline) == drop_peer_requested_range(r, lo, hi)

DropOrDefer(r, lo, hi, deadline) ==
    IF cast.defer /\ clock < deadline /\ hi >= r.floor
    THEN acknowledge_peer_drop_range(
            [r EXCEPT !.pending = IF Pending(r, lo, hi) THEN @
                                  ELSE @ \cup {Range_(lo, hi, deadline)}], lo, hi)
    ELSE drop_peer_requested_range(r, lo, hi)

(* Mutant: the highest sequence follows a range that does not touch it. *)
apply_peer_drop_rangeDetached(r, lo, hi, deadline) ==
    LET applied == Forget(DropOrDefer(r, lo, hi, deadline), lo .. hi)
    IN  [applied EXCEPT !.highest = Max({@, hi})]

apply_peer_drop_range(r, lo, hi, deadline) ==
    LET applied == Forget(DropOrDefer(r, lo, hi, deadline), lo .. hi)
    IN  [applied EXCEPT !.highest = IF hi > @ /\ lo <= @ + 1 THEN hi ELSE @]

remember_peer_drop_remainder(r, lo, hi, deadline) ==
    LET joined == {p \in r.remainder : lo <= p.last + 1 /\ hi + 1 >= p.first}
    IN  [r EXCEPT !.remainder =
            {Range_(Min({lo} \cup {p.first : p \in joined}),
                    Max({hi} \cup {p.last : p \in joined}), deadline)}]

(* The part of the remainder that DATA at observed + 1 proves to be past. *)
RemainderBefore(r, observed) ==
    {Range_(p.first, Min({p.last, observed}), p.deadline) :
        p \in {q \in r.remainder : q.first <= observed}}

(* What is left of the remainder past the sequence s. *)
RemainderAfter(r, s) ==
    {Range_(Max({p.first, s + 1}), p.last, p.deadline) : p \in {q \in r.remainder : q.last > s}}

apply_peer_drop_remainder(r, observed) ==
    LET parts == RemainderBefore(r, observed) IN
    IF parts = {} THEN r
    ELSE LET e == CHOOSE p \in parts : TRUE
         IN  [apply_peer_drop_range(r, e.first, e.last, e.deadline) EXCEPT
                 !.remainder = RemainderAfter(r, observed)]

(* DATA is refused while the skip it proves cannot be taken. *)
RefusesData(r, s) == \E e \in RemainderBefore(r, s - 1) : Refuses(r, e.first, e.last)

(* An abandoned sequence that arrives anyway needs no drop. *)
TrimRemainder(r, s) ==
    IF \E p \in r.remainder : p.first = s THEN [r EXCEPT !.remainder = RemainderAfter(r, s)] ELSE r

(* Mutant: the request is applied to its end, observed or not. *)
EffectiveToEnd(r, q) == q.last

(* A DROPREQ takes effect up to the highest DATA seen on the wire. *)
Effective(r, q) == Min({q.last, r.horizon})

drop_request(r, q) ==
    LET end == Effective(r, q)
        applied == IF q.first <= end THEN apply_peer_drop_range(r, q.first, end, q.deadline) ELSE r
    IN  IF end < q.last
        THEN remember_peer_drop_remainder(applied, Max({q.first, end + 1}), q.last, q.deadline)
        ELSE applied

-----------------------------------------------------------------------------
(* DATA. *)

Status(r, s) ==
    IF s < r.floor THEN "older_than_window"
    ELSE IF s \notin Window(r) THEN "beyond_window"
    ELSE IF s \in Settled(r) THEN "duplicate" ELSE "accepted"

(* insert(), and for a packet past the window the losses it proves. *)
Insert(r, s, status) ==
    CASE status = "accepted" -> advance_acknowledgement([r EXCEPT !.stored = @ \cup {s}])
      [] status = "beyond_window" /\ r.highest < Max(Window(r)) ->
            add_unsettled_receive_losses(r, Max({r.highest + 1, r.floor}), Max(Window(r)), -1)
      [] OTHER -> r

InitialTtl(r) == IF r.tolerance = 0 THEN -1 ELSE r.tolerance

(* A physical gap is classified, then the highest sequence moves. *)
ObserveGap(r, s, status, ttl) ==
    IF s <= r.highest \/ status = "beyond_window" THEN r
    ELSE [(IF s > r.highest + 1 THEN add_unsettled_receive_losses(r, r.highest + 1, s - 1, ttl) ELSE r)
             EXCEPT !.highest = s]

NoteOrder(r, s, before, status, retransmitted, ttl) ==
    LET reordered == cast.tolerance > 0 /\ s < before.highest /\ ~retransmitted
    IN  IF reordered THEN note_reordered_packet(r, before.highest - s, ttl)
        ELSE IF status = "accepted" /\ cast.tolerance > 0 THEN note_ordered_packet(r) ELSE r

receive_data(r, s, retransmitted) ==
    LET skipped == TrimRemainder(apply_peer_drop_remainder(r, s - 1), s)
        before == [skipped EXCEPT !.horizon = Max({@, s})]
        status == Status(before, s)
        stored == Insert(before, s, status)
        ttl == IF s \in DOMAIN stored.loss THEN Max({stored.loss[s], 0}) ELSE 0
        cleared == IF status \in {"accepted", "duplicate"} THEN Forget(stored, {s}) ELSE stored
        observed == ObserveGap(cleared, s, status, InitialTtl(r))
        aged == IF status = "accepted" THEN age_fresh(observed) ELSE observed
    IN  NoteOrder(aged, s, before, status, retransmitted, ttl)

-----------------------------------------------------------------------------
(* Steps. *)

Init ==
    /\ cast \in Casts
    /\ clock = 0
    /\ sent = {} /\ abandoned = {} /\ resent = {} /\ requests = {}
    /\ peer_acked = 1
    /\ session = [floor |-> 1, ack |-> 1, stored |-> {}, dropped |-> {},
                  classified |-> 1, loss |-> << >>, highest |-> 0, horizon |-> 0,
                  pending |-> {}, remainder |-> {}, tolerance |-> 0, ordered |-> 0, early |-> 0]
    /\ reported = {} /\ acks = {} /\ punctual = {} /\ delivered = {}

Tick ==
    /\ clock < cast.until
    /\ clock' = clock + 1
    /\ UNCHANGED <<cast, senderVars, receiverVars>>

(* The next original within the peer's flow window; abandoned messages are   *)
(* skipped and no longer in flight.                                          *)
SendNext ==
    LET open == Queued \ (sent \cup abandoned) IN
    /\ open # {}
    /\ Cardinality({s \in sent \ abandoned : s >= peer_acked}) < cast.capacity
    /\ sent' = sent \cup {Min(open)}
    /\ UNCHANGED <<cast, clock, abandoned, resent, requests, peer_acked, receiverVars>>

(* A reported sequence that is still held goes out again, marked. *)
Retransmit(s) ==
    /\ cast.tolerance > 0
    /\ s \in (reported \cap sent) \ (abandoned \cup resent)
    /\ s >= peer_acked
    /\ resent' = resent \cup {s}
    /\ UNCHANGED <<cast, clock, sent, abandoned, requests, peer_acked, receiverVars>>

(* The control timestamp plus the delay is at most the arrival plus it. *)
Abandon(lo, hi) ==
    /\ Cardinality(requests) < cast.abandons
    /\ abandoned' = abandoned \cup (lo .. hi)
    /\ requests' = requests \cup {Range_(lo, hi, clock + Delay)}
    /\ UNCHANGED <<cast, clock, sent, resent, peer_acked, receiverVars>>

drop_expired_sender_message ==
    \E s \in Queued \ abandoned :
        s >= peer_acked /\ cast.born[s] < clock /\ Abandon(s, s)

drop_too_late_sender ==
    LET old == {s \in Queued : Due(s) <= clock /\ s >= peer_acked} IN
    old \ abandoned # {} /\ Abandon(Min(old \ abandoned), Max(old))

(* A NAK for an abandoned sequence is answered by another DROPREQ. *)
AnswerStale(s) ==
    /\ s \in abandoned \cap reported
    /\ s >= peer_acked
    /\ Cardinality(requests) < cast.abandons
    /\ requests' = requests \cup {Range_(s, s, clock + Delay)}
    /\ UNCHANGED <<cast, clock, sent, abandoned, resent, peer_acked, receiverVars>>

(* Older ACKs and reports of acknowledged sequences no longer matter. *)
ReceiveAck(a) ==
    /\ a > peer_acked
    /\ peer_acked' = a
    /\ acks' = {b \in acks : b > a}
    /\ reported' = {s \in reported : s >= a}
    /\ UNCHANGED <<cast, clock, sent, abandoned, resent, requests, session, punctual, delivered>>

(* The acknowledgement that a deferred drop of the ranges R causes. *)
DropAcks(r, R) ==
    {acknowledge_peer_drop_range(r, e.first, e.last).ack :
        e \in {x \in R : /\ cast.defer /\ clock < x.deadline /\ x.last >= r.floor
                          /\ x.first <= r.ack /\ r.ack <= x.last}}

ReceiveData(s, retransmitted) ==
    /\ ~RefusesData(session, s)
    /\ session' = receive_data(session, s, retransmitted)
    /\ reported' = reported \cup Fresh("nak", Reportable(session'))
    /\ acks' = acks \cup Fresh("ack", DropAcks(session, RemainderBefore(session, s - 1)))
    /\ punctual' = IF clock < Due(s) /\ s < session.floor + cast.capacity
                   THEN punctual \cup {s} ELSE punctual
    /\ UNCHANGED <<cast, clock, senderVars, delivered>>

ReceiveDropRequest(q) ==
    LET part == {Range_(q.first, Effective(session, q), q.deadline)} IN
    /\ q.first <= Effective(session, q) => ~Refuses(session, q.first, Effective(session, q))
    /\ session' = drop_request(session, q)
    /\ acks' = acks \cup Fresh("ack", DropAcks(session, part))
    /\ UNCHANGED <<cast, clock, senderVars, reported, punctual, delivered>>

(* Due and passed grace entries leave the queue; the due ones are dropped. *)
RetirePending(r) ==
    LET gone == {p \in r.pending : p.deadline <= clock \/ p.last < r.floor}
        retire(p, x) == Forget(drop_peer_requested_range(x, p.first, p.last), p.first .. p.last)
    IN  FoldSet(retire, [r EXCEPT !.pending = @ \ gone], gone)

(* The gap at the head is given up when the message behind it is due. *)
DropLateHead(r) ==
    IF r.stored = {} \/ r.floor \in r.stored THEN r
    ELSE IF Due(Min(r.stored)) > clock THEN r
    ELSE Forget(drop_range(r, r.floor, Min(r.stored) - 1, {}), 1 .. Min(r.stored) - 1)

drop_too_late_receiver ==
    /\ cast.defer
    /\ session' = DropLateHead(RetirePending(session))
    /\ session' # session
    /\ acks' = IF session'.floor # session.floor THEN acks \cup Fresh("ack", {session'.ack}) ELSE acks
    /\ UNCHANGED <<cast, clock, senderVars, reported, punctual, delivered>>

pop_message_at ==
    LET s == session.floor IN
    /\ s \in session.stored
    /\ cast.defer => Due(s) <= clock
    /\ session' = trim_dropped_prefix(FrontierTo(session, s + 1))
    /\ delivered' = delivered \cup {s}
    /\ UNCHANGED <<cast, clock, senderVars, reported, acks, punctual>>

make_acknowledgement ==
    /\ session.horizon > 0 /\ "ack" \in cast.heard
    /\ acks' = acks \cup Fresh("ack", {session.ack})
    /\ UNCHANGED <<cast, clock, senderVars, session, reported, punctual, delivered>>

Next ==
    \/ Tick \/ SendNext \/ drop_expired_sender_message \/ drop_too_late_sender
    \/ drop_too_late_receiver \/ pop_message_at \/ make_acknowledgement
    \/ \E s \in reported : Retransmit(s) \/ AnswerStale(s)
    \/ \E a \in acks : ReceiveAck(a)
    \/ \E s \in sent : ReceiveData(s, FALSE)
    \/ \E s \in resent : ReceiveData(s, TRUE)
    \/ \E q \in requests : ReceiveDropRequest(q)

Spec == Init /\ [][Next]_vars

-----------------------------------------------------------------------------
(* An acknowledgement never covers a sequence that was not sent beyond the   *)
(* highest one that arrived, nor one the receiver still wants from a sender  *)
(* that still holds it: what it covers was stored, read, given up as late or *)
(* abandoned by the peer.  (ReliabilitySession::process, DROPREQ.)           *)
AcksHonest ==
    \A a \in acks \cup {session.ack} :
        /\ a <= Max(sent \cup {0}) + 1
        /\ \A s \in 1 .. a - 1 : s < session.floor \/ s \in Settled(session) \/ s \in abandoned

(* Every hole below the highest sequence has someone who will close it: it   *)
(* is in the loss list, to be requested, or inside a pending peer drop.      *)
(* (add_unsettled_receive_losses, apply_peer_drop_remainder.)                *)
HolesOwned ==
    \A s \in session.floor .. session.highest :
        \/ s \in Settled(session) \/ s \in DOMAIN session.loss
        \/ \E p \in session.pending : s \in p.first .. p.last

(* With TSBPD and TLPKTDROP, a message that reaches the receive window       *)
(* before its delivery time is delivered, whatever DROPREQ overtook it.      *)
PunctualDelivered ==
    cast.defer => punctual \subseteq session.stored \cup delivered
=============================================================================
