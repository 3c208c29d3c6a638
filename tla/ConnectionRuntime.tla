------------------------- MODULE ConnectionRuntime -------------------------
(***************************************************************************)
(* The datagram path of one established connection: what the runtime puts  *)
(* on its UDP socket, what it keeps for later when the socket refuses, and *)
(* whom it wakes (src/src/compat/transport_runtime.cpp).                   *)
(*                                                                         *)
(* Every datagram goes through submit_datagram.  Once one is refused, the  *)
(* following ones wait behind it in a bounded FIFO; flush_pending_         *)
(* datagrams looks at each again when its turn comes, because the          *)
(* connection has moved on meanwhile: DATA may be acknowledged or dropped, *)
(* a reported loss repaired, a key request answered.                       *)
(*                                                                         *)
(* The runtime's mutex is `at`: "free", or the place of the thread that    *)
(* holds it inside poll() or finish_close().  Packets are numbered from 1  *)
(* in each direction; timers that fire are nondeterministic choices.       *)
(***************************************************************************)
EXTENDS Integers, Sequences, FiniteSets, SequencesExt, FiniteSetsExt

CONSTANTS
    MaxPackets,     \* messages (of one packet) the application sends
    MaxReceived,    \* packets that arrive in order from the peer
    Losses,         \* packets of the peer that go missing
    MaxKeys,        \* key rotations the sender starts
    BufferCapacity, \* packets of the send buffer
    Capacity,       \* pending_datagram_capacity
    MaxBatch,       \* maximum_send_batch
    MaxReports,     \* NAKs of the peer, peer errors and key requests
    Casts,          \* sets of what may happen on one connection
    Sensor          \* whether the sensor filter profile is in use

VARIABLES
    rt,     \* the fields of the ConnectionRuntime and of its session
    wire,   \* history of what the socket has taken
    cast,   \* what happens on this connection
    at,     \* where the holder of the mutex is
    closer, \* where srt_close is
    waiter, \* the application thread that sends or waits for the drain
    reader, \* the application thread that receives
    used    \* reports of the peer so far

vars == <<rt, wire, cast, at, closer, waiter, reader, used>>

Links == {"accepts", "blocked", "noroute", "error"}

Data(n, again) == [kind |-> "data", n |-> n, again |-> again, lost |-> {}]
Loss(S) == [kind |-> "nak", n |-> 0, again |-> FALSE, lost |-> S]
Ctl(kind, n) == [kind |-> kind, n |-> n, again |-> FALSE, lost |-> {}]

Free == [kind |-> "free", budget |-> 0, count |-> 0]

Init ==
    /\ rt = [retained |-> {}, queued |-> 0, cursor |-> 0, marked |-> {},
             drops |-> 0, got |-> 0, read |-> 0, acked |-> 0,
             missing |-> {}, due |-> {}, seen |-> {}, key |-> 0, keyed |-> TRUE,
             fifo |-> <<>>, retry |-> FALSE, failing |-> "no",
             broken |-> FALSE, peer |-> FALSE, local |-> FALSE, fault |-> FALSE,
             wakeSend |-> FALSE, wakeRead |-> FALSE]
    /\ wire = [top |-> 0, ack |-> 0, told |-> {}, key |-> 0, shut |-> FALSE,
               stale |-> FALSE]
    /\ cast \in Casts
    /\ at = Free
    /\ closer = "open"
    /\ waiter = "no"
    /\ reader = "no"
    /\ used = 0

(* Mutant: a close begun here does not stop the others. *)
ClosedByPeer(r) == r.peer \/ r.broken

(* locally_closed_ || peer_closed_ || broken_ *)
Closed(r) == r.local \/ r.peer \/ r.broken

(* A connection whose send buffer holds one packet, or several. *)
Room == IF "narrow" \in cast THEN 1 ELSE BufferCapacity

(* break_locked: the connection is over and nothing waits for the socket. *)
break_locked(r) ==
    [r EXCEPT !.broken = TRUE, !.fifo = <<>>, !.retry = FALSE, !.failing = "no",
              !.wakeSend = TRUE, !.wakeRead = TRUE]

(* rearm_loss_report: the losses a NAK named that are still losses are due
   again. *)
rearm_loss_report(r, S) == [r EXCEPT !.due = @ \cup (S \cap r.missing)]

(* What the peer can know once the socket has taken d. *)
Taken(w, r, d) ==
    CASE d.kind = "data" ->
           [w EXCEPT !.top = IF d.again THEN @ ELSE d.n,
                     !.stale = @ \/ d.n \notin r.retained]
      [] d.kind = "ack" -> [w EXCEPT !.ack = d.n]
      [] d.kind = "nak" -> [w EXCEPT !.told = @ \cup d.lost]
      [] d.kind = "key" -> [w EXCEPT !.key = d.n]
      [] d.kind = "shutdown" -> [w EXCEPT !.shut = TRUE]
      [] OTHER -> w

(* complete_datagram *)
complete_datagram(r) == [r EXCEPT !.failing = "no"]

(* defer_send_error: a full socket buffer or a lost route is retried after a
   millisecond, any other error breaks the connection, and so does a route
   that has been missing for the whole retry window. *)
defer_send_error(r, link) ==
    LET f == IF link = "noroute" /\ r.failing = "no" THEN "fresh" ELSE r.failing
    IN  IF link = "error" \/ f = "expired" THEN break_locked(r)
        ELSE [r EXCEPT !.failing = f, !.retry = TRUE]

(* The pending datagrams a newer control of the same type replaces. *)
Superseded(r, d) ==
    {i \in DOMAIN r.fifo : d.kind \in {"ack", "nak", "ackack"}
                           /\ r.fifo[i].kind = d.kind}

(* Mutant: the replaced loss report is forgotten. *)
replace_pendingSilently(r, d) ==
    [r EXCEPT !.fifo[Min(Superseded(r, d))] = d]

replace_pending(r, d) ==
    LET i == Min(Superseded(r, d))
    IN  [rearm_loss_report(r, r.fifo[i].lost) EXCEPT !.fifo[i] = d]

(* The part of submit_datagram behind the first attempt. *)
enqueue(r, d) ==
    IF r.fifo # <<>> /\ d.kind = "keepalive" THEN r
    ELSE IF Superseded(r, d) # {} THEN replace_pending(r, d)
    ELSE IF Len(r.fifo) = Capacity THEN break_locked(r)
    ELSE [r EXCEPT !.fifo = Append(@, d)]

(* Mutant: the socket is tried although older datagrams wait. *)
submit_datagramOvertaking(s, d) ==
    IF s.r.broken THEN s
    ELSE IF s.budget = 0
         THEN [s EXCEPT !.r = enqueue(@, d)]
    ELSE IF s.link = "accepts"
         THEN [s EXCEPT !.r = complete_datagram(s.r), !.w = Taken(s.w, s.r, d),
                        !.budget = @ - 1]
    ELSE LET r1 == defer_send_error(s.r, s.link)
         IN  [s EXCEPT !.r = IF r1.broken THEN r1 ELSE enqueue(r1, d),
                       !.budget = @ - 1]

(* submit_datagram, on an outcome so far. *)
submit_datagram(s, d) ==
    IF s.r.broken THEN s
    ELSE IF s.r.fifo # <<>> \/ s.budget = 0
         THEN [s EXCEPT !.r = enqueue(@, d)]
    ELSE IF s.link = "accepts"
         THEN [s EXCEPT !.r = complete_datagram(s.r), !.w = Taken(s.w, s.r, d),
                        !.budget = @ - 1]
    ELSE LET r1 == defer_send_error(s.r, s.link)
         IN  [s EXCEPT !.r = IF r1.broken THEN r1 ELSE enqueue(r1, d),
                       !.budget = @ - 1]

(* Outside a poll there is no budget. *)
Unlimited == 2 * MaxBatch + Capacity

(* One outcome of a step: the runtime, the wire, the attempts left and what
   the socket does while the step runs. *)
Outcome(r, w, b, link) == [r |-> r, w |-> w, budget |-> b, link |-> link]

(* The results of submitting ds one after the other. *)
send_actions(r, b, ds) ==
    {FoldLeft(submit_datagram, Outcome(r, wire, b, link), ds) :
       link \in IF ds = <<>> \/ r.fifo # <<>> THEN {"accepts"} ELSE Links}

(* The reports the session hands out: due losses are reported once. *)
ReportOf(r) == IF r.due = {} THEN <<>> ELSE <<Loss(r.due)>>
Reported(r) == [r EXCEPT !.due = {}]

(* make_acknowledgement *)
AckOf(r) == <<Ctl("ack", r.got)>>
Acked(r) == [r EXCEPT !.acked = r.got]

---------------------------------------------------------------------------
(* Condition variables: a notification reaches the threads asleep. *)
Woken(who, flag) == IF who = "asleep" /\ flag THEN "woken" ELSE who
SendWoken(flag) ==
    IF ~flag THEN waiter
    ELSE CASE waiter = "sending" -> "resend"
           [] waiter = "draining" -> "redrain"
           [] OTHER -> waiter

Publish(r) ==
    /\ rt' = [r EXCEPT !.wakeSend = FALSE, !.wakeRead = FALSE]
    /\ waiter' = SendWoken(r.wakeSend)
    /\ reader' = Woken(reader, r.wakeRead)

Send(outcomes) == \E s \in outcomes : Publish(s.r) /\ wire' = s.w

Continue(place, outcomes, n) ==
    \E s \in outcomes :
       /\ Publish(s.r)
       /\ wire' = s.w
       /\ at' = IF s.r.broken THEN Free
                ELSE [kind |-> place, budget |-> s.budget, count |-> n]

---------------------------------------------------------------------------
(* poll: the holder takes the mutex with what is left of the channel's send
   attempts. *)
Poll ==
    /\ at = Free
    /\ ~Closed(rt)
    /\ \E b \in 1..MaxBatch : at' = [kind |-> "retire", budget |-> b, count |-> 0]
    /\ UNCHANGED <<rt, wire, cast, closer, waiter, reader, used>>

(* notify_idle_expiry_locked: a last SHUTDOWN bypasses the FIFO. *)
IdleExpiry ==
    /\ at.kind = "retire"
    /\ Publish(break_locked(rt))
    /\ wire' \in {wire, Taken(wire, rt, Ctl("shutdown", 0))}
    /\ at' = Free
    /\ UNCHANGED <<cast, closer, used>>

(* drop_too_late_receiver: the gap before a due message is given up. *)
Skipped(r) ==
    Acked([r EXCEPT !.missing = {}, !.due = {}, !.wakeRead = TRUE])

PollReceiver ==
    /\ at.kind = "retire"
    /\ at.count = 0
    /\ rt.missing # {}
    /\ LET r == Skipped(rt)
       IN  Continue("retire", send_actions(r, at.budget, AckOf(r)), 1)
    /\ UNCHANGED <<cast, closer, used>>

(* drop_expired_sender_message, drop_too_late_sender: a message whose TTL has
   passed, and the too old prefix while something waits to be sent. *)
TooLate(r) ==
    IF r.fifo # <<>> \/ r.queued > r.cursor THEN {1..p : p \in r.retained} ELSE {}
Expired(r) == {{}} \cup {{p} : p \in r.retained}
               \cup {P \cap r.retained : P \in TooLate(r)}

PollSender ==
    /\ at.kind = "retire"
    /\ \E X \in Expired(rt) :
         LET r == [rt EXCEPT !.retained = @ \ X, !.marked = @ \ X,
                             !.cursor = Max({@} \cup X),
                             !.wakeSend = X # {}]
         IN  Continue("flush",
               send_actions(r, at.budget, IF X = {} THEN <<>> ELSE <<Ctl("drop", 0)>>), 0)
    /\ UNCHANGED <<cast, closer, used>>

(* Mutant: what waits is sent as it was built. *)
CurrentAlways(r, d) == d.kind # "nak"

(* Whether a waiting datagram still says something true. *)
Current(r, d) ==
    CASE d.kind = "nak" -> FALSE
      [] d.kind = "data" -> d.n \in r.retained
      [] d.kind = "key" -> ~r.keyed /\ d.n = r.key
      [] OTHER -> TRUE

Popped(r) ==
    LET rest == Tail(r.fifo)
    IN  [r EXCEPT !.fifo = rest, !.retry = FALSE,
                  !.failing = IF rest = <<>> THEN "no" ELSE @,
                  !.wakeSend = rest = <<>>]

(* A retransmission over its bandwidth budget goes back to the loss list. *)
requeue_prepared(r, d) ==
    IF d.kind = "data" /\ d.again THEN {[r EXCEPT !.marked = @ \cup {d.n}]} ELSE {}

(* One turn of flush_pending_datagrams' loop. *)
FlushTurn(r, b) ==
    LET d == Head(r.fifo)
        Sent(link) ==
            IF link = "accepts"
            THEN Outcome(Popped(complete_datagram(r)), Taken(wire, r, d), b - 1, link)
            ELSE Outcome(defer_send_error(r, link), wire, b - 1, link)
    IN  IF ~Current(r, d)
        THEN {Outcome(Popped(rearm_loss_report(r, d.lost)), wire, b, "accepts")}
        ELSE {Outcome(Popped(x), wire, b, "accepts") : x \in requeue_prepared(r, d)}
             \cup {Sent(link) : link \in IF b = 0 THEN {} ELSE Links}

Flushing(kind) == at.kind = kind /\ rt.fifo # <<>> /\ ~rt.retry /\ at.count < MaxBatch

FlushStep ==
    /\ Flushing("flush")
    /\ Continue("flush", FlushTurn(rt, at.budget), at.count + 1)
    /\ UNCHANGED <<cast, closer, used>>

(* The FIFO is not empty: pending_send_poll_result ends the poll.  With the
   budget spent the loop ends as well. *)
FlushDone ==
    /\ at.kind = "flush"
    /\ ~Flushing("flush") \/ at.budget = 0
    /\ at' = IF rt.fifo # <<>> THEN Free ELSE [at EXCEPT !.kind = "timers", !.count = 0]
    /\ UNCHANGED <<rt, wire, cast, closer, waiter, reader, used>>

(* service_key_rotation: prepare_rotation may start one; the request is sent
   again when its retry interval has passed. *)
service_key_rotation(r) ==
    {[r |-> r, ds |-> <<>>]}
    \cup (IF r.keyed THEN {} ELSE {[r |-> r, ds |-> <<Ctl("key", r.key)>>]})
    \cup (IF "key" \in cast /\ r.keyed /\ r.key < MaxKeys
          THEN {[r |-> [r EXCEPT !.key = @ + 1, !.keyed = FALSE],
                 ds |-> <<Ctl("key", r.key + 1)>>]} ELSE {})

(* poll_timers: the losses that are due, then what its timers bring: an
   acknowledgement, the periodic loss report, a keepalive. *)
poll_timers(r) ==
    LET first == Reported(r)
    IN  {[r |-> first, ds |-> ReportOf(r)],
         [r |-> Acked(first), ds |-> ReportOf(r) \o AckOf(r)],
         [r |-> first, ds |-> ReportOf([r EXCEPT !.due = r.missing])],
         [r |-> first, ds |-> ReportOf(r) \o <<Ctl("keepalive", 0)>>]}

PollTimers ==
    /\ at.kind = "timers"
    /\ \E k \in service_key_rotation(rt) : \E t \in poll_timers(k.r) :
         Continue("requests", send_actions(t.r, at.budget, k.ds \o t.ds), 0)
    /\ UNCHANGED <<cast, closer, used>>

(* The queued DROPREQs, then the retransmission timeout and the tail probe. *)
Probed(r) == {{}} \cup {{p} : p \in r.retained \cap 1..r.cursor}

PollRequests ==
    /\ at.kind = "requests"
    /\ IF rt.fifo # <<>>
       THEN at' = Free /\ UNCHANGED <<rt, wire, waiter, reader>>
       ELSE IF rt.drops > 0
       THEN Continue("requests",
              send_actions([rt EXCEPT !.drops = @ - 1], at.budget, <<Ctl("drop", 0)>>), 0)
       ELSE \E X \in Probed(rt) :
              Continue("send", send_actions([rt EXCEPT !.marked = @ \cup X],
                                            at.budget, <<>>), 0)
    /\ UNCHANGED <<cast, closer, used>>

(* next_paced_data_packet: a marked packet first, else the oldest new one. *)
NextPacket(r) ==
    IF r.marked # {}
    THEN LET n == Min(r.marked) IN {[r |-> [r EXCEPT !.marked = @ \ {n}], d |-> Data(n, TRUE)]}
    ELSE LET new == {p \in r.retained : p > r.cursor}
         IN  IF new = {} THEN {}
             ELSE {[r |-> [r EXCEPT !.cursor = Min(new)], d |-> Data(Min(new), FALSE)]}

PollSend ==
    /\ at.kind = "send"
    /\ at.budget > 0 /\ at.count < MaxBatch /\ rt.fifo = <<>>
    /\ \E p \in NextPacket(rt) :
         Continue("send", send_actions(p.r, at.budget, <<p.d>>), at.count + 1)
    /\ UNCHANGED <<cast, closer, used>>

(* Pacing, the flow window, a key in flight or nothing to send ends it. *)
PollEnd ==
    /\ at.kind = "send"
    /\ at' = Free
    /\ UNCHANGED <<rt, wire, cast, closer, waiter, reader, used>>

---------------------------------------------------------------------------
(* process_packet runs when nobody holds the mutex and the connection is not
   closed here. *)
Arrives(r, ds) ==
    /\ at = Free
    /\ ~rt.local /\ ~rt.broken
    /\ Send(send_actions(r, Unlimited, ds))
    /\ UNCHANGED <<cast, at, closer, used>>

(* A full acknowledgement is answered, a light one is not. *)
ReceiveAck ==
    \E p \in 1..wire.top, ds \in {<<>>, <<Ctl("ackack", 0)>>} :
       LET freed == rt.retained \cap 1..p
       IN  /\ freed # {}
           /\ Arrives([rt EXCEPT !.retained = @ \ freed, !.marked = @ \ freed,
                                 !.wakeSend = TRUE], ds)

(* What the send buffer no longer has is answered with a DROPREQ. *)
ReceiveNak ==
    /\ "report" \in cast /\ used < MaxReports
    /\ \E p \in 1..wire.top :
         IF p \in rt.retained
         THEN rt' = [rt EXCEPT !.marked = @ \cup {p}]
         ELSE rt' = [rt EXCEPT !.drops = 1]
    /\ at = Free /\ ~rt.local /\ ~rt.broken
    /\ used' = used + 1
    /\ UNCHANGED <<wire, cast, at, closer, waiter, reader>>

(* DATA in order; every so often it is acknowledged at once. *)
ReceiveData ==
    /\ "data" \in cast /\ rt.got < MaxReceived
    /\ LET r == [rt EXCEPT !.got = @ + 1, !.wakeRead = TRUE]
       IN  \/ Arrives(r, <<>>)
           \/ Arrives(Acked(r), AckOf(r))

(* DATA beyond a gap: the new losses are reported at once, or held back
   while they may be reordered. *)
ReceiveGap ==
    \E S \in SUBSET (Losses \ rt.seen) :
       /\ "loss" \in cast /\ S # {}
       /\ LET r == [rt EXCEPT !.missing = @ \cup S, !.due = @ \cup S, !.seen = @ \cup S]
          IN  \/ Arrives(Reported(r), ReportOf(r))
              \/ Arrives(r, <<>>)

(* A loss arrives late, or the peer's DROPREQ settles it. *)
ReceiveRepair ==
    \E l \in rt.missing :
       Arrives([rt EXCEPT !.missing = @ \ {l}, !.due = @ \ {l}, !.wakeRead = TRUE], <<>>)

ReceiveKeyResponse ==
    /\ ~rt.keyed
    /\ wire.key = rt.key
    /\ Arrives([rt EXCEPT !.keyed = TRUE], <<>>)

ReceiveKeyRequest ==
    /\ "report" \in cast /\ used < MaxReports
    /\ at = Free /\ ~rt.local /\ ~rt.broken
    /\ Send(send_actions(rt, Unlimited, <<Ctl("other", 0)>>))
    /\ used' = used + 1
    /\ UNCHANGED <<cast, at, closer>>

ReceivePeerError ==
    /\ ~rt.fault
    /\ "report" \in cast /\ used < MaxReports
    /\ at = Free /\ ~rt.local /\ ~rt.broken
    /\ Publish([rt EXCEPT !.fault = TRUE, !.wakeSend = TRUE])
    /\ used' = used + 1
    /\ UNCHANGED <<wire, cast, at, closer>>

(* Mutant: only the reader hears that the peer is gone. *)
ReceiveShutdownReaderOnly ==
    Arrives([rt EXCEPT !.peer = TRUE, !.broken = TRUE, !.wakeRead = TRUE], <<>>)

ReceiveShutdown ==
    Arrives([rt EXCEPT !.peer = TRUE, !.broken = TRUE, !.wakeSend = TRUE,
                       !.wakeRead = TRUE], <<>>)

---------------------------------------------------------------------------
(* queue_message: a blocked sender tries again each time it is woken. *)
QueueMessage ==
    /\ at = Free
    /\ waiter \in {"no", "resend"}
    /\ "send" \in cast /\ rt.queued < MaxPackets
    /\ IF Closed(rt) THEN waiter' = "no" /\ UNCHANGED rt
       ELSE IF rt.fault THEN waiter' = "no" /\ rt' = [rt EXCEPT !.fault = FALSE]
       ELSE IF Cardinality(rt.retained) < Room
       THEN /\ waiter' = "no"
            /\ rt' = [rt EXCEPT !.queued = @ + 1, !.retained = @ \cup {rt.queued + 1}]
       ELSE waiter' = "sending" /\ UNCHANGED rt
    /\ UNCHANGED <<wire, cast, at, closer, reader, used>>

Drained(r) == r.retained = {} /\ r.fifo = <<>>

(* wait_for_send_drain, of a lingering close. *)
WaitForSendDrain ==
    /\ at = Free
    /\ waiter \in {"no", "redrain"}
    /\ "send" \in cast
    /\ waiter' = IF Drained(rt) \/ Closed(rt) THEN "no" ELSE "draining"
    /\ UNCHANGED <<rt, wire, cast, at, closer, reader, used>>

(* receive_message.  With the sensor profile an expired gap is dropped and
   acknowledged first, by whoever asks. *)
Readable(r) == r.read < r.got
ReaderDone(r) == Readable(r) \/ Closed(r)

ReceiveMessage ==
    /\ at = Free
    /\ reader \in {"no", "woken"}
    /\ "data" \in cast
    /\ \E s \in IF Sensor /\ rt.missing # {}
                THEN send_actions(Skipped(rt), Unlimited, AckOf(rt))
                ELSE send_actions(rt, Unlimited, <<>>) :
         /\ rt' = [s.r EXCEPT !.read = IF Readable(s.r) THEN @ + 1 ELSE @,
                                !.wakeRead = FALSE, !.wakeSend = FALSE]
         /\ waiter' = SendWoken(s.r.wakeSend)
         /\ reader' = IF ReaderDone(s.r) THEN "no" ELSE "asleep"
         /\ wire' = s.w
    /\ UNCHANGED <<cast, at, closer, used>>

(* report_peer_error *)
ReportPeerError ==
    /\ "report" \in cast /\ used < MaxReports
    /\ at = Free /\ ~Closed(rt)
    /\ Send(send_actions(rt, Unlimited, <<Ctl("other", 0)>>))
    /\ used' = used + 1
    /\ UNCHANGED <<cast, at, closer>>

---------------------------------------------------------------------------
(* begin_close: the first caller owns the close. *)
BeginClose ==
    /\ at = Free
    /\ ~rt.local
    /\ Publish([rt EXCEPT !.local = TRUE, !.wakeSend = TRUE, !.wakeRead = TRUE])
    /\ closer' = "begun"
    /\ UNCHANGED <<wire, cast, at, used>>

(* flush_acknowledgement: an acknowledgement if anything new has arrived. *)
FinalAck(r) == IF r.acked # r.got THEN AckOf(r) ELSE <<>>

AckPending(r) ==
    FinalAck(r) # <<>> \/ \E i \in DOMAIN r.fifo : r.fifo[i].kind = "ack"

(* finish_close up to the drain. *)
FinishClose ==
    /\ at = Free
    /\ closer = "begun"
    /\ IF rt.peer \/ rt.broken
       THEN closer' = "reset" /\ UNCHANGED <<rt, wire, waiter, reader>>
       ELSE /\ Send(send_actions(Acked(rt), Unlimited, FinalAck(rt)))
            /\ closer' = IF AckPending(rt) THEN "drainAck" ELSE "shutdown"
    /\ UNCHANGED <<cast, at, used>>

(* A round of the drain: retry at once, pause a millisecond without the
   mutex, and give up after ten. *)
DrainBegin ==
    /\ at = Free
    /\ closer \in {"drainAck", "drainAll"}
    /\ ~rt.broken /\ rt.fifo # <<>>
    /\ rt' = [rt EXCEPT !.retry = FALSE]
    /\ at' = [kind |-> "drain", budget |-> Unlimited, count |-> 0]
    /\ UNCHANGED <<wire, cast, closer, waiter, reader, used>>

DrainStep ==
    /\ Flushing("drain")
    /\ Continue("drain", FlushTurn(rt, at.budget), at.count + 1)
    /\ UNCHANGED <<cast, closer, used>>

DrainPause ==
    /\ at.kind = "drain"
    /\ ~Flushing("drain")
    /\ at' = Free
    /\ UNCHANGED <<rt, wire, cast, closer, waiter, reader, used>>

AfterDrain ==
    IF closer = "drainAck" /\ ~rt.broken /\ rt.fifo = <<>>
    THEN "shutdownAndDrain" ELSE "reset"

DrainEnds ==
    /\ at = Free
    /\ closer \in {"drainAck", "drainAll"}
    /\ closer' = AfterDrain
    /\ UNCHANGED <<rt, wire, cast, at, waiter, reader, used>>

SendShutdown ==
    /\ at = Free
    /\ closer \in {"shutdown", "shutdownAndDrain"}
    /\ Send(send_actions(rt, Unlimited, <<Ctl("shutdown", 0)>>))
    /\ closer' = IF closer = "shutdown" THEN "reset" ELSE "drainAll"
    /\ UNCHANGED <<cast, at, used>>

CloseReset ==
    /\ at = Free
    /\ closer = "reset"
    /\ Publish([rt EXCEPT !.fifo = <<>>, !.retry = FALSE, !.failing = "no",
                          !.wakeSend = TRUE, !.wakeRead = TRUE])
    /\ closer' = "closed"
    /\ UNCHANGED <<wire, cast, at, used>>

(* The channel fails: mark_broken. *)
MarkBroken ==
    /\ at = Free
    /\ ~rt.broken
    /\ closer = "open"
    /\ Publish(break_locked(rt))
    /\ UNCHANGED <<wire, cast, at, closer, used>>

---------------------------------------------------------------------------
(* The time of a retry, and of the retry window. *)
RetryTime ==
    /\ at = Free
    /\ rt.retry
    /\ rt' = [rt EXCEPT !.retry = FALSE]
    /\ UNCHANGED <<wire, cast, at, closer, waiter, reader, used>>

WindowPasses ==
    /\ at = Free
    /\ rt.failing = "fresh"
    /\ rt' = [rt EXCEPT !.failing = "expired"]
    /\ UNCHANGED <<wire, cast, at, closer, waiter, reader, used>>

PollStep ==
    \/ PollReceiver \/ PollSender \/ FlushStep \/ FlushDone \/ PollTimers
    \/ PollRequests \/ PollSend \/ PollEnd

Close ==
    \/ FinishClose \/ DrainBegin \/ DrainStep \/ DrainPause \/ DrainEnds
    \/ SendShutdown \/ CloseReset

Process ==
    \/ ReceiveAck \/ ReceiveNak \/ ReceiveData \/ ReceiveGap \/ ReceiveRepair
    \/ ReceiveKeyResponse \/ ReceiveKeyRequest \/ ReceivePeerError \/ ReceiveShutdown

Application ==
    \/ QueueMessage \/ WaitForSendDrain \/ ReceiveMessage \/ ReportPeerError
    \/ BeginClose

Next ==
    \/ Poll \/ IdleExpiry \/ PollStep \/ Process \/ Application \/ Close
    \/ MarkBroken \/ RetryTime \/ WindowPasses

Spec == Init /\ [][Next]_vars

---------------------------------------------------------------------------
Queued(kind) == {i \in DOMAIN rt.fifo : rt.fifo[i].kind = kind}

(* A loss is never silenced: until it is repaired or dropped it is due, or in
   a report that waits, or in one the socket has taken. *)
LossesReported ==
    rt.local \/ rt.broken \/
    rt.missing \subseteq rt.due \cup wire.told
                         \cup UNION {rt.fifo[i].lost : i \in Queued("nak")}

(* No DATA leaves that the send buffer has given up, however long it waited
   for the socket, and the FIFO holds one control of each cumulative type and
   no keepalive behind another datagram, within its capacity. *)
FifoSound ==
    /\ ~wire.stale
    /\ Len(rt.fifo) <= Capacity
    /\ \A kind \in {"ack", "nak", "ackack"} : Cardinality(Queued(kind)) <= 1
    /\ Queued("keepalive") \subseteq {1}

(* First transmissions leave in sequence order and acknowledgements never go
   back, whatever was refused and retried in between; and a graceful close
   tells the peer to stop only after it has acknowledged all that arrived. *)
WireOrder ==
    /\ wire'.top >= wire.top
    /\ wire'.ack >= wire.ack
    /\ ~wire.shut /\ wire'.shut /\ rt.local => wire.ack = rt.got

(* A thread sleeps only while what it waits for has not happened. *)
SleepersWoken ==
    /\ waiter = "sending" =>
         ~Closed(rt) /\ ~rt.fault /\ Cardinality(rt.retained) >= Room
    /\ waiter = "draining" => ~Closed(rt) /\ ~Drained(rt)
    /\ reader = "asleep" => ~ReaderDone(rt)

(* Once closed here, only the closing thread adds to the FIFO or sends. *)
CloseIsQuiescent ==
    rt.local /\ (wire' # wire \/ Len(rt'.fifo) > Len(rt.fifo)) => Close

============================================================================
