-------------------------- MODULE DatagramChannel --------------------------
(***************************************************************************)
(* How a DatagramChannel gets its turns: one continuation at a time on a   *)
(* scheduler shard, a poll round over its connections, parking on socket   *)
(* readiness when nothing is due, and the notifications that must cut a    *)
(* wait short.                                                             *)
(*                                                                         *)
(* Threads: the shard worker that runs slices (run_scheduled), the         *)
(* readiness watcher, applications that queue or read messages, threads    *)
(* that register and unregister connections, and the network.  Every       *)
(* critical section of lifecycle_mutex_ is one step, and so is the poll of *)
(* one connection.  The scheduler is what RuntimeScheduler promises: a     *)
(* submitted task runs, a timer runs once or is canceled.                  *)
(*                                                                         *)
(* A wait is abstracted to how long it may take: "near" is at most         *)
(* idle_wait_ (2 ms), "far" is a control deadline of up to a second, and   *)
(* "probe" is the sub-millisecond timer that samples the host clock.       *)
(***************************************************************************)
EXTENDS Integers, Sequences, FiniteSets

CONSTANTS
    Runtimes,      \* the ConnectionRuntimes
    MaxPolls,      \* maximum_connection_polls (64), per slice
    MaxReceives,   \* maximum_receive_batch (64), per slice
    MaxDatagrams,  \* bound: unread datagrams in the UDP socket
    MaxNotifiers   \* bound: threads that are about to notify the channel

VARIABLES
    sched,     \* what the scheduler holds: task, timer, and a timer it took
    chan,      \* the fields lifecycle_mutex_ protects
    watch,     \* the SocketReadiness entry and its watcher thread
    slice,     \* the running slice: step, receives and polls left, result
    ring,      \* the poll ring, next_poll_route_ first
    round,     \* poll_round_remaining_, _immediate_, _receive_wait_safe_, _deadline_
    rt,        \* what each runtime has to do
    owes,      \* notifications a thread is about to make
    udp,       \* unread datagrams in the UDP socket
    missed     \* history: runtimes a round of several slices has passed by, or
               \* that were notified between its polls, and not polled since

vars == <<sched, chan, watch, slice, ring, round, rt, owes, udp, missed>>

Waits == {"none", "probe", "near", "far"}
Sooner(a, b) ==
    IF "probe" \in {a, b} THEN "probe" ELSE IF "near" \in {a, b} THEN "near"
    ELSE IF "far" \in {a, b} THEN "far" ELSE "none"
Notices == {"send", "release"}

Idle == [at |-> "idle", receives |-> 0, polls |-> 0, immediate |-> FALSE,
         wait |-> "none", safe |-> FALSE]

NoRound == [left |-> 0, immediate |-> FALSE, safe |-> TRUE, wait |-> "none"]

(* The channel was just started by start_with_affinity. *)
Init ==
    /\ sched = [task |-> TRUE, timer |-> "none", taken |-> FALSE]
    /\ chan = [running |-> TRUE, parked |-> FALSE, timer |-> "none",
               send_pending |-> FALSE, release_pending |-> FALSE, active |-> FALSE]
    /\ watch \in [state : {"idle"}, runs : {TRUE}, available : BOOLEAN]
    /\ slice = Idle
    /\ ring \in {<<>>} \cup {<<r>> : r \in Runtimes}
    /\ round = NoRound
    /\ rt = [r \in Runtimes |->
               [life |-> IF \E i \in 1 .. Len(ring) : ring[i] = r THEN "up" ELSE "new",
                sends |-> FALSE, freed |-> FALSE, holds |-> FALSE]]
    /\ owes = {}
    /\ udp = 0
    /\ missed = {}

-----------------------------------------------------------------------------
(* Scheduling a continuation.  A full queue or timer table refuses it; a    *)
(* channel that cannot be scheduled stops, and its connections break.       *)

Broken == [life |-> "broken", sends |-> FALSE, freed |-> FALSE, holds |-> FALSE]

mark_connections_broken ==
    rt' = [r \in Runtimes |-> IF \E i \in 1 .. Len(ring) : ring[i] = r
                              THEN Broken ELSE rt[r]]

(* schedule_next_locked(true): the task is submitted. *)
SubmitTask(c, s) ==
    /\ sched' = [s EXCEPT !.task = TRUE, !.timer = "none"]
    /\ chan' = [c EXCEPT !.timer = "none"]

(* schedule_next_locked(false): a timer is armed. *)
ArmTimer(c, s, kind) ==
    /\ sched' = [s EXCEPT !.timer = kind]
    /\ chan' = [c EXCEPT !.timer = kind]

Refused(c, s) ==
    /\ sched' = [s EXCEPT !.timer = "none"]
    /\ chan' = [c EXCEPT !.running = FALSE, !.timer = "none"]
    /\ mark_connections_broken

(* Mutant: a notice that comes while a slice runs is forgotten. *)
FollowUpNever(release) == chan

(* The worker owns the continuation: a follow-up is recorded. *)
FollowUp(release) ==
    IF release THEN [chan EXCEPT !.release_pending = TRUE]
    ELSE [chan EXCEPT !.send_pending = TRUE]

(* Mutant: a timer the worker has already taken counts as canceled. *)
WorkerOwnsActive == chan.timer = "none" /\ chan.active

(* A slice runs, or cancel_timer fails because the worker took the timer. *)
WorkerOwns ==
    \/ chan.timer = "none" /\ chan.active
    \/ chan.timer # "none" /\ sched.timer = "none"

(* notify_work: the wait is cut short, unless a short poll is coming anyway *)
(* or the worker is already on its way.  The scheduler may still hold the   *)
(* timer (and cancel it) or have taken it (and refuse).                     *)
notify_work(release) ==
    LET c == [chan EXCEPT !.parked = FALSE, !.send_pending = FALSE,
                          !.release_pending = FALSE]
    IN  IF \/ ~chan.running
           \/ release /\ chan.timer # "none" /\ sched.timer # "far"
           \/ chan.timer = "none" /\ ~chan.active /\ ~chan.parked
        THEN UNCHANGED <<sched, chan, rt>>
        ELSE IF chan.timer = "probe" \/ WorkerOwns
        THEN chan' = FollowUp(release) /\ UNCHANGED <<sched, rt>>
        ELSE \/ SubmitTask(c, [sched EXCEPT !.timer = "none"]) /\ UNCHANGED rt
             \/ ArmTimer(c, sched, "near") /\ UNCHANGED rt
             \/ Refused(c, sched)

-----------------------------------------------------------------------------
(* A long wait comes to its end. *)
Nears ==
    /\ sched.timer = "far"
    /\ sched' = [sched EXCEPT !.timer = "near"]
    /\ chan' = [chan EXCEPT !.timer = "near"]
    /\ UNCHANGED <<watch, slice, ring, round, rt, owes, udp, missed>>

(* erase of one place of a list *)
Removed(q, i) == SubSeq(q, 1, i - 1) \o SubSeq(q, i + 1, Len(q))

(* The threads that use the channel.  A thread changes a runtime or the    *)
(* routes first, releases that lock, and notifies afterwards.              *)

CanNotify == Cardinality(owes) < MaxNotifiers

(* queue_message, queue_stream, queue_group_message *)
QueueSend(r) ==
    /\ rt[r].life = "up" /\ ~rt[r].sends /\ CanNotify
    /\ rt' = [rt EXCEPT ![r].sends = TRUE]
    /\ owes' = owes \cup {<<r, "send">>}
    /\ UNCHANGED <<sched, chan, watch, slice, ring, round, udp, missed>>

(* receive_message, receive_stream: the buffer is empty again and its new   *)
(* window has to be advertised.                                             *)
ReadMessage(r) ==
    /\ rt[r].life = "up" /\ rt[r].holds /\ CanNotify
    /\ rt' = [rt EXCEPT ![r].holds = FALSE, ![r].freed = TRUE]
    /\ owes' = owes \cup {<<r, "release">>}
    /\ UNCHANGED <<sched, chan, watch, slice, ring, round, udp, missed>>

Notify(r, what) ==
    /\ <<r, what>> \in owes
    /\ owes' = owes \ {<<r, what>>}
    /\ notify_work(what = "release")
    /\ missed' = IF slice.at \in {"idle", "finish"} /\ round.left # 0
                 THEN missed \cup {r} ELSE missed
    /\ UNCHANGED <<watch, slice, ring, round, udp>>

(* register_connection: behind the routes that wait for their turn. *)
register_connection(r) ==
    /\ rt[r].life = "new" /\ CanNotify
    /\ ring' = Append(ring, r)
    /\ rt' = [rt EXCEPT ![r].life = "up", ![r].sends = TRUE]
    /\ owes' = owes \cup {<<r, "send">>}
    /\ UNCHANGED <<sched, chan, watch, slice, round, udp, missed>>

(* The runtime closes and leaves the ring; its route is not polled again. *)
unregister_connection(r) ==
    /\ rt[r].life \in {"up", "broken"} /\ ~\E w \in Notices : <<r, w>> \in owes
    /\ \E i \in 1 .. Len(ring) : ring[i] = r /\ ring' = Removed(ring, i)
    /\ rt' = [rt EXCEPT ![r] = [Broken EXCEPT !.life = "gone"]]
    /\ UNCHANGED <<sched, chan, watch, slice, round, owes, udp, missed>>

(* The channel goes away with its last user; a slice that runs holds it. *)
stop ==
    /\ chan.running /\ ~chan.active /\ owes = {} /\ ring = <<>>
    /\ watch.state # "fired"
    /\ chan' = [chan EXCEPT !.running = FALSE, !.parked = FALSE, !.timer = "none"]
    /\ sched' = [sched EXCEPT !.timer = "none"]
    /\ watch' = [watch EXCEPT !.state = "idle", !.available = FALSE]
    /\ UNCHANGED <<slice, ring, round, rt, owes, udp, missed>>

Arrive ==
    /\ udp < MaxDatagrams
    /\ udp' = udp + 1
    /\ UNCHANGED <<sched, chan, watch, slice, ring, round, rt, owes, missed>>

-----------------------------------------------------------------------------
(* SocketReadiness: a watch is reported at most once per arm, level         *)
(* triggered, from the watcher thread; a watcher whose wait fails reports   *)
(* every armed watch and ends.                                              *)

Fire ==
    /\ watch.state = "armed" /\ watch.runs
    /\ \/ udp > 0 /\ watch' = [watch EXCEPT !.state = "fired"]
       \/ watch' = [watch EXCEPT !.state = "fired", !.runs = FALSE]
    /\ UNCHANGED <<sched, chan, slice, ring, round, rt, owes, udp, missed>>

socket_readable ==
    /\ watch.state = "fired"
    /\ watch' = [watch EXCEPT !.state = "idle"]
    /\ notify_work(FALSE)
    /\ UNCHANGED <<slice, ring, round, owes, udp, missed>>

(* arm() while the last report is still on its way arms the entry again. *)
CanArm == watch.runs /\ watch.available

-----------------------------------------------------------------------------
(* The shard worker. *)

TakeTimer ==
    /\ sched.timer # "none"
    /\ sched' = [sched EXCEPT !.timer = "none", !.taken = TRUE]
    /\ UNCHANGED <<chan, watch, slice, ring, round, rt, owes, udp, missed>>

(* run_scheduled, until the lock is released. *)
BeginSlice ==
    /\ slice.at = "idle"
    /\ \/ sched.task /\ sched' = [sched EXCEPT !.task = FALSE]
       \/ sched.taken /\ sched' = [sched EXCEPT !.taken = FALSE]
    /\ IF chan.running
       THEN /\ chan' = [chan EXCEPT !.timer = "none", !.active = TRUE]
            /\ slice' = [Idle EXCEPT !.at = "receive", !.receives = MaxReceives]
       ELSE UNCHANGED <<chan, slice>>
    /\ UNCHANGED <<watch, ring, round, rt, owes, udp, missed>>

(* One datagram is read and dispatched: to a runtime, which may then hold   *)
(* data for its reader, or nowhere.                                         *)
Receive ==
    /\ slice.at = "receive" /\ slice.receives > 0 /\ udp > 0
    /\ udp' = udp - 1
    /\ slice' = [slice EXCEPT !.receives = @ - 1]
    /\ \/ UNCHANGED rt
       \/ \E r \in Runtimes : /\ rt[r].life = "up" /\ ~rt[r].holds
                              /\ rt' = [rt EXCEPT ![r].holds = TRUE]
    /\ UNCHANGED <<sched, chan, watch, ring, round, owes, missed>>

(* The socket is broken: every connection of the channel breaks. *)
ReceiveFails ==
    /\ slice.at = "receive" /\ slice.receives > 0 /\ udp > 0
    /\ udp' = 0
    /\ mark_connections_broken
    /\ slice' = [slice EXCEPT !.at = "poll", !.polls = MaxPolls]
    /\ round' = IF round.left # 0 THEN round ELSE [NoRound EXCEPT !.left = Len(ring)]
    /\ UNCHANGED <<sched, chan, watch, ring, owes, missed>>

(* would_block, or a full batch.  A round of an earlier slice goes on. *)
BeginPoll ==
    /\ slice.at = "receive" /\ (slice.receives = 0 \/ udp = 0)
    /\ slice' = [slice EXCEPT !.at = "poll", !.polls = MaxPolls]
    /\ round' = IF round.left # 0 THEN round ELSE [NoRound EXCEPT !.left = Len(ring)]
    /\ UNCHANGED <<sched, chan, watch, ring, rt, owes, udp, missed>>

(* What ConnectionRuntime::poll reports.  Nothing to do until a control     *)
(* deadline is only reported with both buffers empty.                       *)
Answer(immediate, wait, safe) == [immediate |-> immediate, wait |-> wait, safe |-> safe]

Answers(x) ==
    IF x.life # "up" THEN {Answer(FALSE, "none", TRUE)}
    ELSE {Answer(FALSE, "near", FALSE)}
         \cup (IF x.holds \/ x.sends THEN {} ELSE {Answer(FALSE, "far", TRUE)})
         \cup (IF x.sends THEN {Answer(TRUE, "none", FALSE)} ELSE {})

Counted(a) ==
    [round EXCEPT !.left = @ - 1, !.immediate = @ \/ a.immediate,
                  !.safe = @ /\ a.safe /\ watch.available,
                  !.wait = Sooner(@, IF a.safe /\ watch.available THEN a.wait ELSE "near")]

(* One connection is polled and rotates to the end of the ring.  It may have *)
(* sent everything, be paced, exhaust maximum_send_batch, or break when its  *)
(* peer has been silent for too long.                                        *)
PollAnswered(r, a) ==
    /\ round' = Counted(a)
    /\ \/ rt' = [rt EXCEPT ![r].freed = FALSE]
       \/ a.wait = "near" /\ rt' = [rt EXCEPT ![r].freed = FALSE, ![r].sends = FALSE]
       \/ a.wait = "near" /\ rt' = [rt EXCEPT ![r] = Broken]
    /\ \E left \in IF a.immediate THEN {slice.polls - 1, 0} ELSE {slice.polls - 1} :
         slice' = [slice EXCEPT !.polls = left]

PollNext ==
    /\ slice.at = "poll" /\ slice.polls > 0 /\ round.left > 0 /\ ring # <<>>
    /\ \E a \in Answers(rt[Head(ring)]) : PollAnswered(Head(ring), a)
    /\ missed' = missed \ {Head(ring)}
    /\ ring' = Tail(ring) \o <<Head(ring)>>
    /\ UNCHANGED <<sched, chan, watch, owes, udp>>

(* The result of the round.  A near deadline on a coarse host clock is       *)
(* resubmitted at once, or sampled by a probe.                               *)
EndPoll ==
    /\ slice.at = "poll" /\ (slice.polls = 0 \/ round.left = 0 \/ ring = <<>>)
    /\ LET left == IF ring = <<>> /\ slice.polls > 0 THEN 0 ELSE round.left
           full == slice.receives = 0
           now  == left # 0 \/ round.immediate
           safe == round.safe /\ watch.available
           wait == IF safe \/ round.wait # "none" THEN round.wait ELSE "near"
       IN  /\ round' = IF left = 0 THEN NoRound ELSE round
           /\ \E w \in IF wait = "near" THEN {"near", "probe", "now"} ELSE {wait} :
                slice' = [Idle EXCEPT !.at = "finish",
                                      !.immediate = now \/ full \/ w = "now",
                                      !.wait = IF now \/ full \/ w = "now" THEN "none" ELSE w,
                                      !.safe = ~now /\ w # "now" /\ safe]
           /\ missed' = IF left = 0 THEN missed
                        ELSE missed \cup {ring[i] : i \in left + 1 .. Len(ring)}
    /\ UNCHANGED <<sched, chan, watch, ring, rt, owes, udp>>

(* run_scheduled after run_once: notices recorded meanwhile count, the      *)
(* watch is armed, and the channel parks or schedules its continuation.     *)
EndSlice ==
    /\ slice.at = "finish"
    /\ slice' = Idle
    /\ LET c     == [chan EXCEPT !.active = FALSE, !.send_pending = FALSE,
                                 !.release_pending = FALSE]
           now   == slice.immediate \/ (chan.send_pending /\ slice.wait # "probe")
           wait  == IF slice.wait = "none" THEN "near" ELSE slice.wait
       IN  \E armed \in IF ~now /\ slice.safe /\ CanArm THEN {TRUE, FALSE} ELSE {FALSE} :
             /\ watch' = IF armed /\ watch.state # "armed" THEN [watch EXCEPT !.state = "armed"]
                         ELSE watch
             /\ \/ /\ armed /\ slice.wait = "none" /\ ~chan.release_pending
                   /\ chan' = [c EXCEPT !.parked = TRUE]
                   /\ UNCHANGED <<sched, rt>>
                \/ /\ ~(armed /\ slice.wait = "none" /\ ~chan.release_pending)
                   /\ \/ /\ now /\ SubmitTask(c, sched) /\ UNCHANGED rt
                      \/ /\ ~now
                         /\ ArmTimer(c, sched,
                              IF chan.release_pending \/ (~armed /\ slice.safe)
                              THEN Sooner(wait, "near") ELSE wait)
                         /\ UNCHANGED rt
                      \/ Refused(c, sched)
    /\ UNCHANGED <<ring, round, owes, udp, missed>>

-----------------------------------------------------------------------------

Next ==
    \/ \E r \in Runtimes :
         \/ QueueSend(r) \/ ReadMessage(r) \/ register_connection(r)
         \/ unregister_connection(r)
         \/ \E w \in Notices : Notify(r, w)
    \/ stop \/ Arrive \/ Fire \/ socket_readable
    \/ Nears \/ TakeTimer \/ BeginSlice \/ Receive \/ ReceiveFails \/ BeginPoll \/ PollNext
    \/ EndPoll \/ EndSlice

Spec == Init /\ [][Next]_vars

-----------------------------------------------------------------------------

(* A slice comes soon: one is running, or the scheduler will start one       *)
(* within the short poll interval.                                           *)
Soon == chan.active \/ sched.task \/ sched.taken \/ sched.timer \in {"near", "probe"}

(* Who will run the next slice, or runs one. *)
Holders ==
    {x \in {"task", "taken", "timer", "active"} :
       \/ x = "task" /\ sched.task
       \/ x = "taken" /\ sched.taken
       \/ x = "timer" /\ sched.timer # "none"
       \/ x = "active" /\ chan.active}

(* There is one continuation: the scheduler never holds two of them, the     *)
(* channel's timer token names the one that is armed, a parked channel has   *)
(* none, and a running channel that is not parked always has one.            *)
OneContinuation ==
    /\ \A x, y \in Holders : x = y
    /\ chan.parked => ~(Soon \/ sched.timer # "none")
    /\ chan.running => chan.parked \/ Soon \/ sched.timer = "far"
    /\ chan.running /\ sched.timer # "none" => chan.timer = sched.timer

(* A message queued on r, or a receive window its reader reopened, does not  *)
(* sit behind a long wait once its thread has notified the channel.          *)
Prompt(r) ==
    /\ rt[r].sends /\ <<r, "send">> \notin owes => Soon
    /\ rt[r].freed /\ <<r, "release">> \notin owes => Soon

(* Work is noticed: no connection waits behind a long wait with work that    *)
(* was notified, except one a round of several slices has passed by, and no  *)
(* unread datagram waits without a readiness watch that will report it.      *)
WorkIsPrompt ==
    chan.running =>
       /\ \A r \in Runtimes \ missed : Prompt(r)
       /\ udp > 0 => Soon \/ watch.state \in {"armed", "fired"}

(* docs/idle-readiness.md: "New send work cancels a later timer or records a *)
(* continuation while a task is active. ... outbound work remains            *)
(* immediate."  Between two slices of one round there is neither a timer nor *)
(* an active task, and the notification is dropped.                          *)
OutboundIsPrompt == chan.running => \A r \in Runtimes : Prompt(r)

=============================================================================
