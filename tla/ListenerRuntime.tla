-------------------------- MODULE ListenerRuntime --------------------------
(***************************************************************************)
(* One listening socket: the network thread that dispatches handshake      *)
(* datagrams, the scheduler shard that runs the two actors of the listener *)
(* (ListenerHandshakeActor, which admits callers one at a time, and the    *)
(* ListenerConnectionSetupActor of the caller being set up), the executor  *)
(* thread that consumes their results (ListenerRuntime::drain_results), an *)
(* application that accepts and closes sockets, and an application thread  *)
(* that closes the listener.  A step of a thread ends where it releases a  *)
(* mutex another thread can take; publishing a result and the notification *)
(* that follows it are one step.  Handshake contents are reduced to their  *)
(* request; the cookie, key and policy checks of an admitted conclusion to *)
(* the verdict they give.                                                  *)
(***************************************************************************)
EXTENDS Integers, Sequences, FiniteSets, SequencesExt

CONSTANTS
    Callers,            \* peers that connect
    NoCaller,           \* none of them
    Authentication,     \* the values of session_authentication() to consider
    AcceptCapacity,     \* backlog given to srt_listen
    InboxCapacity,      \* capacity of the listener and setup inboxes
    ResultCapacity,     \* result slots of the handshake actor
    MaxSockets,         \* bound on the accepted sockets the registry creates
    MaxPackets,         \* bound on the handshake datagrams that arrive
    MaxRetries,         \* retry_budget of the setup's handshake machine
    Expiring            \* deadlines pass

ASSUME ListenerAssumption ==
    /\ NoCaller \notin Callers /\ Authentication \subseteq BOOLEAN
    /\ {AcceptCapacity, InboxCapacity, ResultCapacity, MaxSockets, MaxPackets} \subseteq Nat \ {0}
    /\ MaxRetries \in Nat /\ Expiring \in BOOLEAN

VARIABLES
    authenticated, \* the setup ends with the caller's session confirmation
    network,    \* DatagramChannel::dispatch between choosing a target and the push
    arrived,    \* datagrams so far
    challenged, \* handles whose challenge reached their caller
    inbox,      \* the listener's HandshakeInbox
    source,     \* ListenerHandshakeEventSource
    actor,      \* ListenerHandshakeActor
    setup,      \* SetupContext: setup actor, its source, inbox, route and reservation
    shard,      \* the scheduler worker both actors run on
    runtime,    \* ListenerRuntime's own flags
    worker,     \* the executor thread in drain_results
    accepts,    \* ListenerAcceptQueue
    sockets,    \* state of each accepted socket
    caller_of,  \* its peer
    owned,      \* sockets returned by srt_accept
    listening,  \* the listener socket is SRTS_LISTENING
    closer      \* the thread in shutdown_record / ListenerRuntime::close

vars == <<authenticated, network, arrived, challenged, inbox, source, actor, setup, shard, runtime,
          worker, accepts, sockets, caller_of, owned, listening, closer>>

Handles == 1 .. MaxSockets
NoHandle == 0

Packet ==
    [request : {"induction", "conclusion"}, caller : Callers, handle : {NoHandle}]
      \cup [request : {"agreement"}, caller : Callers, handle : Handles]
NoPacket == [request |-> "none", caller |-> NoCaller, handle |-> NoHandle]

NoSetup ==
    [handle |-> NoHandle, caller |-> NoCaller, rejected |-> FALSE, reserved |-> FALSE,
     route |-> FALSE, inbox |-> <<>>, inbox_pending |-> FALSE, events |-> <<>>,
     retry_armed |-> FALSE, overall_armed |-> FALSE, retries |-> 0,
     started |-> FALSE, initialized |-> FALSE, pending |-> FALSE, scheduled |-> FALSE,
     close_requested |-> FALSE, terminal |-> FALSE, handler |-> FALSE,
     result |-> "none", result_pending |-> FALSE, acknowledge |-> FALSE, retry |-> FALSE]

Init ==
    /\ authenticated \in Authentication
    /\ network = [to |-> "idle", packet |-> NoPacket]
    /\ arrived = 0 /\ challenged = {}
    /\ inbox = [queue |-> <<>>, closed |-> FALSE]
    /\ source = [inbox_pending |-> FALSE, event |-> FALSE, stopped |-> FALSE]
    /\ actor = [pending |-> FALSE, scheduled |-> FALSE, admission_pending |-> FALSE,
                results |-> <<>>, terminal |-> FALSE, close_requested |-> FALSE,
                handler |-> TRUE]
    /\ setup = NoSetup
    /\ shard = [tasks |-> <<>>, at |-> "idle"]
    /\ runtime = [closed |-> FALSE, pending |-> FALSE, scheduled |-> FALSE,
                  active |-> FALSE, setup |-> NoHandle]
    /\ worker = [queued |-> FALSE, at |-> "idle", then |-> "idle", packet |-> NoPacket,
                 connected |-> FALSE]
    /\ accepts = [entries |-> <<>>, reserved |-> 0, closed |-> FALSE]
    /\ sockets = [h \in Handles |-> "free"]
    /\ caller_of = [h \in Handles |-> NoCaller]
    /\ owned = {}
    /\ listening = TRUE
    /\ closer = [at |-> "idle", setup |-> NoHandle]

-----------------------------------------------------------------------------
(* Requests that are folded into one while the first is outstanding.       *)

(* ListenerHandshakeEventSource::request_inbox: one publish task at a time. *)
RequestInbox(s) == IF s.stopped THEN s ELSE [s EXCEPT !.inbox_pending = TRUE]
InboxTasks(s) == IF s.stopped \/ s.inbox_pending THEN <<>> ELSE <<[run |-> "inbox", handle |-> NoHandle]>>

(* ListenerHandshakeActor::request_run. *)
RequestRun(a) == IF a.terminal THEN a ELSE [a EXCEPT !.pending = TRUE, !.scheduled = TRUE]
RunTasks(a) == IF a.terminal \/ a.scheduled THEN <<>> ELSE <<[run |-> "actor", handle |-> NoHandle]>>

(* ListenerConnectionSetupEventSource::request_inbox. *)
SetupRequestInbox(s) ==
    IF s.terminal \/ ~s.started THEN s ELSE [s EXCEPT !.inbox_pending = TRUE]
SetupInboxTasks(s) ==
    IF s.terminal \/ ~s.started \/ s.inbox_pending THEN <<>> ELSE <<[run |-> "setup_inbox", handle |-> s.handle]>>

(* ListenerConnectionSetupActor::request_run. *)
SetupRequestRun(s) == IF s.terminal THEN s ELSE [s EXCEPT !.pending = TRUE, !.scheduled = TRUE]
SetupRunTasks(s) == IF s.terminal \/ s.scheduled THEN <<>> ELSE <<[run |-> "setup", handle |-> s.handle]>>

(* ListenerRuntime::request_result_work, when the executor takes the task. *)
RequestResultWork(notified) ==
    IF notified /\ ~runtime.closed
    THEN /\ runtime' = [runtime EXCEPT !.pending = TRUE, !.scheduled = TRUE]
         /\ worker' = [worker EXCEPT !.queued = @ \/ ~runtime.scheduled]
    ELSE UNCHANGED <<runtime, worker>>

Submit(tasks) == shard' = [shard EXCEPT !.tasks = @ \o tasks]
Continue(at) == shard' = [shard EXCEPT !.at = at]

-----------------------------------------------------------------------------
(* The network thread: DatagramChannel::dispatch.                          *)

Registered(c) == {h \in Handles : caller_of[h] = c /\ sockets[h] \in {"connected", "closing"}}

(* ConnectionRuntime::process_handshake of the route of the packet's peer: *)
(* an established connection repeats its response to a conclusion, unless  *)
(* the response was a session challenge.                                   *)
Replayed(p) ==
    /\ p.request = "conclusion" /\ ~authenticated
    /\ \E h \in Registered(p.caller) : sockets[h] = "connected"

(* The routes are read under routes_mutex_; the push happens after it.     *)
DispatchTarget(p) ==
    IF Replayed(p) THEN "idle"
    ELSE IF setup.route /\ setup.caller = p.caller THEN "setup" ELSE "listener"

Arrive(p) ==
    /\ network.to = "idle" /\ arrived < MaxPackets
    /\ p.request = "agreement" => p.handle \in challenged /\ caller_of[p.handle] = p.caller
    /\ arrived' = arrived + 1
    /\ network' = IF DispatchTarget(p) = "idle" THEN network
                  ELSE [to |-> DispatchTarget(p), packet |-> p]
    /\ UNCHANGED <<authenticated, challenged, inbox, source, actor, setup, shard, runtime, worker,
                   accepts, sockets, caller_of, owned, listening, closer>>

(* HandshakeInbox::push: the ready handler runs only for the first entry.  *)
PushListener ==
    /\ network.to = "listener"
    /\ network' = [to |-> "idle", packet |-> NoPacket]
    /\ IF inbox.closed \/ Len(inbox.queue) = InboxCapacity
       THEN UNCHANGED <<inbox, source, shard>>
       ELSE /\ inbox' = [inbox EXCEPT !.queue = Append(@, network.packet)]
            /\ IF inbox.queue = <<>>
               THEN source' = RequestInbox(source) /\ Submit(InboxTasks(source))
               ELSE UNCHANGED <<source, shard>>
    /\ UNCHANGED <<authenticated, arrived, challenged, actor, setup, runtime, worker, accepts,
                   sockets, caller_of, owned, listening, closer>>

(* DatagramInbox::push to the setup inbox chosen before: it may be the     *)
(* inbox of a setup that has ended since, which nobody reads any more.     *)
PushSetup ==
    /\ network.to = "setup"
    /\ network' = [to |-> "idle", packet |-> NoPacket]
    /\ IF setup.caller # network.packet.caller \/ Len(setup.inbox) = InboxCapacity
       THEN UNCHANGED <<setup, shard>>
       ELSE IF setup.inbox = <<>>
       THEN /\ setup' = [SetupRequestInbox(setup) EXCEPT !.inbox = <<network.packet>>]
            /\ Submit(SetupInboxTasks(setup))
       ELSE setup' = [setup EXCEPT !.inbox = Append(@, network.packet)] /\ UNCHANGED shard
    /\ UNCHANGED <<authenticated, arrived, challenged, inbox, source, actor, runtime, worker, accepts,
                   sockets, caller_of, owned, listening, closer>>

-----------------------------------------------------------------------------
(* The scheduler shard running ListenerHandshakeActor.                     *)

ShardNext(run) ==
    /\ shard.at = "idle" /\ shard.tasks # <<>> /\ Head(shard.tasks).run = run

Environment == <<authenticated, network, arrived, challenged, accepts, sockets, caller_of, owned,
                 listening, closer>>

(* publish_inbox_ready: the event is queued and the actor woken.           *)
PublishInbox ==
    /\ ShardNext("inbox")
    /\ source' = IF source.stopped THEN source ELSE [source EXCEPT !.event = TRUE]
    /\ actor' = IF source.stopped THEN actor ELSE RequestRun(actor)
    /\ shard' = [shard EXCEPT !.tasks = Tail(@) \o
                     (IF source.stopped THEN <<>> ELSE RunTasks(actor))]
    /\ UNCHANGED <<Environment, inbox, setup, runtime, worker>>

(* finish: one terminal result replaces everything queued.                 *)
FinishActor(result) ==
    /\ actor' = [actor EXCEPT !.terminal = TRUE, !.results = <<result>>,
                     !.admission_pending = FALSE, !.scheduled = FALSE]
    /\ source' = [source EXCEPT !.stopped = TRUE]
    /\ inbox' = [inbox EXCEPT !.closed = TRUE]
    /\ RequestResultWork(actor.handler)

(* run: the close request is read together with the reset of pending_.     *)
RunActor ==
    /\ \/ ShardNext("actor") /\ shard' = [tasks |-> Tail(shard.tasks),
                                          at |-> IF actor.close_requested THEN "idle" ELSE "drain"]
       \/ shard.at = "run" /\ Continue(IF actor.close_requested THEN "idle" ELSE "drain")
    /\ IF actor.close_requested
       THEN FinishActor([step |-> "closed", packet |-> NoPacket])
       ELSE actor' = [actor EXCEPT !.pending = FALSE] /\ UNCHANGED <<source, inbox, runtime, worker>>
    /\ UNCHANGED <<Environment, setup>>

(* drain_source finds no event: run ends, or starts over when a request    *)
(* came in.                                                                *)
DrainNothing ==
    /\ shard.at = "drain" /\ ~source.event
    /\ actor' = [actor EXCEPT !.scheduled = @ /\ actor.pending]
    /\ Continue(IF actor.pending THEN "run" ELSE "idle")
    /\ UNCHANGED <<Environment, inbox, source, setup, runtime, worker>>

(* ListenerHandshakeAdmissionSteps::receive: the router answers an         *)
(* induction, admits a conclusion and drops anything else.                 *)
AdmissionStep(p) ==
    CASE p.request = "induction" -> "send" [] p.request = "conclusion" -> "admit" [] OTHER -> "none"

(* publish_step: one result slot is kept for an admission, so a response   *)
(* is dropped before the queue is full; an admission keeps the inbox event *)
(* outstanding until complete_admission.                                   *)
PublishStep(p, step) ==
    IF step = "admit"
    THEN /\ actor' = [actor EXCEPT !.results = Append(@, [step |-> step, packet |-> p]),
                                  !.admission_pending = TRUE]
         /\ RequestResultWork(actor.handler)
         /\ UNCHANGED shard
    ELSE /\ Continue("acknowledge")
         /\ IF step = "send" /\ Len(actor.results) < ResultCapacity - 1
            THEN /\ actor' = [actor EXCEPT !.results = Append(@, [step |-> step, packet |-> p])]
                 /\ RequestResultWork(actor.handler)
            ELSE UNCHANGED <<actor, runtime, worker>>

(* process_inbox, by what pop_for returns.                                 *)
ProcessInbox ==
    /\ shard.at = "drain" /\ source.event /\ ~(inbox.queue = <<>> /\ inbox.closed)
    /\ source' = [source EXCEPT !.event = FALSE]
    /\ IF inbox.queue = <<>>
       THEN Continue("acknowledge") /\ UNCHANGED <<inbox, actor, runtime, worker>>
       ELSE /\ inbox' = [inbox EXCEPT !.queue = Tail(@)]
            /\ PublishStep(Head(inbox.queue), AdmissionStep(Head(inbox.queue)))
    /\ UNCHANGED <<Environment, setup>>

ProcessClosedInbox ==
    /\ shard.at = "drain" /\ source.event /\ inbox.queue = <<>> /\ inbox.closed
    /\ FinishActor([step |-> "closed", packet |-> NoPacket])
    /\ Continue("idle")
    /\ UNCHANGED <<Environment, setup>>

(* acknowledge_inbox clears the mark, then looks at the inbox again: what  *)
(* was pushed while the mark was set raised no event of its own.           *)
ClearInboxMark(s) == [s EXCEPT !.inbox_pending = FALSE]
(* Mutant: what came in meanwhile is not looked at. *)
InboxReadyUnseen == inbox.closed
InboxReady == inbox.queue # <<>> \/ inbox.closed

AcknowledgeInbox ==
    /\ shard.at = "acknowledge"
    /\ source' = ClearInboxMark(source)
    /\ Continue(IF source.stopped THEN "drain" ELSE "recheck")
    /\ UNCHANGED <<Environment, inbox, actor, setup, runtime, worker>>

RecheckInbox ==
    /\ shard.at = "recheck"
    /\ IF InboxReady
       THEN /\ source' = RequestInbox(source)
            /\ shard' = [tasks |-> shard.tasks \o InboxTasks(source), at |-> "drain"]
       ELSE Continue("drain") /\ UNCHANGED source
    /\ UNCHANGED <<Environment, inbox, actor, setup, runtime, worker>>

-----------------------------------------------------------------------------
(* The scheduler shard running the ListenerConnectionSetupActor.           *)

(* A task of a setup that has ended finds its actor or source stopped.     *)
DropStaleTask ==
    /\ shard.at = "idle" /\ shard.tasks # <<>>
    /\ Head(shard.tasks).run \in {"setup_inbox", "setup"}
    /\ Head(shard.tasks).handle # setup.handle \/ setup.terminal
    /\ shard' = [shard EXCEPT !.tasks = Tail(@)]
    /\ UNCHANGED <<Environment, inbox, source, actor, setup, runtime, worker>>

SetupShardNext(run) ==
    ShardNext(run) /\ Head(shard.tasks).handle = setup.handle /\ ~setup.terminal

SetupEvent(event) ==
    /\ setup' = [SetupRequestRun(setup) EXCEPT !.events = Append(@, event),
                    !.retry_armed = @ /\ event # "retry", !.overall_armed = @ /\ event # "overall"]
    /\ UNCHANGED <<Environment, inbox, source, actor, runtime, worker>>

SetupPublishInbox ==
    /\ SetupShardNext("setup_inbox")
    /\ SetupEvent("inbox")
    /\ shard' = [shard EXCEPT !.tasks = Tail(@) \o SetupRunTasks(setup)]

(* The retry and overall timers run on the shard between two tasks.        *)
SetupTimer(event) ==
    /\ Expiring /\ shard.at = "idle" /\ ~setup.terminal
    /\ IF event = "retry" THEN setup.retry_armed ELSE setup.overall_armed
    /\ SetupEvent(event)
    /\ Submit(SetupRunTasks(setup))

(* finish: the terminal outcome replaces an unread result.                 *)
FinishedSetup(s, outcome) ==
    [s EXCEPT !.terminal = TRUE, !.result = outcome, !.result_pending = FALSE,
              !.acknowledge = FALSE, !.retry = FALSE, !.scheduled = FALSE,
              !.retry_armed = FALSE, !.overall_armed = FALSE]
FinishSetup(outcome) ==
    /\ setup' = FinishedSetup(setup, outcome)
    /\ RequestResultWork(setup.handler)
    /\ Continue("idle")
    /\ UNCHANGED <<Environment, inbox, source, actor>>

(* publish_running: the actor is blocked until complete_result.            *)
PublishRunning(s, acknowledge, retry) ==
    /\ setup' = [s EXCEPT !.result = "running", !.result_pending = TRUE, !.scheduled = FALSE,
                              !.acknowledge = acknowledge, !.retry = retry]
    /\ RequestResultWork(setup.handler)
    /\ Continue("idle")
    /\ UNCHANGED <<Environment, inbox, source, actor>>

RunSetup ==
    /\ SetupShardNext("setup")
    /\ setup' = [setup EXCEPT !.pending = FALSE]
    /\ shard' = [tasks |-> Tail(shard.tasks),
                 at |-> IF setup.close_requested THEN "setup_close"
                        ELSE IF setup.result_pending THEN "setup_tail"
                        ELSE IF setup.initialized THEN "setup_drain" ELSE "setup_initialize"]
    /\ UNCHANGED <<Environment, inbox, source, actor, runtime, worker>>

CloseSetup == shard.at = "setup_close" /\ FinishSetup("closed")

(* initialize: the admitted conclusion is rejected, refused or connects at *)
(* once, or, with session authentication, is answered by a challenge.      *)
InitializeSetup ==
    /\ shard.at = "setup_initialize"
    /\ \/ setup.rejected /\ FinishSetup("rejected")
       \/ ~setup.rejected /\ \E outcome \in {"rejected", "failed"} : FinishSetup(outcome)
       \/ ~setup.rejected /\ ~authenticated /\ FinishSetup("connected")
       \/ /\ ~setup.rejected /\ authenticated
          /\ PublishRunning([setup EXCEPT !.initialized = TRUE], FALSE, TRUE)

(* run's tail, entered when drain_source finds no event or a result waits. *)
SetupTail ==
    /\ \/ shard.at = "setup_tail"
       \/ shard.at = "setup_drain" /\ setup.events = <<>>
    /\ IF setup.pending /\ ~setup.result_pending
       THEN /\ setup' = [setup EXCEPT !.pending = FALSE]
            /\ Continue(IF setup.close_requested THEN "setup_close" ELSE "setup_drain")
       ELSE setup' = [setup EXCEPT !.scheduled = FALSE] /\ Continue("idle")
    /\ UNCHANGED <<Environment, inbox, source, actor, runtime, worker>>

(* The handshake machine awaiting the session confirmation answers a       *)
(* repeated conclusion with its challenge, connects on the agreement made  *)
(* for this socket and ignores the rest.                                   *)
Confirms(p) == p.request = "agreement" /\ p.handle = setup.handle

ProcessSetupEvent ==
    /\ shard.at = "setup_drain" /\ setup.events # <<>>
    /\ CASE Head(setup.events) = "overall" -> FinishSetup("timed_out")
         [] Head(setup.events) = "retry" ->
              IF setup.retries = MaxRetries
              THEN FinishSetup("failed")
              ELSE PublishRunning([setup EXCEPT !.events = Tail(@), !.retries = @ + 1], FALSE, TRUE)
         [] OTHER ->
              IF setup.inbox # <<>> /\ Confirms(Head(setup.inbox))
              THEN FinishSetup("connected")
              ELSE IF setup.inbox # <<>> /\ Head(setup.inbox).request = "conclusion"
              THEN PublishRunning([setup EXCEPT !.events = Tail(@), !.inbox = Tail(@)], TRUE, FALSE)
              ELSE /\ setup' = [setup EXCEPT !.events = Tail(@), !.inbox = IF @ = <<>> THEN @ ELSE Tail(@)]
                   /\ Continue("setup_acknowledge")
                   /\ UNCHANGED <<Environment, inbox, source, actor, runtime, worker>>

SetupAcknowledgeInbox ==
    /\ shard.at = "setup_acknowledge"
    /\ setup' = [setup EXCEPT !.inbox_pending = FALSE]
    /\ Continue("setup_recheck")
    /\ UNCHANGED <<Environment, inbox, source, actor, runtime, worker>>

SetupRecheckInbox ==
    /\ shard.at = "setup_recheck"
    /\ IF setup.inbox # <<>>
       THEN /\ setup' = SetupRequestInbox(setup)
            /\ shard' = [tasks |-> shard.tasks \o SetupInboxTasks(setup), at |-> "setup_drain"]
       ELSE Continue("setup_drain") /\ UNCHANGED setup
    /\ UNCHANGED <<Environment, inbox, source, actor, runtime, worker>>

-----------------------------------------------------------------------------
(* The executor thread: ListenerRuntime::drain_results.                    *)

At(at) == worker.at = at
Goto(at) == worker' = [worker EXCEPT !.at = at]
Network == <<authenticated, network, arrived>>

(* Mutant: the closed branch leaves the active mark of an earlier round. *)
StartDrainingMarked ==
    /\ \/ At("idle") /\ worker.queued
       \/ At("again")
    /\ IF runtime.closed
       THEN /\ runtime' = [runtime EXCEPT !.scheduled = FALSE, !.pending = FALSE]
            /\ worker' = [worker EXCEPT !.queued = FALSE, !.at = "idle"]
       ELSE /\ runtime' = [runtime EXCEPT !.active = TRUE, !.pending = FALSE]
            /\ worker' = [worker EXCEPT !.queued = FALSE, !.at = "pop"]
    /\ UNCHANGED <<Network, challenged, inbox, source, actor, setup, shard, accepts, sockets,
                   caller_of, owned, listening, closer>>
StartDraining ==
    /\ \/ At("idle") /\ worker.queued
       \/ At("again")
    /\ IF runtime.closed
       THEN /\ runtime' = [runtime EXCEPT !.active = FALSE, !.scheduled = FALSE, !.pending = FALSE]
            /\ worker' = [worker EXCEPT !.queued = FALSE, !.at = "idle"]
       ELSE /\ runtime' = [runtime EXCEPT !.active = TRUE, !.pending = FALSE]
            /\ worker' = [worker EXCEPT !.queued = FALSE, !.at = "pop"]
    /\ UNCHANGED <<Network, challenged, inbox, source, actor, setup, shard, accepts, sockets,
                   caller_of, owned, listening, closer>>

(* ListenerHandshakeActor::try_pop and process_result. *)
PopResult ==
    /\ At("pop") /\ actor.results # <<>>
    /\ actor' = [actor EXCEPT !.results = Tail(@)]
    /\ LET result == Head(actor.results) IN
       worker' = [worker EXCEPT
           !.packet = result.packet,
           !.at = IF result.step = "closed" \/ ~listening THEN "finish_consumer"
                  ELSE IF result.step = "send" THEN "pop" ELSE "replay"]
    /\ UNCHANGED <<Network, challenged, inbox, source, setup, shard, runtime, accepts, sockets,
                   caller_of, owned, listening, closer>>

PopNothing ==
    /\ At("pop") /\ actor.results = <<>>
    /\ Goto(IF runtime.setup # NoHandle THEN "setup" ELSE "end")
    /\ UNCHANGED <<Network, challenged, inbox, source, actor, setup, shard, runtime, accepts, sockets,
                   caller_of, owned, listening, closer>>

(* Mutant: the route is not looked up again. *)
ReplayEstablishedUnchecked ==
    /\ At("replay")
    /\ worker' = [worker EXCEPT !.at = "reserve", !.then = "pop"]
    /\ UNCHANGED <<Network, challenged, inbox, source, actor, setup, shard, runtime, accepts, sockets,
                   caller_of, owned, listening, closer>>
(* replay_established_handshake: the conclusion may have been routed to    *)
(* the listener before the setup of the same caller took its route.        *)
ReplayEstablished ==
    /\ At("replay")
    /\ worker' = [worker EXCEPT !.at = IF Replayed(worker.packet) THEN "resume" ELSE "reserve",
                                !.then = "pop"]
    /\ UNCHANGED <<Network, challenged, inbox, source, actor, setup, shard, runtime, accepts, sockets,
                   caller_of, owned, listening, closer>>

(* Reservation::acquire fails when the queue is closed, or when entries    *)
(* and reservations fill it.                                               *)
CanReserve(q) == ~q.closed /\ Len(q.entries) + q.reserved < AcceptCapacity
Release(q) == [q EXCEPT !.reserved = @ - 1]
FreeHandles == {h \in Handles : sockets[h] = "free"}

(* start_admitted_socket up to the listen callback. *)
ReserveAccept ==
    /\ At("reserve")
    /\ IF listening /\ CanReserve(accepts) /\ FreeHandles # {}
       THEN \E h \in FreeHandles :
              /\ \A g \in FreeHandles : h <= g
              /\ accepts' = [accepts EXCEPT !.reserved = @ + 1]
              /\ sockets' = [sockets EXCEPT ![h] = "connecting"]
              /\ caller_of' = [caller_of EXCEPT ![h] = worker.packet.caller]
              /\ setup' = [NoSetup EXCEPT !.handle = h, !.caller = worker.packet.caller,
                                         !.reserved = TRUE]
              /\ Goto("callback")
       ELSE Goto("resume") /\ UNCHANGED <<accepts, sockets, caller_of, setup>>
    /\ UNCHANGED <<Network, challenged, inbox, source, actor, shard, runtime, owned, listening, closer>>

(* The context is destroyed with the reservation it holds. *)
DropSetup ==
    /\ setup' = NoSetup
    /\ accepts' = IF setup.reserved THEN Release(accepts) ELSE accepts

(* The listen callback and the policy checks after it: the caller is taken *)
(* on, or rejected, or the callback closed the socket or a check failed.   *)
ListenCallback ==
    /\ At("callback")
    /\ \/ /\ \E rejected \in BOOLEAN : setup' = [setup EXCEPT !.rejected = rejected]
          /\ Goto("register") /\ UNCHANGED <<accepts, sockets>>
       \/ /\ sockets' = [sockets EXCEPT ![setup.handle] = "closed"]
          /\ DropSetup /\ Goto("resume")
    /\ UNCHANGED <<Network, challenged, inbox, source, actor, shard, runtime, caller_of, owned,
                   listening, closer>>

RegisterSetupInbox ==
    /\ At("register")
    /\ setup' = [setup EXCEPT !.route = TRUE]
    /\ Goto("extract")
    /\ UNCHANGED <<Network, challenged, inbox, source, actor, shard, runtime, accepts, sockets,
                   caller_of, owned, listening, closer>>

(* HandshakeInbox::extract_matching: duplicates already queued follow the  *)
(* caller to its setup inbox as far as they fit; the rest is discarded.    *)
OfCaller(p) == p.caller = setup.caller
NotOfCaller(p) == p.caller # setup.caller
ExtractMatching ==
    /\ At("extract")
    /\ LET moved == setup.inbox \o SelectSeq(inbox.queue, OfCaller) IN
       setup' = [setup EXCEPT !.inbox = IF Len(moved) > InboxCapacity
                                        THEN SubSeq(moved, 1, InboxCapacity) ELSE moved]
    /\ inbox' = [inbox EXCEPT !.queue = SelectSeq(@, NotOfCaller)]
    /\ Goto("install")
    /\ UNCHANGED <<Network, challenged, source, actor, shard, runtime, accepts, sockets,
                   caller_of, owned, listening, closer>>

(* Mutant: a listener closed meanwhile is not noticed. *)
InstallSetupUnchecked ==
    /\ At("install")
    /\ runtime' = [runtime EXCEPT !.setup = setup.handle]
    /\ setup' = [setup EXCEPT !.handler = TRUE]
    /\ Goto("start_source")
    /\ UNCHANGED <<Network, challenged, inbox, source, actor, shard, accepts, sockets,
                   caller_of, owned, listening, closer>>
InstallSetup ==
    /\ At("install")
    /\ IF runtime.closed \/ runtime.setup # NoHandle
       THEN Goto("abandon") /\ UNCHANGED <<runtime, setup>>
       ELSE /\ runtime' = [runtime EXCEPT !.setup = setup.handle]
            /\ setup' = [setup EXCEPT !.handler = TRUE]
            /\ Goto("start_source")
    /\ UNCHANGED <<Network, challenged, inbox, source, actor, shard, accepts, sockets,
                   caller_of, owned, listening, closer>>

(* ListenerConnectionSetupActor::start: the source is started, which can   *)
(* already run the actor for a queued handshake, then the overall timer,   *)
(* then the first run is requested.                                        *)
StartSetupSource ==
    /\ At("start_source")
    /\ IF setup.terminal
       THEN Goto("abandon") /\ UNCHANGED <<setup, shard>>
       ELSE LET started == [setup EXCEPT !.started = TRUE] IN
            /\ Goto("start_timer")
            /\ IF setup.inbox = <<>>
               THEN setup' = started /\ UNCHANGED shard
               ELSE setup' = SetupRequestInbox(started) /\ Submit(SetupInboxTasks(started))
    /\ UNCHANGED <<Network, challenged, inbox, source, actor, runtime, accepts, sockets,
                   caller_of, owned, listening, closer>>

StartSetupTimer ==
    /\ At("start_timer")
    /\ Goto(IF setup.terminal THEN "pop" ELSE "start_run")
    /\ setup' = [setup EXCEPT !.overall_armed = ~setup.terminal]
    /\ UNCHANGED <<Network, challenged, inbox, source, actor, shard, runtime, accepts, sockets,
                   caller_of, owned, listening, closer>>

StartSetupRun ==
    /\ At("start_run")
    /\ setup' = SetupRequestRun(setup)
    /\ Submit(SetupRunTasks(setup))
    /\ Goto(IF setup.terminal THEN "abandon" ELSE "pop")
    /\ UNCHANGED <<Network, challenged, inbox, source, actor, runtime, accepts, sockets,
                   caller_of, owned, listening, closer>>

(* ListenerConnectionSetupActor::close: an actor that never started ends   *)
(* here, one that runs is asked to.                                        *)
ClosedSetup(s) ==
    IF s.terminal THEN s
    ELSE IF ~s.started THEN FinishedSetup([s EXCEPT !.close_requested = TRUE], "closed")
    ELSE SetupRequestRun([s EXCEPT !.close_requested = TRUE])
ClosedSetupTasks(s) == IF s.started THEN SetupRunTasks(s) ELSE <<>>

(* abandon_start: close, stop (which waits for the end), then forget. *)
AbandonStart ==
    /\ At("abandon")
    /\ setup' = ClosedSetup([setup EXCEPT !.handler = FALSE])
    /\ Submit(ClosedSetupTasks(setup))
    /\ Goto("abandoned")
    /\ UNCHANGED <<Network, challenged, inbox, source, actor, runtime, accepts, sockets,
                   caller_of, owned, listening, closer>>

AbandonedStart ==
    /\ At("abandoned") /\ setup.terminal
    /\ runtime' = [runtime EXCEPT !.setup = IF @ = setup.handle THEN NoHandle ELSE @]
    /\ sockets' = [sockets EXCEPT ![setup.handle] = "closed"]
    /\ DropSetup
    /\ Goto("resume")
    /\ UNCHANGED <<Network, challenged, inbox, source, actor, shard, caller_of, owned, listening, closer>>

(* ListenerHandshakeActor::complete_admission, on the executor thread. *)
CompleteAdmission ==
    /\ At("resume")
    /\ IF actor.terminal \/ ~actor.admission_pending
       THEN Goto(IF worker.then = "pop" THEN "finish_consumer" ELSE "drop") /\ UNCHANGED actor
       ELSE actor' = [actor EXCEPT !.admission_pending = FALSE] /\ Goto("resume_acknowledge")
    /\ UNCHANGED <<Network, challenged, inbox, source, setup, shard, runtime, accepts, sockets,
                   caller_of, owned, listening, closer>>

ResumeAcknowledge ==
    /\ At("resume_acknowledge")
    /\ source' = ClearInboxMark(source)
    /\ Goto(IF source.stopped THEN "resumed" ELSE "resume_recheck")
    /\ UNCHANGED <<Network, challenged, inbox, actor, setup, shard, runtime, accepts, sockets,
                   caller_of, owned, listening, closer>>

ResumeRecheck ==
    /\ At("resume_recheck")
    /\ IF InboxReady
       THEN source' = RequestInbox(source) /\ Submit(InboxTasks(source))
       ELSE UNCHANGED <<source, shard>>
    /\ Goto("resumed")
    /\ UNCHANGED <<Network, challenged, inbox, actor, setup, runtime, accepts, sockets,
                   caller_of, owned, listening, closer>>

Resumed ==
    /\ At("resumed")
    /\ Goto(IF listening THEN worker.then ELSE IF worker.then = "pop" THEN "finish_consumer" ELSE "drop")
    /\ UNCHANGED <<Network, challenged, inbox, source, actor, setup, shard, runtime, accepts, sockets,
                   caller_of, owned, listening, closer>>

(* ListenerConnectionSetupActor::try_pop and process_setup_result. *)
PopSetupResult ==
    /\ At("setup") /\ setup.result # "none"
    /\ setup' = [setup EXCEPT !.result = "none"]
    /\ LET open == listening /\ sockets[setup.handle] = "connecting" IN
       /\ challenged' = IF open /\ setup.result = "running" THEN challenged \cup {setup.handle}
                        ELSE challenged
       /\ worker' = [worker EXCEPT
             !.connected = FALSE,
             !.at = CASE open /\ setup.result = "connected" -> "attach"
                      [] open /\ setup.result = "running" -> "complete_result"
                      [] OTHER -> "finish"]
    /\ UNCHANGED <<Network, inbox, source, actor, shard, runtime, accepts, sockets,
                   caller_of, owned, listening, closer>>

PopSetupNothing ==
    /\ At("setup") /\ setup.result = "none"
    /\ Goto("end")
    /\ UNCHANGED <<Network, challenged, inbox, source, actor, setup, shard, runtime, accepts, sockets,
                   caller_of, owned, listening, closer>>

(* attach_runtime and promote_setup_connection: the connection takes over  *)
(* the route, and what the setup inbox still held, unless the peer has a   *)
(* connection registered, or the response cannot be sent.                  *)
AttachRuntime ==
    /\ At("attach")
    /\ \/ /\ Registered(setup.caller) = {}
          /\ sockets' = [sockets EXCEPT ![setup.handle] = "connected"]
          /\ setup' = [setup EXCEPT !.route = FALSE, !.inbox = <<>>]
          /\ worker' = [worker EXCEPT !.at = "finish", !.connected = TRUE]
       \/ Goto("finish") /\ UNCHANGED <<sockets, setup>>
    /\ UNCHANGED <<Network, challenged, inbox, source, actor, shard, runtime, accepts,
                   caller_of, owned, listening, closer>>

(* ListenerConnectionSetupActor::complete_result: arming the retry timer   *)
(* drops an expiry of the previous one that is still queued.               *)
NotRetry(event) == event # "retry"
CompleteResult ==
    /\ At("complete_result")
    /\ IF setup.terminal \/ ~setup.result_pending
       THEN Goto("finish") /\ UNCHANGED setup
       ELSE /\ setup' = [setup EXCEPT !.result_pending = FALSE, !.acknowledge = FALSE, !.retry = FALSE,
                            !.retry_armed = @ \/ setup.retry,
                            !.events = IF setup.retry THEN SelectSeq(@, NotRetry) ELSE @,
                            !.inbox_pending = @ /\ ~setup.acknowledge]
            /\ Goto(IF setup.acknowledge THEN "result_recheck" ELSE "rerun")
    /\ UNCHANGED <<Network, challenged, inbox, source, actor, shard, runtime, accepts, sockets,
                   caller_of, owned, listening, closer>>

ResultRecheck ==
    /\ At("result_recheck")
    /\ IF setup.inbox # <<>>
       THEN setup' = SetupRequestInbox(setup) /\ Submit(SetupInboxTasks(setup))
       ELSE UNCHANGED <<setup, shard>>
    /\ Goto("rerun")
    /\ UNCHANGED <<Network, challenged, inbox, source, actor, runtime, accepts, sockets,
                   caller_of, owned, listening, closer>>

RerunSetup ==
    /\ At("rerun")
    /\ setup' = SetupRequestRun(setup)
    /\ Submit(SetupRunTasks(setup))
    /\ Goto(IF setup.terminal THEN "finish" ELSE "setup")
    /\ UNCHANGED <<Network, challenged, inbox, source, actor, runtime, accepts, sockets,
                   caller_of, owned, listening, closer>>

(* finish_setup_context. *)
FinishSetupContext ==
    /\ At("finish")
    /\ setup' = ClosedSetup([setup EXCEPT !.handler = FALSE])
    /\ Submit(ClosedSetupTasks(setup))
    /\ Goto("finishing")
    /\ UNCHANGED <<Network, challenged, inbox, source, actor, runtime, accepts, sockets,
                   caller_of, owned, listening, closer>>

ReleaseSetupContext ==
    /\ At("finishing") /\ setup.terminal
    /\ IF runtime.setup # setup.handle
       THEN Goto("finish_consumer") /\ UNCHANGED <<runtime, setup, sockets>>
       ELSE /\ runtime' = [runtime EXCEPT !.setup = NoHandle]
            /\ setup' = [setup EXCEPT !.route = FALSE]
            /\ sockets' = IF worker.connected THEN sockets
                          ELSE [sockets EXCEPT ![setup.handle] = "closed"]
            /\ worker' = [worker EXCEPT !.at = IF runtime.closed THEN "drop" ELSE "resume",
                                        !.then = "publish"]
    /\ UNCHANGED <<Network, challenged, inbox, source, actor, shard, accepts, caller_of, owned,
                   listening, closer>>

(* The listener ended meanwhile: a connected socket is closed again. *)
DropAccepted ==
    /\ At("drop")
    /\ sockets' = [sockets EXCEPT ![setup.handle] = "closed"]
    /\ DropSetup
    /\ Goto("finish_consumer")
    /\ UNCHANGED <<Network, challenged, inbox, source, actor, shard, runtime, caller_of, owned,
                   listening, closer>>

(* Mutant: a closed queue keeps the reservation. *)
PublishedKeeping(q, h) ==
    IF q.closed THEN q ELSE [Release(q) EXCEPT !.entries = Append(@, h)]
(* ListenerAcceptQueue::publish gives the reservation back in every case.  *)
Published(q, h) ==
    IF q.closed THEN Release(q) ELSE [Release(q) EXCEPT !.entries = Append(@, h)]
PublishAccepted ==
    /\ At("publish")
    /\ setup' = NoSetup
    /\ accepts' = IF worker.connected THEN Published(accepts, setup.handle) ELSE Release(accepts)
    /\ sockets' = IF worker.connected /\ accepts.closed
                  THEN [sockets EXCEPT ![setup.handle] = "closed"] ELSE sockets
    /\ Goto(IF worker.connected /\ accepts.closed THEN "finish_consumer" ELSE "end")
    /\ UNCHANGED <<Network, challenged, inbox, source, actor, shard, runtime, caller_of, owned,
                   listening, closer>>

(* finish_result_consumer; abandon_setup_context stops a setup still there. *)
FinishResultConsumer ==
    /\ At("finish_consumer")
    /\ runtime' = [runtime EXCEPT !.closed = TRUE, !.setup = NoHandle]
    /\ actor' = [actor EXCEPT !.handler = FALSE]
    /\ IF runtime.setup = NoHandle
       THEN Goto("close_accepts") /\ UNCHANGED <<setup, shard>>
       ELSE /\ setup' = ClosedSetup([setup EXCEPT !.handler = FALSE])
            /\ Submit(ClosedSetupTasks(setup))
            /\ Goto("abandon_context")
    /\ UNCHANGED <<Network, challenged, inbox, source, accepts, sockets, caller_of, owned,
                   listening, closer>>

AbandonSetupContext ==
    /\ At("abandon_context") /\ setup.terminal
    /\ sockets' = [sockets EXCEPT ![setup.handle] = "closed"]
    /\ DropSetup
    /\ Goto("close_accepts")
    /\ UNCHANGED <<Network, challenged, inbox, source, actor, shard, runtime, caller_of, owned,
                   listening, closer>>

CloseAccepts ==
    /\ At("close_accepts")
    /\ accepts' = [accepts EXCEPT !.closed = TRUE]
    /\ Goto("end")
    /\ UNCHANGED <<Network, challenged, inbox, source, actor, setup, shard, runtime, sockets,
                   caller_of, owned, listening, closer>>

(* The end of drain_results: a request that came in is served first. *)
EndDraining ==
    /\ At("end")
    /\ IF ~runtime.closed /\ runtime.pending
       THEN Goto("again") /\ UNCHANGED runtime
       ELSE /\ runtime' = [runtime EXCEPT !.active = FALSE, !.scheduled = FALSE, !.pending = FALSE]
            /\ Goto("idle")
    /\ UNCHANGED <<Network, challenged, inbox, source, actor, setup, shard, accepts, sockets,
                   caller_of, owned, listening, closer>>

-----------------------------------------------------------------------------
(* The application: accept_socket, and srt_close of an accepted socket,    *)
(* which first closes the connection and then removes its routes.          *)

(* Mutant: the entry is read and left in the queue. *)
AcceptSocketPeeking ==
    /\ accepts.entries # <<>>
    /\ owned' = owned \cup {Head(accepts.entries)}
    /\ UNCHANGED <<Network, challenged, inbox, source, actor, setup, shard, runtime, worker, accepts,
                   sockets, caller_of, listening, closer>>
AcceptSocket ==
    /\ accepts.entries # <<>>
    /\ owned' = owned \cup {Head(accepts.entries)}
    /\ accepts' = [accepts EXCEPT !.entries = Tail(@)]
    /\ UNCHANGED <<Network, challenged, inbox, source, actor, setup, shard, runtime, worker, sockets,
                   caller_of, listening, closer>>

CloseSocket(h) ==
    /\ h \in owned /\ sockets[h] \in {"connected", "closing"}
    /\ sockets' = [sockets EXCEPT ![h] = IF @ = "connected" THEN "closing" ELSE "closed"]
    /\ UNCHANGED <<Network, challenged, inbox, source, actor, setup, shard, runtime, worker, accepts,
                   caller_of, owned, listening, closer>>

-----------------------------------------------------------------------------
(* srt_close of the listener: shutdown_record, then ListenerRuntime::close. *)

Closer(at, next) == closer.at = at /\ closer' = [closer EXCEPT !.at = next]

CloseListener ==
    /\ Closer("idle", "inbox")
    /\ listening' = FALSE
    /\ UNCHANGED <<Network, challenged, inbox, source, actor, setup, shard, runtime, worker, accepts,
                   sockets, caller_of, owned>>

CloseListenerInbox ==
    /\ Closer("inbox", "runtime")
    /\ inbox' = [inbox EXCEPT !.closed = TRUE]
    /\ source' = RequestInbox(source)
    /\ Submit(InboxTasks(source))
    /\ UNCHANGED <<Network, challenged, actor, setup, runtime, worker, accepts, sockets, caller_of,
                   owned, listening>>

CloseRuntime ==
    /\ closer.at = "runtime"
    /\ closer' = [at |-> "actor", setup |-> runtime.setup]
    /\ runtime' = [runtime EXCEPT !.closed = TRUE]
    /\ UNCHANGED <<Network, challenged, inbox, source, actor, setup, shard, worker, accepts, sockets,
                   caller_of, owned, listening>>

CloseHandshakeActor ==
    /\ Closer("actor", "setup")
    /\ actor' = RequestRun([actor EXCEPT !.handler = FALSE, !.close_requested = TRUE])
    /\ Submit(RunTasks(actor))
    /\ UNCHANGED <<Network, challenged, inbox, source, setup, runtime, worker, accepts, sockets,
                   caller_of, owned, listening>>

(* The context the closing thread holds; it may have been finished since.  *)
HeldByCloser == closer.setup # NoHandle /\ setup.handle = closer.setup

CloseSetupActor ==
    /\ Closer("setup", "accepts")
    /\ IF HeldByCloser
       THEN setup' = ClosedSetup(setup) /\ Submit(ClosedSetupTasks(setup))
       ELSE UNCHANGED <<setup, shard>>
    /\ UNCHANGED <<Network, challenged, inbox, source, actor, runtime, worker, accepts, sockets,
                   caller_of, owned, listening>>

CloseAcceptQueue ==
    /\ Closer("accepts", "wait")
    /\ accepts' = [accepts EXCEPT !.closed = TRUE]
    /\ UNCHANGED <<Network, challenged, inbox, source, actor, setup, shard, runtime, worker, sockets,
                   caller_of, owned, listening>>

AwaitResultIdle ==
    /\ Closer("wait", "stop") /\ ~runtime.active
    /\ UNCHANGED <<Network, challenged, inbox, source, actor, setup, shard, runtime, worker, accepts,
                   sockets, caller_of, owned, listening>>

StopActors ==
    /\ Closer("stop", "drain")
    /\ actor.terminal /\ (HeldByCloser => setup.terminal)
    /\ runtime' = [runtime EXCEPT !.setup = IF @ = closer.setup THEN NoHandle ELSE @]
    /\ sockets' = IF closer.setup = NoHandle THEN sockets
                  ELSE [sockets EXCEPT ![closer.setup] = "closed"]
    /\ IF HeldByCloser THEN DropSetup ELSE UNCHANGED <<setup, accepts>>
    /\ UNCHANGED <<Network, challenged, inbox, source, actor, shard, worker, caller_of, owned, listening>>

DrainAccepts ==
    /\ IF accepts.entries = <<>>
       THEN Closer("drain", "done") /\ UNCHANGED <<accepts, sockets>>
       ELSE /\ Closer("drain", "drain")
            /\ sockets' = [sockets EXCEPT ![Head(accepts.entries)] = "closed"]
            /\ accepts' = [accepts EXCEPT !.entries = Tail(@)]
    /\ UNCHANGED <<Network, challenged, inbox, source, actor, setup, shard, runtime, worker,
                   caller_of, owned, listening>>

-----------------------------------------------------------------------------
NetworkThread == (\E p \in Packet : Arrive(p)) \/ PushListener \/ PushSetup
Shard ==
    \/ PublishInbox \/ RunActor \/ DrainNothing \/ ProcessInbox \/ ProcessClosedInbox
    \/ AcknowledgeInbox \/ RecheckInbox
    \/ DropStaleTask \/ SetupPublishInbox \/ RunSetup \/ CloseSetup \/ InitializeSetup
    \/ SetupTail \/ ProcessSetupEvent \/ SetupAcknowledgeInbox \/ SetupRecheckInbox
Timer == \E event \in {"retry", "overall"} : SetupTimer(event)
Worker ==
    \/ StartDraining \/ PopResult \/ PopNothing \/ ReplayEstablished \/ ReserveAccept
    \/ ListenCallback \/ RegisterSetupInbox \/ ExtractMatching \/ InstallSetup
    \/ StartSetupSource \/ StartSetupTimer \/ StartSetupRun \/ AbandonStart \/ AbandonedStart
    \/ CompleteAdmission \/ ResumeAcknowledge \/ ResumeRecheck \/ Resumed
    \/ PopSetupResult \/ PopSetupNothing \/ AttachRuntime \/ CompleteResult \/ ResultRecheck
    \/ RerunSetup \/ FinishSetupContext \/ ReleaseSetupContext \/ DropAccepted
    \/ PublishAccepted \/ FinishResultConsumer \/ AbandonSetupContext \/ CloseAccepts
    \/ EndDraining
Application == AcceptSocket \/ \E h \in Handles : CloseSocket(h)
ClosingThread ==
    \/ CloseListenerInbox \/ CloseRuntime \/ CloseHandshakeActor \/ CloseSetupActor
    \/ CloseAcceptQueue \/ AwaitResultIdle \/ StopActors \/ DrainAccepts

Next == NetworkThread \/ Shard \/ Timer \/ Worker \/ Application \/ CloseListener \/ ClosingThread

Spec == Init /\ [][Next]_vars

-----------------------------------------------------------------------------
(* The accept queue's reservations are exactly those setups hold, and with *)
(* the queued sockets they never exceed the backlog, whatever order setup, *)
(* publication, abandonment and close take (Reservation::acquire, release  *)
(* and ListenerAcceptQueue::publish).                                      *)
ReservationsBalanced ==
    /\ accepts.reserved = IF setup.reserved THEN 1 ELSE 0
    /\ accepts.reserved + Len(accepts.entries) <= AcceptCapacity

(* No lost wake-up: when no thread has anything left to do and no timer is *)
(* armed, an open listener has no datagram waiting in its inbox, no result *)
(* waiting for drain_results and no admission that nobody will complete.   *)
Quiescent ==
    /\ network.to = "idle" /\ shard = [tasks |-> <<>>, at |-> "idle"]
    /\ worker.at = "idle" /\ ~worker.queued
    /\ ~setup.retry_armed /\ ~setup.overall_armed
NoStall ==
    Quiescent /\ ~runtime.closed =>
        /\ inbox.queue = <<>> /\ ~inbox.closed
        /\ actor.results = <<>> /\ ~actor.admission_pending
        /\ runtime.setup = NoHandle /\ ~setup.reserved

(* However often a conclusion is repeated, and wherever dispatch had sent  *)
(* the copy before the setup took its route, a caller without session      *)
(* authentication never has a second socket while it has a connected one   *)
(* (the recheck in process_result).                                        *)
OneSocketPerCaller ==
    authenticated \/
    \A g, h \in Handles :
        /\ caller_of[g] = caller_of[h] /\ g # h /\ sockets[g] = "connected"
        => sockets[h] \notin {"connecting", "connected"}

(* When close() of the listener returns, every socket the listener made is *)
(* closed or was returned by srt_accept, and no reservation is left.       *)
NothingLeaked ==
    closer.at = "done" /\ worker.at = "idle" =>
        /\ accepts.reserved = 0 /\ accepts.entries = <<>>
        /\ \A h \in Handles : sockets[h] \in {"free", "closed"} \/ h \in owned

(* A socket srt_accept returned is closed by nobody but the application:   *)
(* not by close() emptying the accept queue, nor by a setup it abandons.   *)
OwnedStaysOpen ==
    \A h \in owned : sockets[h] = "connected" => sockets'[h] \in {"connected", "closing"}

(* close() of the listener is never left waiting, for the executor or for  *)
(* an actor, with no thread and no timer able to move (without session     *)
(* authentication; see SetupCloseNotStuck).                                *)
CloseNotStuck ==
    ~authenticated /\ closer.at \notin {"idle", "done"} =>
        ENABLED (Shard \/ Timer \/ Worker \/ ClosingThread)

(* The same with session authentication: a close request that reaches the  *)
(* setup actor while it publishes a running result must still end it.      *)
SetupCloseNotStuck ==
    closer.at \notin {"idle", "done"} => ENABLED (Shard \/ Timer \/ Worker \/ ClosingThread)

(* A setup that reached its result before start() returned is reported as  *)
(* started, not discarded (the comment in start()).                        *)
CompletedSetupKept ==
    At("start_run") /\ worker'.at = "abandon" => setup.result # "connected"

=============================================================================
