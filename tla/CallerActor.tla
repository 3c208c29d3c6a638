----------------------------- MODULE CallerActor -----------------------------
(***************************************************************************)
(* srt_connect of a caller and the machinery that carries it to its end:   *)
(* connect_socket on the application thread, AsyncCallerHandshakeActor and *)
(* CallerHandshakeEventSource on a scheduler shard, the receive thread     *)
(* that fills the setup inbox, the worker reserved for the connect         *)
(* callback, and srt_close from another thread or from inside the          *)
(* callback.  What the peer says (Handshake models that) is an input here: *)
(* a datagram carries only the verdict it leads the caller to.             *)
(*                                                                         *)
(* Every lock-protected section is one action; submissions to the          *)
(* scheduler may be refused at any time, because other connections share   *)
(* its bounded queues.                                                     *)
(***************************************************************************)
EXTENDS Naturals, Sequences, SequencesExt

CONSTANTS MaxDatagrams, \* setup datagrams that arrive in a behaviour
          MaxArms,      \* retry timers armed before the retry budget is spent
          EventRing     \* slots of CallerHandshakeEventSource::events_

VARIABLES mode,     \* how the application set the socket up: async, callback
          sock,     \* the SocketRecord: state, error, operation, runtime
          act,      \* the actor's flags, guarded by its state_mutex_
          src,      \* the event source, guarded by its mutex_
          inbox,    \* the setup DatagramInbox and its route
          timers,   \* timers of the source the scheduler holds
          queue,    \* tasks submitted to the shard of this socket
          rejection,\* the reason CallerRejectionCompletion holds back, or "none"
          connect, shard, worker, closing, failing, \* where each thread is
          calls,    \* error codes the connect callback was invoked with
          arrivals  \* datagrams that arrived so far

actor == <<act, src, inbox, timers, queue, rejection>>
threads == <<connect, shard, worker, closing, failing>>
vars == <<mode, sock, actor, threads, calls, arrivals>>

\* Verdicts a setup datagram leads to: a datagram of another peer or an
\* undecodable one; the protocol goes on; the peer agrees; the peer rejects;
\* a local policy rejects the peer; a local step fails.
Messages == {"noise", "running", "agreed", "rejected", "policy", "failed"}
Errors == {"none", "success", "peer", "policy", "local", "closed", "timeout"}
Closers == {"app", "callback"}
Threads == Closers \cup {"shard", "recv"}
Timer(kind, generation) == [kind |-> kind, generation |-> generation]

Closed(s) == s.state \in {"CLOSING", "CLOSED"}

Init ==
  /\ mode \in [async : BOOLEAN, callback : BOOLEAN]
  /\ sock = [state |-> "OPENED", error |-> "none", op |-> FALSE, runtime |-> "none"]
  /\ act = [started |-> FALSE, pending |-> FALSE, scheduled |-> FALSE,
            initialized |-> FALSE, close_requested |-> FALSE,
            finishing |-> FALSE, completed |-> FALSE,
            reserved |-> FALSE, ready |-> FALSE, error |-> "none"]
  /\ src = [started |-> FALSE, stopped |-> FALSE, completing |-> FALSE,
            inbox_pending |-> FALSE, failed |-> FALSE,
            events |-> <<>>, generation |-> 0]
  /\ inbox = [q |-> <<>>, route |-> FALSE, handler |-> FALSE]
  /\ timers = {}
  /\ queue = <<>>
  /\ rejection = "none"
  /\ connect = "idle" /\ shard = "idle" /\ worker = "none"
  /\ closing = [c \in Closers |-> "idle"]
  /\ failing = [t \in Threads |-> "no"]
  /\ calls = <<>>
  /\ arrivals = 0

-----------------------------------------------------------------------------
(***************************************************************************)
(* fail_connect: nothing changes once the socket is closing, and the       *)
(* connect then fails with ESCLOSED whatever went wrong.                   *)
(***************************************************************************)
fail_connect(s, error) ==
  IF Closed(s) THEN s ELSE [s EXCEPT !.state = "BROKEN", !.error = error]

last_error(s, error) == IF Closed(s) THEN "closed" ELSE error

(* Mutant: request_run leaves no mark for the run in progress.             *)
request_run_unmarked(t) ==
  IF act.completed \/ act.finishing \/ act.scheduled
  THEN UNCHANGED <<act, queue, failing>>
  ELSE /\ act' = [act EXCEPT !.pending = TRUE, !.scheduled = TRUE]
       /\ \/ queue' = Append(queue, "run") /\ UNCHANGED failing
          \/ failing' = [failing EXCEPT ![t] = "refused"] /\ UNCHANGED queue

(***************************************************************************)
(* AsyncCallerHandshakeActor::request_run on thread t: a run in progress   *)
(* is only marked, an idle actor is submitted to its shard, and a refused  *)
(* submission sends t to handle_submission_failure.                        *)
(***************************************************************************)
request_run(t) ==
  IF act.completed \/ act.finishing
  THEN UNCHANGED <<act, queue, failing>>
  ELSE IF act.scheduled
  THEN act' = [act EXCEPT !.pending = TRUE] /\ UNCHANGED <<queue, failing>>
  ELSE /\ act' = [act EXCEPT !.pending = TRUE, !.scheduled = TRUE]
       /\ \/ queue' = Append(queue, "run") /\ UNCHANGED failing
          \/ failing' = [failing EXCEPT ![t] = "refused"] /\ UNCHANGED queue

(***************************************************************************)
(* finish: the first caller stops the source, closes the inbox, drops the  *)
(* route and hands the result to the reserved callback worker; without a   *)
(* callback it completes the operation itself.                             *)
(***************************************************************************)
Finish(s, error) ==
  IF act.completed \/ act.finishing
  THEN sock' = s /\ UNCHANGED <<act, src, inbox, timers, rejection>>
  ELSE /\ src' = [src EXCEPT !.stopped = TRUE, !.events = <<>>]
       /\ inbox' = [q |-> <<>>, route |-> FALSE, handler |-> FALSE]
       /\ timers' = {}
       /\ rejection' = "none"
       /\ IF act.reserved
          THEN /\ act' = [act EXCEPT !.finishing = TRUE, !.ready = TRUE, !.error = error]
               /\ sock' = s
          ELSE /\ act' = [act EXCEPT !.completed = TRUE]
               /\ sock' = [s EXCEPT !.op = FALSE]

FinishFailed(error) == Finish(fail_connect(sock, error), last_error(sock, error))

(***************************************************************************)
(* CallerHandshakeEventSource::enqueue: only the completion timer passes   *)
(* while a peer rejection is held back; a full ring becomes a failure.     *)
(***************************************************************************)
enqueue(event) ==
  IF src.stopped \/ (src.completing /\ event.kind # "completion_timer")
  THEN src
  ELSE IF Len(src.events) = EventRing
  THEN [src EXCEPT !.failed = TRUE, !.events = <<>>]
  ELSE [src EXCEPT !.events = Append(@, event)]

\* notify_event_ready after enqueue, on the shard; finish cleared the handler.
Publish(event) ==
  /\ src' = enqueue(event)
  /\ IF src.stopped THEN UNCHANGED <<act, queue, failing>> ELSE request_run("shard")

(***************************************************************************)
(* request_inbox on thread t: at most one publication is pending; a        *)
(* refused submission becomes the source's failure and wakes the actor.    *)
(***************************************************************************)
request_inbox(s, t) ==
  IF s.stopped \/ s.completing \/ s.inbox_pending
  THEN src' = s /\ UNCHANGED <<act, queue, failing>>
  ELSE \/ /\ src' = [s EXCEPT !.inbox_pending = TRUE]
          /\ queue' = Append(queue, "inbox")
          /\ UNCHANGED <<act, failing>>
       \/ /\ src' = [s EXCEPT !.failed = TRUE, !.events = <<>>]
          /\ request_run(t)

\* Popping skips timer events of an older generation (try_pop).
Stale(event) == /\ event.kind \in {"retry_timer", "completion_timer"}
                /\ event.generation # src.generation
FirstEvent == SelectInSeq(src.events, LAMBDA event : ~Stale(event))

-----------------------------------------------------------------------------
(* The application thread: connect_socket.                                 *)

\* The socket is OPENED; it becomes CONNECTING and its error is reset.
ConnectBegin ==
  /\ connect = "idle"
  /\ IF sock.state = "OPENED"
     THEN sock' = [sock EXCEPT !.state = "CONNECTING", !.error = "none"] /\ connect' = "setup"
     ELSE connect' = "done" /\ UNCHANGED sock
  /\ UNCHANGED <<mode, actor, shard, worker, closing, failing, calls, arrivals>>

\* Creating the key material, the scheduler or the actor may fail.
ConnectSetupFails ==
  /\ connect \in {"setup", "start_refused"}
  /\ sock' = fail_connect(sock, "local")
  /\ connect' = "done"
  /\ UNCHANGED <<mode, actor, shard, worker, closing, failing, calls, arrivals>>

(* Mutant: the actor is marked as scheduled and never submitted. *)
ConnectStartUnsubmitted ==
  /\ connect = "setup" /\ mode.async
  /\ IF Closed(sock)
     THEN connect' = "done" /\ UNCHANGED <<sock, act, queue, worker>>
     ELSE \/ /\ act' = [act EXCEPT !.started = TRUE, !.pending = TRUE,
                          !.scheduled = TRUE, !.reserved = mode.callback]
             /\ worker' = IF mode.callback THEN "awaiting" ELSE worker
             /\ sock' = [sock EXCEPT !.op = TRUE]
             /\ connect' = "done"
             /\ UNCHANGED queue
          \/ /\ act' = [act EXCEPT !.completed = TRUE, !.reserved = mode.callback]
             /\ \E reserved \in {FALSE, mode.callback} :
                  worker' = IF reserved THEN "awaiting" ELSE worker
             /\ connect' = "start_refused"
             /\ UNCHANGED <<sock, queue>>
  /\ UNCHANGED <<mode, src, inbox, timers, rejection, shard, closing, failing, calls, arrivals>>

\* Under the socket mutex the actor is published and started: a worker is
\* reserved for the callback, then the first run is submitted.
ConnectStart ==
  /\ connect = "setup" /\ mode.async
  /\ IF Closed(sock)
     THEN connect' = "done" /\ UNCHANGED <<sock, act, queue, worker>>
     ELSE \/ /\ act' = [act EXCEPT !.started = TRUE, !.pending = TRUE,
                          !.scheduled = TRUE, !.reserved = mode.callback]
             /\ queue' = Append(queue, "run")
             /\ worker' = IF mode.callback THEN "awaiting" ELSE worker
             /\ sock' = [sock EXCEPT !.op = TRUE]
             /\ connect' = "done"
          \/ /\ act' = [act EXCEPT !.completed = TRUE, !.reserved = mode.callback]
             /\ \E reserved \in {FALSE, mode.callback} :
                  worker' = IF reserved THEN "awaiting" ELSE worker
             /\ connect' = "start_refused"
             /\ UNCHANGED <<sock, queue>>
  /\ UNCHANGED <<mode, src, inbox, timers, rejection, shard, closing, failing, calls, arrivals>>

(* run_caller_handshake: the same steps on the application's own thread.   *)

SyncBegin ==
  /\ connect = "setup" /\ ~mode.async
  /\ inbox' = [inbox EXCEPT !.route = TRUE]
  /\ connect' = "loop"
  /\ UNCHANGED <<mode, sock, act, src, timers, queue, rejection, shard, worker,
                 closing, failing, calls, arrivals>>

\* The route guard withdraws the inbox whichever way the loop ends.
SyncReturn(s) ==
  /\ sock' = s
  /\ inbox' = [inbox EXCEPT !.route = FALSE]
  /\ connect' = "done"
  /\ UNCHANGED src

SyncStep ==
  /\ connect = "loop"
  /\ \/ Closed(sock) /\ SyncReturn(sock)
     \/ SyncReturn(fail_connect(sock, "timeout"))
     \/ /\ src.generation < MaxArms
        /\ src' = [src EXCEPT !.generation = @ + 1]
        /\ UNCHANGED <<sock, inbox, connect>>
     \/ /\ inbox.q # <<>>
        /\ CASE Head(inbox.q) \in {"noise", "running"} ->
                  inbox' = [inbox EXCEPT !.q = Tail(@)] /\ UNCHANGED <<sock, src, connect>>
             [] Head(inbox.q) = "agreed" ->
                  IF Closed(sock) THEN SyncReturn(sock)
                  ELSE /\ inbox' = [inbox EXCEPT !.q = Tail(@)]
                       /\ connect' = "attach"
                       /\ UNCHANGED <<sock, src>>
             [] Head(inbox.q) = "rejected" -> SyncReturn(fail_connect(sock, "peer"))
             [] Head(inbox.q) = "policy" -> SyncReturn(fail_connect(sock, "policy"))
             [] Head(inbox.q) = "failed" -> SyncReturn(fail_connect(sock, "local"))
  /\ UNCHANGED <<mode, act, timers, queue, rejection, shard, worker, closing,
                 failing, calls, arrivals>>

(* Mutant: the runtime is installed without looking at the socket's state. *)
attach_runtime_unchecked(s) == [s EXCEPT !.runtime = "installed"]

(***************************************************************************)
(* attach_runtime takes the setup inbox over, then installs the runtime    *)
(* under the socket mutex unless the socket is closing; publish_connection *)
(* turns CONNECTING into CONNECTED only after that.                        *)
(***************************************************************************)
attach_runtime(s) == IF Closed(s) THEN s ELSE [s EXCEPT !.runtime = "installed"]

publish_connected_state(s) ==
  IF Closed(s) THEN s ELSE [s EXCEPT !.state = "CONNECTED", !.error = "none"]

SyncAttach ==
  /\ connect = "attach"
  /\ \/ /\ sock' = attach_runtime(sock)
        /\ connect' = IF sock' = sock THEN "done" ELSE "publish"
     \/ sock' = fail_connect(sock, "local") /\ connect' = "done"
  /\ inbox' = [inbox EXCEPT !.route = FALSE]
  /\ UNCHANGED <<mode, act, src, timers, queue, rejection, shard, worker,
                 closing, failing, calls, arrivals>>

SyncPublish ==
  /\ connect = "publish"
  /\ \/ sock' = publish_connected_state(sock)
     \/ sock' = fail_connect(sock, "local")
  /\ connect' = "done"
  /\ UNCHANGED <<mode, actor, shard, worker, closing, failing, calls, arrivals>>

-----------------------------------------------------------------------------
(* The receive thread: DatagramInbox::push through the setup route.        *)

Arrive(m) ==
  /\ arrivals < MaxDatagrams
  /\ arrivals' = arrivals + 1
  /\ inbox.route /\ failing["recv"] = "no"
  /\ inbox' = [inbox EXCEPT !.q = Append(@, m)]
  /\ IF inbox.q = <<>> /\ inbox.handler
     THEN request_inbox(src, "recv")
     ELSE UNCHANGED <<src, act, queue, failing>>
  /\ UNCHANGED <<mode, sock, timers, rejection, connect, shard, worker, closing, calls>>

-----------------------------------------------------------------------------
(* The shard: one task or one timer at a time, in order of submission.     *)

ShardFree == shard = "idle" /\ failing["shard"] = "no"

\* publish_inbox_ready, or the start of AsyncCallerHandshakeActor::run.
ShardTask ==
  /\ ShardFree /\ queue # <<>>
  /\ IF Head(queue) = "run"
     THEN /\ shard' = "top" /\ queue' = Tail(queue)
          /\ UNCHANGED <<act, src, failing>>
     ELSE /\ src' = enqueue(Timer("inbox_ready", 0))
          /\ IF src.stopped \/ act.completed \/ act.finishing
             THEN queue' = Tail(queue) /\ UNCHANGED <<act, failing>>
             ELSE /\ act' = [act EXCEPT !.pending = TRUE, !.scheduled = TRUE]
                  /\ IF act.scheduled THEN queue' = Tail(queue) /\ UNCHANGED failing
                     ELSE \/ queue' = Append(Tail(queue), "run") /\ UNCHANGED failing
                          \/ /\ queue' = Tail(queue)
                             /\ failing' = [failing EXCEPT !["shard"] = "refused"]
          /\ UNCHANGED shard
  /\ UNCHANGED <<mode, sock, inbox, timers, rejection, connect, worker, closing, calls, arrivals>>

\* publish_timer.
FireTimer(t) ==
  /\ ShardFree /\ t \in timers
  /\ timers' = timers \ {t}
  /\ Publish(t)
  /\ UNCHANGED <<mode, sock, inbox, rejection, connect, shard, worker, closing, calls, arrivals>>

RunTop ==
  /\ shard = "top"
  /\ act' = [act EXCEPT !.pending = FALSE]
  /\ shard' = IF act.close_requested THEN "close"
              ELSE IF act.initialized THEN "drain" ELSE "init"
  /\ UNCHANGED <<mode, sock, src, inbox, timers, queue, rejection, connect, worker,
                 closing, failing, calls, arrivals>>

RunClose ==
  /\ shard = "close"
  /\ FinishFailed("closed")
  /\ shard' = "tail"
  /\ UNCHANGED <<mode, queue, connect, worker, closing, failing, calls, arrivals>>

\* initialize: route, source, overall timer, induction, retry timer; each
\* may fail, and a socket closed meanwhile is not opened again.
Initialize ==
  /\ shard = "init"
  /\ shard' = "tail"
  /\ \/ FinishFailed("local")
     \/ /\ ~Closed(sock)
        /\ act' = [act EXCEPT !.initialized = TRUE]
        /\ src' = [src EXCEPT !.started = TRUE, !.generation = 1]
        /\ inbox' = [inbox EXCEPT !.route = TRUE, !.handler = TRUE]
        /\ timers' = {Timer("overall_timeout", 0), Timer("retry_timer", 1)}
        /\ UNCHANGED <<sock, rejection>>
  /\ UNCHANGED <<mode, queue, connect, worker, closing, failing, calls, arrivals>>

(***************************************************************************)
(* defer_peer_rejection and complete_peer_rejection: a rejection recorded  *)
(* before connect_start + 10 ms waits for the completion timer, which      *)
(* fires at that instant, and until then the source delivers nothing else. *)
(* Whether the instant has passed already is the choice between the first  *)
(* disjunct and the others.                                                *)
(***************************************************************************)
CompleteRejection(reason, i) ==
  \/ FinishFailed(reason)
  \/ /\ rejection' = reason
     /\ src' = [src EXCEPT !.completing = TRUE, !.events = <<>>,
                  !.inbox_pending = FALSE, !.generation = @ + 1]
     /\ inbox' = [i EXCEPT !.handler = FALSE]
     /\ timers' = {Timer("completion_timer", src.generation + 1)}
     /\ UNCHANGED <<sock, act>>
  \/ FinishFailed("local")

\* arm_retry: the previous timer is cancelled and a new generation armed.
ArmRetry(s, ts) ==
  /\ src' = [s EXCEPT !.generation = @ + 1]
  /\ timers' = {t \in ts : t.kind = "overall_timeout"}
                 \cup {Timer("retry_timer", s.generation + 1)}

\* process_inbox for the datagram at the head of the inbox, or for none.
ProcessInbox(popped) ==
  IF inbox.q = <<>>
  THEN /\ src' = [popped EXCEPT !.inbox_pending = FALSE]
       /\ shard' = shard
       /\ UNCHANGED <<sock, act, inbox, timers, queue, rejection, failing>>
  ELSE LET m == Head(inbox.q)
           rest == [inbox EXCEPT !.q = Tail(@)]
           acknowledged == [popped EXCEPT !.inbox_pending = FALSE]
       IN  \/ /\ m \in {"noise", "running"}
              /\ inbox' = rest
              /\ IF rest.q = <<>>
                 THEN src' = acknowledged /\ UNCHANGED <<act, queue, failing>>
                 ELSE request_inbox(acknowledged, "shard")
              /\ UNCHANGED <<sock, timers, rejection, shard>>
           \/ /\ m = "running" /\ src.generation < MaxArms /\ rest.q = <<>>
              /\ inbox' = rest
              /\ ArmRetry(acknowledged, timers)
              /\ UNCHANGED <<sock, act, queue, rejection, failing, shard>>
           \/ /\ m \in {"running", "agreed", "rejected"} \* the deadline passed
              /\ FinishFailed("timeout")
              /\ shard' = "tail" /\ UNCHANGED <<queue, failing>>
           \/ /\ m = "agreed"
              /\ IF Closed(sock)
                 THEN Finish(sock, "closed") /\ shard' = "tail"
                 ELSE /\ shard' = "attach" /\ inbox' = rest /\ src' = acknowledged
                      /\ UNCHANGED <<sock, act, timers, rejection>>
              /\ UNCHANGED <<queue, failing>>
           \/ /\ m \in {"rejected", "policy"}
              /\ CompleteRejection(IF m = "rejected" THEN "peer" ELSE m, rest)
              /\ shard' = "tail" /\ UNCHANGED <<queue, failing>>
           \/ /\ m = "failed"
              /\ FinishFailed("local")
              /\ shard' = "tail" /\ UNCHANGED <<queue, failing>>

\* drain_events: a failure comes first, then the events in order.
DrainEvent ==
  /\ shard = "drain"
  /\ IF src.failed
     THEN FinishFailed("local") /\ shard' = "tail" /\ UNCHANGED <<queue, failing>>
     ELSE IF FirstEvent = 0 \/ src.stopped
     THEN /\ shard' = "tail"
          /\ src' = [src EXCEPT !.events = <<>>]
          /\ UNCHANGED <<sock, act, inbox, timers, queue, rejection, failing>>
     ELSE LET event == src.events[FirstEvent]
              popped == [src EXCEPT !.events = SubSeq(@, FirstEvent + 1, Len(@))]
          IN  CASE event.kind = "overall_timeout" ->
                     FinishFailed("timeout") /\ shard' = "tail" /\ UNCHANGED <<queue, failing>>
                [] event.kind = "completion_timer" ->
                     FinishFailed(rejection) /\ shard' = "tail" /\ UNCHANGED <<queue, failing>>
                [] event.kind = "retry_timer" ->
                     \/ /\ src.generation < MaxArms
                        /\ ArmRetry(popped, timers)
                        /\ UNCHANGED <<sock, act, inbox, queue, rejection, failing, shard>>
                     \/ FinishFailed("timeout") /\ shard' = "tail" /\ UNCHANGED <<queue, failing>>
                [] event.kind = "inbox_ready" -> ProcessInbox(popped)
  /\ UNCHANGED <<mode, connect, worker, closing, calls, arrivals>>

ShardAttach ==
  /\ shard = "attach"
  /\ \/ IF attach_runtime(sock) = sock
        THEN Finish(sock, "closed") /\ shard' = "tail"
        ELSE /\ sock' = attach_runtime(sock)
             /\ inbox' = [inbox EXCEPT !.route = FALSE, !.q = <<>>]
             /\ shard' = "publish"
             /\ UNCHANGED <<act, src, timers, rejection>>
     \/ FinishFailed("local") /\ shard' = "tail"
  /\ UNCHANGED <<mode, queue, connect, worker, closing, failing, calls, arrivals>>

ShardPublish ==
  /\ shard = "publish"
  /\ \/ Finish(publish_connected_state(sock), "success")
     \/ FinishFailed("local")
  /\ shard' = "tail"
  /\ UNCHANGED <<mode, queue, connect, worker, closing, failing, calls, arrivals>>

RunTail ==
  /\ shard = "tail"
  /\ IF act.completed \/ act.finishing \/ ~act.pending
     THEN shard' = "idle" /\ act' = [act EXCEPT !.scheduled = FALSE]
     ELSE shard' = "top" /\ UNCHANGED act
  /\ UNCHANGED <<mode, sock, src, inbox, timers, queue, rejection, connect, worker,
                 closing, failing, calls, arrivals>>

-----------------------------------------------------------------------------
(* handle_submission_failure on the thread whose submission was refused.   *)

HandleSubmissionFailure(t) ==
  /\ failing[t] = "refused"
  /\ IF act.completed \/ act.finishing
     THEN failing' = [failing EXCEPT ![t] = "no"] /\ UNCHANGED act
     ELSE /\ failing' = [failing EXCEPT ![t] = "finish"]
          /\ act' = [act EXCEPT !.pending = FALSE, !.scheduled = FALSE]
  /\ UNCHANGED <<mode, sock, src, inbox, timers, queue, rejection, connect, shard,
                 worker, closing, calls, arrivals>>

FinishDispatchFailure(t) ==
  /\ failing[t] = "finish"
  /\ FinishFailed("local")
  /\ failing' = [failing EXCEPT ![t] = "no"]
  /\ UNCHANGED <<mode, queue, connect, shard, worker, closing, calls, arrivals>>

-----------------------------------------------------------------------------
(* The reserved worker: await_callback, run_callback.                      *)

(* Mutant: the worker calls back although the start was refused.           *)
AwaitCallbackAnyway ==
  /\ worker = "awaiting"
  /\ act.ready \/ act.completed
  /\ worker' = "calling" /\ calls' = Append(calls, act.error)
  /\ UNCHANGED <<mode, sock, actor, connect, shard, closing, failing, arrivals>>

AwaitCallback ==
  /\ worker = "awaiting"
  /\ act.ready \/ act.completed
  /\ IF act.ready
     THEN worker' = "calling" /\ calls' = Append(calls, act.error)
     ELSE worker' = "none" /\ UNCHANGED calls
  /\ UNCHANGED <<mode, sock, actor, connect, shard, closing, failing, arrivals>>

\* The callback returns once its own srt_close, if any, has returned.
CallbackReturns ==
  /\ worker = "calling" /\ closing["callback"] \in {"idle", "done"}
  /\ worker' = "none"
  /\ sock' = [sock EXCEPT !.op = FALSE]
  /\ act' = [act EXCEPT !.finishing = FALSE, !.completed = TRUE]
  /\ UNCHANGED <<mode, src, inbox, timers, queue, rejection, connect, shard, closing,
                 failing, calls, arrivals>>

-----------------------------------------------------------------------------
(* srt_close: shutdown_record from another thread or inside the callback.  *)

ShutdownBegin(c) ==
  /\ closing[c] = "idle"
  /\ c = "callback" => worker = "calling"
  /\ IF Closed(sock)
     THEN closing' = [closing EXCEPT ![c] = "done"] /\ UNCHANGED sock
     ELSE /\ closing' = [closing EXCEPT ![c] = IF sock.op THEN "close" ELSE "finish"]
          /\ sock' = [sock EXCEPT !.state = "CLOSING", !.op = FALSE,
                        !.runtime = IF @ = "installed" THEN "moved" ELSE @]
  /\ UNCHANGED <<mode, actor, connect, shard, worker, failing, calls, arrivals>>

\* The operation is asked to close before it is waited for.
ShutdownClose(c) ==
  /\ closing[c] = "close"
  /\ closing' = [closing EXCEPT ![c] = "wait"]
  /\ IF act.completed \/ act.finishing
     THEN UNCHANGED <<act, queue, failing>>
     ELSE \/ /\ act.scheduled
             /\ act' = [act EXCEPT !.close_requested = TRUE, !.pending = TRUE]
             /\ UNCHANGED <<queue, failing>>
          \/ /\ ~act.scheduled
             /\ act' = [act EXCEPT !.close_requested = TRUE, !.pending = TRUE, !.scheduled = TRUE]
             /\ \/ queue' = Append(queue, "run") /\ UNCHANGED failing
                \/ failing' = [failing EXCEPT ![c] = "refused"] /\ UNCHANGED queue
  /\ UNCHANGED <<mode, sock, src, inbox, timers, rejection, connect, shard, worker, calls, arrivals>>

\* Inside the callback the operation runs on this very thread: no wait.
ShutdownWait(c) ==
  /\ closing[c] = "wait" /\ failing[c] = "no"
  /\ c = "callback" \/ act.completed
  /\ closing' = [closing EXCEPT ![c] = "finish"]
  /\ UNCHANGED <<mode, sock, actor, connect, shard, worker, failing, calls, arrivals>>

ShutdownFinish(c) ==
  /\ closing[c] = "finish"
  /\ closing' = [closing EXCEPT ![c] = "done"]
  /\ sock' = [sock EXCEPT !.state = "CLOSED",
                !.runtime = IF @ = "moved" THEN "closed" ELSE @]
  /\ UNCHANGED <<mode, actor, connect, shard, worker, failing, calls, arrivals>>

-----------------------------------------------------------------------------
ConnectStep == ConnectBegin \/ ConnectSetupFails \/ ConnectStart \/ SyncBegin
                 \/ SyncStep \/ SyncAttach \/ SyncPublish
ShardStep == ShardTask \/ RunTop \/ RunClose \/ Initialize \/ DrainEvent
               \/ ShardAttach \/ ShardPublish \/ RunTail
WorkerStep == AwaitCallback \/ CallbackReturns
CloseStep(c) == ShutdownClose(c) \/ ShutdownWait(c) \/ ShutdownFinish(c)
FailureStep(t) == HandleSubmissionFailure(t) \/ FinishDispatchFailure(t)

Next == \/ ConnectStep \/ ShardStep \/ WorkerStep
        \/ \E m \in Messages : Arrive(m)
        \/ \E t \in timers : FireTimer(t)
        \/ \E c \in Closers : ShutdownBegin(c) \/ CloseStep(c)
        \/ \E t \in Threads : FailureStep(t)

Fairness == /\ WF_vars(connect # "idle" /\ ConnectStep) /\ WF_vars(ShardStep)
            /\ WF_vars(WorkerStep)
            /\ WF_vars(\E t \in timers : FireTimer(t))
            /\ \A c \in Closers : WF_vars(CloseStep(c))
            /\ \A t \in Threads : WF_vars(FailureStep(t))

Spec == Init /\ [][Next]_vars /\ Fairness

-----------------------------------------------------------------------------
(* The connect callback of an accepted asynchronous connect runs exactly   *)
(* once, before the operation completes, and never for a refused one; it   *)
(* reports success only for a socket whose runtime was installed, and the  *)
(* error it reports is the one a socket left broken keeps                  *)
(* (AsyncCallerHandshakeActor::finish, await_callback, run_callback).      *)
CallbackOnce ==
  /\ Len(calls) <= 1
  /\ act.started /\ act.completed /\ act.reserved => calls # <<>>
  /\ ~act.started => calls = <<>>
  /\ calls # <<>> =>
       /\ calls[1] = "success" => sock.runtime # "none"
       /\ sock.state = "CONNECTED" => calls[1] = "success"
       /\ sock.state = "BROKEN" => calls[1] = sock.error

(* No wake-up is lost: as long as the actor has not ended, a close request *)
(* or a deliverable event of its source finds a run queued, a run in       *)
(* progress that will look again, or a thread about to finish the actor    *)
(* after a refused submission (request_run, run).                          *)
NoLostWakeup ==
  act.started /\ ~act.completed /\ ~act.finishing
    /\ (act.close_requested \/ src.failed \/ FirstEvent # 0) =>
      \/ SelectInSeq(queue, LAMBDA task : task = "run") # 0
      \/ shard \in {"top", "close"}
      \/ act.pending /\ shard # "idle"
      \/ ~act.close_requested /\ shard \in {"drain", "attach", "publish"}
      \/ \E t \in Threads : failing[t] # "no"

(* A CONNECTED socket has its runtime, a CLOSED one keeps none, whichever  *)
(* way the close and the end of the handshake interleave; and an operation *)
(* that completed holds no timer, no route and no inbox handler            *)
(* (attach_runtime, publish_connection, finish, shutdown_record).          *)
NothingLeftBehind ==
  /\ sock.state = "CONNECTED" => sock.runtime = "installed"
  /\ sock.state = "CLOSED" => sock.runtime \in {"none", "closed"}
  /\ act.started /\ act.completed => timers = {} /\ ~inbox.route /\ ~inbox.handler

(* Every connect ends and every srt_close returns, whatever the peer sends *)
(* or withholds, whichever submissions the scheduler refuses, and also     *)
(* when the callback closes its own socket (overall timer, completion      *)
(* timer, handle_submission_failure, running_on_current_thread).           *)
Ended ==
  /\ connect \in {"idle", "done"}
  /\ act.started => act.completed
  /\ \A c \in Closers : closing[c] \in {"idle", "done"}
ConnectEnds == <>[]Ended
=============================================================================
