-------------------------- MODULE SocketLifecycle ---------------------------
(***************************************************************************)
(* SocketRegistry, DeferredCloseManager and RuntimeLifecycle: creating and *)
(* closing sockets, lingering closes that a worker finishes, and the       *)
(* cleanup that ends a generation of the runtime while other threads are   *)
(* still closing.                                                          *)
(*                                                                         *)
(* An action is one critical section, or the work between two of them.     *)
(* Handles are never given twice, so a socket stands for its handle and    *)
(* its record.  Deadlines may be found passed whenever they are looked at. *)
(* The group registry, the setup of a connection and the tasks of a        *)
(* listener are other modules; here a listener creates sockets until it is *)
(* closed.                                                                 *)
(***************************************************************************)
EXTENDS Integers, FiniteSets, FiniteSetsExt

CONSTANTS
    Callers,            \* handles of sockets that the application creates
    Listeners,          \* handles of listeners, and
    Accepted,           \* those of the sockets they create
    Linger,             \* handle -> "none", "sync" or "async"
    Payload,            \* handle -> its configured payload storage
    Channel,            \* handle -> the channel it uses
    Threads,            \* threads of the application
    Worker,             \* the thread rwx-close
    close_limit_, payload_limit_, maximum_retired_channels,
    MaxStarts,          \* how often the application starts the runtime
    MaxGenerations      \* how often it ends

VARIABLES
    lifecycle,          \* startup_count and cleaning
    sockets_,           \* the registered handles
    closed_handles_,    \* the handles remembered as closed
    clearing_,
    record,             \* handle -> state, connection and epoch
    listening,          \* the listeners whose runtime is open
    closes_,            \* the deferred closes
    payload_capacity_,  \* what they are charged
    retired_channels_,  \* channels kept although they are idle
    accepting_, generation_,
    service_mutex_,     \* who serves the deferred closes
    job,                \* thread -> what it is doing
    epoch               \* how often the registry was cleared

registry == <<sockets_, closed_handles_, clearing_>>
manager == <<closes_, payload_capacity_, retired_channels_, accepting_, generation_>>
vars == <<lifecycle, registry, record, listening, manager, service_mutex_, job, epoch>>

Handles == Callers \cup Accepted \cup Listeners
NoSocket == 0
Actors == Threads \cup {Worker}
Nobody == "nobody"

(* at: the next step of the thread; back: where a shutdown returns to;       *)
(* records: what a cleanup took from the registry.                           *)
Idle == [at |-> "idle", socket |-> NoSocket, generation |-> 0, honor_linger |-> FALSE,
         broken |-> FALSE, back |-> "idle", records |-> {}]

Init ==
    /\ lifecycle = [startup_count |-> 0, cleaning |-> FALSE, starts |-> 0]
    /\ sockets_ = {} /\ closed_handles_ = {} /\ clearing_ = FALSE
    /\ record = [s \in Handles |-> [state |-> "none", connection |-> "none", epoch |-> 0]]
    /\ listening = {}
    /\ closes_ = {} /\ payload_capacity_ = 0 /\ retired_channels_ = {}
    /\ accepting_ = TRUE /\ generation_ = 1
    /\ service_mutex_ = Nobody
    /\ job = [t \in Actors |-> Idle]
    /\ epoch = 0

At(t, places) == job[t].at \in places
Goes(t, place) == job' = [job EXCEPT ![t].at = place]
Returns(t) ==
    job' = [job EXCEPT ![t] = [Idle EXCEPT !.at = job[t].back, !.records = job[t].records]]

-----------------------------------------------------------------------------
(* srt_startup; it waits while the runtime is cleaned up. *)
runtime_start(t) ==
    /\ At(t, {"idle"}) /\ t \in Threads /\ ~lifecycle.cleaning
    /\ lifecycle.starts < MaxStarts
    /\ lifecycle' = [lifecycle EXCEPT !.startup_count = @ + 1, !.starts = @ + 1]
    /\ UNCHANGED <<registry, record, listening, manager, service_mutex_, job, epoch>>

(* SocketRegistry::create; the permutation of handles never repeats one. *)
create(s) ==
    /\ ~clearing_ /\ record[s].state = "none"
    /\ sockets_' = sockets_ \cup {s}
    /\ record' = [record EXCEPT ![s] = [@ EXCEPT !.state = "init", !.epoch = epoch]]
    /\ UNCHANGED <<closed_handles_, clearing_, manager, service_mutex_, job, epoch>>

runtime_create_socket(t, s) ==
    /\ At(t, {"idle"}) /\ t \in Threads /\ ~lifecycle.cleaning
    /\ s \in Callers \cup Listeners
    /\ create(s)
    /\ lifecycle' = [lifecycle EXCEPT !.startup_count = IF @ = 0 THEN 1 ELSE @]
    /\ UNCHANGED listening

(* start_admitted_socket: a task of the listener. *)
Admit(s) ==
    /\ listening # {} /\ s \in Accepted
    /\ create(s)
    /\ UNCHANGED <<lifecycle, listening>>

(* connect, accept or listen succeeds: the record gets its runtime. *)
Establish(s) ==
    /\ record[s].state = "init"
    /\ \/ /\ s \in Listeners /\ listening' = listening \cup {s}
          /\ record' = [record EXCEPT ![s].state = "listening"]
       \/ /\ s \notin Listeners /\ UNCHANGED listening
          /\ record' = [record EXCEPT ![s].state = "connected", ![s].connection = "busy"]
    /\ UNCHANGED <<lifecycle, registry, manager, service_mutex_, job, epoch>>

(* The connection: everything sent is acknowledged, or it breaks. *)
Proceed(s) ==
    /\ \/ record[s].connection = "busy" /\ record' = [record EXCEPT ![s].connection = "drained"]
       \/ record[s].connection \in {"busy", "drained"}
          /\ record' = [record EXCEPT ![s].connection = "terminal"]
    /\ UNCHANGED <<lifecycle, registry, listening, manager, service_mutex_, job, epoch>>

refresh_state(s) ==
    /\ s \in sockets_
    /\ record[s].state = "connected" /\ record[s].connection = "terminal"
    /\ record' = [record EXCEPT ![s].state = "broken"]
    /\ UNCHANGED <<lifecycle, registry, listening, manager, service_mutex_, job, epoch>>

-----------------------------------------------------------------------------
(* shutdown_record.  The generation is read before the record is taken. *)
admission_generation == IF accepting_ THEN generation_ ELSE 0

Shutdown(t, s, honor_linger, broken, back) ==
    [job[t] EXCEPT !.at = "enter", !.socket = s, !.generation = admission_generation,
                   !.honor_linger = honor_linger, !.broken = broken, !.back = back]

(* SocketRegistry::close and close_failed find the record first. *)
close(t, s, broken) ==
    /\ At(t, {"idle"}) /\ t \in Threads /\ s \in sockets_
    /\ job' = [job EXCEPT ![t] = Shutdown(t, s, TRUE, broken, "idle")]
    /\ UNCHANGED <<lifecycle, registry, record, listening, manager, service_mutex_, epoch>>

(* Only the first thread takes the record; a socket that is not connected    *)
(* does not linger.                                                          *)
TakeClosing(t) ==
    LET s == job[t].socket IN
    /\ At(t, {"enter"})
    /\ IF record[s].state = "closed"
       THEN Returns(t) /\ UNCHANGED record
       ELSE /\ job' = [job EXCEPT ![t].at = "taken",
                                  ![t].honor_linger = @ /\ record[s].state = "connected"]
            /\ record' = [record EXCEPT ![s].state = "closing"]
    /\ UNCHANGED <<lifecycle, registry, listening, manager, service_mutex_, epoch>>
Take(t) ==
    LET s == job[t].socket IN
    /\ At(t, {"enter"})
    /\ IF record[s].state \in {"closing", "closed"}
       THEN Returns(t) /\ UNCHANGED record
       ELSE /\ job' = [job EXCEPT ![t].at = "taken",
                                  ![t].honor_linger = @ /\ record[s].state = "connected"]
            /\ record' = [record EXCEPT ![s].state = "closing"]
    /\ UNCHANGED <<lifecycle, registry, listening, manager, service_mutex_, epoch>>

(* The listener is closed and the setup has ended.  A synchronous close      *)
(* waits here until it has drained or lingered long enough, an asynchronous  *)
(* one is offered to the manager, any other goes on at once.                 *)
Dismantle(t) ==
    LET s == job[t].socket IN
    /\ At(t, {"taken"})
    /\ listening' = listening \ {s}
    /\ IF job[t].honor_linger /\ Linger[s] = "async" /\ record[s].connection = "busy"
       THEN Goes(t, "offer") ELSE Goes(t, "finish")
    /\ UNCHANGED <<lifecycle, registry, record, manager, service_mutex_, epoch>>

AdmitsLate(t) ==
    LET s == job[t].socket IN
    /\ Cardinality(closes_) < close_limit_
    /\ Payload[s] <= payload_limit_ - payload_capacity_
    /\ accepting_ /\ job[t].generation # 0
Admits(t) ==
    LET s == job[t].socket IN
    /\ Cardinality(closes_) < close_limit_
    /\ Payload[s] <= payload_limit_ - payload_capacity_
    /\ accepting_ /\ job[t].generation # 0 /\ job[t].generation = generation_

schedule(t) ==
    LET s == job[t].socket IN
    /\ At(t, {"offer"})
    /\ \/ /\ Admits(t)
          /\ closes_' = closes_ \cup {[socket |-> s, generation |-> job[t].generation,
                                       broken |-> job[t].broken]}
          /\ payload_capacity_' = payload_capacity_ + Payload[s]
          /\ Returns(t)
       \/ ~Admits(t) /\ Goes(t, "finish") /\ UNCHANGED <<closes_, payload_capacity_>>
    /\ UNCHANGED <<lifecycle, registry, record, listening, retired_channels_, accepting_,
                   generation_, service_mutex_, epoch>>

(* finish_close.  The runtime is closed after its final ACK and leaves its   *)
(* channel; a connection that broke because its peer was idle leaves the     *)
(* channel open for a while.                                                 *)
FinishRuntime(t) ==
    LET s == job[t].socket IN
    /\ At(t, {"finish"})
    /\ record' = [record EXCEPT ![s].connection = "none"]
    /\ \/ Goes(t, "closed")
       \/ job[t].broken /\ record[s].connection = "terminal" /\ Goes(t, "retain")
    /\ UNCHANGED <<lifecycle, registry, listening, manager, service_mutex_, epoch>>

(* The channel is kept, if there is room and its deadline is still to come;  *)
(* one that is kept already is kept longer.                                  *)
RetainsLate(t) == accepting_ /\ job[t].generation # 0
Retains(t) == accepting_ /\ job[t].generation # 0 /\ job[t].generation = generation_

retain_channel(t) ==
    LET channel == Channel[job[t].socket]
        known == \E k \in retired_channels_ : k.channel = channel
    IN
    /\ At(t, {"retain"})
    /\ \/ /\ Retains(t) /\ ~known
          /\ Cardinality(retired_channels_) < maximum_retired_channels
          /\ retired_channels_' =
               retired_channels_ \cup {[channel |-> channel, generation |-> job[t].generation]}
       \/ UNCHANGED retired_channels_
    /\ Goes(t, "closed")
    /\ UNCHANGED <<lifecycle, registry, record, listening, closes_, payload_capacity_, accepting_,
                   generation_, service_mutex_, epoch>>

SetClosed(t) ==
    /\ At(t, {"closed"})
    /\ record' = [record EXCEPT ![job[t].socket].state = "closed"]
    /\ Goes(t, "retire")
    /\ UNCHANGED <<lifecycle, registry, listening, manager, service_mutex_, epoch>>

(* A cleanup may have removed the record meanwhile. *)
RemembersAlways(s) == TRUE
Remembers(s) == s \in sockets_

retire_closed(t) ==
    LET s == job[t].socket IN
    /\ At(t, {"retire"})
    /\ closed_handles_' = IF Remembers(s) THEN closed_handles_ \cup {s} ELSE closed_handles_
    /\ sockets_' = sockets_ \ {s}
    /\ Returns(t)
    /\ UNCHANGED <<lifecycle, clearing_, record, listening, manager, service_mutex_, epoch>>

-----------------------------------------------------------------------------
(* The entry e leaves the manager, and t finishes its close. *)
Finishes(t, e, back) ==
    /\ closes_' = closes_ \ {e}
    /\ payload_capacity_' = payload_capacity_ - Payload[e.socket]
    /\ job' = [job EXCEPT ![t] = [@ EXCEPT !.at = "finish", !.socket = e.socket,
                                           !.generation = e.generation, !.broken = e.broken,
                                           !.back = back]]
    /\ UNCHANGED <<lifecycle, registry, record, listening, retired_channels_, accepting_,
                   generation_, service_mutex_, epoch>>

(* The worker sleeps while it has nothing to wait for.  release_channels:    *)
(* some of the deadlines have passed.                                        *)
ServiceBegin ==
    /\ At(Worker, {"idle"}) /\ service_mutex_ = Nobody
    /\ closes_ # {} \/ retired_channels_ # {}
    /\ service_mutex_' = Worker
    /\ \E passed \in SUBSET retired_channels_ : retired_channels_' = retired_channels_ \ passed
    /\ Goes(Worker, "service")
    /\ UNCHANGED <<lifecycle, registry, record, listening, closes_, payload_capacity_, accepting_,
                   generation_, epoch>>

(* A close is due when it has drained, broken or lingered long enough. *)
Due(e) == record[e.socket].connection \in {"drained", "terminal"}

service ==
    /\ At(Worker, {"service"})
    /\ \E e \in closes_ : Finishes(Worker, e, "service")

ServiceEnd ==
    /\ At(Worker, {"service"}) /\ \A e \in closes_ : ~Due(e)
    /\ service_mutex_' = Nobody
    /\ Goes(Worker, "idle")
    /\ UNCHANGED <<lifecycle, registry, record, listening, manager, epoch>>

-----------------------------------------------------------------------------
(* srt_cleanup: only the last one ends the generation.  Called in a log      *)
(* handler it is handed to a worker of the callback executor, or refused.    *)
runtime_cleanup(t) ==
    /\ At(t, {"idle"}) /\ t \in Threads
    /\ ~lifecycle.cleaning /\ lifecycle.startup_count > 0
    /\ IF lifecycle.startup_count > 1
       THEN lifecycle' = [lifecycle EXCEPT !.startup_count = @ - 1] /\ UNCHANGED job
       ELSE /\ generation_ < MaxGenerations
            /\ lifecycle' = [lifecycle EXCEPT !.startup_count = 0, !.cleaning = TRUE]
            /\ Goes(t, "pause")
    /\ UNCHANGED <<registry, record, listening, manager, service_mutex_, epoch>>

(* SocketRegistry::clear. *)
pause(t) ==
    /\ At(t, {"pause"})
    /\ accepting_' = FALSE /\ generation_' = generation_ + 1
    /\ Goes(t, "swap")
    /\ UNCHANGED <<lifecycle, registry, record, listening, closes_, payload_capacity_,
                   retired_channels_, service_mutex_, epoch>>

Swap(t) ==
    /\ At(t, {"swap"})
    /\ clearing_' = TRUE /\ sockets_' = {} /\ closed_handles_' = {}
    /\ job' = [job EXCEPT ![t].at = "sweep", ![t].records = sockets_]
    /\ epoch' = epoch + 1
    /\ UNCHANGED <<lifecycle, record, listening, manager, service_mutex_>>

Sweep(t) ==
    /\ At(t, {"sweep"})
    /\ \E s \in job[t].records :
         job' = [job EXCEPT ![t] = [Shutdown(t, s, FALSE, FALSE, "sweep") EXCEPT !.records = @ \ {s}]]
    /\ UNCHANGED <<lifecycle, registry, record, listening, manager, service_mutex_, epoch>>

FinishAllBegin(t) ==
    /\ At(t, {"sweep"}) /\ job[t].records = {} /\ service_mutex_ = Nobody
    /\ service_mutex_' = t
    /\ retired_channels_' = {}
    /\ Goes(t, "all")
    /\ UNCHANGED <<lifecycle, registry, record, listening, closes_, payload_capacity_, accepting_,
                   generation_, epoch>>

finish_all(t) ==
    /\ At(t, {"all"})
    /\ \E e \in closes_ : Finishes(t, e, "all")

FinishAllEnd(t) ==
    /\ At(t, {"all"}) /\ closes_ = {}
    /\ service_mutex_' = Nobody
    /\ clearing_' = FALSE
    /\ Goes(t, "resume")
    /\ UNCHANGED <<lifecycle, sockets_, closed_handles_, record, listening, manager, epoch>>

resume(t) ==
    /\ At(t, {"resume"})
    /\ accepting_' = TRUE
    /\ Goes(t, "stopping")
    /\ UNCHANGED <<lifecycle, registry, record, listening, closes_, payload_capacity_,
                   retired_channels_, generation_, service_mutex_, epoch>>

(* The executors and the scheduler stop, and with them the listeners' tasks; *)
(* then the next generation may start.                                       *)
finish_runtime_cleanup(t) ==
    /\ At(t, {"stopping"})
    /\ listening' = {}
    /\ lifecycle' = [lifecycle EXCEPT !.cleaning = FALSE]
    /\ Goes(t, "idle")
    /\ UNCHANGED <<registry, record, manager, service_mutex_, epoch>>

Next ==
    \/ \E t \in Threads :
         \/ runtime_start(t) \/ runtime_cleanup(t)
         \/ \E s \in Handles : runtime_create_socket(t, s) \/ \E broken \in BOOLEAN : close(t, s, broken)
         \/ pause(t) \/ Swap(t) \/ Sweep(t) \/ FinishAllBegin(t) \/ finish_all(t) \/ FinishAllEnd(t)
         \/ resume(t) \/ finish_runtime_cleanup(t)
    \/ \E t \in Actors :
         \/ Take(t) \/ Dismantle(t) \/ schedule(t)
         \/ FinishRuntime(t) \/ retain_channel(t) \/ SetClosed(t) \/ retire_closed(t)
    \/ \E s \in Handles : Admit(s) \/ Establish(s) \/ Proceed(s) \/ refresh_state(s)
    \/ ServiceBegin \/ service \/ ServiceEnd

Spec == Init /\ [][Next]_vars

-----------------------------------------------------------------------------
(* Who closes s: threads that have taken its record and not yet closed it,   *)
(* and entries of the manager.                                               *)
Closing == {"taken", "offer", "finish", "retain", "closed"}
Closers(s) == {t \in Actors : At(t, Closing) /\ job[t].socket = s}
Deferred(s) == {e \in closes_ : e.socket = s}

(* A thread that can find s although its handle is gone: the cleanup that    *)
(* took the registry, or a close that was on its way.                        *)
Reaches(t, s) == s \in job[t].records \/ (At(t, {"enter"}) /\ job[t].socket = s)

(* A record that is closing has one owner, a thread or the manager, until it *)
(* is closed: no close is lost on a path that fails, and none is finished    *)
(* twice.  A record that nobody closes can be found.                         *)
Owned(s) ==
    /\ record[s].state = "closing" <=> Closers(s) # {} \/ Deferred(s) # {}
    /\ Closers(s) = {} \/ Deferred(s) = {}
    /\ \A t, u \in Closers(s) : t = u
    /\ \A e, f \in Deferred(s) : e = f
Findable(s) ==
    record[s].state \in {"init", "listening", "connected", "broken"} =>
      s \in sockets_ \/ \E t \in Threads : Reaches(t, s)
OneCloser == \A s \in Handles : Owned(s) /\ Findable(s)

(* A socket that is closed leaves the registry. *)
ClosedIsRetired ==
    \A s \in sockets_ :
      record[s].state = "closed" => \E t \in Actors : At(t, {"retire"}) /\ job[t].socket = s

(* The deferred closes stay within their budget. *)
BudgetKept == payload_capacity_ <= payload_limit_ /\ Cardinality(closes_) <= close_limit_

(* They are charged exactly: a close that ends gives back what it took. *)
BudgetExact == payload_capacity_ = MapThenSumSet(LAMBDA e : Payload[e.socket], closes_)

(* A generation that ended leaves nothing behind: no deferred close, no idle *)
(* channel and no remembered handle of it are found in the next one, even    *)
(* when a close that it began ends later.                                    *)
GenerationsApart ==
    /\ \A s \in closed_handles_ : record[s].epoch = epoch
    /\ accepting_ => /\ \A e \in closes_ : e.generation = generation_
                     /\ \A k \in retired_channels_ : k.generation = generation_

LifecycleSound == OneCloser /\ ClosedIsRetired /\ BudgetKept /\ GenerationsApart

(* A socket is registered only while its generation lives.  This fails when  *)
(* the application closes a listener during the cleanup: the listener is     *)
(* still open when the registry admits sockets again.                        *)
NoLateInsertion == sockets_ # {} => lifecycle.startup_count > 0 \/ lifecycle.cleaning

=============================================================================
