-------------------------- MODULE RuntimeScheduler --------------------------
(***************************************************************************)
(* One shard of the RuntimeScheduler: a bounded FIFO of jobs, a heap of    *)
(* cancellable timers, persistent services, the worker thread that serves  *)
(* all three, and stop().                                                  *)
(*                                                                         *)
(* The shards share nothing but accepting_ and the order in which stop()   *)
(* visits them, so one shard is modelled.  Every critical section of the   *)
(* shard mutex is one step.  Jobs, timers and services stand for their     *)
(* Task (function and context); running one is the time between StartTurn  *)
(* and EndTurn, in which every other call may happen, the ones the         *)
(* callback itself makes included.                                         *)
(***************************************************************************)
EXTENDS Integers, Sequences, FiniteSets, SequencesExt

CONSTANTS
    Jobs,             \* clients of submit(), each with one job at a time
    Timers,           \* clients of schedule_at(), numbers, used once and in turn
    Clients,          \* clients of the service slots
    Casts,            \* the jobs, timers and clients of one behaviour
    QueueCapacity,    \* queue_capacity_per_shard
    TimerCapacity,    \* timer_capacity_per_shard
    ServiceCapacity,  \* service_capacity_per_shard
    MaxTime,          \* bound: the last instant
    MaxGeneration,    \* bound: reservations of one service slot
    Nobody            \* a task of no client

VARIABLES
    cast,      \* those of this behaviour, constant
    now,       \* steady_clock::now()
    life,      \* accepting_, start_attempted_, stop_requested, stop() itself
    queue,     \* entries, head and size
    timers,    \* timer_heap, timer_slots, free_timer_slots, next_timer_order
    services,  \* service_slots
    turn,      \* service_turn
    next,      \* next_service
    worker,    \* the worker thread
    job,       \* what became of each job
    timer,     \* what became of each timer, and the token its client holds
    client,    \* the ServiceToken a client holds, and whether it is owed a turn
    waited     \* turns a pending service, and a waiting job or timer, have seen pass

shard == <<queue, timers, services, turn, next>>
vars == <<cast, now, life, queue, timers, services, turn, next, worker, job, timer,
          client, waited>>

None == -1
Times == 0 .. MaxTime
ServiceSlots == 1 .. ServiceCapacity
Token == [slot : 0 .. TimerCapacity + ServiceCapacity, generation : Nat]
NoToken == [slot |-> 0, generation |-> 0]

-----------------------------------------------------------------------------
(* The heap of timer slots; positions count from 1. *)

timer_less(t, left, right) ==
    \/ t.slots[left].deadline < t.slots[right].deadline
    \/ /\ t.slots[left].deadline = t.slots[right].deadline
       /\ t.slots[left].order < t.slots[right].order

timer_heap_swap(t, left, right) ==
    [t EXCEPT !.heap[left] = t.heap[right], !.heap[right] = t.heap[left],
              !.slots[t.heap[right]].position = left,
              !.slots[t.heap[left]].position = right]

RECURSIVE timer_sift_up(_, _)
timer_sift_up(t, p) ==
    IF p = 1 \/ ~timer_less(t, t.heap[p], t.heap[p \div 2]) THEN t
    ELSE timer_sift_up(timer_heap_swap(t, p, p \div 2), p \div 2)

Smallest(t, left) ==
    IF left < Len(t.heap) /\ timer_less(t, t.heap[left + 1], t.heap[left])
    THEN left + 1 ELSE left

RECURSIVE timer_sift_down(_, _)
timer_sift_down(t, p) ==
    IF 2 * p > Len(t.heap) \/ ~timer_less(t, t.heap[Smallest(t, 2 * p)], t.heap[p])
    THEN t
    ELSE timer_sift_down(timer_heap_swap(t, p, Smallest(t, 2 * p)), Smallest(t, 2 * p))

add_timer(t, id, deadline) ==
    LET slot == Last(t.free)
    IN  timer_sift_up(
          [t EXCEPT !.free = Front(@), !.heap = Append(@, slot), !.order = @ + 1,
                    !.slots[slot] = [task |-> id, deadline |-> deadline,
                                     generation |-> @.generation + 1,
                                     order |-> t.order, active |-> TRUE,
                                     position |-> Len(t.heap) + 1]],
          Len(t.heap) + 1)

(* Mutant: the moved entry is only ever sifted up. *)
RestoreUpOnly(t, p) ==
    IF p > Len(t.heap) THEN t ELSE timer_sift_up(t, p)

Restore(t, p) ==
    IF p > Len(t.heap) THEN t
    ELSE IF p # 1 /\ timer_less(t, t.heap[p], t.heap[p \div 2])
         THEN timer_sift_up(t, p)
         ELSE timer_sift_down(t, p)

WithoutLast(t) == [t EXCEPT !.heap = Front(@)]

(* The deadline and the order of a free slot are never read again. *)
remove_timer(t, p) ==
    LET slot == t.heap[p]
    IN  [Restore(WithoutLast(timer_heap_swap(t, p, Len(t.heap))), p)
           EXCEPT !.slots[slot] = [task |-> Nobody, deadline |-> 0, order |-> 0,
                                   generation |-> @.generation, active |-> FALSE,
                                   position |-> 0],
                  !.free = Append(@, slot)]

Due(t) == t.heap # <<>> /\ t.slots[Head(t.heap)].deadline <= now

-----------------------------------------------------------------------------

Init ==
    /\ cast \in Casts
    /\ now = 0
    /\ life = [accepting |-> FALSE, attempted |-> FALSE, stop_requested |-> FALSE,
               stop |-> "no"]
    /\ queue = <<>>
    /\ timers = [heap |-> <<>>, order |-> 1,
                 free |-> [i \in 1 .. TimerCapacity |-> TimerCapacity + 1 - i],
                 slots |-> [s \in 1 .. TimerCapacity |->
                              [task |-> Nobody, deadline |-> 0, generation |-> 0,
                               order |-> 0, active |-> FALSE, position |-> 0]]]
    /\ services = [s \in ServiceSlots |->
                     [task |-> Nobody, generation |-> 0, reserved |-> FALSE,
                      pending |-> FALSE, executing |-> FALSE, deadline |-> None]]
    /\ turn = TRUE
    /\ next = 1
    /\ worker = [pc |-> "absent", task |-> Nobody, service |-> 0, wake |-> None,
                 woken |-> FALSE, idle |-> None, limit |-> 0, reported |-> None,
                 present |-> {}]
    /\ job = [j \in Jobs |-> "none"]
    /\ timer = [t \in Timers |-> [is |-> "none", token |-> NoToken, answer |-> "none"]]
    /\ client = [c \in Clients |-> [token |-> NoToken, owed |-> FALSE]]
    /\ waited = [service |-> [s \in ServiceSlots |-> 0], work |-> 0]

Tick ==
    /\ now < MaxTime
    /\ now' = now + 1
    /\ UNCHANGED <<life, shard, worker, job, timer, client, waited>>

(* The threads start before admission opens; a thread that cannot be       *)
(* created ends the scheduler for good.                                    *)
start ==
    /\ ~life.accepting /\ ~life.attempted
    /\ \/ /\ life' = [life EXCEPT !.attempted = TRUE, !.accepting = TRUE]
          /\ worker' = [worker EXCEPT !.pc = "scan"]
       \/ /\ life' = [life EXCEPT !.attempted = TRUE, !.stop_requested = TRUE]
          /\ UNCHANGED worker
    /\ UNCHANGED <<now, shard, job, timer, client, waited>>

Admits == life.accepting /\ ~life.stop_requested

(* shard.ready.notify_one(): the worker is the only waiter. *)
notify_one == worker' = [worker EXCEPT !.woken = (worker.pc = "waiting")]

submit(j) ==
    /\ Admits
    /\ job[j] # "queued"
    /\ Len(queue) < QueueCapacity
    /\ queue' = Append(queue, j)
    /\ job' = [job EXCEPT ![j] = "queued"]
    /\ notify_one
    /\ UNCHANGED <<now, life, timers, services, turn, next, timer, client, waited>>

schedule_at(t, deadline) ==
    /\ Admits
    /\ timer[t].is = "none"
    /\ \A u \in cast.timers : u < t => timer[u].is # "none"
    /\ timers.free # <<>>
    /\ timers' = add_timer(timers, t, deadline)
    /\ timer' = [timer EXCEPT
                   ![t].is = "armed",
                   ![t].token = [slot |-> Last(timers.free),
                                 generation |->
                                   timers.slots[Last(timers.free)].generation + 1]]
    /\ notify_one
    /\ UNCHANGED <<now, life, queue, services, turn, next, job, client, waited>>

(* Mutant: a token names a slot and not one use of it. *)
HoldsSlot(t) == timers.slots[timer[t].token.slot].active

Holds(t) ==
    /\ timers.slots[timer[t].token.slot].active
    /\ timers.slots[timer[t].token.slot].generation = timer[t].token.generation

(* The worker is not woken: removing a timer never makes work earlier. *)
cancel_timer(t) ==
    /\ timer[t].token # NoToken /\ timer[t].answer = "none"
    /\ IF Holds(t)
       THEN LET slot == timers.slots[timer[t].token.slot]
            IN  /\ timers' = remove_timer(timers, slot.position)
                /\ timer' = [timer EXCEPT ![slot.task].is = "canceled",
                                          ![t].answer = "canceled"]
       ELSE /\ timer' = [timer EXCEPT ![t].answer = "too late"]
            /\ UNCHANGED timers
    /\ UNCHANGED <<now, life, queue, services, turn, next, worker, job, client, waited>>

-----------------------------------------------------------------------------
(* Services: slots whose Task stays in place from turn to turn. *)

(* Mutant: a slot whose callback still runs is handed out again. *)
ReservableAnyway(s) == ~services[s].reserved /\ services[s].generation < MaxGeneration

Reservable(s) ==
    /\ ~services[s].reserved /\ ~services[s].executing
    /\ services[s].generation < MaxGeneration

reserve_service(c) ==
    /\ Admits
    /\ client[c].token = NoToken
    /\ \E s \in ServiceSlots :
         /\ Reservable(s)
         /\ \A r \in 1 .. s - 1 : ~Reservable(r)
         /\ services' = [services EXCEPT ![s].task = c, ![s].generation = @ + 1,
                                         ![s].reserved = TRUE]
         /\ client' = [client EXCEPT
                         ![c].token = [slot |-> s,
                                       generation |-> services[s].generation + 1]]
    /\ UNCHANGED <<now, life, queue, timers, turn, next, worker, job, timer, waited>>

(* A client's token may outlive its reservation. *)
Owns(c) ==
    /\ client[c].token # NoToken
    /\ services[client[c].token.slot].reserved
    /\ services[client[c].token.slot].generation = client[c].token.generation

notify_service(c) ==
    /\ Admits /\ Owns(c)
    /\ services' = [services EXCEPT ![client[c].token.slot].pending = TRUE]
    /\ client' = [client EXCEPT ![c].owed = TRUE]
    /\ notify_one
    /\ UNCHANGED <<now, life, queue, timers, turn, next, job, timer, waited>>

schedule_service_at(c, deadline) ==
    /\ Admits /\ Owns(c)
    /\ services' = [services EXCEPT ![client[c].token.slot].deadline = deadline]
    /\ notify_one
    /\ UNCHANGED <<now, life, queue, timers, turn, next, job, timer, client, waited>>

cancel_service_timer(c) ==
    /\ Owns(c)
    /\ services[client[c].token.slot].deadline # None
    /\ services' = [services EXCEPT ![client[c].token.slot].deadline = None]
    /\ UNCHANGED <<now, life, queue, timers, turn, next, worker, job, timer, client, waited>>

(* The token is dropped once service_quiescent() holds, see Quiescent. *)
release_service(c) ==
    /\ Owns(c)
    /\ LET s == client[c].token.slot
       IN  services' = [services EXCEPT
             ![s].reserved = FALSE, ![s].deadline = None, ![s].pending = FALSE,
             ![s].task = IF services[s].executing THEN @ ELSE Nobody]
    /\ client' = [client EXCEPT ![c].owed = FALSE]
    /\ waited' = [waited EXCEPT !.service[client[c].token.slot] = 0]
    /\ UNCHANGED <<now, life, queue, timers, turn, next, worker, job, timer>>

service_quiescent(c) ==
    LET s == services[client[c].token.slot]
    IN  \/ s.generation # client[c].token.generation
        \/ ~s.reserved /\ ~s.executing

Quiescent(c) ==
    /\ client[c].token # NoToken
    /\ service_quiescent(c)
    /\ client' = [client EXCEPT ![c].token = NoToken]
    /\ UNCHANGED <<now, life, shard, worker, job, timer, waited>>

-----------------------------------------------------------------------------
(* The worker thread, run(). *)

(* Deadlines of services that have passed become pending turns. *)
Expired(ss) ==
    [s \in ServiceSlots |->
        IF ss[s].deadline # None /\ ss[s].deadline <= now
        THEN [ss[s] EXCEPT !.deadline = None, !.pending = TRUE] ELSE ss[s]]

Pending(ss) == {s \in ServiceSlots : ss[s].pending}

(* History: the turn goes to service s, or to ordinary work when s is 0. *)
CountWaits(ss, s) ==
    waited' = [service |-> [r \in ServiceSlots |->
                              IF ss[r].pending /\ r # s THEN waited.service[r] + 1 ELSE 0],
               work |-> IF s # 0 /\ (Due(timers) \/ queue # <<>>)
                        THEN waited.work + 1 ELSE 0]

(* The first pending slot from next_service on, round robin. *)
Chosen(ss) ==
    CHOOSE s \in Pending(ss) :
       \A r \in Pending(ss) :
          (s - next + ServiceCapacity) % ServiceCapacity
             <= (r - next + ServiceCapacity) % ServiceCapacity

(* Mutant: a pending service always goes first. *)
ServiceFirstAlways(ss) == Pending(ss) # {}

ServiceFirst(ss) ==
    /\ Pending(ss) # {}
    /\ turn \/ (~Due(timers) /\ queue = <<>>)

StartService(ss) ==
    /\ services' = [ss EXCEPT ![Chosen(ss)].pending = FALSE,
                              ![Chosen(ss)].executing = TRUE]
    /\ next' = (Chosen(ss) % ServiceCapacity) + 1
    /\ turn' = FALSE
    /\ worker' = [worker EXCEPT !.pc = "running", !.service = Chosen(ss),
                                !.task = ss[Chosen(ss)].task,
                                !.idle = None, !.limit = 0, !.present = {}]
    /\ client' = [c \in Clients |->
                    IF client[c].token = [slot |-> Chosen(ss),
                                          generation |-> ss[Chosen(ss)].generation]
                    THEN [client[c] EXCEPT !.owed = FALSE] ELSE client[c]]
    /\ CountWaits(ss, Chosen(ss))
    /\ UNCHANGED <<queue, timers, job, timer>>

(* Mutant: every timer that is due shares the idle wake. *)
SharesIdleWakeAny(slot) == worker.idle # None

(* Only a timer that was already due and present at the wake shares it. *)
SharesIdleWake(slot) ==
    /\ worker.idle # None
    /\ slot.deadline <= worker.idle
    /\ slot.order < worker.limit
    /\ timers.order >= worker.limit

StartTimer(ss) ==
    LET slot == timers.slots[Head(timers.heap)]
        idle == IF SharesIdleWake(slot) THEN worker.idle ELSE None
    IN  /\ timers' = remove_timer(timers, 1)
        /\ timer' = [timer EXCEPT ![slot.task].is = "running"]
        /\ services' = ss
        /\ turn' = TRUE
        /\ worker' = [worker EXCEPT !.pc = "running", !.task = slot.task,
                                    !.idle = idle, !.reported = idle,
                                    !.limit = IF idle = None THEN 0 ELSE @]
        /\ CountWaits(ss, 0)
        /\ UNCHANGED <<queue, next, job, client>>

StartJob(ss) ==
    /\ queue' = Tail(queue)
    /\ job' = [job EXCEPT ![Head(queue)] = "running"]
    /\ services' = ss
    /\ turn' = TRUE
    /\ worker' = [worker EXCEPT !.pc = "running", !.task = Head(queue),
                                !.idle = None, !.limit = 0, !.present = {}]
    /\ CountWaits(ss, 0)
    /\ UNCHANGED <<timers, next, timer, client>>

Exit(ss) ==
    /\ services' = ss
    /\ worker' = [worker EXCEPT !.pc = "exited", !.idle = None, !.limit = 0, !.present = {}]
    /\ UNCHANGED <<queue, timers, turn, next, job, timer, client, waited>>

(* Every deadline ahead, of a service or of a timer. *)
Deadlines(ss) ==
    ({ss[s].deadline : s \in ServiceSlots}
       \cup {timers.slots[s].deadline : s \in ToSet(timers.heap)}) \ {None}

(* Mutant: the worker sleeps until the next timer, whatever the services. *)
wake_deadline_of_timers(ss) ==
    IF timers.heap = <<>> THEN None ELSE timers.slots[Head(timers.heap)].deadline

wake_deadline(ss) ==
    IF Deadlines(ss) = {} THEN None
    ELSE CHOOSE d \in Deadlines(ss) : \A e \in Deadlines(ss) : d <= e
Wait(ss) ==
    /\ services' = ss
    /\ worker' = [worker EXCEPT !.pc = "waiting", !.woken = FALSE,
                                !.wake = wake_deadline(ss),
                                !.idle = None, !.limit = 0, !.present = {}]
    /\ UNCHANGED <<queue, timers, turn, next, job, timer, client, waited>>

StartTurn ==
    /\ worker.pc = "scan"
    /\ LET ss == Expired(services)
       IN  IF ServiceFirst(ss) THEN StartService(ss)
           ELSE IF Due(timers) THEN StartTimer(ss)
           ELSE IF queue # <<>> THEN StartJob(ss)
           ELSE IF life.stop_requested THEN Exit(ss)
           ELSE Wait(ss)
    /\ UNCHANGED <<now, life>>

(* A clock wake fixes the instant and the timers it stands for.  A wait    *)
(* that returns for no reason would scan, find nothing and wait again.     *)
Wake ==
    /\ worker.pc = "waiting"
    /\ LET expired == worker.wake # None /\ now >= worker.wake
       IN  /\ worker.woken \/ expired
           /\ worker' = [worker EXCEPT
                !.pc = "scan", !.wake = None, !.woken = FALSE,
                !.idle = IF expired THEN now ELSE None,
                !.limit = IF expired THEN timers.order ELSE 0,
                !.present = IF expired
                            THEN {timers.slots[s].task : s \in ToSet(timers.heap)} ELSE {}]
    /\ UNCHANGED <<now, life, shard, job, timer, client, waited>>

EndTurn ==
    /\ worker.pc = "running"
    /\ worker' = [worker EXCEPT !.pc = "scan", !.task = Nobody, !.service = 0,
                                !.reported = None,
                                !.present = IF worker.idle = None THEN {} ELSE @]
    /\ job' = [j \in Jobs |-> IF job[j] = "running" /\ worker.task = j
                              THEN "done" ELSE job[j]]
    /\ timer' = [t \in Timers |-> IF worker.task = t
                                  THEN [timer[t] EXCEPT !.is = "done"] ELSE timer[t]]
    /\ services' = [s \in ServiceSlots |->
                      IF s = worker.service
                      THEN [services[s] EXCEPT
                              !.executing = FALSE,
                              !.task = IF services[s].reserved THEN @ ELSE Nobody]
                      ELSE services[s]]
    /\ UNCHANGED <<now, life, queue, timers, turn, next, client, waited>>

-----------------------------------------------------------------------------
(* stop(): admission closes first, then the shard, then the worker is      *)
(* joined.  The lock is dropped around the destruction of every canceled   *)
(* task, so other calls come in between.                                   *)

stop ==
    /\ life.stop = "no"
    /\ life' = [life EXCEPT !.attempted = TRUE, !.accepting = FALSE, !.stop = "closing"]
    /\ UNCHANGED <<now, shard, worker, job, timer, client, waited>>

StopShard ==
    /\ life.stop = "closing"
    /\ life' = [life EXCEPT !.stop_requested = TRUE, !.stop = "timers"]
    /\ services' = [s \in ServiceSlots |->
                      [services[s] EXCEPT !.reserved = FALSE, !.pending = FALSE,
                                          !.deadline = None]]
    /\ client' = [c \in Clients |-> [client[c] EXCEPT !.owed = FALSE]]
    /\ waited' = [waited EXCEPT !.service = [s \in ServiceSlots |-> 0]]
    /\ UNCHANGED <<now, queue, timers, turn, next, worker, job, timer>>

StopTimer ==
    /\ life.stop = "timers"
    /\ timers.heap # <<>>
    /\ timers' = remove_timer(timers, 1)
    /\ timer' = [timer EXCEPT ![timers.slots[Head(timers.heap)].task].is = "dropped"]
    /\ UNCHANGED <<now, life, queue, services, turn, next, worker, job, client, waited>>

StopNotify ==
    /\ life.stop = "timers"
    /\ timers.heap = <<>>
    /\ life' = [life EXCEPT !.stop = "joining"]
    /\ notify_one
    /\ UNCHANGED <<now, shard, job, timer, client, waited>>

StopJoin ==
    /\ life.stop = "joining"
    /\ worker.pc \in {"exited", "absent"}
    /\ life' = [life EXCEPT !.stop = "complete"]
    /\ services' = [s \in ServiceSlots |-> [services[s] EXCEPT !.task = Nobody]]
    /\ UNCHANGED <<now, queue, timers, turn, next, worker, job, timer, client, waited>>

-----------------------------------------------------------------------------

Next ==
    /\ cast' = cast
    /\ \/ Tick \/ start
       \/ \E j \in cast.jobs : submit(j)
       \/ \E t \in cast.timers : cancel_timer(t) \/ \E d \in Times : schedule_at(t, d)
       \/ \E c \in cast.clients :
            \/ reserve_service(c) \/ notify_service(c) \/ cancel_service_timer(c)
            \/ release_service(c) \/ Quiescent(c)
            \/ \E d \in Times : schedule_service_at(c, d)
       \/ StartTurn \/ Wake \/ EndTurn
       \/ stop \/ StopShard \/ StopTimer \/ StopNotify \/ StopJoin

Spec == Init /\ [][Next]_vars

-----------------------------------------------------------------------------

(* The timer heap: every position a slot records is where the slot stands, *)
(* no entry is ahead of its parent, and free and used slots partition the  *)
(* table.  Cancelling from the middle keeps all of it.                     *)
HeapSound ==
    /\ \A p \in 1 .. Len(timers.heap) :
         /\ timers.slots[timers.heap[p]].position = p
         /\ timers.slots[timers.heap[p]].active
         /\ p > 1 => timer_less(timers, timers.heap[p \div 2], timers.heap[p])
    /\ ToSet(timers.free) = {s \in 1 .. TimerCapacity : ~timers.slots[s].active}
    /\ Len(timers.free) + Len(timers.heap) = TimerCapacity

(* The worker never sleeps on work: while it waits and nobody has signalled *)
(* it, the FIFO is empty, no service turn is pending or owed, no stop waits *)
(* for it, and it will wake by itself no later than every deadline.         *)
NeverSleepsOnWork ==
    (worker.pc = "waiting" /\ ~worker.woken) =>
       /\ queue = <<>>
       /\ Pending(services) = {}
       /\ \A c \in Clients : ~client[c].owed
       /\ life.stop # "joining"
       /\ \A d \in Deadlines(services) :
            worker.wake # None /\ worker.wake <= d

(* cancel_timer answers for the caller's own timer: TRUE exactly when that  *)
(* timer never runs, and a refusal means it ran or stop() dropped it.  A    *)
(* timer report of an idle clock wake names a wake the timer was present at.*)
(* A service callback runs in a slot nobody else holds.                     *)
TokensExact ==
    /\ \A t \in Timers :
         /\ timer[t].answer = "canceled" <=> timer[t].is = "canceled"
         /\ timer[t].answer = "too late" => timer[t].is \in {"running", "done", "dropped"}
    /\ worker.reported # None => worker.task \in worker.present
    /\ worker.service # 0 =>
         \/ services[worker.service].task = worker.task
         \/ life.stop = "complete"

(* stop() leaves nothing behind: once it returns, every job that was        *)
(* accepted has run, no timer is armed and no service callback runs.        *)
StopLeavesNothing ==
    life.stop = "complete" =>
       /\ \A j \in Jobs : job[j] \in {"none", "done"}
       /\ \A t \in Timers : timer[t].is \in {"none", "done", "canceled", "dropped"}
       /\ worker.pc # "running"

(* Nobody waits for long: while a job or a due timer waits, at most one     *)
(* service turn goes before it, and a pending service sees at most one turn *)
(* of every other service and of the ordinary work in between.              *)
TurnsAlternate ==
    /\ waited.work <= 1
    /\ \A s \in ServiceSlots : waited.service[s] <= 2 * ServiceCapacity - 1

(* Accepted work gets its turn: the worker never sleeps on it, and nothing  *)
(* that waits is overtaken without end.                                     *)
WorkIsServed == NeverSleepsOnWork /\ TurnsAlternate

(* The tables agree with what the clients were told: a sound heap, tokens   *)
(* that name one use of a slot, and a stop() that leaves nothing behind.    *)
SchedulerSound == HeapSound /\ TokensExact /\ StopLeavesNothing

=============================================================================
