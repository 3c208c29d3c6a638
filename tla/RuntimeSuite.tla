---------------------------- MODULE RuntimeSuite ----------------------------
(* The threads of the transport runtime: a shard of the scheduler, the       *)
(* readiness watcher and a datagram channel, each a scenario of one run.     *)
EXTENDS DatagramChannel, TLC

CONSTANTS
    Scenarios,      \* the parts a run explores
    j1, k1, k2,     \* a job and two service clients of a shard
    Nobody          \* a task of no client

VARIABLES
    scenario,
    cast, now, life, queue, timers, services, turn, next, worker, job, timer,
    client, waited, build, entries, free, epoch, woken, watcher, readable

(* Three timers; a job, a timer and a service; a job and two clients that    *)
(* use the service slots in turn.                                            *)
ShardCasts ==
    {[jobs |-> {}, timers |-> 1 .. 3, clients |-> {}],
     [jobs |-> {j1}, timers |-> {1}, clients |-> {k1}],
     [jobs |-> {j1}, timers |-> {}, clients |-> {k1, k2}]}

S == INSTANCE RuntimeScheduler WITH Jobs <- {j1}, Timers <- 1 .. 3, Clients <- {k1, k2},
                                    Casts <- ShardCasts, QueueCapacity <- 1, TimerCapacity <- 3,
                                    ServiceCapacity <- 2, MaxTime <- 1, MaxGeneration <- 2

(* Three channels that use two slots. *)
W == INSTANCE SocketReadiness WITH Clients <- 1 .. 3, Capacity <- 2, MaxArms <- 1

notShard == <<vars, build, entries, free, epoch, woken, watcher, readable>>
notReadiness == <<vars, cast, now, queue, timers, services, turn, next, worker, job,
                  timer, waited>>
notChannel == <<cast, now, life, queue, timers, services, turn, next,
                worker, job, timer, client, waited, build, entries, free,
                epoch, woken, watcher, readable>>
suiteVars == <<scenario, vars, notChannel>>

(* The parts are independent: in each scenario one of them runs, and the     *)
(* variables of the others rest; those of the channel in an initial state.   *)
NoChannel == Init /\ ring = <<>> /\ watch.available
NoShard ==
    /\ cast = 0 /\ now = 0 /\ queue = 0 /\ timers = 0 /\ services = 0 /\ turn = 0
    /\ next = 0 /\ worker = 0 /\ job = 0 /\ timer = 0 /\ waited = 0
NoReadiness ==
    /\ build = 0 /\ entries = 0 /\ free = 0 /\ epoch = 0 /\ woken = 0 /\ watcher = 0
    /\ readable = 0

SuiteInit ==
    /\ scenario \in Scenarios
    /\ \/ scenario = "shard" /\ S!Init /\ NoReadiness /\ NoChannel
       \/ scenario = "readiness" /\ W!Init /\ NoShard /\ NoChannel
       \/ /\ scenario = "channel" /\ Init /\ NoShard /\ NoReadiness
          /\ life = 0 /\ client = 0

SuiteNext ==
    \/ scenario = "shard" /\ S!Next /\ UNCHANGED <<scenario, notShard>>
    \/ scenario = "readiness" /\ W!Next /\ UNCHANGED <<scenario, notReadiness>>
    \/ scenario = "channel" /\ Next /\ UNCHANGED <<scenario, notChannel>>

SuiteSpec == SuiteInit /\ [][SuiteNext]_suiteVars

Symmetry == Permutations(Runtimes)

-----------------------------------------------------------------------------
(* Accepted work gets its turn and the shard never sleeps on it; heap, slots *)
(* and tokens agree, and stop() leaves nothing behind (RuntimeScheduler).    *)
ShardSound == scenario = "shard" => S!WorkIsServed /\ S!SchedulerSound

(* An armed watch of a readable socket makes the watcher's wait return, and  *)
(* no canceled watch is polled or reported (SocketReadiness).                *)
WatchesSound == scenario = "readiness" => W!ReadinessReported /\ W!WatchesExact

=============================================================================
