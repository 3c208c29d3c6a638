----------------------------- MODULE SocketsSuite ----------------------------
(* What the socket API adds to a connection: the listener with its accept    *)
(* queue, and epoll, each a scenario of one run.                             *)
EXTENDS ListenerRuntime, TLC

CONSTANTS
    Scenarios,      \* the parts a run explores
    c1, c2          \* callers

VARIABLES
    scenario,
    cast, clock, socket, poll, subscription, ready, observer, waiter, producer,
    legacy, owed, passed

OneCaller == {c1}
TwoCallers == {c1, c2}

Mask(events, edge) == [events |-> events, edge |-> edge]
NoMask == Mask({}, FALSE)

Quiet == [states |-> <<"closed", "closed">>, waiters |-> 1, single |-> FALSE,
          legacy |-> FALSE, masks |-> {NoMask}, kinds |-> {"uwait"}, outputs |-> {1},
          arrivals |-> 0, changes |-> 2, time |-> 0, ends |-> FALSE, sends |-> FALSE,
          fails |-> FALSE]

EpollCasts == {
  \* two waiters on a delayed level-triggered stream
  [Quiet EXCEPT !.states = <<"connected", "closed">>, !.waiters = 2, !.time = 1,
                !.masks = {Mask({"IN"}, FALSE)}, !.arrivals = 2, !.fails = TRUE,
                !.changes = 1],
  \* sockets that connect, end and close under a changing record
  [Quiet EXCEPT !.states = <<"connecting", "closed">>, !.ends = TRUE, !.arrivals = 1,
                !.masks = {Mask({"IN", "ERR"}, FALSE), NoMask}, !.time = 1,
                !.kinds = {"wait"}],
  \* one thread that waits, reads and sends on edges
  [Quiet EXCEPT !.states = <<"connected", "closed">>, !.single = TRUE, !.sends = TRUE,
                !.masks = {Mask({"IN", "OUT"}, TRUE)}, !.arrivals = 2, !.time = 1,
                !.changes = 1],
  \* streams whose deliveries share small outputs
  [Quiet EXCEPT !.states = <<"connected", "connected">>, !.masks = {Mask({"IN", "OUT"}, FALSE)},
                !.arrivals = 1, !.outputs = {1, 2}],
  \* a listener whose mirror group is updated
  [Quiet EXCEPT !.states = <<"listening", "closed">>, !.single = TRUE, !.arrivals = 2,
                !.masks = {Mask({"IN", "ERR", "UPDATE"}, TRUE), Mask({"ERR"}, FALSE)},
                !.kinds = {"uwait", "wait"}],
  \* a blocked public call beside the notifiers
  [Quiet EXCEPT !.states = <<"connecting", "connecting">>, !.legacy = TRUE, !.ends = TRUE,
                !.waiters = 0, !.changes = 0]}

E == INSTANCE Epoll WITH Handles <- {1, 2}, Waiters <- {1, 2}, Casts <- EpollCasts

epollVars == <<cast, clock, socket, poll, subscription, ready, observer, waiter, producer,
               legacy, owed, passed>>

suiteVars == <<scenario, vars, epollVars>>

(* The parts are independent: in each scenario one of them runs, and the     *)
(* variables of the other rest.                                              *)
SuiteInit ==
    \/ /\ scenario = "listener" /\ scenario \in Scenarios /\ Init
       /\ cast = 0 /\ clock = 0 /\ socket = 0 /\ poll = 0 /\ subscription = 0 /\ ready = 0
       /\ observer = 0 /\ waiter = 0 /\ producer = 0 /\ legacy = 0 /\ owed = 0 /\ passed = 0
    \/ /\ scenario = "epoll" /\ scenario \in Scenarios /\ E!Init
       /\ authenticated = 0 /\ network = 0 /\ arrived = 0 /\ challenged = 0 /\ inbox = 0
       /\ source = 0 /\ actor = 0 /\ setup = 0 /\ shard = 0 /\ runtime = 0 /\ worker = 0
       /\ accepts = 0 /\ sockets = 0 /\ caller_of = 0 /\ owned = 0 /\ listening = 0 /\ closer = 0

SuiteNext ==
    \/ scenario = "listener" /\ Next /\ UNCHANGED <<scenario, epollVars>>
    \/ scenario = "epoll" /\ E!Next /\ UNCHANGED <<scenario, vars>>

SuiteSpec == SuiteInit /\ [][SuiteNext]_suiteVars

Symmetry == Permutations(TwoCallers)

-----------------------------------------------------------------------------
(* The accept queue's reservations balance, a caller never has two sockets,  *)
(* closing the listener leaks no socket and closes none that srt_accept      *)
(* returned; the listener never stalls with work waiting, and its close      *)
(* always has a thread or a timer that moves it on (ListenerRuntime).        *)
AcceptsSound ==
    /\ [](scenario = "listener" => /\ ReservationsBalanced /\ OneSocketPerCaller /\ NothingLeaked
                                   /\ NoStall /\ CloseNotStuck)
    /\ [][scenario = "listener" => OwnedStaysOpen]_suiteVars

(* Nobody sleeps on an event, no edge is lost, and small output arrays       *)
(* starve no handle (Epoll).                                                 *)
EventsReported ==
    scenario = "epoll" => E!WaitersWoken /\ E!EdgesKept /\ E!RotationFair

(* A setup that completed is kept: its connection reaches the accept queue   *)
(* whatever the start of its actor returns (ListenerConnectionSetupSources). *)
SetupKept == [][scenario = "listener" => CompletedSetupKept]_suiteVars

=============================================================================
