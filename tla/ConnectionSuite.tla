--------------------------- MODULE ConnectionSuite --------------------------
(* What a channel does for its connections: the routes of its datagrams, the *)
(* runtime of one connection, and the registry that their sockets leave.     *)
(* Each is a scenario of one run.                                            *)
EXTENDS SocketLifecycle, Sequences, TLC

CONSTANTS
    Scenarios,      \* the parts a run explores
    p, q,           \* remote endpoints; threads that close sockets
    Sensor          \* whether the connection uses the sensor filter profile

VARIABLES
    scenario,
    life, routes_, ring, handshake_routes_, setup_routes_, setup_index_,
    inbox, closed, promoting, worker, read, processed, rt, wire, cast, at,
    closer, waiter, reader, used

(* Sending against the peer's reports, against received data and against a   *)
(* key rotation; losses against acknowledgements and key requests.           *)
ConnectionCasts ==
    {{"send", "narrow", "report"}, {"send", "narrow", "data"}, {"send", "key"},
     {"data", "loss"}, {"key", "loss"}}

(* Three local sockets whose ids XOR to one another, and a remote socket id  *)
(* that is also a local one.                                                 *)
R == INSTANCE ChannelRoutes WITH Ids <- {1, 2, 3}, Peers <- {p, q}, Callers <- {1},
                                 Capacity <- 2, MaxSetups <- 3, MaxDatagrams <- 2

C == INSTANCE ConnectionRuntime WITH MaxPackets <- 2, MaxReceived <- 1, Losses <- {1, 2},
                                     MaxKeys <- 1, BufferCapacity <- 2, Capacity <- 3, MaxBatch <- 2,
                                     MaxReports <- 1, Casts <- ConnectionCasts

(* Two sockets that linger asynchronously, too large to do it together; a    *)
(* listener and the socket it creates.                                       *)
Lingering == 1 :> "async" @@ 2 :> "async"
Storage == 1 :> 1 @@ 2 :> 2
TwoChannels == 1 :> 1 @@ 2 :> 2
OneChannel == 1 :> 1 @@ 2 :> 1

M == INSTANCE SocketLifecycle WITH Callers <- {}, Listeners <- {1}, Accepted <- {2},
                                   Channel <- OneChannel, close_limit_ <- 1, MaxStarts <- 1

ofRoutes == <<life, routes_, ring, handshake_routes_, setup_routes_,
              setup_index_, inbox, closed, promoting, worker, read,
              processed>>
ofConnection == <<rt, wire, cast, at, closer, waiter, reader, used>>
suiteVars == <<scenario, ofRoutes, ofConnection, vars>>

notRoutes == <<ofConnection, vars>>
notConnection == <<ofRoutes, vars>>
notLifecycle == <<ofRoutes, ofConnection>>

(* The parts are independent: in each scenario one of them runs, and the     *)
(* variables of the others rest.                                             *)
NoRoutes ==
    /\ life = 0 /\ routes_ = 0 /\ ring = 0 /\ handshake_routes_ = 0
    /\ setup_routes_ = 0 /\ setup_index_ = 0 /\ inbox = 0 /\ closed = 0
    /\ promoting = 0 /\ worker = 0 /\ read = 0 /\ processed = 0
NoConnection ==
    /\ rt = 0 /\ wire = 0 /\ cast = 0 /\ at = 0 /\ closer = 0
    /\ waiter = 0 /\ reader = 0 /\ used = 0

SuiteInit ==
    /\ scenario \in Scenarios
    /\ Init
    /\ \/ scenario = "routes" /\ R!Init /\ NoConnection
       \/ scenario = "connection" /\ C!Init /\ NoRoutes
       \/ scenario \in {"lingering", "listener"} /\ NoRoutes /\ NoConnection

SuiteNext ==
    \/ scenario = "routes" /\ R!Next /\ UNCHANGED <<scenario, notRoutes>>
    \/ scenario = "connection" /\ C!Next /\ UNCHANGED <<scenario, notConnection>>
    \/ scenario = "lingering" /\ Next /\ UNCHANGED <<scenario, notLifecycle>>
    \/ scenario = "listener" /\ M!Next /\ UNCHANGED <<scenario, notLifecycle>>

SuiteSpec == SuiteInit /\ [][SuiteNext]_suiteVars

Symmetry == Permutations(Threads)

-----------------------------------------------------------------------------
(* The routing tables agree, and a connection processes its datagrams in the *)
(* order in which they were read (ChannelRoutes).                            *)
RoutesSound == scenario = "routes" => R!TablesAgree /\ R!InOrder

(* No loss is silenced, nothing stale or out of order leaves, a close is     *)
(* quiescent and nobody sleeps through what they wait for                    *)
(* (ConnectionRuntime); the deferred closes of sockets are charged exactly,  *)
(* within a listener's budget of one too (SocketLifecycle).                  *)
ConnectionSound ==
    /\ [](scenario = "connection" => C!LossesReported /\ C!FifoSound /\ C!SleepersWoken)
    /\ [](BudgetExact /\ (scenario = "listener" => M!BudgetKept))
    /\ [][scenario = "connection" => C!WireOrder /\ C!CloseIsQuiescent]_suiteVars

=============================================================================
