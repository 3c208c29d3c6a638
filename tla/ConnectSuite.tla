---------------------------- MODULE ConnectSuite ----------------------------
(* A caller connects: the handshake of the two endpoints, and the actor that *)
(* drives the caller's side, each a scenario of one run.                     *)
EXTENDS HandshakeOptions, Sequences

CONSTANT Scenarios      \* the parts a run explores

VARIABLES
    scenario,
    options, caller, sockets, window, net, mode, sock, act, src, inbox,
    timers, queue, rejection, connect, shard, worker, closing, failing,
    calls, arrivals

Base == [version |-> 3, minimum |-> 2, stream |-> FALSE, controller |-> "live", mss |-> 2,
         receive |-> 1, send |-> 0, tsbpd |-> TRUE, tlpktdrop |-> TRUE, nak |-> TRUE,
         filter |-> NoFilter, capacity |-> 8, group |-> 0, path |-> 0,
         standby |-> FALSE, auth |-> FALSE,
         secret |-> 0, keylen |-> 0, mode |-> "auto", enforced |-> TRUE]

Fec(columns, rows, arq) ==
    [on |-> TRUE, sensor |-> FALSE,
     field |-> [f \in FilterFields |->
                  CASE f = "columns" -> columns [] f = "rows" -> rows [] f = "arq" -> arq]]
Sensor == [Fec(2, 0, 0) EXCEPT !.sensor = TRUE]

(* Versions, modes and delays; packet filters; groups; keys. *)
Plain ==
    {Base,
     [Base EXCEPT !.version = 2, !.receive = 3, !.tlpktdrop = FALSE],
     [Base EXCEPT !.minimum = 3, !.send = 2, !.nak = FALSE, !.capacity = 4, !.mss = 1],
     [Base EXCEPT !.stream = TRUE, !.controller = "file", !.tsbpd = FALSE],
     [Base EXCEPT !.controller = "control"]}

Filtered ==
    {Base,
     [Base EXCEPT !.filter = Fec(3, 0, 0)],
     [Base EXCEPT !.filter = Fec(0, 2, 2)],
     [Base EXCEPT !.filter = Sensor]}

Grouped(id) ==
    {Base,
     [Base EXCEPT !.group = id],
     [Base EXCEPT !.group = id, !.path = 1],
     [Base EXCEPT !.group = id, !.standby = TRUE]}

Secret ==
    {Base,
     [Base EXCEPT !.enforced = FALSE],
     [Base EXCEPT !.secret = 1],
     [Base EXCEPT !.secret = 1, !.keylen = 32],
     [Base EXCEPT !.secret = 2, !.keylen = 16, !.enforced = FALSE],
     [Base EXCEPT !.secret = 1, !.mode = "gcm"],
     [Base EXCEPT !.secret = 1, !.mode = "ctr", !.enforced = FALSE],
     [Base EXCEPT !.secret = 1, !.auth = TRUE],
     [Base EXCEPT !.secret = 2, !.auth = TRUE]}

Between(callers, listeners) == [caller : callers, listener : listeners, windows : {2}]

(* In one of them a cookie may get too old. *)
Matches == Between(Plain, Plain) \cup Between(Filtered, Filtered)
           \cup Between(Grouped(5), Grouped(7)) \cup Between(Secret, Secret)
           \cup [caller : {Base}, listener : {Base}, windows : {3}]

H == INSTANCE Handshake WITH OptionPairs <- Matches, MaxRetries <- 1, MaxSockets <- 2

A == INSTANCE CallerActor WITH MaxDatagrams <- 2, MaxArms <- 2, EventRing <- 8

handshakeVars == <<options, caller, sockets, window, net>>
actorVars == <<mode, sock, act, src, inbox, timers, queue, rejection, connect, shard, worker,
               closing, failing, calls, arrivals>>
vars == <<scenario, handshakeVars, actorVars>>

(* The parts are independent: in each scenario one of them runs, and the     *)
(* variables of the other rest.                                              *)
Init ==
    \/ /\ scenario = "handshake" /\ scenario \in Scenarios /\ H!Init
       /\ mode = 0 /\ sock = 0 /\ act = 0 /\ src = 0 /\ inbox = 0 /\
          timers = 0 /\ queue = 0 /\ rejection = 0 /\ connect = 0 /\
          shard = 0 /\ worker = 0 /\ closing = 0 /\ failing = 0 /\
          calls = 0 /\ arrivals = 0
    \/ /\ scenario = "actor" /\ scenario \in Scenarios /\ A!Init
       /\ options = 0 /\ caller = 0 /\ sockets = 0 /\ window = 0 /\ net = 0

Next ==
    \/ scenario = "handshake" /\ H!Next /\ UNCHANGED <<scenario, actorVars>>
    \/ scenario = "actor" /\ A!Next /\ UNCHANGED <<scenario, handshakeVars>>

HandshakeFairness ==
    /\ WF_handshakeVars(scenario = "handshake" /\ H!CallerTimeout)
    /\ WF_handshakeVars(scenario = "handshake" /\ \E s \in DOMAIN sockets : H!SetupTimeout(s))

ActorFairness ==
    /\ WF_actorVars(scenario = "actor" /\ connect # "idle" /\ A!ConnectStep)
    /\ WF_actorVars(scenario = "actor" /\ A!ShardStep)
    /\ WF_actorVars(scenario = "actor" /\ A!WorkerStep)
    /\ WF_actorVars(scenario = "actor" /\ \E t \in timers : A!FireTimer(t))
    /\ \A c \in A!Closers : WF_actorVars(scenario = "actor" /\ A!CloseStep(c))
    /\ \A t \in A!Threads : WF_actorVars(scenario = "actor" /\ A!FailureStep(t))

Spec == Init /\ [][Next]_vars /\ HandshakeFairness /\ ActorFairness

-----------------------------------------------------------------------------
(* The options alone decide the verdict, both ends agree on what they        *)
(* negotiated, and an authenticated socket has its caller (Handshake).       *)
HandshakeSound ==
    scenario = "handshake" => H!VerdictByOptions /\ H!DealsAgree /\ H!AuthenticatedPair

(* Every attempt ends, on both sides (Handshake).                            *)
AttemptsEnd == <>[](scenario = "handshake" => H!Ended)

(* The callback runs once with the outcome, no wake-up is lost, and nothing  *)
(* of a finished or closed connect is left behind (CallerActor).             *)
ActorSound ==
    scenario = "actor" => A!CallbackOnce /\ A!NoLostWakeup /\ A!NothingLeftBehind

(* Every connect ends and every srt_close returns (CallerActor).             *)
ConnectEnds == <>[](scenario = "actor" => A!Ended)

=============================================================================
