----------------------------- MODULE PeersSuite -----------------------------
(* Two peers of equal standing: they meet by rendezvous, and one of them     *)
(* rotates the keys of its stream, each a scenario of one run.               *)
EXTENDS HandshakeOptions, Sequences

CONSTANTS
    Scenarios,      \* the parts a run explores
    PeerPairs       \* options and cookies of the two peers of a rendezvous

VARIABLES
    scenario,
    config, st, net, setting, snd, rcv, cipher, opened, unacked, requests,
    responses

Base == [version |-> 3, minimum |-> 2, stream |-> FALSE, controller |-> "live", mss |-> 2,
         receive |-> 1, send |-> 0, tsbpd |-> TRUE, tlpktdrop |-> TRUE, nak |-> TRUE,
         filter |-> NoFilter, capacity |-> 8,
         secret |-> 0, keylen |-> 0, mode |-> "auto", enforced |-> TRUE]

Fec(columns, rows) ==
    [on |-> TRUE, sensor |-> FALSE,
     field |-> [f \in FilterFields |->
                  CASE f = "columns" -> columns [] f = "rows" -> rows [] OTHER -> 0]]

With(a, b, c, d) == [options |-> <<a, b>>, cookie |-> <<c, d>>]

(* The cookie contest, and the options that differ, with either peer initiator. *)
Contest == {With(Base, Base, c, d) : c \in {1, 4}, d \in {1, 3, 4, 5, 6}}

Open ==
    {[Base EXCEPT !.version = 2, !.receive = 3, !.tlpktdrop = FALSE],
     [Base EXCEPT !.minimum = 3, !.send = 2, !.nak = FALSE, !.capacity = 4, !.mss = 1],
     [Base EXCEPT !.stream = TRUE, !.controller = "file", !.tsbpd = FALSE],
     [Base EXCEPT !.filter = Fec(3, 0)],
     [Base EXCEPT !.filter = Fec(3, 2)]}

Secret ==
    {[Base EXCEPT !.enforced = FALSE],
     [Base EXCEPT !.secret = 1, !.keylen = 32],
     [Base EXCEPT !.secret = 1, !.mode = "gcm", !.enforced = FALSE],
     [Base EXCEPT !.secret = 2]}

Optional ==
    {[Base EXCEPT !.enforced = FALSE], [Base EXCEPT !.secret = 1, !.enforced = FALSE],
     [Base EXCEPT !.secret = 2, !.enforced = FALSE]}

Pairs ==
    Contest
    \cup {With([Base EXCEPT !.controller = "control"], Base, 2, 1)}
    \cup {With(a, b, 2, 1) : a \in Open, b \in {o \in Open : ~o.filter.on}}
    \cup {With(a, b, 2, 1) : a \in {o \in Open : o.filter.on}, b \in {o \in Open : o.filter.on}}
    \cup {With(a, b, 2, 1) : a \in Secret \cup {[Base EXCEPT !.secret = 1]}, b \in Secret}

OptionalPairs == {With(a, b, 2, 1) : a \in Optional, b \in Optional}

(* Own keys in both modes, with and without authenticated requests, with   *)
(* messages that expire unsent once the first key is acknowledged, and a   *)
(* dispatch group.                                                         *)
AllSettings ==
    {[shared |-> FALSE, mode |-> "ctr", authenticated |-> FALSE, expire |-> {}, early |-> FALSE],
     [shared |-> FALSE, mode |-> "gcm", authenticated |-> TRUE, expire |-> {}, early |-> FALSE],
     [shared |-> FALSE, mode |-> "ctr", authenticated |-> FALSE, expire |-> {2, 3}, early |-> FALSE],
     [shared |-> TRUE, mode |-> "gcm", authenticated |-> FALSE, expire |-> {}, early |-> FALSE]}

R == INSTANCE Rendezvous WITH Scenarios <- PeerPairs, CookieRange <- 8, MaxRetries <- 1

K == INSTANCE KeyRotation WITH Settings <- AllSettings, MaxSequence <- 6, Refresh <- 3, Preannouncement <- 1,
                               FlowWindow <- 3, KeyHistory <- 1, RequestLifetime <- 2, HalfRange <- 7

rendezvousVars == <<config, st, net>>
rotationVars == <<setting, snd, rcv, cipher, opened, unacked, requests, responses>>
vars == <<scenario, rendezvousVars, rotationVars>>

(* The parts are independent: in each scenario one of them runs, and the     *)
(* variables of the other rest.                                              *)
Init ==
    \/ /\ scenario = "rendezvous" /\ scenario \in Scenarios /\ R!Init
       /\ setting = 0 /\ snd = 0 /\ rcv = 0 /\ cipher = 0 /\ opened = 0 /\
          unacked = 0 /\ requests = 0 /\ responses = 0
    \/ /\ scenario = "rotation" /\ scenario \in Scenarios /\ K!Init
       /\ config = 0 /\ st = 0 /\ net = 0

Next ==
    \/ scenario = "rendezvous" /\ R!Next /\ UNCHANGED <<scenario, rotationVars>>
    \/ scenario = "rotation" /\ K!Next /\ UNCHANGED <<scenario, rendezvousVars>>

RendezvousFairness ==
    \A p \in R!Peers :
        /\ WF_rendezvousVars(scenario = "rendezvous" /\ R!Start(p))
        /\ WF_rendezvousVars(scenario = "rendezvous" /\ R!Timeout(p))
        /\ SF_rendezvousVars(scenario = "rendezvous" /\ R!ReceiveType(p, "request"))
        /\ \A type \in {"wave"} \cup R!Conclusions :
              WF_rendezvousVars(scenario = "rendezvous" /\ R!Vanish(p, type))

RotationFairness ==
    /\ WF_rotationVars(scenario = "rotation" /\ K!PollNewData)
    /\ WF_rotationVars(scenario = "rotation" /\ K!service_key_rotation)
    /\ WF_rotationVars(scenario = "rotation" /\ K!ReceiveAcknowledgement)
    /\ \A t \in 1 .. 6 :
          /\ WF_rotationVars(scenario = "rotation" /\ K!ReceiveKeyRequest(t))
          /\ WF_rotationVars(scenario = "rotation" /\ K!ReceiveKeyResponse(t))
    /\ \A q \in K!Positions : WF_rotationVars(scenario = "rotation" /\ K!ReceiveData(q))

Spec == Init /\ [][Next]_vars /\ RendezvousFairness /\ RotationFairness

-----------------------------------------------------------------------------
(* Options and cookies decide the verdict, exactly one peer initiates, and   *)
(* what the two ends negotiated fits together (Rendezvous).                  *)
RendezvousSound ==
    scenario = "rendezvous" => R!RendezvousVerdict /\ R!RendezvousPairAgrees

(* Both attempts end (Rendezvous).                                           *)
RendezvousEnds == <>[](scenario = "rendezvous" => R!Ended)

(* No packet is protected with a key the receiver lacks, no key is used for  *)
(* too long, and a payload is opened with its own key (KeyRotation).         *)
RotationSound ==
    /\ [](scenario = "rotation" => K!ReleasedKeysInstalled)
    /\ [][scenario = "rotation" => K!OpenedWithOwnKey]_vars

(* Rotation never strands a session: everything is sent and opened           *)
(* (KeyRotation).                                                            *)
RotationsComplete == <>[](scenario = "rotation" => K!AllOpened)

(* A repeated HSREQ does no harm to peers with optional encryption           *)
(* (docs/rendezvous.md, "Loss and duplicate handling").                      *)
RepetitionTolerated == scenario = "rendezvous" => R!RepetitionTolerated

=============================================================================
