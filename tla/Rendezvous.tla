----------------------------- MODULE Rendezvous -----------------------------
(***************************************************************************)
(* Two peers connect to each other at the same time.  Each drives a        *)
(* RendezvousHandshakeMachine under the crypto policy of                   *)
(* RendezvousHandshakeSession; the cookies decide which of them is the     *)
(* initiator.  The network loses, duplicates and reorders datagrams.  A    *)
(* connected peer's runtime repeats its last answer to a late conclusion.  *)
(* Session authentication and groups need an experimental build here and   *)
(* are left out.                                                           *)
(***************************************************************************)
EXTENDS HandshakeOptions

CONSTANTS
    Scenarios,     \* [options, cookie]: what the two peers are configured with
    CookieRange,   \* number of cookie values; 2^32 in the code
    MaxRetries     \* maximum_retries of both machines

VARIABLES
    config,     \* the scenario
    st,         \* per peer: its machine and crypto session
    net         \* datagrams under way

vars == <<config, st, net>>

Peers == {1, 2}
Other(p) == 3 - p
o(p) == config.options[p]

Half == CookieRange \div 2
Signed(c) == IF c < Half THEN c ELSE c - CookieRange

resolve_rendezvous_role(local, peer) ==
    LET difference == (local - peer) % CookieRange IN
    IF difference = 0 THEN "unresolved"
    ELSE IF difference < Half \/ (difference = Half /\ Signed(local) > Signed(peer))
    THEN "initiator" ELSE "responder"

(***************************************************************************)
(* Datagrams.                                                              *)
(***************************************************************************)
Conclusions == {"empty", "request", "response"}

conclusion_request_action(p, s) ==
    [type |-> "request", from |-> p, enc |-> s.enc, offer |-> o(p), km |-> s.km]
conclusion_response_action(p, s) ==
    [type |-> "response", from |-> p, enc |-> s.enc,
     params |-> response_extension_parameters(o(p), o(Other(p))),
     controller |-> IF o(p).controller = "live" THEN "none" ELSE o(p).controller,
     filter |-> s.filter, km |-> s.answer]
Rejection(p, reason) == [type |-> "rejection", from |-> p, reason |-> reason]

Datagram(type, p, s) ==
    CASE type = "request" -> {conclusion_request_action(p, s)}
      [] type = "response" -> {conclusion_response_action(p, s)}
      [] type = "none" -> {}
      [] OTHER -> {[type |-> type, from |-> p, enc |-> s.enc]}

Deliver(m, sent) == \E rest \in {net, net \ {m}} : net' = rest \cup sent

(***************************************************************************)
(* A peer.  km is the key request of an initiator, answer the key response *)
(* of a responder, kept that it encrypts without the peer's consent.       *)
(***************************************************************************)
Active == {"waving", "attention", "fine", "initiated"}
NoDeal == [live |-> "none"]

Blank(state, reason) ==
    [state |-> state, role |-> "unresolved", retries |-> 0, enc |-> 0, km |-> NoKey,
     answer |-> NoKey, kept |-> FALSE, filter |-> NoFilter, crypto |-> "unsecured",
     deal |-> NoDeal, reason |-> reason]

Init ==
    /\ config \in Scenarios
    /\ st = [p \in Peers |-> Blank("idle", "")]
    /\ net = {}

Become(p, s) == st' = [st EXCEPT ![p] = s]

\* The encryption field of the first datagram names the configured key length.
Start(p) ==
    LET s == [Blank("waving", "") EXCEPT
                !.enc = IF o(p).secret = 0 THEN 0 ELSE KeyLength(o(p))]
    IN  /\ st[p].state = "idle"
        /\ Become(p, s)
        /\ net' = net \cup Datagram("wave", p, s)
        /\ UNCHANGED config

(***************************************************************************)
(* The first datagram of the peer settles the role.  The initiator takes   *)
(* over the key length the peer advertises and makes its key request.      *)
(***************************************************************************)
install_crypto(p, s, m, role) ==
    LET keylen == IF role = "initiator" /\ m.enc # 0 THEN m.enc ELSE KeyLength(o(p))
    IN  IF o(p).secret = 0 \/ role = "unresolved" THEN [s EXCEPT !.role = role]
        ELSE [s EXCEPT !.role = role, !.enc = keylen,
                       !.km = IF role = "initiator"
                              THEN Key(o(p).secret, keylen, InitiatorMode(o(p).mode))
                              ELSE NoKey]

PrepareRole(p, m) ==
    IF st[p].role # "unresolved" THEN st[p]
    ELSE install_crypto(p, st[p], m,
            resolve_rendezvous_role(config.cookie[p], config.cookie[m.from]))

\* Optional encryption goes on with the local key and offers no key any more.
keep_encrypting(s, reported) ==
    [s EXCEPT !.km = NoKey, !.enc = 0, !.kept = TRUE,
              !.crypto = IF reported \in {"bad_secret", "bad_crypto_mode"}
                         THEN reported ELSE "no_secret"]

Fails(s, reason) == [s |-> s, reason |-> reason]
Passes(s) == [s |-> s, reason |-> ""]

allows_plaintext_fallback(s) == ~s.kept /\ s.crypto # "secured"

\* AUTO takes CTR only: rendezvous GCM must be explicit on both sides.
AcceptsMode(mode, offered) ==
    mode = offered \/ (mode = "auto" /\ offered = "ctr")

(***************************************************************************)
(* The key request of the initiator, seen by the responder.                *)
(***************************************************************************)
AcceptedState(p, km) ==
    IF km.keylen # KeyLength(o(p)) THEN "bad_length"
    ELSE IF ~AcceptsMode(o(p).mode, km.mode) THEN "bad_crypto_mode"
    ELSE IF km.secret # o(p).secret THEN "bad_secret" ELSE "secured"

Tolerates(p, s) == ~o(p).enforced /\ allows_plaintext_fallback(s)

RespondToKey(p, s, km, state) ==
    LET reported == IF state = "bad_length" THEN "bad_crypto_mode" ELSE state IN
    IF state = "secured" THEN Passes([s EXCEPT !.crypto = "secured", !.answer = km])
    ELSE IF Tolerates(p, s)
    THEN Passes([keep_encrypting(s, reported) EXCEPT !.answer = KeyState(reported)])
    ELSE Fails(s, crypto_rejection_reason(state, "badsecret"))

ResponderPolicy(p, s, km) ==
    CASE o(p).secret = 0 /\ km.kind = "none" -> Passes(s)
      [] o(p).secret = 0 /\ km.kind # "none" ->
            IF o(p).enforced THEN Fails(s, "unsecure")
            ELSE Passes([s EXCEPT !.answer = KeyState("no_secret")])
      [] o(p).secret # 0 /\ km.kind = "none" ->
            IF Tolerates(p, s) THEN Passes(keep_encrypting(s, "no_secret"))
            ELSE Fails(s, "badsecret")
      [] OTHER -> RespondToKey(p, s, km, AcceptedState(p, km))

\* The key response of the responder, seen by the initiator.
AcknowledgeKey(p, s, state) ==
    IF state = "secured" THEN Passes([s EXCEPT !.crypto = "secured"])
    ELSE IF Tolerates(p, s) THEN Passes(keep_encrypting(s, state))
    ELSE Fails(s, crypto_rejection_reason(state, "badsecret"))

InitiatorPolicy(p, s, answer) ==
    IF o(p).secret # 0
    THEN AcknowledgeKey(p, s, IF answer.kind = "none" THEN "securing"
                              ELSE acknowledge_key_material(s.km, answer))
    ELSE IF answer.kind # "none" /\ o(p).enforced THEN Fails(s, "unsecure") ELSE Passes(s)

KeyPolicy(p, s, m) ==
    CASE s.role = "responder" /\ m.type = "request" -> ResponderPolicy(p, s, m.km)
      [] s.role = "initiator" /\ m.type = "response" -> InitiatorPolicy(p, s, m.km)
      [] OTHER -> Passes(s)

(***************************************************************************)
(* What RendezvousHandshakeMachine::receive finds wrong with a datagram.   *)
(* Two configured filters must be the same text.                           *)
(***************************************************************************)
negotiate_rendezvous_filter(local, peer) ==
    IF local.on /\ peer.on /\ local # peer THEN [ok |-> FALSE, filter |-> NoFilter]
    ELSE negotiate_packet_filter_configuration(local, peer)

FilterFails(p, offered) ==
    LET filter == negotiate_rendezvous_filter(o(p).filter, offered) IN
    \/ o(p).controller = "control"
    \/ ~filter.ok
    \/ ~fec_geometry_fits_receive_capacity(filter.filter, o(p).capacity)

VersionVerdict(p, version) ==
    CASE classify_hsv5_peer_version(version, o(p).minimum) = "pre_hsv5" -> "rogue"
      [] classify_hsv5_peer_version(version, o(p).minimum)
            = "below_configured_minimum" -> "version"
      [] OTHER -> ""

RequestVerdict(p, offer) ==
    CASE VersionVerdict(p, offer.version) # "" -> VersionVerdict(p, offer.version)
      [] offer.stream # o(p).stream -> "messageapi"
      [] offer.controller # o(p).controller -> "congestion"
      [] offer.filter.on /\ FilterFails(p, offer.filter) -> "filter"
      [] OTHER -> ""

ResponseVerdict(p, m) ==
    CASE VersionVerdict(p, m.params.version) # "" -> VersionVerdict(p, m.params.version)
      [] o(p).controller = "control" /\ m.controller = "none" -> "congestion"
      [] m.controller \notin {"none", o(p).controller} -> "congestion"
      [] m.filter.on /\ FilterFails(p, m.filter) -> "filter"
      [] ~m.filter.on /\ o(p).filter.on -> "filter"
      [] OTHER -> ""

Verdict(p, s, m) ==
    CASE s.role = "unresolved" -> "cookie"
      [] m.type = "request" -> RequestVerdict(p, m.offer)
      [] m.type = "response" -> ResponseVerdict(p, m)
      [] OTHER -> ""

\* What the peer announced, with the filter both sides run.
Deal(p, s, params, offered) ==
    [mss |-> IF o(p).mss <= params.mss THEN o(p).mss ELSE params.mss,
     live |-> negotiate_live_options(o(p), params),
     filter |-> IF offered.on
                THEN negotiate_rendezvous_filter(o(p).filter, offered).filter ELSE NoFilter,
     controller |-> o(p).controller]

(* Mutant: the reply carries the merged filter. *)
WireFilterMerged(p, offered) ==
    IF ~offered.on THEN NoFilter
    ELSE negotiate_rendezvous_filter(o(p).filter, offered).filter

\* The responder repeats the configured text of the filter, not the merged one.
WireFilter(p, offered) ==
    IF ~offered.on THEN NoFilter ELSE IF o(p).filter.on THEN o(p).filter ELSE offered

remember_peer(p, s, m) ==
    CASE m.type = "request" ->
            [s EXCEPT !.retries = 0, !.filter = WireFilter(p, m.offer.filter),
                      !.deal = Deal(p, s, m.offer, m.offer.filter)]
      [] m.type = "response" ->
            [s EXCEPT !.retries = 0, !.deal = Deal(p, s, m.params, m.filter)]
      [] OTHER -> [s EXCEPT !.retries = 0]

(***************************************************************************)
(* The state switch: the next state and the datagram that goes out.        *)
(***************************************************************************)
To(state, send) == [state |-> state, send |-> send]
OwnConclusion(role) == IF role = "initiator" THEN "request" ELSE "empty"

InWaving(role, type) ==
    CASE type = "wave" -> To("attention", OwnConclusion(role))
      [] type \in Conclusions /\ role = "initiator" -> To("fine", "request")
      [] type = "request" /\ role = "responder" -> To("fine", "response")
      [] type \in Conclusions \ {"request"} /\ role = "responder" -> To("attention", "empty")
      [] OTHER -> To("failed", "none")

InAttention(role, type) ==
    CASE type = "wave" -> To("attention", OwnConclusion(role))
      [] type = "response" /\ role = "initiator" -> To("connected", "agreement")
      [] type \in {"empty", "request"} /\ role = "initiator" -> To("initiated", "request")
      [] type = "request" /\ role = "responder" -> To("initiated", "response")
      [] type \in {"empty", "response"} /\ role = "responder" -> To("attention", "empty")
      [] OTHER -> To("failed", "none")

(* Mutant: a responder that has answered takes a bare conclusion for the agreement. *)
InAgreedEarly(state, role, type) ==
    CASE type = "response" /\ role = "initiator" -> To("connected", "agreement")
      [] type \in {"empty", "request"} /\ role = "initiator" -> To(state, "request")
      [] type \in {"agreement", "request"} /\ role = "responder" ->
            To("connected", IF state = "initiated" THEN "agreement" ELSE "none")
      [] OTHER -> To("failed", "none")

\* The states fine and initiated; anything out of turn is a contradiction.
InAgreed(state, role, type) ==
    CASE type = "response" /\ role = "initiator" -> To("connected", "agreement")
      [] type \in {"empty", "request"} /\ role = "initiator" -> To(state, "request")
      [] type = "agreement" /\ role = "responder" ->
            To("connected", IF state = "initiated" THEN "agreement" ELSE "none")
      [] type = "request" /\ role = "responder" -> To(state, "response")
      [] OTHER -> To("failed", "none")

Progress(s, type) ==
    CASE s.state = "waving" -> InWaving(s.role, type)
      [] s.state = "attention" -> InAttention(s.role, type)
      [] OTHER -> InAgreed(s.state, s.role, type)

\* What a peer keeps when its attempt is over.
Settle(s, state) ==
    IF state = "failed" THEN Blank("failed", "")
    ELSE IF state = "connected"
    THEN [s EXCEPT !.state = "connected", !.retries = 0] ELSE [s EXCEPT !.state = state]

Advance(p, m, s, step) ==
    /\ Become(p, Settle(s, step.state))
    /\ Deliver(m, Datagram(step.send, p, s))

\* The machine's verdict; a rejection is also sent to the peer.
MachineReceive(p, m, s, reason) ==
    IF reason # ""
    THEN Become(p, Blank("rejected", reason)) /\ Deliver(m, {Rejection(p, reason)})
    ELSE Advance(p, m, remember_peer(p, s, m), Progress(s, m.type))

\* The session judges the keys before the machine sees the datagram.
SessionReceive(p, m, policy) ==
    IF policy.reason # ""
    THEN Become(p, Blank("rejected", policy.reason)) /\ Deliver(m, {})
    ELSE MachineReceive(p, m, policy.s, Verdict(p, policy.s, m))

HandshakeTypes == {"wave", "agreement"} \cup Conclusions

Receive(p, m) ==
    /\ m.from = Other(p)
    /\ st[p].state \in Active
    /\ m.type \in HandshakeTypes
    /\ SessionReceive(p, m, KeyPolicy(p, PrepareRole(p, m), m))
    /\ UNCHANGED config

ReceiveRejection(p, m) ==
    /\ m.from = Other(p)
    /\ st[p].state \in Active
    /\ m.type = "rejection"
    /\ Become(p, Blank("rejected", m.reason))
    /\ Deliver(m, {})
    /\ UNCHANGED config

\* A packet of the connection stands in for a lost agreement.
note_connected_packet(p, m) ==
    /\ m.from = Other(p)
    /\ m.type = "data"
    /\ st[p].state \in {"fine", "initiated"} /\ st[p].role = "responder"
    /\ Advance(p, m, st[p], To("connected", "agreement"))
    /\ UNCHANGED config

\* The runtime of a connected peer repeats its answer to a conclusion.
process_handshake(p, m) ==
    /\ m.from = Other(p)
    /\ st[p].state = "connected"
    /\ m.type \in Conclusions
    /\ Deliver(m, Datagram(IF st[p].role = "initiator" THEN "agreement" ELSE "response",
                           p, st[p]))
    /\ UNCHANGED <<config, st>>

(* Mutant: retries are not counted. *)
TimeoutUncounted(p) ==
    /\ st[p].state \in Active
    /\ net' = net \cup
         Datagram(CASE st[p].state = "waving" -> "wave"
                    [] st[p].state = "attention" -> OwnConclusion(st[p].role)
                    [] OTHER -> IF st[p].role = "initiator" THEN "request" ELSE "response",
                  p, st[p])
    /\ UNCHANGED <<st, config>>

\* The retry timer repeats the datagram of the state until the budget is spent.
Timeout(p) ==
    /\ st[p].state \in Active
    /\ IF st[p].retries >= MaxRetries
       THEN Become(p, Blank("timed_out", "")) /\ UNCHANGED net
       ELSE /\ st' = [st EXCEPT ![p].retries = @ + 1]
            /\ net' = net \cup
                 Datagram(CASE st[p].state = "waving" -> "wave"
                            [] st[p].state = "attention" -> OwnConclusion(st[p].role)
                            [] OTHER -> IF st[p].role = "initiator" THEN "request"
                                        ELSE "response",
                          p, st[p])
    /\ UNCHANGED config

\* The overall deadline passes.
GiveUp(p) ==
    /\ st[p].state \in Active
    /\ Become(p, Blank("timed_out", ""))
    /\ UNCHANGED <<config, net>>

SendData(p) ==
    /\ st[p].state = "connected"
    /\ net' = net \cup {[type |-> "data", from |-> p]}
    /\ UNCHANGED <<config, st>>

Lose(m) == net' = net \ {m} /\ UNCHANGED <<config, st>>

Next ==
    \/ \E p \in Peers : Start(p) \/ Timeout(p) \/ GiveUp(p) \/ SendData(p)
    \/ \E p \in Peers, m \in net :
          \/ Receive(p, m)
          \/ ReceiveRejection(p, m)
          \/ note_connected_packet(p, m)
          \/ process_handshake(p, m)
    \/ \E m \in net : Lose(m)

ReceiveType(p, type) == \E m \in net : m.type = type /\ Receive(p, m)

\* No copy of a datagram stays under way for ever.
Vanish(p, type) == \E m \in net : m.type = type /\ m.from = p /\ Lose(m)

(***************************************************************************)
(* The retry timers run, a request that is repeated for ever is received   *)
(* in the end, and the network does not repeat what is no longer sent.     *)
(* Nothing forces the overall deadline.                                    *)
(***************************************************************************)
Spec ==
    /\ Init /\ [][Next]_vars
    /\ \A p \in Peers :
          /\ WF_vars(Start(p)) /\ WF_vars(Timeout(p))
          /\ SF_vars(ReceiveType(p, "request"))
          /\ \A type \in {"wave"} \cup Conclusions : WF_vars(Vanish(p, type))

(***************************************************************************)
(* Properties.                                                             *)
(***************************************************************************)
Role(p) == resolve_rendezvous_role(config.cookie[p], config.cookie[Other(p)])

SharedSecret(i, r) == i.secret = r.secret /\ (i.secret # 0 => AcceptsMode(r.mode, InitiatorMode(i.mode)))

FiltersFit(i, r) ==
    i.filter.on =>
        /\ i.controller # "control" /\ i.filter.sensor = r.filter.sensor
        /\ r.filter.on => r.filter = i.filter
        /\ i.filter.field["columns"] * Max2(1, i.filter.field["rows"])
              \in 2..(IF i.capacity < r.capacity THEN i.capacity ELSE r.capacity)

Compatible(i, r) ==
    /\ i.version >= Max2(HSv5, r.minimum) /\ r.version >= Max2(HSv5, i.minimum)
    /\ i.stream = r.stream /\ i.controller = r.controller
    /\ FiltersFit(i, r)
    /\ \/ SharedSecret(i, r)
       \/ ~r.enforced /\ (i.secret = 0 \/ ~i.enforced)

Fit == \E p \in Peers : Role(p) = "initiator" /\ Compatible(o(p), o(Other(p)))

(***************************************************************************)
(* The options and the cookies alone decide the verdict: whatever is lost, *)
(* repeated or reordered, a peer is connected only when the options fit    *)
(* and the cookies differ, and rejected only when they do not.  Peers      *)
(* whose optional encryption fails are left to the property below          *)
(* (RendezvousHandshakeMachine::receive, RendezvousHandshakeSession).      *)
(***************************************************************************)
RendezvousVerdict ==
    \A p \in Peers :
        /\ st[p].state = "connected" => Fit
        /\ st[p].state = "rejected" /\ SharedSecret(o(p), o(Other(p))) => ~Fit

(***************************************************************************)
(* A repeated HSREQ does no harm: peers whose options fit, with optional   *)
(* encryption or without, never reject each other                          *)
(* (docs/rendezvous.md, "Loss and duplicate handling").                    *)
(***************************************************************************)
RepetitionTolerated ==
    \A p \in Peers : st[p].state = "rejected" => ~Fit

(***************************************************************************)
(* The two ends fit together: exactly one of them is the initiator however *)
(* the cookies wrap, the responder is connected only after the initiator,  *)
(* which is connected only when the responder has answered; delays, drop   *)
(* rules, filter and segment size are each other's mirror, and a side that *)
(* enforces encryption with a secret shares its key with the other         *)
(* (resolve_rendezvous_role, finish_connect).                              *)
(***************************************************************************)
RendezvousPairAgrees ==
    \A p \in Peers :
        st[p].state = "connected" =>
            LET q == Other(p)
                a == st[p].deal
                b == st[q].deal
            IN  /\ {Role(p), Role(q)} = {"initiator", "responder"}
                /\ st[p].role = Role(p)
                /\ st[p].role = "responder" => st[q].state = "connected"
                /\ b # NoDeal =>
                      /\ a.mss = b.mss /\ a.filter = b.filter
                      /\ a.controller = b.controller
                      /\ a.live.receive_delay = b.live.peer_receive_delay
                      /\ b.live.receive_delay = a.live.peer_receive_delay
                      /\ a.live.too_late_packet_drop = b.live.sender_too_late_packet_drop
                      /\ a.live.periodic_nak = b.live.periodic_nak
                /\ b = NoDeal => st[q].state \in {"failed", "timed_out", "rejected"}
                /\ o(p).secret # 0 /\ o(p).enforced => st[p].crypto = "secured"

(***************************************************************************)
(* Neither machine waits for ever: with a network that delivers what is    *)
(* repeated, both attempts end even when no overall deadline cuts them off *)
(* (timeout, retry_count_).                                                *)
(***************************************************************************)
Ended == \A p \in Peers : st[p].state \notin Active \cup {"idle"}
RendezvousEnds == <>[]Ended
=============================================================================
