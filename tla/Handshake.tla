----------------------------- MODULE Handshake -----------------------------
(***************************************************************************)
(* One caller connects to one listener over a network that loses,          *)
(* duplicates and reorders datagrams.  The caller is a HandshakeMachine    *)
(* driven with the crypto policy of CallerHsv5Establishment.  The listener *)
(* answers inductions and checks conclusions without keeping state, admits *)
(* a socket for a conclusion with a cookie of the current or previous time *)
(* window, and drives the socket's own HandshakeMachine.  After that the   *)
(* established runtimes replay the answer to a repeated conclusion.        *)
(***************************************************************************)
EXTENDS HandshakeOptions, Sequences

CONSTANTS
    OptionPairs,      \* the options a caller and its listener may have, and a
                      \* bound on the cookie time windows that pass between them
    MaxRetries,       \* maximum_retries of both machines
    MaxSockets        \* bound: sockets the listener admits

VARIABLES
    options,    \* [caller, listener, windows]: the options of this connection
    caller,     \* the caller's machine and crypto session
    sockets,    \* accepted sockets in order of admission
    window,     \* the listener's cookie time window
    net         \* datagrams under way

vars == <<options, caller, sockets, window, net>>

(***************************************************************************)
(* Datagrams.  A proof binds the secret, the accepted socket and the side  *)
(* that computed it.                                                       *)
(***************************************************************************)
Proof(secret, socket, side) ==
    [secret |-> secret, socket |-> socket, side |-> side]
NoProof == Proof(0, 0, "none")

Induction == [type |-> "induction"]
InductionResponse(cookie, enc) ==
    [type |-> "induction_response", cookie |-> cookie, enc |-> enc]
Conclusion(cookie, o, km) ==
    [type |-> "conclusion", cookie |-> cookie, offer |-> o, km |-> km]
Rejection(cookie, reason) ==
    [type |-> "rejection", cookie |-> cookie, reason |-> reason]
Agreement(cookie, proof) ==
    [type |-> "agreement", cookie |-> cookie, proof |-> proof]

ToCaller == {"induction_response", "response", "rejection"}

\* m is taken from the network or a copy of it stays; what is sent joins it.
Deliver(m, sent) == \E rest \in {net, net \ {m}} : net' = rest \cup sent

(***************************************************************************)
(* The caller.                                                             *)
(***************************************************************************)
NoDeal == [socket |-> 0]

Init ==
    /\ options \in OptionPairs
    /\ caller = [state |-> "awaiting_induction", cookie |-> -1, retries |-> 0,
                 km |-> NoKey, reason |-> "", proof |-> NoProof, deal |-> NoDeal]
    /\ sockets = <<>>
    /\ window = 1
    /\ net = {Induction}

Reject(reason) ==
    caller' = [caller EXCEPT !.state = "rejected", !.reason = reason]

\* The whole reaction to the listener's induction response.
CallerInduction(m) ==
    LET o == options.caller
        length == CallerKeyLength(o, m.enc)
        km == IF o.secret = 0 THEN NoKey
              ELSE Key(o.secret, length.keylen, InitiatorMode(o.mode))
    IN  /\ caller.state = "awaiting_induction"
        /\ IF o.secret # 0 /\ length.reason # ""
           THEN Reject(length.reason) /\ Deliver(m, {})
           ELSE IF o.auth /\ o.secret = 0
           THEN Reject("unsecure") /\ Deliver(m, {})
           ELSE /\ caller' = [caller EXCEPT !.state = "awaiting_conclusion",
                                            !.cookie = m.cookie, !.retries = 0,
                                            !.km = km]
                /\ Deliver(m, {Conclusion(m.cookie, o, km)})

(* Mutant: a late induction response is judged like any other datagram. *)
IgnoreStaleInductionFailing(m) ==
    /\ caller.state = "awaiting_conclusion"
    /\ Reject("failed")
    /\ Deliver(m, {})

\* A second induction response, of whatever window, changes nothing.
IgnoreStaleInduction(m) ==
    /\ caller.state = "awaiting_conclusion"
    /\ UNCHANGED caller
    /\ Deliver(m, {})

CallerReceiveInductionResponse(m) ==
    /\ m.type = "induction_response"
    /\ CallerInduction(m) \/ IgnoreStaleInduction(m)
    /\ UNCHANGED <<options, sockets, window>>

\* apply_crypto_policy on a conclusion: "" when the answer is acceptable.
apply_crypto_policy(o, c, m) ==
    IF o.auth /\ (m.proof.side # "listener" \/ m.km.kind = "none") THEN "unsecure"
    ELSE IF o.auth /\ m.proof # Proof(o.secret, m.socket, "listener") THEN "badsecret"
    ELSE IF ~o.auth /\ m.proof # NoProof THEN "unsecure"
    ELSE CallerCrypto(o, c.km, m.km, m.enc).reason

\* What HandshakeMachine::receive finds wrong with a conclusion answer.
CallerChecks(o, m) ==
    LET status == classify_hsv5_peer_version(m.params.version, o.minimum)
        filter == apply_packet_filter_response(o.filter, m.filter)
    IN  CASE status = "pre_hsv5" -> "rogue"
          [] status = "below_configured_minimum" -> "version"
          [] o.controller = "control" /\ m.controller = "none" -> "congestion"
          [] m.controller # "none" /\ m.controller # o.controller -> "congestion"
          [] o.controller = "control" /\ m.filter.on -> "filter"
          [] m.filter.on /\ (~filter.ok \/ ~fec_geometry_fits_receive_capacity(
                                              filter.filter, o.capacity)) -> "filter"
          [] ~m.filter.on /\ o.filter.on -> "filter"
          [] m.path # o.path -> "group"
          [] m.standby # o.standby \/ (o.standby /\ ~m.params.tsbpd) -> "group"
          [] (m.group # 0) # (o.group # 0) -> "group"
          [] OTHER -> ""

Deal(local, peer, socket, filter, group, crypto, km) ==
    [socket |-> socket,
     mss |-> IF local.mss <= peer.mss THEN local.mss ELSE peer.mss,
     live |-> negotiate_live_options(local, peer),
     filter |-> filter,
     controller |-> local.controller,
     group |-> group,
     crypto |-> crypto,
     km |-> IF crypto = "secured" THEN km ELSE NoKey]

CallerConclusion(m) ==
    LET o == options.caller
        policy == apply_crypto_policy(o, caller, m)
        reason == IF policy # "" THEN policy
                  ELSE IF m.cookie # caller.cookie THEN "failed"
                  ELSE CallerChecks(o, m)
        filter == IF m.filter.on
                  THEN apply_packet_filter_response(o.filter, m.filter).filter
                  ELSE NoFilter
        proof == IF o.auth THEN Proof(o.secret, m.socket, "caller") ELSE NoProof
    IN  /\ m.type = "response"
        /\ caller.state = "awaiting_conclusion"
        /\ IF reason # "" THEN Reject(reason) /\ Deliver(m, {})
           ELSE /\ caller' = [caller EXCEPT
                      !.state = "connected", !.proof = proof,
                      !.deal = Deal(o, m.params, m.socket, filter, m.group,
                                    CallerCrypto(o, caller.km, m.km, m.enc).state,
                                    caller.km)]
                /\ Deliver(m, IF o.auth THEN {Agreement(caller.cookie, proof)} ELSE {})
        /\ UNCHANGED <<options, sockets, window>>

\* A rejection of either machine ends the attempt with its reason.
CallerRejected(m) ==
    /\ m.type = "rejection"
    /\ caller.state \in {"awaiting_induction", "awaiting_conclusion"}
    /\ Reject(m.reason)
    /\ Deliver(m, {})
    /\ UNCHANGED <<options, sockets, window>>

\* The retry timer: the datagram of the state is sent again, or the attempt fails.
CallerTimeout ==
    /\ caller.state \in {"awaiting_induction", "awaiting_conclusion"}
    /\ IF caller.retries >= MaxRetries
       THEN caller' = [caller EXCEPT !.state = "timed_out"] /\ UNCHANGED net
       ELSE /\ caller' = [caller EXCEPT !.retries = @ + 1]
            /\ net' = net \cup
                 {IF caller.state = "awaiting_induction" THEN Induction
                  ELSE Conclusion(caller.cookie, options.caller, caller.km)}
    /\ UNCHANGED <<options, sockets, window>>

(***************************************************************************)
(* The established caller: with session authentication it repeats its      *)
(* agreement for a repeated challenge of its own peer, and drops the rest. *)
(***************************************************************************)
CallerReplay(m) ==
    /\ caller.state = "connected"
    /\ m.type \in ToCaller
    /\ LET replays == /\ m.type = "response"
                      /\ m.socket = caller.deal.socket
                      /\ m.cookie = caller.cookie
                      /\ options.caller.auth
       IN  Deliver(m, IF replays THEN {Agreement(caller.cookie, caller.proof)} ELSE {})
    /\ UNCHANGED <<options, caller, sockets, window>>

(***************************************************************************)
(* The listener.                                                           *)
(***************************************************************************)
ListenerInduction(m) ==
    /\ m.type = "induction"
    /\ Deliver(m, {InductionResponse(window, options.listener.keylen)})
    /\ UNCHANGED <<options, caller, sockets, window>>

matches_cookie(m) == m.cookie = window \/ (window # 0 /\ m.cookie = window - 1)

\* The admission policy of start_admitted_socket, before the machine runs.
AdmissionPolicy(o, m) ==
    LET c == m.offer
        filter == negotiate_packet_filter_configuration(o.filter, c.filter)
    IN  CASE c.filter.on /\ (~filter.ok \/ ~fec_geometry_fits_receive_capacity(
                                              filter.filter, o.capacity)) -> "filter"
          [] /\ o.controller = "control" \/ o.filter.sensor
             /\ o.mode = "gcm" /\ o.secret = 0 -> "unsecure"
          [] o.auth # c.auth \/ (o.auth /\ o.secret = 0) -> "unsecure"
          [] (o.path # 0) # (c.path # 0) -> "group"
          [] o.path # 0 /\ (c.group = 0 \/ o.controller # "live") -> "group"
          [] o.standby # c.standby -> "group"
          [] o.standby /\ (o.group = 0 \/ c.group = 0 \/ ~o.tsbpd) -> "group"
          [] OTHER -> ListenerCrypto(o, m.km).reason

\* The conclusion checks of the accepted socket's HandshakeMachine.
ListenerChecks(o, m) ==
    LET c == m.offer
        status == classify_hsv5_peer_version(c.version, o.minimum)
    IN  CASE o.standby /\ (~c.tsbpd \/ c.stream) -> "group"
          [] status = "pre_hsv5" -> "rogue"
          [] status = "below_configured_minimum" -> "version"
          [] o.stream # c.stream -> "messageapi"
          [] o.controller # c.controller -> "congestion"
          [] o.controller = "control" /\ c.filter.on -> "filter"
          [] ~c.filter.on /\ o.filter.sensor -> "filter"
          [] c.group # 0 /\ o.group = 0 -> "group"
          [] OTHER -> ""

Response(s, o, m) ==
    LET c == m.offer
        crypto == ListenerCrypto(o, m.km)
        filter == IF c.filter.on
                  THEN negotiate_packet_filter_configuration(o.filter, c.filter).filter
                  ELSE NoFilter
    IN  [type |-> "response", cookie |-> m.cookie, socket |-> s,
         params |-> response_extension_parameters(o, c),
         controller |-> IF o.controller = "live" THEN "none" ELSE o.controller,
         filter |-> filter,
         group |-> IF c.group # 0 THEN o.group ELSE 0,
         path |-> c.path, standby |-> o.standby,
         km |-> crypto.answer,
         enc |-> IF crypto.state = "secured" THEN m.km.keylen ELSE o.keylen,
         proof |-> IF o.auth THEN Proof(o.secret, s, "listener") ELSE NoProof]

ListenerDeal(s, o, m) ==
    LET r == Response(s, o, m) IN
    Deal(o, m.offer, s, r.filter, IF r.group # 0 THEN m.offer.group ELSE 0,
         ListenerCrypto(o, m.km).state, m.km)

(***************************************************************************)
(* A conclusion that the caller's setup takes, or the runtime of its       *)
(* connection: the setup repeats its challenge, a runtime without          *)
(* authentication its response.  A runtime with authentication leaves the  *)
(* conclusion to the listener.                                             *)
(***************************************************************************)
process_handshake(s, m) ==
    \/ sockets[s].state = "awaiting"
    \/ /\ sockets[s].state = "established"
       /\ ~options.listener.auth
       /\ m.cookie = sockets[s].response.cookie

OwnerRepeats(m) ==
    /\ m.type = "conclusion"
    /\ \E s \in DOMAIN sockets :
          /\ process_handshake(s, m)
          /\ Deliver(m, IF m.cookie = sockets[s].response.cookie
                        THEN {sockets[s].response} ELSE {})
    /\ UNCHANGED <<options, caller, sockets, window>>

Unowned(m) == \A s \in DOMAIN sockets : ~process_handshake(s, m)

(***************************************************************************)
(* Any other conclusion: the router checks its cookie and the listener     *)
(* admits a socket, whose setup rejects it, challenges it or connects.     *)
(***************************************************************************)
ListenerAdmit(m) ==
    LET o == options.listener
        s == Len(sockets) + 1
        policy == AdmissionPolicy(o, m)
        reason == IF policy # "" THEN policy ELSE ListenerChecks(o, m)
    IN  /\ m.type = "conclusion"
        /\ Unowned(m)
        /\ s <= MaxSockets
        /\ matches_cookie(m)
        /\ sockets' = Append(sockets,
              [state |-> IF reason # "" THEN "closed"
                         ELSE IF o.auth THEN "awaiting" ELSE "established",
               retries |-> 0, response |-> Response(s, o, m),
               deal |-> IF reason # "" THEN NoDeal ELSE ListenerDeal(s, o, m)])
        /\ Deliver(m, {IF reason # "" THEN Rejection(m.cookie, reason)
                       ELSE Response(s, o, m)})
        /\ UNCHANGED <<options, caller, window>>

\* A conclusion whose cookie has expired is dropped by the router.
ListenerDropConclusion(m) ==
    /\ m.type = "conclusion"
    /\ Unowned(m)
    /\ ~matches_cookie(m)
    /\ net' = net \ {m}
    /\ UNCHANGED <<options, caller, sockets, window>>

(* Mutant: the cookie alone is compared. *)
ListenerConfirmUnproved(m) ==
    /\ m.type = "agreement"
    /\ \E s \in DOMAIN sockets :
          /\ sockets[s].state = "awaiting"
          /\ sockets' = IF m.cookie = sockets[s].response.cookie
                        THEN [sockets EXCEPT ![s].state = "established"] ELSE sockets
    /\ Deliver(m, {})
    /\ UNCHANGED <<options, caller, window>>

\* The confirmation of a challenge: only the expected proof connects.
ListenerConfirm(m) ==
    /\ m.type = "agreement"
    /\ \E s \in DOMAIN sockets :
          /\ sockets[s].state = "awaiting"
          /\ LET expected == /\ m.cookie = sockets[s].response.cookie
                             /\ m.proof = Proof(options.listener.secret, s, "caller")
             IN  sockets' = IF expected
                            THEN [sockets EXCEPT ![s].state = "established"] ELSE sockets
    /\ Deliver(m, {})
    /\ UNCHANGED <<options, caller, window>>

(* Mutant: the challenge is repeated without counting. *)
SetupTimeoutUncounted(s) ==
    /\ sockets[s].state = "awaiting"
    /\ net' = net \cup {sockets[s].response}
    /\ UNCHANGED <<options, caller, sockets, window>>

\* The setup's retry timer: the challenge goes out again or the setup ends.
SetupTimeout(s) ==
    /\ sockets[s].state = "awaiting"
    /\ IF sockets[s].retries >= MaxRetries
       THEN sockets' = [sockets EXCEPT ![s].state = "closed"] /\ UNCHANGED net
       ELSE /\ sockets' = [sockets EXCEPT ![s].retries = @ + 1]
            /\ net' = net \cup {sockets[s].response}
    /\ UNCHANGED <<options, caller, window>>

\* The application or an expired peer closes an established socket.
CloseAccepted(s) ==
    /\ sockets[s].state = "established"
    /\ sockets' = [sockets EXCEPT ![s].state = "closed"]
    /\ UNCHANGED <<options, caller, window, net>>

NextWindow ==
    /\ window < options.windows
    /\ window' = window + 1
    /\ UNCHANGED <<options, caller, sockets, net>>

Lose(m) ==
    /\ net' = net \ {m}
    /\ UNCHANGED <<options, caller, sockets, window>>

ReceiveNext ==
    \E m \in net :
        \/ CallerReceiveInductionResponse(m)
        \/ CallerConclusion(m)
        \/ CallerRejected(m)
        \/ CallerReplay(m)
        \/ ListenerInduction(m)
        \/ ListenerAdmit(m)
        \/ ListenerDropConclusion(m)
        \/ OwnerRepeats(m)
        \/ ListenerConfirm(m)
        \/ Lose(m)

Next ==
    \/ ReceiveNext
    \/ CallerTimeout
    \/ \E s \in DOMAIN sockets : SetupTimeout(s)
    \/ \E s \in DOMAIN sockets : CloseAccepted(s)
    \/ NextWindow

Spec == Init /\ [][Next]_vars /\ WF_vars(CallerTimeout)
             /\ WF_vars(\E s \in DOMAIN sockets : SetupTimeout(s))
(***************************************************************************)
(* Properties.                                                             *)
(***************************************************************************)
SameSecret(c, l) == c.secret = l.secret /\ negotiate_crypto_mode(c.mode, l.mode)

KeysFit(c, l) ==
    CASE c.secret = 0 /\ l.secret = 0 -> TRUE
      [] c.secret = 0 /\ l.secret # 0 -> ~l.enforced
      [] c.secret # 0 /\ l.secret # 0 /\ SameSecret(c, l) ->
            c.keylen = 0 \/ l.keylen \in {0, c.keylen}
      [] OTHER -> /\ ~c.enforced /\ ~l.enforced
                  /\ c.keylen = 0 \/ l.keylen \in {0, c.keylen}

FiltersFit(c, l) ==
    IF ~c.filter.on THEN ~l.filter.sensor
    ELSE /\ c.controller # "control"
         /\ c.filter.sensor = l.filter.sensor
         /\ \A f \in FilterFields :
               c.filter.field[f] = 0 \/ l.filter.field[f] \in {0, c.filter.field[f]}
         /\ Max2(c.filter.field["columns"], l.filter.field["columns"])
              * Max2(1, Max2(c.filter.field["rows"], l.filter.field["rows"]))
                \in 2..(IF c.capacity < l.capacity THEN c.capacity ELSE l.capacity)

Compatible(c, l) ==
    /\ c.version >= Max2(HSv5, l.minimum) /\ l.version >= Max2(HSv5, c.minimum)
    /\ c.stream = l.stream /\ c.controller = l.controller
    /\ FiltersFit(c, l)
    /\ c.group # 0 => l.group # 0
    /\ (c.path # 0) = (l.path # 0) /\ c.standby = l.standby
    /\ c.auth = l.auth
    /\ KeysFit(c, l)

(***************************************************************************)
(* The options alone decide the verdict: whatever the network loses,       *)
(* repeats or delays and however the cookie windows pass, a caller is      *)
(* connected only to a listener whose options fit its own and is rejected  *)
(* only by one whose options do not; everything else is a timeout          *)
(* (HandshakeMachine::receive, apply_crypto_policy, start_admitted_socket).*)
(***************************************************************************)
VerdictByOptions ==
    /\ caller.state = "connected" => Compatible(options.caller, options.listener)
    /\ caller.state = "rejected" => ~Compatible(options.caller, options.listener)

(***************************************************************************)
(* Both ends of a connection agree on what was negotiated: the delays and  *)
(* drop rules are each other's mirror, the filter and controller are the   *)
(* same, the groups name each other, and either both hold the same key or  *)
(* neither holds one.  A side that enforces encryption with a secret is    *)
(* never connected without it.  The segment size is the smaller of the two.*)
(***************************************************************************)
DealsAgree ==
    caller.state = "connected" =>
        LET c == caller.deal
            l == sockets[c.socket].deal
        IN  /\ l.socket = c.socket /\ c.mss = l.mss
            /\ c.live.receive_delay = l.live.peer_receive_delay
            /\ l.live.receive_delay = c.live.peer_receive_delay
            /\ c.live.receive_tsbpd = l.live.send_tsbpd
            /\ c.live.too_late_packet_drop = l.live.sender_too_late_packet_drop
            /\ l.live.too_late_packet_drop = c.live.sender_too_late_packet_drop
            /\ c.live.periodic_nak = l.live.periodic_nak
            /\ c.filter = l.filter /\ c.controller = l.controller
            /\ c.group = IF options.caller.group # 0 THEN options.listener.group ELSE 0
            /\ l.group = options.caller.group
            /\ c.km = l.km
            /\ \A o \in {options.caller, options.listener} :
                  o.secret # 0 /\ o.enforced => c.km.kind = "key" /\ c.km.secret = o.secret

(***************************************************************************)
(* With session authentication an accepted socket is established only when *)
(* the caller is connected to that very socket, so a delayed or repeated   *)
(* conclusion never yields a second established socket                     *)
(* (awaiting_authentication_confirmation).                                 *)
(***************************************************************************)
AuthenticatedPair ==
    options.listener.auth =>
        \A s \in DOMAIN sockets :
            sockets[s].state = "established" =>
                caller.state = "connected" /\ caller.deal.socket = s

(***************************************************************************)
(* Every attempt ends: the caller connects, is rejected or gives up, and   *)
(* no accepted socket waits for its confirmation for ever (timeout).       *)
(***************************************************************************)
Ended ==
    /\ caller.state \in {"connected", "rejected", "timed_out"}
    /\ \A s \in DOMAIN sockets : sockets[s].state # "awaiting"
AttemptsEnd == <>[]Ended
=============================================================================
