-------------------------- MODULE HandshakeOptions --------------------------
(***************************************************************************)
(* What two endpoints make of each other's options during an HSv5          *)
(* handshake: the live options, the packet filter, the congestion          *)
(* controller, group membership, path identifier, standby RTT, session     *)
(* authentication and the key material.  Every operator is a pure function *)
(* of two option records, evaluated by the caller on the listener's answer *)
(* or by the listener on the caller's offer.                               *)
(***************************************************************************)
EXTENDS Integers, FiniteSets

(***************************************************************************)
(* An endpoint's options.  0 stands for a field that is not configured.    *)
(*   version, minimum   its SRT version and the lowest it accepts          *)
(*   stream             buffer mode instead of the message API             *)
(*   controller         "live", "file" or "control"; mss: segment size     *)
(*   receive, send      TSBPD delays; tsbpd, tlpktdrop, nak: HSREQ flags   *)
(*   filter, capacity   packet filter and receive window in packets        *)
(*   group, path        group (own or mirror), path identifier             *)
(*   standby            standby RTT required                               *)
(*   auth               session authentication required                    *)
(*   secret, keylen, mode, enforced     encryption                         *)
(***************************************************************************)
FilterFields == {"columns", "rows", "arq"}

NoFilter == [on |-> FALSE, sensor |-> FALSE, field |-> [f \in FilterFields |-> 0]]

HSv5 == 2             \* the first SRT version that speaks HSv5

NoKey == [kind |-> "none"]
Key(secret, keylen, mode) ==
    [kind |-> "key", secret |-> secret, keylen |-> keylen, mode |-> mode]
KeyState(s) == [kind |-> "state", state |-> s]

Max2(a, b) == IF a >= b THEN a ELSE b

(* Mutant: the drop rule of the other direction. *)
negotiate_live_options_swapped(local, peer) ==
    LET on == local.tsbpd /\ peer.tsbpd IN
    [receive_tsbpd |-> on,
     send_tsbpd |-> on,
     too_late_packet_drop |-> on /\ local.tlpktdrop,
     sender_too_late_packet_drop |-> on /\ local.tlpktdrop,
     periodic_nak |-> local.nak /\ peer.nak,
     receive_delay |-> IF on THEN Max2(local.receive, peer.send) ELSE 0,
     peer_receive_delay |-> IF on THEN Max2(local.send, peer.receive) ELSE 0]

(***************************************************************************)
(* Live options of an endpoint facing the parameters its peer announced.   *)
(***************************************************************************)
negotiate_live_options(local, peer) ==
    LET on == local.tsbpd /\ peer.tsbpd IN
    [receive_tsbpd |-> on,
     send_tsbpd |-> on,
     too_late_packet_drop |-> on /\ local.tlpktdrop,
     sender_too_late_packet_drop |-> on /\ peer.tlpktdrop,
     periodic_nak |-> local.nak /\ peer.nak,
     receive_delay |-> IF on THEN Max2(local.receive, peer.send) ELSE 0,
     peer_receive_delay |-> IF on THEN Max2(local.send, peer.receive) ELSE 0]

\* The responder announces the delays it will really use.
response_extension_parameters(local, peer) ==
    [local EXCEPT !.receive = Max2(@, peer.send), !.send = Max2(@, peer.receive)]

\* Reads a version as the peer-version policy does.
classify_hsv5_peer_version(version, minimum) ==
    IF version < HSv5 THEN "pre_hsv5"
    ELSE IF version < minimum THEN "below_configured_minimum" ELSE "compatible"

(***************************************************************************)
(* Packet filter.  A resolved filter is [ok, filter].                      *)
(***************************************************************************)
FilterDefault(f) == IF f = "columns" THEN 0 ELSE 1

valid_fec_geometry(field) == field["columns"] >= 2 /\ field["columns"] <= 128

fec_geometry_fits_receive_capacity(filter, capacity) ==
    filter.on => filter.field["columns"] * filter.field["rows"] <= capacity

resolve_effective_configuration(local, peer, peer_overrides) ==
    LET first == IF peer_overrides THEN peer ELSE local
        second == IF peer_overrides THEN local ELSE peer
        field == [f \in FilterFields |->
                    IF first.field[f] # 0 THEN first.field[f]
                    ELSE IF second.field[f] # 0 THEN second.field[f]
                    ELSE FilterDefault(f)]
        conflict == \E f \in FilterFields :
                        /\ local.field[f] # 0 /\ peer.field[f] # 0
                        /\ local.field[f] # peer.field[f]
        ok == /\ local.sensor = peer.sensor
              /\ peer_overrides \/ ~conflict
              /\ valid_fec_geometry(field)
    IN  IF ~local.on /\ ~peer.on THEN [ok |-> TRUE, filter |-> NoFilter]
        ELSE [ok |-> ok,
              filter |-> [on |-> TRUE, sensor |-> local.sensor, field |-> field]]

negotiate_packet_filter_configuration(local, peer) ==
    resolve_effective_configuration(local, peer, FALSE)

apply_packet_filter_response(local, response) ==
    IF response.on THEN resolve_effective_configuration(local, response, TRUE)
    ELSE [ok |-> FALSE, filter |-> NoFilter]

(***************************************************************************)
(* Encryption.  An AUTO initiator keeps CTR; an AUTO listener adopts what  *)
(* the caller names.                                                       *)
(***************************************************************************)
InitiatorMode(mode) == IF mode = "auto" THEN "ctr" ELSE mode

negotiate_crypto_mode(initiator, responder) ==
    responder \in {"auto", InitiatorMode(initiator)}

DefaultKeyLength == 16
KeyLength(o) == IF o.keylen = 0 THEN DefaultKeyLength ELSE o.keylen

\* The receiver state of a listener with a secret after a key request.
accept_key_material(o, km) ==
    IF ~negotiate_crypto_mode(km.mode, o.mode) THEN "bad_crypto_mode"
    ELSE IF km.secret # o.secret THEN "bad_secret" ELSE "secured"

crypto_rejection_reason(state, fallback) ==
    IF state = "bad_crypto_mode" THEN "crypto" ELSE fallback

(***************************************************************************)
(* The listener's view of a key request: reason "" when it is accepted,    *)
(* the answer it sends and the state of its crypto session.  Without       *)
(* enforcement it keeps a key of its own and reports the failure.          *)
(***************************************************************************)
ListenerCrypto(o, km) ==
    LET request == km.kind = "key"
        state == IF request THEN accept_key_material(o, km) ELSE "no_secret"
    IN  CASE o.secret = 0 /\ ~request ->
                [reason |-> "", answer |-> NoKey, state |-> "unsecured"]
          [] o.secret = 0 /\ request ->
                [reason |-> IF o.enforced THEN "unsecure" ELSE "",
                 answer |-> KeyState("no_secret"), state |-> "no_secret"]
          [] o.secret # 0 /\ state = "secured" ->
                [reason |-> "", answer |-> km, state |-> "secured"]
          [] OTHER ->
                [reason |-> IF ~o.enforced THEN ""
                            ELSE crypto_rejection_reason(state,
                                    IF request THEN "badsecret" ELSE "unsecure"),
                 answer |-> IF request THEN KeyState(state) ELSE NoKey,
                 state |-> state]

(***************************************************************************)
(* The caller's view of the answer to its key request km.                  *)
(***************************************************************************)
acknowledge_key_material(km, answer) ==
    IF answer.kind = "state" THEN answer.state
    ELSE IF answer = km THEN "secured" ELSE "bad_secret"

CallerCrypto(o, km, answer, advertised) ==
    LET matches == advertised = 0 \/ advertised = km.keylen
        state == IF answer.kind = "none" \/ ~matches THEN "securing"
                 ELSE acknowledge_key_material(km, answer)
    IN  CASE km.kind = "none" ->
                [reason |-> IF answer.kind # "none" /\ o.enforced THEN "unsecure" ELSE "",
                 state |-> "unsecured"]
          [] km.kind # "none" /\ state = "secured" ->
                [reason |-> "", state |-> "secured"]
          [] OTHER ->
                [reason |-> IF ~o.enforced THEN ""
                            ELSE crypto_rejection_reason(state,
                                    IF matches /\ (answer.kind = "none" \/ state = "no_secret")
                                    THEN "unsecure" ELSE "badsecret"),
                 state |-> IF state \in {"bad_secret", "bad_crypto_mode"}
                           THEN state ELSE "no_secret"]

(***************************************************************************)
(* The caller's key request for an advertised key length: an explicit      *)
(* length must match, a default one is replaced.                           *)
(***************************************************************************)
CallerKeyLength(o, advertised) ==
    IF advertised = 0 \/ advertised = KeyLength(o) THEN [reason |-> "", keylen |-> KeyLength(o)]
    ELSE IF o.keylen # 0 THEN [reason |-> "badsecret", keylen |-> KeyLength(o)]
    ELSE [reason |-> "", keylen |-> advertised]
=============================================================================
