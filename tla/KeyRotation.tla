---------------------------- MODULE KeyRotation ----------------------------
(***************************************************************************)
(* The traffic keys of one direction of an encrypted connection, from the  *)
(* end of the handshake on: the transmit half of one CryptoSession, the    *)
(* receive half of the peer's, and the network between them.               *)
(*                                                                         *)
(* A key is a number.  Key 0 is the handshake key, which both sides hold   *)
(* and which never protects DATA of this direction; key 1 is the           *)
(* directional key drawn by prepare_bidirectional_sender (or generation 0  *)
(* of the group's SharedTransmitKeySchedule), and every later key follows  *)
(* the one before it.  The even and the odd selector alternate, so a       *)
(* selector names a different key every second rotation.  A key request    *)
(* is named by the newest key it carries: request 1 carries key 1, request *)
(* t > 1 the keys t-1 and t.                                               *)
(*                                                                         *)
(* The network loses, delays, duplicates and reorders: a key request, a    *)
(* key response or a DATA packet that was sent once may arrive any number  *)
(* of times, at any later moment, or never.  Requests older than           *)
(* RequestLifetime rotations no longer arrive, nor does DATA more than     *)
(* half the sequence space behind the receive frontier.  Positions of the  *)
(* 31-bit sequence space are unwrapped.                                    *)
(***************************************************************************)
EXTENDS Integers, Sequences, FiniteSets, FiniteSetsExt, SequencesExt

CONSTANTS
    MaxSequence,      \* bound: the last sequence position of a behaviour
    Refresh,          \* effective_refresh_rate(), at least 3
    Preannouncement,  \* preannouncement_packets_, 1 .. (Refresh-1) \div 2
    FlowWindow,       \* flow_window_packets_
    KeyHistory,       \* receive_key_history_capacity and
                      \* key_material_history_capacity (4 in the code)
    RequestLifetime,  \* bound: rotations a key request survives in the net
    HalfRange,        \* SequenceNumber::half_range
    Settings          \* the sessions checked, see Setting

VARIABLES
    setting,  \* shared, mode, authenticated, expire, early: constant
    snd,      \* the transmit half of the sender's CryptoSession
    rcv,      \* the receive half of the receiver's CryptoSession
    cipher,   \* position -> the key its stored ciphertext was made with
    opened,   \* position -> the key the accepted payload was opened with
    unacked,  \* first position not cumulatively acknowledged at the sender
    requests, \* KMREQs the network may deliver
    responses \* KMRSPs the network may deliver

vars == <<setting, snd, rcv, cipher, opened, unacked, requests, responses>>

None == -1
Positions == 0 .. MaxSequence
Selectors == {"even", "odd"}

(* shared: keys come from the group's positional schedule; expire: the     *)
(* positions whose message can expire unsent, once the first key is        *)
(* acknowledged or, with early, at any time.                               *)
Setting == [shared : BOOLEAN, mode : {"ctr", "gcm"}, authenticated : BOOLEAN,
            expire : SUBSET Positions, early : BOOLEAN]

selector_of(key) == IF key = 0 \/ key % 2 = 1 THEN "even" ELSE "odd"
KeysOf(request) == IF request = 1 THEN {1} ELSE {request - 1, request}

(* Packets handed to the network and not yet acknowledged. *)
packets_in_flight == Cardinality({q \in Positions : cipher[q] # None /\ q >= unacked})

(* remember_key_material: newest first, the oldest entry falls off. *)
remember_key_material(history, request) ==
    SubSeq(<<request>> \o history, 1,
           IF Len(history) < KeyHistory THEN Len(history) + 1 ELSE KeyHistory)

-----------------------------------------------------------------------------
(* The sender.                                                             *)

(* build_sender_key_material: the new request replaces the pending one. *)
Announce(s, key) == [s EXCEPT !.announced = key, !.key_material_pending = TRUE]

(* prepare_rotation.  The effective preannouncement pre lies between the   *)
(* configured one and the floor's limit, depending on the observed rate.   *)
prepare_rotation(s, pre) ==
    IF ~setting.shared /\ ~s.rotation_prepared
       /\ s.packets_on_active_key >= Refresh - pre
    THEN [Announce(s, s.active + 1) EXCEPT !.rotation_prepared = TRUE,
             !.pending_acknowledged = FALSE, !.state = "securing"]
    ELSE s

effective_preannouncements == Preannouncement .. ((Refresh - 1) \div 2)

(* prepare_data_packet: positions skipped since the last prepared packet   *)
(* count as used on the active key.                                        *)
prepare_data_packet(s, pre) ==
    IF setting.shared \/ s.prepared_position = s.next THEN s
    ELSE LET skipped == IF s.prepared_position = None THEN 0
                        ELSE s.next - s.prepared_position
                             - (IF s.prepared_packet_sent THEN 1 ELSE 0)
         IN prepare_rotation([s EXCEPT !.packets_on_active_key = @ + skipped,
                                 !.prepared_packet_sent = FALSE,
                                 !.prepared_position = s.next], pre)

(* prepare_data_sequence: with the shared schedule the position decides    *)
(* the key, and its last Preannouncement positions announce the next one.  *)
generation_at(position) == position \div Refresh
announcement_due(position) == position % Refresh >= Refresh - Preannouncement

(* ensure_shared_key: the schedule's key of a position. *)
ensure_shared_key(position) == generation_at(position) + 1

prepare_data_sequence(s) ==
    LET key == ensure_shared_key(s.next)
    IN  IF ~setting.shared THEN s
        ELSE IF announcement_due(s.next) /\ s.announced < key + 1
        THEN [Announce(s, key + 1) EXCEPT !.active = key, !.rotation_prepared = TRUE,
                 !.pending_acknowledged = FALSE, !.state = "securing"]
        ELSE [s EXCEPT !.active = key]

ready_to_send_data(s) ==
    IF setting.shared THEN s.state = "secured" \/ s.rotation_prepared
    ELSE /\ s.state = "secured" \/ s.rotation_prepared
         /\ \/ s.packets_on_active_key + 1 < Refresh
            \/ s.rotation_prepared /\ s.pending_acknowledged
            \/ s.rotation_prepared /\ s.packets_on_active_key + 1 < 2 * Refresh

(* note_sequences_consumed(1): past the refresh point the successor takes  *)
(* over if its request was acknowledged; otherwise the active key is kept. *)
note_data_packet_sent(s) ==
    LET used == [s EXCEPT !.packets_on_active_key = @ + 1, !.prepared_packet_sent = TRUE]
    IN  IF setting.shared THEN s
        ELSE IF /\ used.packets_on_active_key >= Refresh
                /\ s.rotation_prepared /\ s.pending_acknowledged
        THEN [used EXCEPT !.active = @ + 1, !.packets_on_active_key = 0,
                 !.rotation_prepared = FALSE, !.pending_acknowledged = FALSE,
                 !.state = "secured"]
        ELSE used

(* service_key_rotation: a pending request is sent when its retry is due;  *)
(* the timer is left open.                                                 *)
SendRequests(s, due) ==
    requests' = {r \in IF due /\ s.key_material_pending
                       THEN requests \cup {s.announced} ELSE requests :
                 r >= s.announced - RequestLifetime}

(* encrypt and seal: the key of the packet at the next position; its       *)
(* ciphertext is kept in the send buffer for every retransmission.         *)
encrypt(s) == [cipher EXCEPT ![s.next] = s.active]

(* send_data of an original packet and the accounting of its completion. *)
send_data(s) ==
    /\ cipher' = encrypt(s)
    /\ snd' = [note_data_packet_sent(s) EXCEPT !.next = @ + 1]

(* One turn of the poll loop with new DATA waiting: rotation is serviced   *)
(* before and after the candidate is prepared, then the packet is sent     *)
(* unless the key or the flow window holds it back.                        *)
PollNewData ==
    \E pre \in effective_preannouncements, due \in BOOLEAN :
        LET s == prepare_data_sequence(
                     prepare_data_packet(prepare_rotation(snd, pre), pre))
        IN  /\ snd.next \in Positions
            /\ SendRequests(s, due)
            /\ IF ready_to_send_data(s) /\ packets_in_flight < FlowWindow
               THEN send_data(s)
               ELSE /\ snd' = s
                    /\ UNCHANGED cipher
            /\ UNCHANGED <<setting, rcv, opened, unacked, responses>>

(* A poll without new DATA: service_key_rotation alone. *)
service_key_rotation ==
    \E pre \in effective_preannouncements, due \in BOOLEAN :
        /\ snd' = prepare_rotation(snd, pre)
        /\ SendRequests(prepare_rotation(snd, pre), due)
        /\ UNCHANGED <<setting, rcv, cipher, opened, unacked, responses>>

(* A message's time to live runs out before its packet was sent: the       *)
(* position is never used.                                                 *)
DropUnsent ==
    /\ snd.next < MaxSequence /\ snd.next \in setting.expire
    /\ setting.early \/ ~snd.directional_key_pending
    /\ snd' = [snd EXCEPT !.next = @ + 1]
    /\ UNCHANGED <<setting, rcv, cipher, opened, unacked, requests, responses>>

(* A cumulative ACK: everything before the first gap is released. *)
ReceiveAcknowledgement ==
    LET missing == {q \in unacked .. snd.next - 1 :
                       cipher[q] # None /\ opened[q] = None}
    IN  /\ unacked' = (IF missing = {} THEN snd.next ELSE Min(missing))
        /\ UNCHANGED <<setting, snd, rcv, cipher, opened, requests, responses>>

(* SessionAuthentication::open: of an authenticated session only the       *)
(* newest request's response passes, and no request older than the newest  *)
(* one received.                                                           *)
AuthenticResponse(response) == setting.authenticated => response = snd.announced
AuthenticRequest(request) == setting.authenticated => request >= rcv.counter

(* acknowledge_key_material: a repeated or outdated response changes       *)
(* nothing.                                                                *)
(* Mutant: any response of the session acknowledges the pending request. *)
AcknowledgesAny(response) == response <= snd.announced
Acknowledges(response) == response = snd.announced

ReceiveKeyResponse(response) ==
    /\ response \in responses
    /\ AuthenticResponse(response)
    /\ ~Contains(snd.acknowledged, response)
    /\ Acknowledges(response)
    /\ ~snd.pending_acknowledged \/ snd.key_material_pending
    /\ snd' = [snd EXCEPT !.pending_acknowledged = TRUE, !.key_material_pending = FALSE,
                  !.state = "secured", !.directional_key_pending = FALSE,
                  !.rotation_prepared = @ /\ ~setting.shared,
                  !.acknowledged = remember_key_material(@, response)]
    /\ UNCHANGED <<setting, rcv, cipher, opened, unacked, requests, responses>>

-----------------------------------------------------------------------------
(* The receiver.  A selector's slot holds its current key and whether DATA *)
(* was opened with it (received_payload); the keys it displaced are kept,  *)
(* newest first, each with the receive frontier at its displacement.       *)

NoKey == [key |-> None, used |-> FALSE]

(* remember_receive_key *)
Displace(history, slot) ==
    SubSeq(<<[key |-> slot.key, used |-> slot.used, ceiling |-> rcv.highest]>> \o history, 1,
           IF Len(history) < KeyHistory THEN Len(history) + 1 ELSE KeyHistory)

Discarded(history, before) ==
    IF Len(history) = KeyHistory /\ Last(history).ceiling # None
    THEN Last(history).ceiling ELSE before

Retired(sel, key) == {i \in DOMAIN rcv.history[sel] : rcv.history[sel][i].key = key}

(* install_receive_key: the selector's state after the key is installed. *)
install_receive_key(sel, key) ==
    LET slot == rcv.slot[sel]
        history == rcv.history[sel]
        fresh == [key |-> key, used |-> FALSE]
        same == [slot |-> slot, history |-> history, gone |-> rcv.gone[sel]]
    IN  IF slot.key = key THEN same
        ELSE IF Retired(sel, key) # {}
        THEN [same EXCEPT !.slot = fresh,
                 !.history = SubSeq(history, Min(Retired(sel, key)) + 1, Len(history))]
        ELSE IF slot.key = None THEN [same EXCEPT !.slot = fresh]
        ELSE [slot |-> fresh, history |-> Displace(history, slot),
              gone |-> Discarded(history, rcv.gone[sel])]

(* restore_would_erase_received_generation *)
RestoreErasesUsed(sel, key) ==
    \/ rcv.slot[sel].used
    \/ \E i \in 1 .. Min(Retired(sel, key)) - 1 : rcv.history[sel][i].used

(* accept_key_material beyond the repeats of a known request.  Keys of an  *)
(* honest peer are never reflected, equal or known under another identity, *)
(* so what is left to refuse is the replay of retired keys.                *)
(* Mutant: a request is accepted only if none of its keys is in use. *)
AcceptableUnused(request) ==
    \A k \in KeysOf(request) : rcv.slot[selector_of(k)].key # k /\ Retired(selector_of(k), k) = {}
Acceptable(request) ==
    LET replayed == {k \in KeysOf(request) : Retired(selector_of(k), k) # {}}
        fresh == {k \in KeysOf(request) \ replayed : rcv.slot[selector_of(k)].key # k}
    IN  /\ replayed # {} => fresh # {}
        /\ \A k \in replayed : ~RestoreErasesUsed(selector_of(k), k)

InstallAll(request) ==
    LET after == [sel \in Selectors |->
                     LET keys == {k \in KeysOf(request) : selector_of(k) = sel}
                     IN  IF keys = {}
                         THEN [slot |-> rcv.slot[sel], history |-> rcv.history[sel],
                               gone |-> rcv.gone[sel]]
                         ELSE install_receive_key(sel, CHOOSE k \in keys : TRUE)]
    IN  [rcv EXCEPT !.slot = [sel \in Selectors |-> after[sel].slot],
                    !.history = [sel \in Selectors |-> after[sel].history],
                    !.gone = [sel \in Selectors |-> after[sel].gone],
                    !.requests = remember_key_material(@, request)]

(* A KMREQ at the receiver.  The authenticated form carries a counter that *)
(* may not go back and is remembered even if the material is refused; an   *)
(* accepted or a repeated request is answered.                             *)
ReceiveKeyRequest(request) ==
    /\ request \in requests
    /\ AuthenticRequest(request)
    /\ LET known == Contains(rcv.requests, request)
           counted == IF setting.authenticated THEN request ELSE rcv.counter
       IN  /\ rcv' = [(IF ~known /\ Acceptable(request) THEN InstallAll(request) ELSE rcv)
                      EXCEPT !.counter = counted]
           /\ responses' = IF known \/ Acceptable(request)
                           THEN responses \cup {request} ELSE responses
    /\ UNCHANGED <<setting, snd, cipher, opened, unacked, requests>>

(* receive_slot_for_packet: the oldest retained generation whose ceiling   *)
(* covers the position, the current key beyond all ceilings, nothing for a *)
(* position that belonged to a discarded generation.                       *)
Recent(ceiling) == ceiling # None /\ ceiling > rcv.highest - HalfRange

Covering(sel, position) ==
    {i \in DOMAIN rcv.history[sel] :
        /\ Recent(rcv.history[sel][i].ceiling)
        /\ position <= rcv.history[sel][i].ceiling}

(* Mutant: only the current key of the selector is tried. *)
receive_slot_for_packetCurrent(sel, position) == 0
receive_slot_for_packet(sel, position) ==
    IF 1 \notin Covering(sel, position) THEN 0
    ELSE IF Recent(rcv.gone[sel]) /\ position <= rcv.gone[sel] THEN None
    ELSE Max(Covering(sel, position))

(* The key a packet is tried with. *)
Candidate(sel, index) ==
    IF index = None THEN NoKey
    ELSE IF index = 0 THEN rcv.slot[sel]
    ELSE [key |-> rcv.history[sel][index].key, used |-> rcv.history[sel][index].used]

(* decrypt and open: AES-CTR opens a payload with any key, AES-GCM refuses *)
(* all but the right one.                                                  *)
Opens(position, entry) ==
    /\ entry.key # None
    /\ setting.mode = "gcm" => entry.key = cipher[position]

MarkUsed(sel, index) ==
    [rcv EXCEPT !.slot[sel].used = @ \/ index = 0,
                !.history[sel] = [i \in DOMAIN @ |->
                    IF i = index THEN [@[i] EXCEPT !.used = TRUE] ELSE @[i]]]

(* note_authenticated_receive_sequence *)
NoteSequence(r, position) == [r EXCEPT !.highest = Max({@, position})]

(* DATA at the receiver, original or retransmitted: decrypt or open, then  *)
(* the receive window, then note_accepted_receive_sequence.  A packet that *)
(* cannot be opened is left unacknowledged.                                *)
ReceiveData(position) ==
    /\ cipher[position] # None
    /\ position > rcv.highest - HalfRange
    /\ LET sel == selector_of(cipher[position])
           index == receive_slot_for_packet(sel, position)
           new == opened[position] = None
       IN  /\ Opens(position, Candidate(sel, index))
           /\ rcv' = IF new \/ setting.mode = "gcm"
                     THEN NoteSequence(MarkUsed(sel, index), position)
                     ELSE MarkUsed(sel, index)
           /\ opened' = IF new
                        THEN [opened EXCEPT ![position] = Candidate(sel, index).key]
                        ELSE opened
    /\ UNCHANGED <<setting, snd, cipher, unacked, requests, responses>>

-----------------------------------------------------------------------------
(* The state the handshake leaves: a directional key drawn and its request *)
(* built but not sent.  A receiver of a dispatch group does not keep the   *)
(* handshake key.                                                          *)
Init ==
    /\ setting \in Settings
    /\ snd = [active |-> 1, packets_on_active_key |-> 0, rotation_prepared |-> FALSE,
              pending_acknowledged |-> FALSE, key_material_pending |-> TRUE,
              directional_key_pending |-> TRUE, state |-> "securing", announced |-> 1,
              acknowledged |-> <<>>, next |-> 0, prepared_position |-> None,
              prepared_packet_sent |-> FALSE]
    /\ rcv = [slot |-> [sel \in Selectors |->
                           IF sel = "even" /\ ~setting.shared
                           THEN [key |-> 0, used |-> FALSE] ELSE NoKey],
              history |-> [sel \in Selectors |-> <<>>],
              gone |-> [sel \in Selectors |-> None],
              highest |-> None, counter |-> 0, requests |-> <<>>]
    /\ cipher = [q \in Positions |-> None]
    /\ opened = [q \in Positions |-> None]
    /\ unacked = 0
    /\ requests = {}
    /\ responses = {}

Next ==
    \/ PollNewData
    \/ service_key_rotation
    \/ DropUnsent
    \/ ReceiveAcknowledgement
    \/ \E t \in requests : ReceiveKeyRequest(t)
    \/ \E t \in responses : ReceiveKeyResponse(t)
    \/ \E q \in Positions : ReceiveData(q)

(* The runtime polls for ever; what is retried for ever gets through, and  *)
(* so does some ACK.                                                       *)
Fairness ==
    /\ WF_vars(PollNewData)
    /\ WF_vars(service_key_rotation)
    /\ WF_vars(ReceiveAcknowledgement)
    /\ \A t \in 1 .. MaxSequence : /\ WF_vars(ReceiveKeyRequest(t))
                                   /\ WF_vars(ReceiveKeyResponse(t))
    /\ \A q \in Positions : WF_vars(ReceiveData(q))

Spec == Init /\ [][Next]_vars /\ Fairness

-----------------------------------------------------------------------------
(* The rotation of a session's own keys: no packet is ever protected with  *)
(* a key that the receiver has not installed, however late, repeated or    *)
(* outdated the responses are that the sender sees, and no key protects    *)
(* more than two refresh periods of packets (ready_to_send_data).          *)
ReleasedKeysInstalled ==
    ~setting.shared =>
        \A q \in Positions : cipher[q] # None =>
            /\ \E sel \in Selectors : cipher[q] <= rcv.slot[sel].key
            /\ Cardinality({p \in Positions : cipher[p] = cipher[q]}) <= 2 * Refresh

(* The receive frontier had passed every packet of each displaced key when *)
(* the key was displaced.  It fails when a burst swallows the last packets *)
(* of a key and all those of its successor sent before the next request.   *)
FrontierPassed ==
    \A sel \in Selectors : \A i \in DOMAIN rcv.history[sel] : \A q \in Positions :
        cipher[q] = rcv.history[sel][i].key => q <= rcv.history[sel][i].ceiling

(* A payload is opened with the key it was protected with or not at all    *)
(* (receive_slot_for_packet), whatever rotations, reorderings and          *)
(* retransmissions happened in between, unless a burst of losses kept the  *)
(* receive frontier behind packets of a key that was then displaced.       *)
OpenedWithOwnKey ==
    \A q \in Positions :
       opened'[q] # opened[q] /\ ~setting.shared /\ FrontierPassed
           => opened'[q] = cipher[q]

(* What the encryption document promises of a dispatch receiver: "it never *)
(* sees plaintext decrypted with a wrong key".                             *)
NeverWrongKey == \A q \in Positions : opened[q] \in {None, cipher[q]}

(* Rotation never strands a session: with requests, responses and packets  *)
(* that eventually get through, every position is sent under some key and  *)
(* accepted by the receiver, across all rotations, with the same exception *)
(* (an authenticated packet routed to the wrong key is refused for ever).  *)
AllOpened ==
    ~setting.shared /\ setting.expire = {} /\ FrontierPassed
        => \A q \in Positions : opened[q] # None
RotationsComplete == <>[]AllOpened
=============================================================================
