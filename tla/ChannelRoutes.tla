--------------------------- MODULE ChannelRoutes ---------------------------
(***************************************************************************)
(* The routing tables of a DatagramChannel: established connections with   *)
(* their poll ring and handshake replay keys, ingress-only routes of       *)
(* multicast receivers, setups with their bounded inboxes and the          *)
(* count/XOR index over them, and the listener's handshake inbox.          *)
(*                                                                         *)
(* The channel worker dispatches one datagram at a time, in two steps: the *)
(* lookup under routes_mutex_, and the delivery after it is released.      *)
(* Setup and application threads change the tables in between.  Numbers    *)
(* are given to datagrams in the order the worker reads them.              *)
(***************************************************************************)
EXTENDS Integers, Sequences, FiniteSets, SequencesExt, FiniteSetsExt, Bitwise

CONSTANTS
    Ids,            \* protocol socket ids of local sockets (positive numbers)
    Peers,          \* remote endpoints
    Callers,        \* remote socket ids (positive numbers)
    Capacity,       \* capacity of a setup inbox
    MaxSetups,      \* maximum_setup_routes (4096)
    MaxDatagrams    \* bound: datagrams read

VARIABLES
    life,       \* what each local socket is: none, setup, up, ingress, gone
    routes_,    \* socket ids with a route
    ring,       \* the poll ring from next_poll_route_
    handshake_routes_,  \* replay key -> socket id
    setup_routes_,      \* socket id -> [peer, caller]
    setup_index_,       \* <<peer, caller or 0>> -> [count, socket_xor]
    inbox,      \* datagrams in the setup inbox of each socket
    closed,     \* sockets whose setup inbox is closed
    promoting,  \* the setup whose promotion holds routes_mutex_
    worker,     \* the datagram being dispatched and where it goes
    read,       \* datagrams read so far
    processed   \* history: the datagram each runtime processed last

vars == <<life, routes_, ring, handshake_routes_, setup_routes_, setup_index_, inbox,
          closed, promoting, worker, read, processed>>
tables == <<life, routes_, ring, handshake_routes_, setup_routes_, setup_index_>>

None == 0
Keys == Peers \X ({None} \cup Callers)
Idle == [at |-> "idle", n |-> 0, runtime |-> None, setup |-> None, handshake |-> FALSE]

Init ==
    /\ life = [i \in Ids |-> "none"]
    /\ routes_ = {}
    /\ ring = <<>>
    /\ handshake_routes_ = [k \in {} |-> None]
    /\ setup_routes_ = [i \in {} |-> <<>>]
    /\ setup_index_ = [k \in {} |-> <<>>]
    /\ inbox = [i \in Ids |-> <<>>]
    /\ closed = {}
    /\ promoting = None
    /\ worker = Idle
    /\ read = 0
    /\ processed = [i \in Ids |-> 0]

Without(f, k) == [x \in DOMAIN f \ {k} |-> f[x]]
With(f, k, v) == [x \in DOMAIN f \cup {k} |-> IF x = k THEN v ELSE f[x]]

-----------------------------------------------------------------------------
(* Mutant: the tables are open while a setup inbox drains. *)
UnlockedAlways == TRUE

(* routes_mutex_ is free. *)
Unlocked == promoting = None

(* Setups. *)

Indexed(index, key, id) ==
    LET old == IF key \in DOMAIN index THEN index[key] ELSE [count |-> 0, socket_xor |-> 0]
    IN  With(index, key, [count |-> old.count + 1, socket_xor |-> old.socket_xor ^^ id])

Unindexed(index, key, id) ==
    IF key \notin DOMAIN index THEN index
    ELSE IF index[key].count = 1 THEN Without(index, key)
    ELSE [index EXCEPT ![key] = [count |-> @.count - 1, socket_xor |-> @.socket_xor ^^ id]]

(* Mutant: the exact identity stays in the index. *)
unindex_setup_endpoint(id, peer, caller) == Unindexed(setup_index_, <<peer, None>>, id)

unindex_setup(id, peer, caller) ==
    LET endpoint == Unindexed(setup_index_, <<peer, None>>, id)
    IN  IF caller = None THEN endpoint ELSE Unindexed(endpoint, <<peer, caller>>, id)

(* A caller's or a rendezvous setup does not know its peer's socket id.     *)
register_setup_inbox(id, peer, caller) ==
    /\ Unlocked /\ life[id] = "none" /\ Cardinality(DOMAIN setup_routes_) < MaxSetups
    /\ life' = [life EXCEPT ![id] = "setup"]
    /\ setup_routes_' = With(setup_routes_, id, [peer |-> peer, caller |-> caller])
    /\ setup_index_' = LET endpoint == Indexed(setup_index_, <<peer, None>>, id)
                       IN  IF caller = None THEN endpoint
                           ELSE Indexed(endpoint, <<peer, caller>>, id)
    /\ UNCHANGED <<routes_, ring, handshake_routes_, inbox, closed, promoting, worker, read,
                   processed>>

(* ~SetupRouteGuard: the setup failed; its inbox closes first. *)
CloseInbox(id) ==
    /\ life[id] = "setup" /\ id \notin closed
    /\ closed' = closed \cup {id}
    /\ UNCHANGED <<tables, inbox, promoting, worker, read, processed>>

unregister_setup_inbox(id) ==
    /\ Unlocked /\ life[id] = "setup" /\ id \in closed
    /\ setup_index_' = unindex_setup(id, setup_routes_[id].peer, setup_routes_[id].caller)
    /\ setup_routes_' = Without(setup_routes_, id)
    /\ life' = [life EXCEPT ![id] = "gone"]
    /\ inbox' = [inbox EXCEPT ![id] = <<>>]
    /\ UNCHANGED <<routes_, ring, handshake_routes_, closed, promoting, worker, read, processed>>

(* The setup thread takes a handshake from its inbox. *)
pop_for(id) ==
    /\ life[id] = "setup" /\ inbox[id] # <<>>
    /\ inbox' = [inbox EXCEPT ![id] = Tail(@)]
    /\ UNCHANGED <<tables, closed, promoting, worker, read, processed>>

-----------------------------------------------------------------------------
(* Established connections.  A listener's connection answers repeated       *)
(* handshakes of its caller; a replay key another connection holds refuses  *)
(* the route.                                                               *)

CanRegister(id, key) == id \notin routes_ /\ (key = <<>> \/ key \notin DOMAIN handshake_routes_)

register_connection_locked(id, key) ==
    /\ routes_' = routes_ \cup {id}
    /\ handshake_routes_' = IF key = <<>> THEN handshake_routes_
                            ELSE With(handshake_routes_, key, id)
    /\ ring' = Append(ring, id)

(* promote_setup_connection: the runtime is made and registered under       *)
(* routes_mutex_, which is held until the setup inbox is drained.           *)
promote_setup_connection(id) ==
    LET s   == setup_routes_[id]
        key == IF s.caller = None THEN <<>> ELSE <<s.peer, s.caller>>
    IN  /\ Unlocked /\ life[id] = "setup" /\ id \notin closed
        /\ CanRegister(id, key)
        /\ register_connection_locked(id, key)
        /\ setup_index_' = unindex_setup(id, s.peer, s.caller)
        /\ setup_routes_' = Without(setup_routes_, id)
        /\ life' = [life EXCEPT ![id] = "up"]
        /\ promoting' = id
        /\ UNCHANGED <<inbox, closed, worker, read, processed>>

(* A delivery that was looked up before may still push meanwhile; one that  *)
(* comes after the last pop is lost with the inbox.                         *)
drain_setup_inbox_locked ==
    /\ promoting # None
    /\ IF inbox[promoting] = <<>>
       THEN promoting' = None /\ UNCHANGED <<processed, inbox>>
       ELSE /\ processed' = [processed EXCEPT ![promoting] = Head(inbox[promoting])]
            /\ inbox' = [inbox EXCEPT ![promoting] = Tail(@)]
            /\ UNCHANGED promoting
    /\ UNCHANGED <<tables, closed, worker, read>>

register_ingress_route(id) ==
    /\ Unlocked /\ life[id] = "none"
    /\ life' = [life EXCEPT ![id] = "ingress"]
    /\ routes_' = routes_ \cup {id}
    /\ UNCHANGED <<ring, handshake_routes_, setup_routes_, setup_index_, inbox, closed,
                   promoting, worker, read, processed>>

(* Mutant: the replay key stays behind. *)
KeysAfterKept(id) == handshake_routes_

KeysAfter(id) ==
    [k \in {x \in DOMAIN handshake_routes_ : handshake_routes_[x] # id} |-> handshake_routes_[k]]

unregister_connection(id) ==
    /\ Unlocked /\ life[id] \in {"up", "ingress"}
    /\ life' = [life EXCEPT ![id] = "gone"]
    /\ routes_' = routes_ \ {id}
    /\ ring' = SelectSeq(ring, LAMBDA q : q # id)
    /\ handshake_routes_' = KeysAfter(id)
    /\ UNCHANGED <<setup_routes_, setup_index_, inbox, closed, promoting, worker, read,
                   processed>>

-----------------------------------------------------------------------------
(* The worker. *)

(* The one setup an index entry names, or none when it names several. *)
Select(key) ==
    IF key \in DOMAIN setup_index_ /\ setup_index_[key].count = 1
    THEN setup_index_[key].socket_xor ELSE None

Ambiguous(key) == key \in DOMAIN setup_index_ /\ setup_index_[key].count # 1

(* The setup a handshake of src at peer belongs to: the one it addresses,    *)
(* the only one of that caller, or, for a first handshake, the only one of   *)
(* the endpoint.                                                             *)
SetupOf(peer, dest, src) ==
    LET addressed == /\ dest \in DOMAIN setup_routes_ /\ setup_routes_[dest].peer = peer
                     /\ setup_routes_[dest].caller \in {None, src}
        exact     == IF src = None THEN None ELSE Select(<<peer, src>>)
    IN  IF addressed THEN dest
        ELSE IF exact # None THEN exact
        ELSE IF dest # None \/ (src # None /\ Ambiguous(<<peer, src>>)) THEN None
        ELSE IF src \in DOMAIN setup_routes_ /\ setup_routes_[src].peer = peer THEN src
        ELSE Select(<<peer, None>>)

(* dispatch: a handshake is looked up, under the lock. *)
LookUpHandshake(peer, dest, src) ==
    /\ Unlocked /\ worker.at = "idle" /\ read < MaxDatagrams
    /\ read' = read + 1
    /\ worker' = [at |-> "deliver", n |-> read + 1,
                  runtime |-> IF <<peer, src>> \in DOMAIN handshake_routes_
                              THEN handshake_routes_[<<peer, src>>] ELSE None,
                  setup |-> SetupOf(peer, dest, src),
                  handshake |-> TRUE]
    /\ UNCHANGED <<tables, inbox, closed, promoting, processed>>

(* DATA or another control packet. *)
LookUpPacket(peer, dest) ==
    /\ Unlocked /\ worker.at = "idle" /\ read < MaxDatagrams
    /\ read' = read + 1
    /\ worker' = [at |-> "deliver", n |-> read + 1,
                  runtime |-> IF dest \in routes_ THEN dest ELSE None,
                  setup |-> IF dest \notin routes_ /\ dest \in DOMAIN setup_routes_
                               /\ setup_routes_[dest].peer = peer
                            THEN dest ELSE None,
                  handshake |-> FALSE]
    /\ UNCHANGED <<tables, inbox, closed, promoting, processed>>

(* A runtime declines a handshake it did not conclude. *)
Deliver ==
    /\ worker.at = "deliver"
    /\ worker' = Idle
    /\ \/ /\ worker.runtime # None
          /\ processed' = [processed EXCEPT ![worker.runtime] = worker.n]
          /\ UNCHANGED inbox
       \/ /\ worker.runtime = None \/ worker.handshake
          /\ UNCHANGED processed
          /\ inbox' = IF /\ worker.setup # None /\ worker.setup \notin closed
                         /\ life[worker.setup] = "setup" \/ promoting = worker.setup
                         /\ Len(inbox[worker.setup]) < Capacity
                      THEN [inbox EXCEPT ![worker.setup] = Append(@, worker.n)]
                      ELSE inbox
    /\ UNCHANGED <<tables, closed, promoting, read>>

-----------------------------------------------------------------------------

Next ==
    \/ \E i \in Ids :
         \/ \E p \in Peers, c \in {None} \cup Callers : register_setup_inbox(i, p, c)
         \/ CloseInbox(i) \/ unregister_setup_inbox(i) \/ pop_for(i)
         \/ promote_setup_connection(i) \/ register_ingress_route(i)
         \/ unregister_connection(i)
    \/ \E p \in Peers, d \in {None} \cup Ids : LookUpPacket(p, d)
    \/ \E p \in Peers, d \in {None} \cup Ids, s \in {None} \cup Callers : LookUpHandshake(p, d, s)
    \/ Deliver \/ drain_setup_inbox_locked

Spec == Init /\ [][Next]_vars

-----------------------------------------------------------------------------

(* The tables agree after any sequence of registrations: the index counts    *)
(* the setups of each endpoint and identity and its XOR names the only one,  *)
(* the ring holds every polled connection once, and every replay key leads   *)
(* to a connection that still has its route.                                 *)
TablesAgree ==
    /\ DOMAIN setup_index_ =
         {<<setup_routes_[i].peer, None>> : i \in DOMAIN setup_routes_}
         \cup {<<setup_routes_[i].peer, setup_routes_[i].caller>> : i \in DOMAIN setup_routes_}
    /\ \A k \in DOMAIN setup_index_ :
         LET matching == {i \in DOMAIN setup_routes_ :
                            setup_routes_[i].peer = k[1] /\ k[2] \in {None, setup_routes_[i].caller}}
         IN  /\ setup_index_[k].count = Cardinality(matching)
             /\ Cardinality(matching) = 1 => matching = {setup_index_[k].socket_xor}
    /\ IsInjective(ring) /\ ToSet(ring) = {i \in Ids : life[i] = "up"}
    /\ \A k \in DOMAIN handshake_routes_ : life[handshake_routes_[k]] = "up"

(* A connection processes its datagrams in the order the worker read them:    *)
(* none is processed while an earlier one still waits in its setup inbox or   *)
(* is on its way there.                                                       *)
InOrder ==
    \A i \in Ids : /\ \A k \in 1 .. Len(inbox[i]) : inbox[i][k] > processed[i]
                   /\ worker.at = "deliver" => processed[i] < worker.n

=============================================================================
