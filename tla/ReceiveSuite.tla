---------------------------- MODULE ReceiveSuite ----------------------------
(* How datagrams reach the application: the shards that own the connections *)
(* and hand them their datagrams, the credits of a round, and the receive   *)
(* buffer in each of its modes.  Each is a part of one run.                 *)
EXTENDS ReceiveBuffer

CONSTANT Parts      \* the parts a run explores

VARIABLES
    part,
    connections, shards, state, entries_, snapshot_, generation_, serial_, stopped_

(* One solo message, one of two packets, three more solo messages. *)
MixedLayout == <<1, 2, 2, 3, 4, 5>>

(* A message of three packets between two solo ones. *)
LongLayout == <<1, 2, 2, 2, 3>>

(* Solo messages, as the sensor profile sends them. *)
SoloLayout == <<1, 2, 3, 4>>

Scenario(mode, layout, capacity, units, discards, group_member, max_drop_span) ==
    [mode |-> mode, layout |-> layout, capacity |-> capacity, units |-> units,
     discards |-> discards, group_member |-> group_member,
     max_drop_span |-> max_drop_span]

Messages == Scenario("message", MixedLayout, 4, 1, FALSE, FALSE, 2)
Rejected == Scenario("message", LongLayout, 4, 1, TRUE, FALSE, 2)
Stream == Scenario("stream", MixedLayout, 3, 2, TRUE, FALSE, 2)
Sensor == Scenario("sensor", SoloLayout, 3, 1, TRUE, FALSE, 1)
Member == Scenario("message", MixedLayout, 3, 1, FALSE, TRUE, 2)

AllModes == {Messages, Rejected, Stream, Sensor, Member}

(* One slot that is used twice; two connections that share a shard. *)
Mixed == {"setup", "data", "control", "command", "timer"}

A == INSTANCE ConnectionAffinity WITH slots <- connections, maximum_connections <- 1, shard_count <- 1, Wires <- {1},
                                      Traffic <- <<Mixed>>, command_capacity <- 1,
                                      datagram_capacity <- 2, data_capacity <- 1,
                                      turn_budget <- 1, maximum_counter <- 2

B == INSTANCE ConnectionAffinity WITH slots <- connections, maximum_connections <- 2, shard_count <- 1, Wires <- {1, 2},
                                      Traffic <- <<{"send"}, {"data"}>>, command_capacity <- 1,
                                      datagram_capacity <- 1, data_capacity <- 1,
                                      turn_budget <- 1, maximum_counter <- 2

K == INSTANCE ChannelCredits WITH attempts_per_round <- 5, bytes_per_round <- 10,
                                  maximum_bytes <- 2, Quota <- 2, Owners <- {1, 2, 3},
                                  Entries <- 2, maximum_counter <- 4

affinityVars == <<connections, shards, state>>
creditVars == <<entries_, snapshot_, generation_, serial_, stopped_>>
suiteVars == <<part, vars, affinityVars, creditVars>>

NoBuffer ==
    /\ scenario = 0 /\ slots = 0 /\ first_stored_sequence = 0 /\ next_ack_sequence = 0
    /\ discarding_message = 0 /\ message_query = 0 /\ packet_query = 0 /\ endpoints = 0
    /\ peer_send_horizon = 0 /\ delivered = 0 /\ accounted = 0 /\ now = 0
NoAffinity == connections = 0 /\ shards = 0 /\ state = 0
NoCredits ==
    entries_ = 0 /\ snapshot_ = 0 /\ generation_ = 0 /\ serial_ = 0 /\ stopped_ = 0

SuiteInit ==
    /\ part \in Parts
    /\ \/ part = "buffer" /\ Init /\ NoAffinity /\ NoCredits
       \/ part = "slot" /\ A!Init /\ NoBuffer /\ NoCredits
       \/ part = "pair" /\ B!Init /\ NoBuffer /\ NoCredits
       \/ part = "credits" /\ K!Init /\ NoBuffer /\ NoAffinity

SuiteNext ==
    \/ part = "buffer" /\ Next /\ UNCHANGED <<part, affinityVars, creditVars>>
    \/ part = "slot" /\ A!Next /\ UNCHANGED <<part, vars, creditVars>>
    \/ part = "pair" /\ B!Next /\ UNCHANGED <<part, vars, creditVars>>
    \/ part = "credits" /\ K!Next /\ UNCHANGED <<part, vars, affinityVars>>

SuiteSpec == SuiteInit /\ [][SuiteNext]_suiteVars

-----------------------------------------------------------------------------
(* The ring, its caches, its recorded endpoints and its repair deadlines are *)
(* what a fresh look at the stored packets says.                             *)
RingSound ==
    part = "buffer" => TypeOK /\ Aligned /\ CachesAgree /\ EndpointsExact /\ GapsHaveDeadlines

(* The cumulative ACK covers only what is accounted for, and all of it. *)
AckExact == part = "buffer" => AckCoversOnlyAccounted /\ AckNotLate

(* Packets are read once, in order and in whole messages, nothing resolved   *)
(* is left at the head to block what follows, and neither a peer's DROPREQ   *)
(* nor leaving a group loses a complete message.                             *)
DeliverySound ==
    part = "buffer" =>
      /\ DeliveredInOrder /\ DeliveredWhole /\ HeadNotResolved
      /\ PeerDropKeepsMessages /\ CopyKeepsMessages

(* A connection with work is in the ready list of its shard, once, and the   *)
(* shard is awake; it has one owner, its events leave in order, and nothing  *)
(* of it runs once it closes (ConnectionAffinity).                           *)
AffinitySound ==
    /\ part = "slot" => A!AffinitySound /\ A!CountsExact
    /\ part = "pair" => B!AffinitySound /\ B!CountsExact

(* A round lends and sends what it may, whoever asks (ChannelCredits). *)
CreditsSound == part = "credits" => K!CreditsSound

=============================================================================
