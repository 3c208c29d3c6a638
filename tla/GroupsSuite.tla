---------------------------- MODULE GroupsSuite -----------------------------
(* Connection groups: admission of their members, sending and receiving,    *)
(* each a scenario of one run.                                              *)
EXTENDS Integers, Sequences, FiniteSets, TLC

CONSTANTS
    Scenarios,      \* the parts a run explores
    c1, c2, c3,     \* members of the caller group
    l1, l2          \* listeners that may be bonded

VARIABLES
    scenario,
    cast, groups, scope, setup, fading, accepts, shut, caller, member, path,
    group, send, used, settled, origin, clock, retained, cursor, version,
    reader, notified, faults

Callers == {c1, c2, c3}

Uniform(v) == [i \in Callers |-> v]

(* Three members of one peer group and domain; two in different domains;    *)
(* receivers of two dispatch streams.                                       *)
Together == [kind |-> "bonding", key |-> Uniform(1), domain |-> Uniform(1)]

AdmissionCasts ==
    {Together,
     [kind |-> "bonding", key |-> Uniform(1), domain |-> c1 :> 1 @@ c2 :> 2 @@ c3 :> 0],
     [kind |-> "dispatch", key |-> c1 :> 1 @@ c2 :> 2 @@ c3 :> 2,
      domain |-> c1 :> 1 @@ c2 :> 1 @@ c3 :> 0]}

(* Three Backup members whose probes rotate; two and one that joins later;  *)
(* two of a Broadcast group; a dispatch group that loses both and gets one. *)
SendCasts ==
    {[kind |-> "backup", members |-> {1, 2, 3}, joins |-> 0, faults |-> 1, last |-> 3],
     [kind |-> "backup", members |-> {1, 2}, joins |-> 1, faults |-> 1, last |-> 2],
     [kind |-> "broadcast", members |-> {1, 2}, joins |-> 0, faults |-> 1, last |-> 3],
     [kind |-> "dispatch", members |-> {1, 2}, joins |-> 1, faults |-> 2, last |-> 2]}

(* Without TSBPD; TSBPD with TLPKTDROP and clocks that differ; TSBPD alone. *)
ReceiveCasts ==
    {[tsbpd |-> FALSE, drop |-> FALSE, skew |-> <<0, 0>>, floor |-> <<1, 2>>, late |-> {}, faults |-> 1, last |-> 3],
     [tsbpd |-> FALSE, drop |-> FALSE, skew |-> <<0, 0>>, floor |-> <<1, 1>>, late |-> {2}, faults |-> 2, last |-> 2],
     [tsbpd |-> TRUE, drop |-> TRUE, skew |-> <<1, 0>>, floor |-> <<1, 2>>, late |-> {2}, faults |-> 1, last |-> 2],
     [tsbpd |-> TRUE, drop |-> FALSE, skew |-> <<0, 1>>, floor |-> <<1, 1>>, late |-> {}, faults |-> 1, last |-> 2]}

A == INSTANCE GroupAdmission WITH Listeners <- {l1, l2}, Casts <- AdmissionCasts, MaxGroups <- 2,
                                  Backlog <- 1

S == INSTANCE GroupSend WITH Paths <- {1, 2, 3}, Weight <- <<1, 2, 2>>, Casts <- SendCasts,
                             Capacity <- 1, History <- 1

R == INSTANCE GroupReceive WITH Members <- {1, 2}, Casts <- ReceiveCasts,
                                MaximumPackets <- 2, MaximumBatches <- 2

ofAdmission == <<groups, scope, setup, fading, accepts, shut, caller>>
ofSend == <<path, group, send, used, settled, origin>>
ofReceive == <<clock, retained, cursor, version, reader, notified, faults>>

vars == <<scenario, cast, member, ofAdmission, ofSend, ofReceive>>

notAdmission == <<ofSend, ofReceive>>
notSend == <<member, ofAdmission, ofReceive>>
notReceive == <<ofAdmission, ofSend>>

(* The parts are independent: in each scenario one of them runs, and the     *)
(* variables of the others rest.                                             *)
NoAdmission ==
    /\ groups = 0 /\ scope = 0 /\ setup = 0 /\ fading = 0 /\ accepts = 0
    /\ shut = 0 /\ caller = 0
NoSend == path = 0 /\ group = 0 /\ send = 0 /\ used = 0 /\ settled = 0 /\ origin = 0
NoReceive ==
    /\ clock = 0 /\ retained = 0 /\ cursor = 0 /\ version = 0 /\ reader = 0
    /\ notified = 0 /\ faults = 0

Init ==
    /\ scenario \in Scenarios
    /\ \/ scenario = "admission" /\ A!Init /\ NoSend /\ NoReceive
       \/ scenario = "send" /\ S!Init /\ member = 0 /\ NoAdmission /\ NoReceive
       \/ scenario = "receive" /\ R!Init /\ NoAdmission /\ NoSend

Next ==
    \/ scenario = "admission" /\ A!Next /\ UNCHANGED <<scenario, notAdmission>>
    \/ scenario = "send" /\ S!Next /\ UNCHANGED <<scenario, notSend>>
    \/ scenario = "receive" /\ R!Next /\ UNCHANGED <<scenario, notReceive>>

Spec == Init /\ [][Next]_vars

Symmetry == Permutations(Callers) \cup Permutations({l1, l2})

-----------------------------------------------------------------------------
(* The lookup by peer group or stream key is never ambiguous, the members of *)
(* a caller group talk to one mirror, and srt_accept hands out a group once, *)
(* within its backlog (GroupAdmission).                                      *)
AdmissionSound ==
    scenario = "admission" => A!RegistrySound /\ A!MembersShareMirror /\ A!OfferedOnce

(* What is released or dropped by a group is settled on some path, no number *)
(* is used twice, the authority passes only to a member that earned it, and  *)
(* a dispatch sequence is committed only when its owner took it (GroupSend). *)
GroupSendSound ==
    /\ [](scenario = "send" => S!StreamsConsistent)
    /\ [][scenario = "send" => S!AuthorityEarned /\ S!OriginalSent]_vars

(* The group delivers what its cursor expects, skips nothing that a member   *)
(* could still deliver, and wakes its reader (GroupReceive).                 *)
GroupReceiveSound ==
    /\ [](scenario = "receive" => R!DeliversExpected /\ R!ReaderWoken)
    /\ [][scenario = "receive" => R!SkipSound]_vars

=============================================================================
