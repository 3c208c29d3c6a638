----------------------------- MODULE GroupSend ------------------------------
(***************************************************************************)
(* srt_sendmsg2 on a group (send_group_message_implementation): a sender   *)
(* holds the group's send mutex through one attempt, takes a snapshot of   *)
(* the members, and then works through them one at a time while paths      *)
(* acknowledge, break, leave and join.  A Backup group sends on one        *)
(* authoritative member and, in parallel, on a probe that has to earn the  *)
(* authority; a member that is behind is caught up from a bounded replay   *)
(* history.  A Broadcast group sends on every member; a dispatch group     *)
(* queues on every member and one of them transmits the multicast copy.    *)
(*                                                                         *)
(* A message is one packet and sequence numbers do not wrap here.  A path  *)
(* is the send buffer of one member connection: [first, next) is queued    *)
(* and unacknowledged.  Clock comparisons (response deadline, stability    *)
(* interval) are free choices.                                             *)
(***************************************************************************)
EXTENDS Integers, Sequences, SequencesExt, FiniteSets

CONSTANTS
    Paths,        \* places for member connections, 1 .. n
    Weight,       \* place -> configured weight
    Casts,        \* kind of the group, its first members, and how many
                  \* messages, faults and later connections there are
    Capacity,     \* packets a member's send buffer holds
    History       \* messages the replay history holds

VARIABLES
    cast,         \* kind is "backup", "broadcast" or "dispatch"
    path,         \* place -> member connection
    group,        \* send state of the GroupRecord
    send,         \* the attempt in progress
    used,         \* faults and later connections so far
    settled,      \* sequences a peer acknowledged or that expired as too late
    origin        \* highest first sequence of a connection that got authority

vars == <<cast, path, group, send, used, settled, origin>>

None == [id |-> 0, generation |-> 0]

Token(m) == [id |-> m, generation |-> path[m].generation]

Tokens == {Token(m) : m \in Paths}

(* The member still is the connection the token names. *)
Current(t) == t # None /\ path[t.id].generation = t.generation

Idle == [pc |-> "idle", order |-> <<>>, first |-> 0, seen |-> <<None, None>>,
         probe |-> None, owner |-> None, ok |-> <<>>, failed |-> {}]

Init ==
    /\ cast \in Casts
    /\ path = [m \in Paths |-> [state |-> IF m \in cast.members THEN "live" ELSE "out",
                                generation |-> 1,
                                from |-> 0, first |-> 0, next |-> 0, gaps |-> {}]]
    /\ group = [next |-> 0, active |-> None, probe |-> None, start |-> 0,
                acknowledged |-> 0, oldest |-> 0]
    /\ send = Idle
    /\ used = [joins |-> 0, faults |-> 0]
    /\ settled = {}
    /\ origin = 0

-----------------------------------------------------------------------------
(* Member connections *)

(* An acknowledgement, or local TLPKTDROP, releases the oldest packet. *)
Release(m) ==
    /\ path[m].state = "live" /\ path[m].first < path[m].next
    /\ path' = [path EXCEPT ![m].first = @ + 1]
    /\ settled' = settled \cup {path[m].first}
    /\ UNCHANGED <<cast, group, send, used, origin>>

Break(m) ==
    /\ path[m].state = "live" /\ used.faults < cast.faults
    /\ path' = [path EXCEPT ![m].state = "broken"]
    /\ used' = [used EXCEPT !.faults = @ + 1]
    /\ UNCHANGED <<cast, group, send, settled, origin>>

(* The buffers of a member that left are gone with the last snapshot of it. *)
Forget(paths, unheld) ==
    [m \in Paths |-> IF unheld /\ paths[m].state = "out"
                     THEN [paths[m] EXCEPT !.from = 0, !.first = 0, !.next = 0, !.gaps = {}]
                     ELSE paths[m]]

(* GroupRegistry::remove_member: authority or probe of this generation are  *)
(* cleared with it.                                                         *)
remove_member(g, t) ==
    IF g.active = t THEN [g EXCEPT !.active = None, !.probe = None, !.start = 0]
    ELSE IF g.probe = t THEN [g EXCEPT !.probe = None, !.start = 0]
    ELSE g

Leave(m) ==
    /\ path[m].state \in {"live", "broken"}
    /\ path[m].state = "live" => used.faults < cast.faults
    /\ used' = [used EXCEPT !.faults = @ + (IF path[m].state = "live" THEN 1 ELSE 0)]
    /\ path' = Forget([path EXCEPT ![m].state = "out"], send.pc = "idle")
    /\ group' = remove_member(group, Token(m))
    /\ UNCHANGED <<cast, send, settled, origin>>

(* describe_connect: the new connection starts at the group's next sequence *)
(* of this moment; other messages may be sent before it is established.     *)
Join(m) ==
    /\ path[m].state = "out" /\ used.joins < cast.joins
    /\ path' = [path EXCEPT ![m] = [state |-> "joining", generation |-> @.generation + 1,
                                    from |-> group.next, first |-> group.next,
                                    next |-> group.next, gaps |-> {}]]
    /\ used' = [used EXCEPT !.joins = @ + 1]
    /\ UNCHANGED <<cast, group, send, settled, origin>>

Establish(m) ==
    /\ path[m].state = "joining"
    /\ path' = [path EXCEPT ![m].state = "live"]
    /\ UNCHANGED <<cast, group, send, used, settled, origin>>

-----------------------------------------------------------------------------
(* One attempt to send *)

(* Members in the order they joined. *)
Earlier(t, u) ==
    t.generation < u.generation \/ (t.generation = u.generation /\ t.id < u.id)

Preferred(t, u) ==
    IF Weight[t.id] # Weight[u.id] THEN Weight[t.id] > Weight[u.id] ELSE Earlier(t, u)

(* group_members: the connected and the broken members. *)
Members == {Token(m) : m \in {k \in Paths : path[k].state \in {"live", "broken"}}}

(* The snapshot; a dispatch group elects the first member that is not       *)
(* broken to transmit, and advances its stream when nobody has joined.      *)
Begin ==
    /\ send.pc = "idle" /\ group.next < cast.last
    /\ \/ /\ Members # {}
          /\ send' = [Idle EXCEPT !.pc = IF cast.kind = "backup" THEN "replay" ELSE "try",
                        !.order = SetToSortSeq(Members, Earlier),
                        !.first = group.next,
                        !.owner = LET usable == SelectSeq(SetToSortSeq(Members, Earlier),
                                                  LAMBDA t : path[t.id].state = "live")
                                  IN IF cast.kind = "dispatch" /\ usable # <<>>
                                     THEN Head(usable) ELSE None]
          /\ UNCHANGED group
       \/ /\ Members = {} /\ cast.kind = "dispatch"
          /\ group' = [group EXCEPT !.next = @ + 1]
          /\ UNCHANGED send
    /\ UNCHANGED <<cast, path, used, settled, origin>>

InSnapshot(t) == t \in Range(send.order)

Progress(t) ==
    LET released == path[t.id].first - group.acknowledged
    IN IF released > 0 /\ Current(t) THEN released ELSE 0

(* What active and probe have both released leaves the history. *)
Retired ==
    group.acknowledged +
        (IF ~InSnapshot(group.active) THEN 0
         ELSE IF ~InSnapshot(group.probe) \/ Progress(group.active) < Progress(group.probe)
              THEN Progress(group.active)
         ELSE Progress(group.probe))

acknowledge_backup_replay ==
    /\ send.pc = "replay"
    /\ group' = [group EXCEPT !.acknowledged = Retired,
                              !.oldest = IF @ < Retired THEN Retired ELSE @]
    /\ send' = [send EXCEPT !.pc = "plan", !.seen = <<group.active, group.probe>>]
    /\ UNCHANGED <<cast, path, used, settled, origin>>

(* The snapshot in priority order, t moved to position n. *)
Priority == SetToSortSeq(Range(send.order), Preferred)

Moved(order, t, n) == InsertAt(Remove(order, t), n, t)

Unchanged == <<group.active, group.probe>> = send.seen

ClearProbe(g) == [g EXCEPT !.probe = None, !.start = 0]

(* Planned(order, probe): the attempt goes on with this order. *)
Planned(order, probe) ==
    send' = [send EXCEPT !.pc = "try", !.order = order, !.probe = probe,
                         !.seen = <<None, None>>]

(* A new probe is announced in the group, unless it changed meanwhile. *)
Announce(order, t) ==
    IF Unchanged
    THEN /\ group' = [group EXCEPT !.probe = t, !.start = send.first]
         /\ Planned(Moved(order, t, 2), t)
    ELSE /\ Planned(order, None)
         /\ UNCHANGED group

(* The members after the probe in cyclic order, without the active one. *)
AfterProbe(order, t) ==
    LET tail == Tail(order)
        at == CHOOSE i \in DOMAIN tail : tail[i] = t
    IN SubSeq(tail, at + 1, Len(tail)) \o SubSeq(tail, 1, at - 1)

(* Mutant: an elapsed interval is enough. *)
QualifiedAlways(t) == TRUE

Qualified(t) == path[t.id].first > group.start

(* order_backup_members: keep the authority, cancel, promote or rotate the  *)
(* probe, or start one.                                                     *)
order_backup_members(responsive, elapsed, recent) ==
    LET active == send.seen[1]
        probe == send.seen[2]
        order == Moved(Priority, active, 1)
        eligible(s) == SelectSeq(s, LAMBDA t : ~responsive \/ Preferred(t, active))
    IN
    /\ send.pc = "plan"
    /\ \/ /\ ~InSnapshot(active)
          /\ group' = ClearProbe(group)
          /\ Planned(Priority, None)
       \/ /\ InSnapshot(active) /\ InSnapshot(probe)
          /\ responsive /\ Preferred(active, probe)
          /\ group' = IF Unchanged THEN ClearProbe(group) ELSE group
          /\ Planned(order, None)
       \/ /\ InSnapshot(active) /\ InSnapshot(probe)
          /\ ~(responsive /\ Preferred(active, probe))
          /\ elapsed /\ recent /\ Current(probe) /\ Qualified(probe)
          /\ IF Unchanged
             THEN /\ group' = [ClearProbe(group) EXCEPT !.active = probe]
                  /\ Planned(Moved(order, probe, 1), None)
             ELSE /\ Planned(order, None)
                  /\ UNCHANGED group
       \/ /\ InSnapshot(active) /\ InSnapshot(probe)
          /\ ~(responsive /\ Preferred(active, probe))
          /\ ~(elapsed /\ recent /\ Current(probe) /\ Qualified(probe))
          /\ LET next == IF elapsed THEN eligible(AfterProbe(order, probe)) ELSE <<>>
             IN IF next = <<>>
                THEN /\ Planned(Moved(order, probe, 2), probe)
                     /\ UNCHANGED group
                ELSE Announce(order, Head(next))
       \/ /\ InSnapshot(active) /\ ~InSnapshot(probe)
          /\ LET next == eligible(Tail(order))
             IN IF next = <<>>
                THEN /\ group' = ClearProbe(group)
                     /\ Planned(order, None)
                ELSE Announce(order, Head(next))
    /\ origin' = IF group'.active # group.active /\ path[group'.active.id].from > origin
                 THEN path[group'.active.id].from ELSE origin
    /\ UNCHANGED <<cast, path, used, settled>>

(* Mutant: the gap is closed up to the message to send. *)
retire_group_prefixToTarget(p, confirmed) ==
    IF p.next < send.first
    THEN [p EXCEPT !.gaps = @ \cup (p.first .. (send.first - 1)),
                   !.first = send.first, !.next = send.first]
    ELSE p

(* retire_group_prefix: a member behind the retired part of the group's     *)
(* stream asks its peer to drop everything before it.                       *)
retire_group_prefix(p, confirmed) ==
    IF p.next < confirmed
    THEN [p EXCEPT !.gaps = @ \cup (p.first .. (confirmed - 1)),
                   !.first = confirmed, !.next = confirmed]
    ELSE p

(* Replay of the history from the member's cursor as far as its buffer has  *)
(* room.                                                                    *)
Replayed(p) ==
    LET room == Capacity - (p.next - p.first)
        missing == send.first - p.next
    IN [p EXCEPT !.next = @ + (IF missing < room THEN missing ELSE room)]

prepare_backup_member(p) ==
    LET q == retire_group_prefix(p, group.acknowledged)
        r == Replayed(q)
    IN IF q.next = send.first THEN [path |-> q, result |-> "ready"]
       ELSE IF q.next > send.first \/ q.next < group.oldest
            THEN [path |-> q, result |-> "invalid"]
       ELSE [path |-> r, result |-> IF r.next = send.first THEN "ready" ELSE "blocked"]

(* skip_group_sequences: an idle member that missed messages is rejoined    *)
(* behind a gap.                                                            *)
prepare_broadcast_member(p) ==
    IF p.next = send.first THEN [path |-> p, result |-> "ready"]
    ELSE IF p.next > send.first THEN [path |-> p, result |-> "invalid"]
    ELSE IF p.first # p.next THEN [path |-> p, result |-> "blocked"]
    ELSE [path |-> [p EXCEPT !.gaps = @ \cup (p.next .. (send.first - 1)),
                             !.first = send.first, !.next = send.first],
          result |-> "ready"]

queue_group_message(r) ==
    IF r.result # "ready" THEN r
    ELSE IF r.path.next - r.path.first = Capacity THEN [r EXCEPT !.result = "blocked"]
    ELSE [path |-> [r.path EXCEPT !.next = @ + 1], result |-> "success"]

(* Mutant: the other members of a dispatch group take the message anyway. *)
StopsAfterSuccess(t, result) ==
    cast.kind = "backup" /\ result = "success" /\ send.probe \in {None, t}

(* A message goes on to the next member, unless the Backup plan is done or  *)
(* the elected transmitter did not take it.                                 *)
StopsAfter(t, result) ==
    \/ cast.kind = "backup" /\ result = "success" /\ send.probe \in {None, t}
    \/ cast.kind = "dispatch" /\ result # "success" /\ t = send.owner

(* The next member of the plan is prepared and offered the message. *)
Try ==
    LET t == Head(send.order)
        p == path[t.id]
        live == Current(t) /\ p.state = "live"
        tried == queue_group_message(IF cast.kind = "backup" THEN prepare_backup_member(p)
                                     ELSE prepare_broadcast_member(p))
        result == IF live THEN tried.result ELSE "lost"
        rest == IF StopsAfter(t, result) THEN <<>> ELSE Tail(send.order)
    IN
    /\ send.pc = "try"
    /\ path' = IF live THEN [path EXCEPT ![t.id] = tried.path] ELSE path
    /\ send' = [send EXCEPT !.order = rest,
                  !.pc = IF rest = <<>> THEN "finish" ELSE "try",
                  !.ok = IF result = "success" THEN Append(@, t) ELSE @,
                  !.failed = IF result = "success" THEN @
                             ELSE @ \cup {[member |-> t, result |-> result]}]
    /\ UNCHANGED <<cast, group, used, settled, origin>>

(* The members whose failure closes them. *)
Closing ==
    {f.member : f \in {g \in send.failed :
        /\ g.result # "blocked"
        /\ ~(cast.kind = "backup" /\ g.member = send.probe /\ g.result = "invalid"
                             /\ send.ok # <<>>)}}

(* The first member that took the message has the authority, unless it is a *)
(* probe that has not earned it.                                            *)
Selected(g) ==
    LET chosen == Head(send.ok) IN
    IF cast.kind # "backup" \/ chosen = send.probe \/ chosen = g.active THEN g
    ELSE [ClearProbe(g) EXCEPT !.active = chosen]

ClosedPaths(closing) ==
    [m \in Paths |-> IF Token(m) \in closing /\ path[m].state # "joining"
                     THEN [path[m] EXCEPT !.state = "out"] ELSE path[m]]

RemoveAll(g, closing) ==
    IF g.active \in closing THEN [ClearProbe(g) EXCEPT !.active = None]
    ELSE IF g.probe \in closing THEN ClearProbe(g) ELSE g

(* The history with the message before next: its oldest entries make room;  *)
(* when it cannot be stored, everything is dropped.                         *)
Appended(oldest, next, stored) ==
    IF ~stored THEN next ELSE IF next - oldest > History THEN next - History ELSE oldest

(* At least one member took the message: the sequence is committed, the     *)
(* history extended (or cleared when that fails), failures are applied.     *)
FinishSent(stored) ==
    LET next == send.first + 1
        probeFailed == \E f \in send.failed : f.member = send.probe
                          /\ f.result \in {"blocked", "invalid"}
        advanced == [group EXCEPT !.next = next, !.oldest = Appended(@, next, stored)]
        cleared == IF cast.kind = "backup" /\ probeFailed /\ advanced.probe = send.probe
                   THEN ClearProbe(advanced) ELSE advanced
    IN
    /\ send.pc = "finish" /\ send.ok # <<>>
    /\ cast.kind # "backup" => stored
    /\ path' = Forget(ClosedPaths(Closing), TRUE)
    /\ group' = Selected(RemoveAll(cleared, Closing))
    /\ origin' = IF cast.kind = "backup" /\ group'.active # None
                    /\ path[group'.active.id].from > origin
                 THEN path[group'.active.id].from ELSE origin
    /\ send' = Idle
    /\ UNCHANGED <<cast, used, settled>>

(* Nobody took it: the call fails, or waits and starts again. *)
FinishUnsent ==
    /\ send.pc = "finish" /\ send.ok = <<>>
    /\ path' = Forget(IF cast.kind = "backup" THEN path ELSE ClosedPaths(Closing), TRUE)
    /\ send' = Idle
    /\ UNCHANGED <<cast, group, used, settled, origin>>

-----------------------------------------------------------------------------
Next ==
    \/ Begin
    \/ acknowledge_backup_replay
    \/ \E responsive, elapsed, recent \in BOOLEAN :
          order_backup_members(responsive, elapsed, recent)
    \/ Try
    \/ \E stored \in BOOLEAN : FinishSent(stored)
    \/ FinishUnsent
    \/ \E m \in Paths : Release(m) \/ Break(m) \/ Leave(m) \/ Join(m) \/ Establish(m)

Spec == Init /\ [][Next]_vars

-----------------------------------------------------------------------------
(* What a Backup group stops retaining, and what a member is told to drop   *)
(* so that it can rejoin the stream, is settled on some path, or lies       *)
(* before the first sequence of a connection that had the authority since.  *)
(* And between two sends no member holds a sequence that the group has not  *)
(* committed: a later message cannot get the number of an earlier one.      *)
StreamsConsistent ==
    /\ cast.kind = "backup" =>
         \A s \in 0 .. cast.last :
            (s < group.acknowledged \/ \E m \in Paths : s \in path[m].gaps)
            => s \in settled \/ s < origin
    /\ send.pc = "idle" =>
         \A m \in Paths : path[m].state = "live" => path[m].next <= group.next

(* The authority of a Backup group passes to another member only when that  *)
(* is the probe and has released data queued after its probing began, or    *)
(* when the authority did not take the present message and the other member *)
(* is not an unqualified probe (order_backup_members, "a locally accepted   *)
(* send is not evidence that another path recovered").                      *)
AuthorityEarned ==
    (group'.active # group.active /\ None \notin {group.active, group'.active})
    => \/ /\ group'.active = group.probe
          /\ path[group.probe.id].first > group.start
       \/ /\ send.pc = "finish" /\ group.active \notin Range(send.ok)
          /\ group'.active # send.probe

(* A sequence of a dispatch group is committed only when the member elected *)
(* to transmit the multicast copy took it, or when nobody has joined.       *)
OriginalSent ==
    (cast.kind = "dispatch" /\ group'.next # group.next)
    => Members = {} \/ send.owner \in Range(send.ok)

(* "Concurrent removal clears the matching member generation"               *)
(* (docs/api-compatibility.md): the authority robotweax_srt_group_send_     *)
(* state_v1 reports is a member of the group.                               *)
RemovedIsUnselected ==
    group.active = None \/ (Current(group.active) /\ path[group.active.id].state # "out")

=============================================================================
