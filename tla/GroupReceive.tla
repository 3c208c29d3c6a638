---------------------------- MODULE GroupReceive ----------------------------
(***************************************************************************)
(* srt_recvmsg2 on a Broadcast or Backup group                             *)
(* (receive_group_message_implementation).  The reader lists the members   *)
(* and the version of the list, resolves the sockets, inspects one runtime *)
(* after the other and only then decides: deliver the expected sequence,   *)
(* move the group's cursor over a gap no member can fill, or sleep.        *)
(* Packets arrive, paths break, members join and srt_close moves a         *)
(* member's unread messages into the group's receive-only storage between  *)
(* any two of these steps.                                                 *)
(*                                                                         *)
(* A message is one packet; sequence s carries timestamp s and sequence    *)
(* numbers do not wrap here.  The clock of member m is skew[m] late.       *)
(***************************************************************************)
EXTENDS Integers, Sequences, SequencesExt, FiniteSets, FiniteSetsExt

CONSTANTS
    Members,        \* places for member connections, 1 .. n
    Casts,          \* the groups and streams to check
    MaximumPackets, \* messages the receive-only storage holds
    MaximumBatches  \* batches it holds

VARIABLES
    cast,      \* tsbpd: TSBPD is on; drop: TLPKTDROP was negotiated;
               \* skew, floor: each member's clock and first sequence;
               \* late: members that join later; faults: breaks, drops
               \* and closes; last: messages of the stream are 1 .. last
    clock,
    member,    \* connection of each place, its socket state and buffer
    retained,  \* batches of the receive-only storage, oldest first
    cursor,    \* next_receive_sequence of the group
    version,   \* the list changed since the reader's snapshot
    reader,
    notified,  \* the readiness generation moved since the reader observed it
    faults

vars == <<cast, clock, member, retained, cursor, version, reader, notified, faults>>

Sequence == 1 .. cast.last

End == cast.last + 1

(* Stands for no sequence, no delivery time and no member. *)
None == 0

Store == Cardinality(Members) + 1

Idle == [pc |-> "idle", view |-> {}, seen |-> <<>>, target |-> None, wake |-> None,
         live |-> FALSE, popped |-> None]

Init ==
    /\ cast \in Casts
    /\ clock = 0
    /\ member = [m \in Members |->
                   [state |-> IF m \in cast.late THEN "ABSENT" ELSE "CONNECTED",
                    floor |-> cast.floor[m], have |-> {}, dropped |-> {},
                    ended |-> FALSE, copy |-> {}]]
    /\ retained = <<>>
    /\ cursor = 1
    /\ version = FALSE
    /\ reader = Idle
    /\ notified = FALSE
    /\ faults = 0

Listed == {m \in Members : member[m].state \in {"CONNECTED", "COPIED", "KEPT", "CLOSING"}}

DeliveryTime(m, s) == IF cast.tsbpd THEN s + cast.skew[m] ELSE 0

Due(m, s) == DeliveryTime(m, s) <= clock

---------------------------------------------------------------------------
(* The receive buffer of one member.                                        *)

(* Slots the peer dropped are passed as soon as they head the buffer. *)
trim_dropped_prefix(c) ==
    LET floor == Min({s \in c.floor .. End : s \notin c.dropped}) IN
    [c EXCEPT !.floor = floor, !.dropped = {s \in @ : s > floor}]

discard_received_before(c, next) ==
    IF next <= c.floor THEN c
    ELSE trim_dropped_prefix([c EXCEPT !.floor = next, !.have = {s \in @ : s >= next}])

(* The first message is due but a gap is before it: give the gap up. *)
drop_too_late_receiver(m, c) ==
    IF cast.tsbpd /\ cast.drop /\ c.have # {} /\ Due(m, Min(c.have))
    THEN [c EXCEPT !.floor = Min(c.have)]
    ELSE c

next_receive_delivery_time(m, c) ==
    IF cast.tsbpd /\ c.have # {} /\ (Min(c.have) = c.floor \/ cast.drop)
    THEN DeliveryTime(m, Min(c.have))
    ELSE None

Terminal(c) == c.ended \/ c.state = "CLOSED"

(* RuntimeReceiveSnapshot of the buffer c, already retired and serviced. *)
receive_snapshot(m, c, expected) ==
    LET ready == c.floor \in c.have /\ Due(m, c.floor) IN
    [readable |-> IF ready THEN c.floor ELSE None,
     floor |-> c.floor,
     complete |-> c.floor = expected /\ c.floor \in c.have,
     buffered |-> c.have # {},
     terminal |-> Terminal(c),
     next |-> IF ready \/ c.state = "CLOSED" THEN None ELSE next_receive_delivery_time(m, c)]

Serviced(m, expected) ==
    drop_too_late_receiver(m, discard_received_before(member[m], expected))

---------------------------------------------------------------------------
(* GroupReceiveRetention: what closed members had received and nobody read. *)

Stored(b) == UNION {b[i].have : i \in DOMAIN b}

(* The oldest batches may have reached their age. *)
Expired(b) == {SubSeq(b, k, Len(b)) : k \in 1 .. Len(b) + 1}

discard_before(b, consumed) ==
    SelectSeq([i \in DOMAIN b |-> [b[i] EXCEPT !.have = {s \in @ : s >= consumed}]],
              LAMBDA batch : batch.have # {})

Lowest(S, n) == {s \in S : Cardinality({t \in S : t < s}) < n}

(* Oldest batches make room for the new one, which loses its highest        *)
(* messages when it does not fit alone.                                     *)
retain(b, from, copy, consumed) ==
    LET old == discard_before(b, consumed)
        new == Lowest({s \in copy : s >= consumed} \ Stored(old), MaximumPackets)
        Fits(k) == /\ Cardinality(Stored(SubSeq(old, k, Len(old)))) + Cardinality(new)
                        <= MaximumPackets
                   /\ Len(old) - k + 1 < MaximumBatches
    IN  IF new = {} THEN old
        ELSE LET k == Min({i \in 1 .. Len(old) + 1 : Fits(i)})
             IN  Append(SubSeq(old, k, Len(old)), [from |-> from, have |-> new])

retained_snapshot(b, expected) ==
    LET left == {s \in Stored(b) : s >= expected}
        first == Min(left)
        from == b[Min({i \in DOMAIN b : first \in b[i].have})].from
        ready == left # {} /\ Due(from, first)
    IN  [readable |-> IF ready THEN first ELSE None,
         floor |-> IF left = {} THEN expected ELSE first,
         complete |-> expected \in left,
         buffered |-> left # {},
         terminal |-> TRUE,
         next |-> IF left = {} \/ ready THEN None ELSE DeliveryTime(from, first)]

---------------------------------------------------------------------------
(* inspect_group_receive, given the snapshots of the members it looked at.  *)

inspect_group_receive(seen, expected) ==
    LET quiet == {m \in DOMAIN seen : seen[m].readable = None}
        later == {m \in DOMAIN seen : seen[m].readable > expected}
        floors == {seen[m].floor : m \in {q \in quiet : seen[q].floor > expected}}
                    \cup {seen[m].readable : m \in later}
        may == {m \in quiet :
                  /\ seen[m].floor <= expected
                  /\ \/ ~seen[m].terminal
                     \/ seen[m].complete
                     \/ seen[m].buffered /\ seen[m].next # None}
        selected == {m \in DOMAIN seen : seen[m].readable = expected}
        times == {seen[m].next : m \in quiet} \ {None}
        expired == cast.tsbpd /\ later # {} /\ ~\E m \in may : seen[m].buffered
    IN  [selected |-> IF selected = {} THEN None ELSE Min(selected),
         skip_to |-> IF selected = {} /\ (may = {} \/ expired) /\ floors # {}
                     THEN Min(floors) ELSE None,
         next |-> IF times = {} THEN None ELSE Min(times),
         live |-> \E m \in DOMAIN seen : ~seen[m].terminal]

(* inspect_group_readiness follows the receiver's gap skips without moving  *)
(* the cursor.                                                              *)
inspect_group_readiness(seen, expected) ==
    LET follow[e \in DOMAIN seen] ==
          LET d == inspect_group_receive(seen[e], e) IN
          CASE d.selected # None -> "ready"
            [] d.selected = None /\ d.skip_to = None ->
                 IF ~d.live /\ d.next = None THEN "terminal" ELSE "wait"
            [] OTHER -> IF d.skip_to <= e THEN "wait" ELSE follow[d.skip_to]
    IN  follow[expected]

(* group_receive_readiness: what a poll of the group finds now. *)
group_receive_readiness ==
    LET current == {m \in Members : member[m].state = "CONNECTED"}
        kept == discard_before(retained, cursor)
        seen == [e \in cursor .. End |->
                   [m \in current \cup {Store} |->
                      IF m = Store THEN retained_snapshot(kept, e)
                      ELSE receive_snapshot(m, Serviced(m, cursor), e)]]
    IN  inspect_group_readiness(seen, cursor)

---------------------------------------------------------------------------
(* The reader, holding the group's receive mutex.                           *)

(* Observe the readiness generation, then list the members. *)
ListMembers ==
    /\ reader.pc = "idle"
    /\ reader' = [Idle EXCEPT !.pc = "listed", !.view = Listed]
    /\ version' = FALSE
    /\ notified' = FALSE
    /\ UNCHANGED <<cast, clock, member, retained, cursor, faults>>

(* A socket that is being closed holds its own mutex until CLOSING is set;  *)
(* from then on it does not resolve.                                        *)
ResolveMembers ==
    /\ reader.pc = "listed"
    /\ \A m \in reader.view : member[m].state \notin {"COPIED", "KEPT"}
    /\ reader' = [reader EXCEPT
                    !.pc = "inspect",
                    !.view = {m \in @ : member[m].state = "CONNECTED"} \cup {Store}]
    /\ UNCHANGED <<cast, clock, member, retained, cursor, version, notified, faults>>

InspectMember(m) ==
    LET c == Serviced(m, cursor) IN
    /\ reader.pc = "inspect"
    /\ m = Min(reader.view \ DOMAIN reader.seen)
    /\ m # Store
    /\ member' = [member EXCEPT ![m] = c]
    /\ notified' = (notified \/ c.floor # member[m].floor)
    /\ reader' = [reader EXCEPT !.seen = (m :> receive_snapshot(m, c, cursor)) @@ @]
    /\ UNCHANGED <<cast, clock, retained, cursor, version, faults>>

(* The last snapshot settles what the reader does next. *)
Decided(seen) ==
    LET d == inspect_group_receive(seen, cursor) IN
    CASE d.selected # None ->
           [Idle EXCEPT !.pc = "pop", !.view = reader.view, !.target = d.selected,
                        !.wake = d.next, !.live = d.live]
      [] d.selected = None /\ d.skip_to # None ->
           [Idle EXCEPT !.pc = "skip", !.view = reader.view, !.seen = seen, !.target = d.skip_to]
      [] OTHER -> [Idle EXCEPT !.pc = "wait", !.wake = d.next, !.live = d.live]

InspectRetained ==
    /\ reader.pc = "inspect"
    /\ reader.view \ DOMAIN reader.seen = {Store}
    /\ \E b \in Expired(retained) :
         LET kept == discard_before(b, cursor) IN
         /\ retained' = kept
         /\ notified' = (notified \/ Len(b) < Len(retained))
         /\ reader' = Decided((Store :> retained_snapshot(kept, cursor)) @@ reader.seen)
    /\ UNCHANGED <<cast, clock, member, cursor, version, faults>>

(* Mutant: the version of the member list is not compared. *)
SnapshotCurrentAssumed == TRUE

(* The membership may have changed during the inspection. *)
SnapshotCurrent == ~version

(* No path can supply this prefix: continue at the lowest one that exists. *)
SkipGap ==
    /\ reader.pc = "skip"
    /\ cursor' = IF SnapshotCurrent THEN reader.target ELSE cursor
    /\ reader' = Idle
    /\ UNCHANGED <<cast, clock, member, retained, version, notified, faults>>

(* Mutant: the storage hands out its lowest message. *)
RetainedMessageLowest(b, expected) ==
    LET s == Min(Stored(b)) IN IF Stored(b) # {} THEN s ELSE None

(* GroupReceiveRetention::receive_message takes exactly the expected one. *)
RetainedMessage(b, expected) ==
    LET at == {i \in DOMAIN b : expected \in b[i].have} IN
    IF at # {} /\ Due(b[Min(at)].from, expected) THEN expected ELSE None

(* The copies of the other members are discarded up to next. *)
Popped(s, next) ==
    [Idle EXCEPT !.pc = "advance", !.popped = s, !.target = next, !.view = reader.view \ {reader.target}]

NothingPopped == [Idle EXCEPT !.pc = "wait", !.wake = reader.wake, !.live = reader.live]

PopRetained ==
    /\ reader.pc = "pop"
    /\ reader.target = Store
    /\ \E b \in Expired(retained) :
         LET kept == discard_before(b, cursor)
             popped == RetainedMessage(kept, cursor)
         IN  /\ retained' = SelectSeq([i \in DOMAIN kept |-> [kept[i] EXCEPT !.have = @ \ {popped}]],
                                      LAMBDA batch : batch.have # {})
             /\ notified' = (notified \/ Len(b) < Len(retained))
             /\ reader' = IF popped = None THEN NothingPopped
                          ELSE Popped(popped, popped + 1)
    /\ UNCHANGED <<cast, clock, member, cursor, version, faults>>

(* The runtime hands out the message at its head and reports where its      *)
(* buffer starts now.                                                       *)
PopMember ==
    LET m == reader.target
        c == drop_too_late_receiver(m, member[m])
        popped == trim_dropped_prefix([c EXCEPT !.floor = @ + 1, !.have = @ \ {c.floor}])
    IN
    /\ reader.pc = "pop"
    /\ m \in Members
    /\ IF c.state # "CLOSED" /\ c.floor \in c.have /\ Due(m, c.floor)
       THEN /\ member' = [member EXCEPT ![m] = popped]
            /\ reader' = Popped(c.floor, popped.floor)
            /\ notified' = TRUE
       ELSE /\ member' = [member EXCEPT ![m] = c]
            /\ reader' = NothingPopped
            /\ UNCHANGED notified
    /\ UNCHANGED <<cast, clock, retained, cursor, version, faults>>

(* Move the cursor and discard the other members' copies. *)
Advance ==
    LET next == reader.target IN
    /\ reader.pc = "advance"
    /\ cursor' = next
    /\ member' = [n \in Members |-> IF n \in reader.view
                                    THEN discard_received_before(member[n], next) ELSE member[n]]
    /\ retained' = IF Store \in reader.view THEN discard_before(retained, next) ELSE retained
    /\ notified' = (notified \/ member' # member)
    /\ reader' = Idle
    /\ UNCHANGED <<cast, clock, version, faults>>

(* Nothing to deliver: start over when the list changed, fail when nobody   *)
(* is left, sleep until a notification or the next delivery time.           *)
AfterWait ==
    IF ~SnapshotCurrent \/ (~reader.live /\ reader.wake = None) THEN Idle
    ELSE [Idle EXCEPT !.pc = "asleep", !.wake = reader.wake]

(* Mutant: the generation to wait for is read only now. *)
SleepObservingLate ==
    /\ reader.pc = "wait"
    /\ reader' = AfterWait
    /\ notified' = FALSE
    /\ UNCHANGED <<cast, clock, member, retained, cursor, version, faults>>

Sleep ==
    /\ reader.pc = "wait"
    /\ reader' = AfterWait
    /\ UNCHANGED <<cast, clock, member, retained, cursor, version, notified, faults>>

(* A retained batch that reaches its age also ends the sleep. *)
Wake ==
    /\ reader.pc = "asleep"
    /\ \/ notified
       \/ reader.wake # None /\ (reader.wake <= clock \/ retained # <<>>)
    /\ reader' = Idle
    /\ UNCHANGED <<cast, clock, member, retained, cursor, version, notified, faults>>

Read ==
    \/ ListMembers \/ ResolveMembers \/ InspectRetained \/ SkipGap
    \/ PopRetained \/ PopMember \/ Advance \/ Sleep \/ Wake
    \/ \E m \in Members : InspectMember(m)

---------------------------------------------------------------------------
(* srt_close of a member: shutdown_record.                                  *)

(* Under the socket's mutex: copy every complete message. *)
CopyPrefix(m) ==
    /\ member[m].state = "CONNECTED"
    /\ faults < cast.faults
    /\ faults' = faults + 1
    /\ member' = [member EXCEPT ![m].state = IF member[m].have = {} THEN "KEPT" ELSE "COPIED",
                                ![m].copy = member[m].have]
    /\ UNCHANGED <<cast, clock, retained, cursor, version, reader, notified>>

(* Still under it: hand the copy to the group. *)
retain_member_receive(m) ==
    /\ member[m].state = "COPIED"
    /\ \E b \in Expired(retained) : retained' = retain(b, m, member[m].copy, cursor)
    /\ member' = [member EXCEPT ![m].state = "KEPT", ![m].copy = {}]
    /\ version' = TRUE
    /\ notified' = TRUE
    /\ UNCHANGED <<cast, clock, cursor, reader, faults>>

SetClosing(m) ==
    /\ member[m].state = "KEPT"
    /\ member' = [member EXCEPT ![m].state = "CLOSING"]
    /\ UNCHANGED <<cast, clock, retained, cursor, version, reader, notified, faults>>

(* publish_group_state and remove_member. *)
remove_member(m) ==
    /\ member[m].state = "CLOSING"
    /\ member' = [member EXCEPT ![m].state = "REMOVED"]
    /\ version' = TRUE
    /\ notified' = TRUE
    /\ UNCHANGED <<cast, clock, retained, cursor, reader, faults>>

(* The runtime is closed after an optional linger. *)
finish_close(m) ==
    /\ member[m].state = "REMOVED"
    /\ member' = [member EXCEPT ![m].state = "CLOSED", ![m].have = {}, ![m].dropped = {}]
    /\ notified' = TRUE
    /\ UNCHANGED <<cast, clock, retained, cursor, version, reader, faults>>

---------------------------------------------------------------------------
(* The network and the timers.                                              *)

Receiving(m) == member[m].state \in {"CONNECTED", "COPIED", "KEPT"} /\ ~member[m].ended

Arrive(m, s) ==
    /\ Receiving(m)
    /\ s >= member[m].floor
    /\ s \notin member[m].have \cup member[m].dropped
    /\ member' = [member EXCEPT ![m].have = @ \cup {s}]
    /\ notified' = TRUE
    /\ UNCHANGED <<cast, clock, retained, cursor, version, reader, faults>>

(* The sender gave up a packet on this path; with TLPKTDROP the receiver    *)
(* keeps the slot until its time and drop_too_late_receiver decides.        *)
PeerDrop(m, s) ==
    /\ Receiving(m)
    /\ ~(cast.tsbpd /\ cast.drop)
    /\ faults < cast.faults
    /\ s >= member[m].floor
    /\ s \notin member[m].have \cup member[m].dropped
    /\ member' = [member EXCEPT ![m] = trim_dropped_prefix([@ EXCEPT !.dropped = @ \cup {s}])]
    /\ notified' = TRUE
    /\ faults' = faults + 1
    /\ UNCHANGED <<cast, clock, retained, cursor, version, reader>>

(* The path is broken or its peer has shut down. *)
EndPath(m) ==
    /\ Receiving(m)
    /\ faults < cast.faults
    /\ member' = [member EXCEPT ![m].ended = TRUE]
    /\ notified' = TRUE
    /\ faults' = faults + 1
    /\ UNCHANGED <<cast, clock, retained, cursor, version, reader>>

Join(m) ==
    /\ member[m].state = "ABSENT"
    /\ member' = [member EXCEPT ![m].state = "CONNECTED"]
    /\ version' = TRUE
    /\ notified' = TRUE
    /\ UNCHANGED <<cast, clock, retained, cursor, reader, faults>>

Tick ==
    /\ cast.tsbpd
    /\ clock < cast.last + Max({cast.skew[m] : m \in Members})
    /\ clock' = clock + 1
    /\ UNCHANGED <<cast, member, retained, cursor, version, reader, notified, faults>>

Next ==
    \/ Read
    \/ Tick
    \/ \E m \in Members :
         \/ CopyPrefix(m) \/ retain_member_receive(m) \/ SetClosing(m)
         \/ remove_member(m) \/ finish_close(m) \/ EndPath(m) \/ Join(m)
         \/ \E s \in Sequence : Arrive(m, s) \/ PeerDrop(m, s)

Spec == Init /\ [][Next]_vars

---------------------------------------------------------------------------
(* What a member or the storage can still hand out at or above the cursor:  *)
(* messages at the head of a buffer, and messages behind a gap that the     *)
(* path may still fill or that TLPKTDROP will give up.                      *)
Held(m) ==
    {s \in member[m].have : s = member[m].floor \/ ~Terminal(member[m]) \/ (cast.tsbpd /\ cast.drop)}

Passed == cursor .. cursor' - 1

(* A skipped gap holds no message that the group could deliver: none in the *)
(* storage, none that a member of the group held when it was inspected, and *)
(* without TSBPD none that arrived since; and every connected member took   *)
(* part in the decision.                                                    *)
SkipSound ==
    reader.pc = "skip" /\ cursor' # cursor =>
      /\ Passed \cap Stored(retained) = {}
      /\ \A m \in Listed : member[m].state = "CONNECTED" => m \in reader.view
      /\ \A m \in reader.view \ {Store} :
           member[m].state = "CONNECTED" =>
             IF cast.tsbpd
             THEN reader.seen[m].buffered => reader.seen[m].floor >= cursor'
             ELSE Passed \cap Held(m) = {}

(* The message the group delivers is the one its cursor expects, whatever   *)
(* happened between the inspection and the pop.                             *)
DeliversExpected == reader.pc = "advance" => reader.popped = cursor

(* A reader does not sleep through a message, or through the end of the     *)
(* last path, that a poll of the group would report.  (A close in progress  *)
(* notifies when the member leaves the list.)                               *)
ReaderWoken ==
    (/\ reader.pc = "asleep"
     /\ ~notified
     /\ reader.wake = None \/ clock < reader.wake
     /\ \A m \in Members : member[m].state \notin {"COPIED", "KEPT", "CLOSING"})
      => group_receive_readiness = "wait"

(* The group passes a sequence only after no member can deliver it (also    *)
(* when the message before it is delivered).                                *)
NoHeldMessagePassed ==
    cursor' # cursor /\ ~cast.tsbpd =>
      \A m \in Listed :
        member[m].state = "CONNECTED" =>
          ((Passed \ {reader.popped}) \cap Held(m)) = {}

=============================================================================
