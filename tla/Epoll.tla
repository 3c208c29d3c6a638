-------------------------------- MODULE Epoll --------------------------------
(***************************************************************************)
(* User-socket epoll (compat/epoll.cpp) over the readiness sources,        *)
(* watches and observers of compat/readiness.cpp.                          *)
(*                                                                         *)
(* One poll record holds subscriptions that cache the last readiness       *)
(* snapshot of their handle.  A producer (the network side of a runtime,   *)
(* or an application call) changes a handle and then invalidates the       *)
(* watches bound to the handle's source; a waiter observes the observer's  *)
(* generation, takes the dirty batch, refreshes the subscriptions of the   *)
(* batch one by one, delivers, or sleeps until the generation differs or   *)
(* the earliest TSBPD deadline.  Every lock acquisition is a step of its   *)
(* own, so producers interleave with the collection.                       *)
(*                                                                         *)
(* Generations and low epochs are compared for inequality only; they are   *)
(* kept as "changed since it was observed" flags.                          *)
(***************************************************************************)
EXTENDS Integers, Sequences, FiniteSets, SequencesExt

CONSTANTS Handles,      \* sockets, each with its readiness source
          Waiters,      \* threads inside epoll_uwait or epoll_wait
          Casts         \* scenarios: the handles' states, the masks in use, the
                        \* wait calls, and the bounds on arrivals, changes of the
                        \* record and time

VARIABLES cast, clock, socket, poll, subscription, ready, observer, waiter,
          producer, legacy, owed, passed

vars == <<cast, clock, socket, poll, subscription, ready, observer, waiter,
          producer, legacy, owed, passed>>

Levels == {"IN", "OUT", "ERR"}
None == "none"

(* The two threads that change handles: the network side of the runtimes   *)
(* and the application thread that reads, sends and accepts.               *)
Producers == {"net", "app"}

-----------------------------------------------------------------------------
(* Readiness of a handle. *)

HasData(s) == s.queue # <<>>
DataReady(s, now) == HasData(s) /\ Head(s.queue) <= now

(* socket_readiness and ConnectionRuntime::readiness_snapshot.  A queue    *)
(* entry is the delivery time of a message, or of an accepted connection.  *)
Level(s, now) ==
  CASE s.state = "listening" -> IF HasData(s) THEN {"IN"} ELSE {}
    [] s.state = "connecting" -> {}
    [] s.state \in {"failed", "closed"} -> {"ERR"}
    [] s.state = "broken" -> Levels
    [] s.state = "shutdown" -> IF DataReady(s, now) THEN {"IN"}
                               ELSE IF HasData(s) THEN {} ELSE Levels
    [] s.state = "connected" ->
         {e \in {"IN", "OUT"} : \/ e = "IN" /\ DataReady(s, now)
                                \/ e = "OUT" /\ s.space > 0}

ReadWakeup(s, now) ==
  IF s.state \in {"connected", "shutdown"} /\ HasData(s) /\ ~DataReady(s, now)
    THEN {Head(s.queue)} ELSE {}

(* Handles without a source are refreshed by notify(), which invalidates   *)
(* every observer.                                                         *)
HasSource(s) == s.state \in {"listening", "connected", "shutdown", "broken"}

Snapshot(h) ==
  [events |-> Level(socket[h], clock), wakeup |-> ReadWakeup(socket[h], clock),
   version |-> socket[h].version, source |-> HasSource(socket[h])]

NoSnapshot == [events |-> {}, wakeup |-> {}, version |-> 0, source |-> FALSE]

-----------------------------------------------------------------------------
(* The observer: invalidation, generation, dirty batch. *)

Subscribed == {h \in Handles : subscription[h].events # {}}

(* A bump of the generation is noticed by every waiter that has observed   *)
(* the previous one.                                                       *)
Bumped(w) == [v \in Waiters |-> [w[v] EXCEPT !.changed = w[v].pc # "out"]]

(* wake() *)
WakeObserver == /\ waiter' = Bumped(waiter)
                /\ UNCHANGED observer

(* invalidate_watches for one source: a watch already queued stays queued  *)
(* and bumps nothing.                                                      *)
invalidate(h) ==
  IF subscription[h].bound /\ h \notin observer.dirty
    THEN /\ observer' = [observer EXCEPT !.dirty = @ \cup {h}]
         /\ waiter' = Bumped(waiter)
    ELSE UNCHANGED <<observer, waiter>>

invalidate_all ==
  IF observer.all THEN UNCHANGED <<observer, waiter>>
  ELSE /\ observer' = [observer EXCEPT !.all = TRUE]
       /\ waiter' = Bumped(waiter)

-----------------------------------------------------------------------------
(* Subscriptions of the record. *)

NoSubscription ==
  [events |-> {}, edge |-> FALSE, seen |-> {}, fell |-> {}, updateSeen |-> 0,
   updatePending |-> 0, cached |-> [events |-> {}, version |-> 0], report |-> {}, deadline |-> {},
   bound |-> FALSE]

remove_ready(list, h) == SelectSeq(list, LAMBDA g : g # h)

(* append_ready leaves an entry that is linked where it is. *)
append_ready(list, h) == IF h \in Range(list) THEN list ELSE Append(list, h)

(* update_report: the report and the edges still counted as delivered. *)
Reported(s) ==
  LET current == s.cached.events \cap s.events
      levels == IF s.edge THEN current \ s.seen ELSE current
      updated == "UPDATE" \in s.events /\ s.cached.version # s.updateSeen
  IN  [s EXCEPT !.report = levels \cup (IF updated THEN {"UPDATE"} ELSE {}),
                !.seen = IF s.edge THEN @ \cap current ELSE @,
                !.updatePending = IF updated THEN s.cached.version ELSE @]

Relinked(list, h, s) ==
  IF s.report # {} THEN append_ready(list, h) ELSE remove_ready(list, h)

(* Mutant: the low epochs are not compared. *)
RefreshedKeepingEdges(s, snap, rebound) ==
  LET edges == IF rebound THEN {} ELSE s.seen
      r == Reported([s EXCEPT !.cached = [events |-> snap.events, version |-> snap.version],
                              !.seen = edges, !.fell = {}])
  IN  [r EXCEPT !.deadline =
         IF "IN" \in s.events /\ "IN" \notin snap.events THEN snap.wakeup ELSE {}]

(* The rest of refresh_subscription once the snapshot is taken: a newly    *)
(* bound watch forgets its edges, another forgets those whose low epoch    *)
(* moved; the low epochs become the ones just read; a pending delivery     *)
(* arms the deadline.                                                      *)
Refreshed(s, snap, rebound) ==
  LET edges == IF rebound THEN {}
               ELSE IF snap.source THEN s.seen \ s.fell ELSE s.seen
      low == IF rebound \/ snap.source THEN {} ELSE s.fell
      r == Reported([s EXCEPT !.cached = [events |-> snap.events, version |-> snap.version],
                             !.seen = edges, !.fell = low])
  IN  [r EXCEPT !.deadline =
         IF "IN" \in s.events /\ "IN" \notin snap.events THEN snap.wakeup ELSE {}]

(* consume_event for the events of a delivered handle. *)
Consumed(s, events, updates) ==
  Reported([s EXCEPT !.seen = IF s.edge THEN @ \cup (events \cap Levels) ELSE @,
                     !.updateSeen = IF updates /\ "UPDATE" \in events
                                      THEN s.updatePending ELSE @])

Locked == \E w \in Waiters : waiter[w].pc \in {"refresh", "bind", "finish"}

-----------------------------------------------------------------------------
(* Producers.  The change is made under the runtime's mutex; the           *)
(* notification follows, under that mutex (net) or after releasing it      *)
(* (app).  `owed` remembers the levels that rose and were not delivered    *)
(* since.                                                                  *)

(* note_not_ready: the low epochs of the handle's source move. *)
Fallen(h, events) ==
  [subscription EXCEPT ![h].fell = @ \cup (IF subscription[h].bound THEN events ELSE {})]

Rises(h, s) ==
  [owed EXCEPT ![h] = (@ \cap Level(s, clock))
                        \cup (Level(s, clock) \ Level(socket[h], clock))]

Idle(p) == producer[p].stage = "idle"
AtRest == [stage |-> "idle", on |-> {}, all |-> FALSE]

(* Reads and changes of a runtime wait while the network side holds its    *)
(* mutex.                                                                  *)
RuntimeFree(h) == h \notin producer["net"].on

Change(p, h, s, low, notify) ==
  /\ Idle(p) /\ RuntimeFree(h)
  /\ socket' = [socket EXCEPT ![h] = s]
  /\ subscription' = Fallen(h, low)
  /\ owed' = Rises(h, s)
  /\ producer' = [producer EXCEPT ![p] =
       IF notify = None THEN AtRest
       ELSE [stage |-> "watches", on |-> {h}, all |-> notify = "all"]]
  /\ UNCHANGED <<cast, clock, poll, ready, observer, waiter, legacy, passed>>

(* Mutant: only a change of the readable state wakes the waiters. *)
ReceiveEdgeReadable(s, t) ==
  \/ DataReady(t, clock) # s.lastReadable
  \/ DataReady(t, clock) # DataReady(s, clock)

(* process_packet with DATA: a delivery time at the tail, or one ahead of  *)
(* the head when an earlier message completes.                             *)
ReceiveEdge(s, t) ==
  \/ DataReady(t, clock) # s.lastReadable
  \/ DataReady(t, clock) # DataReady(s, clock)
  \/ (s.queue = <<>>) \/ Head(s.queue) # Head(t.queue)

Arrive(h) ==
  LET s == socket[h] IN
  /\ s.state = "connected" /\ s.arrivals < cast.arrivals
  /\ \E d \in clock..cast.time, front \in BOOLEAN :
       /\ front => /\ HasData(s) /\ ~DataReady(s, clock)
                   /\ clock <= d /\ d < Head(s.queue)
       /\ ~front /\ HasData(s) => Last(s.queue) <= d
       /\ LET grown == [s EXCEPT !.queue = IF front THEN <<d>> \o @ ELSE Append(@, d),
                                 !.arrivals = @ + 1]
          IN  Change("net", h, [grown EXCEPT !.lastReadable = DataReady(grown, clock)], {},
                     IF ReceiveEdge(s, grown) THEN "source" ELSE None)

(* process_packet with an ACK that releases send-buffer space. *)
Acknowledge(h) ==
  /\ socket[h].state = "connected" /\ socket[h].space = 0
  /\ Change("net", h, [socket[h] EXCEPT !.space = 1], {}, "source")

(* poll: the readable state changed by the passage of time or by a read.   *)
PollRuntime(h) ==
  LET now == DataReady(socket[h], clock) IN
  /\ socket[h].state = "connected" /\ now # socket[h].lastReadable
  /\ Change("net", h, [socket[h] EXCEPT !.lastReadable = now],
            IF now THEN {} ELSE {"IN"}, "source")

(* SHUTDOWN from the peer, or a fatal transport error. *)
Terminate(h) ==
  /\ socket[h].state = "connected" /\ cast.ends
  /\ \E state \in {"shutdown", "broken"} :
       Change("net", h, [socket[h] EXCEPT !.state = state], {}, "source")

(* publish_connected_state, or a failed attempt: no source describes it.   *)
ConnectEnds(h) ==
  /\ socket[h].state = "connecting"
  /\ \E state \in {"connected", "failed"} :
       Change("net", h, [socket[h] EXCEPT !.state = state], {}, "all")

(* ListenerRuntime publishes an accepted connection. *)
PublishAccept(h) ==
  /\ socket[h].state = "listening" /\ socket[h].arrivals < cast.arrivals
  /\ Change("net", h, [socket[h] EXCEPT !.queue = Append(@, 0), !.arrivals = @ + 1],
            {}, "source")

(* The listener's mirror group gains a member. *)
publish_group_update(h) ==
  /\ socket[h].state = "listening" /\ socket[h].version = 0
  /\ Change("net", h, [socket[h] EXCEPT !.version = 1], {}, "all")

(* srt_recv, srt_accept: the last ready message leaves the source low.  A  *)
(* read that finds nothing changes nothing.                                *)
CanRead(s) == IF s.state = "listening" THEN HasData(s) ELSE DataReady(s, clock)

AppFree == cast.single => \A w \in Waiters : waiter[w].pc = "out"

Receive(h) ==
  LET s == socket[h]
      t == [s EXCEPT !.queue = Tail(@)] IN
  /\ AppFree
  /\ s.state \in {"connected", "shutdown", "listening"} /\ CanRead(s)
  /\ Change("app", h, t, IF CanRead(t) THEN {} ELSE {"IN"}, "source")

(* srt_send: the accepted message fills the buffer; a refused one records  *)
(* the low level and notifies nobody.                                      *)
Send(h) ==
  /\ AppFree /\ cast.sends
  /\ socket[h].state = "connected"
  /\ IF socket[h].space > 0
       THEN Change("app", h, [socket[h] EXCEPT !.space = 0], {"OUT"}, "source")
       ELSE Change("app", h, socket[h], {"OUT"}, None)

(* srt_close; the record and its runtime leave the registry. *)
Close(h) ==
  /\ AppFree /\ cast.ends
  /\ socket[h].state # "closed"
  /\ Change("app", h, [socket[h] EXCEPT !.state = "closed", !.queue = <<>>], {}, "all")

(* ReadinessSignal::notify, for a source or for every observer, up to the  *)
(* legacy signal.                                                          *)
Notify(p) ==
  /\ producer[p].stage = "watches"
  /\ \E h \in producer[p].on :
       IF producer[p].all THEN invalidate_all ELSE invalidate(h)
  /\ producer' = [producer EXCEPT ![p] = IF cast.legacy THEN [@ EXCEPT !.stage = "bump"]
                                         ELSE AtRest]
  /\ UNCHANGED <<cast, clock, socket, poll, subscription, ready, legacy, owed, passed>>

(* notify_legacy_waiters: publish the generation, then read the number of  *)
(* waiters, then pass through the mutex and wake them.                     *)
NotifyLegacy(p) ==
  /\ \/ /\ producer[p].stage = "bump"
        /\ legacy' = [legacy EXCEPT !.changed = TRUE]
        /\ producer' = [producer EXCEPT ![p].stage = "load"]
     \/ /\ producer[p].stage = "load"
        /\ producer' = [producer EXCEPT ![p] = IF legacy.waiters = 0 THEN AtRest
                                               ELSE [@ EXCEPT !.stage = "lock"]]
        /\ UNCHANGED legacy
     \/ /\ producer[p].stage = "lock" /\ legacy.pc # "registered"
        /\ legacy' = [legacy EXCEPT !.pc = IF @ = "asleep" THEN "woken" ELSE @]
        /\ producer' = [producer EXCEPT ![p] = AtRest]
  /\ UNCHANGED <<cast, clock, socket, poll, subscription, ready, observer, waiter,
                 owed, passed>>

(* A blocked public call (the connect wait of a group, a group receive):   *)
(* generation(), the check of its condition, then wait_until, which        *)
(* registers under the mutex before it evaluates its predicate.            *)
Awaited == \E h \in Handles : socket[h].state = "connecting"

LegacyCall ==
  /\ cast.legacy
  /\ \/ /\ legacy.pc = "out"
        /\ legacy' = [legacy EXCEPT !.pc = "observed", !.changed = FALSE]
     \/ /\ legacy.pc = "observed" /\ \A h \in Handles : RuntimeFree(h)
        /\ legacy' = [legacy EXCEPT !.pc = IF Awaited THEN "entering" ELSE "done"]
     \/ /\ legacy.pc = "entering"
        /\ legacy' = [legacy EXCEPT !.pc = "registered", !.waiters = @ + 1]
     \/ /\ legacy.pc \in {"registered", "woken"}
        /\ legacy' = IF legacy.changed
                       THEN [legacy EXCEPT !.pc = "out", !.waiters = @ - 1]
                       ELSE [legacy EXCEPT !.pc = "asleep"]
  /\ UNCHANGED <<cast, clock, socket, poll, subscription, ready, observer, waiter,
                 producer, owed, passed>>

(* Time passes: buffered messages become readable without a notification.  *)
Tick ==
  /\ clock < cast.time
  /\ clock' = clock + 1
  /\ owed' = [h \in Handles |-> owed[h] \cup (Level(socket[h], clock + 1)
                                                \ Level(socket[h], clock))]
  /\ UNCHANGED <<cast, socket, poll, subscription, ready, observer, waiter, producer,
                 legacy, passed>>

-----------------------------------------------------------------------------
(* Changes of the record, under its mutex; wake() follows each of them.    *)

ChangeRecord ==
  /\ ~Locked /\ AppFree /\ ~poll.released
  /\ poll.changes < cast.changes
  /\ waiter' = Bumped(waiter)
  /\ UNCHANGED <<cast, clock, socket, producer, legacy>>

(* set_subscription: a replaced watch leaves its source and the dirty      *)
(* list, the new one queues itself.                                        *)
set_subscription(h, mask) ==
  [NoSubscription EXCEPT !.events = mask.events, !.edge = mask.edge,
     !.updateSeen = socket[h].version, !.updatePending = socket[h].version]

(* epoll_add_usock, epoll_update_usock and epoll_remove_usock. *)
Subscribe(h) ==
  \E m \in cast.masks :
    /\ ChangeRecord /\ RuntimeFree(h)
    /\ poll' = [poll EXCEPT !.changes = @ + 1]
    /\ subscription' = [subscription EXCEPT ![h] =
         IF m.events = {} THEN NoSubscription ELSE set_subscription(h, m)]
    /\ ready' = remove_ready(ready, h)
    /\ observer' = [observer EXCEPT !.dirty = IF m.events = {} THEN @ \ {h} ELSE @ \cup {h}]
    /\ owed' = [owed EXCEPT ![h] = Level(socket[h], clock)]
    /\ passed' = [passed EXCEPT ![h] = 0]

(* epoll_clear_usocks and epoll_release. *)
ClearRecord(released) ==
  /\ ChangeRecord
  /\ poll' = [poll EXCEPT !.changes = @ + 1, !.released = released]
  /\ subscription' = [h \in Handles |-> NoSubscription]
  /\ ready' = <<>>
  /\ observer' = [observer EXCEPT !.dirty = {}]
  /\ passed' = [h \in Handles |-> 0]
  /\ UNCHANGED owed

(* epoll_set with SRT_EPOLL_ENABLE_EMPTY, or with no flags. *)
epoll_set ==
  /\ ChangeRecord
  /\ \E allowed \in BOOLEAN : poll' = [poll EXCEPT !.changes = @ + 1, !.empty = allowed]
  /\ UNCHANGED <<subscription, ready, observer, owed, passed>>

-----------------------------------------------------------------------------
(* A waiter: epoll_uwait (bounded output, consumes what it returns) or     *)
(* epoll_wait (separate read and write outputs, consumes every collected   *)
(* edge).                                                                  *)

Earliest == {d \in UNION {subscription[h].deadline : h \in Handles} :
               \A h \in Handles : \A e \in subscription[h].deadline : d <= e}

Resting == [pc |-> "out", changed |-> FALSE, kind |-> None, batch |-> {},
            cur |-> {}, snap |-> NoSnapshot, rebound |-> FALSE, wake |-> {}]

Deadlined(d) == \E t \in d : t <= clock

(* The loop's head: generation(), on entry and after every wake-up. *)
Observe(w) ==
  /\ w <= cast.waiters
  /\ \/ /\ waiter[w].pc = "out" /\ ~(cast.single /\ ~Idle("app"))
        /\ \E k \in cast.kinds : waiter' = [waiter EXCEPT ![w] =
             [Resting EXCEPT !.pc = "observed", !.kind = k]]
     \/ /\ waiter[w].pc = "asleep" /\ (waiter[w].changed \/ Deadlined(waiter[w].wake))
        /\ waiter' = [waiter EXCEPT ![w] =
             [Resting EXCEPT !.pc = "observed", !.kind = waiter[w].kind]]
  /\ UNCHANGED <<cast, clock, socket, poll, subscription, ready, observer, producer,
                 legacy, owed, passed>>

(* Under the record's mutex: the refusals, then take_changes and the due   *)
(* deadlines.                                                              *)
TakeChanges(w) ==
  /\ waiter[w].pc = "observed" /\ ~Locked
  /\ IF poll.released \/ (Subscribed = {} /\ ~poll.empty)
       THEN /\ waiter' = [waiter EXCEPT ![w] = Resting]
            /\ UNCHANGED <<subscription, observer>>
       ELSE LET due == {h \in Handles : Deadlined(subscription[h].deadline)} IN
            /\ waiter' = [waiter EXCEPT ![w].pc = "refresh", ![w].batch =
                 IF observer.all THEN Subscribed ELSE (observer.dirty \cup due) \cap Subscribed]
            /\ subscription' = IF observer.all THEN subscription
                 ELSE [h \in Handles |-> IF h \in due
                         THEN [subscription[h] EXCEPT !.deadline = {}] ELSE subscription[h]]
            /\ observer' = [all |-> FALSE, dirty |-> {}]
  /\ UNCHANGED <<cast, clock, socket, poll, ready, producer, legacy, owed, passed>>

(* refresh_subscription: query, bind when the source differs, query again, *)
(* then read the low epochs.                                               *)
Query(w) ==
  /\ waiter[w].pc \in {"refresh", "bind"}
  /\ \E h \in IF waiter[w].pc = "bind" THEN waiter[w].cur ELSE waiter[w].batch :
       /\ RuntimeFree(h)
       /\ LET snap == Snapshot(h)
              rebinds == waiter[w].pc = "refresh" /\ subscription[h].bound # snap.source
          IN  /\ waiter' = [waiter EXCEPT ![w].pc = IF rebinds THEN "bind" ELSE "finish",
                              ![w].cur = {h}, ![w].batch = @ \ {h},
                              ![w].snap = IF rebinds THEN NoSnapshot ELSE snap,
                              ![w].rebound = rebinds \/ waiter[w].pc = "bind"]
              /\ subscription' = [subscription EXCEPT ![h].bound =
                                    IF waiter[w].pc = "refresh" THEN snap.source ELSE @]
  /\ UNCHANGED <<cast, clock, socket, poll, ready, observer, producer, legacy, owed, passed>>

Finish(w) ==
  /\ waiter[w].pc = "finish"
  /\ \E h \in waiter[w].cur :
       LET s == Refreshed(subscription[h], waiter[w].snap, waiter[w].rebound)
       IN  /\ subscription' = [subscription EXCEPT ![h] = s]
           /\ ready' = Relinked(ready, h, s)
           /\ passed' = [passed EXCEPT ![h] = IF s.report = {} THEN 0 ELSE @]
  /\ waiter' = [waiter EXCEPT ![w].pc = "refresh", ![w].cur = {},
                              ![w].snap = NoSnapshot, ![w].rebound = FALSE]
  /\ UNCHANGED <<cast, clock, socket, poll, observer, producer, legacy, owed>>

(* A query that throws (a group's member snapshot) ends the call; every    *)
(* subscription is refreshed by the next one.                              *)
CollectFails(w) ==
  /\ waiter[w].pc = "refresh" /\ waiter[w].batch # {} /\ cast.fails
  /\ observer' = [observer EXCEPT !.all = TRUE]
  /\ waiter' = [Bumped(waiter) EXCEPT ![w] = Resting]
  /\ UNCHANGED <<cast, clock, socket, poll, subscription, ready, producer, legacy,
                 owed, passed>>

(* Mutant: a delivered handle keeps its place in the ready list. *)
DeliveredInPlace(w, out, updates) ==
  LET taken == DOMAIN out
      after == [h \in Handles |-> IF h \in taken
                  THEN Consumed(subscription[h], out[h], updates) ELSE subscription[h]]
  IN  /\ subscription' = after
      /\ ready' = SelectSeq(ready, LAMBDA h : after[h].report # {})
      /\ owed' = [h \in Handles |-> IF h \in taken THEN owed[h] \ out[h] ELSE owed[h]]
      /\ passed' = [h \in Handles |-> IF h \in taken \/ h \notin Range(ready) THEN 0
                                      ELSE passed[h] + 1]
      /\ waiter' = [waiter EXCEPT ![w] = Resting]

(* Delivery of events of the handles of `out` (handle -> events). *)
Delivered(w, out, updates) ==
  LET taken == DOMAIN out
      after == [h \in Handles |-> IF h \in taken
                  THEN Consumed(subscription[h], out[h], updates) ELSE subscription[h]]
      order == SelectSeq(ready, LAMBDA h : h \notin taken)
                 \o SelectSeq(ready, LAMBDA h : h \in taken /\ after[h].report # {})
  IN  /\ subscription' = after
      /\ ready' = order
      /\ owed' = [h \in Handles |-> IF h \in taken THEN owed[h] \ out[h] ELSE owed[h]]
      /\ passed' = [h \in Handles |-> IF h \in taken \/ h \notin Range(ready) THEN 0
                                      ELSE passed[h] + 1]
      /\ waiter' = [waiter EXCEPT ![w] = Resting]

(* epoll_uwait copies a prefix of the ready list. *)
Prefix(maximum) == {ready[i] : i \in 1..(IF Len(ready) < maximum THEN Len(ready) ELSE maximum)}

DeliverUwait(w) ==
  /\ waiter[w].pc = "refresh" /\ waiter[w].batch = {} /\ waiter[w].kind = "uwait"
  /\ ready # <<>>
  /\ \E maximum \in cast.outputs :
       Delivered(w, [h \in Prefix(maximum) |-> subscription[h].report], TRUE)
  /\ UNCHANGED <<cast, clock, socket, poll, observer, producer, legacy>>

(* epoll_wait with one read and one write output: every collected edge is  *)
(* consumed, and the level events that found room.                         *)
FirstWith(events) ==
  {h \in Range(ready) : /\ subscription[h].report \cap events # {}
                        /\ \A i \in 1..Len(ready) : ready[i] = h =>
                             \A j \in 1..(i - 1) : subscription[ready[j]].report \cap events = {}}

Reads == {"IN", "ERR"}
Writes == {"OUT", "ERR"}

DeliverWait(w) ==
  LET out == [h \in {g \in Range(ready) : \/ subscription[g].edge
                                          \/ g \in FirstWith(Reads) \cup FirstWith(Writes)} |->
               IF subscription[h].edge THEN subscription[h].report \ {"UPDATE"}
               ELSE (IF h \in FirstWith(Reads) THEN subscription[h].report \cap Reads ELSE {})
                      \cup (IF h \in FirstWith(Writes) THEN subscription[h].report \cap Writes
                            ELSE {})]
  IN  /\ waiter[w].pc = "refresh" /\ waiter[w].batch = {} /\ waiter[w].kind = "wait"
      /\ FirstWith(Levels) # {}
      /\ Delivered(w, out, FALSE)
      /\ UNCHANGED <<cast, clock, socket, poll, observer, producer, legacy>>

(* Nothing to return: release the mutex and wait_until the generation      *)
(* differs or the earliest delivery deadline.                              *)
Sleep(w) ==
  /\ waiter[w].pc = "refresh" /\ waiter[w].batch = {}
  /\ IF waiter[w].kind = "uwait" THEN ready = <<>> ELSE FirstWith(Levels) = {}
  /\ waiter' = [waiter EXCEPT ![w].pc = "asleep", ![w].wake = Earliest]
  /\ UNCHANGED <<cast, clock, socket, poll, subscription, ready, observer, producer,
                 legacy, owed, passed>>

(* The call's own timeout. *)
Timeout(w) ==
  /\ waiter[w].pc = "asleep"
  /\ waiter' = [waiter EXCEPT ![w] = Resting]
  /\ UNCHANGED <<cast, clock, socket, poll, subscription, ready, observer, producer,
                 legacy, owed, passed>>

-----------------------------------------------------------------------------
Init ==
  /\ cast \in Casts
  /\ clock = 0
  /\ socket = [h \in Handles |-> [state |-> cast.states[h], queue |-> <<>>, space |-> 1,
                                  lastReadable |-> FALSE, version |-> 0, arrivals |-> 0]]
  /\ poll = [released |-> FALSE, empty |-> FALSE, changes |-> 0]
  /\ subscription = [h \in Handles |-> NoSubscription]
  /\ ready = <<>>
  /\ observer = [all |-> TRUE, dirty |-> {}]
  /\ waiter = [w \in Waiters |-> Resting]
  /\ producer = [p \in Producers |-> AtRest]
  /\ legacy = [pc |-> "out", changed |-> FALSE, waiters |-> 0]
  /\ owed = [h \in Handles |-> {}]
  /\ passed = [h \in Handles |-> 0]

Next ==
  \/ Tick \/ LegacyCall \/ epoll_set
  \/ \E released \in BOOLEAN : ClearRecord(released)
  \/ \E p \in Producers : Notify(p) \/ NotifyLegacy(p)
  \/ \E h \in Handles :
       \/ Arrive(h) \/ Acknowledge(h) \/ PollRuntime(h) \/ Terminate(h) \/ ConnectEnds(h)
       \/ PublishAccept(h) \/ publish_group_update(h) \/ Receive(h) \/ Send(h) \/ Close(h)
       \/ Subscribe(h)
  \/ \E w \in Waiters :
       \/ Observe(w) \/ TakeChanges(w) \/ Query(w) \/ Finish(w) \/ CollectFails(w)
       \/ DeliverUwait(w) \/ DeliverWait(w) \/ Sleep(w) \/ Timeout(w)

Spec == Init /\ [][Next]_vars

-----------------------------------------------------------------------------
(* Properties *)

(* A change of h is still to be announced, or announced and not collected. *)
Announced(h) ==
  \/ \E p \in Producers : producer[p].stage = "watches"
                          /\ (producer[p].all \/ h \in producer[p].on)
  \/ observer.all \/ h \in observer.dirty
  \/ \E w \in Waiters : h \in waiter[w].batch \cup waiter[w].cur

(* Nobody sleeps on an event: a thread inside wait_until whose generation  *)
(* has not changed and whose deadline has not passed waits on a record     *)
(* that is not released, that reports nothing, and whose level-triggered   *)
(* handles are not ready, unless the change is about to be announced; and  *)
(* a legacy waiter is never left asleep on a generation that was bumped,   *)
(* nor on a state change that no notifier will announce any more.          *)
WaitersWoken ==
  /\ \A w \in Waiters :
       waiter[w].pc = "asleep" /\ ~waiter[w].changed /\ ~Deadlined(waiter[w].wake) =>
         /\ ~poll.released
         /\ \A h \in Subscribed :
              /\ subscription[h].report \cap (IF waiter[w].kind = "uwait"
                                                THEN Levels \cup {"UPDATE"} ELSE Levels) = {}
              /\ \/ Announced(h) \/ subscription[h].edge
                 \/ Level(socket[h], clock) \cap subscription[h].events = {}
  /\ legacy.pc = "asleep" =>
       \/ \E p \in Producers : ~Idle(p)
       \/ ~legacy.changed /\ Awaited

(* No edge is lost: a level of an edge-triggered subscription that rose    *)
(* after the last delivery is reported, or its rise will be collected: the *)
(* watch is queued, the change is about to be announced, or the delivery   *)
(* deadline that stands for it is due.                                     *)
EdgesKept ==
  \A h \in Subscribed : subscription[h].edge =>
    \A e \in owed[h] \cap subscription[h].events :
      \/ e \in subscription[h].report /\ h \in Range(ready)
      \/ Announced(h) \/ Deadlined(subscription[h].deadline)

(* Small output arrays do not starve a handle: a subscription that stays   *)
(* ready is passed over by at most one delivery per other subscription.    *)
RotationFair == \A h \in Handles : passed[h] < Cardinality(Handles)
=============================================================================
