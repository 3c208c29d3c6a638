------------------------- MODULE ConnectionAffinity -------------------------
(***************************************************************************)
(* ConnectionAffinity: every connection is owned by one shard.  Threads    *)
(* publish datagrams, commands, notices and timers to the slot of the      *)
(* connection; a slot with work stands once in the ready list of its       *)
(* shard, whose worker takes one turn at a time.  Every operation runs     *)
(* under one mutex and is one action.                                      *)
(*                                                                         *)
(* Keys, turns, commands and timers carry serial numbers; an operation     *)
(* with a token that is not the current one returns without effect, so the *)
(* actions are those of the current tokens.  The callers choose now: a     *)
(* deadline may be found passed or not whenever it is looked at.           *)
(***************************************************************************)
EXTENDS Integers, Sequences, FiniteSets

CONSTANTS
    maximum_connections,    \* slots
    shard_count,            \* configuration_.shards
    Wires,                  \* (channel, wire id) pairs of connections
    Traffic,                \* the kinds of events that each of them sees
    command_capacity,       \* command entries of a slot
    datagram_capacity,      \* datagrams a slot holds
    data_capacity,          \* how many of them may be DATA
    turn_budget,            \* events of one turn
    maximum_counter         \* the largest value of a serial number

VARIABLES
    slots,      \* State::slots
    shards,     \* State::shards
    state       \* stopped, admissions and runtime of State

vars == <<slots, shards, state>>

Slots == 0 .. maximum_connections - 1
Shards == 0 .. shard_count - 1
Commands == 1 .. command_capacity
Markers == {"send", "receive_release", "timer"}
Closing == {"closing", "closed"}

NoCommand == [state |-> "stale", ticket |-> 0, deadline |-> FALSE]

(* markers: the ticket of the pending notice, or 0.  alarm: timer_armed,     *)
(* timer_published and timer_issued, which are set in this order.  served:   *)
(* the ticket of the last event next() returned.                             *)
Slot ==
    [used |-> FALSE, wire |-> 0, shard |-> 0, sealed |-> FALSE, phase |-> "closed",
     owner_active |-> FALSE, drain_active |-> FALSE, close_started |-> FALSE,
     datagrams |-> <<>>, data |-> 0, commands |-> [c \in Commands |-> NoCommand],
     held |-> 0, markers |-> [k \in Markers |-> 0], ticket |-> 0, turn |-> 0,
     consumed |-> 0, timer |-> 0, alarm |-> "off", served |-> 0,
     work |-> FALSE, terminal |-> FALSE]

Shard == [ready |-> <<>>, active |-> maximum_connections, enabled |-> TRUE,
          doorbell |-> FALSE, fallback |-> FALSE]

Init ==
    /\ slots = [s \in Slots |-> Slot]
    /\ shards = [x \in Shards |-> Shard]
    /\ state = [stopped |-> FALSE, admissions |-> 0, runtime |-> 1]

-----------------------------------------------------------------------------
accepting(n) == ~state.stopped /\ shards[n.shard].enabled /\ n.phase \notin Closing

pending(n) ==
    \/ n.datagrams # <<>>
    \/ \E c \in Commands : n.commands[c].state = "queued"
    \/ \E k \in Markers : n.markers[k] # 0

signal(n) == [n EXCEPT !.work = accepting(n) /\ pending(n), !.terminal = ~accepting(n)]

(* The slot becomes n and its readiness is published. *)
Signal(s, n) == slots' = [slots EXCEPT ![s] = signal(n)] /\ UNCHANGED <<shards, state>>

(* The slot becomes n; if it was idle and has work now, it joins the ready   *)
(* list, and the reserved lane of the shard covers the wake-up.              *)
EnlistsAgain(n) == pending(n) /\ n.phase \in {"idle", "running"}
Enlists(n) == pending(n) /\ n.phase = "idle"
ready(s, n) ==
    /\ slots' = [slots EXCEPT ![s] = IF Enlists(n) THEN [signal(n) EXCEPT !.phase = "ready"]
                                                   ELSE signal(n)]
    /\ shards' = IF Enlists(n)
                 THEN [shards EXCEPT ![n.shard].ready = Append(@, s), ![n.shard].fallback = TRUE]
                 ELSE shards
    /\ UNCHANGED state

(* erase of one place of a list *)
Removed(q, i) == SubSeq(q, 1, i - 1) \o SubSeq(q, i + 1, Len(q))

(* The list q without the slots of C, in order.  The cases agree with the    *)
(* last one; they are the ones that happen, and that proofs can follow.      *)
Without(q, C) ==
    LET gone == {i \in DOMAIN q : q[i] \in C} IN
    IF gone = {} THEN q
    ELSE IF gone = DOMAIN q THEN <<>>
    ELSE IF \E i \in gone : gone = {i} THEN Removed(q, CHOOSE i \in gone : TRUE)
    ELSE SelectSeq(q, LAMBDA s : s \notin C)

remove_readyAwake(d, C) == [d EXCEPT !.ready = Without(@, C)]
remove_ready(d, C) ==
    LET kept == Without(d.ready, C) IN
    [d EXCEPT !.ready = kept, !.doorbell = @ /\ kept # <<>>, !.fallback = @ /\ kept # <<>>]

(* State::close of one slot: whatever was queued is dropped, commands nobody *)
(* has committed are cancelled.                                              *)
closedMarking(n) ==
    [n EXCEPT !.close_started = TRUE, !.phase = "closing", !.datagrams = <<>>, !.data = 0,
              !.markers = [k \in Markers |-> 0], !.work = FALSE, !.terminal = TRUE]
closed(n) ==
    [n EXCEPT !.close_started = TRUE, !.phase = "closing", !.datagrams = <<>>, !.data = 0,
              !.commands = [c \in Commands |->
                  IF @[c].state \in {"queued", "issued", "waiting"}
                  THEN [@[c] EXCEPT !.state = "cancelled"] ELSE @[c]],
              !.markers = [k \in Markers |-> 0], !.alarm = "off",
              !.work = FALSE, !.terminal = TRUE]

(* Close the slots of C that have not started to close. *)
Open(C) == {s \in C : ~slots[s].close_started}
CloseSlots(C) == slots' = [s \in Slots |-> IF s \in Open(C) THEN closed(slots[s]) ELSE slots[s]]

Close(s) ==
    /\ CloseSlots({s})
    /\ shards' = IF Open({s}) = {} THEN shards
                 ELSE [shards EXCEPT ![slots[s].shard] = remove_ready(@, {s})]
    /\ UNCHANGED state

(* A slot that has used up its tickets closes instead of issuing one. *)
Exhausted(s) == slots[s].ticket = maximum_counter
Next_(n) == n.ticket + 1

-----------------------------------------------------------------------------
Sees(s, kind) == slots[s].used /\ kind \in Traffic[slots[s].wire]
Alive(s) == slots[s].used /\ accepting(slots[s])

admit(w, setup) ==
    LET x == state.admissions % shard_count IN
    \E s \in Slots :
      /\ setup => "setup" \in Traffic[w]
      /\ ~state.stopped /\ state.admissions < maximum_counter
      /\ \A t \in Slots : slots[t].used => slots[t].wire # w
      /\ shards[x].enabled
      /\ ~slots[s].used /\ \A t \in 0 .. s - 1 : slots[t].used
      /\ slots' = [slots EXCEPT ![s] = [Slot EXCEPT !.used = TRUE, !.wire = w, !.shard = x,
                                          !.phase = IF setup THEN "setup" ELSE "idle"]]
      /\ state' = [state EXCEPT !.admissions = @ + 1]
      /\ UNCHANGED shards

(* A datagram that finds no room: DATA is refused, a control closes the      *)
(* connection.  While the connection is set up only the setup publishes;     *)
(* once sealed, only the others do.                                          *)
Full(n, kind) ==
    Len(n.datagrams) = datagram_capacity \/ (kind = "data" /\ n.data = data_capacity)

publish(s, kind, setup_publisher) ==
    LET n == slots[s] IN
    /\ Sees(s, kind) /\ Alive(s)
    /\ IF setup_publisher THEN n.phase = "setup" /\ ~n.sealed ELSE n.phase = "setup" => n.sealed
    /\ IF Full(n, kind) \/ Exhausted(s)
       THEN (Full(n, kind) => kind = "control") /\ Close(s)
       ELSE ready(s, [n EXCEPT !.datagrams = Append(@, [kind |-> kind, ticket |-> Next_(n)]),
                               !.data = IF kind = "data" THEN @ + 1 ELSE @,
                               !.ticket = @ + 1])

seal_setup(s) ==
    /\ Alive(s) /\ slots[s].phase = "setup" /\ ~slots[s].sealed
    /\ slots' = [slots EXCEPT ![s].sealed = TRUE]
    /\ UNCHANGED <<shards, state>>

finish_promotion(s) ==
    /\ Alive(s) /\ slots[s].phase = "setup" /\ slots[s].sealed
    /\ ready(s, [slots[s] EXCEPT !.phase = "idle"])

-----------------------------------------------------------------------------
(* Commands.  Entry c of slot s becomes state. *)
Becomes(n, c, to) == [n EXCEPT !.commands[c].state = to]
Is(s, c, from) == slots[s].used /\ slots[s].commands[c].state \in from

publish_command(s, c, deadline) ==
    LET n == slots[s] IN
    /\ Sees(s, "command") /\ Alive(s) /\ n.phase # "setup"
    /\ Is(s, c, {"stale"}) /\ \A d \in 1 .. c - 1 : ~Is(s, d, {"stale"})
    /\ IF Exhausted(s) THEN Close(s)
       ELSE ready(s, [n EXCEPT !.commands[c] = [state |-> "queued", ticket |-> Next_(n),
                                                deadline |-> deadline],
                               !.held = @ + 1, !.ticket = @ + 1])

cancel(s, c) ==
    /\ Is(s, c, {"queued", "issued", "waiting"})
    /\ Signal(s, Becomes(slots[s], c, "cancelled"))

(* The owner of the turn finishes a command, unless its deadline has passed. *)
commit(s, c) ==
    /\ Is(s, c, {"issued"}) /\ slots[s].owner_active /\ Alive(s)
    /\ \/ Signal(s, Becomes(slots[s], c, "completed"))
       \/ slots[s].commands[c].deadline /\ Signal(s, Becomes(slots[s], c, "cancelled"))

wait(s, c) ==
    /\ Is(s, c, {"issued"}) /\ slots[s].owner_active
    /\ slots' = [slots EXCEPT ![s] = Becomes(@, c, "waiting")]
    /\ UNCHANGED <<shards, state>>

resume(s, c) ==
    LET n == slots[s] IN
    /\ Is(s, c, {"waiting"}) /\ Alive(s)
    /\ \/ n.commands[c].deadline /\ Signal(s, Becomes(n, c, "cancelled"))
       \/ Exhausted(s) /\ Close(s)
       \/ /\ ~Exhausted(s)
          /\ ready(s, [Becomes(n, c, "queued") EXCEPT !.commands[c].ticket = Next_(n),
                                                      !.ticket = @ + 1])

take_result(s, c) ==
    /\ Is(s, c, {"completed", "cancelled"})
    /\ slots' = [slots EXCEPT ![s] = [Becomes(@, c, "stale") EXCEPT !.held = @ - 1]]
    /\ UNCHANGED <<shards, state>>

-----------------------------------------------------------------------------
(* A notice that is pending already is not queued again. *)
notify(s, k) ==
    LET n == slots[s] IN
    /\ Sees(s, k) /\ Alive(s) /\ k \in {"send", "receive_release"}
    /\ \/ n.markers[k] # 0 /\ ready(s, n)
       \/ n.markers[k] = 0 /\ Exhausted(s) /\ Close(s)
       \/ /\ n.markers[k] = 0 /\ ~Exhausted(s)
          /\ ready(s, [n EXCEPT !.markers[k] = Next_(n), !.ticket = @ + 1])

Disarmed(n) == [n EXCEPT !.alarm = "off", !.markers["timer"] = 0]

arm_timer(s) ==
    /\ Sees(s, "timer") /\ Alive(s) /\ slots[s].timer < maximum_counter
    /\ Signal(s, [Disarmed(slots[s]) EXCEPT !.alarm = "armed", !.timer = @ + 1])

cancel_timer(s) ==
    /\ slots[s].used /\ slots[s].alarm # "off"
    /\ Signal(s, Disarmed(slots[s]))

publish_timer(s) ==
    LET n == slots[s] IN
    /\ Alive(s) /\ n.alarm = "armed"
    /\ IF Exhausted(s) THEN Close(s)
       ELSE ready(s, [n EXCEPT !.markers["timer"] = Next_(n), !.alarm = "published",
                               !.ticket = @ + 1])

commit_timer(s) ==
    /\ Alive(s) /\ slots[s].owner_active /\ slots[s].alarm = "issued"
    /\ slots' = [slots EXCEPT ![s].alarm = "off"]
    /\ UNCHANGED <<shards, state>>

-----------------------------------------------------------------------------
(* The outcome of the wake-up of a shard; a shard whose scheduler stopped    *)
(* closes its connections.                                                   *)
observe_wake(x, result) ==
    \/ /\ result = "stopped"
       /\ LET C == {s \in Slots : slots[s].used /\ slots[s].shard = x} IN
          /\ CloseSlots(C)
          /\ shards' = [shards EXCEPT ![x] = [remove_ready(@, Open(C)) EXCEPT !.enabled = FALSE]]
       /\ UNCHANGED state
    \/ /\ result \in {"accepted", "full"} /\ shards[x].ready # <<>>
       /\ shards' = [shards EXCEPT ![x].doorbell = result = "accepted",
                                   ![x].fallback = result = "full"]
       /\ UNCHANGED <<slots, state>>

begin_turn(x) ==
    LET d == shards[x]
        rest == [d EXCEPT !.ready = Tail(@), !.doorbell = FALSE, !.fallback = Tail(d.ready) # <<>>]
    IN
    /\ d.enabled /\ d.ready # <<>> /\ d.active = maximum_connections
    /\ LET s == Head(d.ready) IN
       IF slots[s].turn = maximum_counter
       THEN /\ CloseSlots({s})
            /\ shards' = [shards EXCEPT ![x] = IF Open({s}) = {} THEN rest
                                               ELSE remove_ready(rest, {s})]
       ELSE /\ slots' = [slots EXCEPT ![s].owner_active = TRUE, ![s].phase = "running",
                                      ![s].consumed = 0, ![s].turn = @ + 1]
            /\ shards' = [shards EXCEPT ![x] = [rest EXCEPT !.active = s]]
    /\ UNCHANGED state

(* The oldest event of a slot, whatever its kind. *)
Tickets(n) ==
    {n.datagrams[i].ticket : i \in DOMAIN n.datagrams}
      \cup {n.commands[c].ticket : c \in {d \in Commands : n.commands[d].state = "queued"}}
      \cup ({n.markers[k] : k \in Markers} \ {0})
OldestDatagram(n, t) == \A i \in DOMAIN n.datagrams : t <= n.datagrams[i].ticket
Oldest(n, t) == \A u \in Tickets(n) : t <= u

Taken(n, t) == [n EXCEPT !.consumed = @ + 1, !.served = t]

next(s) ==
    /\ slots[s].used /\ slots[s].owner_active /\ accepting(slots[s])
    /\ slots[s].consumed < turn_budget
    /\ \E late \in SUBSET {c \in Commands : /\ slots[s].commands[c].state = "queued"
                                            /\ slots[s].commands[c].deadline} :
       LET n == [slots[s] EXCEPT !.commands = [c \in Commands |->
                   IF c \in late THEN [@[c] EXCEPT !.state = "cancelled"] ELSE @[c]]] IN
       \/ ~pending(n) /\ Signal(s, n)
       \/ /\ n.datagrams # <<>> /\ Oldest(n, Head(n.datagrams).ticket)
          /\ Signal(s, [Taken(n, Head(n.datagrams).ticket) EXCEPT
                          !.datagrams = Tail(@),
                          !.data = IF Head(n.datagrams).kind = "data" THEN @ - 1 ELSE @])
       \/ \E c \in Commands :
            /\ n.commands[c].state = "queued" /\ Oldest(n, n.commands[c].ticket)
            /\ Signal(s, Becomes(Taken(n, n.commands[c].ticket), c, "issued"))
       \/ \E k \in Markers :
            /\ n.markers[k] # 0 /\ Oldest(n, n.markers[k])
            /\ Signal(s, [Taken(n, n.markers[k]) EXCEPT
                            !.markers[k] = 0,
                            !.alarm = IF k = "timer" THEN "issued" ELSE @])

(* The owner may only leave once every command and timer it was given is     *)
(* settled.                                                                  *)
finish_turn(s) ==
    LET n == [slots[s] EXCEPT !.owner_active = FALSE]
        m == [n EXCEPT !.phase = "idle"]
        x == slots[s].shard
        left == [shards[x] EXCEPT !.active = maximum_connections]
    IN
    /\ slots[s].used /\ slots[s].owner_active
    /\ \A c \in Commands : n.commands[c].state # "issued"
    /\ n.alarm # "issued"
    /\ IF n.phase = "closing"
       THEN slots' = [slots EXCEPT ![s] = n] /\ shards' = [shards EXCEPT ![x] = left]
       ELSE /\ slots' = [slots EXCEPT ![s] = IF pending(m) THEN [signal(m) EXCEPT !.phase = "ready"]
                                             ELSE signal(m)]
            /\ shards' = [shards EXCEPT ![x] =
                 IF pending(m) THEN [left EXCEPT !.ready = Append(@, s), !.fallback = TRUE]
                 ELSE left]
    /\ UNCHANGED state

-----------------------------------------------------------------------------
close(s) == slots[s].used /\ ~slots[s].close_started /\ Close(s)

begin_drain(s) ==
    /\ slots[s].used /\ slots[s].phase = "closing"
    /\ ~slots[s].owner_active /\ ~slots[s].drain_active
    /\ slots' = [slots EXCEPT ![s].drain_active = TRUE]
    /\ UNCHANGED <<shards, state>>

finish_drain(s) ==
    /\ slots[s].used /\ slots[s].drain_active /\ slots[s].phase = "closing"
    /\ Signal(s, [slots[s] EXCEPT !.drain_active = FALSE, !.phase = "closed"])

(* The fields of a slot that is not used are never read: admit sets them. *)
release(s) ==
    /\ slots[s].used /\ slots[s].phase = "closed" /\ slots[s].held = 0
    /\ slots' = [slots EXCEPT ![s] = Slot]
    /\ UNCHANGED <<shards, state>>

stop ==
    LET C == {s \in Slots : slots[s].used} IN
    /\ ~state.stopped
    /\ CloseSlots(C)
    /\ shards' = [x \in Shards |->
         remove_ready(shards[x], {s \in Open(C) : slots[s].shard = x})]
    /\ state' = [state EXCEPT !.stopped = TRUE]

restart ==
    /\ state.stopped /\ state.runtime < maximum_counter
    /\ \A s \in Slots : slots[s].used => slots[s].phase = "closed" /\ slots[s].held = 0
    /\ slots' = [s \in Slots |-> Slot]
    /\ shards' = [x \in Shards |-> Shard]
    /\ state' = [state EXCEPT !.runtime = @ + 1, !.stopped = FALSE]

Next ==
    \/ \E w \in Wires, setup \in BOOLEAN : admit(w, setup)
    \/ \E s \in Slots :
         \/ \E kind \in {"data", "control"}, setup \in BOOLEAN : publish(s, kind, setup)
         \/ seal_setup(s) \/ finish_promotion(s)
         \/ \E c \in Commands :
              \/ \E deadline \in BOOLEAN : publish_command(s, c, deadline)
              \/ cancel(s, c) \/ commit(s, c) \/ wait(s, c) \/ resume(s, c) \/ take_result(s, c)
         \/ \E k \in Markers : notify(s, k)
         \/ arm_timer(s) \/ cancel_timer(s) \/ publish_timer(s) \/ commit_timer(s)
         \/ next(s) \/ finish_turn(s)
         \/ close(s) \/ begin_drain(s) \/ finish_drain(s) \/ release(s)
    \/ \E x \in Shards :
         \/ \E result \in {"accepted", "full", "stopped"} : observe_wake(x, result)
         \/ begin_turn(x)
    \/ stop \/ restart

Spec == Init /\ [][Next]_vars

-----------------------------------------------------------------------------
(* A slot is in the ready list of its shard exactly when its phase is ready, *)
(* and only once: the array of ready() never overflows, and a slot that is   *)
(* closed, released and admitted again leaves no entry behind.               *)
ReadyExact ==
    \A x \in Shards :
      LET q == shards[x].ready IN
      /\ \A i, j \in DOMAIN q : q[i] = q[j] => i = j
      /\ \A s \in Slots : (\E i \in DOMAIN q : q[i] = s)
                            <=> slots[s].shard = x /\ slots[s].phase = "ready"

(* A shard runs one turn at a time, that of its active slot; a connection    *)
(* that is drained or closed has no owner any more.                          *)
OwnersExact ==
    /\ \A x \in Shards, s \in Slots :
         shards[x].active = s <=> slots[s].owner_active /\ slots[s].shard = x
    /\ \A s \in Slots :
         /\ slots[s].phase = "running" => slots[s].owner_active
         /\ slots[s].owner_active => slots[s].phase \in {"running", "closing"}
         /\ slots[s].drain_active => slots[s].phase = "closing" /\ ~slots[s].owner_active

(* Work is never forgotten: an idle connection has none, and a shard with a  *)
(* ready connection has a wake-up under way.                                 *)
NothingForgotten ==
    /\ \A s \in Slots : slots[s].phase = "idle" => ~pending(slots[s])
    /\ \A x \in Shards : shards[x].ready # <<>> <=> shards[x].doorbell \/ shards[x].fallback

(* The published readiness is that of the slot. *)
ReadinessExact ==
    \A s \in Slots : slots[s].used =>
      /\ slots[s].work <=> accepting(slots[s]) /\ pending(slots[s])
      /\ slots[s].terminal <=> ~accepting(slots[s])

(* A connection that closes keeps nothing that could still run. *)
CloseBarrier ==
    \A s \in Slots :
      /\ slots[s].close_started => slots[s].phase \in Closing
      /\ slots[s].phase \in Closing =>
           /\ ~pending(slots[s]) /\ slots[s].alarm = "off"
           /\ \A c \in Commands : slots[s].commands[c].state \in {"stale", "completed", "cancelled"}

(* Events of all kinds are handed out in the order of their tickets. *)
FifoKept ==
    \A s \in Slots : \A t \in Tickets(slots[s]) : slots[s].served < t /\ t <= slots[s].ticket

AffinitySound ==
    ReadyExact /\ OwnersExact /\ NothingForgotten /\ ReadinessExact /\ CloseBarrier /\ FifoKept

(* data and view.commands count what the slot holds. *)
CountsExact ==
    \A s \in Slots : LET n == slots[s] IN
      /\ n.data = Cardinality({i \in DOMAIN n.datagrams : n.datagrams[i].kind = "data"})
      /\ n.held = Cardinality({c \in Commands : n.commands[c].state # "stale"})

=============================================================================
