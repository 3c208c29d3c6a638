-------------------------- MODULE SocketReadiness --------------------------
(***************************************************************************)
(* The readiness watcher of a scheduler: one thread that waits for the     *)
(* sockets of idle channels and calls each armed watch back once.          *)
(*                                                                         *)
(* There are two builds.  With a kernel queue (epoll, kqueue) arm() puts a *)
(* one-shot interest into the kernel, which a wait in progress sees at     *)
(* once.  With poll() the thread waits on a copy of the armed sockets and  *)
(* has to be woken through its own socket to take a new copy; a cancel     *)
(* must outlast the copy, since poll() keeps a closed socket's port bound. *)
(*                                                                         *)
(* A slot of the table is used again under a new generation.  Each Client  *)
(* is a channel with one socket that it watches, arms, cancels and closes. *)
(***************************************************************************)
EXTENDS Integers, Sequences, FiniteSets, SequencesExt

CONSTANTS
    Clients,    \* channels, used in numerical order
    Capacity,   \* slots of the table
    MaxArms     \* bound: successful arms per channel

VARIABLES
    build,      \* "queue" or "poll"
    entries,    \* the slots
    free,       \* free_slots, the next one last
    life,       \* running, stopping
    epoch,      \* a poll is in progress: poll_epoch > completed_poll_epoch
    woken,      \* a byte is in the wake socket
    watcher,    \* the thread: where it is, what it polls, what the kernel returned
    client,     \* each channel: step, token, arms and notifications so far
    readable    \* sockets with unread datagrams

vars == <<build, entries, free, life, epoch, woken, watcher, client, readable>>

Slots == 1 .. Capacity
NoToken == [slot |-> 0, generation |-> 0]

Init ==
    /\ build \in {"queue", "poll"}
    /\ entries = [s \in Slots |-> [owner |-> 0, generation |-> 0, active |-> FALSE,
                                   armed |-> FALSE, retiring |-> FALSE, interest |-> FALSE]]
    /\ free = [i \in 1 .. Capacity |-> Capacity + 1 - i]
    /\ life = [running |-> TRUE, stopping |-> FALSE]
    /\ epoch = FALSE
    /\ woken = FALSE
    /\ watcher = [at |-> "top", polled |-> {}, ready |-> {}, calls |-> {}]
    /\ client = [c \in Clients |-> [at |-> "new", token |-> NoToken, waits |-> FALSE,
                                    arms |-> 0, calls |-> 0]]
    /\ readable = {}

Current(s, g) == entries[s].generation = g

-----------------------------------------------------------------------------
(* The channels. *)

watch(c) ==
    /\ client[c].at = "new" /\ \A d \in Clients : d < c => client[d].at # "new"
    /\ IF life.running /\ ~life.stopping /\ free # <<>>
       THEN LET s == Last(free) IN
            /\ free' = Front(free)
            /\ entries' = [entries EXCEPT ![s] =
                 [owner |-> c, generation |-> @.generation + 1, active |-> TRUE,
                  armed |-> FALSE, retiring |-> FALSE, interest |-> FALSE]]
            /\ client' = [client EXCEPT ![c].at = "open", ![c].token =
                 [slot |-> s, generation |-> entries[s].generation + 1]]
       ELSE /\ client' = [client EXCEPT ![c].at = "closed"]
            /\ UNCHANGED <<entries, free>>
    /\ UNCHANGED <<build, life, epoch, woken, watcher, readable>>

(* Mutant: the thread is not woken for a new watch. *)
WokenByArmNot == woken

(* A poll in progress has to take a new copy. *)
WokenByArm == woken \/ build = "poll"

(* A refused arm changes nothing: its owner falls back to a timer.  An arm   *)
(* that finds the watch armed is not a new one.                              *)
arm(c) ==
    LET s == client[c].token.slot
    IN  /\ client[c].at = "open" /\ client[c].arms < MaxArms
        /\ life.running /\ ~life.stopping /\ ~entries[s].armed
        /\ entries' = [entries EXCEPT ![s].armed = TRUE,
                                      ![s].interest = (build = "queue")]
        /\ client' = [client EXCEPT ![c].arms = @ + 1]
        /\ woken' = WokenByArm
        /\ UNCHANGED <<build, free, life, epoch, watcher, readable>>

(* Mutant: the watch is removed without waiting for the poll that has it. *)
MustOutlastNever == FALSE

(* poll_epoch > completed_poll_epoch *)
MustOutlast == build = "poll" /\ epoch

(* Mutant: the interest stays in the kernel. *)
RetiredInterest(e) == [e EXCEPT !.active = FALSE, !.armed = FALSE, !.retiring = TRUE]

Retired(e) ==
    [e EXCEPT !.active = FALSE, !.armed = FALSE, !.retiring = TRUE, !.interest = FALSE]

cancel(c) ==
    LET s == client[c].token.slot
    IN  /\ client[c].at = "open"
        /\ entries' = [entries EXCEPT ![s] = Retired(@)]
        /\ client' = [client EXCEPT ![c].at = "canceling", ![c].waits = MustOutlast]
        /\ woken' = (woken \/ build = "poll")
        /\ UNCHANGED <<build, free, life, epoch, watcher, readable>>

(* The poll that may hold the socket is over; the slot is free and the       *)
(* channel closes its socket.                                                *)
cancel_returns(c) ==
    LET s == client[c].token.slot
    IN  /\ client[c].at = "canceling" /\ ~client[c].waits
        /\ entries' = [entries EXCEPT ![s].retiring = FALSE]
        /\ free' = Append(free, s)
        /\ client' = [client EXCEPT ![c].at = "closed", ![c].token = NoToken]
        /\ readable' = readable \ {c}
        /\ UNCHANGED <<build, life, epoch, woken, watcher>>

stop ==
    /\ ~life.stopping
    /\ life' = [life EXCEPT !.stopping = TRUE]
    /\ woken' = TRUE
    /\ UNCHANGED <<build, entries, free, epoch, watcher, client, readable>>

Arrive(c) ==
    /\ client[c].at \in {"open", "canceling"} /\ c \notin readable
    /\ readable' = readable \cup {c}
    /\ UNCHANGED <<build, entries, free, life, epoch, woken, watcher, client>>

(* The channel reads everything, in a slice that an earlier report or a      *)
(* timer brought.                                                            *)
Drain(c) ==
    /\ c \in readable /\ client[c].at = "open"
    /\ readable' = readable \ {c}
    /\ UNCHANGED <<build, entries, free, life, epoch, woken, watcher, client>>

-----------------------------------------------------------------------------
(* The watcher thread. *)

(* With the lock: an exit, or the copy of what is armed. *)
BeginWait ==
    /\ watcher.at = "top"
    /\ IF life.stopping
       THEN /\ life' = [life EXCEPT !.running = FALSE]
            /\ watcher' = [watcher EXCEPT !.at = "done"]
            /\ UNCHANGED epoch
       ELSE /\ epoch' = TRUE
            /\ watcher' = [watcher EXCEPT !.at = "wait", !.polled =
                 IF build = "queue" THEN {}
                 ELSE {<<s, entries[s].generation>> :
                         s \in {x \in Slots : entries[x].active /\ entries[x].armed}}]
            /\ UNCHANGED life
    /\ UNCHANGED <<build, entries, free, woken, client, readable>>

(* The copy poll() has of a socket outlives the watch; the kernel queue      *)
(* knows only the interest that is there now.                                *)
Reportable ==
    IF build = "poll" THEN {t \in watcher.polled : entries[t[1]].owner \in readable}
    ELSE {<<s, entries[s].generation>> :
            s \in {x \in Slots : entries[x].interest /\ entries[x].owner \in readable}}

(* The wait returns: sockets, a wake, or both.  Sockets the queue reports     *)
(* have spent their one-shot interest.                                        *)
WaitReturns ==
    /\ watcher.at = "wait"
    /\ \/ /\ woken \/ Reportable # {}
          /\ watcher' = [watcher EXCEPT !.at = IF woken THEN "drain" ELSE "got",
                                        !.ready = Reportable]
          /\ entries' = IF build = "poll" THEN entries
                        ELSE [s \in Slots |-> IF <<s, entries[s].generation>> \in Reportable
                                              THEN [entries[s] EXCEPT !.interest = FALSE]
                                              ELSE entries[s]]
       \/ /\ watcher' = [watcher EXCEPT !.at = "failed"]
          /\ UNCHANGED entries
    /\ UNCHANGED <<build, free, life, epoch, woken, client, readable>>

(* Wakes sent since the wait returned are taken as well: the next copy will   *)
(* see what they were sent for.                                               *)
drain_wake ==
    /\ watcher.at = "drain"
    /\ watcher' = [watcher EXCEPT !.at = "got"]
    /\ woken' = FALSE
    /\ UNCHANGED <<build, entries, free, life, epoch, client, readable>>

Armed(s) == entries[s].active /\ entries[s].armed

Reported(ready) == {t[1] : t \in {u \in ready : Armed(u[1]) /\ Current(u[1], u[2])}}

(* With the lock again: waiting cancels go on, and every report disarms its   *)
(* watch.  A wait that failed reports every armed watch, once, and retires.   *)
EndWait ==
    /\ watcher.at \in {"got", "failed"}
    /\ LET failed   == watcher.at = "failed"
           reported == IF failed THEN {s \in Slots : Armed(s)} ELSE Reported(watcher.ready)
       IN  /\ entries' = [s \in Slots |-> IF s \in reported THEN [entries[s] EXCEPT !.armed = FALSE]
                                          ELSE entries[s]]
           /\ watcher' = [at |-> IF failed THEN "last" ELSE "call", polled |-> {}, ready |-> {},
                          calls |-> {entries[s].owner : s \in reported}]
           /\ life' = [life EXCEPT !.running = @ /\ ~failed]
    /\ epoch' = FALSE
    /\ client' = [c \in Clients |-> [client[c] EXCEPT !.waits = FALSE]]
    /\ UNCHANGED <<build, free, woken, readable>>

(* Already dispatched callbacks may run after their watch was canceled.       *)
Call ==
    /\ watcher.at \in {"call", "last"}
    /\ IF watcher.calls = {}
       THEN /\ watcher' = [watcher EXCEPT !.at = IF @ = "last" THEN "done" ELSE "top"]
            /\ UNCHANGED client
       ELSE LET c == CHOOSE x \in watcher.calls : \A y \in watcher.calls : x <= y
            IN  /\ watcher' = [watcher EXCEPT !.calls = @ \ {c}]
                /\ client' = [client EXCEPT ![c].calls = @ + 1]
    /\ UNCHANGED <<build, entries, free, life, epoch, woken, readable>>

-----------------------------------------------------------------------------

Next ==
    \/ \E c \in Clients : \/ watch(c) \/ arm(c) \/ cancel(c) \/ cancel_returns(c)
                          \/ Arrive(c) \/ Drain(c)
    \/ stop \/ BeginWait \/ WaitReturns \/ drain_wake \/ EndWait \/ Call

Spec == Init /\ [][Next]_vars

-----------------------------------------------------------------------------

(* No readiness is missed: while the thread waits, an armed watch whose       *)
(* socket is readable makes that wait return, through the kernel's interest,  *)
(* the copy it polls, or the wake that makes it take a new copy.  A watch     *)
(* left armed when the thread has ended would never be reported.  A cancel    *)
(* that waits for a poll to end waits for one that was woken or has returned. *)
ReadinessReported ==
    /\ \A s \in Slots :
         /\ Armed(s) /\ entries[s].owner \in readable /\ watcher.at = "wait" =>
              woken \/ <<s, entries[s].generation>> \in Reportable
         /\ Armed(s) /\ watcher.at = "done" => life.stopping
    /\ \A c \in Clients : client[c].at = "canceling" /\ client[c].waits =>
         \/ watcher.at \in {"drain", "got", "failed"}
         \/ watcher.at = "wait" /\ woken

(* A canceled watch is gone: once cancel() has returned and the socket is     *)
(* closed, no wait in progress holds it.  A callback answers an arm of its    *)
(* own channel: there are never more callbacks than arms, whatever became of  *)
(* the slot between the event and its report.  No slot is lost.               *)
WatchesExact ==
    /\ \A c \in Clients :
         /\ client[c].at = "closed" =>
              /\ \A t \in watcher.polled : entries[t[1]].owner # c \/ ~Current(t[1], t[2])
              /\ \A s \in Slots : entries[s].owner = c => ~entries[s].interest /\ ~Armed(s)
         /\ client[c].calls + (IF c \in watcher.calls THEN 1 ELSE 0)
            + (IF \E s \in Slots : Armed(s) /\ entries[s].owner = c THEN 1 ELSE 0)
            <= client[c].arms
    /\ IsInjective(free)
    /\ ToSet(free) = {s \in Slots : ~entries[s].active /\ ~entries[s].retiring}

=============================================================================
