----------------------- MODULE DatagramChannelProofs -----------------------
(***************************************************************************)
(* A channel never loses its continuation, and never sleeps on notified    *)
(* work: OneContinuation and WorkIsPrompt of DatagramChannel, for any      *)
(* number of connections, any batch sizes and any number of notifiers.     *)
(***************************************************************************)
EXTENDS DatagramChannel, TLAPS

Steps == {"idle", "receive", "poll", "finish"}
Lives == {"new", "up", "broken", "gone"}

Work == [life : Lives, sends : BOOLEAN, freed : BOOLEAN, holds : BOOLEAN]

SchedTyped == sched \in [task : BOOLEAN, timer : Waits, taken : BOOLEAN]
ChanTyped ==
    chan \in [running : BOOLEAN, parked : BOOLEAN, timer : Waits,
              send_pending : BOOLEAN, release_pending : BOOLEAN, active : BOOLEAN]
WatchTyped ==
    watch \in [state : {"idle", "armed", "fired"}, runs : BOOLEAN, available : BOOLEAN]
SliceTyped ==
    /\ slice = [at |-> slice.at, receives |-> slice.receives, polls |-> slice.polls,
                immediate |-> slice.immediate, wait |-> slice.wait, safe |-> slice.safe]
    /\ slice.at \in Steps /\ slice.wait \in Waits
    /\ slice.immediate \in BOOLEAN /\ slice.safe \in BOOLEAN
RingTyped == ring \in Seq(Runtimes)
RoundTyped ==
    round \in [left : Nat, immediate : BOOLEAN, safe : BOOLEAN, wait : {"none", "near", "far"}]
WorkTyped == rt \in [Runtimes -> Work]

TypeInv ==
    /\ SchedTyped /\ ChanTyped /\ WatchTyped /\ SliceTyped
    /\ RingTyped /\ RoundTyped /\ WorkTyped

(* Who holds the continuation: at most one of the task queue, the timer heap, *)
(* a worker that took the timer, and the running slice; nobody when the       *)
(* channel is parked; somebody when it runs and is not parked.  The timer     *)
(* token is that of the armed timer, or of one a worker has just taken.       *)
Continuation ==
    /\ chan.active <=> slice.at # "idle"
    /\ chan.active => chan.running /\ chan.timer = "none"
    /\ chan.active => ~sched.task /\ ~sched.taken /\ sched.timer = "none"
    /\ sched.task => ~sched.taken /\ sched.timer = "none"
    /\ sched.taken => sched.timer = "none"
    /\ chan.parked => ~chan.active /\ ~sched.task /\ ~sched.taken /\ sched.timer = "none"
    /\ chan.running => \/ chan.parked \/ chan.active \/ sched.task \/ sched.taken
                       \/ sched.timer # "none"
    /\ chan.running /\ sched.timer # "none" => chan.timer = sched.timer
    /\ chan.running /\ chan.timer # "none" /\ sched.timer = "none" => sched.taken
    /\ ~chan.running => sched.timer = "none"

(* The route of r has its turn in this round, or the round has already found  *)
(* something due within the short interval.                                   *)
Turn(r) == \E i \in 1 .. Len(ring) : i <= round.left /\ ring[i] = r
Counts(r) == Turn(r) \/ round.wait = "near"

(* The finished slice asks for a long wait or for none. *)
Quiet == ~slice.immediate /\ slice.wait \in {"none", "far"}

(* What r has to do, once its thread has notified, and the notices of it that *)
(* the end of the running slice will see.                                     *)
Works(r, what) == IF what = "send" THEN rt[r].sends ELSE rt[r].freed
Due(r, what) == Works(r, what) /\ <<r, what>> \notin owes
Pending(what) == chan.send_pending \/ (what = "release" /\ chan.release_pending)

(* Why notified work of r will be noticed, at each point of a slice.  Between *)
(* slices one comes soon, and a round that goes on counts r.  While a slice   *)
(* runs, a new round will begin, this one counts r, or the notice is pending. *)
Heard(r, what) ==
    /\ slice.at = "idle" => Soon
    /\ slice.at \in {"idle", "finish"} /\ round.left # 0 => Counts(r)
    /\ slice.at = "receive" /\ round.left # 0 => Counts(r) \/ Pending(what)
    /\ slice.at = "poll" => Counts(r) \/ Pending(what)
    /\ slice.at = "finish" /\ round.left = 0 => ~Quiet \/ Pending(what)

Noticed ==
    chan.running =>
      \A r \in Runtimes \ missed, what \in Notices : Due(r, what) => Heard(r, what)

(* Only routes in the ring have work. *)
InRing(r) == \E i \in 1 .. Len(ring) : ring[i] = r
Routed ==
    \A r \in Runtimes : /\ rt[r].sends \/ rt[r].freed => rt[r].life = "up"
                        /\ rt[r].life = "up" => InRing(r)

(* A round that goes on has submitted its next slice. *)
Rounds ==
    /\ round.left # 0 /\ slice.at = "finish" => slice.immediate
    /\ chan.running /\ round.left # 0 /\ slice.at = "idle" => sched.task

(* A long wait is only reported by a round that may rely on the readiness     *)
(* watch, and only taken with the watch armed.                                *)
Watched ==
    /\ round.wait # "near" => round.safe
    /\ chan.running /\ round.wait = "far" => watch.available
    /\ slice.at = "finish" /\ slice.wait = "far" => slice.safe
    /\ chan.running /\ (chan.parked \/ sched.timer = "far")
         => watch.state \in {"armed", "fired"}

IInv == TypeInv /\ Continuation /\ Routed /\ Rounds /\ Watched /\ Noticed

-----------------------------------------------------------------------------
(* The ring of routes                                                        *)

(* unregister_connection takes one route out: the routes before it keep      *)
(* their places, the others move up by one.                                  *)
LEMMA RemovedRoute ==
    ASSUME NEW s \in Seq(Runtimes), NEW i \in 1 .. Len(s)
    PROVE  /\ Removed(s, i) \in Seq(Runtimes)
           /\ Len(Removed(s, i)) = Len(s) - 1
           /\ \A j \in 1 .. Len(s) - 1 : Removed(s, i)[j] = IF j < i THEN s[j] ELSE s[j + 1]
  <1> DEFINE a == SubSeq(s, 1, i - 1)
             b == SubSeq(s, i + 1, Len(s))
  <1>1. a \in Seq(Runtimes) /\ Len(a) = i - 1
    OBVIOUS
  <1>2. b \in Seq(Runtimes) /\ Len(b) = Len(s) - i
    OBVIOUS
  <1>3. /\ \A j \in 1 .. i - 1 : a[j] = s[j]
        /\ \A j \in 1 .. Len(s) - i : b[j] = s[i + j]
    OBVIOUS
  <1>4. Removed(s, i) = a \o b
    BY DEF Removed
  <1> HIDE DEF a, b
  <1>5. a \o b \in Seq(Runtimes) /\ Len(a \o b) = Len(s) - 1
    <2>1. a \o b \in Seq(Runtimes) /\ Len(a \o b) = Len(a) + Len(b)
      BY <1>1, <1>2
    <2> QED BY <2>1, <1>1, <1>2
  <1>6. \A j \in 1 .. Len(a) + Len(b) :
          (a \o b)[j] = IF j <= Len(a) THEN a[j] ELSE b[j - Len(a)]
    BY <1>1, <1>2
  <1>7. ASSUME NEW j \in 1 .. Len(s) - 1
        PROVE  (a \o b)[j] = IF j < i THEN s[j] ELSE s[j + 1]
    <2>1. CASE j < i
      BY <2>1, <1>1, <1>2, <1>3, <1>6
    <2>2. CASE ~(j < i)
      <3>1. j - (i - 1) \in 1 .. Len(s) - i /\ i + (j - (i - 1)) = j + 1
        BY <2>2
      <3>2. b[j - (i - 1)] = s[j + 1]
        BY <3>1, <1>3
      <3> QED BY <2>2, <3>2, <1>1, <1>2, <1>6
    <2> QED BY <2>1, <2>2, Zenon
  <1> QED BY <1>4, <1>5, <1>7

(* Polling a route rotates it to the end of the ring. *)
LEMMA RotatedRing ==
    ASSUME NEW s \in Seq(Runtimes), s # <<>>
    PROVE  /\ Tail(s) \o <<Head(s)>> \in Seq(Runtimes)
           /\ Len(Tail(s) \o <<Head(s)>>) = Len(s)
           /\ Head(s) = s[1] /\ Head(s) \in Runtimes
           /\ \A j \in 1 .. Len(s) - 1 : (Tail(s) \o <<Head(s)>>)[j] = s[j + 1]
           /\ (Tail(s) \o <<Head(s)>>)[Len(s)] = s[1]
  OBVIOUS

-----------------------------------------------------------------------------
(* Types                                                                     *)

(* Breaking connections keeps the type of their work. *)
LEMMA BrokenTyped ==
    /\ Broken \in Work /\ [Broken EXCEPT !.life = "gone"] \in Work
    /\ \A r \in Runtimes : WorkTyped => rt[r] \in Work
    /\ WorkTyped /\ mark_connections_broken => WorkTyped'
  <1>1. Broken \in Work /\ [Broken EXCEPT !.life = "gone"] \in Work
    BY Zenon DEF Broken, Work, Lives
  <1> QED BY <1>1 DEF WorkTyped, mark_connections_broken

(* notify_work keeps the types, whatever it decides. *)
LEMMA NotifyTyped ==
    ASSUME TypeInv, NEW release \in BOOLEAN, notify_work(release)
    PROVE  SchedTyped' /\ ChanTyped' /\ WorkTyped'
  <1> USE DEF TypeInv
  <1>1. SchedTyped'
    BY Zenon DEF SchedTyped, notify_work, SubmitTask, ArmTimer, Refused, Waits
  <1>2. ChanTyped'
    BY Zenon DEF ChanTyped, notify_work, SubmitTask, ArmTimer, Refused, FollowUp, Waits
  <1>3. WorkTyped'
    <2>1. UNCHANGED rt \/ mark_connections_broken
      BY DEF notify_work, Refused
    <2> QED BY <2>1, BrokenTyped DEF WorkTyped
  <1> QED BY <1>1, <1>2, <1>3

(* A channel that was just started has the types. *)
LEMMA InitTyped == Init => TypeInv
  <1> SUFFICES ASSUME Init PROVE TypeInv
    OBVIOUS
  <1> USE DEF Init
  <1>1. RingTyped
    <2>1. CASE ring = <<>>
      BY <2>1 DEF RingTyped
    <2>2. ASSUME NEW r \in Runtimes, ring = <<r>> PROVE RingTyped
      BY <2>2 DEF RingTyped
    <2> QED BY <2>1, <2>2
  <1>2. WorkTyped
    BY DEF WorkTyped, Work, Lives
  <1>3. SchedTyped /\ ChanTyped /\ WatchTyped
    BY Zenon DEF SchedTyped, ChanTyped, WatchTyped, Waits
  <1>4. SliceTyped /\ RoundTyped
    BY DEF SliceTyped, RoundTyped, Idle, NoRound, Waits, Steps
  <1> QED BY <1>1, <1>2, <1>3, <1>4 DEF TypeInv

(* The answers ConnectionRuntime::poll can give. *)
LEMMA PollAnswers ==
    ASSUME NEW x, NEW a \in Answers(x)
    PROVE  /\ a.immediate \in BOOLEAN /\ a.safe \in BOOLEAN
           /\ a.wait \in {"none", "near", "far"}
           /\ a.wait = "near" => ~a.safe
           /\ a.immediate => ~a.safe
           /\ x.life = "up" /\ x.sends => ~a.safe
  <1>1. /\ \/ a = [immediate |-> FALSE, wait |-> "none", safe |-> TRUE]
           \/ a = [immediate |-> FALSE, wait |-> "near", safe |-> FALSE]
           \/ a = [immediate |-> FALSE, wait |-> "far", safe |-> TRUE]
           \/ a = [immediate |-> TRUE, wait |-> "none", safe |-> FALSE]
        /\ x.life = "up" /\ x.sends =>
             \/ a = [immediate |-> FALSE, wait |-> "near", safe |-> FALSE]
             \/ a = [immediate |-> TRUE, wait |-> "none", safe |-> FALSE]
    BY Zenon DEF Answers, Answer
  <1>2. CASE a = [immediate |-> FALSE, wait |-> "none", safe |-> TRUE]
    <2>1. ~(x.life = "up" /\ x.sends)
      BY <1>1, <1>2
    <2> QED BY <1>2, <2>1
  <1>3. CASE a = [immediate |-> FALSE, wait |-> "near", safe |-> FALSE]
    BY <1>3
  <1>4. CASE a = [immediate |-> FALSE, wait |-> "far", safe |-> TRUE]
    <2>1. ~(x.life = "up" /\ x.sends)
      BY <1>1, <1>4
    <2> QED BY <1>4, <2>1
  <1>5. CASE a = [immediate |-> TRUE, wait |-> "none", safe |-> FALSE]
    BY <1>5
  <1> QED BY <1>1, <1>2, <1>3, <1>4, <1>5

(* Every step keeps the types. *)
LEMMA StepTyped ==
    ASSUME TypeInv, [Next]_vars
    PROVE  TypeInv'
  <1> USE DEF TypeInv
  <1>u. /\ sched' = sched => SchedTyped'
        /\ chan' = chan => ChanTyped'
        /\ watch' = watch => WatchTyped'
        /\ slice' = slice => SliceTyped'
        /\ ring' = ring => RingTyped'
        /\ round' = round => RoundTyped'
        /\ rt' = rt => WorkTyped'
    BY DEF SchedTyped, ChanTyped, WatchTyped, SliceTyped, RingTyped, RoundTyped, WorkTyped
  <1>r. \A n \in Nat : [NoRound EXCEPT !.left = n] \in
            [left : Nat, immediate : BOOLEAN, safe : BOOLEAN, wait : {"none", "near", "far"}]
    BY Zenon DEF NoRound
  <1>1. ASSUME NEW r \in Runtimes, QueueSend(r) PROVE TypeInv'
    <2>1. WorkTyped'
      BY <1>1, Zenon DEF QueueSend, WorkTyped, Work
    <2> QED BY <1>1, <1>u, <2>1 DEF QueueSend
  <1>2. ASSUME NEW r \in Runtimes, ReadMessage(r) PROVE TypeInv'
    <2>1. WorkTyped'
      BY <1>2, Zenon DEF ReadMessage, WorkTyped, Work
    <2> QED BY <1>2, <1>u, <2>1 DEF ReadMessage
  <1>3. ASSUME NEW r \in Runtimes, register_connection(r) PROVE TypeInv'
    <2>1. WorkTyped'
      <3>1. "up" \in Lives
        BY DEF Lives
      <3> QED BY <1>3, <3>1, Zenon DEF register_connection, WorkTyped, Work
    <2>2. RingTyped'
      BY <1>3 DEF register_connection, RingTyped
    <2> QED BY <1>3, <1>u, <2>1, <2>2 DEF register_connection
  <1>4. ASSUME NEW r \in Runtimes, unregister_connection(r) PROVE TypeInv'
    <2>1. RingTyped'
      BY <1>4, RemovedRoute DEF unregister_connection, RingTyped
    <2>2. WorkTyped'
      BY <1>4, BrokenTyped DEF unregister_connection, WorkTyped
    <2> QED BY <1>4, <1>u, <2>1, <2>2 DEF unregister_connection
  <1>5. ASSUME NEW r \in Runtimes, NEW w \in Notices, Notify(r, w) PROVE TypeInv'
    <2>1. (w = "release") \in BOOLEAN /\ notify_work(w = "release")
      BY <1>5 DEF Notify
    <2>2. SchedTyped' /\ ChanTyped' /\ WorkTyped'
      BY <2>1, NotifyTyped, Zenon
    <2> QED BY <1>5, <1>u, <2>2 DEF Notify
  <1>6. CASE stop
    <2>1. SchedTyped' /\ ChanTyped' /\ WatchTyped'
      BY <1>6, Zenon DEF stop, SchedTyped, ChanTyped, WatchTyped, Waits
    <2> QED BY <1>6, <1>u, <2>1 DEF stop
  <1>7. CASE Arrive
    BY <1>7, <1>u DEF Arrive
  <1>8. CASE Fire
    <2>1. WatchTyped'
      BY <1>8, Zenon DEF Fire, WatchTyped
    <2> QED BY <1>8, <1>u, <2>1 DEF Fire
  <1>9. CASE socket_readable
    <2>1. SchedTyped' /\ ChanTyped' /\ WorkTyped'
      BY <1>9, NotifyTyped, Zenon DEF socket_readable
    <2>2. WatchTyped'
      BY <1>9 DEF socket_readable, WatchTyped
    <2> QED BY <1>9, <1>u, <2>1, <2>2 DEF socket_readable
  <1>10. CASE Nears
    <2>1. SchedTyped' /\ ChanTyped'
      BY <1>10 DEF Nears, SchedTyped, ChanTyped, Waits
    <2> QED BY <1>10, <1>u, <2>1 DEF Nears
  <1>11. CASE TakeTimer
    <2>1. SchedTyped'
      BY <1>11, Zenon DEF TakeTimer, SchedTyped, Waits
    <2> QED BY <1>11, <1>u, <2>1 DEF TakeTimer
  <1>12. CASE BeginSlice
    <2>1. SchedTyped'
      BY <1>12, Zenon DEF BeginSlice, SchedTyped
    <2>2. ChanTyped'
      BY <1>12, Zenon DEF BeginSlice, ChanTyped, Waits
    <2>3. SliceTyped'
      BY <1>12, Zenon DEF BeginSlice, SliceTyped, Idle, Steps, Waits
    <2> QED BY <1>12, <1>u, <2>1, <2>2, <2>3 DEF BeginSlice
  <1>13. CASE Receive
    <2>1. SliceTyped'
      BY <1>13 DEF Receive, SliceTyped
    <2>2. WorkTyped'
      BY <1>13, Zenon DEF Receive, WorkTyped, Work
    <2> QED BY <1>13, <1>u, <2>1, <2>2 DEF Receive
  <1>14. CASE ReceiveFails
    <2>1. SliceTyped'
      BY <1>14, Zenon DEF ReceiveFails, SliceTyped, Steps
    <2>2. RoundTyped'
      BY <1>14, <1>r DEF ReceiveFails, RoundTyped, RingTyped
    <2> QED BY <1>14, <1>u, <2>1, <2>2, BrokenTyped DEF ReceiveFails
  <1>15. CASE BeginPoll
    <2>1. SliceTyped'
      BY <1>15, Zenon DEF BeginPoll, SliceTyped, Steps
    <2>2. RoundTyped'
      BY <1>15, <1>r DEF BeginPoll, RoundTyped, RingTyped
    <2> QED BY <1>15, <1>u, <2>1, <2>2 DEF BeginPoll
  <1>16. CASE PollNext
    <2>1. PICK a \in Answers(rt[Head(ring)]) : PollAnswered(Head(ring), a)
      BY <1>16 DEF PollNext
    <2>2. RingTyped' /\ Head(ring) \in Runtimes
      BY <1>16, RotatedRing DEF PollNext, RingTyped
    <2>3. RoundTyped'
      <3>1. /\ a.immediate \in BOOLEAN /\ a.safe \in BOOLEAN
            /\ a.wait \in {"none", "near", "far"}
        BY <2>1, PollAnswers
      <3>2. watch.available \in BOOLEAN
        BY DEF WatchTyped
      <3>3. \A w \in {"none", "near", "far"} : Sooner(round.wait, w) \in {"none", "near", "far"}
        BY DEF Sooner, RoundTyped
      <3>4. round' = Counted(a) /\ round.left > 0
        BY <1>16, <2>1 DEF PollNext, PollAnswered
      <3>5. (IF a.safe /\ watch.available THEN a.wait ELSE "near") \in {"none", "near", "far"}
        BY <3>1
      <3>6. /\ round.left - 1 \in Nat
            /\ (round.immediate \/ a.immediate) \in BOOLEAN
            /\ (round.safe /\ a.safe /\ watch.available) \in BOOLEAN
        BY <3>1, <3>2, <3>4 DEF RoundTyped
      <3>7. Counted(a) \in
              [left : Nat, immediate : BOOLEAN, safe : BOOLEAN, wait : {"none", "near", "far"}]
        <4> DEFINE l == round.left - 1
                   i == round.immediate \/ a.immediate
                   s == round.safe /\ a.safe /\ watch.available
                   w == IF a.safe /\ watch.available THEN a.wait ELSE "near"
                   u == Sooner(round.wait, w)
        <4>1. Counted(a) = [round EXCEPT !.left = l, !.immediate = i, !.safe = s, !.wait = u]
          BY DEF Counted, RoundTyped
        <4>2. l \in Nat /\ i \in BOOLEAN /\ s \in BOOLEAN
          BY <3>6
        <4>3. u \in {"none", "near", "far"}
          BY <3>3, <3>5
        <4> HIDE DEF l, i, s, w, u
        <4>4. [round EXCEPT !.left = l, !.immediate = i, !.safe = s, !.wait = u] \in
                [left : Nat, immediate : BOOLEAN, safe : BOOLEAN, wait : {"none", "near", "far"}]
          BY <4>2, <4>3, Zenon DEF RoundTyped
        <4> QED BY <4>1, <4>4, Zenon
      <3> QED BY <3>4, <3>7 DEF RoundTyped
    <2>4. WorkTyped'
      <3>1. CASE rt' = [rt EXCEPT ![Head(ring)] = Broken]
        BY <3>1, <2>2, BrokenTyped DEF WorkTyped
      <3>2. CASE rt' = [rt EXCEPT ![Head(ring)].freed = FALSE]
        BY <3>2, <2>2, Zenon DEF WorkTyped, Work
      <3>3. CASE rt' = [rt EXCEPT ![Head(ring)].freed = FALSE, ![Head(ring)].sends = FALSE]
        BY <3>3, <2>2, Zenon DEF WorkTyped, Work
      <3> QED BY <2>1, <3>1, <3>2, <3>3 DEF PollAnswered
    <2>5. SliceTyped'
      BY <2>1 DEF PollAnswered, SliceTyped
    <2> QED BY <1>16, <1>u, <2>2, <2>3, <2>4, <2>5 DEF PollNext
  <1>17. CASE EndPoll
    <2>1. SliceTyped'
      <3> DEFINE left == IF ring = <<>> /\ slice.polls > 0 THEN 0 ELSE round.left
                 now  == left # 0 \/ round.immediate
                 full == slice.receives = 0
                 safe == round.safe /\ watch.available
                 wait == IF safe \/ round.wait # "none" THEN round.wait ELSE "near"
      <3>1. PICK w \in IF wait = "near" THEN {"near", "probe", "now"} ELSE {wait} :
              slice' = [Idle EXCEPT !.at = "finish",
                                    !.immediate = now \/ full \/ w = "now",
                                    !.wait = IF now \/ full \/ w = "now" THEN "none" ELSE w,
                                    !.safe = ~now /\ w # "now" /\ safe]
        BY <1>17, Zenon DEF EndPoll
      <3>2. w \in {"now"} \cup Waits /\ safe \in BOOLEAN /\ now \in BOOLEAN
        BY <3>1 DEF Waits, RoundTyped, WatchTyped
      <3> HIDE DEF now, full, safe, wait
      <3> QED BY <3>1, <3>2, Zenon DEF SliceTyped, Idle, Steps, Waits
    <2>2. RoundTyped'
      BY <1>17 DEF EndPoll, RoundTyped, NoRound
    <2> QED BY <1>17, <1>u, <2>1, <2>2 DEF EndPoll
  <1>18. CASE EndSlice
    <2>w. /\ slice.wait \in Waits
          /\ \A a \in Waits : Sooner(a, "near") \in Waits
      BY DEF SliceTyped, Sooner, Waits
    <2> DEFINE c == [chan EXCEPT !.active = FALSE, !.send_pending = FALSE,
                                 !.release_pending = FALSE]
    <2>c. \/ chan' = [c EXCEPT !.parked = TRUE] /\ UNCHANGED sched
          \/ SubmitTask(c, sched)
          \/ \E k \in Waits : ArmTimer(c, sched, k)
          \/ Refused(c, sched)
      <3> DEFINE now  == slice.immediate \/ (chan.send_pending /\ slice.wait # "probe")
                 wait == IF slice.wait = "none" THEN "near" ELSE slice.wait
                 kind(armed) == IF chan.release_pending \/ (~armed /\ slice.safe)
                                THEN Sooner(wait, "near") ELSE wait
      <3>1. PICK armed \in BOOLEAN :
              \/ chan' = [c EXCEPT !.parked = TRUE] /\ UNCHANGED sched
              \/ SubmitTask(c, sched)
              \/ ArmTimer(c, sched, kind(armed))
              \/ Refused(c, sched)
        BY <1>18, Zenon DEF EndSlice
      <3>2. kind(armed) \in Waits
        BY <2>w DEF Waits
      <3> HIDE DEF kind
      <3> QED BY <3>1, <3>2
    <2>1. SchedTyped'
      BY <2>c, Zenon DEF SubmitTask, ArmTimer, Refused, SchedTyped, Waits
    <2>2. ChanTyped'
      BY <2>c, Zenon DEF SubmitTask, ArmTimer, Refused, ChanTyped, Waits
    <2>3. WatchTyped'
      BY <1>18 DEF EndSlice, WatchTyped
    <2>4. SliceTyped'
      BY <1>18 DEF EndSlice, SliceTyped, Idle, Steps, Waits
    <2>5. WorkTyped'
      BY <1>18, <1>u, BrokenTyped DEF EndSlice, Refused
    <2> QED BY <1>18, <1>u, <2>1, <2>2, <2>3, <2>4, <2>5 DEF EndSlice
  <1>19. CASE UNCHANGED vars
    BY <1>19, <1>u DEF vars
  <1> QED BY <1>1, <1>2, <1>3, <1>4, <1>5, <1>6, <1>7, <1>8, <1>9, <1>10, <1>11, <1>12, <1>13,
             <1>14, <1>15, <1>16, <1>17, <1>18, <1>19 DEF Next

-----------------------------------------------------------------------------
(* The continuation                                                          *)

(* What notify_work does, decision by decision. *)
LEMMA NotifyCases ==
    ASSUME NEW release \in BOOLEAN, notify_work(release)
    PROVE  \/ UNCHANGED <<sched, chan, rt>> /\ ~chan.running
           \/ /\ UNCHANGED <<sched, chan, rt>> /\ release
              /\ chan.timer # "none" /\ sched.timer # "far"
           \/ /\ UNCHANGED <<sched, chan, rt>>
              /\ chan.timer = "none" /\ ~chan.active /\ ~chan.parked
           \/ /\ chan' = FollowUp(release) /\ UNCHANGED <<sched, rt>> /\ chan.running
              /\ chan.timer = "probe" \/ WorkerOwns
           \/ /\ chan.running /\ chan.timer # "probe" /\ ~WorkerOwns
              /\ ~(chan.timer = "none" /\ ~chan.active /\ ~chan.parked)
              /\ LET c == [chan EXCEPT !.parked = FALSE, !.send_pending = FALSE,
                                       !.release_pending = FALSE]
                 IN  \/ SubmitTask(c, [sched EXCEPT !.timer = "none"]) /\ UNCHANGED rt
                     \/ ArmTimer(c, sched, "near") /\ UNCHANGED rt
                     \/ Refused(c, sched)
  BY Zenon DEF notify_work

(* A notification keeps the one continuation; if the channel goes on without  *)
(* a running slice, one comes soon; and a running slice is told.              *)
LEMMA NotifyContinues ==
    ASSUME TypeInv, Continuation, NEW release \in BOOLEAN, notify_work(release), slice' = slice
    PROVE  /\ Continuation'
           /\ chan'.running /\ slice.at = "idle" => Soon'
           /\ chan.active => chan' = FollowUp(release) /\ UNCHANGED <<sched, rt>>
           /\ sched.task => UNCHANGED <<sched, chan, rt>>
           /\ chan'.running => chan.running /\ rt' = rt
           /\ chan'.running /\ (chan'.parked \/ sched'.timer = "far")
                => chan.parked \/ sched.timer = "far"
  <1> USE DEF TypeInv, SchedTyped, ChanTyped, Continuation, Soon
  <1>1. CASE UNCHANGED <<sched, chan, rt>> /\ ~chan.running
    BY <1>1
  <1>2. CASE /\ UNCHANGED <<sched, chan, rt>> /\ release
             /\ chan.timer # "none" /\ sched.timer # "far"
    BY <1>2, Zenon DEF Waits
  <1>3. CASE /\ UNCHANGED <<sched, chan, rt>>
             /\ chan.timer = "none" /\ ~chan.active /\ ~chan.parked
    BY <1>3
  <1>4. CASE /\ chan' = FollowUp(release) /\ UNCHANGED <<sched, rt>> /\ chan.running
             /\ chan.timer = "probe" \/ WorkerOwns
    BY <1>4 DEF FollowUp, WorkerOwns
  <1>5. CASE /\ chan.running /\ chan.timer # "probe" /\ ~WorkerOwns
             /\ ~(chan.timer = "none" /\ ~chan.active /\ ~chan.parked)
             /\ LET c == [chan EXCEPT !.parked = FALSE, !.send_pending = FALSE,
                                      !.release_pending = FALSE]
                IN  \/ SubmitTask(c, [sched EXCEPT !.timer = "none"]) /\ UNCHANGED rt
                    \/ ArmTimer(c, sched, "near") /\ UNCHANGED rt
                    \/ Refused(c, sched)
    <2> DEFINE c == [chan EXCEPT !.parked = FALSE, !.send_pending = FALSE,
                                 !.release_pending = FALSE]
    <2>1. ~sched.task /\ ~sched.taken /\ ~chan.active
      BY <1>5 DEF WorkerOwns
    <2>2. CASE SubmitTask(c, [sched EXCEPT !.timer = "none"]) /\ UNCHANGED rt
      BY <1>5, <2>1, <2>2 DEF SubmitTask
    <2>3. CASE ArmTimer(c, sched, "near") /\ UNCHANGED rt
      BY <1>5, <2>1, <2>3 DEF ArmTimer
    <2>4. CASE Refused(c, sched)
      BY <1>5, <2>1, <2>4 DEF Refused
    <2> QED BY <1>5, <2>2, <2>3, <2>4
  <1> QED BY <1>1, <1>2, <1>3, <1>4, <1>5, NotifyCases

(* The end of run_scheduled: the channel it leaves behind, whether it asks    *)
(* for another slice at once, and how long it waits otherwise.                *)
Released == [chan EXCEPT !.active = FALSE, !.send_pending = FALSE, !.release_pending = FALSE]
AtOnce == slice.immediate \/ (chan.send_pending /\ slice.wait # "probe")
ShortWait == IF slice.wait = "none" THEN "near" ELSE slice.wait
Delay(armed) == IF chan.release_pending \/ (~armed /\ slice.safe)
                THEN Sooner(ShortWait, "near") ELSE ShortWait
Parks(armed) == armed /\ slice.wait = "none" /\ ~chan.release_pending

(* What run_scheduled does after run_once, decision by decision. *)
LEMMA EndSliceCases ==
    ASSUME EndSlice
    PROVE  \E armed \in BOOLEAN :
             /\ armed => ~AtOnce /\ slice.safe /\ CanArm
             /\ watch' = IF armed /\ watch.state # "armed" THEN [watch EXCEPT !.state = "armed"]
                         ELSE watch
             /\ \/ Parks(armed) /\ chan' = [Released EXCEPT !.parked = TRUE] /\ UNCHANGED <<sched, rt>>
                \/ AtOnce /\ SubmitTask(Released, sched) /\ UNCHANGED rt
                \/ /\ ~AtOnce /\ ~Parks(armed)
                   /\ ArmTimer(Released, sched, Delay(armed)) /\ UNCHANGED rt
                \/ Refused(Released, sched)
  <1> DEFINE c     == [chan EXCEPT !.active = FALSE, !.send_pending = FALSE,
                                   !.release_pending = FALSE]
             now   == slice.immediate \/ (chan.send_pending /\ slice.wait # "probe")
             wait  == IF slice.wait = "none" THEN "near" ELSE slice.wait
  <1>1. PICK armed \in IF ~now /\ slice.safe /\ CanArm THEN {TRUE, FALSE} ELSE {FALSE} :
          /\ watch' = IF armed /\ watch.state # "armed" THEN [watch EXCEPT !.state = "armed"]
                      ELSE watch
          /\ \/ /\ armed /\ slice.wait = "none" /\ ~chan.release_pending
                /\ chan' = [c EXCEPT !.parked = TRUE]
                /\ UNCHANGED <<sched, rt>>
             \/ /\ ~(armed /\ slice.wait = "none" /\ ~chan.release_pending)
                /\ \/ /\ now /\ SubmitTask(c, sched) /\ UNCHANGED rt
                   \/ /\ ~now
                      /\ ArmTimer(c, sched,
                           IF chan.release_pending \/ (~armed /\ slice.safe)
                           THEN Sooner(wait, "near") ELSE wait)
                      /\ UNCHANGED rt
                   \/ Refused(c, sched)
    BY Zenon DEF EndSlice
  <1>2. armed \in BOOLEAN /\ (armed => ~now /\ slice.safe /\ CanArm)
    BY <1>1, Zenon
  <1> QED BY <1>1, <1>2, Zenon DEF Released, AtOnce, ShortWait, Delay, Parks

(* Every step keeps the one continuation. *)
LEMMA StepContinues ==
    ASSUME TypeInv, TypeInv', Continuation, [Next]_vars
    PROVE  Continuation'
  <1> USE DEF TypeInv
  <1>u. sched' = sched /\ chan' = chan /\ slice' = slice => Continuation'
    BY DEF Continuation
  <1>1. ASSUME NEW r \in Runtimes,
               \/ QueueSend(r) \/ ReadMessage(r) \/ register_connection(r)
               \/ unregister_connection(r)
        PROVE  Continuation'
    BY <1>1, <1>u DEF QueueSend, ReadMessage, register_connection, unregister_connection
  <1>2. ASSUME NEW r \in Runtimes, NEW w \in Notices, Notify(r, w) PROVE Continuation'
    <2>1. (w = "release") \in BOOLEAN /\ notify_work(w = "release") /\ slice' = slice
      BY <1>2 DEF Notify
    <2> QED BY <2>1, NotifyContinues, Zenon
  <1>3. CASE stop
    BY <1>3 DEF stop, Continuation, SchedTyped, ChanTyped
  <1>4. CASE Arrive \/ Fire
    BY <1>4, <1>u DEF Arrive, Fire
  <1>5. CASE socket_readable
    BY <1>5, NotifyContinues, Zenon DEF socket_readable
  <1>6. CASE Nears
    BY <1>6 DEF Nears, Continuation, SchedTyped, ChanTyped
  <1>7. CASE TakeTimer
    BY <1>7 DEF TakeTimer, Continuation, SchedTyped
  <1>8. CASE BeginSlice
    <2>1. /\ slice.at = "idle" /\ sched.timer = "none" /\ sched'.timer = "none"
          /\ ~sched'.task /\ ~sched'.taken /\ ~chan.active /\ ~chan.parked
      BY <1>8 DEF BeginSlice, Continuation, SchedTyped
    <2>2. CASE chan.running
      <3>1. /\ chan'.timer = "none" /\ chan'.active /\ chan'.running /\ ~chan'.parked
            /\ slice'.at = "receive"
        BY <1>8, <2>1, <2>2, Zenon DEF BeginSlice, ChanTyped, Idle
      <3> QED BY <2>1, <3>1 DEF Continuation
    <2>3. CASE ~chan.running
      BY <1>8, <2>1, <2>3 DEF BeginSlice, Continuation
    <2> QED BY <2>2, <2>3
  <1>9. CASE Receive \/ ReceiveFails \/ BeginPoll
    <2>1. slice.at # "idle" /\ slice'.at # "idle"
      BY <1>9, Zenon DEF Receive, ReceiveFails, BeginPoll, SliceTyped
    <2>2. UNCHANGED <<sched, chan>>
      BY <1>9 DEF Receive, ReceiveFails, BeginPoll
    <2> QED BY <2>1, <2>2 DEF Continuation
  <1>10. CASE PollNext
    BY <1>10 DEF PollNext, PollAnswered, Continuation, SliceTyped
  <1>11. CASE EndPoll
    <2>1. slice'.at = "finish"
      BY <1>11 DEF EndPoll, Idle
    <2> QED BY <1>11, <2>1 DEF EndPoll, Continuation
  <1>12. CASE EndSlice
    <2>1. PICK armed \in BOOLEAN :
             \/ Parks(armed) /\ chan' = [Released EXCEPT !.parked = TRUE] /\ UNCHANGED <<sched, rt>>
             \/ AtOnce /\ SubmitTask(Released, sched) /\ UNCHANGED rt
             \/ ArmTimer(Released, sched, Delay(armed)) /\ UNCHANGED rt
             \/ Refused(Released, sched)
      BY <1>12, EndSliceCases, Zenon
    <2>2. slice'.at = "idle" /\ slice.at = "finish"
      BY <1>12 DEF EndSlice, Idle
    <2>3. Delay(armed) # "none"
      BY DEF Delay, ShortWait, Sooner
    <2> USE DEF Continuation, Released, SchedTyped, ChanTyped
    <2>4. CASE Parks(armed) /\ chan' = [Released EXCEPT !.parked = TRUE] /\ UNCHANGED <<sched, rt>>
      BY <2>2, <2>4
    <2>5. CASE SubmitTask(Released, sched)
      BY <2>2, <2>5 DEF SubmitTask
    <2>6. CASE ArmTimer(Released, sched, Delay(armed))
      BY <2>2, <2>3, <2>6 DEF ArmTimer
    <2>7. CASE Refused(Released, sched)
      BY <2>2, <2>7 DEF Refused
    <2> QED BY <2>1, <2>4, <2>5, <2>6, <2>7
  <1>13. CASE UNCHANGED vars
    BY <1>13, <1>u DEF vars
  <1> QED BY <1>1, <1>2, <1>3, <1>4, <1>5, <1>6, <1>7, <1>8, <1>9, <1>10, <1>11, <1>12, <1>13
          DEF Next

-----------------------------------------------------------------------------
(* Routes and rounds                                                         *)

(* Connections may break; none begins to have work. *)
LEMMA BrokenRouted ==
    ASSUME WorkTyped, Routed, ring' = ring, rt' = rt \/ mark_connections_broken
    PROVE  Routed'
  <1>1. \A r \in Runtimes : rt'[r] = rt[r] \/ rt'[r] = Broken
    BY DEF mark_connections_broken
  <1>2. ~Broken.sends /\ ~Broken.freed /\ Broken.life # "up"
    BY DEF Broken
  <1>3. \A r \in Runtimes : InRing(r)' = InRing(r)
    BY DEF InRing
  <1> QED BY <1>1, <1>2, <1>3 DEF Routed

(* Every step keeps routes with work in the ring. *)
LEMMA StepRouted ==
    ASSUME TypeInv, TypeInv', Continuation, Routed, [Next]_vars
    PROVE  Routed'
  <1> USE DEF TypeInv
  <1>u. ring' = ring => \A r \in Runtimes : InRing(r)' = InRing(r)
    BY DEF InRing
  <1>b. /\ Broken.life # "up" /\ ~Broken.sends /\ ~Broken.freed
        /\ [Broken EXCEPT !.life = "gone"].life # "up"
        /\ ~[Broken EXCEPT !.life = "gone"].sends /\ ~[Broken EXCEPT !.life = "gone"].freed
    BY DEF Broken
  <1>1. ASSUME NEW r \in Runtimes, QueueSend(r) PROVE Routed'
    BY <1>1, <1>u DEF QueueSend, Routed, WorkTyped, Work
  <1>2. ASSUME NEW r \in Runtimes, ReadMessage(r) PROVE Routed'
    BY <1>2, <1>u DEF ReadMessage, Routed, WorkTyped, Work
  <1>3. ASSUME NEW r \in Runtimes, register_connection(r) PROVE Routed'
    <2>1. \A q \in Runtimes : InRing(q) \/ q = r => InRing(q)'
      BY <1>3 DEF register_connection, InRing, RingTyped
    <2> QED BY <1>3, <2>1 DEF register_connection, Routed, WorkTyped, Work
  <1>4. ASSUME NEW r \in Runtimes, unregister_connection(r) PROVE Routed'
    <2>1. PICK i \in 1 .. Len(ring) : ring[i] = r /\ ring' = Removed(ring, i)
      BY <1>4 DEF unregister_connection
    <2>2. ASSUME NEW q \in Runtimes, q # r, InRing(q) PROVE InRing(q)'
      <3>1. PICK j \in 1 .. Len(ring) : ring[j] = q
        BY <2>2 DEF InRing
      <3>2. /\ Len(ring') = Len(ring) - 1
            /\ \A k \in 1 .. Len(ring) - 1 : ring'[k] = IF k < i THEN ring[k] ELSE ring[k + 1]
        BY <2>1, RemovedRoute, Zenon DEF RingTyped
      <3>3. CASE j < i
        <4>1. j \in 1 .. Len(ring') /\ ring'[j] = q
          BY <3>1, <3>2, <3>3 DEF RingTyped
        <4> QED BY <4>1 DEF InRing
      <3>4. CASE j > i
        <4>1. j - 1 \in 1 .. Len(ring') /\ ring'[j - 1] = q
          BY <3>1, <3>2, <3>4 DEF RingTyped
        <4> QED BY <4>1 DEF InRing
      <3> QED BY <2>1, <2>2, <3>1, <3>3, <3>4
    <2>3. rt' = [rt EXCEPT ![r] = [Broken EXCEPT !.life = "gone"]]
      BY <1>4 DEF unregister_connection
    <2> QED BY <2>2, <2>3, <1>b DEF Routed, WorkTyped
  <1>5. ASSUME NEW r \in Runtimes, NEW w \in Notices, Notify(r, w) PROVE Routed'
    <2>1. rt' = rt \/ mark_connections_broken
      BY <1>5 DEF Notify, notify_work, Refused
    <2> QED BY <1>5, <2>1, BrokenRouted DEF Notify
  <1>6. CASE socket_readable
    <2>1. rt' = rt \/ mark_connections_broken
      BY <1>6, Zenon DEF socket_readable, notify_work, Refused
    <2> QED BY <1>6, <2>1, BrokenRouted DEF socket_readable
  <1>7. CASE Receive
    BY <1>7, <1>u DEF Receive, Routed, WorkTyped, Work
  <1>8. CASE ReceiveFails
    BY <1>8, BrokenRouted DEF ReceiveFails
  <1>9. CASE PollNext
    <2>1. Head(ring) \in Runtimes /\ \A r \in Runtimes : InRing(r) => InRing(r)'
      <3>1. SUFFICES ASSUME NEW r \in Runtimes, InRing(r)
                     PROVE  Head(ring) \in Runtimes /\ InRing(r)'
        BY <1>9, RotatedRing DEF PollNext, RingTyped
      <3>2. PICK j \in 1 .. Len(ring) : ring[j] = r
        BY <3>1 DEF InRing
      <3>3. /\ Head(ring) \in Runtimes /\ Len(ring') = Len(ring) /\ ring'[Len(ring)] = ring[1]
            /\ \A k \in 1 .. Len(ring) - 1 : ring'[k] = ring[k + 1]
        BY <1>9, RotatedRing DEF PollNext, RingTyped
      <3>4. CASE j = 1
        BY <3>2, <3>3, <3>4 DEF InRing, RingTyped
      <3>5. CASE j > 1
        <4>1. j - 1 \in 1 .. Len(ring') /\ ring'[j - 1] = r
          BY <3>2, <3>3, <3>5 DEF RingTyped
        <4> QED BY <3>3, <4>1 DEF InRing
      <3> QED BY <3>4, <3>5
    <2>2. \/ rt' = [rt EXCEPT ![Head(ring)].freed = FALSE]
          \/ rt' = [rt EXCEPT ![Head(ring)].freed = FALSE, ![Head(ring)].sends = FALSE]
          \/ rt' = [rt EXCEPT ![Head(ring)] = Broken]
      BY <1>9 DEF PollNext, PollAnswered
    <2> QED BY <2>1, <2>2, <1>b DEF Routed, WorkTyped, Work
  <1>10. CASE EndSlice
    <2>1. rt' = rt \/ mark_connections_broken
      BY <1>10, EndSliceCases DEF Refused
    <2> QED BY <1>10, <2>1, BrokenRouted DEF EndSlice
  <1>11. CASE \/ stop \/ Arrive \/ Fire \/ Nears \/ TakeTimer \/ BeginSlice \/ BeginPoll \/ EndPoll
              \/ UNCHANGED vars
    <2>1. UNCHANGED <<ring, rt>>
      BY <1>11, Zenon DEF stop, Arrive, Fire, Nears, TakeTimer, BeginSlice, BeginPoll, EndPoll, vars
    <2> QED BY <2>1, BrokenRouted
  <1> QED BY <1>1, <1>2, <1>3, <1>4, <1>5, <1>6, <1>7, <1>8, <1>9, <1>10, <1>11 DEF Next

(* Every step keeps a round that goes on scheduled. *)
LEMMA StepRounds ==
    ASSUME TypeInv, TypeInv', Continuation, Rounds, [Next]_vars
    PROVE  Rounds'
  <1> USE DEF TypeInv
  <1>u. UNCHANGED <<sched, chan, slice, round>> => Rounds'
    BY DEF Rounds
  <1>1. ASSUME NEW r \in Runtimes,
               \/ QueueSend(r) \/ ReadMessage(r) \/ register_connection(r)
               \/ unregister_connection(r)
        PROVE  Rounds'
    BY <1>1, <1>u DEF QueueSend, ReadMessage, register_connection, unregister_connection
  <1>2. ASSUME NEW r \in Runtimes, NEW w \in Notices, Notify(r, w) PROVE Rounds'
    <2>1. /\ (w = "release") \in BOOLEAN /\ notify_work(w = "release")
          /\ slice' = slice /\ round' = round
      BY <1>2 DEF Notify
    <2>2. chan'.running => chan.running
      BY <2>1, NotifyContinues, Zenon
    <2>3. sched.task => sched' = sched
      BY <2>1, NotifyContinues, Zenon
    <2> QED BY <2>1, <2>2, <2>3 DEF Rounds
  <1>3. CASE stop
    BY <1>3 DEF stop, Rounds, ChanTyped
  <1>4. CASE Arrive \/ Fire \/ UNCHANGED vars
    BY <1>4, <1>u DEF Arrive, Fire, vars
  <1>5. CASE socket_readable
    <2>1. slice' = slice /\ round' = round
      BY <1>5 DEF socket_readable
    <2>2. chan'.running => chan.running
      BY <1>5, NotifyContinues, Zenon DEF socket_readable
    <2>3. sched.task => sched' = sched
      BY <1>5, NotifyContinues, Zenon DEF socket_readable
    <2> QED BY <2>1, <2>2, <2>3 DEF Rounds
  <1>6. CASE Nears \/ TakeTimer
    <2>1. /\ sched'.task = sched.task /\ UNCHANGED <<slice, round>>
          /\ chan'.running = chan.running
      BY <1>6, Zenon DEF Nears, TakeTimer, SchedTyped, ChanTyped
    <2> QED BY <2>1 DEF Rounds
  <1>7. CASE BeginSlice
    <2>1. slice'.at = "receive" \/ (slice.at = "idle" /\ slice' = slice /\ ~chan'.running)
      BY <1>7, Zenon DEF BeginSlice, Idle
    <2> QED BY <2>1 DEF Rounds
  <1>8. CASE Receive \/ ReceiveFails \/ BeginPoll
    <2>1. slice'.at \in {"receive", "poll"}
      BY <1>8, Zenon DEF Receive, ReceiveFails, BeginPoll, SliceTyped
    <2> QED BY <2>1 DEF Rounds
  <1>9. CASE PollNext
    <2>1. slice'.at = "poll"
      BY <1>9 DEF PollNext, PollAnswered, SliceTyped
    <2> QED BY <2>1 DEF Rounds
  <1>10. CASE EndPoll
    <2>1. slice'.at = "finish" /\ (round'.left # 0 => slice'.immediate)
      BY <1>10, Zenon DEF EndPoll, Idle, NoRound
    <2> QED BY <2>1 DEF Rounds
  <1>11. CASE EndSlice
    <2>1. slice.at = "finish" /\ slice'.at = "idle" /\ round' = round
      BY <1>11 DEF EndSlice, Idle
    <2>2. CASE round.left = 0
      BY <2>1, <2>2 DEF Rounds
    <2>3. CASE round.left # 0
      <3>1. AtOnce
        BY <2>1, <2>3 DEF Rounds, AtOnce
      <3>2. SubmitTask(Released, sched) \/ Refused(Released, sched)
        BY <1>11, <3>1, EndSliceCases, Zenon DEF Parks
      <3>3. sched'.task \/ ~chan'.running
        BY <3>2, Zenon DEF SubmitTask, Refused, Released, SchedTyped, ChanTyped
      <3> QED BY <2>1, <3>3 DEF Rounds
    <2> QED BY <2>2, <2>3
  <1> QED BY <1>1, <1>2, <1>3, <1>4, <1>5, <1>6, <1>7, <1>8, <1>9, <1>10, <1>11 DEF Next

(* What the poll of one connection adds to the round. *)
LEMMA PollCounted ==
    ASSUME RoundTyped, WatchTyped, NEW x, NEW a \in Answers(x), round' = Counted(a)
    PROVE  /\ round'.left = round.left - 1
           /\ round'.wait \in {"none", "near", "far"}
           /\ round'.wait # "near" =>
                round.wait # "near" /\ a.safe /\ watch.available /\ round'.safe = round.safe
           /\ round'.wait = "far" => round.wait = "far" \/ watch.available
  <1>1. /\ a.immediate \in BOOLEAN /\ a.safe \in BOOLEAN
        /\ a.wait \in {"none", "near", "far"}
    BY PollAnswers
  <1>2. /\ round'.left = round.left - 1
        /\ round'.safe = (round.safe /\ a.safe /\ watch.available)
        /\ round'.wait = Sooner(round.wait, IF a.safe /\ watch.available THEN a.wait ELSE "near")
    BY DEF Counted, RoundTyped
  <1>3. round.wait \in {"none", "near", "far"} /\ round.safe \in BOOLEAN
        /\ watch.available \in BOOLEAN
    BY DEF RoundTyped, WatchTyped
  <1>4. CASE a.safe /\ watch.available
    BY <1>1, <1>2, <1>3, <1>4 DEF Sooner
  <1>5. CASE ~(a.safe /\ watch.available)
    BY <1>1, <1>2, <1>3, <1>5 DEF Sooner
  <1> QED BY <1>4, <1>5

(* What the end of the poll phase reports. *)
LEMMA PollResult ==
    ASSUME TypeInv, EndPoll
    PROVE  /\ slice'.at = "finish"
           /\ round'.left # 0 => slice'.immediate /\ round' = round
           /\ round'.left = 0 => round' = NoRound
           /\ slice'.wait = "far" => round.wait = "far" /\ slice'.safe = (round.safe /\ watch.available)
           /\ round.wait = "near" => slice'.immediate \/ slice'.wait \in {"near", "probe"}
  <1> USE DEF TypeInv
  <1> DEFINE left == IF ring = <<>> /\ slice.polls > 0 THEN 0 ELSE round.left
             now  == left # 0 \/ round.immediate
             full == slice.receives = 0
             safe == round.safe /\ watch.available
             wait == IF safe \/ round.wait # "none" THEN round.wait ELSE "near"
  <1>1. PICK w \in IF wait = "near" THEN {"near", "probe", "now"} ELSE {wait} :
          slice' = [Idle EXCEPT !.at = "finish",
                                !.immediate = now \/ full \/ w = "now",
                                !.wait = IF now \/ full \/ w = "now" THEN "none" ELSE w,
                                !.safe = ~now /\ w # "now" /\ safe]
    BY Zenon DEF EndPoll
  <1>2. round' = IF left = 0 THEN NoRound ELSE round
    BY DEF EndPoll
  <1>3. /\ slice'.at = "finish" /\ slice'.immediate = (now \/ full \/ w = "now")
        /\ slice'.wait = (IF now \/ full \/ w = "now" THEN "none" ELSE w)
        /\ slice'.safe = (~now /\ w # "now" /\ safe)
    BY <1>1 DEF Idle
  <1>4. round'.left # 0 => left # 0 /\ round' = round
    BY <1>2 DEF NoRound
  <1>5. round'.left = 0 => round' = NoRound
    <2>1. left \in Nat /\ (left # 0 => left = round.left)
      BY DEF RoundTyped
    <2> QED BY <1>2, <2>1 DEF NoRound
  <1>6. /\ round.wait = "near" => w \in {"near", "probe", "now"}
        /\ w = "far" => round.wait = "far"
    BY <1>1 DEF RoundTyped
  <1>7. safe \in BOOLEAN
    BY DEF RoundTyped, WatchTyped
  <1> HIDE DEF left, full, safe, wait
  <1>8. slice'.wait = "far" => w = "far" /\ ~now
    BY <1>3
  <1> QED BY <1>3, <1>4, <1>5, <1>6, <1>7, <1>8, Zenon DEF safe

(* Every step keeps long waits covered by the readiness watch. *)
LEMMA StepWatched ==
    ASSUME TypeInv, TypeInv', Continuation, Continuation', Watched, [Next]_vars
    PROVE  Watched'
  <1> USE DEF TypeInv
  <1>u. UNCHANGED <<sched, chan, watch, slice, round>> => Watched'
    BY DEF Watched
  <1>n. ASSUME NEW release \in BOOLEAN, notify_work(release), UNCHANGED <<slice, round>>,
               \/ watch' = watch
               \/ watch.state = "fired" /\ watch' = [watch EXCEPT !.state = "idle"]
        PROVE  Watched'
    <2>1. /\ chan'.running => chan.running
          /\ chan'.running /\ (chan'.parked \/ sched'.timer = "far")
               => chan.parked \/ sched.timer = "far"
          /\ chan'.running /\ slice.at = "idle" => Soon'
      BY <1>n, NotifyContinues
    <2>2. watch'.available = watch.available
      BY <1>n DEF WatchTyped
    <2>3. chan'.running => (~chan'.parked /\ sched'.timer # "far") \/ watch' = watch
      <3>1. CASE slice.at = "idle"
        BY <2>1, <3>1 DEF Soon, Continuation
      <3>2. CASE slice.at # "idle"
        BY <1>n, <3>2 DEF Continuation
      <3> QED BY <3>1, <3>2
    <2> QED BY <1>n, <2>1, <2>2, <2>3 DEF Watched
  <1>1. ASSUME NEW r \in Runtimes,
               \/ QueueSend(r) \/ ReadMessage(r) \/ register_connection(r)
               \/ unregister_connection(r)
        PROVE  Watched'
    BY <1>1, <1>u DEF QueueSend, ReadMessage, register_connection, unregister_connection
  <1>2. ASSUME NEW r \in Runtimes, NEW w \in Notices, Notify(r, w) PROVE Watched'
    <2>1. (w = "release") \in BOOLEAN
      OBVIOUS
    <2> QED BY <1>2, <1>n, <2>1, Zenon DEF Notify
  <1>3. CASE stop
    <2>1. ~chan'.running /\ UNCHANGED <<slice, round>>
      BY <1>3 DEF stop, ChanTyped
    <2> QED BY <2>1 DEF Watched
  <1>4. CASE Arrive \/ UNCHANGED vars
    BY <1>4, <1>u DEF Arrive, vars
  <1>5. CASE Fire
    <2>1. /\ watch'.state = "fired" /\ watch'.available = watch.available
          /\ UNCHANGED <<sched, chan, slice, round>>
      BY <1>5, Zenon DEF Fire, WatchTyped
    <2> QED BY <2>1 DEF Watched
  <1>6. CASE socket_readable
    BY <1>6, <1>n, Zenon DEF socket_readable
  <1>7. CASE Nears
    <2>1. /\ sched'.timer = "near" /\ chan'.running = chan.running /\ chan'.parked = chan.parked
          /\ UNCHANGED <<watch, slice, round>>
      BY <1>7 DEF Nears, SchedTyped, ChanTyped
    <2> QED BY <2>1 DEF Watched
  <1>8. CASE TakeTimer
    <2>1. sched'.timer = "none" /\ UNCHANGED <<chan, watch, slice, round>>
      BY <1>8 DEF TakeTimer, SchedTyped
    <2> QED BY <2>1 DEF Watched
  <1>9. CASE BeginSlice
    <2>1. /\ UNCHANGED <<watch, round>> /\ sched'.timer = sched.timer
          /\ chan'.running = chan.running /\ chan'.parked = chan.parked
          /\ slice'.at = "receive" \/ slice' = slice
      BY <1>9, Zenon DEF BeginSlice, SchedTyped, ChanTyped, Idle
    <2> QED BY <2>1 DEF Watched
  <1>10. CASE Receive \/ ReceiveFails \/ BeginPoll
    <2>1. slice'.at \in {"receive", "poll"} /\ UNCHANGED <<sched, chan, watch>>
      BY <1>10, Zenon DEF Receive, ReceiveFails, BeginPoll, SliceTyped
    <2>2. round' = round \/ (round'.wait = "none" /\ round'.safe = TRUE)
      BY <1>10 DEF Receive, ReceiveFails, BeginPoll, NoRound
    <2> QED BY <2>1, <2>2 DEF Watched
  <1>11. CASE PollNext
    <2>1. PICK a \in Answers(rt[Head(ring)]) : PollAnswered(Head(ring), a)
      BY <1>11 DEF PollNext
    <2>2. slice'.at = "poll" /\ UNCHANGED <<sched, chan, watch>>
      BY <1>11, <2>1 DEF PollNext, PollAnswered, SliceTyped
    <2>3. /\ round'.wait # "near" => round.wait # "near" /\ round'.safe = round.safe
          /\ round'.wait = "far" => round.wait = "far" \/ watch.available
      BY <2>1, PollCounted DEF PollAnswered
    <2> QED BY <2>2, <2>3 DEF Watched
  <1>12. CASE EndPoll
    <2>1. UNCHANGED <<sched, chan, watch>> /\ chan.running
      BY <1>12 DEF EndPoll, Continuation
    <2>2. round' = round \/ (round'.wait = "none" /\ round'.safe = TRUE)
      BY <1>12, PollResult DEF NoRound, RoundTyped
    <2>3. slice'.wait = "far" => slice'.safe
      BY <1>12, <2>1, PollResult, Zenon DEF Watched
    <2> QED BY <2>1, <2>2, <2>3 DEF Watched
  <1>13. CASE EndSlice
    <2>1. PICK armed \in BOOLEAN :
             /\ watch' = IF armed /\ watch.state # "armed" THEN [watch EXCEPT !.state = "armed"]
                         ELSE watch
             /\ \/ Parks(armed) /\ chan' = [Released EXCEPT !.parked = TRUE] /\ UNCHANGED <<sched, rt>>
                \/ SubmitTask(Released, sched)
                \/ ArmTimer(Released, sched, Delay(armed))
                \/ Refused(Released, sched)
      BY <1>13, EndSliceCases, Zenon
    <2>2. /\ slice.at = "finish" /\ slice'.at = "idle" /\ round' = round
          /\ sched.timer = "none" /\ ~chan.parked /\ chan.running
      BY <1>13 DEF EndSlice, Idle, Continuation
    <2>3. watch'.available = watch.available /\ (armed => watch'.state = "armed")
      BY <2>1 DEF WatchTyped
    <2>4. Delay(armed) = "far" => armed
      BY <2>2 DEF Delay, ShortWait, Sooner, Watched
    <2>5. chan'.running /\ (chan'.parked \/ sched'.timer = "far") => armed
      <3> USE DEF Released, SchedTyped, ChanTyped
      <3>1. CASE Parks(armed)
        BY <3>1 DEF Parks
      <3>2. CASE SubmitTask(Released, sched)
        BY <2>2, <3>2 DEF SubmitTask
      <3>3. CASE ArmTimer(Released, sched, Delay(armed))
        BY <2>2, <2>4, <3>3 DEF ArmTimer
      <3>4. CASE Refused(Released, sched)
        BY <3>4 DEF Refused
      <3> QED BY <2>1, <3>1, <3>2, <3>3, <3>4
    <2> QED BY <2>2, <2>3, <2>5 DEF Watched
  <1> QED BY <1>1, <1>2, <1>3, <1>4, <1>5, <1>6, <1>7, <1>8, <1>9, <1>10, <1>11, <1>12, <1>13
          DEF Next

-----------------------------------------------------------------------------
(* Notified work                                                             *)

(* What nothing of this step touches stays heard. *)
LEMMA HeardFrame ==
    ASSUME NEW r \in Runtimes, NEW what \in Notices,
           UNCHANGED <<sched, chan, slice, ring, round>>, Heard(r, what)
    PROVE  Heard(r, what)'
  BY DEF Heard, Soon, Counts, Turn, Pending, Quiet

(* A notification to a channel that goes on: whoever was heard still is, and  *)
(* so is the runtime the notice is about, unless a round has left it behind.  *)
LEMMA NotifyHeard ==
    ASSUME TypeInv, TypeInv', Continuation, NEW release \in BOOLEAN, notify_work(release),
           UNCHANGED <<slice, ring, round>>, chan'.running,
           NEW r \in Runtimes, NEW what \in Notices
    PROVE  /\ Heard(r, what) => Heard(r, what)'
           /\ /\ release <=> what = "release"
              /\ ~(slice.at \in {"idle", "finish"} /\ round.left # 0)
              => Heard(r, what)'
  <1>1. /\ slice.at = "idle" => Soon'
        /\ slice.at # "idle" => chan' = FollowUp(release)
    BY NotifyContinues DEF Continuation
  <1>2. Counts(r)' = Counts(r) /\ Quiet' = Quiet
    BY DEF Counts, Turn, Quiet
  <1>3. ASSUME slice.at # "idle"
        PROVE  /\ Pending(what) => Pending(what)'
               /\ (release <=> what = "release") => Pending(what)'
    BY <1>1, <1>3 DEF TypeInv, ChanTyped, FollowUp, Pending, Notices
  <1>4. CASE slice.at = "idle"
    BY <1>1, <1>2, <1>4 DEF Heard
  <1>5. CASE slice.at # "idle"
    BY <1>2, <1>3, <1>5 DEF Heard
  <1> QED BY <1>4, <1>5

(* A finished slice that has heard of due work starts another one soon. *)
LEMMA FinishHeard ==
    ASSUME TypeInv, TypeInv', Continuation, Rounds', EndSlice, chan'.running,
           NEW r \in Runtimes, NEW what \in Notices, Heard(r, what)
    PROVE  Heard(r, what)'
  <1> USE DEF TypeInv
  <1>1. /\ slice.at = "finish" /\ slice'.at = "idle" /\ UNCHANGED <<ring, round>>
        /\ sched.timer = "none"
    BY DEF EndSlice, Idle, Continuation
  <1>2. Counts(r)' = Counts(r)
    BY <1>1 DEF Counts, Turn
  <1>3. PICK armed \in BOOLEAN :
             /\ armed => ~AtOnce
             /\ \/ Parks(armed)
                \/ SubmitTask(Released, sched)
                \/ ~AtOnce /\ ArmTimer(Released, sched, Delay(armed))
                \/ Refused(Released, sched)
    BY EndSliceCases, Zenon
  <1>4. ~Refused(Released, sched)
    BY Zenon DEF Refused, Released, ChanTyped
  <1>5. CASE round.left # 0
    <2>1. Soon'
      BY <1>1, <1>5 DEF Rounds, Soon
    <2> QED BY <1>1, <1>2, <1>5, <2>1 DEF Heard
  <1>6. CASE round.left = 0
    <2>1. ~Quiet \/ Pending(what)
      BY <1>1, <1>6 DEF Heard
    <2>2. ~Parks(armed)
      BY <1>3, <2>1 DEF Parks, AtOnce, Quiet, Pending
    <2>3. CASE SubmitTask(Released, sched)
      <3>1. Soon'
        BY <2>3 DEF SubmitTask, SchedTyped, Soon
      <3> QED BY <1>1, <1>6, <3>1 DEF Heard
    <2>4. CASE ~AtOnce /\ ArmTimer(Released, sched, Delay(armed))
      <3>1. slice.wait \in {"near", "probe"} \/ chan.release_pending
        BY <2>1, <2>4 DEF AtOnce, Quiet, Pending, SliceTyped, Waits
      <3>2. Delay(armed) \in {"near", "probe"}
        BY <3>1 DEF Delay, ShortWait, Sooner, SliceTyped, Waits
      <3>3. Soon'
        BY <2>4, <3>2 DEF ArmTimer, SchedTyped, Soon
      <3> QED BY <1>1, <1>6, <3>3 DEF Heard
    <2> QED BY <1>3, <1>4, <2>2, <2>3, <2>4
  <1> QED BY <1>5, <1>6 DEF RoundTyped

(* The poll of one connection: it is heard if it still has work, and the      *)
(* others move up in the round.                                               *)
LEMMA PollHeard ==
    ASSUME TypeInv, TypeInv', Routed, PollNext,
           NEW r \in Runtimes, NEW what \in Notices, Due(r, what)',
           r # Head(ring) => Heard(r, what)
    PROVE  Heard(r, what)'
  <1> USE DEF TypeInv
  <1>1. PICK a \in Answers(rt[Head(ring)]) : PollAnswered(Head(ring), a)
    BY DEF PollNext
  <1>2. slice.at = "poll" /\ slice'.at = "poll" /\ chan' = chan
    BY <1>1 DEF PollNext, PollAnswered, SliceTyped
  <1>3. /\ round'.left = round.left - 1
        /\ round'.wait # "near" => round.wait # "near" /\ a.safe
    BY <1>1, PollCounted DEF PollAnswered
  <1>4. CASE r = Head(ring)
    <2>1. what = "send" /\ rt[r].sends
      BY <1>1, <1>4 DEF PollAnswered, Due, Works, Notices, WorkTyped, Work, Broken
    <2>2. ~a.safe
      BY <1>1, <1>4, <2>1, PollAnswers DEF Routed
    <2> QED BY <1>2, <1>3, <2>2 DEF Heard, Counts
  <1>5. CASE r # Head(ring)
    <2>1. Counts(r) \/ Pending(what)
      BY <1>2, <1>5 DEF Heard
    <2>2. Pending(what)' = Pending(what)
      BY <1>2 DEF Pending
    <2>3. Turn(r) => Turn(r)'
      <3> SUFFICES ASSUME Turn(r) PROVE Turn(r)'
        OBVIOUS
      <3>1. PICK j \in 1 .. Len(ring) : j <= round.left /\ ring[j] = r
        BY DEF Turn
      <3>2. /\ Head(ring) = ring[1] /\ Len(ring') = Len(ring)
            /\ \A k \in 1 .. Len(ring) - 1 : ring'[k] = ring[k + 1]
        BY RotatedRing DEF PollNext, RingTyped
      <3>3. j # 1
        BY <1>5, <3>1, <3>2
      <3>4. j - 1 \in 1 .. Len(ring') /\ j - 1 <= round'.left /\ ring'[j - 1] = r
        BY <1>3, <3>1, <3>2, <3>3 DEF RoundTyped, RingTyped
      <3> QED BY <3>4 DEF Turn
    <2> QED BY <1>2, <1>3, <2>1, <2>2, <2>3 DEF Heard, Counts
  <1> QED BY <1>4, <1>5

(* The end of the poll phase passes on what the round has found; routes the   *)
(* round has not reached are those with a turn left.                          *)
LEMMA EndPollHeard ==
    ASSUME TypeInv, TypeInv', Routed, EndPoll,
           NEW r \in Runtimes, NEW what \in Notices, r \notin missed', Due(r, what),
           Heard(r, what)
    PROVE  Heard(r, what)'
  <1> USE DEF TypeInv
  <1>1. slice.at = "poll" /\ slice'.at = "finish" /\ UNCHANGED <<ring, chan>>
    BY PollResult, Zenon DEF EndPoll
  <1>2. Counts(r) \/ Pending(what)
    BY <1>1 DEF Heard
  <1>3. Pending(what)' = Pending(what)
    BY <1>1 DEF Pending
  <1>4. CASE round'.left # 0
    <2>1. round' = round
      BY <1>4, PollResult
    <2>2. missed' = missed \cup {ring[i] : i \in round.left + 1 .. Len(ring)}
      BY <1>4 DEF EndPoll, NoRound
    <2>3. PICK i \in 1 .. Len(ring) : ring[i] = r
      BY DEF Due, Works, Routed, InRing
    <2>4. ~(i > round.left)
      <3> SUFFICES ASSUME i > round.left PROVE FALSE
        OBVIOUS
      <3>1. i \in round.left + 1 .. Len(ring)
        BY DEF RoundTyped, RingTyped
      <3> QED BY <2>2, <2>3, <3>1
    <2>5. Turn(r)'
      BY <1>1, <2>1, <2>3, <2>4 DEF Turn, RoundTyped
    <2> QED BY <1>1, <1>4, <2>5 DEF Heard, Counts
  <1>5. CASE round'.left = 0
    <2>1. round.wait = "near" => ~Quiet'
      BY PollResult DEF Quiet
    <2>2. ~Turn(r)
      <3> SUFFICES ASSUME Turn(r) PROVE FALSE
        OBVIOUS
      <3>1. round.left # 0 /\ ring # <<>>
        BY DEF Turn, RoundTyped, RingTyped
      <3>2. slice.polls = 0
        BY <3>1 DEF EndPoll
      <3> QED BY <1>5, <3>1, <3>2 DEF EndPoll
    <2> QED BY <1>1, <1>2, <1>3, <1>5, <2>1, <2>2 DEF Heard, Counts
  <1> QED BY <1>4, <1>5

(* Every step keeps notified work noticed. *)
LEMMA StepNoticed ==
    ASSUME TypeInv, TypeInv', Continuation, Routed, Rounds', Noticed, [Next]_vars
    PROVE  Noticed'
  <1> USE DEF TypeInv
  <1> SUFFICES ASSUME chan'.running, NEW r \in Runtimes, r \notin missed',
                      NEW what \in Notices, Due(r, what)'
               PROVE  Heard(r, what)'
    BY Zenon DEF Noticed
  <1>h. chan.running /\ r \notin missed /\ Due(r, what) => Heard(r, what)
    BY DEF Noticed
  <1>1. ASSUME NEW q \in Runtimes, QueueSend(q) \/ ReadMessage(q) PROVE Heard(r, what)'
    <2>1. UNCHANGED <<sched, chan, slice, ring, round, missed>>
      BY <1>1 DEF QueueSend, ReadMessage
    <2>2. Due(r, what)
      BY <1>1 DEF QueueSend, ReadMessage, Due, Works, Notices, WorkTyped, Work
    <2> QED BY <1>h, <2>1, <2>2, HeardFrame
  <1>2. ASSUME NEW q \in Runtimes, register_connection(q) PROVE Heard(r, what)'
    <2>1. UNCHANGED <<sched, chan, slice, round, missed>> /\ ring' = Append(ring, q)
      BY <1>2 DEF register_connection
    <2>2. Due(r, what)
      BY <1>2 DEF register_connection, Due, Works, Notices, WorkTyped, Work
    <2>3. Turn(r) => Turn(r)'
      BY <2>1 DEF Turn, RingTyped
    <2> QED BY <1>h, <2>1, <2>2, <2>3 DEF Heard, Soon, Counts, Pending, Quiet
  <1>3. ASSUME NEW q \in Runtimes, unregister_connection(q) PROVE Heard(r, what)'
    <2>1. PICK i \in 1 .. Len(ring) : ring[i] = q /\ ring' = Removed(ring, i)
      BY <1>3 DEF unregister_connection
    <2>2. UNCHANGED <<sched, chan, slice, round, missed>>
      BY <1>3 DEF unregister_connection
    <2>3. r # q /\ Due(r, what)
      BY <1>3 DEF unregister_connection, Due, Works, WorkTyped, Work, Broken
    <2>4. Turn(r) => Turn(r)'
      <3> SUFFICES ASSUME Turn(r) PROVE Turn(r)'
        OBVIOUS
      <3>1. PICK j \in 1 .. Len(ring) : j <= round.left /\ ring[j] = r
        BY DEF Turn
      <3>2. /\ Len(ring') = Len(ring) - 1
            /\ \A k \in 1 .. Len(ring) - 1 : ring'[k] = IF k < i THEN ring[k] ELSE ring[k + 1]
        BY <2>1, RemovedRoute, Zenon DEF RingTyped
      <3>3. CASE j < i
        <4>1. j \in 1 .. Len(ring') /\ j <= round'.left /\ ring'[j] = r
          BY <2>2, <3>1, <3>2, <3>3 DEF RingTyped
        <4> QED BY <4>1 DEF Turn
      <3>4. CASE j > i
        <4>1. j - 1 \in 1 .. Len(ring') /\ j - 1 <= round'.left /\ ring'[j - 1] = r
          BY <2>2, <3>1, <3>2, <3>4 DEF RingTyped, RoundTyped
        <4> QED BY <4>1 DEF Turn
      <3> QED BY <2>1, <2>3, <3>1, <3>3, <3>4
    <2> QED BY <1>h, <2>2, <2>3, <2>4 DEF Heard, Soon, Counts, Pending, Quiet
  <1>4. ASSUME NEW q \in Runtimes, NEW w \in Notices, Notify(q, w) PROVE Heard(r, what)'
    <2>1. /\ (w = "release") \in BOOLEAN /\ notify_work(w = "release")
          /\ UNCHANGED <<slice, ring, round>>
      BY <1>4 DEF Notify
    <2>2. chan.running /\ rt' = rt
      BY <2>1, NotifyContinues, Zenon
    <2>3. r \notin missed /\ (r = q => ~(slice.at \in {"idle", "finish"} /\ round.left # 0))
      BY <1>4 DEF Notify
    <2>4. CASE r = q /\ what = w
      BY <2>1, <2>3, <2>4, NotifyHeard, Zenon
    <2>5. CASE ~(r = q /\ what = w)
      <3>1. Due(r, what)
        BY <1>4, <2>2, <2>5 DEF Notify, Due, Works
      <3> QED BY <1>h, <2>1, <2>2, <2>3, <3>1, NotifyHeard, Zenon
    <2> QED BY <2>4, <2>5
  <1>5. CASE stop
    BY <1>5 DEF stop, ChanTyped
  <1>6. CASE Arrive \/ Fire \/ UNCHANGED vars
    <2>1. UNCHANGED <<sched, chan, slice, ring, round, rt, owes, missed>>
      BY <1>6 DEF Arrive, Fire, vars
    <2>2. Due(r, what)
      BY <2>1 DEF Due, Works
    <2> QED BY <1>h, <2>1, <2>2, HeardFrame
  <1>7. CASE socket_readable
    <2>1. notify_work(FALSE) /\ UNCHANGED <<slice, ring, round, owes, missed>>
      BY <1>7, Zenon DEF socket_readable
    <2>2. chan.running /\ rt' = rt
      BY <2>1, NotifyContinues, Zenon
    <2>3. Due(r, what)
      BY <2>1, <2>2 DEF Due, Works
    <2> QED BY <1>h, <2>1, <2>2, <2>3, NotifyHeard, Zenon
  <1>8. CASE Nears \/ TakeTimer
    <2>1. /\ UNCHANGED <<slice, ring, round, rt, owes, missed>>
          /\ chan'.running = chan.running /\ chan'.send_pending = chan.send_pending
          /\ chan'.release_pending = chan.release_pending /\ Soon'
      BY <1>8, Zenon DEF Nears, TakeTimer, Soon, SchedTyped, ChanTyped
    <2>2. Due(r, what)
      BY <2>1 DEF Due, Works
    <2> QED BY <1>h, <2>1, <2>2 DEF Heard, Counts, Turn, Pending, Quiet
  <1>9. CASE BeginSlice
    <2>1. /\ UNCHANGED <<ring, round, rt, owes, missed>> /\ slice.at = "idle" /\ chan.running
          /\ slice'.at = "receive"
      BY <1>9, Zenon DEF BeginSlice, ChanTyped, Idle
    <2>2. Due(r, what)
      BY <2>1 DEF Due, Works
    <2>3. round.left # 0 => Counts(r)'
      BY <1>h, <2>1, <2>2 DEF Heard, Counts, Turn
    <2> QED BY <2>1, <2>3 DEF Heard
  <1>10. CASE Receive
    <2>1. /\ UNCHANGED <<sched, chan, ring, round, owes, missed>>
          /\ slice.at = "receive" /\ slice'.at = "receive"
      BY <1>10 DEF Receive, SliceTyped
    <2>2. Due(r, what)
      BY <1>10, <2>1 DEF Receive, Due, Works, WorkTyped, Work
    <2> QED BY <1>h, <2>1, <2>2 DEF Heard, Counts, Turn, Pending
  <1>11. CASE ReceiveFails \/ BeginPoll
    <2>1. /\ UNCHANGED <<sched, chan, ring, owes, missed>>
          /\ slice.at = "receive" /\ slice'.at = "poll"
      BY <1>11, Zenon DEF ReceiveFails, BeginPoll, SliceTyped
    <2>2. Due(r, what)
      BY <1>11, <2>1
         DEF ReceiveFails, BeginPoll, mark_connections_broken, Due, Works, Broken
    <2>3. CASE round.left # 0
      <3>1. round' = round
        BY <1>11, <2>3 DEF ReceiveFails, BeginPoll
      <3> QED BY <1>h, <2>1, <2>2, <2>3, <3>1 DEF Heard, Counts, Turn, Pending
    <2>4. CASE round.left = 0
      <3>1. round'.left = Len(ring)
        BY <1>11, <2>4 DEF ReceiveFails, BeginPoll, NoRound
      <3>2. InRing(r)
        BY <2>2 DEF Due, Works, Routed
      <3>3. Turn(r)'
        BY <2>1, <3>1, <3>2 DEF Turn, InRing, RingTyped
      <3> QED BY <2>1, <3>3 DEF Heard, Counts
    <2> QED BY <2>3, <2>4
  <1>12. CASE PollNext
    <2>1. chan' = chan /\ owes' = owes /\ missed' = missed \ {Head(ring)}
      BY <1>12 DEF PollNext
    <2>2. r # Head(ring) => Due(r, what)
      <3>1. r # Head(ring) => rt'[r] = rt[r]
        BY <1>12 DEF PollNext, PollAnswered, WorkTyped
      <3> QED BY <2>1, <3>1 DEF Due, Works
    <2> QED BY <1>h, <1>12, <2>1, <2>2, PollHeard
  <1>13. CASE EndPoll
    <2>1. UNCHANGED <<chan, rt, owes>> /\ r \notin missed
      BY <1>13 DEF EndPoll
    <2>2. Due(r, what)
      BY <2>1 DEF Due, Works
    <2> QED BY <1>h, <1>13, <2>1, <2>2, EndPollHeard
  <1>14. CASE EndSlice
    <2>1. chan.running /\ UNCHANGED <<owes, missed>>
      BY <1>14 DEF EndSlice, Continuation
    <2>2. rt' = rt
      BY <1>14, EndSliceCases, Zenon DEF Refused, Released, ChanTyped
    <2>3. Due(r, what)
      BY <2>1, <2>2 DEF Due, Works
    <2> QED BY <1>h, <1>14, <2>1, <2>3, FinishHeard
  <1> QED BY <1>1, <1>2, <1>3, <1>4, <1>5, <1>6, <1>7, <1>8, <1>9, <1>10, <1>11, <1>12, <1>13,
             <1>14 DEF Next

-----------------------------------------------------------------------------
(* The invariant                                                             *)

(* The invariant holds when the channel starts ... *)
LEMMA InitInv == Init => IInv
  <1> SUFFICES ASSUME Init PROVE IInv
    OBVIOUS
  <1>1. TypeInv
    BY InitTyped
  <1>2. Continuation /\ Rounds /\ Watched
    BY Zenon DEF Init, Continuation, Rounds, Watched, Idle, NoRound
  <1>3. Routed /\ Noticed
    BY DEF Init, Routed, InRing, Noticed, Due, Works
  <1> QED BY <1>1, <1>2, <1>3 DEF IInv

(* ... every step keeps it ... *)
LEMMA StepInv == IInv /\ [Next]_vars => IInv'
  <1> SUFFICES ASSUME IInv, [Next]_vars PROVE IInv'
    OBVIOUS
  <1>1. TypeInv'
    BY StepTyped DEF IInv
  <1>2. Continuation'
    BY <1>1, StepContinues DEF IInv
  <1>3. Routed'
    BY <1>1, StepRouted DEF IInv
  <1>4. Rounds'
    BY <1>1, StepRounds DEF IInv
  <1>5. Watched'
    BY <1>1, <1>2, StepWatched DEF IInv
  <1>6. Noticed'
    BY <1>1, <1>4, StepNoticed DEF IInv
  <1> QED BY <1>1, <1>2, <1>3, <1>4, <1>5, <1>6 DEF IInv

(* ... so it always holds: types, the one continuation, the routes, the       *)
(* rounds, the readiness watch and the notices of a DatagramChannel.          *)
THEOREM ChannelInvariant == Spec => []IInv
  BY InitInv, StepInv, PTL DEF Spec

(* A channel has one continuation: whatever the order in which notices, the   *)
(* readiness watcher, refused submissions, registrations and the end of a     *)
(* slice reach lifecycle_mutex_, run_scheduled is never queued twice, never   *)
(* while a slice runs, and a channel that is not parked is never forgotten.   *)
THEOREM ContinuationUnique == Spec => []OneContinuation
  <1>1. IInv => OneContinuation
    <2> SUFFICES ASSUME IInv PROVE OneContinuation
      OBVIOUS
    <2>2. \A x, y \in Holders : x = y
      BY DEF IInv, Continuation, Holders
    <2>3. sched.timer \in Waits
      BY DEF IInv, TypeInv, SchedTyped
    <2>4. /\ chan.parked => ~(Soon \/ sched.timer # "none")
          /\ chan.running => chan.parked \/ Soon \/ sched.timer = "far"
          /\ chan.running /\ sched.timer # "none" => chan.timer = sched.timer
      BY <2>3 DEF IInv, Continuation, Soon, Waits
    <2> QED BY <2>2, <2>4 DEF OneContinuation
  <1> QED BY <1>1, ChannelInvariant, PTL

(* Notified work never waits behind a control deadline, and an unread         *)
(* datagram never without a readiness watch: the wait that notify_work cuts   *)
(* short, the notice run_scheduled finds at its end and the round that polls  *)
(* the connection together leave no gap, except for a connection that a       *)
(* round of several slices has passed by.                                     *)
THEOREM NotifiedWorkIsPrompt == Spec => []WorkIsPrompt
  <1>1. IInv => WorkIsPrompt
    <2> SUFFICES ASSUME IInv, chan.running PROVE
          /\ \A r \in Runtimes \ missed : Prompt(r)
          /\ udp > 0 => Soon \/ watch.state \in {"armed", "fired"}
      BY DEF WorkIsPrompt
    <2>1. ASSUME NEW r \in Runtimes \ missed PROVE Prompt(r)
      <3>1. ASSUME NEW what \in Notices, Due(r, what) PROVE Soon
        <4>1. Heard(r, what)
          BY <3>1, <2>1 DEF IInv, Noticed
        <4>2. slice.at # "idle" => Soon
          BY DEF IInv, Continuation, Soon
        <4> QED BY <4>1, <4>2 DEF Heard
      <3>2. (Due(r, "send") \/ Due(r, "release")) => Soon
        BY <3>1 DEF Notices
      <3> QED BY <3>2 DEF Prompt, Due, Works
    <2>2. Soon \/ watch.state \in {"armed", "fired"}
      <3>1. chan.parked \/ Soon \/ sched.timer = "far"
        BY DEF IInv, TypeInv, SchedTyped, Waits, Continuation, Soon
      <3> QED BY <3>1 DEF IInv, Watched
    <2> QED BY <2>1, <2>2
  <1> QED BY <1>1, ChannelInvariant, PTL

=============================================================================
