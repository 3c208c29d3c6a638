------------------------ MODULE SocketLifecycleSteps ------------------------
(***************************************************************************)
(* Closing sockets while the runtime is cleaned up: the inductive          *)
(* invariant IInv, what a step of one thread leaves to be shown of it, and *)
(* the steps that create a socket, find it and take it.                    *)
(***************************************************************************)
EXTENDS SocketLifecycle, FiniteSetTheorems, TLAPS

(* What the constants are: a socket stores a number of bytes, and the two    *)
(* limits are numbers.                                                       *)
Sized == Payload \in [Handles -> Nat] /\ payload_limit_ \in Nat /\ close_limit_ \in Nat

(* The places of a thread that shuts a record down, and all others. *)
Shutting == Closing \cup {"enter", "retire"}
Cleaning == {"pause", "swap", "sweep", "all", "resume", "stopping"}
Places == Shutting \cup Cleaning \cup {"idle", "service"}
Backs == {"idle", "service", "sweep", "all"}

Job == [at : Places, socket : Handles \cup {NoSocket}, generation : Int,
        honor_linger : BOOLEAN, broken : BOOLEAN, back : Backs, records : SUBSET Handles]
Record ==
    [state : {"none", "init", "listening", "connected", "broken", "closing", "closed"},
     connection : {"none", "busy", "drained", "terminal"}, epoch : Int]
Entry == [socket : Handles, generation : Int, broken : BOOLEAN]

JobTyped == job \in [Actors -> Job]
RecordTyped == record \in [Handles -> Record]
ClosesTyped == closes_ \in SUBSET Entry /\ IsFiniteSet(closes_) /\ payload_capacity_ \in Int
CountersTyped == generation_ \in Int /\ epoch \in Int
HandlesTyped == sockets_ \subseteq Handles

TypeInv == JobTyped /\ RecordTyped /\ ClosesTyped /\ CountersTyped /\ HandlesTyped

(* A thread that shuts a record down has one, and will return to what it was *)
(* doing; only the sweep of a cleanup carries records.  A record whose       *)
(* closer is about to retire it is closed.                                   *)
JobSound(t) ==
    /\ At(t, Shutting) => job[t].socket \in Handles
    /\ ~At(t, Shutting) => job[t].back = "idle"
    /\ job[t].records # {} => At(t, {"sweep"}) \/ job[t].back = "sweep"
    /\ At(t, {"retire"}) => record[job[t].socket].state = "closed"
JobsSound == \A t \in Actors : JobSound(t)

(* The registry holds and remembers handles of this epoch only. *)
EpochsSound ==
    \A s \in sockets_ \cup closed_handles_ :
      s \in Handles /\ record[s].state # "none" /\ record[s].epoch = epoch

(* One thread at a time cleans up.  The manager is paused until it resumes,  *)
(* and by then nothing is left in it.                                        *)
Cleans(t) == At(t, Cleaning) \/ job[t].back \in {"sweep", "all"}
Paused(t) == At(t, {"swap", "sweep", "all", "resume"}) \/ job[t].back \in {"sweep", "all"}
Emptied(t) == At(t, {"all", "resume"}) \/ job[t].back = "all"

CleanupSound ==
    /\ "cleaning" \in DOMAIN lifecycle
    /\ \A t \in Actors :
         /\ Cleans(t) => lifecycle.cleaning
         /\ Paused(t) => ~accepting_
         /\ Emptied(t) => retired_channels_ = {}
         /\ At(t, {"resume"}) => closes_ = {}
    /\ \A t, u \in Actors : Cleans(t) /\ Cleans(u) => t = u
    /\ accepting_ => /\ \A e \in closes_ : e.generation = generation_
                     /\ \A k \in retired_channels_ : k.generation = generation_

ClosesSound == JobTyped /\ JobsSound /\ OneCloser /\ ClosedIsRetired

IInv == TypeInv /\ EpochsSound /\ CleanupSound /\ ClosesSound /\ BudgetKept

-----------------------------------------------------------------------------
(* A step of thread t gives no job to others. *)
Alone(t) == \A u \in Actors : u # t => job'[u] = job[u]

LEMMA JobChanged ==
    ASSUME JobTyped, NEW t \in Actors, NEW j \in Job, job' = [job EXCEPT ![t] = j]
    PROVE  /\ JobTyped' /\ job'[t] = j
           /\ Alone(t)
  BY DEF JobTyped, Alone

LEMMA Went ==
    ASSUME JobTyped, NEW t \in Actors, NEW p \in Places, Goes(t, p)
    PROVE  /\ JobTyped' /\ Alone(t)
           /\ job'[t].at = p /\ job'[t].socket = job[t].socket
           /\ job'[t].back = job[t].back /\ job'[t].records = job[t].records
  <1> DEFINE j == [job[t] EXCEPT !.at = p]
  <1>1. job[t] \in Job
    BY DEF JobTyped
  <1>2. /\ j \in Job /\ j.at = p /\ j.socket = job[t].socket
        /\ j.back = job[t].back /\ j.records = job[t].records
    BY <1>1 DEF Job
  <1>3. job' = [job EXCEPT ![t] = j]
    BY DEF Goes
  <1> HIDE DEF j
  <1> QED BY <1>2, <1>3, JobChanged, Zenon

LEMMA CameBack ==
    ASSUME JobTyped, NEW t \in Actors, Returns(t)
    PROVE  /\ JobTyped' /\ Alone(t)
           /\ job'[t].at = job[t].back /\ job'[t].back = "idle"
           /\ job'[t].records = job[t].records
  <1> DEFINE j == [Idle EXCEPT !.at = job[t].back, !.records = job[t].records]
  <1>1. job[t].back \in Backs /\ job[t].records \in SUBSET Handles
    BY DEF JobTyped, Job
  <1>2. job[t].back \in Places /\ "idle" \in Backs /\ "idle" \in Places
    BY <1>1 DEF Backs, Places, Cleaning
  <1>3. Idle \in Job /\ Idle.back = "idle"
    BY <1>2 DEF Idle, Job
  <1>4. /\ j \in Job /\ j.at = job[t].back /\ j.back = "idle"
        /\ j.records = job[t].records
    BY <1>1, <1>2, <1>3, Zenon DEF Job
  <1>5. job' = [job EXCEPT ![t] = j]
    BY DEF Returns
  <1> HIDE DEF j
  <1> QED BY <1>4, <1>5, JobChanged, Zenon

LEMMA JobFacts ==
    ASSUME TypeInv, NEW t \in Actors
    PROVE  /\ job[t] \in Job /\ admission_generation \in Int
           /\ Closing \subseteq Places /\ Cleaning \subseteq Places
           /\ "enter" \in Places /\ "retire" \in Places
  BY DEF TypeInv, JobTyped, CountersTyped, admission_generation, Places, Shutting

-----------------------------------------------------------------------------
(* What a step of thread t leaves to be shown, one fact at a time            *)

LEMMA JobsKept ==
    ASSUME IInv, NEW t \in Actors, Alone(t), JobSound(t)',
           \A r \in Handles : record[r].state = "closed" => record'[r].state = "closed"
    PROVE  JobsSound'
  <1>1. ASSUME NEW u \in Actors, u # t
        PROVE  JobSound(u)'
    <2>1. JobSound(u) /\ job'[u] = job[u]
      BY <1>1 DEF IInv, ClosesSound, JobsSound, Alone
    <2>2. At(u, {"retire"}) => job[u].socket \in Handles
      BY <2>1 DEF JobSound, At, Shutting
    <2> QED BY <2>1, <2>2 DEF JobSound, At
  <1> QED BY <1>1 DEF JobsSound

(* Nobody but t stops being the closer of a socket, or becomes one. *)
LEMMA ClosersKept ==
    ASSUME NEW t \in Actors, Alone(t), NEW r \in Handles,
           t \in Closers(r)' <=> t \in Closers(r)
    PROVE  Closers(r)' = Closers(r)
  <1>1. \A u \in Actors : u \in Closers(r)' <=> u \in Closers(r)
    BY DEF Closers, At, Alone
  <1> QED BY <1>1 DEF Closers

(* A step of t that makes nobody a closer and lets no closer go: a socket    *)
(* that nobody closes stays within reach, and one that is closed is retired. *)
Live(r) == record[r].state \in {"init", "listening", "connected", "broken"}

LEMMA CloserMoves ==
    ASSUME IInv, NEW t \in Actors, Alone(t), JobTyped', JobSound(t)', closes_' = closes_,
           \A r \in Handles : record'[r].state = record[r].state,
           \A r \in Handles : t \in Closers(r)' <=> t \in Closers(r),
           \A r \in Handles : Live(r) /\ Reaches(t, r) => Reaches(t, r)',
           sockets_' \subseteq sockets_,
           \A r \in sockets_ : Live(r) => r \in sockets_' \/ (t \in Threads /\ Reaches(t, r)'),
           At(t, {"retire"}) => job[t].socket \notin sockets_'
    PROVE  ClosesSound'
  <1>1. JobsSound'
    BY JobsKept
  <1>2. ASSUME NEW r \in Handles
        PROVE  Owned(r)' /\ Findable(r)'
    <2>1. Owned(r) /\ Findable(r)
      BY DEF IInv, ClosesSound, OneCloser
    <2>2. Closers(r)' = Closers(r)
      BY ClosersKept
    <2>3. Deferred(r)' = Deferred(r) /\ record'[r].state = record[r].state
      BY DEF Deferred
    <2>4. Owned(r)'
      BY <2>1, <2>2, <2>3 DEF Owned
    <2>5. Live(r) => \A u \in Threads : Reaches(u, r) => Reaches(u, r)'
      BY DEF Reaches, At, Alone, Actors
    <2>6. Findable(r)'
      BY <2>1, <2>3, <2>5 DEF Findable, Live
    <2> QED BY <2>4, <2>6
  <1>3. OneCloser'
    BY <1>2 DEF OneCloser
  <1>4. ClosedIsRetired'
    <2>1. ASSUME NEW r \in sockets_', record'[r].state = "closed"
          PROVE  \E u \in Actors : At(u, {"retire"})' /\ job'[u].socket = r
      <3>1. r \in sockets_ /\ r \in Handles
        BY <2>1 DEF IInv, TypeInv, HandlesTyped
      <3>2. PICK u \in Actors : At(u, {"retire"}) /\ job[u].socket = r
        BY <2>1, <3>1 DEF IInv, ClosesSound, ClosedIsRetired
      <3>3. job'[u] = job[u]
        BY <2>1, <3>2 DEF Alone
      <3> QED BY <3>2, <3>3 DEF At
    <2> QED BY <2>1 DEF ClosedIsRetired
  <1> QED BY <1>1, <1>3, <1>4 DEF ClosesSound

(* A step of t that changes the owner of s. *)
LEMMA OwnerChanges ==
    ASSUME IInv, NEW t \in Actors, Alone(t), JobTyped', JobSound(t)', NEW s \in Handles,
           sockets_' = sockets_, ~At(t, {"retire"}),
           Owned(s)', record'[s].state \in {"closing", "closed"}, record[s].state # "closed",
           record'[s].state = "closed" => At(t, {"retire"})' /\ job'[t].socket = s,
           \A r \in Handles : r # s => /\ record'[r].state = record[r].state
                                       /\ Closers(r)' = Closers(r)
                                       /\ Deferred(r)' = Deferred(r)
                                       /\ Reaches(t, r) => Reaches(t, r)'
    PROVE  ClosesSound'
  <1>1. JobsSound'
    BY JobsKept
  <1>2. Findable(s)'
    BY DEF Findable
  <1>3. ASSUME NEW r \in Handles, r # s
        PROVE  Owned(r)' /\ Findable(r)'
    <2>1. Owned(r) /\ Findable(r)
      BY DEF IInv, ClosesSound, OneCloser
    <2>2. /\ record'[r].state = record[r].state
          /\ Closers(r)' = Closers(r) /\ Deferred(r)' = Deferred(r)
      BY <1>3
    <2>3. Owned(r)'
      BY <2>1, <2>2 DEF Owned
    <2>4. \A u \in Threads : Reaches(u, r) => Reaches(u, r)'
      BY <1>3 DEF Reaches, At, Alone, Actors
    <2>5. Findable(r)'
      BY <2>1, <2>2, <2>4 DEF Findable
    <2> QED BY <2>3, <2>5
  <1>4. OneCloser'
    BY <1>2, <1>3 DEF OneCloser
  <1>5. ClosedIsRetired'
    <2>1. ASSUME NEW r \in sockets_, record'[r].state = "closed", r # s
          PROVE  \E u \in Actors : At(u, {"retire"})' /\ job'[u].socket = r
      <3>1. record[r].state = "closed"
        BY <2>1 DEF IInv, TypeInv, HandlesTyped
      <3>2. PICK u \in Actors : At(u, {"retire"}) /\ job[u].socket = r
        BY <3>1 DEF IInv, ClosesSound, ClosedIsRetired
      <3>3. job'[u] = job[u]
        BY <3>2 DEF Alone
      <3> QED BY <3>2, <3>3 DEF At
    <2> QED BY <2>1 DEF ClosedIsRetired
  <1> QED BY <1>1, <1>4, <1>5 DEF ClosesSound

(* The closer t of a socket goes on. *)
LEMMA CloserGoes ==
    ASSUME IInv, NEW t \in Actors, NEW p \in Closing, At(t, Closing), Goes(t, p),
           UNCHANGED <<sockets_, closes_>>,
           \A s \in Handles : record'[s].state = record[s].state
    PROVE  ClosesSound'
  <1>1. /\ JobTyped' /\ Alone(t)
        /\ job'[t].at = p /\ job'[t].socket = job[t].socket
        /\ job'[t].back = job[t].back /\ job'[t].records = job[t].records
    BY Went, JobFacts DEF IInv, TypeInv
  <1>2. JobSound(t)
    BY DEF IInv, ClosesSound, JobsSound
  <1>3. JobSound(t)' /\ ~At(t, {"retire"})
    BY <1>1, <1>2 DEF JobSound, At, Shutting, Closing
  <1>4. \A r \in Handles : t \in Closers(r)' <=> t \in Closers(r)
    BY <1>1 DEF Closers, At
  <1>5. \A r \in Handles : Reaches(t, r) => Reaches(t, r)'
    BY <1>1 DEF Reaches, At, Closing
  <1> QED BY <1>1, <1>3, <1>4, <1>5, CloserMoves

(* A thread that shuts nothing down and carries no record goes on. *)
LEMMA OtherGoes ==
    ASSUME IInv, NEW t \in Actors, NEW p \in Places \ Shutting, ~At(t, Shutting), Goes(t, p),
           job[t].records = {}, UNCHANGED <<sockets_, closes_, record>>
    PROVE  ClosesSound'
  <1>1. /\ JobTyped' /\ Alone(t)
        /\ job'[t].at = p /\ job'[t].back = job[t].back /\ job'[t].records = {}
    BY Went DEF IInv, TypeInv
  <1>2. JobSound(t)
    BY DEF IInv, ClosesSound, JobsSound
  <1>3. JobSound(t)' /\ ~At(t, {"retire"})
    BY <1>1, <1>2 DEF JobSound, At, Shutting
  <1>4. \A r \in Handles : t \in Closers(r)' <=> t \in Closers(r)
    BY <1>1 DEF Closers, At, Shutting
  <1>5. \A r \in Handles : ~Reaches(t, r)
    BY DEF Reaches, At, Shutting
  <1> QED BY <1>1, <1>3, <1>4, <1>5, CloserMoves

(* No thread moves, and no record is closed. *)
LEMMA NobodyMoves ==
    ASSUME IInv, UNCHANGED <<job, closes_>>, sockets_ \subseteq sockets_',
           \A r \in Handles :
             \/ record'[r].state = record[r].state
             \/ /\ record[r].state \notin {"closing", "closed"}
                /\ record'[r].state \notin {"closing", "closed"}
                /\ Live(r) \/ r \in sockets_',
           \A r \in sockets_' : r \in sockets_ \/ (r \in Handles /\ record'[r].state # "closed")
    PROVE  ClosesSound'
  <1>1. JobTyped'
    BY DEF IInv, TypeInv, JobTyped
  <1>2. JobsSound'
    <2>1. ASSUME NEW u \in Actors
          PROVE  JobSound(u)'
      <3>1. JobSound(u) /\ job'[u] = job[u]
        BY <2>1 DEF IInv, ClosesSound, JobsSound
      <3>2. At(u, {"retire"}) => job[u].socket \in Handles
        BY <3>1 DEF JobSound, At, Shutting
      <3> QED BY <3>1, <3>2 DEF JobSound, At
    <2> QED BY <2>1 DEF JobsSound
  <1>3. ASSUME NEW r \in Handles
        PROVE  Owned(r)' /\ Findable(r)'
    <2>1. Owned(r) /\ Findable(r)
      BY DEF IInv, ClosesSound, OneCloser
    <2>2. /\ Closers(r)' = Closers(r) /\ Deferred(r)' = Deferred(r)
          /\ \A u \in Threads : Reaches(u, r)' <=> Reaches(u, r)
      BY DEF Closers, Deferred, Reaches, At
    <2>3. Owned(r)'
      BY <2>1, <2>2 DEF Owned
    <2>4. Findable(r)'
      BY <2>1, <2>2 DEF Findable, Live
    <2> QED BY <2>3, <2>4
  <1>4. OneCloser'
    BY <1>3 DEF OneCloser
  <1>5. ClosedIsRetired'
    <2>1. ASSUME NEW r \in sockets_', record'[r].state = "closed"
          PROVE  \E u \in Actors : At(u, {"retire"}) /\ job[u].socket = r
      <3>1. r \in sockets_ /\ r \in Handles /\ record[r].state = "closed"
        BY <2>1 DEF IInv, TypeInv, HandlesTyped
      <3> QED BY <3>1 DEF IInv, ClosesSound, ClosedIsRetired
    <2> QED BY <2>1 DEF ClosedIsRetired, At
  <1> QED BY <1>1, <1>2, <1>4, <1>5 DEF ClosesSound

(* What most steps leave alone. *)
LEMMA Others ==
    ASSUME IInv, ClosesSound', CleanupSound', RecordTyped', UNCHANGED <<registry, epoch>>,
           \A s \in Handles : /\ record'[s].epoch = record[s].epoch
                              /\ record[s].state # "none" => record'[s].state # "none",
           generation_' \in Int, ClosesTyped', BudgetKept'
    PROVE  IInv'
  <1>1. EpochsSound'
    <2>1. sockets_' = sockets_ /\ closed_handles_' = closed_handles_ /\ epoch' = epoch
      BY DEF registry
    <2>2. ASSUME NEW s \in sockets_ \cup closed_handles_
          PROVE  s \in Handles /\ record'[s].state # "none" /\ record'[s].epoch = epoch
      BY <2>2 DEF IInv, EpochsSound
    <2> QED BY <2>1, <2>2 DEF EpochsSound
  <1>2. TypeInv'
    BY DEF IInv, TypeInv, ClosesSound, CountersTyped, HandlesTyped, registry
  <1> QED BY <1>1, <1>2 DEF IInv

LEMMA Kept ==
    ASSUME IInv, ClosesSound', CleanupSound',
           UNCHANGED <<registry, epoch, record, generation_, closes_, payload_capacity_>>
    PROVE  IInv'
  <1>1. RecordTyped' /\ ClosesTyped' /\ BudgetKept' /\ generation_' \in Int
    BY DEF IInv, TypeInv, RecordTyped, ClosesTyped, CountersTyped, BudgetKept
  <1> QED BY <1>1, Others

-----------------------------------------------------------------------------
(* Steps that move no thread                                                 *)

LEMMA StartStep ==
    ASSUME IInv, NEW t \in Actors, runtime_start(t)
    PROVE  IInv'
  <1>1. /\ UNCHANGED <<registry, record, manager, job, epoch>> /\ ~lifecycle.cleaning
        /\ \A u \in Actors : ~Cleans(u)
    BY DEF runtime_start, IInv, CleanupSound
  <1>2. ClosesSound'
    BY <1>1, NobodyMoves DEF registry, manager
  <1>3. CleanupSound'
    <2>1. "cleaning" \in DOMAIN lifecycle'
      <3>1. "cleaning" \in DOMAIN lifecycle
        BY DEF IInv, CleanupSound
      <3>2. lifecycle' = [lifecycle EXCEPT !.startup_count = @ + 1, !.starts = @ + 1]
        BY DEF runtime_start
      <3> QED BY <3>1, <3>2
    <2> QED BY <1>1, <2>1 DEF IInv, CleanupSound, Cleans, Paused, Emptied, At, manager
  <1> QED BY <1>1, <1>2, <1>3, Kept DEF manager

(* A new record is in the registry, and nobody knew the handle. *)
LEMMA CreateStep ==
    ASSUME IInv, NEW s \in Handles, create(s),
           "cleaning" \in DOMAIN lifecycle', lifecycle'.cleaning = lifecycle.cleaning
    PROVE  IInv'
  <1>1. /\ sockets_' = sockets_ \cup {s} /\ record[s].state = "none"
        /\ UNCHANGED <<closed_handles_, manager, job, epoch>>
    BY DEF create
  <1>2. /\ RecordTyped' /\ record'[s].state = "init" /\ record'[s].epoch = epoch
        /\ \A r \in Handles : r # s => record'[r] = record[r]
    BY Zenon DEF create, IInv, TypeInv, RecordTyped, Record, CountersTyped
  <1>3. ClosesSound'
    BY <1>1, <1>2, NobodyMoves DEF manager
  <1>4. CleanupSound'
    BY <1>1 DEF IInv, CleanupSound, Cleans, Paused, Emptied, At, manager
  <1>5. EpochsSound'
    BY <1>1, <1>2 DEF IInv, EpochsSound
  <1>6. TypeInv' /\ BudgetKept'
    BY <1>1, <1>2, <1>3 DEF IInv, TypeInv, ClosesTyped, CountersTyped, HandlesTyped, BudgetKept,
                            ClosesSound, manager
  <1> QED BY <1>3, <1>4, <1>5, <1>6 DEF IInv

(* A record goes on that nobody closes. *)
LEMMA ProceedStep ==
    ASSUME IInv, NEW s \in Handles, Establish(s) \/ Proceed(s) \/ refresh_state(s)
    PROVE  IInv'
  <1>1. UNCHANGED <<lifecycle, registry, manager, job, epoch>>
    BY DEF Establish, Proceed, refresh_state
  <1>2. /\ RecordTyped' /\ \A r \in Handles : r # s => record'[r] = record[r]
        /\ record'[s].epoch = record[s].epoch
        /\ \/ record'[s].state = record[s].state
           \/ /\ record[s].state \in {"init", "connected"}
              /\ record'[s].state \in {"listening", "connected", "broken"}
    <2>1. record[s] \in Record /\ record \in [Handles -> Record]
      BY DEF IInv, TypeInv, RecordTyped
    <2>2. CASE Establish(s)
      BY <2>1, <2>2 DEF Establish, RecordTyped, Record
    <2>3. CASE Proceed(s)
      BY <2>1, <2>3 DEF Proceed, RecordTyped, Record
    <2>4. CASE refresh_state(s)
      BY <2>1, <2>4 DEF refresh_state, RecordTyped, Record
    <2> QED BY <2>2, <2>3, <2>4
  <1>3. ClosesSound'
    BY <1>1, <1>2, NobodyMoves DEF Live, registry, manager
  <1>4. CleanupSound'
    BY <1>1 DEF IInv, CleanupSound, Cleans, Paused, Emptied, At, manager
  <1>5. ClosesTyped' /\ BudgetKept' /\ generation_' \in Int
    BY <1>1 DEF IInv, TypeInv, ClosesTyped, CountersTyped, BudgetKept, manager
  <1> QED BY <1>1, <1>2, <1>3, <1>4, <1>5, Others

-----------------------------------------------------------------------------
(* Steps that shut a record down                                             *)

(* A step of t that leaves the cleanup where it is. *)
LEMMA CleanupKept ==
    ASSUME IInv, NEW t \in Actors, Alone(t),
           Cleans(t)' => Cleans(t), Paused(t)' => Paused(t), Emptied(t)' => Emptied(t),
           job'[t].at # "resume",
           UNCHANGED <<lifecycle, accepting_, generation_>>,
           closes_' \subseteq closes_, retired_channels_' \subseteq retired_channels_
    PROVE  CleanupSound'
  <1>1. \A u \in Actors : /\ Cleans(u)' => Cleans(u)
                          /\ Paused(u)' => Paused(u)
                          /\ Emptied(u)' => Emptied(u)
                          /\ At(u, {"resume"})' => At(u, {"resume"})
    BY DEF Cleans, Paused, Emptied, At, Alone
  <1> QED BY <1>1 DEF IInv, CleanupSound

(* A thread begins to shut s down: s stays within reach. *)
LEMMA EnterStep ==
    ASSUME IInv, NEW t \in Threads, NEW s \in Handles, NEW j \in Job,
           job' = [job EXCEPT ![t] = j],
           j.at = "enter", j.socket = s, j.records = job[t].records \ {s},
           \/ At(t, {"idle"}) /\ j.back = "idle"
           \/ At(t, {"sweep"}) /\ j.back = "sweep",
           UNCHANGED <<lifecycle, registry, record, manager, epoch>>
    PROVE  IInv'
  <1>1. /\ JobTyped' /\ job'[t] = j /\ t \in Actors
        /\ Alone(t)
    BY JobChanged, Zenon DEF IInv, TypeInv, Actors
  <1>2. JobSound(t) /\ job[t].back = "idle" /\ ~At(t, Shutting)
    BY <1>1 DEF IInv, ClosesSound, JobsSound, JobSound, At, Shutting, Closing
  <1>3. ClosesSound'
    <2>1. JobSound(t)' /\ ~At(t, {"retire"})
      BY <1>1, <1>2 DEF JobSound, At, Shutting, Closing
    <2>2. \A r \in Handles : t \in Closers(r)' <=> t \in Closers(r)
      BY <1>1, <1>2 DEF Closers, At, Shutting, Closing
    <2>3. \A r \in Handles : Reaches(t, r) => Reaches(t, r)'
      BY <1>1, <1>2 DEF Reaches, At, Shutting
    <2> QED BY <1>1, <2>1, <2>2, <2>3, CloserMoves DEF registry, manager
  <1>4. CleanupSound'
    <2>1. /\ Cleans(t)' => Cleans(t)
          /\ Paused(t)' => Paused(t)
          /\ Emptied(t)' => Emptied(t)
      BY <1>1, <1>2 DEF Cleans, Paused, Emptied, At, Cleaning
    <2> QED BY <1>1, <2>1, CleanupKept DEF manager
  <1> QED BY <1>3, <1>4, Kept DEF manager

LEMMA CloseStep ==
    ASSUME IInv, NEW t \in Threads, NEW s \in Handles, NEW broken \in BOOLEAN, close(t, s, broken)
    PROVE  IInv'
  <1> DEFINE j == Shutdown(t, s, TRUE, broken, "idle")
  <1>1. j \in Job /\ j.at = "enter" /\ j.socket = s /\ j.back = "idle" /\ j.records = job[t].records
    <2>1. job[t] \in Job /\ admission_generation \in Int /\ "enter" \in Places
      BY JobFacts DEF IInv, Actors
    <2> QED BY <2>1, Zenon DEF Shutdown, Job, Backs
  <1>2. job[t].records = {}
    BY DEF close, IInv, ClosesSound, JobsSound, JobSound, At, Actors, Shutting, Closing
  <1>3. /\ job' = [job EXCEPT ![t] = j] /\ At(t, {"idle"})
        /\ UNCHANGED <<lifecycle, registry, record, manager, epoch>>
    BY DEF close
  <1> HIDE DEF j
  <1> QED BY <1>1, <1>2, <1>3, EnterStep, Zenon

LEMMA SweepStep ==
    ASSUME IInv, NEW t \in Threads, Sweep(t)
    PROVE  IInv'
  <1>1. PICK s \in job[t].records :
          job' = [job EXCEPT ![t] = [Shutdown(t, s, FALSE, FALSE, "sweep")
                                       EXCEPT !.records = @ \ {s}]]
    BY Zenon DEF Sweep
  <1> DEFINE k == Shutdown(t, s, FALSE, FALSE, "sweep")
             j == [k EXCEPT !.records = @ \ {s}]
  <1>2. s \in Handles
    BY DEF IInv, TypeInv, JobTyped, Job, Actors
  <1>3. k \in Job /\ k.at = "enter" /\ k.socket = s /\ k.back = "sweep" /\ k.records = job[t].records
    <2>1. job[t] \in Job /\ admission_generation \in Int /\ "enter" \in Places
      BY JobFacts DEF IInv, Actors
    <2> QED BY <1>2, <2>1, Zenon DEF Shutdown, Job, Backs
  <1>4. job' = [job EXCEPT ![t] = j]
    BY <1>1
  <1> HIDE DEF k
  <1>5. /\ j \in Job /\ j.at = "enter" /\ j.socket = s /\ j.back = "sweep"
        /\ j.records = job[t].records \ {s}
    BY <1>3 DEF Job
  <1>6. At(t, {"sweep"}) /\ UNCHANGED <<lifecycle, registry, record, manager, epoch>>
    BY DEF Sweep
  <1> HIDE DEF j
  <1> QED BY <1>2, <1>4, <1>5, <1>6, EnterStep, Zenon

(* shutdown_record is over for t: another thread was first, the manager has  *)
(* the record, or it is retired.                                             *)
LEMMA CleanupReturned ==
    ASSUME IInv, NEW t \in Actors, At(t, Shutting), Returns(t),
           UNCHANGED <<lifecycle, accepting_, generation_, retired_channels_>>,
           closes_' \subseteq closes_
    PROVE  CleanupSound'
  <1>1. /\ Alone(t)
        /\ job'[t].at = job[t].back /\ job'[t].back = "idle" /\ job[t].back \in Backs
    BY CameBack DEF IInv, TypeInv, JobTyped, Job
  <1>2. /\ Cleans(t)' => Cleans(t)
        /\ Paused(t)' => Paused(t)
        /\ Emptied(t)' => Emptied(t)
        /\ job'[t].at # "resume"
    BY <1>1 DEF Cleans, Paused, Emptied, At, Cleaning, Backs
  <1> QED BY <1>1, <1>2, CleanupKept

LEMMA ClosersGained ==
    ASSUME NEW t \in Actors, Alone(t),
           NEW s \in Handles, ~At(t, Closing), job'[t].at \in Closing, job'[t].socket = s
    PROVE  /\ Closers(s)' = Closers(s) \cup {t}
           /\ \A r \in Handles : r # s => Closers(r)' = Closers(r)
  <1>1. \A r \in Handles, u \in Actors : u # t => (u \in Closers(r)' <=> u \in Closers(r))
    BY DEF Closers, At, Alone
  <1>2. \A r \in Handles : /\ t \in Closers(r)' <=> r = s
                           /\ t \notin Closers(r)
    BY DEF Closers, At
  <1>3. \A r \in Handles : Closers(r) \subseteq Actors /\ Closers(r)' \subseteq Actors
    BY DEF Closers
  <1>4. Closers(s)' = Closers(s) \cup {t}
    BY <1>1, <1>2, <1>3
  <1>5. \A r \in Handles : r # s => Closers(r)' = Closers(r)
    BY <1>2, ClosersKept
  <1> QED BY <1>4, <1>5

LEMMA ClosersLost ==
    ASSUME NEW t \in Actors, Alone(t),
           NEW s \in Handles, At(t, Closing), job[t].socket = s, job'[t].at \notin Closing
    PROVE  /\ t \in Closers(s) /\ Closers(s)' = Closers(s) \ {t}
           /\ \A r \in Handles : r # s => Closers(r)' = Closers(r)
  <1>1. \A r \in Handles, u \in Actors : u # t => (u \in Closers(r)' <=> u \in Closers(r))
    BY DEF Closers, At, Alone
  <1>2. \A r \in Handles : /\ t \in Closers(r) <=> r = s
                           /\ t \notin Closers(r)'
    BY DEF Closers, At
  <1>3. \A r \in Handles : Closers(r) \subseteq Actors /\ Closers(r)' \subseteq Actors
    BY DEF Closers
  <1>4. Closers(s)' = Closers(s) \ {t}
    BY <1>1, <1>2, <1>3
  <1>5. \A r \in Handles : r # s => Closers(r)' = Closers(r)
    BY <1>2, ClosersKept
  <1> QED BY <1>2, <1>4, <1>5

LEMMA TakeStep ==
    ASSUME IInv, NEW t \in Actors, Take(t)
    PROVE  IInv'
  <1>0. PICK s \in Handles : s = job[t].socket
    BY DEF Take, IInv, ClosesSound, JobsSound, JobSound, At, Shutting
  <1>1. /\ At(t, {"enter"}) /\ At(t, Shutting)
        /\ UNCHANGED <<lifecycle, registry, manager, epoch>>
    BY DEF Take, At, Shutting
  <1>2. CASE record[s].state \in {"closing", "closed"}
    <2>1. Returns(t) /\ UNCHANGED record
      BY <1>0, <1>2 DEF Take
    <2>2. /\ JobTyped' /\ Alone(t)
          /\ job'[t].at = job[t].back /\ job'[t].back = "idle"
          /\ job'[t].records = job[t].records /\ job[t].back \in Backs
      BY <2>1, CameBack DEF IInv, TypeInv, JobTyped, Job
    <2>3. JobSound(t)' /\ ~At(t, {"retire"})
      <3>1. JobSound(t)
        BY DEF IInv, ClosesSound, JobsSound
      <3> QED BY <1>1, <2>2, <3>1 DEF JobSound, At, Shutting, Closing, Backs
    <2>4. \A r \in Handles : t \in Closers(r)' <=> t \in Closers(r)
      BY <1>1, <2>2 DEF Closers, At, Closing, Backs
    <2>5. \A r \in Handles : Live(r) /\ Reaches(t, r) => Reaches(t, r)'
      BY <1>0, <1>1, <1>2, <2>2 DEF Live, Reaches, At
    <2>6. ClosesSound'
      BY <1>1, <2>1, <2>2, <2>3, <2>4, <2>5, CloserMoves DEF registry, manager
    <2>8. CleanupSound'
      BY <1>1, <2>1, CleanupReturned DEF manager
    <2> QED BY <1>1, <2>1, <2>6, <2>8, Kept DEF manager
  <1>3. CASE record[s].state \notin {"closing", "closed"}
    <2> DEFINE j == [job[t] EXCEPT !.at = "taken",
                                   !.honor_linger = @ /\ record[s].state = "connected"]
    <2>1. job' = [job EXCEPT ![t] = j] /\ record' = [record EXCEPT ![s].state = "closing"]
      BY <1>0, <1>3, Zenon DEF Take
    <2>2. /\ j \in Job /\ j.at = "taken" /\ j.socket = s
          /\ j.back = job[t].back /\ j.records = job[t].records
      <3>1. job[t] \in Job /\ "taken" \in Places
        BY JobFacts DEF IInv, Closing
      <3> QED BY <1>0, <3>1, Zenon DEF Job
    <2> HIDE DEF j
    <2>3. /\ JobTyped' /\ job'[t] = j
          /\ Alone(t)
      BY <2>1, <2>2, JobChanged, Zenon DEF IInv, TypeInv
    <2>4. /\ RecordTyped' /\ record'[s].state = "closing" /\ record'[s].epoch = record[s].epoch
          /\ \A r \in Handles : r # s => record'[r] = record[r]
      BY <1>1, <2>1 DEF IInv, TypeInv, RecordTyped, Record
    <2>5. JobSound(t)' /\ ~At(t, {"retire"})
      <3>1. JobSound(t)
        BY DEF IInv, ClosesSound, JobsSound
      <3> QED BY <1>1, <2>2, <2>3, <3>1 DEF JobSound, At, Shutting, Closing
    <2>6. /\ Closers(s) = {} /\ Deferred(s) = {} /\ Closers(s)' = {t}
          /\ \A r \in Handles : Deferred(r)' = Deferred(r)
          /\ \A r \in Handles : r # s => Closers(r)' = Closers(r)
      <3>1. Closers(s) = {} /\ Deferred(s) = {}
        BY <1>3 DEF IInv, ClosesSound, OneCloser, Owned
      <3>2. \A r \in Handles : Deferred(r)' = Deferred(r)
        BY <1>1 DEF Deferred, manager
      <3>3. Closers(s)' = Closers(s) \cup {t} /\ \A r \in Handles : r # s => Closers(r)' = Closers(r)
        <4>1. ~At(t, Closing) /\ job'[t].at \in Closing /\ job'[t].socket = s
          BY <1>1, <2>2, <2>3 DEF At, Closing
        <4> QED BY <2>3, <4>1, ClosersGained
      <3> QED BY <3>1, <3>2, <3>3
    <2>7. \A r \in Handles : r # s /\ Reaches(t, r) => Reaches(t, r)'
      BY <1>0, <1>1, <2>2, <2>3 DEF Reaches, At
    <2>8. Owned(s)'
      BY <2>4, <2>6 DEF Owned
    <2>9. ClosesSound'
      BY <1>1, <1>3, <2>3, <2>4, <2>5, <2>6, <2>7, <2>8, OwnerChanges, Zenon DEF registry
    <2>10. CleanupSound'
      <3>1. /\ Cleans(t)' => Cleans(t)
            /\ Paused(t)' => Paused(t)
            /\ Emptied(t)' => Emptied(t)
        BY <2>2, <2>3 DEF Cleans, Paused, Emptied, At, Cleaning
      <3> QED BY <1>1, <2>2, <2>3, <3>1, CleanupKept, Zenon DEF manager
    <2>11. ClosesTyped' /\ BudgetKept' /\ generation_' \in Int
      BY <1>1 DEF IInv, TypeInv, ClosesTyped, CountersTyped, BudgetKept, manager
    <2> QED BY <1>1, <2>4, <2>9, <2>10, <2>11, Others
  <1> QED BY <1>2, <1>3

LEMMA DismantleStep ==
    ASSUME IInv, NEW t \in Actors, Dismantle(t)
    PROVE  IInv'
  <1>1. PICK p \in {"offer", "finish"} : Goes(t, p)
    BY DEF Dismantle
  <1>2. UNCHANGED <<lifecycle, registry, record, manager, epoch>> /\ At(t, {"taken"})
    BY DEF Dismantle
  <1>3. /\ Alone(t)
        /\ job'[t].at = p /\ job'[t].back = job[t].back
    BY <1>1, Went, JobFacts DEF IInv, TypeInv, Closing
  <1>4. ClosesSound'
    BY <1>1, <1>2, CloserGoes DEF At, Closing, registry, manager
  <1>5. /\ Cleans(t)' => Cleans(t)
        /\ Paused(t)' => Paused(t)
        /\ Emptied(t)' => Emptied(t)
    BY <1>3 DEF Cleans, Paused, Emptied, At, Cleaning
  <1>6. CleanupSound'
    BY <1>2, <1>3, <1>5, CleanupKept DEF manager
  <1> QED BY <1>2, <1>4, <1>6, Kept DEF manager

=============================================================================
