----------------------- MODULE SocketLifecycleProofs -----------------------
(***************************************************************************)
(* Closing sockets while the runtime is cleaned up: LifecycleSound of      *)
(* SocketLifecycle, for any number of sockets, listeners, threads and      *)
(* generations, and any limits of the deferred closes.  Here are the steps *)
(* of the deferred closes, of the worker and of the cleanup.               *)
(***************************************************************************)
EXTENDS SocketLifecycleSteps

-----------------------------------------------------------------------------
(* schedule: the manager becomes the closer of s, or refuses. *)
LEMMA ScheduleStep ==
    ASSUME Sized, IInv, NEW t \in Actors, schedule(t)
    PROVE  IInv'
  <1>0. PICK s \in Handles : s = job[t].socket
    BY DEF schedule, IInv, ClosesSound, JobsSound, JobSound, At, Shutting, Closing
  <1>1. /\ At(t, {"offer"}) /\ At(t, Closing) /\ At(t, Shutting)
        /\ UNCHANGED <<lifecycle, registry, record, retired_channels_, accepting_, generation_, epoch>>
    BY DEF schedule, At, Shutting, Closing
  <1>2. CASE ~Admits(t)
    <2>1. Goes(t, "finish") /\ UNCHANGED <<closes_, payload_capacity_>>
      BY <1>2 DEF schedule
    <2>2. /\ Alone(t)
          /\ job'[t].at = "finish" /\ job'[t].back = job[t].back
      BY <2>1, Went, JobFacts DEF IInv, TypeInv, Closing
    <2>3. ClosesSound'
      BY <1>1, <2>1, CloserGoes DEF Closing, registry
    <2>4. /\ Cleans(t)' => Cleans(t)
          /\ Paused(t)' => Paused(t)
          /\ Emptied(t)' => Emptied(t)
      BY <2>2 DEF Cleans, Paused, Emptied, At, Cleaning
    <2>5. CleanupSound'
      BY <1>1, <2>1, <2>2, <2>4, CleanupKept
    <2> QED BY <1>1, <2>1, <2>3, <2>5, Kept
  <1>3. CASE Admits(t)
    <2> DEFINE e == [socket |-> s, generation |-> job[t].generation, broken |-> job[t].broken]
    <2>1. /\ closes_' = closes_ \cup {e} /\ payload_capacity_' = payload_capacity_ + Payload[s]
          /\ Returns(t)
      BY <1>0, <1>3 DEF schedule
    <2>2. e \in Entry /\ e.socket = s /\ e.generation = job[t].generation
      BY JobFacts DEF IInv, Job, Entry
    <2> HIDE DEF e
    <2>3. /\ JobTyped' /\ Alone(t)
          /\ job'[t].at = job[t].back /\ job'[t].back = "idle"
          /\ job'[t].records = job[t].records /\ job[t].back \in Backs
      BY <2>1, CameBack DEF IInv, TypeInv, JobTyped, Job
    <2>4. JobSound(t)' /\ ~At(t, {"retire"})
      <3>1. JobSound(t)
        BY DEF IInv, ClosesSound, JobsSound
      <3> QED BY <1>1, <2>3, <3>1 DEF JobSound, At, Shutting, Closing, Backs
    <2>5. /\ t \in Closers(s) /\ Closers(s)' = Closers(s) \ {t}
          /\ \A r \in Handles : r # s => Closers(r)' = Closers(r)
      <3>1. job'[t].at \notin Closing
        BY <2>3 DEF Backs, Closing
      <3> QED BY <1>0, <1>1, <2>3, <3>1, ClosersLost
    <2>6. Closers(s)' = {} /\ Deferred(s) = {} /\ record[s].state = "closing"
      BY <2>5 DEF IInv, ClosesSound, OneCloser, Owned
    <2>7. Deferred(s)' = {e} /\ \A r \in Handles : r # s => Deferred(r)' = Deferred(r)
      BY <2>1, <2>2, <2>6 DEF Deferred
    <2>8. \A r \in Handles : Reaches(t, r) => Reaches(t, r)'
      BY <1>1, <2>3 DEF Reaches, At
    <2>9. Owned(s)' /\ record'[s].state = "closing"
      BY <1>1, <2>6, <2>7 DEF Owned
    <2>10. ClosesSound'
      BY <1>1, <2>3, <2>4, <2>5, <2>6, <2>7, <2>8, <2>9, OwnerChanges, Zenon DEF registry
    <2>11. CleanupSound'
      <3>1. accepting_ /\ job[t].generation = generation_
        BY <1>3 DEF Admits
      <3>2. /\ Cleans(t)' => Cleans(t)
            /\ ~Paused(t) => ~Paused(t)'
        BY <2>3 DEF Cleans, Paused, At, Cleaning, Backs
      <3>3. \A u \in Actors : ~Paused(u) /\ ~Paused(u)' /\ (Cleans(u)' => Cleans(u))
        BY <2>3, <3>1, <3>2 DEF IInv, CleanupSound, Cleans, Paused, At, Alone
      <3>4. \A u \in Actors : ~Emptied(u)' /\ ~At(u, {"resume"})'
        BY <3>3 DEF Emptied, Paused, At
      <3>5. \A f \in closes_' : f.generation = generation_
        BY <2>1, <2>2, <3>1 DEF IInv, CleanupSound
      <3> QED BY <1>1, <3>1, <3>3, <3>4, <3>5, Zenon DEF IInv, CleanupSound
    <2>12. ClosesTyped' /\ BudgetKept'
      <3>1. /\ IsFiniteSet(closes_') /\ Cardinality(closes_') <= Cardinality(closes_) + 1
            /\ Cardinality(closes_) \in Nat
        <4>1. IsFiniteSet(closes_)
          BY DEF IInv, TypeInv, ClosesTyped
        <4>2. Cardinality(closes_) \in Nat
          BY <4>1, FS_CardinalityType
        <4>3. /\ IsFiniteSet(closes_ \cup {e})
              /\ Cardinality(closes_ \cup {e}) =
                   IF e \in closes_ THEN Cardinality(closes_) ELSE Cardinality(closes_) + 1
          BY <4>1, FS_AddElement, Zenon
        <4> QED BY <2>1, <4>2, <4>3
      <3>2. Payload[s] \in Nat /\ payload_capacity_ \in Int /\ payload_limit_ \in Nat /\ close_limit_ \in Nat
        BY DEF Sized, IInv, TypeInv, ClosesTyped
      <3>3. payload_capacity_' \in Int /\ payload_capacity_' <= payload_limit_
        BY <1>0, <1>3, <2>1, <3>2 DEF Admits
      <3>4. Cardinality(closes_') <= close_limit_
        <4>1. Cardinality(closes_') \in Nat
          BY <3>1, FS_CardinalityType
        <4>2. Cardinality(closes_) < close_limit_
          BY <1>3 DEF Admits
        <4> QED BY <3>1, <3>2, <4>1, <4>2
      <3> QED BY <2>1, <2>2, <3>1, <3>3, <3>4 DEF IInv, TypeInv, ClosesTyped, BudgetKept
    <2>13. RecordTyped' /\ generation_' \in Int
      BY <1>1 DEF IInv, TypeInv, RecordTyped, CountersTyped
    <2> QED BY <1>1, <2>10, <2>11, <2>12, <2>13, Others
  <1> QED BY <1>2, <1>3

(* finish_close goes on; a channel is retained only while the manager        *)
(* accepts.                                                                  *)
LEMMA FinishRuntimeStep ==
    ASSUME IInv, NEW t \in Actors, FinishRuntime(t)
    PROVE  IInv'
  <1>0. PICK s \in Handles : s = job[t].socket
    BY DEF FinishRuntime, IInv, ClosesSound, JobsSound, JobSound, At, Shutting, Closing
  <1>1. PICK p \in {"closed", "retain"} : Goes(t, p)
    BY DEF FinishRuntime
  <1>2. UNCHANGED <<lifecycle, registry, manager, epoch>> /\ At(t, {"finish"})
    BY DEF FinishRuntime
  <1>3. /\ Alone(t)
        /\ job'[t].at = p /\ job'[t].back = job[t].back
    BY <1>1, Went, JobFacts DEF IInv, TypeInv, Closing
  <1>4. RecordTyped' /\ \A r \in Handles : /\ record'[r].state = record[r].state
                                           /\ record'[r].epoch = record[r].epoch
    BY <1>0 DEF FinishRuntime, IInv, TypeInv, RecordTyped, Record
  <1>5. ClosesSound'
    BY <1>1, <1>2, <1>4, CloserGoes DEF At, Closing, registry, manager
  <1>6. /\ Cleans(t)' => Cleans(t)
        /\ Paused(t)' => Paused(t)
        /\ Emptied(t)' => Emptied(t)
    BY <1>3 DEF Cleans, Paused, Emptied, At, Cleaning
  <1>7. CleanupSound'
    BY <1>2, <1>3, <1>6, CleanupKept DEF manager
  <1>8. ClosesTyped' /\ BudgetKept' /\ generation_' \in Int
    BY <1>2 DEF IInv, TypeInv, ClosesTyped, CountersTyped, BudgetKept, manager
  <1> QED BY <1>2, <1>4, <1>5, <1>7, <1>8, Others

LEMMA RetainStep ==
    ASSUME IInv, NEW t \in Actors, retain_channel(t)
    PROVE  IInv'
  <1>1. /\ Goes(t, "closed") /\ At(t, {"retain"})
        /\ UNCHANGED <<lifecycle, registry, record, closes_, payload_capacity_, accepting_,
                       generation_, epoch>>
    BY Zenon DEF retain_channel
  <1>2. /\ Alone(t)
        /\ job'[t].at = "closed" /\ job'[t].back = job[t].back
    BY <1>1, Went, JobFacts, Zenon DEF IInv, TypeInv, Closing
  <1>3. ClosesSound'
    BY <1>1, CloserGoes, Zenon DEF At, Closing, registry
  <1>4. /\ Cleans(t)' => Cleans(t)
        /\ Paused(t)' => Paused(t)
        /\ Emptied(t)' => Emptied(t)
    BY <1>2 DEF Cleans, Paused, Emptied, At, Cleaning
  <1>5. CASE retired_channels_' = retired_channels_
    <2>1. CleanupSound'
      BY <1>1, <1>2, <1>4, <1>5, CleanupKept, Zenon
    <2> QED BY <1>1, <1>3, <2>1, Kept
  <1>6. CASE retired_channels_' # retired_channels_
    <2>1. /\ accepting_ /\ job[t].generation = generation_
          /\ retired_channels_' = retired_channels_ \cup
               {[channel |-> Channel[job[t].socket], generation |-> job[t].generation]}
      BY <1>6 DEF retain_channel, Retains
    <2>2. \A u \in Actors : ~Paused(u) /\ ~Paused(u)' /\ (Cleans(u)' => Cleans(u))
      BY <1>2, <1>4, <2>1, Zenon DEF IInv, CleanupSound, Cleans, Paused, At, Alone
    <2>3. \A u \in Actors : ~Emptied(u)' /\ ~At(u, {"resume"})'
      BY <2>2 DEF Emptied, Paused, At
    <2>4. \A k \in retired_channels_' : k.generation = generation_
      <3> DEFINE n == [channel |-> Channel[job[t].socket], generation |-> job[t].generation]
      <3>1. n.generation = generation_
        BY <2>1
      <3>2. retired_channels_' = retired_channels_ \cup {n}
        BY <2>1
      <3> HIDE DEF n
      <3>3. \A k \in retired_channels_ : k.generation = generation_
        BY <2>1 DEF IInv, CleanupSound
      <3> QED BY <3>1, <3>2, <3>3
    <2>5. CleanupSound'
      BY <1>1, <2>1, <2>2, <2>3, <2>4, Zenon DEF IInv, CleanupSound
    <2> QED BY <1>1, <1>3, <2>5, Kept
  <1> QED BY <1>5, <1>6

(* The closer of s marks it closed, and will retire it. *)
LEMMA SetClosedStep ==
    ASSUME IInv, NEW t \in Actors, SetClosed(t)
    PROVE  IInv'
  <1>0. PICK s \in Handles : s = job[t].socket
    BY DEF SetClosed, IInv, ClosesSound, JobsSound, JobSound, At, Shutting, Closing
  <1>1. /\ Goes(t, "retire") /\ At(t, {"closed"}) /\ At(t, Closing)
        /\ UNCHANGED <<lifecycle, registry, manager, epoch>>
    BY DEF SetClosed, At, Closing
  <1>2. /\ JobTyped' /\ Alone(t)
        /\ job'[t].at = "retire" /\ job'[t].socket = s
        /\ job'[t].back = job[t].back /\ job'[t].records = job[t].records
    BY <1>0, <1>1, Went, JobFacts, Zenon DEF IInv, TypeInv
  <1>3. /\ RecordTyped' /\ record'[s].state = "closed" /\ record'[s].epoch = record[s].epoch
        /\ \A r \in Handles : r # s => record'[r] = record[r]
    BY <1>0 DEF SetClosed, IInv, TypeInv, RecordTyped, Record
  <1>4. JobSound(t)' /\ ~At(t, {"retire"})
    <2>1. JobSound(t)
      BY DEF IInv, ClosesSound, JobsSound
    <2> QED BY <1>1, <1>2, <1>3, <2>1 DEF JobSound, At, Shutting, Closing
  <1>5. /\ t \in Closers(s) /\ Closers(s)' = Closers(s) \ {t}
        /\ \A r \in Handles : r # s => Closers(r)' = Closers(r)
    <2>1. job'[t].at \notin Closing
      BY <1>2 DEF Closing
    <2> QED BY <1>0, <1>1, <1>2, <2>1, ClosersLost, Zenon
  <1>6. \A r \in Handles : Deferred(r)' = Deferred(r)
    BY <1>1 DEF Deferred, manager
  <1>7. Closers(s)' = {} /\ Deferred(s)' = {} /\ record[s].state = "closing"
    BY <1>5, <1>6 DEF IInv, ClosesSound, OneCloser, Owned
  <1>8. \A r \in Handles : Reaches(t, r) => Reaches(t, r)'
    BY <1>1, <1>2 DEF Reaches, At
  <1>9. Owned(s)' /\ At(t, {"retire"})'
    BY <1>2, <1>3, <1>7 DEF Owned, At
  <1>10. ClosesSound'
    BY <1>1, <1>2, <1>3, <1>4, <1>5, <1>6, <1>7, <1>8, <1>9, OwnerChanges, Zenon DEF registry
  <1>11. CleanupSound'
    <2>1. /\ Cleans(t)' => Cleans(t)
          /\ Paused(t)' => Paused(t)
          /\ Emptied(t)' => Emptied(t)
      BY <1>2 DEF Cleans, Paused, Emptied, At, Cleaning
    <2> QED BY <1>1, <1>2, <2>1, CleanupKept, Zenon DEF manager
  <1>12. ClosesTyped' /\ BudgetKept' /\ generation_' \in Int
    BY <1>1 DEF IInv, TypeInv, ClosesTyped, CountersTyped, BudgetKept, manager
  <1> QED BY <1>1, <1>3, <1>10, <1>11, <1>12, Others, Zenon

(* A handle is remembered only if the registry still had it. *)
LEMMA RetireStep ==
    ASSUME IInv, NEW t \in Actors, retire_closed(t)
    PROVE  IInv'
  <1>0. PICK s \in Handles : s = job[t].socket
    BY Zenon DEF retire_closed, IInv, ClosesSound, JobsSound, JobSound, At, Shutting
  <1>1. /\ Returns(t) /\ At(t, {"retire"}) /\ At(t, Shutting)
        /\ sockets_' = sockets_ \ {s}
        /\ closed_handles_' = IF s \in sockets_ THEN closed_handles_ \cup {s} ELSE closed_handles_
        /\ UNCHANGED <<lifecycle, record, manager, epoch>>
    BY <1>0 DEF retire_closed, Remembers, At, Shutting
  <1>2. /\ JobTyped' /\ Alone(t)
        /\ job'[t].at = job[t].back /\ job'[t].back = "idle"
        /\ job'[t].records = job[t].records /\ job[t].back \in Backs
    BY <1>1, CameBack DEF IInv, TypeInv, JobTyped, Job
  <1>3. record[s].state = "closed"
    BY <1>0, <1>1, Zenon DEF IInv, ClosesSound, JobsSound, JobSound
  <1>4. JobSound(t)'
    <2>1. JobSound(t)
      BY DEF IInv, ClosesSound, JobsSound
    <2> QED BY <1>1, <1>2, <2>1 DEF JobSound, At, Shutting, Closing, Backs
  <1>5. \A r \in Handles : t \in Closers(r)' <=> t \in Closers(r)
    BY <1>1, <1>2 DEF Closers, At, Closing, Backs
  <1>6. \A r \in Handles : Reaches(t, r) => Reaches(t, r)'
    BY <1>1, <1>2 DEF Reaches, At
  <1>7. \A r \in sockets_ : Live(r) => r \in sockets_'
    BY <1>1, <1>3 DEF Live
  <1>8. ClosesSound'
    BY <1>0, <1>1, <1>2, <1>4, <1>5, <1>6, <1>7, CloserMoves, Zenon DEF manager
  <1>9. CleanupSound'
    BY <1>1, CleanupReturned DEF manager
  <1>10. EpochsSound'
    BY <1>1 DEF IInv, EpochsSound
  <1>11. TypeInv' /\ BudgetKept'
    BY <1>1, <1>2 DEF IInv, TypeInv, RecordTyped, ClosesTyped, CountersTyped, HandlesTyped,
                      BudgetKept, manager
  <1> QED BY <1>8, <1>9, <1>10, <1>11 DEF IInv

(* t finishes a deferred close: it becomes the closer of the socket. *)
LEMMA FinishesStep ==
    ASSUME Sized, IInv, NEW t \in Actors, NEW e \in closes_, NEW back \in {"service", "all"},
           At(t, {back}), Finishes(t, e, back)
    PROVE  IInv'
  <1>0. e \in Entry /\ \E r \in Handles : r = e.socket
    BY DEF IInv, TypeInv, ClosesTyped, Entry
  <1>00. PICK s \in Handles : s = e.socket
    BY <1>0
  <1> DEFINE j == [job[t] EXCEPT !.at = "finish", !.socket = e.socket, !.generation = e.generation,
                                 !.broken = e.broken, !.back = back]
  <1>1. /\ job' = [job EXCEPT ![t] = j] /\ closes_' = closes_ \ {e}
        /\ payload_capacity_' = payload_capacity_ - Payload[s]
        /\ UNCHANGED <<lifecycle, registry, record, retired_channels_, accepting_, generation_, epoch>>
    BY <1>00 DEF Finishes
  <1>2. /\ j \in Job /\ j.at = "finish" /\ j.socket = s /\ j.back = back
        /\ j.records = job[t].records
    <2>1. job[t] \in Job /\ "finish" \in Places /\ back \in Backs
      BY JobFacts DEF IInv, Closing, Backs
    <2> QED BY <1>0, <1>00, <2>1, Zenon DEF Job, Entry
  <1> HIDE DEF j
  <1>3. /\ JobTyped' /\ job'[t] = j
        /\ Alone(t)
    BY <1>1, <1>2, JobChanged, Zenon DEF IInv, TypeInv
  <1>4. ~At(t, Shutting) /\ job[t].back = "idle" /\ job[t].records = {}
    BY DEF IInv, ClosesSound, JobsSound, JobSound, At, Shutting, Closing
  <1>5. JobSound(t)' /\ ~At(t, {"retire"})
    BY <1>2, <1>3, <1>4 DEF JobSound, At, Shutting, Closing
  <1>6. Closers(s)' = Closers(s) \cup {t} /\ \A r \in Handles : r # s => Closers(r)' = Closers(r)
    <2>1. ~At(t, Closing) /\ job'[t].at \in Closing /\ job'[t].socket = s
      BY <1>2, <1>3, <1>4 DEF At, Shutting, Closing
    <2> QED BY <1>3, <2>1, ClosersGained
  <1>7. e \in Deferred(s)
    BY <1>00 DEF Deferred
  <1>8. Closers(s) = {} /\ Deferred(s) = {e} /\ record[s].state = "closing"
    <2>1. Owned(s)
      BY DEF IInv, ClosesSound, OneCloser
    <2>2. Closers(s) = {} /\ record[s].state = "closing" /\ \A f \in Deferred(s) : f = e
      BY <1>7, <2>1 DEF Owned
    <2> QED BY <1>7, <2>2
  <1>9. Deferred(s)' = {} /\ \A r \in Handles : r # s => Deferred(r)' = Deferred(r)
    BY <1>1, <1>00, <1>8 DEF Deferred
  <1>10. \A r \in Handles : Reaches(t, r) => Reaches(t, r)'
    BY <1>2, <1>3, <1>4 DEF Reaches, At, Shutting
  <1>11. Owned(s)' /\ record'[s].state = "closing"
    BY <1>1, <1>6, <1>8, <1>9, Zenon DEF Owned
  <1>12. ClosesSound'
    BY <1>1, <1>3, <1>5, <1>6, <1>8, <1>9, <1>10, <1>11, OwnerChanges, Zenon DEF registry
  <1>13. CleanupSound'
    <2>1. /\ Cleans(t)' => Cleans(t)
          /\ Paused(t)' => Paused(t)
          /\ Emptied(t)' => Emptied(t)
          /\ job'[t].at # "resume"
      BY <1>2, <1>3, Zenon DEF Cleans, Paused, Emptied, At, Cleaning
    <2> QED BY <1>1, <1>3, <2>1, CleanupKept
  <1>14. ClosesTyped' /\ BudgetKept'
    <2>1. IsFiniteSet(closes_) /\ Cardinality(closes_) \in Nat
      BY FS_CardinalityType DEF IInv, TypeInv, ClosesTyped
    <2>2. /\ IsFiniteSet(closes_ \ {e})
          /\ Cardinality(closes_ \ {e}) =
               IF e \in closes_ THEN Cardinality(closes_) - 1 ELSE Cardinality(closes_)
      BY <2>1, FS_RemoveElement, Zenon
    <2>3. /\ Payload[s] \in Nat /\ payload_capacity_ \in Int /\ payload_limit_ \in Nat
          /\ close_limit_ \in Nat /\ BudgetKept
      BY DEF Sized, IInv, TypeInv, ClosesTyped
    <2>4. BudgetKept' /\ payload_capacity_' \in Int
      BY <1>1, <2>1, <2>2, <2>3 DEF BudgetKept
    <2> QED BY <1>1, <2>2, <2>4 DEF IInv, TypeInv, ClosesTyped
  <1>15. RecordTyped' /\ generation_' \in Int
    BY <1>1 DEF IInv, TypeInv, RecordTyped, CountersTyped
  <1> QED BY <1>1, <1>12, <1>13, <1>14, <1>15, Others

-----------------------------------------------------------------------------
(* The worker and the cleanup                                                *)

LEMMA ServiceStep ==
    ASSUME IInv, ServiceBegin \/ ServiceEnd
    PROVE  IInv'
  <1> DEFINE t == Worker
  <1>1. /\ t \in Actors /\ ~At(t, Shutting) /\ \E p \in {"idle", "service"} : Goes(t, p)
        /\ UNCHANGED <<lifecycle, registry, record, closes_, payload_capacity_, accepting_,
                       generation_, epoch>>
        /\ retired_channels_' \subseteq retired_channels_
        /\ At(t, {"idle", "service"})
    BY Zenon DEF ServiceBegin, ServiceEnd, Actors, At, Shutting, Closing, manager
  <1> HIDE DEF t
  <1>2. PICK p \in {"idle", "service"} : Goes(t, p)
    BY <1>1
  <1>3. p \in Places \ Shutting
    BY DEF Places, Shutting, Closing
  <1>4. /\ Alone(t)
        /\ job'[t].at = p /\ job'[t].back = job[t].back
    BY <1>1, <1>2, <1>3, Went, Zenon DEF IInv, TypeInv
  <1>5. job[t].records = {} /\ job[t].back = "idle"
    BY <1>1, Zenon DEF IInv, ClosesSound, JobsSound, JobSound, At
  <1>6. ClosesSound'
    BY <1>1, <1>2, <1>3, <1>5, OtherGoes, Zenon DEF registry
  <1>7. ~Cleans(t)' /\ ~Paused(t)' /\ ~Emptied(t)' /\ job'[t].at # "resume"
    BY <1>4, <1>5 DEF Cleans, Paused, Emptied, At, Cleaning
  <1>8. CleanupSound'
    BY <1>1, <1>4, <1>7, CleanupKept
  <1> QED BY <1>1, <1>6, <1>8, Kept

(* The last srt_cleanup finds nobody else cleaning up. *)
LEMMA CleanupStep ==
    ASSUME IInv, NEW t \in Threads, runtime_cleanup(t)
    PROVE  IInv'
  <1>1. /\ t \in Actors /\ At(t, {"idle"}) /\ ~At(t, Shutting) /\ ~lifecycle.cleaning
        /\ UNCHANGED <<registry, record, manager, epoch>>
    BY DEF runtime_cleanup, Actors, At, Shutting, Closing
  <1>2. \A u \in Actors : ~Cleans(u)
    BY <1>1 DEF IInv, CleanupSound
  <1>3. "cleaning" \in DOMAIN lifecycle
    BY DEF IInv, CleanupSound
  <1>4. CASE lifecycle.startup_count > 1
    <2>1. UNCHANGED job /\ "cleaning" \in DOMAIN lifecycle'
      BY <1>3, <1>4 DEF runtime_cleanup
    <2>2. ClosesSound'
      BY <1>1, <2>1, NobodyMoves DEF registry, manager
    <2>3. CleanupSound'
      BY <1>1, <1>2, <2>1, Zenon DEF IInv, CleanupSound, Cleans, Paused, Emptied, At, manager
    <2> QED BY <1>1, <2>2, <2>3, Kept DEF manager
  <1>5. CASE ~(lifecycle.startup_count > 1)
    <2>1. Goes(t, "pause") /\ lifecycle' = [lifecycle EXCEPT !.startup_count = 0, !.cleaning = TRUE]
      BY <1>5 DEF runtime_cleanup
    <2>2. "cleaning" \in DOMAIN lifecycle' /\ lifecycle'.cleaning = TRUE
      BY <1>3, <2>1
    <2>3. "pause" \in Places \ Shutting
      BY DEF Places, Cleaning, Shutting, Closing
    <2>4. /\ Alone(t)
          /\ job'[t].at = "pause" /\ job'[t].back = job[t].back
      BY <1>1, <2>1, <2>3, Went DEF IInv, TypeInv
    <2>5. job[t].records = {} /\ job[t].back = "idle"
      BY <1>1 DEF IInv, ClosesSound, JobsSound, JobSound, At
    <2>6. ClosesSound'
      BY <1>1, <2>1, <2>3, <2>5, OtherGoes DEF registry, manager
    <2>7. ~Paused(t)' /\ ~Emptied(t)' /\ ~At(t, {"resume"})'
      BY <2>4, <2>5 DEF Paused, Emptied, At
    <2>8. \A u \in Actors : u # t => /\ ~Cleans(u)' /\ Paused(u)' = Paused(u)
                                     /\ Emptied(u)' = Emptied(u)
                                     /\ At(u, {"resume"})' = At(u, {"resume"})
      BY <1>2, <2>4 DEF Cleans, Paused, Emptied, At, Alone
    <2>9. CleanupSound'
      BY <1>1, <2>2, <2>7, <2>8, Zenon DEF IInv, CleanupSound, manager
    <2> QED BY <1>1, <2>6, <2>9, Kept DEF manager
  <1> QED BY <1>4, <1>5

(* pause, Swap, FinishAllBegin, FinishAllEnd, resume and the end of the      *)
(* cleanup: t is the one that cleans.                                        *)
LEMMA CleanerMoves ==
    ASSUME IInv, NEW t \in Actors, At(t, Cleaning)
    PROVE  /\ ~At(t, Shutting) /\ job[t].back = "idle"
           /\ ~At(t, {"sweep"}) => job[t].records = {}
           /\ lifecycle.cleaning /\ Cleans(t)
           /\ \A u \in Actors : u # t => ~Cleans(u) /\ ~Paused(u) /\ ~Emptied(u) /\ ~At(u, {"resume"})
  <1>1. ~At(t, Shutting)
    BY DEF At, Cleaning, Shutting, Closing
  <1>2. job[t].back = "idle" /\ (~At(t, {"sweep"}) => job[t].records = {})
    BY <1>1 DEF IInv, ClosesSound, JobsSound, JobSound, At
  <1>3. Cleans(t) /\ lifecycle.cleaning
    BY DEF Cleans, IInv, CleanupSound
  <1>4. \A u \in Actors : u # t => ~Cleans(u)
    BY <1>3 DEF IInv, CleanupSound
  <1>5. \A u \in Actors : u # t => ~Paused(u) /\ ~Emptied(u) /\ ~At(u, {"resume"})
    BY <1>4 DEF Cleans, Paused, Emptied, At, Cleaning
  <1> QED BY <1>1, <1>2, <1>3, <1>4, <1>5

(* The others are not concerned by what the cleaner t does. *)
LEMMA CleanerStep ==
    ASSUME IInv, NEW t \in Actors, At(t, Cleaning),
           Alone(t),
           "cleaning" \in DOMAIN lifecycle', Cleans(t)' => lifecycle'.cleaning,
           Paused(t)' => ~accepting_', Emptied(t)' => retired_channels_' = {},
           At(t, {"resume"})' => closes_' = {},
           accepting_' => /\ \A e \in closes_' : e.generation = generation_'
                          /\ \A k \in retired_channels_' : k.generation = generation_'
    PROVE  CleanupSound'
  <1>1. \A u \in Actors : u # t => ~Cleans(u) /\ ~Paused(u) /\ ~Emptied(u) /\ ~At(u, {"resume"})
    BY CleanerMoves
  <1>2. \A u \in Actors : u # t => ~Cleans(u)' /\ ~Paused(u)' /\ ~Emptied(u)' /\ ~At(u, {"resume"})'
    BY <1>1 DEF Cleans, Paused, Emptied, At, Alone
  <1> QED BY <1>2 DEF CleanupSound

LEMMA PauseStep ==
    ASSUME IInv, NEW t \in Actors, pause(t)
    PROVE  IInv'
  <1>1. /\ At(t, {"pause"}) /\ At(t, Cleaning) /\ Goes(t, "swap")
        /\ accepting_' = FALSE /\ generation_' = generation_ + 1
        /\ UNCHANGED <<lifecycle, registry, record, closes_, payload_capacity_, retired_channels_, epoch>>
    BY DEF pause, At, Cleaning
  <1>2. ~At(t, Shutting) /\ job[t].back = "idle" /\ job[t].records = {} /\ lifecycle.cleaning
    BY <1>1, CleanerMoves DEF At
  <1>3. "swap" \in Places \ Shutting
    BY DEF Places, Cleaning, Shutting, Closing
  <1>4. /\ Alone(t)
        /\ job'[t].at = "swap" /\ job'[t].back = "idle"
    BY <1>1, <1>2, <1>3, Went DEF IInv, TypeInv
  <1>5. ClosesSound'
    BY <1>1, <1>2, <1>3, OtherGoes DEF registry
  <1>6. ~Emptied(t)' /\ ~At(t, {"resume"})'
    BY <1>4 DEF Emptied, At
  <1>7. CleanupSound'
    <2>1. "cleaning" \in DOMAIN lifecycle
      BY DEF IInv, CleanupSound
    <2> QED BY <1>1, <1>2, <1>4, <1>6, <2>1, CleanerStep
  <1>8. RecordTyped' /\ ClosesTyped' /\ BudgetKept' /\ generation_' \in Int
    BY <1>1 DEF IInv, TypeInv, RecordTyped, ClosesTyped, CountersTyped, BudgetKept
  <1> QED BY <1>1, <1>5, <1>7, <1>8, Others

(* The cleanup takes every record; the registry forgets the epoch. *)
LEMMA SwapStep ==
    ASSUME IInv, NEW t \in Threads, Swap(t)
    PROVE  IInv'
  <1> DEFINE j == [job[t] EXCEPT !.at = "sweep", !.records = sockets_]
  <1>1. /\ t \in Actors /\ At(t, {"swap"}) /\ At(t, Cleaning)
        /\ sockets_' = {} /\ closed_handles_' = {} /\ epoch' = epoch + 1
        /\ job' = [job EXCEPT ![t] = j]
        /\ UNCHANGED <<lifecycle, record, manager>>
    BY Zenon DEF Swap, At, Cleaning, Actors
  <1>2. ~At(t, Shutting) /\ job[t].back = "idle" /\ job[t].records = {} /\ lifecycle.cleaning
    BY <1>1, CleanerMoves DEF At
  <1>3. j \in Job /\ j.at = "sweep" /\ j.back = "idle" /\ j.records = sockets_
    <2>1. job[t] \in Job /\ "sweep" \in Places /\ sockets_ \subseteq Handles
      BY <1>1, JobFacts DEF IInv, TypeInv, HandlesTyped, Cleaning
    <2> QED BY <1>2, <2>1, Zenon DEF Job
  <1> HIDE DEF j
  <1>4. /\ JobTyped' /\ job'[t] = j
        /\ Alone(t)
    BY <1>1, <1>3, JobChanged, Zenon DEF IInv, TypeInv
  <1>5. JobSound(t)' /\ ~At(t, {"retire"})
    BY <1>1, <1>2, <1>3, <1>4 DEF JobSound, At, Shutting, Closing
  <1>6. \A r \in Handles : t \in Closers(r)' <=> t \in Closers(r)
    BY <1>2, <1>3, <1>4 DEF Closers, At, Shutting, Closing
  <1>7. \A r \in Handles : Reaches(t, r) => Reaches(t, r)'
    BY <1>1, <1>2 DEF Reaches, At
  <1>8. \A r \in sockets_ : Reaches(t, r)'
    BY <1>3, <1>4 DEF Reaches
  <1>9. ClosesSound'
    BY <1>1, <1>4, <1>5, <1>6, <1>7, <1>8, CloserMoves, Zenon DEF manager
  <1>10. EpochsSound'
    BY <1>1 DEF EpochsSound
  <1>11. CleanupSound'
    <2>1. "cleaning" \in DOMAIN lifecycle /\ ~accepting_
      BY <1>1, Zenon DEF IInv, CleanupSound, Paused, At
    <2>2. ~Emptied(t)' /\ ~At(t, {"resume"})'
      BY <1>3, <1>4 DEF Emptied, At
    <2> QED BY <1>1, <1>2, <1>4, <2>1, <2>2, CleanerStep DEF manager
  <1>12. TypeInv' /\ BudgetKept'
    BY <1>1, <1>4 DEF IInv, TypeInv, RecordTyped, ClosesTyped, CountersTyped, HandlesTyped,
                      BudgetKept, manager
  <1> QED BY <1>9, <1>10, <1>11, <1>12 DEF IInv

(* The channels go first, then the deferred closes; with both gone, the      *)
(* manager may accept again.                                                 *)
LEMMA FinishAllStep ==
    ASSUME IInv, NEW t \in Actors, FinishAllBegin(t) \/ FinishAllEnd(t)
    PROVE  IInv'
  <1>1. /\ At(t, {"sweep", "all"}) /\ At(t, Cleaning) /\ job[t].records = {}
        /\ UNCHANGED <<lifecycle, sockets_, closed_handles_, record, closes_, payload_capacity_,
                       accepting_, generation_, epoch>>
        /\ \E p \in {"all", "resume"} : Goes(t, p) /\ (p = "resume" => closes_ = {})
        /\ retired_channels_' = {}
    <2>1. CASE FinishAllBegin(t)
      BY <2>1, Zenon DEF FinishAllBegin, At, Cleaning, registry
    <2>2. CASE FinishAllEnd(t)
      <3>1. At(t, {"all"}) /\ At(t, Cleaning)
        BY <2>2, Zenon DEF FinishAllEnd, At, Cleaning
      <3>2. job[t].records = {} /\ retired_channels_ = {}
        BY <3>1, CleanerMoves DEF At, IInv, CleanupSound, Emptied
      <3> QED BY <2>2, <3>1, <3>2 DEF FinishAllEnd, At, manager
    <2> QED BY <2>1, <2>2
  <1>2. PICK p \in {"all", "resume"} : Goes(t, p) /\ (p = "resume" => closes_ = {})
    BY <1>1, Zenon
  <1>3. ~At(t, Shutting) /\ job[t].back = "idle" /\ lifecycle.cleaning
    BY <1>1, CleanerMoves, Zenon
  <1>4. p \in Places \ Shutting
    BY DEF Places, Cleaning, Shutting, Closing
  <1>5. /\ Alone(t)
        /\ job'[t].at = p /\ job'[t].back = "idle"
    BY <1>2, <1>3, <1>4, Went DEF IInv, TypeInv
  <1>6. ClosesSound'
    BY <1>1, <1>2, <1>3, <1>4, OtherGoes
  <1>7. CleanupSound'
    <2>1. "cleaning" \in DOMAIN lifecycle /\ ~accepting_
      BY <1>1 DEF IInv, CleanupSound, Paused, At
    <2>2. At(t, {"resume"})' => closes_' = {}
      BY <1>1, <1>2, <1>5, Zenon DEF At
    <2> QED BY <1>1, <1>3, <1>5, <2>1, <2>2, CleanerStep, Zenon
  <1>8. EpochsSound' /\ RecordTyped' /\ ClosesTyped' /\ BudgetKept' /\ CountersTyped' /\ HandlesTyped'
    BY <1>1, Zenon DEF IInv, TypeInv, EpochsSound, RecordTyped, ClosesTyped, CountersTyped, BudgetKept,
                HandlesTyped
  <1> QED BY <1>6, <1>7, <1>8 DEF IInv, TypeInv, ClosesSound

LEMMA ResumeStep ==
    ASSUME IInv, NEW t \in Actors, resume(t)
    PROVE  IInv'
  <1>1. /\ At(t, {"resume"}) /\ At(t, Cleaning) /\ Goes(t, "stopping") /\ accepting_' = TRUE
        /\ UNCHANGED <<lifecycle, registry, record, closes_, payload_capacity_, retired_channels_,
                       generation_, epoch>>
    BY DEF resume, At, Cleaning
  <1>2. ~At(t, Shutting) /\ job[t].back = "idle" /\ job[t].records = {} /\ lifecycle.cleaning
    BY <1>1, CleanerMoves DEF At
  <1>3. "stopping" \in Places \ Shutting
    BY DEF Places, Cleaning, Shutting, Closing
  <1>4. /\ Alone(t)
        /\ job'[t].at = "stopping" /\ job'[t].back = "idle"
    BY <1>1, <1>2, <1>3, Went, Zenon DEF IInv, TypeInv
  <1>5. ClosesSound'
    BY <1>1, <1>2, <1>3, OtherGoes DEF registry
  <1>6. CleanupSound'
    <2>1. "cleaning" \in DOMAIN lifecycle /\ closes_ = {} /\ retired_channels_ = {}
      BY <1>1 DEF IInv, CleanupSound, Emptied, At
    <2>2. ~Paused(t)' /\ ~Emptied(t)' /\ ~At(t, {"resume"})'
      BY <1>4 DEF Paused, Emptied, At
    <2> QED BY <1>1, <1>2, <1>4, <2>1, <2>2, CleanerStep
  <1> QED BY <1>1, <1>5, <1>6, Kept

LEMMA EndStep ==
    ASSUME IInv, NEW t \in Actors, finish_runtime_cleanup(t)
    PROVE  IInv'
  <1>1. /\ At(t, {"stopping"}) /\ At(t, Cleaning) /\ Goes(t, "idle")
        /\ lifecycle' = [lifecycle EXCEPT !.cleaning = FALSE]
        /\ UNCHANGED <<registry, record, manager, epoch>>
    BY DEF finish_runtime_cleanup, At, Cleaning
  <1>2. ~At(t, Shutting) /\ job[t].back = "idle" /\ job[t].records = {}
    BY <1>1, CleanerMoves DEF At
  <1>3. "idle" \in Places \ Shutting
    BY DEF Places, Shutting, Closing
  <1>4. /\ Alone(t)
        /\ job'[t].at = "idle" /\ job'[t].back = "idle"
    BY <1>1, <1>2, <1>3, Went DEF IInv, TypeInv
  <1>5. ClosesSound'
    BY <1>1, <1>2, <1>3, OtherGoes DEF registry, manager
  <1>6. CleanupSound'
    <2>1. "cleaning" \in DOMAIN lifecycle'
      BY <1>1 DEF IInv, CleanupSound
    <2>2. ~Cleans(t)' /\ ~Paused(t)' /\ ~Emptied(t)' /\ ~At(t, {"resume"})'
      BY <1>4 DEF Cleans, Paused, Emptied, At, Cleaning
    <2>3. accepting_' => /\ \A e \in closes_' : e.generation = generation_'
                         /\ \A k \in retired_channels_' : k.generation = generation_'
      BY <1>1 DEF IInv, CleanupSound, manager
    <2> QED BY <1>1, <1>4, <2>1, <2>2, <2>3, CleanerStep
  <1> QED BY <1>1, <1>5, <1>6, Kept DEF manager

-----------------------------------------------------------------------------
LEMMA InitSound == ASSUME Sized, Init PROVE IInv
  <1>1. Idle \in Job /\ Idle.at = "idle" /\ Idle.back = "idle" /\ Idle.records = {}
    <2>1. "idle" \in Places /\ "idle" \in Backs
      BY DEF Places, Backs
    <2>2. NoSocket \in Handles \cup {NoSocket} /\ 0 \in Int /\ {} \in SUBSET Handles
      OBVIOUS
    <2>3. Idle \in Job
      BY <2>1, <2>2, Zenon DEF Idle, Job
    <2> QED BY <2>3, Zenon DEF Idle
  <1>2. JobTyped /\ \A t \in Actors : job[t] = Idle
    BY <1>1 DEF Init, JobTyped
  <1>3. RecordTyped /\ \A s \in Handles : record[s].state = "none"
    BY DEF Init, RecordTyped, Record
  <1>4. IsFiniteSet(closes_) /\ Cardinality(closes_) = 0
    BY FS_EmptySet DEF Init
  <1>5. TypeInv /\ BudgetKept
    BY <1>2, <1>3, <1>4 DEF Init, TypeInv, ClosesTyped, CountersTyped, HandlesTyped, BudgetKept, Sized
  <1>6. JobsSound
    BY <1>1, <1>2 DEF JobsSound, JobSound, At, Shutting, Closing
  <1>7. OneCloser
    BY <1>1, <1>2, <1>3, Zenon DEF Init, OneCloser, Owned, Findable, Closers, Deferred, At, Closing
  <1>8. ClosedIsRetired /\ EpochsSound
    BY DEF Init, ClosedIsRetired, EpochsSound
  <1>9. CleanupSound
    BY <1>1, <1>2 DEF Init, CleanupSound, Cleans, Paused, Emptied, At, Cleaning
  <1> QED BY <1>2, <1>5, <1>6, <1>7, <1>8, <1>9 DEF IInv, ClosesSound

(* Every step of the registry, the manager and the cleanup keeps it. *)
LEMMA NextSound == ASSUME Sized, IInv, [Next]_vars PROVE IInv'
  <1>1. ASSUME NEW t \in Threads, runtime_start(t) PROVE IInv'
    BY <1>1, StartStep DEF Actors
  <1>2. ASSUME NEW t \in Threads, runtime_cleanup(t) PROVE IInv'
    BY <1>2, CleanupStep
  <1>3. ASSUME NEW t \in Threads, NEW s \in Handles, runtime_create_socket(t, s) PROVE IInv'
    <2>1. /\ create(s)
          /\ lifecycle' = [lifecycle EXCEPT !.startup_count = IF @ = 0 THEN 1 ELSE @]
      BY <1>3 DEF runtime_create_socket
    <2>2. "cleaning" \in DOMAIN lifecycle' /\ lifecycle'.cleaning = lifecycle.cleaning
      BY <2>1 DEF IInv, CleanupSound
    <2> QED BY <2>1, <2>2, CreateStep
  <1>4. ASSUME NEW t \in Threads, NEW s \in Handles, NEW broken \in BOOLEAN, close(t, s, broken)
        PROVE  IInv'
    BY <1>4, CloseStep
  <1>5. ASSUME NEW t \in Threads, pause(t) \/ resume(t) \/ finish_runtime_cleanup(t) PROVE IInv'
    BY <1>5, PauseStep, ResumeStep, EndStep DEF Actors
  <1>6. ASSUME NEW t \in Threads, Swap(t) \/ Sweep(t) PROVE IInv'
    BY <1>6, SwapStep, SweepStep
  <1>7. ASSUME NEW t \in Threads, FinishAllBegin(t) \/ FinishAllEnd(t) PROVE IInv'
    BY <1>7, FinishAllStep DEF Actors
  <1>8. ASSUME NEW t \in Threads, finish_all(t) PROVE IInv'
    BY <1>8, FinishesStep DEF finish_all, Actors
  <1>9. ASSUME service PROVE IInv'
    BY <1>9, FinishesStep DEF service, Actors
  <1>10. ASSUME ServiceBegin \/ ServiceEnd PROVE IInv'
    BY <1>10, ServiceStep
  <1>11. ASSUME NEW t \in Actors, Take(t) \/ Dismantle(t) PROVE IInv'
    BY <1>11, TakeStep, DismantleStep
  <1>12. ASSUME NEW t \in Actors, schedule(t) \/ FinishRuntime(t) \/ retain_channel(t) PROVE IInv'
    BY <1>12, ScheduleStep, FinishRuntimeStep, RetainStep
  <1>13. ASSUME NEW t \in Actors, SetClosed(t) \/ retire_closed(t) PROVE IInv'
    BY <1>13, SetClosedStep, RetireStep
  <1>14. ASSUME NEW s \in Handles, Admit(s) PROVE IInv'
    <2>1. create(s) /\ UNCHANGED lifecycle
      BY <1>14 DEF Admit
    <2>2. "cleaning" \in DOMAIN lifecycle
      BY DEF IInv, CleanupSound
    <2> QED BY <2>1, <2>2, CreateStep
  <1>15. ASSUME NEW s \in Handles, Establish(s) \/ Proceed(s) \/ refresh_state(s) PROVE IInv'
    BY <1>15, ProceedStep
  <1>16. CASE UNCHANGED vars
    <2>1. UNCHANGED <<lifecycle, registry, record, manager, job, epoch>>
      BY <1>16 DEF vars
    <2>2. ClosesSound'
      BY <2>1, NobodyMoves DEF registry, manager
    <2>3. CleanupSound'
      BY <2>1, Zenon DEF IInv, CleanupSound, Cleans, Paused, Emptied, At, manager
    <2> QED BY <2>1, <2>2, <2>3, Kept DEF manager
  <1> QED BY <1>1, <1>2, <1>3, <1>4, <1>5, <1>6, <1>7, <1>8, <1>9, <1>10, <1>11, <1>12, <1>13,
             <1>14, <1>15, <1>16, Zenon DEF Next

(* Sockets are closed once and not lost, closed sockets leave the registry,  *)
(* deferred closes keep within their limits, and a generation of the runtime *)
(* leaves nothing to the next one, however threads that close race with      *)
(* srt_cleanup (SocketRegistry, DeferredCloseManager).                       *)
THEOREM LifecycleCorrect == ASSUME Sized PROVE Spec => []LifecycleSound
  <1>1. Init => IInv
    BY InitSound
  <1>2. IInv /\ [Next]_vars => IInv'
    BY NextSound
  <1>3. IInv => LifecycleSound
    BY DEF IInv, ClosesSound, EpochsSound, CleanupSound, LifecycleSound, GenerationsApart
  <1> QED BY <1>1, <1>2, <1>3, PTL DEF Spec

=============================================================================
