--------------------------- MODULE ReceiveLossList ---------------------------
(***************************************************************************)
(* reliability.cpp: the receiver's list of missing sequences.  The list    *)
(* holds sorted, disjoint ranges, each with the state of its NAK: fresh    *)
(* (waiting out the reorder tolerance), pending, or reported at a time.    *)
(* New ranges are admitted up to AdmissionCapacity; the storage is twice   *)
(* as large, so that recovering a packet inside a range can split it.      *)
(* fresh_count and pending_count are kept beside the list, as in the code, *)
(* where they gate age_fresh() and take_pending_reports().                 *)
(***************************************************************************)
EXTENDS SequenceNumber, Sequences, FiniteSets, SequencesExt

CONSTANTS
    Sizes,              \* admission capacities, with the sequences in play
    Base,               \* the first of the sequences in play
    TTLs,               \* initial reorder tolerances
    RetryInterval,      \* retry_interval_microseconds of the periodic NAK
    MaxReports,         \* ranges one NAK can carry
    MaxTime

VARIABLES
    size,               \* of this list, chosen when it is constructed
    entries, fresh_count, pending_count, now

vars == <<size, entries, fresh_count, pending_count, now>>

AdmissionCapacity == size.capacity

Window == {Advanced(Base, d) : d \in 0 .. size.length - 1}
Range_ == UNION {{[first |-> Advanced(Base, i), last |-> Advanced(Base, j)] :
                    j \in i .. size.length - 1} : i \in 0 .. size.length - 1}
Precedes(s, t) == DistanceFrom(s, t) < 0
Covers(r, s) == ~Precedes(s, r.first) /\ ~Precedes(r.last, s)

Pending(e) == e.initial_report_pending \/ e.periodic_report_pending

Entry(r, ttl) ==
    [first |-> r.first, last |-> r.last, ttl |-> ttl, fresh |-> ttl # 0,
     initial_report_pending |-> ttl = 0, periodic_report_pending |-> FALSE,
     reported |-> FALSE, last_report |-> 0]

(* note_added() and note_removed(), summed over n copies of every entry. *)
Weight(P(_), n(_)) ==
    FoldLeft(LAMBDA sum, e : IF P(e) THEN sum + n(e) ELSE sum, 0, entries)

IsFresh(e) == e.fresh

-----------------------------------------------------------------------------
(* Adding losses                                                           *)

(* can_append(): room, and every range after the ranges before it. *)
can_append(ranges) ==
    LET all == entries \o ranges IN
    /\ Len(all) <= AdmissionCapacity
    /\ \A i \in Len(entries) + 1 .. Len(all) : i > 1 => Precedes(all[i - 1].last, all[i].first)

add_all(ranges, ttl) ==
    /\ can_append(ranges)
    /\ entries' = entries \o [i \in DOMAIN ranges |-> Entry(ranges[i], ttl)]
    /\ fresh_count' = fresh_count + IF ttl # 0 THEN Len(ranges) ELSE 0
    /\ pending_count' = pending_count + IF ttl = 0 THEN Len(ranges) ELSE 0

(* Mutant: the entry before the insertion point is not compared. *)
CanInsertFollowingOnly(r) ==
    \A i \in DOMAIN entries :
        ~Precedes(entries[i].first, r.first) => Precedes(r.last, entries[i].first)

(* insert_sorted() stores a range that overlaps no entry; one that an entry  *)
(* covers is already known, any other is refused.                            *)
CanInsert(r) ==
    \A i \in DOMAIN entries :
        Precedes(entries[i].last, r.first) \/ Precedes(r.last, entries[i].first)

insert_sorted(r, ttl) ==
    LET at == Cardinality({i \in DOMAIN entries : Precedes(entries[i].first, r.first)})
    IN  /\ CanInsert(r)
        /\ Len(entries) < AdmissionCapacity
        /\ entries' = InsertAt(entries, at + 1, Entry(r, ttl))
        /\ fresh_count' = fresh_count + IF ttl # 0 THEN 1 ELSE 0
        /\ pending_count' = pending_count + IF ttl = 0 THEN 1 ELSE 0

-----------------------------------------------------------------------------
(* Removing recovered or abandoned sequences                               *)

(* What is left of an entry when the range r is taken out of it. *)
Pieces(e, r) ==
    IF Precedes(r.last, e.first) \/ Precedes(e.last, r.first) THEN <<e>>
    ELSE (IF Precedes(e.first, r.first) THEN <<[e EXCEPT !.last = PrevSeq(r.first)]>> ELSE <<>>)
         \o (IF Precedes(r.last, e.last) THEN <<[e EXCEPT !.first = NextSeq(r.last)]>> ELSE <<>>)

(* Mutant: the upper half of a split is not counted. *)
GrowthUncounted(e, r) == IF Len(Pieces(e, r)) = 0 THEN -1 ELSE 0

(* note_added() for the upper half of a split, note_removed() on erasure. *)
Growth(e, r) == Len(Pieces(e, r)) - 1

(* remove(), remove_range(): a split needs a spare entry. *)
remove_range(r) ==
    LET left == FlattenSeq([i \in DOMAIN entries |-> Pieces(entries[i], r)]) IN
    /\ Len(left) <= 2 * AdmissionCapacity
    /\ entries' = left
    /\ fresh_count' = fresh_count + Weight(IsFresh, LAMBDA e : Growth(e, r))
    /\ pending_count' = pending_count + Weight(Pending, LAMBDA e : Growth(e, r))

remove(s) == remove_range([first |-> s, last |-> s])

remove_through(last) ==
    /\ entries # <<>>
    /\ ~Precedes(last, Head(entries).first)
    /\ remove_range([first |-> Head(entries).first, last |-> last])

-----------------------------------------------------------------------------
(* Reporting                                                               *)

(* The entries for which P holds become Op of themselves. *)
Update(P(_), Op(_)) ==
    entries' = [i \in DOMAIN entries |-> IF P(entries[i]) THEN Op(entries[i]) ELSE entries[i]]

NewlyPending(P(_)) == Weight(LAMBDA e : P(e) /\ ~Pending(e), LAMBDA e : 1)

(* rearm_report(): a repair may have been lost; report the range again. *)
rearm_report(r) ==
    LET touched(e) == ~e.fresh /\ ~Precedes(e.last, r.first) /\ ~Precedes(r.last, e.first)
    IN  /\ Update(touched, LAMBDA e : [e EXCEPT !.initial_report_pending = TRUE,
                                               !.reported = FALSE])
        /\ pending_count' = pending_count + NewlyPending(touched)
        /\ UNCHANGED fresh_count

(* age_fresh(): one more packet arrived; a tolerance that is used up turns   *)
(* the loss into a report.                                                   *)
age_fresh ==
    LET over(e) == e.fresh /\ e.ttl = 0 IN
    /\ fresh_count # 0
    /\ Update(IsFresh, LAMBDA e :
           IF e.ttl = 0 THEN [e EXCEPT !.fresh = FALSE, !.initial_report_pending = TRUE]
           ELSE [e EXCEPT !.ttl = @ - 1])
    /\ fresh_count' = fresh_count - Weight(over, LAMBDA e : 1)
    /\ pending_count' = pending_count + NewlyPending(over)

(* Mutant: a loss that was never reported waits for the interval too. *)
IsDueAfterInterval(e) == ~e.fresh /\ e.reported /\ now - e.last_report >= RetryInterval

IsDue(e) == ~e.fresh /\ (e.reported => now - e.last_report >= RetryInterval)

mark_periodic_reports ==
    /\ Update(IsDue, LAMBDA e : [e EXCEPT !.periodic_report_pending = TRUE])
    /\ pending_count' = pending_count + NewlyPending(IsDue)
    /\ UNCHANGED fresh_count

(* take_pending_reports(): the first n pending ranges go into one NAK. *)
take_pending_reports(n) ==
    LET before(i) == Cardinality({j \in 1 .. i : Pending(entries[j])})
        taken == {i \in DOMAIN entries : Pending(entries[i]) /\ before(i) <= n}
    IN  /\ pending_count # 0
        /\ entries' = [i \in DOMAIN entries |->
               IF i \notin taken THEN entries[i]
               ELSE [entries[i] EXCEPT !.initial_report_pending = FALSE,
                                       !.periodic_report_pending = FALSE,
                                       !.reported = TRUE, !.last_report = now]]
        /\ pending_count' = pending_count - Cardinality(taken)
        /\ UNCHANGED fresh_count

-----------------------------------------------------------------------------
Init == size \in Sizes /\ entries = <<>> /\ fresh_count = 0 /\ pending_count = 0 /\ now = 0

Step ==
    \/ \E r \in Range_, ttl \in TTLs : add_all(<<r>>, ttl)
    \/ \E r, q \in Range_ : /\ Precedes(r.last, q.first)
                           /\ \E ttl \in TTLs : add_all(<<r, q>>, ttl)
    \/ \E r \in Range_, ttl \in TTLs : insert_sorted(r, ttl)
    \/ \E s \in Window : remove(s)
    \/ \E r \in Range_ : remove_range(r)
    \/ \E s \in Window : remove_through(s)
    \/ \E r \in Range_ : rearm_report(r)
    \/ age_fresh
    \/ mark_periodic_reports
    \/ \E n \in 1 .. MaxReports : take_pending_reports(n)

Tick == now < MaxTime /\ now' = now + 1 /\ UNCHANGED <<entries, fresh_count, pending_count>>

Next == ((Step /\ UNCHANGED now) \/ Tick) /\ UNCHANGED size

Spec == Init /\ [][Next]_vars

-----------------------------------------------------------------------------
(* The ranges stay sorted, disjoint and within the storage: the binary       *)
(* search of lower_bound() and the early exits of the loops rely on it.      *)
Canonical ==
    /\ Len(entries) <= 2 * AdmissionCapacity
    /\ \A i \in DOMAIN entries :
          /\ entries[i] \in [first : Window, last : Window, ttl : Nat, fresh : BOOLEAN,
                             initial_report_pending : BOOLEAN,
                             periodic_report_pending : BOOLEAN,
                             reported : BOOLEAN, last_report : 0 .. MaxTime]
          /\ ~Precedes(entries[i].last, entries[i].first)
          /\ i > 1 => Precedes(entries[i - 1].last, entries[i].first)

(* The counters that let age_fresh() and take_pending_reports() return early *)
(* agree with the list, and no loss falls between the states: it waits out   *)
(* its tolerance, waits for a NAK, or was reported and can be due again.     *)
NoLossForgotten ==
    /\ fresh_count = Cardinality({i \in DOMAIN entries : entries[i].fresh})
    /\ pending_count = Cardinality({i \in DOMAIN entries : Pending(entries[i])})
    /\ \A i \in DOMAIN entries : LET e == entries[i] IN
          IF e.fresh THEN ~Pending(e) ELSE Pending(e) \/ e.reported

EntryOf(s) == CHOOSE i \in DOMAIN entries : Covers(entries[i], s)

(* Operating on ranges gives every missing packet the treatment it would get *)
(* on its own: trimming and splitting never lose, invent or re-time a loss.  *)
PerPacket == INSTANCE LossMap WITH
    loss <- [s \in {t \in Window : \E i \in DOMAIN entries : Covers(entries[i], t)} |->
                LET e == entries[EntryOf(s)] IN
                [ttl |-> e.ttl, fresh |-> e.fresh,
                 initial_report_pending |-> e.initial_report_pending,
                 periodic_report_pending |-> e.periodic_report_pending,
                 reported |-> e.reported, last_report |-> e.last_report]]

ImplementsLossMap == PerPacket!Spec
=============================================================================
