--------------------------- MODULE ChannelCredits ---------------------------
(***************************************************************************)
(* ChannelCredits: the datagrams a channel may send in a round, lent in    *)
(* parts to the connections that have a turn.  A lease is worth attempts   *)
(* and the bytes of that many largest datagrams; what its owner does not   *)
(* use returns to the round.  The serial number of a lease is never given  *)
(* again, so a lease that is over is refused, and the actions are those of *)
(* current leases.                                                         *)
(***************************************************************************)
EXTENDS Integers, FiniteSets, FiniteSetsExt

CONSTANTS
    attempts_per_round,
    bytes_per_round,
    maximum_bytes,      \* the largest datagram
    Quota,              \* attempts of a full lease
    Owners,             \* the connections that ask
    Entries,            \* how many leases there may be
    maximum_counter     \* the largest serial or generation

VARIABLES
    entries_, snapshot_, generation_, serial_, stopped_

vars == <<entries_, snapshot_, generation_, serial_, stopped_>>

NoOwner == 0
Places == 1 .. Entries
Free == [owner |-> NoOwner, attempts |-> 0, bytes |-> 0]
Snapshot == [active |-> 0, attempts |-> 0, bytes |-> 0,
             available_attempts |-> attempts_per_round, available_bytes |-> bytes_per_round]

Init ==
    /\ entries_ = [i \in Places |-> Free]
    /\ snapshot_ = Snapshot
    /\ generation_ = 1 /\ serial_ = 0 /\ stopped_ = FALSE

(* What a new lease is worth. *)
Attempts == IF Quota < snapshot_.available_attempts THEN Quota ELSE snapshot_.available_attempts
BytesOfOne(attempts) == maximum_bytes
Bytes(attempts) == attempts * maximum_bytes

grant(owner) ==
    LET attempts == Attempts
        bytes == Bytes(attempts)
    IN
    /\ ~stopped_ /\ serial_ < maximum_counter /\ snapshot_.available_attempts > 0
    /\ \A i \in Places : entries_[i].owner # owner
    /\ bytes <= snapshot_.available_bytes
    /\ \E i \in Places :
         /\ entries_[i].owner = NoOwner /\ \A j \in 1 .. i - 1 : entries_[j].owner # NoOwner
         /\ entries_' = [entries_ EXCEPT ![i] = [owner |-> owner, attempts |-> attempts, bytes |-> bytes]]
    /\ snapshot_' = [snapshot_ EXCEPT !.available_attempts = @ - attempts,
                                      !.available_bytes = @ - bytes, !.active = @ + 1]
    /\ serial_' = serial_ + 1
    /\ UNCHANGED <<generation_, stopped_>>

attempt(i, bytes) ==
    /\ ~stopped_ /\ entries_[i].owner # NoOwner
    /\ entries_[i].attempts > 0 /\ bytes <= entries_[i].bytes
    /\ entries_' = [entries_ EXCEPT ![i].attempts = @ - 1, ![i].bytes = @ - bytes]
    /\ snapshot_' = [snapshot_ EXCEPT !.attempts = @ + 1, !.bytes = @ + bytes]
    /\ UNCHANGED <<generation_, serial_, stopped_>>

(* The entry that is returned to the round. *)
ReturnedUnused(i) == [entries_[i] EXCEPT !.bytes = Bytes(entries_[i].attempts)]
Returned(i) == entries_[i]

release(i) ==
    /\ entries_[i].owner # NoOwner
    /\ snapshot_' = [snapshot_ EXCEPT !.available_attempts = @ + Returned(i).attempts,
                                      !.available_bytes = @ + Returned(i).bytes, !.active = @ - 1]
    /\ entries_' = [entries_ EXCEPT ![i] = Free]
    /\ UNCHANGED <<generation_, serial_, stopped_>>

next_round ==
    /\ ~stopped_ /\ snapshot_.active = 0 /\ generation_ < maximum_counter
    /\ generation_' = generation_ + 1
    /\ snapshot_' = Snapshot
    /\ UNCHANGED <<entries_, serial_, stopped_>>

stop ==
    /\ stopped_' = TRUE
    /\ entries_' = [i \in Places |-> Free]
    /\ snapshot_' = [snapshot_ EXCEPT !.active = 0]
    /\ generation_' = IF generation_ = maximum_counter THEN generation_ ELSE generation_ + 1
    /\ UNCHANGED serial_

Next ==
    \/ \E owner \in Owners : grant(owner)
    \/ \E i \in Places : release(i) \/ \E bytes \in 1 .. maximum_bytes : attempt(i, bytes)
    \/ next_round \/ stop

Spec == Init /\ [][Next]_vars

-----------------------------------------------------------------------------
(* Until the channel stops, what is lent, what is used and what is left are  *)
(* what the round allows, so no order of grants, attempts and releases lets  *)
(* a round send more; and a lease with an attempt left has the bytes of a    *)
(* largest datagram for it, so the bytes never refuse what the attempts      *)
(* allow.                                                                    *)
CreditsSound ==
    ~stopped_ =>
      /\ snapshot_.available_attempts + snapshot_.attempts
           + MapThenSumSet(LAMBDA i : entries_[i].attempts, Places) = attempts_per_round
      /\ snapshot_.available_bytes + snapshot_.bytes
           + MapThenSumSet(LAMBDA i : entries_[i].bytes, Places) = bytes_per_round
      /\ snapshot_.active = Cardinality({i \in Places : entries_[i].owner # NoOwner})
      /\ \A i \in Places : entries_[i].bytes >= entries_[i].attempts * maximum_bytes
      /\ snapshot_.available_bytes >= snapshot_.available_attempts * maximum_bytes

=============================================================================
