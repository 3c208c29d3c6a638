------------------------------- MODULE LossMap -------------------------------
(***************************************************************************)
(* What the receiver loss list promises, packet by packet: every missing   *)
(* sequence carries its own report state, whatever ranges the list happens *)
(* to keep it in.  A report and a rearm may cover neighbours of the        *)
(* sequences they are about, never sequences that are not missing.         *)
(***************************************************************************)
EXTENDS Integers

CONSTANTS TTLs, RetryInterval

VARIABLES
    loss,   \* from the missing sequences to their report state
    now

lost == DOMAIN loss

Pending(e) == e.initial_report_pending \/ e.periodic_report_pending

Fresh(ttl) ==
    [ttl |-> ttl, fresh |-> ttl # 0, initial_report_pending |-> ttl = 0,
     periodic_report_pending |-> FALSE, reported |-> FALSE, last_report |-> 0]

Aged(e) ==
    IF e.ttl = 0 THEN [e EXCEPT !.fresh = FALSE, !.initial_report_pending = TRUE]
    ELSE [e EXCEPT !.ttl = @ - 1]

Rearmed(e) == [e EXCEPT !.initial_report_pending = TRUE, !.reported = FALSE]

Marked(e) == [e EXCEPT !.periodic_report_pending = TRUE]

Reported(e) ==
    [e EXCEPT !.initial_report_pending = FALSE, !.periodic_report_pending = FALSE,
              !.reported = TRUE, !.last_report = now]

Due(e) == ~e.fresh /\ (e.reported => now - e.last_report >= RetryInterval)

(* Exactly the losses that satisfy P change, to Op of themselves. *)
All(P(_), Op(_)) == loss' = [s \in lost |-> IF P(loss[s]) THEN Op(loss[s]) ELSE loss[s]]

(* Some of the losses that satisfy P change, to Op of themselves. *)
Some(P(_), Op(_)) ==
    /\ DOMAIN loss' = lost
    /\ \A s \in lost : loss'[s] = loss[s] \/ (P(loss[s]) /\ loss'[s] = Op(loss[s]))

Add ==
    /\ \A s \in lost : s \in DOMAIN loss' /\ loss'[s] = loss[s]
    /\ \E ttl \in TTLs : \A s \in DOMAIN loss' \ lost : loss'[s] = Fresh(ttl)

Remove == DOMAIN loss' \subseteq lost /\ \A s \in DOMAIN loss' : loss'[s] = loss[s]

Rearm == Some(LAMBDA e : ~e.fresh, Rearmed)

Age == All(LAMBDA e : e.fresh, Aged)

Mark == All(Due, Marked)

Report == Some(Pending, Reported)

Init == loss = << >> /\ now = 0

Next ==
    \/ (Add \/ Remove \/ Rearm \/ Age \/ Mark \/ Report) /\ UNCHANGED now
    \/ now' = now + 1 /\ UNCHANGED loss

Spec == Init /\ [][Next]_<<loss, now>>
=============================================================================
