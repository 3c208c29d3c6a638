---------------------------- MODULE RangeDropSet ----------------------------
(***************************************************************************)
(* What the queue of sequence-only DROPREQ replies promises its users: the *)
(* set of sequences whose reply is still owed.  A batch of NAK ranges adds *)
(* its exact coverage or nothing, an emission removes exactly the          *)
(* sequences it names, and names at least one.                             *)
(***************************************************************************)
EXTENDS SequenceNumber, Sequences

CONSTANTS MaxTerms, Batches

VARIABLES
  owed,    \* sequences to be reported as dropped
  emitted  \* the range handed out by the last call, if any

(* The sequences an inclusive wire range names, walking forward from first. *)
Covered(range) ==
  {Advanced(range.first, d) : d \in 0 .. DistanceFrom(range.last, range.first)}

(* The ranges the wire can express without ambiguity. *)
Unambiguous(range) == DistanceFrom(range.last, range.first) >= 0

Init == owed = {} /\ emitted = <<>>

Admit ==
  /\ emitted' = <<>>
  /\ \E batch \in Batches :
        /\ Len(batch) <= MaxTerms
        /\ \A i \in DOMAIN batch : Unambiguous(batch[i])
        /\ owed' = owed \cup UNION {Covered(batch[i]) : i \in DOMAIN batch}

Refuse == emitted' = <<>> /\ UNCHANGED owed

Emit ==
  \E range \in [first : owed, last : owed] :
    /\ emitted' = <<range>>
    /\ Unambiguous(range)
    /\ Covered(range) \subseteq owed
    /\ owed' = owed \ Covered(range)

Spec == Init /\ [][Refuse \/ Admit \/ Emit]_<<owed, emitted>>
=============================================================================
