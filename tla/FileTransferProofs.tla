------------------------ MODULE FileTransferProofs ------------------------
(***************************************************************************)
(* Theorems about FileTransfer for every transfer, receive capacity and    *)
(* network: no DATA arrives beyond the receive window, nothing is released *)
(* that the receiver does not hold, and no feedback is refused.            *)
(***************************************************************************)
EXTENDS FileTransfer, FiniteSetTheorems, WellFoundedInduction, TLAPS

(* The positions of both ends in the order the feedback loop keeps them. *)
Ordered ==
    /\ read <= next_ack /\ next_ack <= highest /\ highest <= next
    /\ first <= next_ack
    /\ next <= read + ReceiveCapacity

(* What is stored past next_ack has been received. *)
EarlyReceived == \A t \in early : next_ack < t /\ t < highest

(* What is on its way to the receiver, or selected for it, has been sent. *)
DataSent == \A s \in data \cup selected : s < next

(* An ACK in flight promises no more than the reader has freed, however old  *)
(* it is: the promise only becomes weaker as the application reads.          *)
AcksKept ==
    \A a \in acks : /\ a.next_sequence <= next_ack
                    /\ a.next_sequence + a.available <= read + ReceiveCapacity

NaksSent == \A n \in naks : n.first <= n.last /\ n.last < next

WindowKept == first + flow_window <= read + ReceiveCapacity

IInv ==
    TypeOK /\ Ordered /\ EarlyReceived /\ DataSent /\ AcksKept /\ NaksSent /\ WindowKept

(* Every nonempty set of naturals has a least element. *)
LEMMA LeastElement ==
    ASSUME NEW S \in SUBSET Nat, S # {}
    PROVE  \E m \in S : \A n \in S : m <= n
<1> DEFINE R == {ss \in Nat \X Nat : ss[1] < ss[2]}
<1>1. IsWellFoundedOn(R, Nat)
  BY NatLessThanWellFounded, Zenon DEF OpToRel
<1>2. PICK m \in S : \A n \in S : ~ (<<n, m>> \in R)
  BY <1>1, WFMin, Zenon
<1>3. ASSUME NEW n \in S, n < m PROVE FALSE
  BY <1>2, <1>3
<1> QED
  BY <1>3

(* advance_acknowledgement() stops at a packet that is not stored, and       *)
(* passes stored packets only.                                               *)
LEMMA AckPastStops ==
    ASSUME Total \in Nat, NEW stored \in SUBSET Packet, NEW s \in 0 .. Total
    PROVE  /\ AckPast(stored, s) \in s .. Total
           /\ AckPast(stored, s) \notin stored
           /\ \A t \in s .. AckPast(stored, s) - 1 : t \in stored
<1> DEFINE missing == {n \in s .. Total : n \notin stored}
<1>1. Total \in missing
  BY DEF Packet
<1>2. missing \in SUBSET Nat /\ missing # {}
  BY <1>1
<1>3. PICK m \in missing : \A n \in missing : m <= n
  BY <1>2, LeastElement
<1>4. \A t \in s .. m - 1 : t \in stored
  BY <1>3
<1> QED
  BY <1>3, <1>4 DEF AckPast

(* The advertised space is what the packets held leave of the capacity. *)
LEMMA AvailableBounded ==
    ASSUME IInv
    PROVE  /\ available \in 0 .. ReceiveCapacity
           /\ next_ack + available <= read + ReceiveCapacity
<1> DEFINE later == next_ack + 1 .. read + ReceiveCapacity - 1
<1> USE TransferAssumption
<1>1. early \in SUBSET later
  BY DEF IInv, TypeOK, Ordered, EarlyReceived, Packet
<1>2. /\ next_ack \in Int /\ read \in Int
      /\ read <= next_ack /\ next_ack <= read + ReceiveCapacity
  BY DEF IInv, TypeOK, Ordered
<1>3. /\ IsFiniteSet(later)
      /\ Cardinality(later) = IF next_ack + 1 > read + ReceiveCapacity - 1 THEN 0
                              ELSE read + ReceiveCapacity - 1 - (next_ack + 1) + 1
  BY <1>2, FS_Interval
<1>4. IsFiniteSet(early) /\ Cardinality(early) <= Cardinality(later)
  BY <1>1, <1>3, FS_Subset
<1>5. Cardinality(early) \in Nat
  BY <1>4, FS_CardinalityType
<1> HIDE DEF later
<1> QED
  BY <1>2, <1>3, <1>4, <1>5 DEF available

(* Every initial state satisfies the invariant. *)
LEMMA InitIInv == Init => IInv
<1> SUFFICES ASSUME Init PROVE IInv
  OBVIOUS
<1> USE TransferAssumption
<1>1. TypeOK
  <2>1. /\ first \in 0 .. Total /\ next \in 0 .. Total /\ read \in 0 .. Total
        /\ next_ack \in 0 .. Total /\ highest \in 0 .. Total
        /\ flow_window \in 0 .. ReceiveCapacity /\ until_lite \in 0 .. LiteInterval
    BY DEF Init
  <2>2. /\ selected \subseteq Packet /\ early \subseteq Packet /\ data \subseteq Packet
        /\ acks \subseteq Ack /\ naks \subseteq Nak /\ acknowledgement_dirty \in BOOLEAN
    BY Zenon DEF Init
  <2> QED
    BY <2>1, <2>2 DEF TypeOK
<1>2. Ordered /\ WindowKept
  BY DEF Init, Ordered, WindowKept
<1>3. EarlyReceived /\ DataSent /\ AcksKept /\ NaksSent
  BY DEF Init, EarlyReceived, DataSent, AcksKept, NaksSent
<1> QED
  BY <1>1, <1>2, <1>3 DEF IInv

(* Each action of the sender, the receiver and the network preserves it. *)
LEMMA NextIInv == IInv /\ [Next]_vars => IInv'
<1> SUFFICES ASSUME IInv, [Next]_vars PROVE IInv'
  OBVIOUS
<1> USE TransferAssumption
<1>0. /\ first \in 0 .. Total /\ next \in 0 .. Total /\ flow_window \in 0 .. ReceiveCapacity
      /\ read \in 0 .. Total /\ next_ack \in 0 .. Total /\ highest \in 0 .. Total
      /\ until_lite \in 0 .. LiteInterval
      /\ \A s \in data \cup selected \cup early : s \in Int
      /\ \A a \in acks : a.next_sequence \in 0 .. Total /\ a.available \in 0 .. ReceiveCapacity
      /\ \A n \in naks : n.first \in Int /\ n.last \in Int
  BY DEF IInv, TypeOK, Packet, Ack, Nak
<1>1. CASE SendOriginal
  <2> USE <1>1 DEF SendOriginal
  <2>1. TypeOK'
    BY <1>0 DEF IInv, TypeOK, Packet, receiver
  <2>2. Ordered' /\ WindowKept'
    BY <1>0 DEF IInv, Ordered, WindowKept, receiver
  <2>3. DataSent' /\ NaksSent' /\ EarlyReceived' /\ AcksKept'
    BY <1>0 DEF IInv, DataSent, NaksSent, EarlyReceived, AcksKept, receiver
  <2> QED
    BY <2>1, <2>2, <2>3 DEF IInv
<1>2. ASSUME NEW s \in selected, Retransmit(s) PROVE IInv'
  BY <1>2 DEF Retransmit, IInv, TypeOK, Ordered, EarlyReceived, DataSent, AcksKept, NaksSent,
     WindowKept, receiver
<1>3. CASE RetransmissionTimeout
  <2> USE <1>3 DEF RetransmissionTimeout
  <2>1. TypeOK'
    BY <1>0 DEF IInv, TypeOK, Packet, receiver
  <2>2. DataSent'
    BY <1>0 DEF IInv, DataSent
  <2> QED
    BY <2>1, <2>2 DEF IInv, Ordered, EarlyReceived, AcksKept, NaksSent, WindowKept, receiver
<1>4. ASSUME NEW s \in data, ReceiveData(s) PROVE IInv'
  <2> DEFINE stored == IF s < next_ack THEN early ELSE early \cup {s}
  <2>1. /\ next_ack' = AckPast(stored, next_ack)
        /\ early' = {t \in stored : t > next_ack'}
        /\ highest' = Greater(highest, s + 1)
        /\ naks' = naks \cup GapBefore(s)
        /\ data' \subseteq data
        /\ acknowledgement_dirty' = TRUE
        /\ until_lite' = Greater(until_lite - 1, 0)
        /\ UNCHANGED <<sender, read, acks>>
    BY <1>4 DEF ReceiveData, Taken
  <2>2. stored \in SUBSET Packet /\ s \in Packet /\ s < next
    BY DEF IInv, TypeOK, DataSent
  <2>3. highest' \in 0 .. Total /\ highest <= highest' /\ s < highest' /\ highest' <= next
    BY <1>0, <2>1, <2>2 DEF IInv, Ordered, Greater, Packet
  <2>4. \A t \in stored : t \in Int /\ t < highest'
    BY <1>0, <2>2, <2>3 DEF IInv, EarlyReceived, Packet
  <2> HIDE DEF stored
  <2>5. /\ next_ack' \in next_ack .. Total
        /\ next_ack' \notin stored
        /\ \A t \in next_ack .. next_ack' - 1 : t \in stored
    BY <1>0, <2>1, <2>2, AckPastStops
  <2>6. next_ack' <= highest'
    <3>1. CASE next_ack' = next_ack
      BY <1>0, <2>3, <3>1 DEF IInv, Ordered
    <3>2. CASE next_ack' > next_ack
      <4>0. \A m, n \in Int : n > m => n - 1 \in m .. n - 1
        OBVIOUS
      <4>1. next_ack \in Int /\ next_ack' \in Int
        BY <1>0, <2>5
      <4>2. next_ack' - 1 \in next_ack .. next_ack' - 1
        BY <3>2, <4>0, <4>1, Zenon
      <4>3. next_ack' - 1 \in stored
        BY <2>5, <4>2, Zenon
      <4> QED
        BY <1>0, <2>3, <2>4, <2>5, <4>3
    <3> QED
      BY <1>0, <2>5, <3>1, <3>2
  <2>7. GapBefore(s) \subseteq Nak /\ \A n \in GapBefore(s) : n.first <= n.last /\ n.last < next
    BY <1>0, <2>2 DEF GapBefore, Nak, Packet
  <2>8. TypeOK'
    <3>1. early' \subseteq Packet /\ data' \subseteq Packet /\ naks' \subseteq Nak
      BY <2>1, <2>2, <2>7 DEF IInv, TypeOK
    <3>2. until_lite' \in 0 .. LiteInterval
      BY <1>0, <2>1 DEF Greater
    <3> QED
      BY <1>0, <2>1, <2>3, <2>5, <3>1, <3>2 DEF IInv, TypeOK, sender
  <2>9. Ordered' /\ WindowKept'
    BY <1>0, <2>1, <2>3, <2>5, <2>6 DEF IInv, Ordered, WindowKept, sender
  <2>10. EarlyReceived'
    BY <2>1, <2>4 DEF EarlyReceived
  <2>11. DataSent' /\ NaksSent'
    BY <2>1, <2>7 DEF IInv, DataSent, NaksSent, sender
  <2>12. AcksKept'
    BY <1>0, <2>1, <2>5 DEF IInv, AcksKept
  <2> QED
    BY <2>8, <2>9, <2>10, <2>11, <2>12 DEF IInv
<1>5. ASSUME NEW a \in acks, ReceiveAck(a) PROVE IInv'
  <2>1. a.next_sequence <= next_ack /\ a.next_sequence <= next
        /\ a.next_sequence + a.available <= read + ReceiveCapacity
    BY <1>0 DEF IInv, AcksKept, Ordered
  <2>2. /\ acks' \subseteq acks
        /\ first' = Greater(first, a.next_sequence)
        /\ selected' \subseteq selected
        /\ flow_window' = WindowAfter(a)
        /\ UNCHANGED <<next, receiver, data, naks>>
    BY <1>0, <1>5, <2>1 DEF ReceiveAck, Taken
  <2>3. first' \in 0 .. Total /\ first' <= next_ack
    BY <1>0, <2>1, <2>2 DEF IInv, Ordered, Greater
  <2>4. /\ flow_window' \in 0 .. ReceiveCapacity
        /\ first' + flow_window' <= read + ReceiveCapacity
    BY <1>0, <2>1, <2>2 DEF IInv, Ordered, WindowKept, WindowAfter, Lesser, Greater
  <2>5. TypeOK'
    BY <1>0, <2>2, <2>3, <2>4 DEF IInv, TypeOK, receiver
  <2>6. Ordered' /\ WindowKept' /\ EarlyReceived'
    BY <2>2, <2>3, <2>4 DEF IInv, Ordered, WindowKept, EarlyReceived, receiver
  <2>7. DataSent' /\ AcksKept' /\ NaksSent'
    BY <2>2 DEF IInv, DataSent, AcksKept, NaksSent, receiver
  <2> QED
    BY <2>5, <2>6, <2>7 DEF IInv
<1>6. ASSUME NEW n \in naks, ReceiveNak(n) PROVE IInv'
  <2>1. /\ naks' \subseteq naks
        /\ UNCHANGED <<first, next, flow_window, receiver, data, acks>>
    BY <1>6 DEF ReceiveNak, Taken
  <2>2. selected' \subseteq Packet /\ \A s \in selected' : s < next
    <3> DEFINE named == {s \in n.first .. n.last : s >= first}
    <3>1. n \in Nak /\ n.last < next
      BY DEF IInv, TypeOK, NaksSent
    <3>2. named \subseteq Packet /\ \A s \in named : s < next
      BY <1>0, <3>1 DEF Nak, Packet
    <3>3. selected' = selected \/ selected' = selected \cup named
      BY <1>6 DEF ReceiveNak
    <3> QED
      BY <3>2, <3>3 DEF IInv, TypeOK, DataSent
  <2>3. TypeOK'
    BY <2>1, <2>2 DEF IInv, TypeOK, receiver
  <2> QED
    BY <2>1, <2>2, <2>3 DEF IInv, Ordered, EarlyReceived, DataSent, AcksKept, NaksSent,
       WindowKept, receiver
<1>7. CASE Read
  <2> USE <1>7 DEF Read
  <2>1. TypeOK'
    BY <1>0 DEF IInv, TypeOK, sender
  <2>2. Ordered' /\ WindowKept' /\ AcksKept'
    BY <1>0 DEF IInv, Ordered, WindowKept, AcksKept, sender
  <2> QED
    BY <2>1, <2>2 DEF IInv, EarlyReceived, DataSent, NaksSent, sender
<1>8. ASSUME NEW kind \in {"full", "lite"}, acks' = acks \cup {Acknowledgement(kind)},
             acknowledgement_dirty' \in BOOLEAN, until_lite' \in 0 .. LiteInterval,
             UNCHANGED <<sender, read, next_ack, early, highest, data, naks>>
      PROVE  IInv'
  <2> DEFINE b == Acknowledgement(kind)
  <2>1. b \in Ack /\ b.next_sequence = next_ack
        /\ b.next_sequence + b.available <= read + ReceiveCapacity
    BY <1>0, AvailableBounded DEF Acknowledgement, Ack
  <2> HIDE DEF b
  <2>2. acks' = acks \cup {b}
    BY <1>8 DEF b
  <2>3. TypeOK'
    BY <1>8, <2>1, <2>2 DEF IInv, TypeOK, sender
  <2>4. AcksKept'
    BY <1>0, <1>8, <2>1, <2>2 DEF IInv, AcksKept
  <2> QED
    BY <1>8, <2>3, <2>4 DEF IInv, Ordered, EarlyReceived, DataSent, NaksSent, WindowKept, sender
<1>9. CASE FullAcknowledgement
  <2>1. until_lite' \in 0 .. LiteInterval
    BY <1>9 DEF FullAcknowledgement
  <2>2. /\ acks' = acks \cup {Acknowledgement("full")} /\ acknowledgement_dirty' \in BOOLEAN
        /\ UNCHANGED <<sender, read, next_ack, early, highest, data, naks>>
    BY <1>9 DEF FullAcknowledgement
  <2> QED
    BY <1>8, <2>1, <2>2, Zenon
<1>10. CASE LiteAcknowledgement
  BY <1>8, <1>10 DEF LiteAcknowledgement, IInv, TypeOK
<1>11. CASE Lose
  <2>1. data' \subseteq data /\ acks' \subseteq acks /\ naks' \subseteq naks
        /\ UNCHANGED <<sender, receiver>>
    BY <1>11 DEF Lose
  <2> QED
    BY <2>1 DEF IInv, TypeOK, Ordered, EarlyReceived, DataSent, AcksKept, NaksSent,
       WindowKept, sender, receiver
<1>12. CASE UNCHANGED vars
  BY <1>12 DEF IInv, TypeOK, Ordered, EarlyReceived, DataSent, AcksKept, NaksSent, WindowKept,
     vars, sender, receiver
<1> QED
  BY <1>1, <1>2, <1>3, <1>4, <1>5, <1>6, <1>7, <1>9, <1>10, <1>11, <1>12 DEF Next, Done

(* The invariant, on which the theorems below rest, holds throughout. *)
LEMMA Invariant == Spec => []IInv
BY InitIInv, NextIInv, PTL DEF Spec

(* Every state of a transfer is well-formed; in particular the advertised    *)
(* space and the flow window never become negative.                          *)
THEOREM TransferTyped == Spec => []TypeOK
<1>1. IInv => TypeOK
  BY DEF IInv
<1> QED
  BY Invariant, <1>1, PTL

(* The sender releases only packets the receiver holds or has delivered. *)
THEOREM NothingReleasedEarly == Spec => []ReleasedIsHeld
<1>1. IInv => ReleasedIsHeld
  <2> SUFFICES ASSUME IInv PROVE ReleasedIsHeld
    OBVIOUS
  <2> QED
    BY DEF IInv, TypeOK, Ordered, AcksKept, ReleasedIsHeld
<1> QED
  BY Invariant, <1>1, PTL

(* No DATA, original or retransmitted, arrives beyond the receive window,    *)
(* whatever feedback is lost, repeated or reordered on the way.              *)
THEOREM WindowNeverExceeded == Spec => []WindowRespected
<1>1. IInv => WindowRespected
  <2> SUFFICES ASSUME IInv PROVE WindowRespected
    OBVIOUS
  <2> QED
    BY TransferAssumption
    DEF IInv, TypeOK, Ordered, DataSent, WindowKept, WindowRespected, Packet
<1> QED
  BY Invariant, <1>1, PTL

(* The sender never refuses an ACK or a NAK of the receiver. *)
THEOREM FeedbackNeverRefused == Spec => []FeedbackAcceptable
<1>1. IInv => FeedbackAcceptable
  <2> SUFFICES ASSUME IInv PROVE FeedbackAcceptable
    OBVIOUS
  <2> QED
    BY DEF IInv, TypeOK, Ordered, AcksKept, NaksSent, FeedbackAcceptable, Ack
<1> QED
  BY Invariant, <1>1, PTL
===========================================================================
