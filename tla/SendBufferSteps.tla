--------------------------- MODULE SendBufferSteps ---------------------------
(***************************************************************************)
(* The inductive invariant of the sender's window, the ways in which       *)
(* actions change the window (in place, one slot, a retired prefix), and   *)
(* the proofs that queueing and sending originals keep the invariant.      *)
(***************************************************************************)
EXTENDS SendBuffer, SequenceTheorems, TLAPS

(* The clock has not run backwards past a first transmission. *)
ClockOK ==
  /\ now \in Nat /\ next_message_number \in Nat
  /\ \A i \in Positions : slots[i].first_send <= now

(* The inductive invariant. *)
WindowInv == WindowOK /\ ClockOK /\ CursorSplitsWindow /\ FirstSendTimesGrow

(* Facts about the constants in the form the provers use. *)
LEMMA Constants ==
  /\ Modulus \in Nat /\ HalfRange \in Nat /\ Modulus = 2 * HalfRange
  /\ Capacity \in Nat /\ 0 < Capacity /\ Capacity < HalfRange
  /\ InitialSequence \in SeqNum
  BY ModulusAssumption, CapacityAssumption, InitialSequenceAssumption, SMT DEF HalfRange

LEMMA AdvancedType ==
  ASSUME NEW s \in SeqNum, NEW n \in Int
  PROVE  Advanced(s, n) \in SeqNum
  BY Constants, Division DEF Advanced, SeqNum

LEMMA PositionsAre ==
  ASSUME WindowOK
  PROVE  /\ Positions = 1 .. Len(slots) /\ Len(slots) \in Nat
         /\ \A i \in Positions : slots[i] \in Slot
  BY ElementOfSeq DEF WindowOK, Positions

LEMMA SequenceAtType ==
  ASSUME WindowOK, NEW i \in Int
  PROVE  SequenceAt(i) \in SeqNum
  BY AdvancedType DEF WindowOK, SequenceAt

(* Changing slots in place keeps the invariant when whatever was sent stays  *)
(* sent or becomes a tombstone, and nothing new counts as sent.              *)
LEMMA InPlace ==
  ASSUME WindowInv,
         slots' \in Seq(Slot), Len(slots') = Len(slots),
         UNCHANGED <<first_sequence, next_unsent_offset>>,
         now' \in Nat, now <= now', next_message_number' \in Nat,
         \A i \in Positions :
            /\ slots'[i].first_send = slots[i].first_send
            /\ slots'[i].sent => slots[i].sent
            /\ slots[i].sent => slots'[i].sent \/ ~slots'[i].occupied
            /\ ~slots[i].occupied => ~slots'[i].occupied
  PROVE  WindowInv'
<1>1. Positions = 1 .. Len(slots) /\ Positions' = Positions
        /\ (\A i \in Positions : slots[i] \in Slot /\ slots'[i] \in Slot)
  BY ElementOfSeq, PositionsAre DEF WindowInv, WindowOK, Positions
<1>2. WindowOK'
  BY DEF WindowInv, WindowOK
<1>3. ClockOK'
  <2>1. \A i \in Positions : slots[i].first_send \in Nat
    BY <1>1 DEF Slot, Time
  <2>2. now \in Nat /\ \A i \in Positions : slots[i].first_send <= now
    BY DEF WindowInv, ClockOK
  <2>3. \A i \in Positions : slots'[i].first_send <= now'
    BY <2>1, <2>2
  <2>4. QED
    BY <1>1, <2>3 DEF ClockOK
<1>4. CursorSplitsWindow'
  BY <1>1 DEF WindowInv, CursorSplitsWindow
<1>5. FirstSendTimesGrow'
  BY <1>1 DEF WindowInv, FirstSendTimesGrow
<1>6. QED
  BY <1>2, <1>3, <1>4, <1>5 DEF WindowInv

(* A function on the positions with values in Slot is a window of the same   *)
(* length.                                                                   *)
LEMMA SameLength ==
  ASSUME WindowOK, NEW w, w = [i \in Positions |-> w[i]], \A i \in Positions : w[i] \in Slot
  PROVE  w \in Seq(Slot) /\ Len(w) = Len(slots)
<1>1. Positions = 1 .. Len(slots) /\ Len(slots) \in Nat
  BY PositionsAre
<1>2. w \in [1 .. Len(slots) -> Slot]
  BY <1>1
<1>3. QED
  BY <1>1, <1>2, SMT

(* Retiring a prefix moves the window and the cursor together. *)
LEMMA RetireKeeps ==
  ASSUME WindowInv, NEW n \in 0 .. Len(slots), RetirePrefix(n),
         UNCHANGED <<next_message_number, now>>
  PROVE  WindowInv'
<1>0. Len(slots) \in Nat /\ Positions = 1 .. Len(slots)
        /\ \A i \in 1 .. Len(slots) : slots[i] \in Slot
  BY PositionsAre DEF WindowInv
<1>1. /\ slots' \in Seq(Slot)
      /\ Len(slots') = Len(slots) - n
      /\ \A i \in 1 .. Len(slots') : slots'[i] = slots[n + i]
  <2>1. \A i \in n + 1 .. Len(slots) : slots[i] \in Slot
    BY <1>0
  <2>2. /\ SubSeq(slots, n + 1, Len(slots)) \in Seq(Slot)
        /\ Len(SubSeq(slots, n + 1, Len(slots)))
             = IF n + 1 <= Len(slots) THEN Len(slots) - (n + 1) + 1 ELSE 0
        /\ \A i \in 1 .. Len(slots) - (n + 1) + 1 :
             SubSeq(slots, n + 1, Len(slots))[i] = slots[n + 1 + i - 1]
    BY <1>0, <2>1, SubSeqProperties
  <2>3. QED
    BY <1>0, <2>2, SMT DEF RetirePrefix
<1>2. Positions' = 1 .. Len(slots) - n
  BY <1>0, <1>1, SMT DEF Positions
<1>3. next_unsent_offset \in 0 .. Len(slots)
  BY DEF WindowInv, WindowOK
<1>4. WindowOK'
  <2>1. first_sequence' \in SeqNum
    BY <1>0, AdvancedType DEF RetirePrefix, WindowInv, WindowOK
  <2>2. QED
    BY <1>0, <1>1, <1>3, <2>1, Constants DEF RetirePrefix, WindowInv, WindowOK, CursorAfter
<1>5. ClockOK'
  BY <1>0, <1>1, <1>2 DEF WindowInv, ClockOK
<1>6. CursorSplitsWindow'
  BY <1>0, <1>1, <1>2, <1>3 DEF RetirePrefix, WindowInv, CursorSplitsWindow, CursorAfter
<1>7. FirstSendTimesGrow'
  <2>1. SUFFICES ASSUME NEW i \in Positions', NEW j \in Positions',
                        i < j, slots'[i].sent, slots'[j].sent
                 PROVE  slots'[i].first_send <= slots'[j].first_send
    BY DEF FirstSendTimesGrow
  <2>2. n + i \in Positions /\ n + j \in Positions /\ n + i < n + j
    BY <1>0, <1>2, <2>1
  <2>3. slots'[i] = slots[n + i] /\ slots'[j] = slots[n + j]
    BY <1>0, <1>1, <1>2, <2>1
  <2>4. QED
    BY <2>1, <2>2, <2>3 DEF WindowInv, FirstSendTimesGrow
<1>8. QED
  BY <1>4, <1>5, <1>6, <1>7 DEF WindowInv

(* Updating the mark, the submission and the repeat time of one slot. *)
LEMMA OneSlot ==
  ASSUME WindowInv, UNCHANGED <<first_sequence, next_unsent_offset, next_message_number, now>>,
         NEW k \in Positions, NEW a \in BOOLEAN, NEW b \in BOOLEAN, NEW d \in BOOLEAN,
         NEW t \in Time \cup {NoTime},
         slots' = [slots EXCEPT ![k] = [slots[k] EXCEPT
                     !.submitted = a, !.retransmission_queued = b,
                     !.drop_request_queued = d, !.last_retransmission = t]]
  PROVE  WindowInv'
<1>0. WindowOK /\ now \in Nat /\ next_message_number \in Nat
  BY DEF WindowInv, ClockOK
<1>1. \A i \in Positions : slots[i] \in Slot
  BY <1>0, PositionsAre
<1>2. /\ slots' = [i \in Positions |-> slots'[i]]
      /\ \A i \in Positions : slots'[i] \in Slot
                              /\ slots'[i].first_send = slots[i].first_send
                              /\ slots'[i].sent = slots[i].sent
                              /\ slots'[i].occupied = slots[i].occupied
  <2>1. slots' = [i \in Positions |-> IF i = k THEN [slots[k] EXCEPT
                     !.submitted = a, !.retransmission_queued = b,
                     !.drop_request_queued = d, !.last_retransmission = t] ELSE slots[i]]
    BY Zenon DEF Positions
  <2>2. LET r == [slots[k] EXCEPT !.submitted = a, !.retransmission_queued = b,
                     !.drop_request_queued = d, !.last_retransmission = t]
        IN  r \in Slot /\ r.first_send = slots[k].first_send /\ r.sent = slots[k].sent
            /\ r.occupied = slots[k].occupied
    BY <1>1, Zenon DEF Slot
  <2>3. QED
    BY <1>1, <2>1, <2>2, Zenon
<1>3. slots' \in Seq(Slot) /\ Len(slots') = Len(slots)
  BY <1>0, <1>2, SameLength, Zenon
<1>4. QED
  BY <1>0, <1>2, <1>3, InPlace

(* Queueing loss reports and drop replies changes marks only. *)
LEMMA ApplyKeeps ==
  ASSUME WindowInv, NEW st, Apply(st), UNCHANGED <<next_message_number, now>>
  PROVE  WindowInv'
<1>0. WindowOK /\ now \in Nat /\ next_message_number \in Nat
  BY DEF WindowInv, ClockOK
<1>1. \A i \in Positions : slots[i] \in Slot
  BY <1>0, PositionsAre
<1>2. PICK M, R : slots' = [i \in Positions |->
                     [slots[i] EXCEPT !.retransmission_queued = i \in M,
                                      !.drop_request_queued = i \in R]]
  BY Zenon DEF Apply
<1>3. \A i \in Positions : slots'[i] \in Slot
                              /\ slots'[i].first_send = slots[i].first_send
                              /\ slots'[i].sent = slots[i].sent
                              /\ slots'[i].occupied = slots[i].occupied
  <2>1. TAKE i \in Positions
  <2>2. PICK m \in BOOLEAN, r \in BOOLEAN :
          slots'[i] = [slots[i] EXCEPT !.retransmission_queued = m, !.drop_request_queued = r]
    <3>1. slots'[i] = [slots[i] EXCEPT !.retransmission_queued = i \in M,
                                       !.drop_request_queued = i \in R]
      BY <1>2, Zenon
    <3>2. (i \in M) \in BOOLEAN /\ (i \in R) \in BOOLEAN
      BY SMT
    <3>3. QED
      BY <3>1, <3>2, Zenon
  <2>3. QED
    BY <1>1, <2>2, Zenon DEF Slot
<1>4. slots' = [i \in Positions |-> slots'[i]]
  BY <1>2, Zenon
<1>5. slots' \in Seq(Slot) /\ Len(slots') = Len(slots)
  BY <1>0, <1>3, <1>4, SameLength
<1>6. UNCHANGED <<first_sequence, next_unsent_offset>>
  BY Zenon DEF Apply
<1>7. QED
  BY <1>0, <1>3, <1>5, <1>6, InPlace

(* A packet found in the window has a position. *)
LEMMA RetainedPosition ==
  ASSUME WindowOK, NEW sequence, InSpan(sequence)
  PROVE  Index(sequence) \in Positions
  BY PositionsAre DEF InSpan, Index

LEMMA SendKeeps ==
  ASSUME WindowInv, Send
  PROVE  WindowInv'
<1>0. WindowOK /\ now \in Nat /\ next_message_number \in Nat
        /\ Positions = 1 .. Len(slots) /\ Len(slots) \in Nat
        /\ (\A i \in Positions : slots[i] \in Slot /\ slots[i].first_send <= now)
  BY PositionsAre DEF WindowInv, ClockOK
<1>1. PICK n \in 1 .. MaxFragments, e \in Nat : EnqueueMessage(next_message_number, n, e)
  BY <1>0, TTLsAssumption DEF Send, NoExpiration
<1>2. n \in Nat /\ n > 0 /\ n <= Capacity - Len(slots)
  BY <1>0, <1>1, MaxFragmentsAssumption DEF EnqueueMessage, Available
<1> DEFINE new == [i \in 1 .. n |-> Fragment(next_message_number, i, n, e)]
<1>3. \A i \in 1 .. n : new[i] \in Slot /\ new[i].sent = FALSE /\ new[i].first_send = 0
  <2>1. 0 \in SeqNum
    BY Constants DEF SeqNum
  <2>2. QED
    BY <1>0, <2>1 DEF Fragment, BoundaryOf, Boundary, Slot, Time, NoTime
<1>4. new \in Seq(Slot) /\ Len(new) = n
  <2>1. new \in [1 .. n -> Slot]
    BY <1>3
  <2> HIDE DEF new
  <2>2. QED
    BY <1>2, <2>1, SMT
<1>5. slots' = slots \o new
  BY <1>1 DEF EnqueueMessage
<1> HIDE DEF new
<1>6. /\ slots' \in Seq(Slot) /\ Len(slots') = Len(slots) + n
      /\ \A i \in 1 .. Len(slots) + n :
           slots'[i] = IF i <= Len(slots) THEN slots[i] ELSE new[i - Len(slots)]
  BY <1>0, <1>4, <1>5, ConcatProperties, Zenon DEF WindowOK
<1>7. Positions' = 1 .. Len(slots) + n
  BY <1>0, <1>2, <1>6, SMT DEF Positions
<1>8. /\ first_sequence' = first_sequence /\ next_unsent_offset' = next_unsent_offset
      /\ now' = now /\ next_message_number' = next_message_number + 1
  BY <1>1 DEF Send, EnqueueMessage
<1>9. \A i \in Positions' : IF i <= Len(slots)
                              THEN slots'[i] = slots[i] /\ i \in Positions
                              ELSE slots'[i].sent = FALSE /\ slots'[i].first_send = 0
  <2>1. TAKE i \in Positions'
  <2>2. CASE i <= Len(slots)
    BY <1>0, <1>2, <1>6, <1>7, <2>2
  <2>3. CASE ~(i <= Len(slots))
    <3>1. i - Len(slots) \in 1 .. n
      BY <1>0, <1>2, <1>7, <2>3
    <3>2. QED
      BY <1>0, <1>2, <1>3, <1>6, <1>7, <2>3, <3>1
  <2>4. QED
    BY <2>2, <2>3, Zenon
<1>10. WindowOK'
  BY <1>0, <1>2, <1>6, <1>8, Constants DEF WindowOK
<1>11. ClockOK'
  BY <1>0, <1>8, <1>9 DEF ClockOK
<1>12. CursorSplitsWindow'
  BY <1>0, <1>2, <1>7, <1>8, <1>9 DEF WindowInv, WindowOK, CursorSplitsWindow
<1>13. FirstSendTimesGrow'
  BY <1>0, <1>2, <1>7, <1>9 DEF WindowInv, FirstSendTimesGrow
<1>14. QED
  BY <1>10, <1>11, <1>12, <1>13 DEF WindowInv

LEMMA NextOriginalKeeps ==
  ASSUME WindowInv, NEW a \in BOOLEAN, NextOriginal(a), UNCHANGED <<next_message_number, now>>
  PROVE  WindowInv'
<1>0. WindowOK /\ now \in Nat /\ next_message_number \in Nat /\ next_unsent_offset \in Nat
        /\ Positions = 1 .. Len(slots) /\ Len(slots) \in Nat
        /\ (\A i \in Positions : slots[i] \in Slot /\ slots[i].first_send <= now)
  BY PositionsAre, SMTT(30) DEF WindowInv, WindowOK, ClockOK
<1>1. PICK k \in Positions :
        /\ k > next_unsent_offset /\ slots[k].occupied /\ ~slots[k].sent
        /\ \A j \in next_unsent_offset + 1 .. k - 1 : ~slots[j].occupied \/ slots[j].sent
        /\ next_unsent_offset' = k
        /\ slots' = [slots EXCEPT ![k].sent = TRUE, ![k].submitted = FALSE,
                                  ![k].first_send = now]
  BY Zenon DEF NextOriginal
<1>2. first_sequence' = first_sequence
  BY DEF NextOriginal
<1>3. slots' = [i \in Positions |-> IF i = k
                   THEN [slots[k] EXCEPT !.sent = TRUE, !.submitted = FALSE, !.first_send = now]
                   ELSE slots[i]]
  BY <1>1, Zenon DEF Positions
<1>4. LET r == [slots[k] EXCEPT !.sent = TRUE, !.submitted = FALSE, !.first_send = now]
      IN  r \in Slot /\ r.sent = TRUE /\ r.first_send = now
  BY <1>0, Zenon DEF Slot, Time
<1>5. /\ \A i \in Positions : slots'[i] \in Slot /\ (i # k => slots'[i] = slots[i])
      /\ slots'[k].sent = TRUE /\ slots'[k].first_send = now
      /\ slots' = [i \in Positions |-> slots'[i]]
  BY <1>0, <1>3, <1>4, Zenon
<1>6. slots' \in Seq(Slot) /\ Len(slots') = Len(slots)
  BY <1>0, <1>5, SameLength
<1>7. Positions' = Positions
  BY <1>5 DEF Positions
<1>8. WindowOK'
  BY <1>0, <1>1, <1>2, <1>6 DEF WindowOK
<1>9. ClockOK'
  BY <1>0, <1>5, <1>7 DEF ClockOK
<1>10. CursorSplitsWindow'
  <2>1. \A i \in Positions : i > next_unsent_offset => ~slots[i].sent
    BY <1>0 DEF WindowInv, CursorSplitsWindow
  <2>2. \A i \in Positions : i <= next_unsent_offset => slots[i].sent \/ ~slots[i].occupied
    BY <1>0 DEF WindowInv, CursorSplitsWindow
  <2>3. \A i \in Positions : IF i <= k THEN slots'[i].sent \/ ~slots'[i].occupied
                                       ELSE ~slots'[i].sent
    <3>1. TAKE i \in Positions
    <3>2. CASE i <= next_unsent_offset
      BY <1>0, <1>1, <1>5, <2>2, <3>2
    <3>3. CASE i > next_unsent_offset /\ i < k
      <4>1. i \in next_unsent_offset + 1 .. k - 1 /\ i # k /\ i <= k
        BY <1>0, <3>3
      <4>2. slots'[i] = slots[i]
        BY <1>5, <4>1
      <4>3. ~slots[i].occupied \/ slots[i].sent
        BY <1>1, <4>1
      <4>4. QED
        BY <4>1, <4>2, <4>3
    <3>4. CASE i = k
      BY <1>0, <1>5, <3>4
    <3>5. CASE i > k
      BY <1>0, <1>1, <1>5, <2>1, <3>5
    <3>6. QED
      BY <1>0, <1>1, <3>2, <3>3, <3>4, <3>5
  <2>4. QED
    BY <1>1, <1>7, <2>3, Zenon DEF CursorSplitsWindow
<1>11. FirstSendTimesGrow'
  <2>1. \A i \in Positions : i > k => ~slots'[i].sent
    BY <1>0, <1>1, <1>5 DEF WindowInv, CursorSplitsWindow
  <2>2. \A i \in Positions : slots'[i].first_send <= now
    BY <1>0, <1>5
  <2>3. SUFFICES ASSUME NEW i \in Positions, NEW j \in Positions,
                        i < j, slots'[i].sent, slots'[j].sent
                 PROVE  slots'[i].first_send <= slots'[j].first_send
    BY <1>7 DEF FirstSendTimesGrow
  <2>4. CASE j = k
    BY <1>5, <2>2, <2>4
  <2>5. CASE j # k
    BY <1>0, <1>5, <2>1, <2>3, <2>5 DEF WindowInv, FirstSendTimesGrow
  <2>6. QED
    BY <2>4, <2>5
<1>12. QED
  BY <1>8, <1>9, <1>10, <1>11 DEF WindowInv

LEMMA NextNothingKeeps ==
  ASSUME WindowInv, NEW a \in BOOLEAN, NextNothing(a), UNCHANGED <<next_message_number, now>>
  PROVE  WindowInv'
<1>0. Positions = 1 .. Len(slots) /\ Len(slots) \in Nat
  BY PositionsAre DEF WindowInv
<1>1. UNCHANGED <<first_sequence, slots>> /\ next_unsent_offset' = Len(slots)
        /\ Positions' = Positions
        /\ \A i \in Positions : i > next_unsent_offset => ~slots[i].occupied \/ slots[i].sent
  BY DEF NextNothing, Positions
<1>2. WindowOK'
  BY <1>0, <1>1 DEF WindowInv, WindowOK
<1>3. ClockOK'
  BY <1>1 DEF WindowInv, ClockOK
<1>4. CursorSplitsWindow'
  BY <1>0, <1>1 DEF WindowInv, WindowOK, CursorSplitsWindow
<1>5. FirstSendTimesGrow'
  BY <1>1 DEF WindowInv, FirstSendTimesGrow
<1>6. QED
  BY <1>2, <1>3, <1>4, <1>5 DEF WindowInv
=============================================================================
