-------------------------- MODULE SendBufferProofs --------------------------
(***************************************************************************)
(* Proofs about the sender's window, for every capacity below half the     *)
(* sequence space, every initial sequence number and any number of         *)
(* messages, fragments and ticks.                                          *)
(***************************************************************************)
EXTENDS SendBufferSteps

(* Submission, putting a packet back and answering a tombstone change one    *)
(* slot each.                                                                *)
LEMMA SubmitKeeps ==
  ASSUME WindowInv, SubmitPrepared, UNCHANGED <<next_message_number, now>>
  PROVE  WindowInv'
<1> DEFINE k == Index(prepared[1].sequence)
           repeated == prepared[1].retransmitted /\ slots[k].sent
<1>0. WindowOK /\ now \in Nat
  BY DEF WindowInv, ClockOK
<1>1. k \in Positions /\ slots[k] \in Slot
  <2>1. InSpan(prepared[1].sequence)
    BY Zenon DEF SubmitPrepared, Retains
  <2>2. k \in Positions
    BY <1>0, <2>1, RetainedPosition, Zenon
  <2>3. QED
    BY <1>0, <2>2, PositionsAre, Zenon
<1>2. slots' = [slots EXCEPT ![k].submitted = @ \/ slots[k].sent,
                             ![k].retransmission_queued = @ /\ ~repeated,
                             ![k].last_retransmission = IF repeated THEN now ELSE @]
      /\ UNCHANGED <<first_sequence, next_unsent_offset>>
  BY DEF SubmitPrepared
<1> DEFINE a == slots[k].submitted \/ slots[k].sent
           b == slots[k].retransmission_queued /\ ~repeated
           d == slots[k].drop_request_queued
           t == IF repeated THEN now ELSE slots[k].last_retransmission
<1>3. a \in BOOLEAN /\ b \in BOOLEAN /\ d \in BOOLEAN /\ t \in Time \cup {NoTime}
  BY <1>0, <1>1 DEF Slot, Time
<1> HIDE DEF k, repeated
<1>4. slots' = [slots EXCEPT ![k] = [slots[k] EXCEPT
                  !.submitted = a, !.retransmission_queued = b,
                  !.drop_request_queued = d, !.last_retransmission = t]]
  BY <1>1, <1>2, ZenonT(30) DEF Positions, Slot
<1> HIDE DEF a, b, d, t
<1>5. UNCHANGED <<first_sequence, next_unsent_offset, next_message_number, now>>
  BY <1>2
<1>6. QED
  BY <1>1, <1>3, <1>4, <1>5, OneSlot, Zenon

LEMMA RequeueKeeps ==
  ASSUME WindowInv, RequeuePrepared, UNCHANGED <<next_message_number, now>>
  PROVE  WindowInv'
<1> DEFINE k == Index(prepared[1].sequence)
<1>0. WindowOK
  BY DEF WindowInv
<1>1. k \in Positions /\ slots[k] \in Slot
  <2>1. InSpan(prepared[1].sequence)
    BY Zenon DEF RequeuePrepared, Retains
  <2>2. k \in Positions
    BY <1>0, <2>1, RetainedPosition, Zenon
  <2>3. QED
    BY <1>0, <2>2, PositionsAre, Zenon
<1>2. UNCHANGED <<first_sequence, next_unsent_offset>>
  BY DEF RequeuePrepared
<1>3. PICK M : slots' = [slots EXCEPT ![k].retransmission_queued = k \in M]
  BY Zenon DEF RequeuePrepared
<1>4. PICK b \in BOOLEAN : slots' = [slots EXCEPT ![k].retransmission_queued = b]
  <2>1. (k \in M) \in BOOLEAN
    BY SMT
  <2>2. QED
    BY <1>3, <2>1, Zenon
<1> HIDE DEF k
<1>5. slots' = [slots EXCEPT ![k] = [slots[k] EXCEPT
                  !.submitted = slots[k].submitted, !.retransmission_queued = b,
                  !.drop_request_queued = slots[k].drop_request_queued,
                  !.last_retransmission = slots[k].last_retransmission]]
  BY <1>1, <1>4, Zenon DEF Positions, Slot
<1>6. slots[k].submitted \in BOOLEAN /\ slots[k].drop_request_queued \in BOOLEAN
        /\ slots[k].last_retransmission \in Time \cup {NoTime}
  BY <1>1 DEF Slot
<1>7. QED
  BY <1>1, <1>2, <1>5, <1>6, OneSlot, Zenon

LEMMA ReplyKeeps ==
  ASSUME WindowInv, NextPendingDropRequest, UNCHANGED <<next_message_number, now>>
  PROVE  WindowInv'
<1>0. WindowOK
  BY DEF WindowInv
<1>1. UNCHANGED <<first_sequence, next_unsent_offset>>
  BY DEF NextPendingDropRequest
<1>2. PICK k : slots' = [slots EXCEPT ![k].drop_request_queued = FALSE]
  BY Zenon DEF NextPendingDropRequest
<1>3. CASE k \in Positions
  <2>1. slots[k] \in Slot
    BY <1>0, <1>3, PositionsAre
  <2>2. slots' = [slots EXCEPT ![k] = [slots[k] EXCEPT
                    !.submitted = slots[k].submitted,
                    !.retransmission_queued = slots[k].retransmission_queued,
                    !.drop_request_queued = FALSE,
                    !.last_retransmission = slots[k].last_retransmission]]
    BY <1>2, <1>3, <2>1, Zenon DEF Positions, Slot
  <2>3. slots[k].submitted \in BOOLEAN /\ slots[k].retransmission_queued \in BOOLEAN
          /\ slots[k].last_retransmission \in Time \cup {NoTime}
    BY <2>1 DEF Slot
  <2>4. QED
    BY <1>1, <1>3, <2>2, <2>3, OneSlot, Zenon
<1>4. CASE k \notin Positions
  <2>1. slots' = slots
    BY <1>0, <1>2, <1>4, PositionsAre DEF Positions, WindowOK
  <2>2. QED
    BY <1>1, <2>1 DEF WindowInv, WindowOK, ClockOK, CursorSplitsWindow, FirstSendTimesGrow,
                      Positions
<1>5. QED
  BY <1>3, <1>4

LEMMA GroupConfirmedKeeps ==
  ASSUME WindowInv, GroupConfirmed
  PROVE  WindowInv'
<1>0. WindowOK /\ now \in Nat /\ next_message_number \in Nat
        /\ Len(slots) \in Nat /\ MaxSkip \in Nat
  BY PositionsAre, MaxSkipAssumption DEF WindowInv, ClockOK
<1>1. PICK n \in 0 .. MaxSkip : RetireGroupPrefix(n)
  BY DEF GroupConfirmed
<1>2. first_sequence' \in SeqNum
  <2>1. next_sequence \in SeqNum
    BY <1>0, SequenceAtType DEF next_sequence
  <2>2. QED
    BY <1>0, <1>1, <2>1, AdvancedType DEF RetireGroupPrefix
<1>3. slots' = <<>> /\ next_unsent_offset' = 0 /\ now' = now
        /\ next_message_number' = next_message_number + 1
  BY <1>1 DEF RetireGroupPrefix, GroupConfirmed
<1>4. slots' \in Seq(Slot) /\ Len(slots') = 0 /\ Positions' = {}
  BY <1>3 DEF Positions
<1>5. WindowOK' /\ ClockOK' /\ CursorSplitsWindow' /\ FirstSendTimesGrow'
  BY <1>0, <1>2, <1>3, <1>4, Constants
     DEF WindowOK, ClockOK, CursorSplitsWindow, FirstSendTimesGrow
<1>6. QED
  BY <1>5 DEF WindowInv

LEMMA TombstoneType ==
  ASSUME NEW slot \in Slot, NEW f \in SeqNum, NEW l \in SeqNum
  PROVE  /\ Tombstone(slot, f, l) \in Slot
         /\ Tombstone(slot, f, l).occupied = FALSE
         /\ Tombstone(slot, f, l).sent = FALSE
         /\ Tombstone(slot, f, l).first_send = slot.first_send
  BY DEF Tombstone, Slot, Time, NoExpiration, NoTime

LEMMA DropExpiredKeeps ==
  ASSUME WindowInv, DropExpiredMessage, UNCHANGED <<next_message_number, now>>
  PROVE  WindowInv'
<1>0. WindowOK /\ now \in Nat /\ next_message_number \in Nat
        /\ Positions = 1 .. Len(slots) /\ Len(slots) \in Nat
        /\ (\A i \in Positions : slots[i] \in Slot)
  BY PositionsAre DEF WindowInv, ClockOK
<1>1. PICK f \in Positions, l \in Positions :
        slots' = [j \in Positions |-> IF j \in f .. l
                    THEN Tombstone(slots[j], SequenceAt(f), SequenceAt(l)) ELSE slots[j]]
  BY DEF DropExpiredMessage
<1>2. UNCHANGED <<first_sequence, next_unsent_offset>>
  BY DEF DropExpiredMessage
<1>3. SequenceAt(f) \in SeqNum /\ SequenceAt(l) \in SeqNum
  BY <1>0, SequenceAtType
<1>4. \A j \in Positions :
        LET t == Tombstone(slots[j], SequenceAt(f), SequenceAt(l))
        IN  t \in Slot /\ t.occupied = FALSE /\ t.sent = FALSE
            /\ t.first_send = slots[j].first_send
  BY <1>0, <1>3, TombstoneType, ZenonT(30)
<1>5. \A j \in Positions :
        \/ slots'[j] = slots[j]
        \/ slots'[j] = Tombstone(slots[j], SequenceAt(f), SequenceAt(l))
  BY <1>1
<1>6. \A j \in Positions :
        /\ slots'[j] \in Slot
        /\ slots'[j].first_send = slots[j].first_send
        /\ slots'[j].sent => slots[j].sent
        /\ slots[j].sent => slots'[j].sent \/ ~slots'[j].occupied
        /\ ~slots[j].occupied => ~slots'[j].occupied
  BY <1>0, <1>4, <1>5
<1>7. slots' \in Seq(Slot) /\ Len(slots') = Len(slots)
  <2>1. slots' = [j \in Positions |-> slots'[j]]
    BY <1>1
  <2>2. QED
    BY <1>0, <1>6, <2>1, SameLength
<1>8. QED
  BY <1>0, <1>2, <1>6, <1>7, InPlace

(* Steps that leave the window alone. *)
LEMMA SameWindowKeeps ==
  ASSUME WindowInv, UNCHANGED window, now' \in Nat, now <= now', next_message_number' = next_message_number
  PROVE  WindowInv'
<1>1. WindowOK /\ now \in Nat /\ next_message_number \in Nat
        /\ Positions = 1 .. Len(slots) /\ (\A i \in Positions : slots[i] \in Slot)
  BY PositionsAre DEF WindowInv, ClockOK
<1>2. slots' = slots /\ UNCHANGED <<first_sequence, next_unsent_offset>>
  BY DEF window
<1>3. slots' \in Seq(Slot) /\ Len(slots') = Len(slots)
  BY <1>1, <1>2 DEF WindowOK
<1>4. QED
  BY <1>1, <1>2, <1>3, InPlace

LEMMA StepKeeps ==
  ASSUME WindowInv, Step, UNCHANGED <<next_message_number, now>>
  PROVE  WindowInv'
<1>0. WindowOK /\ now \in Nat /\ Positions = 1 .. Len(slots) /\ Len(slots) \in Nat
  BY PositionsAre DEF WindowInv, ClockOK
<1>1. CASE UNCHANGED window
  BY <1>0, <1>1, SameWindowKeeps
<1>2. CASE Transmit
  <2>1. CASE NextRetransmission \/ PeekRetransmissionPacket
    BY <1>1, <2>1 DEF NextRetransmission, PeekRetransmissionPacket
  <2>2. ASSUME NEW a \in BOOLEAN, NextOriginal(a) PROVE WindowInv'
    BY <2>2, NextOriginalKeeps
  <2>3. ASSUME NEW a \in BOOLEAN, NextNothing(a) PROVE WindowInv'
    BY <2>3, NextNothingKeeps
  <2>4. QED
    BY <1>2, <2>1, <2>2, <2>3 DEF Transmit
<1>3. CASE Resolve
  <2>1. CASE DiscardPrepared
    BY <1>1, <2>1 DEF DiscardPrepared
  <2>2. QED
    BY <1>3, <2>1, SubmitKeeps, RequeueKeeps DEF Resolve
<1>4. CASE Feedback
  <2>1. ASSUME NEW s, AcknowledgeSubmittedBefore(s) PROVE WindowInv'
    BY <2>1, RetireKeeps DEF AcknowledgeSubmittedBefore
  <2>2. ASSUME NEW r, NEW m, RequestRetransmission(r, m) PROVE WindowInv'
    BY <2>2, ApplyKeeps DEF RequestRetransmission
  <2>3. QED
    BY <1>4, <2>1, <2>2 DEF Feedback
<1>5. CASE Timers
  <2>1. CASE RequestRetransmissionOfLastSent
    BY <2>1, ApplyKeeps DEF RequestRetransmissionOfLastSent
  <2>2. CASE RequestRetransmissionOfAllSent
    BY <2>2, ApplyKeeps DEF RequestRetransmissionOfAllSent
  <2>3. CASE QueueRetainedDropRequests
    BY <2>3, ApplyKeeps DEF QueueRetainedDropRequests
  <2>4. ASSUME NEW n \in Positions, RetirePrefix(n) PROVE WindowInv'
    BY <1>0, <2>4, RetireKeeps
  <2>5. CASE DropMessagesOlderThan(now - DropAfter)
    BY <2>4, <2>5 DEF DropMessagesOlderThan
  <2>6. CASE ReleaseRetiredPrefix
    BY <2>4, <2>6 DEF ReleaseRetiredPrefix
  <2>7. CASE DropExpiredMessage
    BY <2>7, DropExpiredKeeps
  <2>8. CASE RefineExpiration
    BY <1>1, <2>8 DEF RefineExpiration
  <2>9. QED
    BY <1>5, <2>1, <2>2, <2>3, <2>5, <2>6, <2>7, <2>8 DEF Timers
<1>6. CASE Replies
  <2>1. CASE CompactDropRequests
    BY <1>1, <2>1 DEF CompactDropRequests
  <2>2. QED
    BY <1>6, <2>1, ReplyKeeps DEF Replies
<1>7. QED
  BY <1>2, <1>3, <1>4, <1>5, <1>6 DEF Step

LEMMA InitWindow == Init => WindowInv
<1> SUFFICES ASSUME Init PROVE WindowInv
  OBVIOUS
<1>1. Positions = {} /\ Len(slots) = 0 /\ slots \in Seq(Slot)
  BY DEF Init, Positions
<1>2. QED
  BY <1>1, Constants
     DEF Init, WindowInv, WindowOK, ClockOK, CursorSplitsWindow, FirstSendTimesGrow

LEMMA NextKeeps == WindowInv /\ [Next]_vars => WindowInv'
<1> SUFFICES ASSUME WindowInv, [Next]_vars PROVE WindowInv'
  OBVIOUS
<1>0. now \in Nat
  BY DEF WindowInv, ClockOK
<1>1. CASE Send
  BY <1>1, SendKeeps
<1>2. CASE GroupConfirmed
  BY <1>2, GroupConfirmedKeeps
<1>3. CASE Step /\ UNCHANGED <<next_message_number, now>>
  BY <1>3, StepKeeps
<1>4. CASE Tick
  <2>1. UNCHANGED window /\ now' = now + 1 /\ next_message_number' = next_message_number
    BY <1>4 DEF Tick, bufferVars, window
  <2>2. QED
    BY <1>0, <2>1, SameWindowKeeps
<1>5. CASE UNCHANGED vars
  <2>1. UNCHANGED window /\ now' = now /\ next_message_number' = next_message_number
    BY <1>5 DEF vars, bufferVars, window
  <2>2. QED
    BY <1>0, <2>1, SameWindowKeeps
<1>6. QED
  BY <1>1, <1>2, <1>3, <1>4, <1>5 DEF Next

LEMMA WindowInvariant == Spec => []WindowInv
  BY InitWindow, NextKeeps, PTL DEF Spec

(* The window is well typed in every reachable state: it never outgrows      *)
(* capacity() and the cursor never leaves the span, whatever mix of ACKs,    *)
(* drops, group skips and loss reports the runtime processes.                *)
THEOREM WindowTyped == Spec => []WindowOK
<1>1. WindowInv => WindowOK
  BY DEF WindowInv
<1>2. QED
  BY <1>1, WindowInvariant, PTL

(* The send cursor splits the window: below it everything was sent or is a   *)
(* tombstone, from it on nothing was sent.                                   *)
THEOREM CursorCorrect == Spec => []CursorSplitsWindow
<1>1. WindowInv => CursorSplitsWindow
  BY DEF WindowInv
<1>2. QED
  BY <1>1, WindowInvariant, PTL

(* First-send times grow along the window, the premise of the prefix scan in *)
(* drop_messages_older_than().                                               *)
THEOREM FirstSendOrdered == Spec => []FirstSendTimesGrow
<1>1. WindowInv => FirstSendTimesGrow
  BY DEF WindowInv
<1>2. QED
  BY <1>1, WindowInvariant, PTL

(* The cursor makes the shortcut of validate_retransmission_range() exact. *)
LEMMA CursorValidates ==
  ASSUME WindowInv
  PROVE  ValidationIsExact
<1>0. WindowOK /\ Positions = 1 .. Len(slots) /\ Len(slots) \in Nat
        /\ next_unsent_offset \in Nat /\ first_sequence \in SeqNum
  BY PositionsAre DEF WindowInv, WindowOK
<1> SUFFICES ASSUME NEW range \in Ranges
             PROVE  LET f == Offset(range.first)
                        l == Offset(range.last)
                    IN  ValidRange(range) <=>
                          /\ 0 <= f /\ f <= l /\ l < Len(slots)
                          /\ \A i \in f + 1 .. l + 1 : slots[i].sent \/ ~slots[i].occupied
  BY DEF ValidationIsExact
<1>1. range.first \in SeqNum /\ range.last \in SeqNum
  BY <1>0, SequenceAtType DEF Ranges
<1>2. PICK f \in Int, l \in Int : f = Offset(range.first) /\ l = Offset(range.last)
  BY <1>0, <1>1, DistanceInverts DEF Offset
<1>3. 0 <= f /\ f <= l => DistanceFrom(range.last, range.first) = l - f
  BY <1>0, <1>1, <1>2, DistancesSubtract DEF Offset
<1>4. ValidRange(range) <=>
        /\ 0 <= f /\ f <= l /\ l < Len(slots)
        /\ \A i \in Positions : i > next_unsent_offset /\ i > f /\ i <= l + 1 => ~slots[i].occupied
  BY <1>2, <1>3 DEF ValidRange
<1>5. ASSUME 0 <= f, f <= l, l < Len(slots)
      PROVE  (\A i \in Positions : i > next_unsent_offset /\ i > f /\ i <= l + 1
                                    => ~slots[i].occupied)
             <=> \A i \in f + 1 .. l + 1 : slots[i].sent \/ ~slots[i].occupied
  <2>1. \A i \in Positions :
          IF i <= next_unsent_offset THEN slots[i].sent \/ ~slots[i].occupied ELSE ~slots[i].sent
    BY DEF WindowInv, CursorSplitsWindow
  <2>2. \A i : i \in f + 1 .. l + 1 <=> i \in Positions /\ i > f /\ i <= l + 1
    BY <1>0, <1>5
  <2>3. QED
    BY <1>0, <2>1, <2>2
<1>6. QED
  BY <1>2, <1>4, <1>5

(* A loss report is accepted exactly when each of its packets is in the      *)
(* window and was sent or dropped, although only the part past the cursor is *)
(* counted.                                                                  *)
THEOREM ValidationExact == Spec => []ValidationIsExact
<1>1. WindowInv => ValidationIsExact
  BY CursorValidates
<1>2. QED
  BY <1>1, WindowInvariant, PTL
=============================================================================
