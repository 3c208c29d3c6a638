---------------------------- MODULE TransferSuite ---------------------------
(* A file transfer between two reliability sessions, a smaller one that must *)
(* complete, and the lists its feedback is kept in: the replies to obsolete  *)
(* loss reports, and the receiver's losses.  Each is a scenario of one run.  *)
EXTENDS FileTransfer, Sequences

CONSTANT Scenarios      \* the parts a run explores

VARIABLES
    scenario,
    ranges, emitted,                                    \* RangeDropQueue
    size, entries, fresh_count, pending_count, now      \* ReceiveLossList

(* A network that loses datagrams, and a window that never closes. *)
C == INSTANCE FileTransfer WITH Total <- 2, Repeating <- FALSE

(* Every single range of a small sequence space, pairs of a valid range and  *)
(* a short one above it, a pair whose second range runs backwards, and a     *)
(* batch that is too long.                                                   *)
SmallModulus == 8
Pair(a, b) == [first |-> a, last |-> b]
Forward == {r \in {Pair(a, b) : a, b \in 0 .. SmallModulus - 1} :
              (r.last - r.first) % SmallModulus < SmallModulus \div 2}
ReportBatches ==
    {<<Pair(a, b)>> : a, b \in 0 .. SmallModulus - 1}
    \cup {b \in Forward \X Forward :
            b[1].first < b[2].first /\ b[2].last \in {b[2].first, (b[2].first + 1) % SmallModulus}}
    \cup {<<Pair(1, 2), Pair(5, 4)>>, <<Pair(1, 1), Pair(1, 1), Pair(1, 1)>>}

D == INSTANCE RangeDropQueue WITH Modulus <- SmallModulus, MaxTerms <- 2, Batches <- ReportBatches

(* Two ranges side by side across the rollover, and one range that is split  *)
(* until the storage refuses.                                                *)
ListSizes == {[capacity |-> 2, length |-> 4], [capacity |-> 1, length |-> 5]}

P == INSTANCE ReceiveLossList WITH Sizes <- ListSizes, Modulus <- 16, Base <- 14, TTLs <- {0, 1},
                                   RetryInterval <- 1, MaxReports <- 1, MaxTime <- 1

transferVars == <<first, next, selected, flow_window, read, next_ack, early, highest,
                  acknowledgement_dirty, until_lite, data, acks, naks>>
replyVars == <<ranges, emitted>>
lossVars == <<size, entries, fresh_count, pending_count, now>>
suiteVars == <<scenario, transferVars, replyVars, lossVars>>

(* The parts are independent: in each scenario one of them runs, and the     *)
(* others rest in an initial state.                                          *)
SuiteInit ==
    /\ scenario \in Scenarios
    /\ Init /\ D!Init /\ P!Init
    /\ scenario # "losses" => size = [capacity |-> 1, length |-> 5]

SuiteNext ==
    /\ \/ scenario = "transfer" /\ Next /\ UNCHANGED <<replyVars, lossVars>>
       \/ scenario = "complete" /\ C!Next /\ UNCHANGED <<replyVars, lossVars>>
       \/ scenario = "replies" /\ D!Next /\ UNCHANGED <<transferVars, lossVars>>
       \/ scenario = "losses" /\ P!Next /\ UNCHANGED <<transferVars, replyVars>>
    /\ UNCHANGED scenario

(* Fairness of FileTransfer, in the scenario that is about progress. *)
SuiteFairness ==
    /\ WF_transferVars(scenario = "complete" /\ C!SendOriginal)
    /\ WF_transferVars(scenario = "complete" /\ C!RetransmissionTimeout)
    /\ WF_transferVars(scenario = "complete" /\ C!Read)
    /\ SF_transferVars(scenario = "complete" /\ C!FullAcknowledgement)
    /\ \A s \in 0 .. 1 :
          /\ WF_transferVars(scenario = "complete" /\ C!Retransmit(s))
          /\ SF_transferVars(scenario = "complete" /\ C!ReceiveData(s))
    /\ \A n \in 0 .. 2 :
          SF_transferVars(scenario = "complete" /\ \E a \in acks : a.next_sequence = n /\ C!ReceiveAck(a))

SuiteSpec == SuiteInit /\ [][SuiteNext]_suiteVars /\ SuiteFairness

-----------------------------------------------------------------------------
(* File mode is reliable: the application reads every packet, and the sender *)
(* learns of it and releases its last packet (FileTransfer).                 *)
AllIsTransferred == scenario = "complete" => <>(read = 2 /\ first = 2)

(* The queue of replies keeps its intervals apart, takes any report when it  *)
(* is empty, and behaves as the set of owed sequences (RangeDropQueue).      *)
RepliesExact ==
    [](scenario = "replies" => D!Canonical /\ D!EmptyAcceptsAnyReport) /\ D!ImplementsOwedSet

(* The losses stay sorted and within their storage, none of them falls       *)
(* between the states of being reported, and operating on ranges gives every *)
(* missing packet the treatment it would get on its own (ReceiveLossList).   *)
LossesTracked ==
    [](scenario = "losses" => P!Canonical /\ P!NoLossForgotten) /\ P!ImplementsLossMap

=============================================================================
