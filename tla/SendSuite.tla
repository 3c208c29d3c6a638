------------------------------ MODULE SendSuite -----------------------------
(* The send buffer, three slots across the wrap of the sequence space; and a *)
(* smaller one in which every queued repeat must be served.                  *)
EXTENDS SendBuffer

VARIABLE scenario

(* Messages of one packet that never expire, in two slots, and no limit on   *)
(* how often a packet is repeated.                                           *)
L == INSTANCE SendBuffer WITH Capacity <- 2, InitialSequence <- Modulus - 1, MaxFragments <- 1,
                              MaxMessages <- 3, MaxSkip <- 0, TTLs <- {0},
                              MinimumRepeats <- {0}

SuiteInit ==
  \/ scenario = "window" /\ Init
  \/ scenario = "served" /\ L!Init

SuiteNext ==
  /\ \/ scenario = "window" /\ Next
     \/ scenario = "served" /\ L!Next
  /\ UNCHANGED scenario

(* Fairness of SendBuffer, in the scenario that is about progress. *)
SuiteFairness ==
  /\ WF_vars(scenario = "served" /\ L!NextRetransmission /\ UNCHANGED <<next_message_number, now>>)
  /\ WF_vars(scenario = "served" /\ L!Resolve /\ UNCHANGED <<next_message_number, now>>)

SuiteSpec == SuiteInit /\ [][SuiteNext]_<<scenario, vars>> /\ SuiteFairness

-----------------------------------------------------------------------------
(* The bookkeeping agrees with the window: rings and flags stand for each    *)
(* other, counters equal a recount, tombstones name their message, and a     *)
(* valid loss report is applied in full (SendBuffer).                        *)
BookkeepingExact ==
  scenario = "window" =>
    /\ TypeOK /\ MarkedOnce /\ ReplyQueuedOnce /\ ValidReportAppliedInFull
    /\ CountersExact /\ TombstonesCoverMessage

(* A queued repeat is eventually selected or its packet retired (SendBuffer, *)
(* next_retransmission): of the three sequence numbers of that scenario.     *)
RepeatsServed ==
  \A s \in {Advanced(Modulus - 1, n) : n \in 0 .. 2} :
    (scenario = "served" /\ IsQueued(s)) ~> Served(s)
=============================================================================
