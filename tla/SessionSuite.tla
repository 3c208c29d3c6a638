---------------------------- MODULE SessionSuite ----------------------------
(* The parts of a reliability session that repair losses in live mode: the   *)
(* receiving session with its peer's abandoned messages, the service of loss *)
(* reports, the queue of deferred peer drops and forward error correction.   *)
(* Each is a scenario of one run.                                            *)
EXTENDS Integers, Sequences, FiniteSets

CONSTANT Scenarios      \* the parts a run explores

VARIABLES
    scenario,
    cast, clock, sent, abandoned, resent, requests, peer_acked, session,
    reported, acks, punctual, delivered, send_buffer, peer_acknowledged,
    pending_naks, cursor, replies, emitted, owed, waited, entries_, root_,
    free_entry_, cursor_, size_, held, next, skipped, encoder, wire, delayed,
    row, column, floor, settled, mangled, overflown, spent

(* Both kinds of feedback reach the sender. *)
Feedback == [born |-> <<0, 0, 0>>, capacity |-> 3, queue |-> 1, defer |-> TRUE,
             tolerance |-> 0, abandons |-> 2, until |-> 2, heard |-> {"ack", "nak"}]

(* Several abandoned ranges around the horizon, applied at once. *)
Remainder == [Feedback EXCEPT !.born = <<0, 0, 0, 0, 0>>, !.capacity = 5, !.defer = FALSE,
                              !.abandons = 3, !.until = 1, !.heard = {}]

(* The same with the grace of TSBPD, and room for one range only. *)
Grace == [Remainder EXCEPT !.born = <<0, 0, 1>>, !.capacity = 3, !.defer = TRUE,
                           !.abandons = 2, !.until = 3]

(* A window smaller than the flight. *)
NarrowWindow == [Grace EXCEPT !.born = <<0, 0, 1, 1>>, !.capacity = 2, !.abandons = 1, !.queue = 2]

(* An adaptive reorder tolerance, without and with retransmitted copies. *)
Reorder == [Remainder EXCEPT !.born = [s \in 1 .. 7 |-> 0], !.capacity = 7, !.abandons = 0,
                             !.tolerance = 4, !.until = 0]
Copies == [Reorder EXCEPT !.born = <<0, 0, 0, 0>>, !.heard = {"nak"}]

MixedCasts == {Feedback, Remainder, Grace, NarrowWindow, Reorder, Copies}

L == INSTANCE LiveSession WITH Casts <- MixedCasts, Delay <- 2, OrderedRun <- 2, EarlyRun <- 1

(* Sequence numbers roll over, and every report fills its datagram. *)
N == INSTANCE NakService WITH Modulus <- 16, Start <- 13, Packets <- 5, Span <- 5, Words <- 1,
                              Budget <- 2

Q == INSTANCE PeerDropQueue WITH Capacity <- 4, Identities <- 1 .. 5, Deadlines <- {1, 2}

Filter(mode, c, r, layout, arq, sources) ==
    [mode |-> mode, columns |-> c, rows |-> r, layout |-> layout, arq |-> arq, window |-> c * r,
     checked |-> FALSE, long |-> {}, sources |-> sources, skips |-> 0, reach |-> 0, losses |-> 2,
     late |-> 0, drops |-> 0]

(* Rows with reordering; parity that is late, checked or not; jumps beyond   *)
(* the window; columns and a matrix, even and staircase; sources that were   *)
(* dropped before they were sent, or are too long to be rebuilt.             *)
Filters ==
    {[Filter("row", 3, 1, "even", "onreq", 7) EXCEPT !.window = 4, !.late = 1],
     [Filter("row", 3, 1, "even", "always", 3) EXCEPT !.late = 1],
     [Filter("row", 2, 1, "even", "onreq", 6) EXCEPT !.drops = 2, !.reach = 2, !.losses = 3],
     [Filter("column", 2, 2, "even", "onreq", 7) EXCEPT !.checked = TRUE, !.late = 1, !.losses = 1],
     [Filter("column", 2, 2, "staircase", "onreq", 9) EXCEPT !.losses = 3],
     [Filter("column", 2, 2, "staircase", "onreq", 8) EXCEPT !.skips = 4, !.losses = 0, !.drops = 1, !.reach = 4],
     [Filter("matrix", 2, 2, "even", "onreq", 6) EXCEPT !.losses = 3],
     [Filter("matrix", 3, 2, "staircase", "always", 7) EXCEPT !.long = {4}, !.losses = 1]}

F == INSTANCE Fec WITH Modulus <- 32, Start <- 29, MessageNumbers <- 7, Casts <- Filters

vars == <<scenario,
          cast, clock, sent, abandoned, resent, requests, peer_acked,
          session, reported, acks, punctual, delivered, send_buffer,
          peer_acknowledged, pending_naks, cursor, replies, emitted, owed,
          waited, entries_, root_, free_entry_, cursor_, size_, held, next,
          skipped, encoder, wire, delayed, row, column, floor, settled,
          mangled, overflown, spent>>

notLive == <<send_buffer, peer_acknowledged, pending_naks, cursor, replies,
             emitted, owed, waited, entries_, root_, free_entry_, cursor_,
             size_, held, next, skipped, encoder, wire, delayed, row,
             column, floor, settled, mangled, overflown, spent>>
notNaks == <<cast, clock, sent, abandoned, resent, requests, peer_acked,
             session, reported, acks, punctual, delivered, entries_, root_,
             free_entry_, cursor_, size_, held, next, skipped, encoder,
             wire, delayed, row, column, floor, settled, mangled,
             overflown, spent>>
notDrops == <<cast, clock, sent, abandoned, resent, requests, peer_acked,
              session, reported, acks, punctual, delivered, send_buffer,
              peer_acknowledged, pending_naks, cursor, replies, emitted,
              owed, waited, next, skipped, encoder, wire, delayed, row,
              column, floor, settled, mangled, overflown, spent>>
notFec == <<clock, sent, abandoned, resent, requests, peer_acked, session,
            acks, punctual, delivered, send_buffer, peer_acknowledged,
            pending_naks, cursor, replies, emitted, owed, waited, entries_,
            root_, free_entry_, cursor_, size_, held>>

(* The parts are independent: in each scenario one of them runs, and the     *)
(* variables of the others rest.                                             *)
Init ==
    \/ /\ scenario = "live" /\ scenario \in Scenarios /\ L!Init
       /\ send_buffer = 0 /\ peer_acknowledged = 0 /\ pending_naks = 0 /\
          cursor = 0 /\ replies = 0 /\ emitted = 0 /\ owed = 0 /\
          waited = 0 /\ entries_ = 0 /\ root_ = 0 /\ free_entry_ = 0 /\
          cursor_ = 0 /\ size_ = 0 /\ held = 0 /\ next = 0 /\ skipped = 0 /\
          encoder = 0 /\ wire = 0 /\ delayed = 0 /\ row = 0 /\ column = 0 /\
          floor = 0 /\ settled = 0 /\ mangled = 0 /\ overflown = 0 /\
          spent = 0
    \/ /\ scenario = "naks" /\ scenario \in Scenarios /\ N!Init
       /\ cast = 0 /\ clock = 0 /\ sent = 0 /\ abandoned = 0 /\ resent = 0 /\
          requests = 0 /\ peer_acked = 0 /\ session = 0 /\ reported = 0 /\
          acks = 0 /\ punctual = 0 /\ delivered = 0 /\ entries_ = 0 /\
          root_ = 0 /\ free_entry_ = 0 /\ cursor_ = 0 /\ size_ = 0 /\
          held = 0 /\ next = 0 /\ skipped = 0 /\ encoder = 0 /\ wire = 0 /\
          delayed = 0 /\ row = 0 /\ column = 0 /\ floor = 0 /\ settled = 0 /\
          mangled = 0 /\ overflown = 0 /\ spent = 0
    \/ /\ scenario = "drops" /\ scenario \in Scenarios /\ Q!Init
       /\ cast = 0 /\ clock = 0 /\ sent = 0 /\ abandoned = 0 /\ resent = 0 /\
          requests = 0 /\ peer_acked = 0 /\ session = 0 /\ reported = 0 /\
          acks = 0 /\ punctual = 0 /\ delivered = 0 /\ send_buffer = 0 /\
          peer_acknowledged = 0 /\ pending_naks = 0 /\ cursor = 0 /\
          replies = 0 /\ emitted = 0 /\ owed = 0 /\ waited = 0 /\ next = 0 /\
          skipped = 0 /\ encoder = 0 /\ wire = 0 /\ delayed = 0 /\ row = 0 /\
          column = 0 /\ floor = 0 /\ settled = 0 /\ mangled = 0 /\
          overflown = 0 /\ spent = 0
    \/ /\ scenario = "fec" /\ scenario \in Scenarios /\ F!Init
       /\ clock = 0 /\ sent = 0 /\ abandoned = 0 /\ resent = 0 /\
          requests = 0 /\ peer_acked = 0 /\ session = 0 /\ acks = 0 /\
          punctual = 0 /\ delivered = 0 /\ send_buffer = 0 /\
          peer_acknowledged = 0 /\ pending_naks = 0 /\ cursor = 0 /\
          replies = 0 /\ emitted = 0 /\ owed = 0 /\ waited = 0 /\
          entries_ = 0 /\ root_ = 0 /\ free_entry_ = 0 /\ cursor_ = 0 /\
          size_ = 0 /\ held = 0

Next ==
    \/ scenario = "live" /\ L!Next /\ UNCHANGED <<scenario, notLive>>
    \/ scenario = "naks" /\ N!Next /\ UNCHANGED <<scenario, notNaks>>
    \/ scenario = "drops" /\ Q!Next /\ UNCHANGED <<scenario, notDrops>>
    \/ scenario = "fec" /\ F!Next /\ UNCHANGED <<scenario, notFec>>

Spec == Init /\ [][Next]_vars

-----------------------------------------------------------------------------
(* An acknowledgement covers nothing that is still wanted and available,     *)
(* every hole has someone who closes it, and a punctual message is delivered *)
(* whatever DROPREQ overtook it (LiveSession).                               *)
SessionSound == scenario = "live" => L!AcksHonest /\ L!HolesOwned /\ L!PunctualDelivered

(* No reported sequence is forgotten or starved and no reply abandons what   *)
(* was acknowledged (NakService); every deferred peer drop is found by       *)
(* identity, by deadline and by slot (PeerDropQueue).                        *)
FeedbackServed ==
    /\ scenario = "naks" => N!PendingExact /\ N!NakServed /\ N!RepliesWanted
    /\ scenario = "drops" => Q!PeerDropsFound

(* What is rebuilt is what was sent, what can be rebuilt is, and what is not *)
(* is reported (Fec).                                                        *)
FecSound == scenario = "fec" => F!RebuiltIsSource /\ F!HolesReported /\ F!RecoveryComplete

=============================================================================
