--------------------------- MODULE GroupAdmission ---------------------------
(***************************************************************************)
(* Connection groups from both ends.  A caller group enrols member sockets *)
(* (connect_group_impl) whose handshakes reach bonded or separate          *)
(* listeners; each listener admits one connection at a time and, for a     *)
(* group proposal, finds or creates the mirror group of that peer          *)
(* (ListenerGroupAdmission, GroupRegistry::prepare_mirror, add_member).    *)
(* The admission commits, or is rolled back by its destructor, which runs  *)
(* after the listener has already resumed with the next caller.  The       *)
(* caller binds its group to the mirror that answered it (set_peer_group,  *)
(* confirm_peer_group).                                                    *)
(*                                                                         *)
(* One peer group; a caller member makes one attempt, so its number also   *)
(* names the accepted socket and the member generation.  Sequence cursors  *)
(* of the records are in GroupSend and GroupReceive.                       *)
(***************************************************************************)
EXTENDS Integers, FiniteSets

CONSTANTS
    Callers,     \* member sockets of the caller group
    Listeners,   \* listening sockets of the peer
    Casts,       \* what the members propose, and what the callback assigns
    MaxGroups,   \* handles a run may allocate
    Backlog      \* places of the shared accept queue

VARIABLES
    groups,      \* handle -> GroupRecord of the listening side
    cast,        \* the kind of group; each member's lookup key and domain
    scope,       \* listener -> bond scope, 0 outside any bond
    setup,       \* listener -> admission in progress
    fading,      \* failed admissions whose destructor has not run yet
    accepts,     \* the accept queue: reserved places and published handles
    shut,        \* accepted sockets that were closed
    caller,      \* the caller group's pin
    member       \* caller member -> its progress

vars == <<groups, cast, scope, setup, fading, accepts, shut, caller, member>>

Handles == 1 .. MaxGroups

NoGroup == 0

Free == [state |-> "free", listener |-> NoGroup, scope |-> 0, key |-> 0, domain |-> 0,
         opened |-> FALSE, members |-> {}, connected |-> {}, offered |-> FALSE]

(* The domain of a member the application never connects. *)
Absent == 0

NoSetup == [at |-> "none"]

Started == {"connecting", "answered", "pinned"}

Init ==
    /\ groups = [g \in Handles |-> Free]
    /\ cast \in Casts
    /\ scope = [l \in Listeners |-> 0]
    /\ setup = [l \in Listeners |-> NoSetup]
    /\ fading = {}
    /\ accepts = [reserved |-> 0, queue |-> {}, taken |-> {}]
    /\ shut = {}
    /\ caller = [peer_group |-> NoGroup, confirmed |-> FALSE, holds |-> {}]
    /\ member = [i \in Callers |-> [at |-> "idle", mirror |-> NoGroup]]

-----------------------------------------------------------------------------
(* The registry of the listening side *)

(* The lookup of prepare_mirror and prepare_dispatch: the record of this    *)
(* peer group, or of this stream key, in the listener's bond, or of the     *)
(* listener alone when it belongs to no bond.                               *)
Matches(g, l, i) ==
    /\ groups[g].state = "open" /\ groups[g].key = cast.key[i]
    /\ IF scope[l] # 0 THEN groups[g].scope = scope[l]
       ELSE groups[g].scope = 0 /\ groups[g].listener = l

has_existing_mirror(l, i) ==
    /\ cast.kind = "bonding"
    /\ \E g \in Handles : Matches(g, l, i) /\ groups[g].opened /\ groups[g].members # {}

NextHandle == CHOOSE g \in Handles :
    groups[g].state = "free" /\ \A h \in Handles : groups[h].state = "free" => g <= h

NewGroup(l, i) ==
    [Free EXCEPT !.state = "open", !.listener = l, !.scope = scope[l],
                 !.key = cast.key[i], !.domain = cast.domain[i]]

Without(g, i) == [g EXCEPT !.members = @ \ {i}, !.connected = @ \ {i}]

(* Only an unopened record without members is erased. *)
release_empty_mirror(gs, g) ==
    IF gs[g].opened \/ gs[g].members # {} THEN gs
    ELSE [gs EXCEPT ![g].state = "closed"]

remove_member(gs, g, i) == IF g = NoGroup THEN gs ELSE [gs EXCEPT ![g] = Without(@, i)]

(* bond_listeners: both listeners get the scope; of the unscoped records    *)
(* with one peer group, one moves into it.  A dispatch record has no peer   *)
(* group.                                                                   *)
bond_listeners(s, gs) ==
    LET own == {g \in Handles : gs[g].state = "open"}
    IN IF own = {} THEN {gs} ELSE {[gs EXCEPT ![g].scope = s] : g \in own}

(* accept_bond_sockets: form the bond (its accept loop is ListenerRuntime's *)
(* pop without waiting).                                                    *)
accept_bond_sockets ==
    /\ \A l \in Listeners : scope[l] = 0
    /\ groups' \in bond_listeners(1, groups)
    /\ scope' = [l \in Listeners |-> 1]
    /\ UNCHANGED <<cast, setup, fading, accepts, shut, caller, member>>

-----------------------------------------------------------------------------
(* Listener admission *)

Room == accepts.reserved + Cardinality(accepts.queue) < Backlog

(* A conclusion reaches a listener that is not setting up a connection.  It *)
(* takes a place of the accept queue; without one, only a dispatch proposal *)
(* or one for a live mirror goes on.                                        *)
Admit(l, i) ==
    /\ setup[l] = NoSetup
    /\ member[i].at = "connecting"
    /\ \A k \in Listeners : setup[k] # NoSetup => setup[k].caller # i
    /\ \A c \in fading : c.caller # i
    /\ i \notin shut
    /\ Room \/ cast.kind = "dispatch" \/ has_existing_mirror(l, i)
    /\ setup' = [setup EXCEPT ![l] = [at |-> "admitted", caller |-> i,
                                      group |-> NoGroup, created |-> FALSE,
                                      first |-> FALSE, enrolled |-> FALSE, place |-> Room]]
    /\ accepts' = IF Room THEN [accepts EXCEPT !.reserved = @ + 1] ELSE accepts
    /\ UNCHANGED <<cast, groups, scope, fading, shut, caller, member>>

(* finish_setup_context without a connection: the accepted socket is closed *)
(* (shutdown_record removes an activated member), the listener is free for  *)
(* the next admission; the context's destructor runs later.                 *)
Finish(l) ==
    LET s == setup[l] IN
    /\ setup' = [setup EXCEPT ![l] = NoSetup]
    /\ shut' = shut \cup {s.caller}
    /\ groups' = IF s.at \in {"sent", "unsent"}
                 THEN remove_member(groups, s.group, s.caller) ELSE groups
    /\ fading' = fading \cup {[caller |-> s.caller, group |-> s.group,
                               created |-> s.created, place |-> s.place,
                               enrolled |-> s.enrolled]}

(* prepare, first half (prepare_mirror, prepare_dispatch): the record is    *)
(* found, or created.  A record of another domain refuses the proposal.     *)
prepare_group(l) ==
    LET s == setup[l]
        found == {g \in Handles : Matches(g, l, s.caller)}
    IN
    /\ s.at = "admitted" /\ s.caller \notin shut
    /\ \/ \E g \in found :
            /\ groups[g].domain = cast.domain[s.caller]
            /\ setup' = [setup EXCEPT ![l].at = "mirror", ![l].group = g]
            /\ UNCHANGED <<groups, fading, shut>>
       \/ /\ found = {}
          /\ \E g \in Handles : groups[g].state = "free"
          /\ groups' = [groups EXCEPT ![NextHandle] = NewGroup(l, s.caller)]
          /\ setup' = [setup EXCEPT ![l].at = "mirror", ![l].group = NextHandle,
                                    ![l].created = TRUE]
          /\ UNCHANGED <<fading, shut>>
       \/ /\ \E g \in found : groups[g].domain # cast.domain[s.caller]
          /\ Finish(l)
    /\ UNCHANGED <<cast, scope, accepts, caller, member>>

(* A dispatch group is encrypted for all its members or for none: a member  *)
(* whose session is not keyed like the group is refused.                    *)
RefuseKeying(l) ==
    LET s == setup[l] IN
    /\ s.at = "mirror" /\ cast.kind = "dispatch" /\ s.caller \notin shut
    /\ groups' = IF s.created THEN release_empty_mirror(groups, s.group) ELSE groups
    /\ setup' = [setup EXCEPT ![l] = NoSetup]
    /\ shut' = shut \cup {s.caller}
    /\ fading' = fading \cup {[caller |-> s.caller, group |-> NoGroup, created |-> FALSE,
                               place |-> s.place, enrolled |-> FALSE]}
    /\ UNCHANGED <<cast, scope, accepts, caller, member>>

(* prepare, second half: add_member, then the accept place: a first member  *)
(* needs one, any other gives its own back.  A record closed in between, or *)
(* a full queue, refuses.                                                   *)
add_member(l) ==
    LET s == setup[l]
        first == groups[s.group].members = {} /\ ~groups[s.group].opened
        place == s.place \/ Room
        enrolled == [groups EXCEPT ![s.group].members = @ \cup {s.caller}]
    IN
    /\ s.at = "mirror" /\ s.caller \notin shut
    /\ \/ /\ groups[s.group].state # "open"
          /\ Finish(l)
          /\ UNCHANGED accepts
       \/ /\ groups[s.group].state = "open"
          /\ first => place
          /\ groups' = enrolled
          /\ setup' = [setup EXCEPT ![l].at = "prepared", ![l].first = first,
                                    ![l].enrolled = TRUE, ![l].place = first]
          /\ accepts' = [accepts EXCEPT !.reserved =
                           @ + (IF first THEN 1 ELSE 0) - (IF s.place THEN 1 ELSE 0)]
          /\ UNCHANGED <<fading, shut>>
       \/ /\ groups[s.group].state = "open" /\ first /\ ~place
          /\ groups' = enrolled
          /\ setup' = [setup EXCEPT ![l] = NoSetup]
          /\ shut' = shut \cup {s.caller}
          /\ fading' = fading \cup {[caller |-> s.caller, group |-> s.group,
                                     created |-> s.created, place |-> FALSE,
                                     enrolled |-> TRUE]}
          /\ UNCHANGED accepts
    /\ UNCHANGED <<cast, scope, caller, member>>

(* The transport is attached and published as connected, activate() binds   *)
(* the accepted socket to its group, and the conclusion response is sent,   *)
(* or its write fails.                                                      *)
Activate(l, written) ==
    LET s == setup[l] IN
    /\ s.at = "prepared" /\ s.caller \notin shut
    /\ groups' = [groups EXCEPT ![s.group].connected =
                    IF s.caller \in groups[s.group].members THEN @ \cup {s.caller} ELSE @]
    /\ setup' = [setup EXCEPT ![l].at = IF written THEN "sent" ELSE "unsent"]
    /\ member' = IF written /\ member[s.caller].at = "connecting"
                 THEN [member EXCEPT ![s.caller] = [at |-> "answered", mirror |-> s.group]]
                 ELSE member
    /\ UNCHANGED <<cast, scope, fading, accepts, shut, caller>>

(* Mutant: every committed member publishes an accept result. *)
CommitEach(l) ==
    LET s == setup[l] IN
    /\ s.at = "sent"
    /\ setup' = [setup EXCEPT ![l] = NoSetup]
    /\ groups' = IF groups[s.group].state # "open" THEN groups
                 ELSE [groups EXCEPT ![s.group].opened = TRUE, ![s.group].offered = TRUE]
    /\ accepts' = [accepts EXCEPT !.reserved = IF s.first THEN @ - 1 ELSE @,
                                  !.queue = @ \cup {s.group}]
    /\ UNCHANGED <<cast, scope, fading, shut, caller, member>>

(* finish_setup_context with a connection: commit() opens the record and a  *)
(* first member's place is published as the accept result.                  *)
Commit(l) ==
    LET s == setup[l] IN
    /\ s.at = "sent"
    /\ setup' = [setup EXCEPT ![l] = NoSetup]
    /\ groups' = IF groups[s.group].state # "open" THEN groups
                 ELSE [groups EXCEPT ![s.group].opened = TRUE,
                                     ![s.group].offered = @ \/ s.first]
    /\ accepts' = IF s.first
                  THEN [accepts EXCEPT !.reserved = @ - 1, !.queue = @ \cup {s.group}]
                  ELSE accepts
    /\ UNCHANGED <<cast, scope, fading, shut, caller, member>>

(* The setup fails: a timeout, a failed attachment or write, or the         *)
(* accepted socket was closed.  A reserved place is kept until the          *)
(* reservation's destructor returns it.                                     *)
Fail(l) ==
    /\ setup[l].at \in {"admitted", "mirror", "prepared", "unsent"}
    /\ Finish(l)
    /\ UNCHANGED <<cast, scope, accepts, caller, member>>

(* Mutant: the enrolled member is left in the record. *)
RollbackRecordOnly(c) ==
    /\ c \in fading
    /\ fading' = fading \ {c}
    /\ groups' = IF c.created THEN release_empty_mirror(groups, c.group) ELSE groups
    /\ accepts' = IF c.place THEN [accepts EXCEPT !.reserved = @ - 1] ELSE accepts
    /\ UNCHANGED <<cast, scope, setup, shut, caller, member>>

(* ~ListenerGroupAdmission of a failed admission. *)
Rollback(c) ==
    LET left == IF c.enrolled THEN remove_member(groups, c.group, c.caller) ELSE groups IN
    /\ c \in fading
    /\ fading' = fading \ {c}
    /\ groups' = IF c.created THEN release_empty_mirror(left, c.group) ELSE left
    /\ accepts' = IF c.place THEN [accepts EXCEPT !.reserved = @ - 1] ELSE accepts
    /\ UNCHANGED <<cast, scope, setup, shut, caller, member>>

-----------------------------------------------------------------------------
(* What happens to an admitted group afterwards *)

Accept(g) ==
    /\ g \in accepts.queue
    /\ accepts' = [accepts EXCEPT !.queue = @ \ {g}, !.taken = @ \cup {g}]
    /\ UNCHANGED <<cast, groups, scope, setup, fading, shut, caller, member>>

(* GroupRegistry::close by the application that accepted the group: the     *)
(* record closes and its members' sockets with it.                          *)
CloseGroup(g) ==
    /\ g \in accepts.taken /\ groups[g].state = "open"
    /\ shut' = shut \cup groups[g].members
    /\ groups' = [groups EXCEPT ![g].state = "closed", ![g].members = {},
                                ![g].connected = {}]
    /\ UNCHANGED <<cast, scope, setup, fading, accepts, caller, member>>

(* A committed member's connection is lost; close_failed removes it. *)
Break(g, i) ==
    /\ i \in groups[g].connected /\ i \notin shut
    /\ \A l \in Listeners : setup[l] # NoSetup => setup[l].caller # i
    /\ groups' = [groups EXCEPT ![g] = Without(@, i)]
    /\ shut' = shut \cup {i}
    /\ UNCHANGED <<cast, scope, setup, fading, accepts, caller, member>>

-----------------------------------------------------------------------------
(* The caller group *)

(* connect_group_impl enrols a member and starts its handshake. *)
connect_group(i) ==
    /\ member[i].at = "idle" /\ cast.domain[i] # Absent
    /\ member' = [member EXCEPT ![i].at = "connecting"]
    /\ UNCHANGED <<cast, groups, scope, setup, fading, accepts, shut, caller>>

(* Mutant: only a confirmed pin is kept. *)
peer_group_admitsUnconfirmed(g) ==
    \/ cast.kind = "dispatch"
    \/ caller.peer_group \in {NoGroup, g}
    \/ ~caller.confirmed

(* A pin nobody established may be replaced once every holder has failed.   *)
(* The receivers of a dispatch stream are groups of their own.              *)
peer_group_admits(g) ==
    \/ cast.kind = "dispatch"
    \/ caller.peer_group \in {NoGroup, g}
    \/ ~caller.confirmed /\ \A i \in caller.holds : member[i].at = "failed"

(* The conclusion response names the mirror: the member joins the pin, or   *)
(* is rejected with SRT_REJ_GROUP.                                          *)
set_peer_group(i) ==
    LET g == member[i].mirror IN
    /\ member[i].at = "answered"
    /\ \/ /\ peer_group_admits(g)
          /\ caller' = [caller EXCEPT !.peer_group = g,
                          !.holds = (IF caller.peer_group = g THEN @ ELSE {}) \cup {i}]
          /\ member' = [member EXCEPT ![i].at = "pinned"]
       \/ /\ ~peer_group_admits(g)
          /\ member' = [member EXCEPT ![i].at = "failed"]
          /\ UNCHANGED caller
    /\ UNCHANGED <<cast, groups, scope, setup, fading, accepts, shut>>

(* attach_runtime, confirm_peer_group, then the member is published as      *)
(* connected.                                                               *)
confirm_peer_group(i) ==
    /\ member[i].at = "pinned"
    /\ caller' = IF i \in caller.holds THEN [caller EXCEPT !.confirmed = TRUE] ELSE caller
    /\ member' = [member EXCEPT ![i].at = "connected"]
    /\ UNCHANGED <<cast, groups, scope, setup, fading, accepts, shut>>

(* A handshake timeout, a failed attachment or a closed member socket. *)
FailMember(i) ==
    /\ member[i].at \in Started
    /\ member' = [member EXCEPT ![i].at = "failed"]
    /\ UNCHANGED <<cast, groups, scope, setup, fading, accepts, shut, caller>>

-----------------------------------------------------------------------------
ListenerStep(l) ==
    \/ \E i \in Callers : Admit(l, i)
    \/ prepare_group(l)
    \/ RefuseKeying(l)
    \/ add_member(l)
    \/ \E written \in BOOLEAN : Activate(l, written)
    \/ Commit(l)
    \/ Fail(l)

CallerStep(i) ==
    \/ connect_group(i)
    \/ set_peer_group(i)
    \/ confirm_peer_group(i)
    \/ FailMember(i)

Next ==
    \/ \E l \in Listeners : ListenerStep(l)
    \/ \E c \in fading : Rollback(c)
    \/ \E g \in Handles : Accept(g) \/ CloseGroup(g) \/ (\E i \in Callers : Break(g, i))
    \/ accept_bond_sockets
    \/ \E i \in Callers : CallerStep(i)

Spec == Init /\ [][Next]_vars

-----------------------------------------------------------------------------
(* The contexts a record's member may belong to. *)
Claimants(g) ==
    {setup[l].caller : l \in {k \in Listeners : setup[k] # NoSetup /\ setup[k].group = g}}
    \cup {c.caller : c \in {f \in fading : f.group = g}}

(* The lookup by peer group or stream key is never ambiguous: whatever the   *)
(* order of admissions, failures, closes and the bond, at most one open     *)
(* record answers a listener, an erased record has no members, and the      *)
(* members of a record are sockets still being admitted or connected.       *)
RegistrySound ==
    /\ \A g, h \in Handles :
        (g # h /\ groups[g].state = "open" /\ groups[h].state = "open"
               /\ groups[g].key = groups[h].key /\ groups[g].scope = groups[h].scope)
        => groups[g].scope = 0 /\ groups[g].listener # groups[h].listener
    /\ \A g \in Handles :
        /\ groups[g].state # "open" => groups[g].members = {}
        /\ groups[g].members \subseteq Claimants(g) \cup (groups[g].connected \ shut)

(* Every connected member of the caller group talks to the same mirror,     *)
(* the one the group is bound to, however its members' answers interleave   *)
(* with failures and with mirrors that come and go on the listener side     *)
(* (set_peer_group, confirm_peer_group).                                    *)
MembersShareMirror ==
    \A i \in Callers : member[i].at = "connected" /\ cast.kind = "bonding" =>
        member[i].mirror = caller.peer_group

(* srt_accept hands out a group at most once, and reserved places are those *)
(* of admissions that have not finished.                                    *)
OfferedOnce ==
    /\ accepts.queue \cap accepts.taken = {}
    /\ accepts.reserved =
         Cardinality({l \in Listeners : setup[l] # NoSetup /\ setup[l].place})
         + Cardinality({c \in fading : c.place})
    /\ accepts.reserved + Cardinality(accepts.queue) <= Backlog

(* "The first connected member publishes one mirror-group handle through    *)
(* srt_accept" (docs/connection-groups.md): an opened group with a          *)
(* connected member has been offered to the application, or a first member  *)
(* is still about to offer it.                                              *)
ConnectedGroupOffered ==
    \A g \in Handles :
        (groups[g].state = "open" /\ groups[g].opened /\ groups[g].connected # {})
        => groups[g].offered \/ (\E l \in Listeners : setup[l] # NoSetup /\ setup[l].group = g
                                                     /\ setup[l].first)

(* "One dispatch group exists per listener or bond, key and domain"         *)
(* (docs/connection-groups.md): a stream key is not served by two open      *)
(* groups that were created on one listener.                                *)
OneDispatchGroupPerKey ==
    \A g, h \in Handles :
        (g # h /\ cast.kind = "dispatch" /\ groups[g].state = "open"
               /\ groups[h].state = "open" /\ groups[g].listener = groups[h].listener)
        => groups[g].key # groups[h].key

=============================================================================
