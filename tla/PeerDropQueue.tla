---------------------------- MODULE PeerDropQueue ---------------------------
(***************************************************************************)
(* BasicPeerDropQueue: the deferred peer drops in an AVL tree that is laid *)
(* out in a preallocated array.  Nodes are found by the identity of their  *)
(* range; every node also names the entry of its subtree with the earliest *)
(* deadline, so the next due range is known without a search.  Erased      *)
(* slots are chained through their left link.                              *)
(***************************************************************************)
EXTENDS Integers, Sequences, FiniteSets, SequencesExt, FiniteSetsExt

CONSTANTS
    Capacity,     \* slots reserved at construction
    Identities,   \* identities of ranges, ordered like first << 32 | last
    Deadlines

None == 0         \* the code's none; slots are numbered from 1

VARIABLES
    entries_,     \* the initialised slots
    root_, free_entry_, cursor_, size_,
    held          \* history: the deadline of every range that was accepted

vars == <<entries_, root_, free_entry_, cursor_, size_, held>>

Entry(k, d, self) ==
    [key |-> k, deadline |-> d, left |-> None, right |-> None, earliest |-> self, height |-> 1]

(* A free slot; what its other fields held is overwritten before it is read. *)
Freed(next) ==
    [key |-> None, deadline |-> None, left |-> next, right |-> None, earliest |-> None, height |-> 0]

height(e, i) == IF i = None THEN 0 ELSE e[i].height

earlier(e, a, b) ==
    \/ e[a].deadline < e[b].deadline
    \/ e[a].deadline = e[b].deadline /\ e[a].key < e[b].key

(* Mutant: the earliest entry of a child is compared by key. *)
refreshByKey(e, n) ==
    LET candidates == {n} \cup {e[c].earliest : c \in {e[n].left, e[n].right} \ {None}}
    IN  [e EXCEPT ![n].height = 1 + Max({height(e, e[n].left), height(e, e[n].right)}),
                  ![n].earliest = CHOOSE a \in candidates : \A b \in candidates : e[a].key <= e[b].key]

(* The height and the earliest entry of a node from those of its children. *)
refresh(e, n) ==
    LET candidates == {n} \cup {e[c].earliest : c \in {e[n].left, e[n].right} \ {None}}
    IN  [e EXCEPT ![n].height = 1 + Max({height(e, e[n].left), height(e, e[n].right)}),
                  ![n].earliest = CHOOSE a \in candidates :
                                      \A b \in candidates \ {a} : earlier(e, a, b)]

(* Operations return the array and the root of the subtree. *)
Tree(e, n) == [e |-> e, n |-> n]

rotate_left(e, n) ==
    LET next == e[n].right
        linked == [e EXCEPT ![n].right = e[next].left, ![next].left = n]
    IN  Tree(refresh(refresh(linked, n), next), next)

rotate_right(e, n) ==
    LET next == e[n].left
        linked == [e EXCEPT ![n].left = e[next].right, ![next].right = n]
    IN  Tree(refresh(refresh(linked, n), next), next)

Skew(e, n) == height(e, e[n].left) - height(e, e[n].right)

balance(before, n) ==
    LET e == refresh(before, n)
        left == e[n].left
        right == e[n].right
    IN  IF Skew(e, n) > 1
        THEN IF Skew(e, left) < 0
             THEN LET t == rotate_left(e, left) IN rotate_right([t.e EXCEPT ![n].left = t.n], n)
             ELSE rotate_right(e, n)
        ELSE IF Skew(e, n) < -1
        THEN IF Skew(e, right) > 0
             THEN LET t == rotate_right(e, right) IN rotate_left([t.e EXCEPT ![n].right = t.n], n)
             ELSE rotate_left(e, n)
        ELSE Tree(e, n)

RECURSIVE insert_node(_, _, _)
insert_node(e, n, added) ==
    IF n = None THEN Tree(e, added)
    ELSE IF e[added].key < e[n].key
    THEN LET t == insert_node(e, e[n].left, added) IN balance([t.e EXCEPT ![n].left = t.n], n)
    ELSE LET t == insert_node(e, e[n].right, added) IN balance([t.e EXCEPT ![n].right = t.n], n)

RECURSIVE detach_first(_, _)
(* The leftmost node leaves the subtree; it is returned beside the tree. *)
detach_first(e, n) ==
    IF e[n].left = None THEN [e |-> e, n |-> e[n].right, detached |-> n]
    ELSE LET t == detach_first(e, e[n].left)
             b == balance([t.e EXCEPT ![n].left = t.n], n)
         IN  [e |-> b.e, n |-> b.n, detached |-> t.detached]

RECURSIVE erase_node(_, _, _)
erase_node(e, n, k) ==
    IF k < e[n].key
    THEN LET t == erase_node(e, e[n].left, k) IN balance([t.e EXCEPT ![n].left = t.n], n)
    ELSE IF k > e[n].key
    THEN LET t == erase_node(e, e[n].right, k) IN balance([t.e EXCEPT ![n].right = t.n], n)
    ELSE IF e[n].left = None THEN Tree(e, e[n].right)
    ELSE IF e[n].right = None THEN Tree(e, e[n].left)
    ELSE LET t == detach_first(e, e[n].right)
         IN  balance([t.e EXCEPT ![t.detached].left = e[n].left, ![t.detached].right = t.n], t.detached)

RECURSIVE Descends(_, _, _)
(* contains(): the descent of the tree from node n. *)
Descends(e, n, k) ==
    /\ n # None
    /\ \/ e[n].key = k
       \/ Descends(e, IF k < e[n].key THEN e[n].left ELSE e[n].right, k)

contains(k) == Descends(entries_, root_, k)
full == size_ = Capacity
first_due == IF size_ = 0 THEN None ELSE entries_[root_].earliest

-----------------------------------------------------------------------------
Init ==
    /\ entries_ = << >> /\ root_ = None /\ free_entry_ = None /\ cursor_ = 1 /\ size_ = 0
    /\ held = << >>

(* A new range takes a slot of the free list, else the next unused one. *)
insert(k, d) ==
    LET fresh == free_entry_ = None
        added == IF fresh THEN Len(entries_) + 1 ELSE free_entry_
        e == IF fresh THEN Append(entries_, Entry(k, d, added))
             ELSE [entries_ EXCEPT ![added] = Entry(k, d, added)]
        t == insert_node(e, root_, added)
    IN  /\ ~contains(k) /\ ~full
        /\ entries_' = t.e /\ root_' = t.n
        /\ free_entry_' = IF fresh THEN None ELSE entries_[free_entry_].left
        /\ size_' = size_ + 1
        /\ held' = [x \in DOMAIN held \cup {k} |-> IF x = k THEN d ELSE held[x]]
        /\ UNCHANGED cursor_

(* A due range, or one whose sequences the window has passed. *)
erase(i) ==
    LET t == erase_node(entries_, root_, entries_[i].key) IN
    /\ entries_[i].height > 0
    /\ entries_' = [t.e EXCEPT ![i] = Freed(free_entry_)]
    /\ root_' = t.n
    /\ free_entry_' = i
    /\ size_' = size_ - 1
    /\ held' = [x \in DOMAIN held \ {entries_[i].key} |-> held[x]]
    /\ UNCHANGED cursor_

next_to_inspect ==
    /\ entries_ # << >>
    /\ cursor_' = (cursor_ % Len(entries_)) + 1
    /\ UNCHANGED <<entries_, root_, free_entry_, size_, held>>

Next ==
    \/ \E k \in Identities, d \in Deadlines : insert(k, d)
    \/ \E i \in DOMAIN entries_ : erase(i)
    \/ next_to_inspect

Spec == Init /\ [][Next]_vars

-----------------------------------------------------------------------------
Live == {i \in DOMAIN entries_ : entries_[i].height > 0}

RECURSIVE Free(_)
Free(i) == IF i = None THEN {} ELSE {i} \cup Free(entries_[i].left)

RECURSIVE Under(_)
Under(n) == IF n = None THEN {} ELSE {n} \cup Under(entries_[n].left) \cup Under(entries_[n].right)

(* Whatever is inserted and erased in whatever order, every accepted range   *)
(* is found by its identity with its first deadline, the earliest entry is   *)
(* the next to be due, no node leans by more than one level, and a slot is   *)
(* either in the tree or free.  (BasicPeerDropQueue.)                        *)
PeerDropsFound ==
    /\ Under(root_) = Live /\ Free(free_entry_) = DOMAIN entries_ \ Live
    /\ size_ = Cardinality(Live)
    /\ {entries_[i].key : i \in Live} = DOMAIN held
    /\ \A i \in Live : /\ held[entries_[i].key] = entries_[i].deadline
                       /\ contains(entries_[i].key)
                       /\ Skew(entries_, i) \in -1 .. 1
    /\ Live # {} => \A i \in Live \ {first_due} : earlier(entries_, first_due, i)
=============================================================================
