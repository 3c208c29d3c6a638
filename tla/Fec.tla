-------------------------------- MODULE Fec --------------------------------
(***************************************************************************)
(* The built-in packet filter: XOR parity over rows, over columns or over  *)
(* both (a matrix) of the source packets.  The encoder is fed with every   *)
(* source when it leaves, the decoder with every packet that arrives and   *)
(* with the packets it rebuilds, and under arq:onreq only the sources the  *)
(* decoder gives up reach the loss list.                                   *)
(*                                                                         *)
(* Sources are numbered from 0 (the code's unwrapped index); on the wire   *)
(* they carry sequence numbers that wrap.  What parity protects (payload,  *)
(* length, timestamp, key flags) is a vector over XOR: that of source i is *)
(* {i} and XOR is the symmetric difference, so parity over the sources S   *)
(* is the set S and a packet was rebuilt right iff {i} is left.            *)
(***************************************************************************)
EXTENDS SequenceNumber, Sequences, FiniteSets, SequencesExt, Bitwise

CONSTANTS
    Casts,              \* options and bounds of one behaviour
    Start,              \* initial_sequence_
    MessageNumbers      \* message numbers in use, 1 .. 2^26 - 1 in the code

(***************************************************************************)
(* A cast: mode, columns, rows, layout and arq of the filter, window (the  *)
(* receive capacity), checked (the session authenticates DATA, so that a   *)
(* rebuilt packet is verified), long (sources longer than the receiver's   *)
(* recovery buffer), and the bounds: sources sent, skips (sources dropped  *)
(* before they were sent), reach (how far the sender gets ahead of the     *)
(* window by that), losses, late (packets that are delayed or duplicated)  *)
(* and drops (holes the receiver skips).                                   *)
(***************************************************************************)
VARIABLES
    cast,
    next,       \* the next source of the sender
    skipped,    \* sources the sender dropped
    encoder,    \* the open row and column groups
    wire,       \* packets just sent, in order
    delayed,    \* packets that may still arrive
    row,        \* RowFecDecoder
    column,     \* ColumnFecDecoder
    floor,      \* first_stored_sequence of the receive buffer, as an index
    settled,    \* sources from there on the receive buffer has accepted
    reported,   \* sources from there on in the filter loss list
    mangled,    \* packets that were rebuilt wrong
    overflown,  \* some packet returned buffer_too_small
    spent       \* what is used up of the bounds

vars == <<cast, next, skipped, encoder, wire, delayed, row, column, floor, settled, reported, mangled, overflown,
          spent>>

Seq_(i) == Advanced(Start, i)
xor_payload(a, b) == (a \ b) \cup (b \ a)
columns_ == cast.columns
rows_ == cast.rows
matrix_size_ == columns_ * rows_
Rows == cast.mode \in {"row", "matrix"}
Columns == cast.mode \in {"column", "matrix"}

(* One-based message numbers that wrap; sources are solo messages. *)
MessageNumber(i) == (i % MessageNumbers) + 1
advance_message_number(anchor, distance) == ((anchor - 1 + distance) % MessageNumbers) + 1

(* 0 ^^ 1 ^^ ... ^^ value *)
xor_through(value) ==
    CASE value % 4 = 0 -> value [] value % 4 = 1 -> 1 [] value % 4 = 2 -> value + 1 [] OTHER -> 0

-----------------------------------------------------------------------------
(* Where a source lies: the ordinal of its group, its position in it, and    *)
(* the index of the group's first source.  Rows: consecutive sources.        *)
RowOf(i) == [ordinal |-> i \div columns_, series |-> i \div columns_, position |-> i % columns_,
             base |-> (i \div columns_) * columns_]

first_base(c) == IF cast.layout = "even" THEN c ELSE c + (c % rows_) * columns_

ColumnGroup(series, c, position) ==
    [ordinal |-> series * columns_ + c, series |-> series, position |-> position,
     base |-> first_base(c) + series * matrix_size_]

Nowhere == [ordinal |-> -1, series |-> -1, position |-> -1, base |-> -1]

(* Columns: every columns_-th source, from the column's first base on.  The  *)
(* sources before it belong to no column.                                    *)
locate_source(i) ==
    LET c == i % columns_
        distance == i - first_base(c)
    IN  IF distance < 0 THEN Nowhere
        ELSE ColumnGroup(distance \div matrix_size_, c, (distance % matrix_size_) \div columns_)

locate_control(i, c) ==
    LET distance == i - (rows_ - 1) * columns_ - first_base(c)
    IN  IF distance < 0 \/ distance % matrix_size_ # 0 THEN Nowhere
        ELSE ColumnGroup(distance \div matrix_size_, c, rows_ - 1)

Size(dim) == IF dim = "row" THEN columns_ ELSE rows_
Stride(dim) == IF dim = "row" THEN 1 ELSE columns_

-----------------------------------------------------------------------------
(* The encoder. *)
Control(dim, c, i, recovery) == [kind |-> "control", dim |-> dim, column |-> c, index |-> i, recovery |-> recovery]
Source(i) == [kind |-> "source", index |-> i, recovery |-> {i}, number |-> MessageNumber(i)]

NewGroup(series) == [series |-> series, collected |-> 0, recovery |-> {}, abandoned |-> FALSE]

(* RowFecEncoder: a row with a source missing ends without parity. *)
FedRow(e, group, i) ==
    IF i % columns_ # columns_ - 1 \/ group.collected # columns_ THEN [e EXCEPT !.row = group]
    ELSE [e EXCEPT !.row = group, !.ready = @ \o <<Control("row", 0, i, group.recovery)>>]

FeedRow(e, at, i) ==
    LET group == IF e.row.series = at.series THEN e.row ELSE NewGroup(at.series)
    IN  FedRow(e, [group EXCEPT !.collected = @ + 1, !.recovery = xor_payload(@, {i})], i)

(* ColumnFecEncoder: a series with a source missing is abandoned. *)
FedColumn(e, group, c, i) ==
    IF group.collected # rows_ THEN [e EXCEPT !.column[c] = group]
    ELSE [e EXCEPT !.column[c] = group, !.ready = <<Control("column", c, i, group.recovery)>> \o @]

FeedColumn(e, at, c, i) ==
    LET group == IF e.column[c].series = at.series THEN e.column[c] ELSE NewGroup(at.series)
    IN  IF at = Nowhere \/ group.abandoned THEN e
        ELSE IF group.collected # at.position THEN [e EXCEPT !.column[c] = [group EXCEPT !.abandoned = TRUE]]
        ELSE FedColumn(e, [group EXCEPT !.collected = @ + 1, !.recovery = xor_payload(@, {i})], c, i)

(* Both dimensions see every source; a column's control goes out first. *)
FeedRowOf(e, i) == IF Rows THEN FeedRow(e, RowOf(i), i) ELSE e
FeedColumnOf(e, i) == IF Columns THEN FeedColumn(e, locate_source(i), i % columns_, i) ELSE e
feed_source(e, i) == FeedColumnOf(FeedRowOf(e, i), i)

-----------------------------------------------------------------------------
(* The decoder: a ring of groups, addressed by their ordinal. *)
group_slots(dim) ==
    IF dim = "row" THEN ((cast.window + columns_ - 1) \div columns_) + 3
    ELSE ((cast.window + rows_ - 1) \div rows_) + 3 * columns_

Group(dim, at) ==
    [active |-> TRUE, ordinal |-> at.ordinal, series |-> at.series, base |-> at.base, collected |-> 0,
     missing |-> xor_through(Size(dim) - 1), recovery |-> {}, anchor |-> {}, seen |-> {},
     has_control |-> FALSE, reconstructed |-> FALSE, rejected |-> FALSE, dismissed |-> FALSE]

Unused == [active |-> FALSE, ordinal |-> 0, series |-> 0, base |-> 0, collected |-> 0, missing |-> 0,
           recovery |-> {}, anchor |-> {}, seen |-> {}, has_control |-> FALSE, reconstructed |-> FALSE,
           rejected |-> FALSE, dismissed |-> FALSE]

NewDecoder(dim) ==
    [dim |-> dim, latest |-> 0, index |-> 0, has_latest |-> FALSE, retained |-> 0, recoverable |-> 0,
     groups |-> [k \in 0 .. group_slots(dim) - 1 |-> Unused]]

(* Nothing rebuilt, nothing given up. *)
Result(d) == [d |-> d, rebuilt |-> {}, losses |-> {}, overflow |-> FALSE, error |-> FALSE]

(* The index of a sequence number, next to the newest one known; -1: none. *)
unwrap_sequence(d, s) ==
    LET forward == (s - Start) % Modulus
        distance == DistanceFrom(s, d.latest)
    IN  IF ~d.has_latest THEN
            IF forward >= HalfRange THEN [d |-> d, index |-> -1]
            ELSE [d |-> [d EXCEPT !.latest = s, !.index = forward, !.has_latest = TRUE], index |-> forward]
        ELSE IF distance > 0 THEN [d |-> [d EXCEPT !.latest = s, !.index = @ + distance], index |-> d.index + distance]
        ELSE [d |-> d, index |-> IF d.index + distance < 0 THEN -1 ELSE d.index + distance]

InWindow(s, from) == DistanceFrom(s, from) >= 0 /\ DistanceFrom(s, from) < cast.window

(* A window or more ahead of everything known. *)
Ahead(d, s) ==
    IF d.has_latest THEN DistanceFrom(s, d.latest) >= cast.window ELSE (s - Start) % Modulus >= cast.window

(* The first group kept after a jump to index i; first is the first index of *)
(* the receive window, or -1.                                                *)
RetainedAt(d, i, first) ==
    CASE d.dim = "row" -> (IF first < 0 THEN i ELSE first) \div columns_
      [] d.dim = "column" /\ first >= 0 -> IF first < matrix_size_ THEN 0 ELSE (first \div matrix_size_) - 1
      [] OTHER -> IF locate_source(i) = Nowhere THEN i \div matrix_size_ ELSE locate_source(i).series

Anchored(u, resynchronize, first) ==
    LET moved == [u.d EXCEPT !.recoverable = IF first > @ THEN first ELSE @]
    IN  IF u.index < 0 THEN u
        ELSE IF ~resynchronize THEN [u EXCEPT !.d = moved]
        ELSE [u EXCEPT !.d = [moved EXCEPT !.groups = [k \in DOMAIN @ |-> Unused],
                                           !.retained = RetainedAt(u.d, u.index, first)]]

FirstIndex(index, s, from) ==
    IF from = {} \/ \E o \in from : index < DistanceFrom(s, o) THEN -1
    ELSE CHOOSE f \in {index - DistanceFrom(s, o) : o \in from} : TRUE

UnwrapSource(d, u, s, from) == Anchored(u, Ahead(d, s), FirstIndex(u.index, s, from))

(* from is the first sequence of the receive window, or nothing for a packet *)
(* that the other dimension rebuilt.  Parity never moves the window, and     *)
(* nothing at all where it is not authenticated with the DATA.               *)
unwrap(d, s, source, from) ==
    IF \E o \in from : ~InWindow(s, o) THEN [d |-> d, index |-> -1]
    ELSE IF ~source /\ cast.checked THEN
         [d |-> d,
          index |-> IF DistanceFrom(s, IF d.has_latest THEN d.latest ELSE Start) >= cast.window THEN -1
                    ELSE unwrap_sequence(d, s).index]
    ELSE IF Ahead(d, s) /\ ~source THEN [d |-> d, index |-> -1]
    ELSE UnwrapSource(d, unwrap_sequence(d, s), s, from)

Slot(d, ordinal) == ordinal % Cardinality(DOMAIN d.groups)
Has(d, ordinal) == d.groups[Slot(d, ordinal)].active /\ d.groups[Slot(d, ordinal)].ordinal = ordinal

(* The group at a location, opened if the slot is free or holds one that is  *)
(* not needed any more; with authenticated DATA parity displaces nothing and *)
(* a group without a source is displaced by one.  Slot -1: none.             *)
Opened(d, at, k) ==
    LET g == d.groups[k]
    IN  IF d.dim = "row" /\ (at.ordinal < d.retained \/ (g.active /\ g.ordinal > at.ordinal))
        THEN [d |-> d, slot |-> -1, overflow |-> FALSE]
        ELSE IF d.dim = "column" /\ g.active /\ g.series >= d.retained
        THEN [d |-> d, slot |-> -1, overflow |-> TRUE]
        ELSE [d |-> [d EXCEPT !.groups[k] = Group(d.dim, at)], slot |-> k, overflow |-> FALSE]

group_for(d, at, source) ==
    LET k == Slot(d, at.ordinal)
        g == d.groups[k]
    IN  IF Has(d, at.ordinal) THEN [d |-> d, slot |-> k, overflow |-> FALSE]
        ELSE IF cast.checked /\ g.active /\ ~source THEN [d |-> d, slot |-> -1, overflow |-> FALSE]
        ELSE Opened(IF cast.checked /\ source /\ g.collected = 0 THEN [d EXCEPT !.groups[k] = Unused] ELSE d, at, k)

clip_source(d, k, at, p) ==
    [d EXCEPT !.groups[k].seen = @ \cup {at.position},
              !.groups[k].recovery = xor_payload(@, p.recovery),
              !.groups[k].missing = @ ^^ at.position,
              !.groups[k].anchor = IF @ = {} THEN {<<p.index, p.number>>} ELSE @,
              !.groups[k].collected = @ + 1]

(* Mutant: parity that arrives twice is added twice. *)
clip_controlAgain(d, k, p) ==
    [d EXCEPT !.groups[k].recovery = xor_payload(@, p.recovery), !.groups[k].has_control = TRUE]

clip_control(d, k, p) ==
    IF d.groups[k].has_control THEN d
    ELSE [d EXCEPT !.groups[k].recovery = xor_payload(@, p.recovery), !.groups[k].has_control = TRUE]

(* What is left of the XOR, as the packet with the missing position. *)
Reconstructed(d, g) ==
    LET index == g.base + g.missing * Stride(d.dim)
        anchor == CHOOSE a \in g.anchor : TRUE
    IN  [kind |-> "source", index |-> index, recovery |-> g.recovery,
         number |-> advance_message_number(anchor[2], index - anchor[1])]

(* One source missing and parity there.  A source longer than the recovery   *)
(* buffer cannot be rebuilt, and with authenticated DATA a packet that does  *)
(* not verify is refused.                                                    *)
try_reconstruct(d, k) ==
    LET g == d.groups[k]
    IN  IF ~g.has_control \/ g.reconstructed \/ g.rejected \/ g.dismissed \/ g.collected # Size(d.dim) - 1
        THEN Result(d)
        ELSE IF g.missing >= Size(d.dim)
        THEN [Result([d EXCEPT !.groups[k].rejected = cast.checked]) EXCEPT !.error = ~cast.checked]
        ELSE IF g.recovery \cap cast.long # {} THEN Result(d)
        ELSE IF cast.checked /\ Reconstructed(d, g) # Source(Reconstructed(d, g).index)
        THEN Result([d EXCEPT !.groups[k].rejected = TRUE])
        ELSE [Result([d EXCEPT !.groups[k].seen = @ \cup {g.missing}, !.groups[k].collected = @ + 1,
                               !.groups[k].reconstructed = TRUE])
              EXCEPT !.rebuilt = {Reconstructed(d, g)}]

-----------------------------------------------------------------------------
(* Giving up: what a group that is let go has not seen. *)
Unseen(d, at, seen) ==
    IF cast.arq # "onreq" THEN {}
    ELSE {i \in {at.base + p * Stride(d.dim) : p \in (0 .. Size(d.dim) - 1) \ seen} : i >= d.recoverable}

SeenIn(d, ordinal) == IF Has(d, ordinal) THEN d.groups[Slot(d, ordinal)].seen ELSE {}

(* Rows end one third into the next but one; a matrix leaves it to its       *)
(* columns.                                                                  *)
RetainFrom(d, at) ==
    IF at.series >= 1 /\ at.position > columns_ \div 3 THEN at.series
    ELSE IF at.series >= 2 THEN at.series - 1 ELSE d.retained

ExpireRows(d, gone) ==
    [Result([d EXCEPT !.retained = @ + Cardinality(gone),
                      !.groups = [k \in DOMAIN @ |-> IF @[k].ordinal \in gone THEN Unused ELSE @[k]]])
     EXCEPT !.losses = UNION {Unseen(d, RowOf(r * columns_), SeenIn(d, r)) : r \in gone}]

advance_row_expiry(d, at) ==
    IF cast.mode = "matrix" \/ RetainFrom(d, at) <= d.retained THEN Result(d)
    ELSE ExpireRows(d, d.retained .. RetainFrom(d, at) - 1)

(* A column that ends is dismissed; one nothing arrived of is opened for it. *)
Dismiss(r, at, f) ==
    IF f.slot < 0 THEN [r EXCEPT !.d = f.d, !.overflow = @ \/ f.overflow]
    ELSE IF f.d.groups[f.slot].dismissed THEN [r EXCEPT !.d = f.d]
    ELSE [r EXCEPT !.d = [f.d EXCEPT !.groups[f.slot].dismissed = TRUE],
                   !.losses = @ \cup Unseen(f.d, at, f.d.groups[f.slot].seen)]

(* Mutant: a group none of whose packets arrived is let go unreported. *)
expire_groupKnown(r, at) ==
    [Dismiss(r, at, group_for(r.d, at, TRUE)) EXCEPT !.losses = IF Has(r.d, at.ordinal) THEN @ ELSE r.losses]

expire_group(r, at) == Dismiss(r, at, group_for(r.d, at, TRUE))

(* The columns of earlier series that end at or before index i. *)
Ended(d, series, i) ==
    SetToSortSeq({o \in d.retained * columns_ .. series * columns_ - 1 :
                     ColumnGroup(o \div columns_, o % columns_, 0).base + (rows_ - 1) * columns_ <= i}, <)

DismissedSeries(d, series) ==
    \A c \in 0 .. columns_ - 1 :
        Has(d, series * columns_ + c) /\ d.groups[Slot(d, series * columns_ + c)].dismissed

Retire(r, series) ==
    LET open == {s \in r.d.retained .. series - 1 : ~DismissedSeries(r.d, s)}
    IN  IF series <= r.d.retained THEN r
        ELSE [r EXCEPT !.d.retained = IF open = {} THEN series ELSE CHOOSE s \in open : \A t \in open : s <= t]

advance_column_expiry(r, series, i) ==
    Retire(FoldLeft(LAMBDA x, o : expire_group(x, ColumnGroup(o \div columns_, o % columns_, 0)),
                    r, Ended(r.d, series, i)),
           series)

-----------------------------------------------------------------------------
Failed(d) == [Result(d) EXCEPT !.error = TRUE]

(* RowFecDecoder::receive: expiry comes before the packet's own row. *)
ControlInRow(x, f, p) ==
    IF f.slot < 0 THEN [x EXCEPT !.d = f.d]
    ELSE [try_reconstruct(clip_control(f.d, f.slot, p), f.slot) EXCEPT !.losses = x.losses]

RowControlAt(x, at, p) == ControlInRow(x, group_for(x.d, at, FALSE), p)

RowControl(u, p) ==
    LET at == RowOf(u.index)
    IN  IF u.index < 0 \/ at.position # columns_ - 1 THEN Failed(u.d)
        ELSE RowControlAt(IF cast.checked THEN Result(u.d) ELSE advance_row_expiry(u.d, at), at, p)

SourceInRow(x, f, at, p) ==
    IF f.slot < 0 THEN [x EXCEPT !.d = f.d]
    ELSE IF at.position \in f.d.groups[f.slot].seen THEN [x EXCEPT !.d = f.d]
    ELSE [try_reconstruct(clip_source(f.d, f.slot, at, p), f.slot) EXCEPT !.losses = x.losses]

RowSourceAt(x, at, p) == SourceInRow(x, group_for(x.d, at, TRUE), at, p)

RowSource(u, p) ==
    IF u.index < 0 \/ u.d.index - u.index >= cast.window THEN Result(u.d)
    ELSE RowSourceAt(advance_row_expiry(u.d, RowOf(u.index)), RowOf(u.index), p)

(* ColumnFecDecoder::receive: expiry comes after the packet's own column. *)
ControlInColumn(f, at, p, i) ==
    IF f.slot < 0 THEN [Result(f.d) EXCEPT !.overflow = f.overflow]
    ELSE LET d == IF f.d.groups[f.slot].dismissed THEN f.d ELSE clip_control(f.d, f.slot, p)
         IN  IF cast.checked THEN try_reconstruct(d, f.slot)
             ELSE advance_column_expiry(try_reconstruct(d, f.slot), at.series, i)

ColumnControl(u, at, p) ==
    IF u.index < 0 \/ at = Nowhere THEN Failed(u.d)
    ELSE IF at.series < u.d.retained THEN Result(u.d)
    ELSE ControlInColumn(group_for(u.d, at, FALSE), at, p, u.index)

SourceInColumn(f, at, p, i) ==
    IF f.slot < 0 THEN [Result(f.d) EXCEPT !.overflow = f.overflow]
    ELSE IF f.d.groups[f.slot].dismissed \/ at.position \in f.d.groups[f.slot].seen THEN Result(f.d)
    ELSE advance_column_expiry(try_reconstruct(clip_source(f.d, f.slot, at, p), f.slot), at.series, i)

ColumnSource(u, at, p) ==
    IF u.index < 0 \/ u.d.index - u.index >= cast.window \/ at = Nowhere THEN Result(u.d)
    ELSE IF at.series < u.d.retained THEN Result(u.d)
    ELSE SourceInColumn(group_for(u.d, at, TRUE), at, p, u.index)

Located(u, p) ==
    IF u.index < 0 THEN Nowhere
    ELSE IF p.kind = "control" THEN locate_control(u.index, p.column) ELSE locate_source(u.index)

(* More losses than the result holds, or a slot that is still in use: the    *)
(* packet returns buffer_too_small and no losses.                            *)
finish_result(r) ==
    LET entries == IF r.d.dim = "row" THEN {i \in r.losses : i - 1 \notin r.losses} ELSE r.losses
        full == r.overflow \/ Cardinality(entries) > 2 * cast.window
    IN  [r EXCEPT !.overflow = full, !.error = @ \/ full, !.losses = IF full THEN {} ELSE @]

Unwrapped(u, p) ==
    IF u.d.dim = "row" THEN IF p.kind = "control" THEN RowControl(u, p) ELSE RowSource(u, p)
    ELSE IF p.kind = "control" THEN ColumnControl(u, Located(u, p), p) ELSE ColumnSource(u, Located(u, p), p)

receive(d, p, from) ==
    IF p.kind = "control" /\ \E o \in from : DistanceFrom(Seq_(p.index), o) < 0 THEN Result(d)
    ELSE finish_result(Unwrapped(unwrap(d, Seq_(p.index), p.kind = "source", from), p))

-----------------------------------------------------------------------------
(* What a packet does to the decoders. *)
Outcome == [row |-> row, column |-> column, rebuilt |-> {}, losses |-> {}, overflow |-> FALSE, error |-> FALSE]

Taken(o, r) ==
    [o EXCEPT !.row = IF r.d.dim = "row" THEN r.d ELSE @,
              !.column = IF r.d.dim = "column" THEN r.d ELSE @,
              !.overflow = @ \/ r.overflow, !.error = r.error,
              !.losses = IF cast.mode = "matrix" /\ (r.error \/ r.d.dim = "row") THEN @ ELSE @ \cup r.losses]

Decoder(o, dim) == IF dim = "row" THEN o.row ELSE o.column

(* Mutant: a rebuilt packet is not fed to the other dimension. *)
drain_once(o, r, current) ==
    IF \A q \in r.rebuilt : q.index \in current THEN Taken(o, r)
    ELSE [Taken(o, r) EXCEPT !.rebuilt = @ \cup r.rebuilt]

(* A packet one dimension of a matrix rebuilds is fed to the other, and so   *)
(* on; current is the source that started it.                                *)
RECURSIVE drain_reconstruction_chain(_, _, _)
drain_reconstruction_chain(o, r, current) ==
    LET packet == CHOOSE q \in r.rebuilt : TRUE
        grown == [Taken(o, r) EXCEPT !.rebuilt = @ \cup {packet}]
    IN  IF r.rebuilt = {} \/ (cast.mode = "matrix" /\ r.error) THEN Taken(o, r)
        ELSE IF cast.mode # "matrix" THEN grown
        ELSE IF packet.index \in current THEN Taken(o, r)
        ELSE IF Cardinality(o.rebuilt) = cast.window THEN [Taken(o, r) EXCEPT !.error = TRUE, !.overflow = TRUE]
        ELSE drain_reconstruction_chain(
                 grown, receive(Decoder(o, IF r.d.dim = "row" THEN "column" ELSE "row"), packet, {}), current)

(* Parity belongs to one dimension; both see a source, rows first. *)
receive_fec_packet(p) ==
    LET dimensions == IF p.kind = "control" THEN <<p.dim>>
                      ELSE SelectSeq(<<"row", "column">>, LAMBDA dim : cast.mode \in {dim, "matrix"})
        current == IF p.kind = "source" THEN {p.index} ELSE {}
    IN  FoldLeft(LAMBDA o, dim : IF o.error THEN o
                                 ELSE drain_reconstruction_chain(o, receive(Decoder(o, dim), p, {Seq_(floor)}), current),
                 Outcome, dimensions)

-----------------------------------------------------------------------------
Init ==
    /\ cast \in Casts
    /\ next = 0
    /\ skipped = {}
    /\ encoder = [row |-> NewGroup(0), column |-> [c \in 0 .. columns_ - 1 |-> NewGroup(0)], ready |-> <<>>]
    /\ wire = <<>>
    /\ delayed = {}
    /\ row = NewDecoder("row")
    /\ column = NewDecoder("column")
    /\ floor = 0
    /\ settled = {}
    /\ reported = {}
    /\ mangled = {}
    /\ overflown = FALSE
    /\ spent = [skips |-> 0, losses |-> 0, late |-> 0, drops |-> 0]

receiver == <<row, column, floor, settled, reported, mangled, overflown>>

(* A source and the parity that is ready after it leave before the next. *)
SendSource ==
    /\ wire = <<>>
    /\ next < cast.sources
    /\ next < floor + cast.window + cast.reach
    /\ LET fed == feed_source(encoder, next)
       IN  /\ wire' = <<Source(next)>> \o fed.ready
           /\ encoder' = [fed EXCEPT !.ready = <<>>]
    /\ next' = next + 1
    /\ UNCHANGED <<cast, skipped, delayed, receiver, spent>>

(* The sender drops a source that was never sent: it is not fed. *)
SkipSource ==
    /\ wire = <<>>
    /\ next < cast.sources
    /\ next < floor + cast.window + cast.reach
    /\ spent.skips < cast.skips
    /\ skipped' = skipped \cup {next}
    /\ next' = next + 1
    /\ spent' = [spent EXCEPT !.skips = @ + 1]
    /\ UNCHANGED <<cast, encoder, wire, delayed, receiver>>

(* One DATA datagram at the receiver: the decoder first, then the receive    *)
(* buffer gets the source and what was rebuilt, then the losses are taken    *)
(* over.  An error keeps nothing but the source itself and its losses.       *)
InReceiveWindow(i) == i \in floor .. floor + cast.window - 1

report_filter_losses(losses, accepted) ==
    IF cast.arq # "onreq" THEN {} ELSE {i \in losses : InReceiveWindow(i) /\ i \notin accepted}

Accept(o, accepted) ==
    /\ row' = o.row
    /\ column' = o.column
    /\ settled' = accepted
    /\ reported' = (reported \ accepted) \cup report_filter_losses(o.losses, accepted)
    /\ mangled' = mangled \cup {q \in o.rebuilt : q # Source(q.index)}
    /\ overflown' = (overflown \/ o.overflow)

Filtered(o, p) ==
    LET packets == (IF p.kind = "source" THEN {p} ELSE {}) \cup (IF o.error THEN {} ELSE o.rebuilt)
    IN  Accept(o, settled \cup {i \in {q.index : q \in packets} : InReceiveWindow(i)})

Arrived(p) == Filtered(receive_fec_packet(p), p)

(* What may arrive: the packet at the head of the wire, or a copy of it; one *)
(* that was delayed; the answer to a report (every hole under arq:always).   *)
Requested ==
    LET holes == (floor .. next - 1) \ (settled \cup skipped)
    IN  CASE cast.arq = "always" -> holes [] cast.arq = "onreq" -> holes \cap reported [] OTHER -> {}

Arrive(p) ==
    \/ /\ wire # <<>> /\ p = Head(wire)
       /\ wire' = Tail(wire)
       /\ UNCHANGED <<delayed, spent>>
    \/ /\ wire # <<>> /\ p = Head(wire)
       /\ spent.late < cast.late
       /\ wire' = Tail(wire)
       /\ delayed' = delayed \cup {p}
       /\ spent' = [spent EXCEPT !.late = @ + 1]
    \/ /\ p \in delayed
       /\ delayed' = delayed \ {p}
       /\ UNCHANGED <<wire, spent>>
    \/ /\ p \in {Source(i) : i \in Requested}
       /\ UNCHANGED <<wire, delayed, spent>>

Receive ==
    \E p \in (IF wire = <<>> THEN {} ELSE {Head(wire)}) \cup delayed \cup {Source(i) : i \in Requested} :
        /\ Arrive(p)
        /\ Arrived(p)
        /\ UNCHANGED <<cast, next, skipped, encoder, floor>>

Delay ==
    /\ wire # <<>>
    /\ spent.late < cast.late
    /\ delayed' = delayed \cup {Head(wire)}
    /\ wire' = Tail(wire)
    /\ spent' = [spent EXCEPT !.late = @ + 1]
    /\ UNCHANGED <<cast, next, skipped, encoder, receiver>>

Lose ==
    /\ wire # <<>>
    /\ spent.losses < cast.losses
    /\ wire' = Tail(wire)
    /\ spent' = [spent EXCEPT !.losses = @ + 1]
    /\ UNCHANGED <<cast, next, skipped, encoder, delayed, receiver>>

(* The application takes the head of the receive buffer ... *)
Advance(first) ==
    /\ floor' = first
    /\ settled' = {i \in settled : i >= first}
    /\ reported' = {i \in reported : i >= first}
    /\ UNCHANGED <<cast, next, skipped, encoder, wire, delayed, row, column, mangled, overflown>>

Pop == floor \in settled /\ Advance(floor + 1) /\ UNCHANGED spent

(* ... or the hole at the head is dropped, by the peer or as too late. *)
DropHole ==
    /\ spent.drops < cast.drops
    /\ \E first \in floor + 1 .. next :
          (floor .. first - 1) \cap settled = {} /\ Advance(first)
    /\ spent' = [spent EXCEPT !.drops = @ + 1]

Next ==
    \/ SendSource
    \/ SkipSource
    \/ Receive
    \/ Delay
    \/ Lose
    \/ Pop
    \/ DropHole

Spec == Init /\ [][Next]_vars

-----------------------------------------------------------------------------
(* Every packet the decoder rebuilds is the source that was lost: its        *)
(* payload, length, timestamp and key, and its message number (RowFecDecoder *)
(* and ColumnFecDecoder::try_reconstruct), whatever was duplicated, late,    *)
(* dropped by the sender or rebuilt before.                                  *)
RebuiltIsSource == mangled = {}

(* The group of a source that the decoder has let go. *)
GivenUp(i) ==
    IF cast.mode = "row" THEN i \div columns_ < row.retained
    ELSE LET at == locate_source(i)
         IN  /\ at # Nowhere
             /\ \/ at.series < column.retained
                \/ Has(column, at.ordinal) /\ column.groups[Slot(column, at.ordinal)].dismissed

(* A source that lies so far back that its group must have been let go. *)
Overdue(i) ==
    IF cast.mode = "row" THEN (i \div columns_) + 1 < row.index \div columns_
    ELSE locate_source(i) # Nowhere /\ locate_source(i).base + 2 * matrix_size_ <= column.index

(* With arq:onreq the decoder is the only source of loss reports (expire_row *)
(* and expire_group): a hole of the receive buffer whose group was let go,   *)
(* or is two groups behind, is in the filter loss list.  A hole it forgot    *)
(* would never be asked for.                                                 *)
HolesReported ==
    cast.arq = "onreq" =>
        \A i \in floor .. next - 1 : (GivenUp(i) \/ Overdue(i)) => i \in settled \cup reported

(* No group waits with its parity and all sources but one: whatever order    *)
(* they came in, and along a chain through the other dimension               *)
(* (drain_reconstruction_chain), the last one was rebuilt unless the buffer  *)
(* is too short for it.  What the decoder counts as seen the receive buffer  *)
(* has, and no slot of the rings is ever needed twice.                       *)
RecoveryComplete ==
    /\ ~overflown
    /\ \A d \in (IF Rows THEN {row} ELSE {}) \cup (IF Columns THEN {column} ELSE {}) :
         \A k \in {k \in DOMAIN d.groups : d.groups[k].active} :
            LET g == d.groups[k]
                At(p) == g.base + p * Stride(d.dim)
                unseen == {p \in (0 .. Size(d.dim) - 1) \ g.seen : At(p) \notin settled}
            IN  /\ \A p \in g.seen : At(p) >= floor => At(p) \in settled
                /\ (g.has_control /\ ~g.dismissed /\ Cardinality(unseen) = 1)
                       => \A p \in unseen : At(p) \in cast.long

=============================================================================
