--------------------------- MODULE SequenceNumber ---------------------------
(***************************************************************************)
(* Serial-number arithmetic of sequence.hpp: a wire sequence number is a   *)
(* residue modulo Modulus (2^31 in the code: SequenceNumber::mask + 1), and *)
(* its order is only defined between numbers less than half the space      *)
(* apart.                                                                  *)
(***************************************************************************)
EXTENDS Integers, TLAPS

CONSTANT Modulus   \* size of the wire sequence space (2^31 in the code)

ASSUME ModulusAssumption == Modulus \in Nat /\ Modulus >= 2 /\ Modulus % 2 = 0

SeqNum == 0 .. Modulus - 1

(* SequenceNumber::half_range *)
HalfRange == Modulus \div 2

(* SequenceNumber::advanced; n may be Modulus - 1, the code's way to step back. *)
Advanced(s, n) == (s + n) % Modulus

NextSeq(s) == Advanced(s, 1)

PrevSeq(s) == Advanced(s, Modulus - 1)

(* SequenceNumber::distance_from: the signed distance of s from the origin o. *)
DistanceFrom(s, o) ==
  LET forward == (s - o) % Modulus
  IN  IF forward < HalfRange THEN forward ELSE forward - Modulus

-----------------------------------------------------------------------------
(* Facts about this arithmetic, for every even modulus.  They justify the    *)
(* models that count packets with unbounded positions: as long as two        *)
(* positions are less than half the space apart, comparing their wire        *)
(* numbers with distance_from() is comparing the positions.                  *)

(* The wire number of an unbounded position. *)
Wire(p) == p % Modulus

(* A residue and its quotient reconstruct the number. *)
LEMMA Division ==
  ASSUME NEW p \in Int
  PROVE  /\ p % Modulus \in SeqNum
         /\ p \div Modulus \in Int
         /\ p = Modulus * (p \div Modulus) + (p % Modulus)
  BY ModulusAssumption, SMT DEF SeqNum

(* A multiple of the modulus that is smaller than the modulus is zero. *)
LEMMA SmallMultiple ==
  ASSUME NEW k \in Int, -Modulus < Modulus * k, Modulus * k < Modulus
  PROVE  k = 0
<1>1. CASE k >= 1   BY <1>1, ModulusAssumption, SMT
<1>2. CASE k <= -1  BY <1>2, ModulusAssumption, SMT
<1>3. QED           BY <1>1, <1>2

(* The residue is determined by any decomposition of the number. *)
LEMMA ResidueUnique ==
  ASSUME NEW p \in Int, NEW k \in Int, NEW r \in SeqNum, p = Modulus * k + r
  PROVE  p % Modulus = r
<1> DEFINE q == p \div Modulus
<1>1. q \in Int /\ p % Modulus \in SeqNum /\ p = Modulus * q + (p % Modulus)
  BY Division
<1>2. Modulus * (k - q) = (p % Modulus) - r
  BY <1>1, ModulusAssumption, SMT DEF SeqNum
<1>3. -Modulus < Modulus * (k - q) /\ Modulus * (k - q) < Modulus
  BY <1>1, <1>2, ModulusAssumption, SMT DEF SeqNum
<1>4. k - q = 0
  BY <1>1, <1>3, SmallMultiple
<1>5. QED
  BY <1>1, <1>2, <1>4, ModulusAssumption, SMT DEF SeqNum

(* Multiplication by the modulus distributes over sums and differences. *)
LEMMA Distributes ==
  ASSUME NEW a \in Int, NEW b \in Int
  PROVE  /\ Modulus * a \in Int
         /\ Modulus * b \in Int
         /\ Modulus * (a + b) = Modulus * a + Modulus * b
         /\ Modulus * (a - b) = Modulus * a - Modulus * b
         /\ Modulus * (a - 1) = Modulus * a - Modulus
  BY ModulusAssumption, SMT

(* distance_from() recovers the signed distance of two positions from their  *)
(* wire numbers when they are less than half the space apart, also across    *)
(* the rollover.                                                             *)
THEOREM DistanceIsExact ==
  ASSUME NEW p \in Int, NEW o \in Int, p - o < HalfRange, o - p <= HalfRange
  PROVE  DistanceFrom(Wire(p), Wire(o)) = p - o
<1>0. HalfRange \in Nat /\ Modulus \in Nat /\ Modulus = 2 * HalfRange /\ HalfRange >= 1
  BY ModulusAssumption, SMT DEF HalfRange
<1>1. PICK i \in Int, j \in Int :
        p = Modulus * i + Wire(p) /\ o = Modulus * j + Wire(o)
  BY Division DEF Wire
<1>2. Wire(p) \in SeqNum /\ Wire(o) \in SeqNum
  BY Division DEF Wire
<1> DEFINE d == Wire(p) - Wire(o)
<1>3. d \in Int
  BY <1>0, <1>2 DEF SeqNum
<1>4. d = Modulus * (j - i) + (p - o)
  <2>1. Modulus * (j - i) = Modulus * j - Modulus * i
          /\ Modulus * j \in Int /\ Modulus * i \in Int
    BY Distributes
  <2>2. Wire(p) \in Int /\ Wire(o) \in Int
    BY <1>0, <1>2 DEF SeqNum
  <2>3. QED
    BY <1>1, <2>1, <2>2
<1>5. CASE p - o >= 0
  <2>1. p - o \in SeqNum
    BY <1>0, <1>5 DEF SeqNum
  <2>2. d % Modulus = p - o
    BY <1>3, <1>4, <2>1, ResidueUnique
  <2>3. QED
    BY <2>2, <1>0, <1>5 DEF DistanceFrom
<1>6. CASE p - o < 0
  <2>1. p - o + Modulus \in SeqNum
    BY <1>0, <1>6 DEF SeqNum
  <2>2. d = Modulus * (j - i - 1) + (p - o + Modulus)
    <3>1. PICK m \in Int : m = j - i
      OBVIOUS
    <3>2. Modulus * (m - 1) = Modulus * m - Modulus /\ Modulus * m \in Int
      BY Distributes
    <3>3. QED
      BY <1>0, <1>4, <3>1, <3>2
  <2>3. j - i - 1 \in Int
    OBVIOUS
  <2>4. d % Modulus = p - o + Modulus
    BY <1>3, <2>1, <2>2, <2>3, ResidueUnique
  <2>5. QED
    BY <2>4, <1>0, <1>6 DEF DistanceFrom
<1>7. QED
  BY <1>5, <1>6

(* advanced() on wire numbers is addition on positions, also when it steps   *)
(* back by adding Modulus - 1 as the code does.                              *)
THEOREM AdvancedIsAddition ==
  ASSUME NEW p \in Int, NEW n \in Int
  PROVE  Advanced(Wire(p), n) = Wire(p + n)
<1> DEFINE s == Wire(p) + n
           r == s % Modulus
<1>1. Wire(p) \in Int
  BY Division, ModulusAssumption DEF Wire, SeqNum
<1>2. PICK i \in Int : p = Modulus * i + Wire(p)
  BY Division DEF Wire
<1>3. s \in Int
  BY <1>1
<1>4. r \in SeqNum
  BY <1>3, Division
<1>5. PICK j \in Int : s = Modulus * j + r
  BY <1>3, Division
<1>6. p + n = Modulus * (i + j) + r
  <2>1. Modulus * (i + j) = Modulus * i + Modulus * j
          /\ Modulus * i \in Int /\ Modulus * j \in Int
    BY Distributes
  <2>2. r \in Int
    BY <1>4, ModulusAssumption DEF SeqNum
  <2> HIDE DEF r
  <2>3. QED
    BY <1>1, <1>2, <1>5, <2>1, <2>2
<1>7. (p + n) % Modulus = r
  <2> HIDE DEF r
  <2>1. QED
    BY <1>4, <1>6, ResidueUnique
<1>8. QED
  BY <1>7 DEF Advanced, Wire

(* distance_from() stays within half the space and inverts advanced().       *)
THEOREM DistanceInverts ==
  ASSUME NEW s \in SeqNum, NEW o \in SeqNum
  PROVE  /\ DistanceFrom(s, o) \in Int
         /\ -HalfRange <= DistanceFrom(s, o) /\ DistanceFrom(s, o) < HalfRange
         /\ Wire(o + DistanceFrom(s, o)) = s
<1>0. HalfRange \in Nat /\ Modulus \in Nat /\ Modulus = 2 * HalfRange /\ HalfRange >= 1
        /\ s \in Int /\ o \in Int
  BY ModulusAssumption, SMT DEF HalfRange, SeqNum
<1>1. PICK f \in SeqNum, k \in Int : f = (s - o) % Modulus /\ s - o = Modulus * k + f
  <2>1. PICK p \in Int : p = s - o
    BY <1>0
  <2>2. p % Modulus \in SeqNum /\ p \div Modulus \in Int
          /\ p = Modulus * (p \div Modulus) + (p % Modulus)
    BY Division
  <2>3. QED
    BY <2>1, <2>2, Zenon
<1>2. f \in Int /\ 0 <= f /\ f < Modulus
  BY <1>0, <1>1 DEF SeqNum
<1>3. Modulus * k \in Int /\ Modulus * (0 - k) = 0 - Modulus * k
        /\ Modulus * (0 - k - 1) = 0 - Modulus * k - Modulus
  <2>1. PICK m \in Int : m = 0 - k
    OBVIOUS
  <2>2. Modulus * k \in Int /\ Modulus * (0 - k) = Modulus * 0 - Modulus * k
    BY Distributes
  <2>3. Modulus * (m - 1) = Modulus * m - Modulus /\ Modulus * m \in Int
    BY Distributes
  <2>4. Modulus * 0 = 0
    BY <1>0
  <2>5. QED
    BY <2>1, <2>2, <2>3, <2>4, <1>0
<1>4. CASE f < HalfRange
  <2>1. DistanceFrom(s, o) = f
    BY <1>1, <1>4 DEF DistanceFrom
  <2>2. o + f = Modulus * (0 - k) + s
    BY <1>0, <1>1, <1>2, <1>3
  <2>3. (o + f) % Modulus = s
    <3>1. PICK p \in Int, m \in Int : p = o + f /\ m = 0 - k
      BY <1>0, <1>2
    <3>2. p % Modulus = s
      BY <2>2, <3>1, ResidueUnique
    <3>3. QED
      BY <3>1, <3>2
  <2>4. QED
    BY <1>0, <1>2, <1>4, <2>1, <2>3 DEF Wire
<1>5. CASE ~(f < HalfRange)
  <2>1. DistanceFrom(s, o) = f - Modulus
    BY <1>1, <1>5 DEF DistanceFrom
  <2>2. o + (f - Modulus) = Modulus * (0 - k - 1) + s /\ 0 - k - 1 \in Int
    BY <1>0, <1>1, <1>2, <1>3
  <2>3. (o + (f - Modulus)) % Modulus = s
    <3>1. PICK p \in Int, m \in Int : p = o + (f - Modulus) /\ m = 0 - k - 1
      BY <1>0, <1>2
    <3>2. p % Modulus = s
      BY <2>2, <3>1, ResidueUnique
    <3>3. QED
      BY <3>1, <3>2
  <2>4. QED
    BY <1>0, <1>2, <1>5, <2>1, <2>3 DEF Wire
<1>6. QED
  BY <1>4, <1>5

(* Two numbers at ordered distances from a common origin, less than half the *)
(* space on, are ordered themselves: distances subtract.                     *)
THEOREM DistancesSubtract ==
  ASSUME NEW a \in SeqNum, NEW b \in SeqNum, NEW o \in SeqNum,
         0 <= DistanceFrom(a, o), DistanceFrom(a, o) <= DistanceFrom(b, o)
  PROVE  DistanceFrom(b, a) = DistanceFrom(b, o) - DistanceFrom(a, o)
<1>0. HalfRange \in Nat /\ o \in Int
  BY ModulusAssumption, SMT DEF HalfRange, SeqNum
<1>1. PICK d \in Int, e \in Int :
        /\ d = DistanceFrom(a, o) /\ e = DistanceFrom(b, o)
        /\ d < HalfRange /\ e < HalfRange
        /\ Wire(o + d) = a /\ Wire(o + e) = b
  BY DistanceInverts
<1>2. 0 <= d /\ d <= e
  BY <1>1
<1>3. (o + e) - (o + d) < HalfRange /\ (o + d) - (o + e) <= HalfRange
        /\ o + e \in Int /\ o + d \in Int /\ (o + e) - (o + d) = e - d
  BY <1>0, <1>1, <1>2
<1>4. DistanceFrom(Wire(o + e), Wire(o + d)) = (o + e) - (o + d)
  BY <1>3, DistanceIsExact
<1>5. QED
  BY <1>1, <1>3, <1>4
=============================================================================
