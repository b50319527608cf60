------------------------------ MODULE RingLemmas ------------------------------
(***************************************************************************)
(* Indices into the ring buffers: positions counted from the start, taken  *)
(* modulo the number of slots, the least and the greatest of the slots a   *)
(* search finds, and induction over them.                                  *)
(***************************************************************************)
EXTENDS Integers, WellFoundedInduction, TLAPS

(* A position has a slot, and the first ones are their own slots.          *)
LEMMA RingSlot ==
  ASSUME NEW w \in Nat \ {0}, NEW a \in Int
  PROVE  /\ a % w \in 0..(w - 1)
         /\ a \in 0..(w - 1) => a % w = a
         /\ a = w * (a \div w) + (a % w)
         /\ a \div w \in Int
  OBVIOUS

(* Positions less than the size of the ring apart have different slots.    *)
LEMMA RingUnique ==
  ASSUME NEW w \in Nat \ {0}, NEW a \in Int, NEW b \in Int,
         a % w = b % w, a - b < w, b - a < w
  PROVE  a = b
<1> DEFINE d == (a \div w) - (b \div w)
<1>1. d \in Int /\ a - b = w * d
  BY RingSlot
<1> HIDE DEF d
<1>2. ~(d >= 1)
  <2> SUFFICES ASSUME d >= 1 PROVE FALSE
    OBVIOUS
  <2>1. w * d >= w
    BY <1>1
  <2> QED BY <1>1, <2>1
<1>3. ~(d <= -1)
  <2> SUFFICES ASSUME d <= -1 PROVE FALSE
    OBVIOUS
  <2>1. w * d <= -w
    BY <1>1
  <2> QED BY <1>1, <2>1
<1> QED BY <1>1, <1>2, <1>3

(* The slot of the next position, as the code computes it. *)
LEMMA RingNext ==
  ASSUME NEW w \in Nat \ {0}, NEW a \in Nat
  PROVE  (a + 1) % w = IF a % w < w - 1 THEN (a % w) + 1 ELSE 0
<1> DEFINE s == (a + 1) % w  t == a % w
           d == ((a + 1) \div w) - (a \div w)
<1>1. /\ s \in 0..(w - 1) /\ t \in 0..(w - 1)
      /\ d \in Int /\ s = t + 1 - w * d
  BY RingSlot
<1> HIDE DEF s, t, d
<1>2. CASE d >= 2
  <2>1. w * d >= 2 * w
    BY <1>2, <1>1
  <2> QED BY <2>1, <1>1
<1>3. CASE d <= -1
  <2>1. w * d <= -w
    BY <1>3, <1>1
  <2> QED BY <2>1, <1>1
<1>4. CASE d = 0
  <2>1. w * d = 0
    BY <1>4
  <2>2. s = IF t < w - 1 THEN t + 1 ELSE 0
    BY <2>1, <1>1
  <2> QED BY <2>2 DEF s, t
<1>5. CASE d = 1
  <2>1. w * d = w
    BY <1>5
  <2>2. s = IF t < w - 1 THEN t + 1 ELSE 0
    BY <2>1, <1>1
  <2> QED BY <2>2 DEF s, t
<1>6. d >= 2 \/ d <= -1 \/ d = 0 \/ d = 1
  BY <1>1
<1> QED BY <1>2, <1>3, <1>4, <1>5, <1>6

(* Taking a position modulo the size of the ring before a move or after it *)
(* makes no difference.                                                    *)
LEMMA RingShift ==
  ASSUME NEW w \in Nat \ {0}, NEW a \in Int, NEW m \in Int
  PROVE  ((a % w) + m) % w = (a + m) % w
<1> DEFINE s == ((a % w) + m) % w  t == (a + m) % w
           d == (a \div w) + (((a % w) + m) \div w) - ((a + m) \div w)
<1>1. /\ a % w \in Int /\ a = w * (a \div w) + (a % w) /\ a \div w \in Int
  BY RingSlot
<1>2. /\ s \in 0..(w - 1) /\ (a % w) + m = w * (((a % w) + m) \div w) + s
      /\ ((a % w) + m) \div w \in Int
  <2>1. (a % w) + m \in Int
    BY <1>1
  <2> QED BY <2>1, RingSlot
<1>3. /\ t \in 0..(w - 1) /\ a + m = w * ((a + m) \div w) + t
      /\ (a + m) \div w \in Int
  <2>1. a + m \in Int
    OBVIOUS
  <2> QED BY <2>1, RingSlot
<1>4. d \in Int /\ t - s = w * d
  BY <1>1, <1>2, <1>3
<1> HIDE DEF s, t, d
<1>5. ~(d >= 1)
  <2> SUFFICES ASSUME d >= 1 PROVE FALSE
    OBVIOUS
  <2>1. w * d >= w
    BY <1>4
  <2> QED BY <1>2, <1>3, <1>4, <2>1
<1>6. ~(d <= -1)
  <2> SUFFICES ASSUME d <= -1 PROVE FALSE
    OBVIOUS
  <2>1. w * d <= -w
    BY <1>4
  <2> QED BY <1>2, <1>3, <1>4, <2>1
<1>7. d = 0
  BY <1>4, <1>5, <1>6
<1>8. w * d = 0
  BY <1>7
<1> QED BY <1>2, <1>3, <1>4, <1>8 DEF s, t

LEMMA LeastExists ==
  ASSUME NEW S, S \subseteq Nat, S # {}
  PROVE  \E n \in S : \A m \in S : n <= m
<1> DEFINE R == OpToRel(<, Nat)
<1>1. \A x, y \in Nat : x < y => <<x, y>> \in R
  BY DEF OpToRel
<1>2. IsWellFoundedOn(R, Nat)
  BY NatLessThanWellFounded
<1> HIDE DEF R
<1>3. PICK n \in S : \A m \in S : ~(<<m, n>> \in R)
  BY <1>2, WFMin
<1>4. ASSUME NEW m \in S PROVE n <= m
  <2>1. m \in Nat /\ n \in Nat
    OBVIOUS
  <2>2. ~(m < n)
    BY <1>1, <1>3, <2>1
  <2> QED BY <2>1, <2>2
<1> QED BY <1>4

LEMMA GreatestExists ==
  ASSUME NEW b \in Nat, NEW S, S \subseteq 0..b, S # {}
  PROVE  \E n \in S : \A m \in S : m <= n
<1> DEFINE T == {b - n : n \in S}
<1>1. T \subseteq Nat /\ T # {}
  <2>1. ASSUME NEW n \in S PROVE b - n \in Nat
    <3>1. n \in 0..b
      OBVIOUS
    <3> QED BY <3>1
  <2> QED BY <2>1
<1>2. PICK c \in T : \A d \in T : c <= d
  BY <1>1, LeastExists
<1>3. PICK n \in S : c = b - n
  BY <1>2
<1>4. ASSUME NEW m \in S PROVE m <= n
  <2>1. b - n <= b - m
    BY <1>2, <1>3
  <2>2. n \in Int /\ m \in Int
    OBVIOUS
  <2> QED BY <2>1, <2>2
<1> QED BY <1>4

(* Induction over an interval, for the members of a set. *)
LEMMA StepByStep ==
  ASSUME NEW S, NEW a \in Int, NEW b \in Int,
         a <= b => a \in S,
         \A i \in a..(b - 1) : i \in S => i + 1 \in S
  PROVE  a..b \subseteq S
<1> DEFINE T == {d \in Nat : a + d <= b /\ a + d \notin S}
<1>1. CASE T = {}
  <2> SUFFICES ASSUME NEW i \in a..b PROVE i \in S
    OBVIOUS
  <2>1. i - a \in Nat /\ a + (i - a) = i /\ i <= b
    OBVIOUS
  <2>2. i - a \notin T
    BY <1>1
  <2> QED BY <2>1, <2>2
<1>2. CASE T # {}
  <2>1. PICK d \in T : \A c \in T : d <= c
    BY <1>2, LeastExists
  <2>2. d \in Nat /\ a + d <= b /\ a + d \notin S
    BY <2>1
  <2>3. d # 0
    BY <2>2
  <2>4. d - 1 \in Nat /\ a + (d - 1) <= b /\ d - 1 \notin T
    BY <2>1, <2>2, <2>3
  <2>5. a + (d - 1) \in S /\ a + (d - 1) \in a..(b - 1)
    BY <2>2, <2>4
  <2>6. (a + (d - 1)) + 1 \in S
    BY <2>5
  <2> QED BY <2>2, <2>6
<1> QED BY <1>1, <1>2
===============================================================================
