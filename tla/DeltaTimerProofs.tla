--------------------------- MODULE DeltaTimerProofs ---------------------------
(***************************************************************************)
(* Proofs about the timer process, for all packets, timeouts and bounds.   *)
(*                                                                         *)
(* Starting a timer puts a node somewhere into the list and takes its      *)
(* delay off the node behind it; stopping one does the reverse.  Inserted  *)
(* says so, and all that matters of either follows from it: the length of  *)
(* the list, how many timers run, and when each of the others is due.      *)
(***************************************************************************)
EXTENDS DeltaTimer, RingLemmas, FiniteSetTheorems, SequenceTheorems, TLAPS

Nodes == [id : Ids, time_out : Int]

(* m is the list l with a node at j. *)
Inserted(l, m, j) ==
  /\ Len(m) = Len(l) + 1 /\ j \in 1..Len(m)
  /\ \A i \in 1..(j - 1) : m[i] = l[i]
  /\ \A i \in j..Len(l) :
       /\ m[i + 1].id = l[i].id
       /\ m[i + 1].time_out = l[i].time_out - (IF i = j THEN m[j].time_out ELSE 0)

-------------------------------------------------------------------------------
(* Sums along the list.                                                    *)

(* What the recursive functions of DeltaTimer compute exists: each value   *)
(* is r of the one before it and of the delay.                             *)
Accumulates(f, k, e, r) ==
  /\ f \in [1..k -> Int]
  /\ \A i \in 1..k : f[i] = r[(IF i = 1 THEN 0 ELSE f[i - 1]) + e[i]]

LEMMA AccumulatesFurther ==
  ASSUME NEW k \in Nat, NEW e, e[k + 1] \in Int, NEW r \in [Int -> Int], NEW f, Accumulates(f, k, e, r)
  PROVE  \E g : Accumulates(g, k + 1, e, r)
<1> DEFINE b == IF k = 0 THEN 0 ELSE f[k]
           v == r[b + e[k + 1]]
           g == [i \in 1..(k + 1) |-> IF i = k + 1 THEN v ELSE f[i]]
<1>1. /\ f \in [1..k -> Int]
      /\ \A i \in 1..k : f[i] = r[(IF i = 1 THEN 0 ELSE f[i - 1]) + e[i]]
  BY DEF Accumulates
<1>2. b \in Int
  BY <1>1
<1>3. v \in Int
  <2> HIDE DEF b
  <2> QED BY <1>2
<1> HIDE DEF v
<1>4. /\ g \in [1..(k + 1) -> Int] /\ g[k + 1] = v
      /\ \A i \in 1..k : g[i] = f[i]
  <2>1. \A i \in 1..(k + 1) : i # k + 1 => i \in 1..k /\ f[i] \in Int
    BY <1>1
  <2>2. ASSUME NEW i \in 1..(k + 1) PROVE g[i] = (IF i = k + 1 THEN v ELSE f[i]) /\ g[i] \in Int
    BY <1>3, <2>1
  <2>3. g = [i \in 1..(k + 1) |-> g[i]]
    OBVIOUS
  <2> HIDE DEF g
  <2>4. g \in [1..(k + 1) -> Int]
    BY <2>2, <2>3
  <2>5. k + 1 \in 1..(k + 1) /\ \A i \in 1..k : i \in 1..(k + 1) /\ i # k + 1
    OBVIOUS
  <2> QED BY <2>2, <2>4, <2>5
<1> HIDE DEF g
<1>5. ASSUME NEW i \in 1..(k + 1)
      PROVE  g[i] = r[(IF i = 1 THEN 0 ELSE g[i - 1]) + e[i]]
  <2>1. CASE i = k + 1
    <3>1. (IF i = 1 THEN 0 ELSE g[i - 1]) = b
      BY <1>4, <2>1
    <3> QED BY <1>4, <2>1, <3>1 DEF v
  <2>2. CASE i # k + 1
    <3>1. i \in 1..k /\ (i # 1 => i - 1 \in 1..k)
      BY <2>2
    <3>2. g[i] = f[i] /\ (IF i = 1 THEN 0 ELSE g[i - 1]) = (IF i = 1 THEN 0 ELSE f[i - 1])
      BY <1>4, <3>1
    <3> QED BY <1>1, <3>1, <3>2
  <2> QED BY <2>1, <2>2
<1> QED BY <1>4, <1>5 DEF Accumulates

LEMMA SumExists ==
  ASSUME NEW n \in Nat, NEW e \in [1..n -> Int], NEW r \in [Int -> Int]
  PROVE  \E f : Accumulates(f, n, e, r)
<1> DEFINE S == {k \in 0..n : \E f : Accumulates(f, k, e, r)}
<1>1. 0 \in S
  <2> DEFINE f == [i \in 1..0 |-> 0]
  <2>1. f \in [1..0 -> Int] /\ 1..0 = {}
    OBVIOUS
  <2> HIDE DEF f
  <2>2. Accumulates(f, 0, e, r)
    BY <2>1 DEF Accumulates
  <2> QED BY <2>2
<1>2. ASSUME NEW k \in 0..(n - 1), k \in S PROVE k + 1 \in S
  <2>1. k \in Nat /\ k + 1 \in 0..n /\ e[k + 1] \in Int
    OBVIOUS
  <2>2. PICK f : Accumulates(f, k, e, r)
    BY <1>2
  <2>3. \E g : Accumulates(g, k + 1, e, r)
    BY <2>1, <2>2, AccumulatesFurther
  <2> QED BY <2>1, <2>3
<1>3. n \in S
  <2> HIDE DEF S
  <2>1. /\ 0 \in Int /\ n \in Int /\ (0 <= n => 0 \in S)
        /\ \A i \in 0..(n - 1) : i \in S => i + 1 \in S
    BY <1>1, <1>2
  <2>2. 0..n \subseteq S
    BY <2>1, StepByStep
  <2> QED BY <2>2
<1> QED BY <1>3

LEMMA TruncType == ASSUME NEW t \in Int PROVE Trunc(t) \in Int
<1>1. Scale \in Nat \ {0}
  BY TimerConstants
<1>2. t \div Scale \in Int /\ (-t) \div Scale \in Int
  BY <1>1, RingSlot
<1> QED BY <1>1, <1>2 DEF Trunc

LEMMA SumsValue ==
  ASSUME NEW l \in Seq(Nodes)
  PROVE  /\ Sums(l) \in [1..Len(l) -> Int]
         /\ \A i \in 1..Len(l) :
              Sums(l)[i] = (IF i = 1 THEN 0 ELSE Sums(l)[i - 1]) + l[i].time_out
<1> DEFINE Is(f) == f = [i \in 1..Len(l) |-> (IF i = 1 THEN 0 ELSE f[i - 1]) + l[i].time_out]
<1>1. \A i \in 1..Len(l) : l[i].time_out \in Int
  <2>1. \A i \in 1..Len(l) : l[i] \in Nodes
    OBVIOUS
  <2> QED BY <2>1 DEF Nodes
<1>2. \E f : Is(f)
  <2> DEFINE e == [i \in 1..Len(l) |-> l[i].time_out]  r == [t \in Int |-> t]
  <2>1. PICK f : Accumulates(f, Len(l), e, r)
    <3>1. e \in [1..Len(l) -> Int] /\ r \in [Int -> Int] /\ Len(l) \in Nat
      BY <1>1
    <3> HIDE DEF e, r
    <3> QED BY <3>1, SumExists
  <2>2. ASSUME NEW i \in 1..Len(l)
        PROVE  f[i] = (IF i = 1 THEN 0 ELSE f[i - 1]) + l[i].time_out
    <3> DEFINE b == IF i = 1 THEN 0 ELSE f[i - 1]
    <3>1. b \in Int /\ b + l[i].time_out \in Int
      BY <1>1, <2>1 DEF Accumulates
    <3>2. f[i] = r[b + e[i]] /\ e[i] = l[i].time_out
      BY <2>1 DEF Accumulates
    <3> HIDE DEF b
    <3>3. f[i] = b + l[i].time_out
      BY <3>1, <3>2
    <3> QED BY <3>3 DEF b
  <2>3. Is(f)
    BY <2>1, <2>2 DEF Accumulates
  <2> QED BY <2>3
<1>3. Is(Sums(l))
  BY <1>2 DEF Sums
<1>4. \A i \in 1..Len(l) : Sums(l)[i] = (IF i = 1 THEN 0 ELSE Sums(l)[i - 1]) + l[i].time_out
  BY <1>3
<1>5. 1..Len(l) \subseteq {i \in 1..Len(l) : Sums(l)[i] \in Int}
  <2> DEFINE S == {i \in 1..Len(l) : Sums(l)[i] \in Int}
  <2>1. 1 <= Len(l) => 1 \in S
    BY <1>1, <1>4
  <2>2. ASSUME NEW i \in 1..(Len(l) - 1), i \in S PROVE i + 1 \in S
    BY <1>1, <1>4, <2>2
  <2> HIDE DEF S
  <2>3. 1..Len(l) \subseteq S
    <3>1. /\ 1 \in Int /\ Len(l) \in Int /\ (1 <= Len(l) => 1 \in S)
          /\ \A i \in 1..(Len(l) - 1) : i \in S => i + 1 \in S
      BY <2>1, <2>2
    <3> QED BY <3>1, StepByStep
  <2> QED BY <2>3 DEF S
<1> QED BY <1>3, <1>4, <1>5

(* A time above 0 and above another is above what int makes of that one. *)
LEMMA TruncBelow ==
  ASSUME NEW x \in Int, NEW t \in Int, t > 0, t > x
  PROVE  t > Trunc(x)
<1> DEFINE q == x \div Scale  r == x % Scale  y == (-x) \div Scale  u == (-x) % Scale
<1>1. Scale \in Nat \ {0} /\ -x \in Int
  BY TimerConstants
<1>2. q \in Int /\ r \in 0..(Scale - 1) /\ x = Scale * q + r
  BY <1>1, RingSlot
<1>3. y \in Int /\ u \in 0..(Scale - 1) /\ -x = Scale * y + u
  BY <1>1, RingSlot
<1>4. Trunc(x) = IF x >= 0 THEN q * Scale ELSE -(y * Scale)
  BY DEF Trunc
<1> HIDE DEF q, r, y, u
<1>5. q * Scale = Scale * q /\ y * Scale = Scale * y
  BY <1>1, <1>2, <1>3
<1>6. CASE x >= 0
  BY <1>1, <1>2, <1>4, <1>5, <1>6
<1>7. CASE x < 0
  <2>1. ~(y <= -1)
    <3> SUFFICES ASSUME y <= -1 PROVE FALSE
      OBVIOUS
    <3>1. Scale * y <= -Scale
      BY <1>1, <1>3
    <3> QED BY <1>1, <1>3, <1>7, <3>1
  <2>2. y >= 0
    BY <1>3, <2>1
  <2>3. Scale * y >= 0
    <3>1. y = 0 => Scale * y = 0
      BY <1>1
    <3>2. y >= 1 => Scale * y >= Scale
      BY <1>1, <1>3
    <3> QED BY <1>1, <1>3, <2>2, <3>1, <3>2
  <2> QED BY <1>1, <1>3, <1>4, <1>5, <1>7, <2>3
<1> QED BY <1>6, <1>7

LEMMA TotalType ==
  ASSUME NEW l \in Seq(Nodes)
  PROVE  /\ \A j \in 1..Len(l) : TotalTo(l)[j] \in Int
         /\ l # <<>> => TotalTo(l)[1] = Trunc(l[1].time_out)
<1> DEFINE Is(f) == f = [i \in 1..Len(l) |-> Trunc((IF i = 1 THEN 0 ELSE f[i - 1]) + l[i].time_out)]
<1>1. \A i \in 1..Len(l) : l[i].time_out \in Int
  <2>1. \A i \in 1..Len(l) : l[i] \in Nodes
    OBVIOUS
  <2> QED BY <2>1 DEF Nodes
<1>2. \E f : Is(f)
  <2> DEFINE e == [i \in 1..Len(l) |-> l[i].time_out]  r == [t \in Int |-> Trunc(t)]
  <2>1. PICK f : Accumulates(f, Len(l), e, r)
    <3>1. e \in [1..Len(l) -> Int] /\ r \in [Int -> Int] /\ Len(l) \in Nat
      BY <1>1, TruncType
    <3> HIDE DEF e, r
    <3> QED BY <3>1, SumExists
  <2>2. ASSUME NEW i \in 1..Len(l)
        PROVE  f[i] = Trunc((IF i = 1 THEN 0 ELSE f[i - 1]) + l[i].time_out)
    <3> DEFINE b == IF i = 1 THEN 0 ELSE f[i - 1]
    <3>1. b \in Int /\ b + l[i].time_out \in Int
      BY <1>1, <2>1 DEF Accumulates
    <3>2. f[i] = r[b + e[i]] /\ e[i] = l[i].time_out
      BY <2>1 DEF Accumulates
    <3> HIDE DEF b
    <3>3. f[i] = Trunc(b + l[i].time_out)
      BY <3>1, <3>2
    <3> QED BY <3>3 DEF b
  <2>3. Is(f)
    BY <2>1, <2>2 DEF Accumulates
  <2> QED BY <2>3
<1>3. Is(TotalTo(l))
  BY <1>2 DEF TotalTo
<1>4. \A i \in 1..Len(l) :
        TotalTo(l)[i] = Trunc((IF i = 1 THEN 0 ELSE TotalTo(l)[i - 1]) + l[i].time_out)
  BY <1>3
<1> DEFINE S == {i \in 1..Len(l) : TotalTo(l)[i] \in Int}
<1>5. /\ 1 \in Int /\ Len(l) \in Int /\ (1 <= Len(l) => 1 \in S)
      /\ \A i \in 1..(Len(l) - 1) : i \in S => i + 1 \in S
  <2>1. 1 <= Len(l) => 1 \in S
    <3> SUFFICES ASSUME 1 <= Len(l) PROVE 1 \in S
      OBVIOUS
    <3>1. 1 \in 1..Len(l) /\ TotalTo(l)[1] = Trunc(0 + l[1].time_out)
      BY <1>4
    <3>2. 0 + l[1].time_out \in Int
      BY <1>1, <3>1
    <3> QED BY <3>1, <3>2, TruncType
  <2>2. ASSUME NEW i \in 1..(Len(l) - 1), i \in S PROVE i + 1 \in S
    <3>1. i + 1 \in 1..Len(l) /\ TotalTo(l)[i + 1] = Trunc(TotalTo(l)[i] + l[i + 1].time_out)
      BY <1>4
    <3>2. TotalTo(l)[i] + l[i + 1].time_out \in Int
      BY <1>1, <2>2, <3>1
    <3> QED BY <3>1, <3>2, TruncType
  <2> HIDE DEF S
  <2> QED BY <2>1, <2>2
<1> HIDE DEF S
<1>6. 1..Len(l) \subseteq S
  BY <1>5, StepByStep
<1>7. ASSUME l # <<>> PROVE TotalTo(l)[1] = Trunc(l[1].time_out)
  <2>1. 1 \in 1..Len(l)
    BY <1>7
  <2>2. l[1].time_out \in Int /\ TotalTo(l)[1] = Trunc(0 + l[1].time_out)
    BY <1>1, <1>4, <2>1
  <2>3. 0 + l[1].time_out = l[1].time_out
    BY <2>2
  <2> QED BY <2>2, <2>3
<1> QED BY <1>6, <1>7 DEF S

(* The search of addPeerToList stops at a node of the list. *)
LEMMA StopAtType ==
  ASSUME NEW l \in Seq(Nodes), l # <<>>, NEW t \in Int
  PROVE  /\ StopAt(l, t) \in 1..Len(l)
         /\ t <= TotalTo(l)[StopAt(l, t)] \/ StopAt(l, t) = Len(l)
<1> DEFINE S == {j \in 1..Len(l) : t <= TotalTo(l)[j] \/ j = Len(l)}
<1>1. Len(l) \in 1..Len(l)
  OBVIOUS
<1>2. PICK j \in S : \A i \in S : j <= i
  <2>1. S \subseteq Nat /\ S # {}
    BY <1>1
  <2> HIDE DEF S
  <2> QED BY <2>1, LeastExists
<1>3. \A i \in 1..(j - 1) : t > TotalTo(l)[i]
  <2> SUFFICES ASSUME NEW i \in 1..(j - 1) PROVE t > TotalTo(l)[i]
    OBVIOUS
  <2>1. i \in 1..Len(l) /\ TotalTo(l)[i] \in Int /\ ~(j <= i)
    BY <1>2, TotalType
  <2>2. i \notin S
    BY <1>2, <2>1
  <2> QED BY <2>1, <2>2
<1>4. \E k \in 1..Len(l) : /\ t <= TotalTo(l)[k] \/ k = Len(l)
                           /\ \A i \in 1..(k - 1) : t > TotalTo(l)[i]
  BY <1>2, <1>3
<1> QED BY <1>4 DEF StopAt

-------------------------------------------------------------------------------
(* Nodes put into the list and taken out of it.                            *)

LEMMA InsertAtIs ==
  ASSUME NEW T, NEW s \in Seq(T), NEW j \in 1..(Len(s) + 1), NEW e \in T
  PROVE  /\ InsertAt(s, j, e) \in Seq(T) /\ Len(InsertAt(s, j, e)) = Len(s) + 1
         /\ \A i \in 1..(Len(s) + 1) :
              InsertAt(s, j, e)[i] = IF i < j THEN s[i] ELSE IF i = j THEN e ELSE s[i - 1]
<1> DEFINE u == SubSeq(s, 1, j - 1)  v == SubSeq(s, j, Len(s))  w == u \o <<e>>
<1>1. Len(s) \in Nat /\ \A i \in 1..Len(s) : s[i] \in T
  OBVIOUS
<1>2. u \in Seq(T) /\ Len(u) = j - 1 /\ \A i \in 1..(j - 1) : u[i] = s[i]
  <2>1. \A i \in 1..(j - 1) : s[i] \in T
    BY <1>1
  <2>2. 1 \in Int /\ j - 1 \in Int /\ (IF 1 <= j - 1 THEN (j - 1) - 1 + 1 ELSE 0) = j - 1
        /\ (j - 1) - 1 + 1 = j - 1
    OBVIOUS
  <2> QED BY <2>1, <2>2, SubSeqProperties
<1>3. v \in Seq(T) /\ Len(v) = Len(s) + 1 - j /\ \A i \in 1..(Len(s) + 1 - j) : v[i] = s[j + i - 1]
  <2>1. \A i \in j..Len(s) : s[i] \in T
    BY <1>1
  <2>2. j \in Int /\ Len(s) \in Int
        /\ (IF j <= Len(s) THEN Len(s) - j + 1 ELSE 0) = Len(s) + 1 - j
        /\ Len(s) - j + 1 = Len(s) + 1 - j
    BY <1>1
  <2> QED BY <2>1, <2>2, SubSeqProperties
<1> HIDE DEF u, v
<1>4. w \in Seq(T) /\ Len(w) = j /\ \A i \in 1..j : w[i] = IF i < j THEN s[i] ELSE e
  BY <1>2
<1> HIDE DEF w
<1>5. /\ w \o v \in Seq(T) /\ Len(w \o v) = Len(s) + 1
      /\ \A i \in 1..(Len(s) + 1) : (w \o v)[i] = IF i <= j THEN w[i] ELSE v[i - j]
  <2>1. /\ w \o v \in Seq(T) /\ Len(w \o v) = Len(w) + Len(v)
        /\ \A i \in 1..(Len(w) + Len(v)) : (w \o v)[i] = IF i <= Len(w) THEN w[i] ELSE v[i - Len(w)]
    BY <1>3, <1>4, ConcatProperties
  <2>2. Len(w) + Len(v) = Len(s) + 1
    BY <1>1, <1>3, <1>4
  <2> QED BY <1>4, <2>1, <2>2
<1>6. InsertAt(s, j, e) = w \o v
  BY DEF InsertAt, u, v, w
<1>7. ASSUME NEW i \in 1..(Len(s) + 1), i > j PROVE v[i - j] = s[i - 1]
  BY <1>1, <1>3, <1>7
<1> QED BY <1>1, <1>4, <1>5, <1>6, <1>7

LEMMA RemoveAtIs ==
  ASSUME NEW T, NEW s \in Seq(T), NEW j \in 1..Len(s)
  PROVE  /\ RemoveAt(s, j) \in Seq(T) /\ Len(RemoveAt(s, j)) = Len(s) - 1
         /\ \A i \in 1..(Len(s) - 1) : RemoveAt(s, j)[i] = IF i < j THEN s[i] ELSE s[i + 1]
<1> DEFINE u == SubSeq(s, 1, j - 1)  v == SubSeq(s, j + 1, Len(s))
<1>1. Len(s) \in Nat /\ \A i \in 1..Len(s) : s[i] \in T
  OBVIOUS
<1>2. u \in Seq(T) /\ Len(u) = j - 1 /\ \A i \in 1..(j - 1) : u[i] = s[i]
  <2>1. \A i \in 1..(j - 1) : s[i] \in T
    BY <1>1
  <2>2. 1 \in Int /\ j - 1 \in Int /\ (IF 1 <= j - 1 THEN (j - 1) - 1 + 1 ELSE 0) = j - 1
        /\ (j - 1) - 1 + 1 = j - 1
    OBVIOUS
  <2> QED BY <2>1, <2>2, SubSeqProperties
<1>3. v \in Seq(T) /\ Len(v) = Len(s) - j /\ \A i \in 1..(Len(s) - j) : v[i] = s[j + i]
  <2> DEFINE m == j + 1  n == Len(s)
  <2>1. m \in Int /\ n \in Int /\ \A i \in m..n : s[i] \in T
    BY <1>1
  <2>2. v = SubSeq(s, m, n)
    OBVIOUS
  <2>3. /\ n - m + 1 = Len(s) - j /\ (IF m <= n THEN n - m + 1 ELSE 0) = Len(s) - j
        /\ \A i \in Int : m + i - 1 = j + i
    BY <1>1
  <2> HIDE DEF v, m, n
  <2>4. /\ v \in Seq(T) /\ Len(v) = Len(s) - j
        /\ \A i \in 1..(Len(s) - j) : v[i] = s[m + i - 1]
    <3>1. /\ v \in Seq(T) /\ Len(v) = IF m <= n THEN n - m + 1 ELSE 0
          /\ \A i \in 1..(n - m + 1) : v[i] = s[m + i - 1]
      BY <2>1, <2>2, SubSeqProperties
    <3> QED BY <2>3, <3>1
  <2>5. ASSUME NEW i \in 1..(Len(s) - j) PROVE v[i] = s[j + i]
    <3>1. m + i - 1 = j + i
      BY <2>3
    <3> QED BY <2>4, <3>1
  <2> QED BY <2>4, <2>5
<1> HIDE DEF u, v
<1>4. /\ u \o v \in Seq(T) /\ Len(u \o v) = Len(s) - 1
      /\ \A i \in 1..(Len(s) - 1) : (u \o v)[i] = IF i < j THEN s[i] ELSE v[i - (j - 1)]
  <2>1. /\ u \o v \in Seq(T) /\ Len(u \o v) = Len(u) + Len(v)
        /\ \A i \in 1..(Len(u) + Len(v)) : (u \o v)[i] = IF i <= Len(u) THEN u[i] ELSE v[i - Len(u)]
    BY <1>2, <1>3, ConcatProperties
  <2>2. Len(u) + Len(v) = Len(s) - 1
    BY <1>1, <1>2, <1>3
  <2> QED BY <1>1, <1>2, <2>1, <2>2
<1>5. RemoveAt(s, j) = u \o v
  BY DEF RemoveAt, u, v
<1>6. ASSUME NEW i \in 1..(Len(s) - 1), ~(i < j) PROVE v[i - (j - 1)] = s[i + 1]
  <2>1. i - (j - 1) \in 1..(Len(s) - j) /\ j + (i - (j - 1)) = i + 1
    BY <1>1, <1>6
  <2> QED BY <1>3, <2>1
<1> QED BY <1>4, <1>5, <1>6

LEMMA DelayIs ==
  ASSUME NEW l \in Seq(Nodes), NEW j \in 1..Len(l), NEW d \in Int
  PROVE  /\ Delay(l, j, d) \in Seq(Nodes) /\ Len(Delay(l, j, d)) = Len(l)
         /\ \A i \in 1..Len(l) :
              /\ Delay(l, j, d)[i].id = l[i].id
              /\ Delay(l, j, d)[i].time_out = l[i].time_out + (IF i = j THEN d ELSE 0)
              /\ i # j => Delay(l, j, d)[i] = l[i]
<1> DEFINE e == [l[j] EXCEPT !.time_out = @ + d]
<1>1. \A i \in 1..Len(l) : l[i] \in Nodes /\ l[i].id \in Ids /\ l[i].time_out \in Int
  <2>1. \A i \in 1..Len(l) : l[i] \in Nodes
    OBVIOUS
  <2> QED BY <2>1 DEF Nodes
<1>2. e \in Nodes /\ e.id = l[j].id /\ e.time_out = l[j].time_out + d
  BY <1>1 DEF Nodes
<1>3. Delay(l, j, d) = [l EXCEPT ![j] = e]
  BY DEF Delay
<1> HIDE DEF e
<1>4. /\ Delay(l, j, d) \in Seq(Nodes) /\ Len(Delay(l, j, d)) = Len(l)
      /\ \A i \in 1..Len(l) : Delay(l, j, d)[i] = IF i = j THEN e ELSE l[i]
  BY <1>2, <1>3, ExceptSeq
<1> QED BY <1>1, <1>2, <1>4

LEMMA NodesIn ==
  ASSUME NEW l \in Seq(Nodes)
  PROVE  Len(l) \in Nat /\ \A i \in 1..Len(l) : l[i] \in Nodes /\ l[i].id \in Ids /\ l[i].time_out \in Int
<1>1. \A i \in 1..Len(l) : l[i] \in Nodes
  OBVIOUS
<1> QED BY <1>1 DEF Nodes

(* A node in front of another takes its delay off it. *)
LEMMA InFront ==
  ASSUME NEW l \in Seq(Nodes), NEW j \in 1..Len(l), NEW n \in Ids, NEW d \in Int
  PROVE  LET m == InsertAt(Delay(l, j, -d), j, Node(n, d))
         IN  m \in Seq(Nodes) /\ Inserted(l, m, j) /\ m[j] = Node(n, d)
<1> DEFINE x == Delay(l, j, -d)  e == Node(n, d)  m == InsertAt(x, j, e)
<1>1. e \in Nodes /\ e.time_out = d
  BY DEF Node, Nodes
<1>2. /\ x \in Seq(Nodes) /\ Len(x) = Len(l)
      /\ \A i \in 1..Len(l) :
           /\ x[i].id = l[i].id
           /\ x[i].time_out = l[i].time_out + (IF i = j THEN -d ELSE 0)
           /\ i # j => x[i] = l[i]
  <2>1. -d \in Int
    OBVIOUS
  <2> QED BY <2>1, DelayIs
<1>3. Len(l) \in Nat /\ \A i \in 1..Len(l) : l[i].time_out \in Int
  BY NodesIn
<1> HIDE DEF x, e
<1>4. /\ m \in Seq(Nodes) /\ Len(m) = Len(l) + 1
      /\ \A i \in 1..(Len(l) + 1) : m[i] = IF i < j THEN x[i] ELSE IF i = j THEN e ELSE x[i - 1]
  <2>1. j \in 1..(Len(x) + 1)
    BY <1>2, <1>3
  <2>2. /\ m \in Seq(Nodes) /\ Len(m) = Len(x) + 1
        /\ \A i \in 1..(Len(x) + 1) : m[i] = IF i < j THEN x[i] ELSE IF i = j THEN e ELSE x[i - 1]
    <3>1. x \in Seq(Nodes) /\ e \in Nodes
      BY <1>1, <1>2
    <3> HIDE DEF m
    <3>2. m = InsertAt(x, j, e)
      BY DEF m
    <3>3. InsertAt(x, j, e) \in Seq(Nodes) /\ Len(InsertAt(x, j, e)) = Len(x) + 1
      BY <2>1, <3>1, InsertAtIs
    <3>4. \A i \in 1..(Len(x) + 1) :
            InsertAt(x, j, e)[i] = IF i < j THEN x[i] ELSE IF i = j THEN e ELSE x[i - 1]
      BY <2>1, <3>1, InsertAtIs
    <3> QED BY <3>2, <3>3, <3>4
  <2> HIDE DEF m
  <2> QED BY <1>2, <2>2
<1> HIDE DEF m
<1>5. j \in 1..Len(m) /\ m[j] = e
  BY <1>3, <1>4
<1>6. \A i \in 1..(j - 1) : m[i] = l[i]
  BY <1>2, <1>3, <1>4
<1>7. ASSUME NEW i \in j..Len(l)
      PROVE  /\ m[i + 1].id = l[i].id
             /\ m[i + 1].time_out = l[i].time_out - (IF i = j THEN m[j].time_out ELSE 0)
  <2>1. i \in 1..Len(l) /\ i + 1 \in 1..(Len(l) + 1) /\ ~(i + 1 < j) /\ i + 1 # j /\ (i + 1) - 1 = i
    BY <1>3
  <2>2. m[i + 1] = x[i]
    BY <1>4, <2>1
  <2>3. l[i].time_out + (IF i = j THEN -d ELSE 0) = l[i].time_out - (IF i = j THEN d ELSE 0)
    BY <1>3, <2>1
  <2> QED BY <1>1, <1>2, <1>5, <2>1, <2>2, <2>3
<1>8. Inserted(l, m, j)
  BY <1>4, <1>5, <1>6, <1>7 DEF Inserted
<1> QED BY <1>4, <1>5, <1>8 DEF m, x, e

LEMMA AtEnd ==
  ASSUME NEW l \in Seq(Nodes), NEW n \in Ids, NEW d \in Int
  PROVE  LET m == Append(l, Node(n, d))
         IN  m \in Seq(Nodes) /\ Inserted(l, m, Len(l) + 1) /\ m[Len(l) + 1] = Node(n, d)
<1> DEFINE e == Node(n, d)  m == Append(l, e)
<1>1. e \in Nodes
  BY DEF Node, Nodes
<1> HIDE DEF e
<1>2. /\ m \in Seq(Nodes) /\ Len(m) = Len(l) + 1 /\ m[Len(l) + 1] = e /\ Len(l) \in Nat
      /\ \A i \in 1..Len(l) : m[i] = l[i]
  BY <1>1, AppendProperties
<1> HIDE DEF m
<1>3. Inserted(l, m, Len(l) + 1)
  <2>1. Len(l) + 1 \in 1..Len(m) /\ (Len(l) + 1)..Len(l) = {} /\ (Len(l) + 1) - 1 = Len(l)
    BY <1>2
  <2> QED BY <1>2, <2>1 DEF Inserted
<1> QED BY <1>2, <1>3 DEF m, e

(* A node at the head. *)
LEMMA PeerInFront ==
  ASSUME NEW l \in Seq(Nodes), l # <<>>, NEW n \in Ids, NEW t \in Int, t <= l[1].time_out
  PROVE  WithPeer(l, n, t) = InsertAt(Delay(l, 1, -t), 1, Node(n, t))
<1> DEFINE x == Delay(l, 1, -t)  e == Node(n, t)
<1>1. WithPeer(l, n, t) = <<e>> \o x
  BY DEF WithPeer
<1>2. x \in Seq(Nodes) /\ e \in Nodes
  <2>1. -t \in Int /\ 1 \in 1..Len(l)
    OBVIOUS
  <2> QED BY <2>1, DelayIs DEF Node, Nodes
<1> HIDE DEF x, e
<1>3. SubSeq(x, 1, 1 - 1) = <<>> /\ SubSeq(x, 1, Len(x)) = x
  <2>1. SubSeq(x, 1, 0) = <<>>
    BY SubSeqEmpty
  <2> QED BY <1>2, <2>1, SubSeqFull
<1>4. <<>> \o <<e>> = <<e>>
  <2>1. <<e>> \in Seq(Nodes)
    BY <1>2
  <2> QED BY <2>1, ConcatEmptySeq
<1>5. InsertAt(x, 1, e) = <<e>> \o x
  BY <1>3, <1>4 DEF InsertAt
<1> QED BY <1>1, <1>5 DEF x, e

(* Whichever way addPeerToList takes, it inserts one node. *)
LEMMA WithPeerInserts ==
  ASSUME NEW l \in Seq(Nodes), NEW n \in Ids, NEW t \in Int
  PROVE  LET m == WithPeer(l, n, t)
         IN  m \in Seq(Nodes) /\ \E j \in 1..Len(m) : Inserted(l, m, j) /\ m[j].id = n
<1> DEFINE m == WithPeer(l, n, t)  Good == m \in Seq(Nodes) /\ \E j \in 1..Len(m) : Inserted(l, m, j) /\ m[j].id = n
<1>0. \A d : Node(n, d).id = n
  BY DEF Node
<1>1. ASSUME NEW j \in 1..Len(l), NEW d \in Int, m = InsertAt(Delay(l, j, -d), j, Node(n, d))
      PROVE  Good
  <2> HIDE DEF m
  <2>1. m \in Seq(Nodes) /\ Inserted(l, m, j) /\ m[j] = Node(n, d)
    BY <1>1, InFront
  <2> QED BY <1>0, <2>1 DEF Inserted
<1>2. ASSUME NEW d \in Int, m = Append(l, Node(n, d))
      PROVE  Good
  <2> HIDE DEF m
  <2>1. m \in Seq(Nodes) /\ Inserted(l, m, Len(l) + 1) /\ m[Len(l) + 1] = Node(n, d)
    BY <1>2, AtEnd
  <2> QED BY <1>0, <2>1 DEF Inserted
<1>3. CASE l = <<>>
  <2>1. m = Append(l, Node(n, t))
    BY <1>3 DEF WithPeer
  <2> QED BY <1>2, <2>1
<1>4. CASE l # <<>> /\ t <= l[1].time_out
  <2>1. 1 \in 1..Len(l)
    BY <1>4
  <2>2. m = InsertAt(Delay(l, 1, -t), 1, Node(n, t))
    BY <1>4, PeerInFront
  <2> QED BY <1>1, <2>1, <2>2
<1>5. CASE l # <<>> /\ ~(t <= l[1].time_out)
  <2> DEFINE j == StopAt(l, t)  d == t - TotalTo(l)[j]
  <2>1. j \in 1..Len(l)
    BY <1>5, StopAtType
  <2>2. d \in Int
    BY <2>1, TotalType
  <2>3. m = IF j < Len(l) \/ d < 0 THEN InsertAt(Delay(l, j, -d), j, Node(n, d))
                                   ELSE Append(l, Node(n, d))
    BY <1>5 DEF WithPeer
  <2> HIDE DEF j, d
  <2>4. CASE j < Len(l) \/ d < 0
    <3>1. m = InsertAt(Delay(l, j, -d), j, Node(n, d))
      BY <2>3, <2>4
    <3> QED BY <1>1, <2>1, <2>2, <3>1
  <2>5. CASE ~(j < Len(l) \/ d < 0)
    <3>1. m = Append(l, Node(n, d))
      BY <2>3, <2>5
    <3> QED BY <1>2, <2>2, <3>1
  <2> QED BY <2>4, <2>5
<1> QED BY <1>3, <1>4, <1>5

LEMMA FirstOfIs ==
  ASSUME NEW l \in Seq(Nodes), NEW n, \E i \in 1..Len(l) : l[i].id = n
  PROVE  /\ FirstOf(l, n) \in 1..Len(l) /\ l[FirstOf(l, n)].id = n
         /\ \A k \in 1..(FirstOf(l, n) - 1) : l[k].id # n
<1> DEFINE S == {i \in 1..Len(l) : l[i].id = n}
<1>1. PICK j \in S : \A i \in S : j <= i
  <2>1. S \subseteq Nat /\ S # {}
    OBVIOUS
  <2> HIDE DEF S
  <2> QED BY <2>1, LeastExists
<1>2. \A k \in 1..(j - 1) : l[k].id # n
  <2> SUFFICES ASSUME NEW k \in 1..(j - 1), l[k].id = n PROVE FALSE
    OBVIOUS
  <2>1. k \in S /\ ~(j <= k)
    OBVIOUS
  <2> QED BY <1>1, <2>1
<1>3. \E k \in 1..Len(l) : l[k].id = n /\ \A i \in 1..(k - 1) : l[i].id # n
  BY <1>1, <1>2
<1> QED BY <1>3 DEF FirstOf

(* delPeerFromList takes one node out, the way addPeerToList puts it in. *)
LEMMA WithoutPeerInserts ==
  ASSUME NEW l \in Seq(Nodes), NEW n, \E i \in 1..Len(l) : l[i].id = n
  PROVE  LET m == WithoutPeer(l, n)
         IN  m \in Seq(Nodes) /\ Inserted(m, l, FirstOf(l, n))
<1> DEFINE i == FirstOf(l, n)  d == l[i].time_out
           x == IF i = Len(l) THEN l ELSE Delay(l, i + 1, d)  m == RemoveAt(x, i)
<1>1. i \in 1..Len(l)
  BY FirstOfIs
<1>2. m = WithoutPeer(l, n)
  BY DEF WithoutPeer
<1>3. Len(l) \in Nat /\ d \in Int /\ \A k \in 1..Len(l) : l[k].time_out \in Int
  BY <1>1, NodesIn
<1> HIDE DEF i, d
<1>4. /\ x \in Seq(Nodes) /\ Len(x) = Len(l)
      /\ \A k \in 1..Len(l) :
           /\ x[k].id = l[k].id
           /\ x[k].time_out = l[k].time_out + (IF k = i + 1 THEN d ELSE 0)
           /\ k # i + 1 => x[k] = l[k]
  <2>1. CASE i = Len(l)
    <3>1. x = l
      BY <2>1
    <3>2. \A k \in 1..Len(l) : k # i + 1 /\ l[k].time_out + 0 = l[k].time_out
      BY <1>1, <1>3, <2>1
    <3> HIDE DEF x
    <3> QED BY <3>1, <3>2
  <2>2. CASE i # Len(l)
    <3>1. x = Delay(l, i + 1, d) /\ i + 1 \in 1..Len(l)
      BY <1>1, <1>3, <2>2
    <3> HIDE DEF x
    <3> QED BY <1>3, <3>1, DelayIs
  <2> QED BY <2>1, <2>2
<1> HIDE DEF x
<1>5. /\ m \in Seq(Nodes) /\ Len(m) = Len(l) - 1
      /\ \A k \in 1..(Len(l) - 1) : m[k] = IF k < i THEN x[k] ELSE x[k + 1]
  BY <1>1, <1>4, RemoveAtIs
<1> HIDE DEF m
<1>6. Len(l) = Len(m) + 1 /\ \A k \in 1..(i - 1) : l[k] = m[k]
  BY <1>1, <1>3, <1>4, <1>5
<1>7. ASSUME NEW k \in i..Len(m)
      PROVE  /\ l[k + 1].id = m[k].id
             /\ l[k + 1].time_out = m[k].time_out - (IF k = i THEN l[i].time_out ELSE 0)
  <2>1. k \in 1..(Len(l) - 1) /\ ~(k < i) /\ k + 1 \in 1..Len(l) /\ (k + 1 = i + 1 <=> k = i)
    BY <1>1, <1>3, <1>5
  <2>2. m[k] = x[k + 1]
    BY <1>5, <2>1
  <2>3. m[k].time_out = l[k + 1].time_out + (IF k = i THEN d ELSE 0)
    BY <1>4, <2>1, <2>2
  <2>4. l[k + 1].time_out \in Int
    BY <1>3, <2>1
  <2>5. l[k + 1].time_out = m[k].time_out - (IF k = i THEN d ELSE 0)
    BY <1>3, <2>3, <2>4
  <2> QED BY <1>4, <2>1, <2>2, <2>5 DEF d
<1>8. Inserted(m, l, i)
  BY <1>1, <1>6, <1>7 DEF Inserted
<1> QED BY <1>2, <1>5, <1>8 DEF i

-------------------------------------------------------------------------------
(* What a node more or less changes.                                       *)

(* Every other node is due when it was. *)
LEMMA InsertedSums ==
  ASSUME NEW l \in Seq(Nodes), NEW m \in Seq(Nodes), NEW j, Inserted(l, m, j)
  PROVE  \A i \in 1..Len(l) : Sums(l)[i] = Sums(m)[IF i < j THEN i ELSE i + 1]
<1>1. /\ Len(l) \in Nat /\ Len(m) = Len(l) + 1 /\ j \in 1..Len(m)
      /\ \A i \in 1..Len(l) : l[i].time_out \in Int
      /\ \A i \in 1..Len(m) : m[i].time_out \in Int
  BY NodesIn DEF Inserted
<1>2. /\ \A i \in 1..Len(l) : Sums(l)[i] \in Int
      /\ \A i \in 1..Len(m) : Sums(m)[i] \in Int
      /\ \A i \in 1..Len(l) : Sums(l)[i] = (IF i = 1 THEN 0 ELSE Sums(l)[i - 1]) + l[i].time_out
      /\ \A i \in 1..Len(m) : Sums(m)[i] = (IF i = 1 THEN 0 ELSE Sums(m)[i - 1]) + m[i].time_out
  BY SumsValue
<1> DEFINE P(i) == Sums(l)[i] = Sums(m)[IF i < j THEN i ELSE i + 1]
           S == {i \in 1..Len(l) : P(i)}
           before(i) == IF i = 1 THEN 0 ELSE Sums(l)[i - 1]
<1>3. ASSUME NEW i \in 1..Len(l), i = 1 \/ P(i - 1)
      PROVE  P(i)
  <2>1. CASE i < j
    <3>1. m[i] = l[i] /\ i \in 1..Len(m)
      BY <1>1, <2>1 DEF Inserted
    <3>2. (IF i = 1 THEN 0 ELSE Sums(l)[i - 1]) = (IF i = 1 THEN 0 ELSE Sums(m)[i - 1])
      BY <1>1, <1>3, <2>1
    <3>3. Sums(l)[i] = Sums(m)[i]
      BY <1>2, <3>1, <3>2
    <3> QED BY <2>1, <3>3
  <2>2. CASE i = j
    <3>1. /\ m[i + 1].time_out = l[i].time_out - m[i].time_out
          /\ i \in 1..Len(m) /\ i + 1 \in 1..Len(m)
      BY <1>1, <2>2 DEF Inserted
    <3>2. (IF i = 1 THEN 0 ELSE Sums(l)[i - 1]) = (IF i = 1 THEN 0 ELSE Sums(m)[i - 1])
      BY <1>1, <1>3, <2>2
    <3>3. Sums(m)[i + 1] = Sums(m)[i] + m[i + 1].time_out
      <4>1. i + 1 # 1 /\ (i + 1) - 1 = i
        BY <1>1
      <4> QED BY <1>2, <3>1, <4>1
    <3>4. Sums(m)[i] = (IF i = 1 THEN 0 ELSE Sums(l)[i - 1]) + m[i].time_out
      BY <1>2, <3>1, <3>2
    <3>5. before(i) \in Int /\ m[i].time_out \in Int /\ l[i].time_out \in Int
      BY <1>1, <1>2, <3>1
    <3>6. Sums(l)[i] = before(i) + l[i].time_out
      BY <1>2
    <3>7. Sums(m)[i] = before(i) + m[i].time_out
      BY <3>4
    <3> HIDE DEF before
    <3>8. Sums(m)[i + 1] = Sums(l)[i]
      BY <3>1, <3>3, <3>5, <3>6, <3>7
    <3>9. ~(i < j)
      BY <1>1, <2>2
    <3> QED BY <3>8, <3>9
  <2>3. CASE i > j
    <3>1. /\ m[i + 1].time_out = l[i].time_out /\ i + 1 \in 1..Len(m)
      <4>1. i \in j..Len(l) /\ i # j
        BY <1>1, <2>3
      <4>2. m[i + 1].time_out = l[i].time_out - 0
        BY <4>1 DEF Inserted
      <4> QED BY <1>1, <4>2
    <3>2. i # 1 /\ ~(i - 1 < j) /\ (i - 1) + 1 = i /\ (i + 1) - 1 = i /\ i + 1 # 1
      BY <1>1, <2>3
    <3>3. Sums(l)[i - 1] = Sums(m)[i]
      BY <1>3, <3>2
    <3>4. Sums(m)[i + 1] = Sums(m)[i] + m[i + 1].time_out
      BY <1>2, <3>1, <3>2
    <3>5. Sums(l)[i] = Sums(m)[i + 1]
      BY <1>2, <3>1, <3>2, <3>3, <3>4
    <3>6. ~(i < j)
      BY <1>1, <2>3
    <3> QED BY <3>5, <3>6
  <2> QED BY <1>1, <2>1, <2>2, <2>3
<1> HIDE DEF P
<1>4. /\ 1 \in Int /\ Len(l) \in Int /\ (1 <= Len(l) => 1 \in S)
      /\ \A i \in 1..(Len(l) - 1) : i \in S => i + 1 \in S
  <2>1. 1 <= Len(l) => 1 \in S
    BY <1>1, <1>3
  <2>2. ASSUME NEW i \in 1..(Len(l) - 1), i \in S PROVE i + 1 \in S
    <3>1. i + 1 \in 1..Len(l) /\ (i + 1) - 1 = i
      BY <1>1
    <3>2. P(i + 1)
      BY <1>3, <2>2, <3>1
    <3> QED BY <3>1, <3>2
  <2> HIDE DEF S
  <2> QED BY <1>1, <2>1, <2>2
<1> HIDE DEF S
<1>5. 1..Len(l) \subseteq S
  BY <1>4, StepByStep
<1> QED BY <1>5 DEF S, P

LEMMA InsertedDue ==
  ASSUME NEW l \in Seq(Nodes), NEW m \in Seq(Nodes), NEW j, Inserted(l, m, j)
  PROVE  j \in 1..Len(m) /\ RemoveAt(Due(m), j) = Due(l)
<1> DEFINE T == Ids \X Int
<1>1. /\ Len(l) \in Nat /\ Len(m) = Len(l) + 1 /\ j \in 1..Len(m)
      /\ \A i \in 1..Len(l) : l[i].id \in Ids
      /\ \A i \in 1..Len(m) : m[i].id \in Ids
  BY NodesIn DEF Inserted
<1>2. ASSUME NEW s \in Seq(Nodes)
      PROVE  /\ Due(s) \in Seq(T) /\ Len(Due(s)) = Len(s)
             /\ \A i \in 1..Len(s) : Due(s)[i] = <<s[i].id, Sums(s)[i]>>
  <2>1. Len(s) \in Nat /\ \A i \in 1..Len(s) : <<s[i].id, Sums(s)[i]>> \in T
    BY NodesIn, SumsValue
  <2> HIDE DEF T
  <2> QED BY <2>1 DEF Due
<1> HIDE DEF T
<1>3. /\ RemoveAt(Due(m), j) \in Seq(T) /\ Len(RemoveAt(Due(m), j)) = Len(l)
      /\ \A i \in 1..Len(l) : RemoveAt(Due(m), j)[i] = Due(m)[IF i < j THEN i ELSE i + 1]
  <2> DEFINE d == Due(m)
  <2>1. d \in Seq(T) /\ j \in 1..Len(d) /\ Len(d) - 1 = Len(l)
    BY <1>1, <1>2
  <2> HIDE DEF d
  <2>2. RemoveAt(d, j) \in Seq(T) /\ Len(RemoveAt(d, j)) = Len(d) - 1
    BY <2>1, RemoveAtIs
  <2>3. \A i \in 1..(Len(d) - 1) : RemoveAt(d, j)[i] = IF i < j THEN d[i] ELSE d[i + 1]
    BY <2>1, RemoveAtIs
  <2>4. RemoveAt(d, j) \in Seq(T) /\ Len(RemoveAt(d, j)) = Len(l)
        /\ \A i \in 1..Len(l) : RemoveAt(d, j)[i] = d[IF i < j THEN i ELSE i + 1]
    BY <2>1, <2>2, <2>3
  <2> QED BY <2>4 DEF d
<1>4. ASSUME NEW i \in 1..Len(l) PROVE RemoveAt(Due(m), j)[i] = Due(l)[i]
  <2> DEFINE k == IF i < j THEN i ELSE i + 1
  <2>1. k \in 1..Len(m) /\ m[k].id = l[i].id
    BY <1>1 DEF Inserted
  <2>2. Sums(l)[i] = Sums(m)[k]
    BY InsertedSums
  <2> HIDE DEF k
  <2>3. Due(m)[k] = Due(l)[i]
    BY <1>2, <2>1, <2>2
  <2> QED BY <1>3, <2>3 DEF k
<1>5. RemoveAt(Due(m), j) = Due(l)
  <2>1. Due(l) \in Seq(T) /\ Len(Due(l)) = Len(l)
    BY <1>2
  <2> DEFINE a == RemoveAt(Due(m), j)  b == Due(l)
  <2>2. a \in Seq(T) /\ b \in Seq(T) /\ Len(a) = Len(b) /\ \A i \in 1..Len(a) : a[i] = b[i]
    BY <1>3, <1>4, <2>1
  <2> HIDE DEF a, b
  <2>3. a = b
    BY <2>2, SeqEqual
  <2> QED BY <2>3 DEF a, b
<1> QED BY <1>1, <1>5

(* How many timers run for a packet. *)
LEMMA ArmedType ==
  ASSUME NEW l \in Seq(Nodes)
  PROVE  /\ Armed(l) \in [Ids -> Nat]
         /\ \A n \in Ids : /\ Armed(l)[n] = Cardinality({i \in 1..Len(l) : l[i].id = n})
                           /\ IsFiniteSet({i \in 1..Len(l) : l[i].id = n})
<1>1. ASSUME NEW n \in Ids
      PROVE  /\ IsFiniteSet({i \in 1..Len(l) : l[i].id = n})
             /\ Cardinality({i \in 1..Len(l) : l[i].id = n}) \in Nat
  <2>1. IsFiniteSet(1..Len(l))
    BY FS_Interval
  <2>2. IsFiniteSet({i \in 1..Len(l) : l[i].id = n})
    BY <2>1, FS_Subset
  <2> QED BY <2>2, FS_CardinalityType
<1> QED BY <1>1 DEF Armed

LEMMA InsertedArmed ==
  ASSUME NEW l \in Seq(Nodes), NEW m \in Seq(Nodes), NEW j, Inserted(l, m, j)
  PROVE  /\ m[j].id \in Ids
         /\ Armed(m) = [Armed(l) EXCEPT ![m[j].id] = @ + 1]
         /\ Armed(l) = [Armed(m) EXCEPT ![m[j].id] = @ - 1]
<1>1. /\ Len(l) \in Nat /\ Len(m) = Len(l) + 1 /\ j \in 1..Len(m)
      /\ \A i \in 1..Len(m) : m[i].id \in Ids
  BY NodesIn DEF Inserted
<1>2. ASSUME NEW n \in Ids
      PROVE  Armed(m)[n] = IF n = m[j].id THEN Armed(l)[n] + 1 ELSE Armed(l)[n]
  <2> DEFINE A == {i \in 1..Len(l) : l[i].id = n}  B == {i \in 1..Len(m) : m[i].id = n}
             f == [i \in A |-> IF i < j THEN i ELSE i + 1]
  <2>1. /\ IsFiniteSet(A) /\ IsFiniteSet(B)
        /\ Armed(l)[n] = Cardinality(A) /\ Armed(m)[n] = Cardinality(B)
    BY ArmedType
  <2>2. ExistsBijection(A, B \ {j})
    <3>1. \A i \in A : f[i] \in B \ {j}
      BY <1>1 DEF Inserted
    <3>2. f \in Injection(A, B \ {j})
      <4>1. \A a, b \in A : f[a] = f[b] => a = b
        BY <1>1
      <4>2. f \in [A -> B \ {j}]
        BY <3>1
      <4> HIDE DEF f, A, B
      <4> QED BY <4>1, <4>2 DEF Injection, IsInjective
    <3>3. f \in Surjection(A, B \ {j})
      <4>1. ASSUME NEW k \in B \ {j} PROVE \E i \in A : f[i] = k
        <5>1. CASE k < j
          <6>1. k \in A
            BY <1>1, <5>1 DEF Inserted
          <6> QED BY <5>1, <6>1
        <5>2. CASE k > j
          <6>1. k - 1 \in j..Len(l) /\ (k - 1) + 1 = k /\ ~(k - 1 < j)
            BY <1>1, <5>2
          <6>2. k - 1 \in A
            BY <1>1, <6>1 DEF Inserted
          <6> QED BY <6>1, <6>2
        <5>3. k # j /\ k \in Int /\ j \in Int
          BY <1>1
        <5> HIDE DEF f, A, B
        <5> QED BY <5>1, <5>2, <5>3
      <4>2. f \in [A -> B \ {j}]
        BY <3>1
      <4> HIDE DEF f, A, B
      <4> QED BY <4>1, <4>2 DEF Surjection
    <3> HIDE DEF f, A, B
    <3> QED BY <3>2, <3>3 DEF ExistsBijection, Bijection
  <2>3. j \in B <=> n = m[j].id
    BY <1>1
  <2> HIDE DEF A, B, f
  <2>4. Cardinality(B \ {j}) = Cardinality(A)
    BY <2>1, <2>2, FS_Bijection
  <2>5. Cardinality(B \ {j}) = IF j \in B THEN Cardinality(B) - 1 ELSE Cardinality(B)
    BY <2>1, FS_RemoveElement
  <2>6. Cardinality(A) \in Nat /\ Cardinality(B) \in Nat
    BY <2>1, FS_CardinalityType
  <2> QED BY <2>1, <2>3, <2>4, <2>5, <2>6
<1>3. m[j].id \in Ids /\ Armed(l) \in [Ids -> Nat] /\ Armed(m) \in [Ids -> Nat]
  BY <1>1, ArmedType
<1> HIDE DEF Armed
<1>4. Armed(m) = [Armed(l) EXCEPT ![m[j].id] = @ + 1]
  BY <1>2, <1>3
<1>5. Armed(l) = [Armed(m) EXCEPT ![m[j].id] = @ - 1]
  <2>1. ASSUME NEW n \in Ids
        PROVE  Armed(l)[n] = IF n = m[j].id THEN Armed(m)[n] - 1 ELSE Armed(m)[n]
    <3>1. Armed(l)[n] \in Nat
      BY <1>3
    <3> QED BY <1>2, <3>1
  <2> QED BY <1>3, <2>1
<1> QED BY <1>3, <1>4, <1>5

-------------------------------------------------------------------------------
(* An update: the nodes in front whose time is up leave the list.          *)

LEMMA RunOutIs ==
  ASSUME list \in Seq(Nodes), list # <<>>
  PROVE  /\ Ticked \in Seq(Nodes) /\ Len(Ticked) = Len(list)
         /\ \A i \in 1..Len(list) : Ticked[i].id = list[i].id
         /\ RunOut \in 0..Len(list)
         /\ \A i \in 1..RunOut : Ticked[i].time_out <= 0
         /\ RunOut < Len(list) => Ticked[RunOut + 1].time_out > 0
<1>1. /\ Len(list) \in Nat /\ 1 \in 1..Len(list)
      /\ -Tick \in Int
  BY TimerConstants
<1>2. /\ Ticked \in Seq(Nodes) /\ Len(Ticked) = Len(list)
      /\ \A i \in 1..Len(list) : Ticked[i].id = list[i].id
  BY <1>1, DelayIs DEF Ticked
<1>3. \A i \in 1..Len(list) : Ticked[i].time_out \in Int
  BY <1>2, NodesIn
<1> DEFINE Late == {i \in 1..Len(list) : Ticked[i].time_out > 0}
           Ends(k) == /\ \A i \in 1..k : Ticked[i].time_out <= 0
                      /\ k < Len(list) => Ticked[k + 1].time_out > 0
<1>4. \E k \in 0..Len(list) : Ends(k)
  <2>1. CASE Late = {}
    <3>1. \A i \in 1..Len(list) : Ticked[i].time_out <= 0
      BY <1>3, <2>1
    <3> QED BY <1>1, <3>1
  <2>2. CASE Late # {}
    <3>1. Late \subseteq Nat
      BY <1>1
    <3> HIDE DEF Late
    <3>2. PICK n \in Late : \A m \in Late : n <= m
      BY <2>2, <3>1, LeastExists
    <3>3. n \in 1..Len(list) /\ Ticked[n].time_out > 0
      BY <3>2 DEF Late
    <3>4. \A i \in 1..(n - 1) : i \in 1..Len(list) /\ ~(n <= i)
      BY <1>1, <3>3
    <3>5. \A i \in 1..(n - 1) : Ticked[i].time_out <= 0
      BY <1>3, <3>2, <3>4 DEF Late
    <3>6. n - 1 \in 0..Len(list) /\ (n - 1) + 1 = n
      BY <1>1, <3>3
    <3> QED BY <3>3, <3>5, <3>6
  <2> QED BY <2>1, <2>2
<1>5. RunOut = CHOOSE k \in 0..Len(list) : Ends(k)
  BY DEF RunOut
<1> HIDE DEF Ends
<1>6. RunOut \in 0..Len(list) /\ Ends(RunOut)
  BY <1>4, <1>5
<1> QED BY <1>2, <1>6 DEF Ends

(* A timer of the list is among the nodes that leave it or among the nodes *)
(* that stay.                                                              *)
LEMMA SplitArmed ==
  ASSUME NEW l \in Seq(Nodes), NEW m \in Seq(Nodes), Len(m) = Len(l),
         \A i \in 1..Len(l) : m[i].id = l[i].id,
         NEW k \in 0..Len(l)
  PROVE  /\ SubSeq(l, 1, k) \in Seq(Nodes)
         /\ SubSeq(m, k + 1, Len(l)) \in Seq(Nodes)
         /\ Len(SubSeq(m, k + 1, Len(l))) = Len(l) - k
         /\ \A n \in Ids :
              Armed(l)[n] = Armed(SubSeq(l, 1, k))[n] + Armed(SubSeq(m, k + 1, Len(l)))[n]
<1> DEFINE front == SubSeq(l, 1, k)  back == SubSeq(m, k + 1, Len(l))
<1>1. /\ Len(l) \in Nat /\ k \in Int /\ k <= Len(l) /\ 0 <= k
      /\ \A i \in 1..Len(l) : l[i] \in Nodes /\ m[i] \in Nodes
  BY NodesIn
<1>2. /\ front \in Seq(Nodes) /\ Len(front) = k
      /\ \A i \in 1..k : front[i] = l[i]
  <2>1. \A i \in 1..k : l[i] \in Nodes
    BY <1>1
  <2>2. /\ front \in Seq(Nodes)
        /\ Len(front) = IF 1 <= k THEN k - 1 + 1 ELSE 0
        /\ \A i \in 1..(k - 1 + 1) : front[i] = l[1 + i - 1]
    BY <1>1, <2>1, SubSeqProperties
  <2> HIDE DEF front
  <2>3. Len(front) = k
    BY <1>1, <2>2
  <2>4. \A i \in 1..k : i \in 1..(k - 1 + 1) /\ 1 + i - 1 = i
    BY <1>1
  <2> QED BY <2>2, <2>3, <2>4
<1>3. /\ back \in Seq(Nodes) /\ Len(back) = Len(l) - k
      /\ \A i \in 1..(Len(l) - k) : back[i].id = l[k + i].id
  <2>1. \A i \in (k + 1)..Len(l) : m[i] \in Nodes
    BY <1>1
  <2>2. k + 1 \in Int /\ Len(l) \in Int
    BY <1>1
  <2>3. /\ back \in Seq(Nodes)
        /\ Len(back) = IF k + 1 <= Len(l) THEN Len(l) - (k + 1) + 1 ELSE 0
        /\ \A i \in 1..(Len(l) - (k + 1) + 1) : back[i] = m[k + 1 + i - 1]
    BY <2>1, <2>2, SubSeqProperties
  <2> HIDE DEF back
  <2>4. Len(back) = Len(l) - k
    BY <1>1, <2>3
  <2>5. \A i \in 1..(Len(l) - k) : i \in 1..(Len(l) - (k + 1) + 1) /\ k + 1 + i - 1 = k + i /\ k + i \in 1..Len(l)
    BY <1>1
  <2>6. \A i \in 1..(Len(l) - k) : back[i].id = l[k + i].id
    BY <2>3, <2>5
  <2> QED BY <2>3, <2>4, <2>6
<1> HIDE DEF front, back
<1>4. ASSUME NEW n \in Ids
      PROVE  Armed(l)[n] = Armed(front)[n] + Armed(back)[n]
  <2> DEFINE A == {i \in 1..Len(l) : l[i].id = n}
             B == {i \in 1..Len(front) : front[i].id = n}
             C == {i \in 1..Len(back) : back[i].id = n}
             D == {i \in A : i > k}
             f == [i \in C |-> k + i]
  <2>1. /\ IsFiniteSet(A) /\ IsFiniteSet(B) /\ IsFiniteSet(C)
        /\ Armed(l)[n] = Cardinality(A) /\ Armed(front)[n] = Cardinality(B)
        /\ Armed(back)[n] = Cardinality(C)
    BY <1>2, <1>3, ArmedType
  <2>2. ExistsBijection(C, D)
    <3>1. f \in [C -> D]
      <4> SUFFICES ASSUME NEW i \in C PROVE k + i \in D
        OBVIOUS
      <4>1. i \in 1..(Len(l) - k) /\ back[i].id = n
        BY <1>3
      <4>2. k + i \in 1..Len(l) /\ k + i > k
        BY <1>1, <4>1
      <4> QED BY <1>3, <4>1, <4>2
    <3>2. \A a, b \in C : f[a] = f[b] => a = b
      BY <1>1, <1>3
    <3>3. ASSUME NEW i \in D PROVE \E a \in C : f[a] = i
      <4>1. i \in 1..Len(l) /\ i > k /\ l[i].id = n
        OBVIOUS
      <4>2. i - k \in 1..(Len(l) - k) /\ k + (i - k) = i
        BY <1>1, <4>1
      <4>3. i - k \in C
        BY <1>3, <4>1, <4>2
      <4> QED BY <4>2, <4>3
    <3> HIDE DEF f, C, D
    <3> QED BY <3>1, <3>2, <3>3 DEF ExistsBijection, Bijection, Injection, Surjection, IsInjective
  <2>3. B \cup D = A /\ B \cap D = {}
    BY <1>1, <1>2
  <2> HIDE DEF A, B, C, D, f
  <2>4. IsFiniteSet(D) /\ Cardinality(D) = Cardinality(C)
    BY <2>1, <2>2, FS_Bijection
  <2>5. Cardinality(A) = Cardinality(B) + Cardinality(D) - Cardinality({})
    BY <2>1, <2>3, <2>4, FS_Union
  <2>6. Cardinality({}) = 0 /\ Cardinality(B) \in Nat /\ Cardinality(C) \in Nat
    BY <2>1, FS_EmptySet, FS_CardinalityType
  <2> QED BY <2>1, <2>4, <2>5, <2>6
<1> QED BY <1>2, <1>3, <1>4 DEF front, back

-------------------------------------------------------------------------------
(* The steps of the process.                                               *)

LEMMA Messages ==
  ASSUME TypeOK, inbox # <<>>
  PROVE  /\ Head(inbox).id \in Ids /\ Head(inbox).time_out \in Int
         /\ Tail(inbox) \in Seq([id : Ids, time_out : Timeouts \cup {0}])
<1> DEFINE M == [id : Ids, time_out : Timeouts \cup {0}]
<1>1. Head(inbox) \in M /\ Tail(inbox) \in Seq(M)
  <2>1. inbox \in Seq(M)
    BY DEF TypeOK
  <2> HIDE DEF M
  <2> QED BY <2>1, HeadTailProperties
<1>2. Timeouts \cup {0} \subseteq Int
  BY TimerConstants
<1> QED BY <1>1, <1>2 DEF TypeOK

LEMMA Adding ==
  ASSUME TypeOK, AddPeer
  PROVE  /\ list' \in Seq(Nodes)
         /\ \E j \in 1..Len(list') : Inserted(list, list', j) /\ list'[j].id = Head(inbox).id
<1>1. list \in Seq(Nodes) /\ inbox # <<>>
  BY DEF TypeOK, Nodes, AddPeer
<1> QED BY <1>1, Messages, WithPeerInserts DEF AddPeer

LEMMA Removing ==
  ASSUME TypeOK, DelPeer, list' # list
  PROVE  /\ list' \in Seq(Nodes)
         /\ \E j \in 1..Len(list) : Inserted(list', list, j)
         /\ numPeers' = CountWithout(list, 1)
<1>1. list \in Seq(Nodes)
  BY DEF TypeOK, Nodes
<1>2. /\ \E i \in 1..Len(list) : list[i].id = Head(inbox).id
      /\ list' = WithoutPeer(list, Head(inbox).id)
      /\ numPeers' = CountWithout(list, 1)
  BY DEF DelPeer
<1>3. FirstOf(list, Head(inbox).id) \in 1..Len(list)
  BY <1>1, <1>2, FirstOfIs
<1> QED BY <1>1, <1>2, <1>3, WithoutPeerInserts

LEMMA Updating ==
  ASSUME TypeOK, UpdateList
  PROVE  /\ list' \in Seq(Nodes) /\ RunOut \in 0..Len(list) /\ Len(list) \in Nat
         /\ Len(list') = Len(list) - RunOut
         /\ SubSeq(list, 1, RunOut) \in Seq(Nodes)
         /\ \A n \in Ids : Armed(list)[n] = Armed(SubSeq(list, 1, RunOut))[n] + Armed(list')[n]
<1>1. list \in Seq(Nodes) /\ list # <<>> /\ list' = SubSeq(Ticked, RunOut + 1, Len(list))
  BY DEF TypeOK, Nodes, UpdateList
<1>2. /\ Ticked \in Seq(Nodes) /\ Len(Ticked) = Len(list)
      /\ \A i \in 1..Len(list) : Ticked[i].id = list[i].id
      /\ RunOut \in 0..Len(list)
  BY <1>1, RunOutIs
<1>3. /\ SubSeq(list, 1, RunOut) \in Seq(Nodes)
      /\ SubSeq(Ticked, RunOut + 1, Len(list)) \in Seq(Nodes)
      /\ Len(SubSeq(Ticked, RunOut + 1, Len(list))) = Len(list) - RunOut
      /\ \A n \in Ids :
           Armed(list)[n] = Armed(SubSeq(list, 1, RunOut))[n]
                              + Armed(SubSeq(Ticked, RunOut + 1, Len(list)))[n]
  BY <1>1, <1>2, SplitArmed
<1>4. Len(list) \in Nat
  BY <1>1
<1> QED BY <1>1, <1>2, <1>3, <1>4

LEMMA ExpiredType ==
  ASSUME TypeOK, UpdateList
  PROVE  expired' \in [Ids -> Nat]
<1>1. Armed(SubSeq(list, 1, RunOut)) \in [Ids -> Nat]
  BY Updating, ArmedType
<1>2. expired \in [Ids -> Nat]
  BY DEF TypeOK
<1>3. Report(RunOut) \in [Ids -> Nat]
  <2>1. ASSUME NEW n \in Ids PROVE expired[n] + Armed(SubSeq(list, 1, RunOut))[n] \in Nat
    <3>1. expired[n] \in Nat /\ Armed(SubSeq(list, 1, RunOut))[n] \in Nat
      BY <1>1, <1>2
    <3> QED BY <3>1
  <2> QED BY <2>1 DEF Report
<1> QED BY <1>2, <1>3 DEF UpdateList

(* A count that covers the list covers it without k of its nodes.          *)
LEMMA CountLeft ==
  ASSUME NEW l \in Seq(Nodes), numPeers \in Nat, numPeers >= Len(l), NEW k \in 0..Len(l)
  PROVE  CountWithout(l, k) \in Nat /\ CountWithout(l, k) >= Len(l) - k
<1>1. Len(l) \in Nat /\ k \in Nat /\ k <= Len(l)
  OBVIOUS
<1> QED BY <1>1 DEF CountWithout

(* The types, the count of nodes that covers the list, and the sockets the *)
(* bound of the model leaves time to open.                                 *)
TimerInv == TypeOK /\ CountCoversList /\ fds <= MaxIdle

LEMMA SendKeepsTimerInv ==
  ASSUME TimerInv, NEW n \in Ids, NEW t \in Timeouts \cup {0}, Sends(n, t)
  PROVE  TimerInv'
<1>1. Node(n, t) \in [id : Ids, time_out : Timeouts \cup {0}]
  BY DEF Node
<1>2. inbox' \in Seq([id : Ids, time_out : Timeouts \cup {0}])
  BY <1>1 DEF Sends, TimerInv, TypeOK
<1>3. msgs' \in 0..MaxMsgs
  BY TimerConstants DEF Sends, TimerInv, TypeOK
<1> QED BY <1>2, <1>3 DEF Sends, TimerInv, TypeOK, CountCoversList

LEMMA ReadKeepsTimerInv ==
  ASSUME TimerInv, NEW n \in Ids, ClientReads(n)
  PROVE  TimerInv'
<1>1. expired \in [Ids -> Nat] /\ expired[n] > 0
  BY DEF ClientReads, TimerInv, TypeOK
<1>2. expired[n] \in Nat
  BY <1>1
<1>3. expired[n] - 1 \in Nat
  BY <1>1, <1>2
<1>4. expired' \in [Ids -> Nat]
  BY <1>1, <1>3 DEF ClientReads
<1> QED BY <1>4 DEF ClientReads, TimerInv, TypeOK, CountCoversList

LEMMA TimerStep ==
  ASSUME TimerInv, Timer
  PROVE  TimerInv'
<1> USE DEF TimerInv
<1>1. /\ list \in Seq(Nodes) /\ Len(list) \in Nat /\ numPeers \in Nat /\ numPeers >= Len(list)
  BY DEF TypeOK, Nodes, CountCoversList
<1>2. CASE AddPeer
  <2>1. list' \in Seq(Nodes) /\ Len(list') = Len(list) + 1 /\ numPeers' = numPeers + 1
    BY <1>2, Adding DEF AddPeer, Inserted
  <2>2. numPeers' \in Nat /\ numPeers' >= Len(list')
    BY <1>1, <2>1
  <2>3. inbox' \in Seq([id : Ids, time_out : Timeouts \cup {0}])
    BY <1>2, Messages DEF AddPeer
  <2> QED BY <1>2, <2>1, <2>2, <2>3 DEF AddPeer, TypeOK, CountCoversList, Nodes
<1>3. CASE DelPeer
  <2>1. inbox' \in Seq([id : Ids, time_out : Timeouts \cup {0}])
    BY <1>3, Messages DEF DelPeer
  <2>2. CASE list' = list
    <3>1. CASE numPeers' = numPeers
      BY <1>3, <2>1, <2>2, <3>1 DEF DelPeer, TypeOK, CountCoversList
    <3>2. CASE numPeers' # numPeers
      <4>1. /\ \E i \in 1..Len(list) : list[i].id = Head(inbox).id
            /\ list = WithoutPeer(list, Head(inbox).id)
        BY <1>3, <2>2, <3>2 DEF DelPeer
      <4>2. Inserted(list, list, FirstOf(list, Head(inbox).id))
        BY <1>1, <4>1, WithoutPeerInserts
      <4> QED BY <1>1, <4>2 DEF Inserted
    <3> QED BY <3>1, <3>2
  <2>3. CASE list' # list
    <3>1. /\ list' \in Seq(Nodes) /\ Len(list) = Len(list') + 1
          /\ numPeers' = CountWithout(list, 1)
      BY <1>3, <2>3, Removing DEF Inserted
    <3>2. Len(list') \in Nat
      BY <3>1
    <3>3. 1 \in 0..Len(list) /\ Len(list') = Len(list) - 1
      BY <1>1, <3>1, <3>2
    <3>4. numPeers' \in Nat /\ numPeers' >= Len(list')
      BY <1>1, <3>1, <3>3, CountLeft
    <3> QED BY <1>3, <2>1, <3>1, <3>4 DEF DelPeer, TypeOK, CountCoversList, Nodes
  <2> QED BY <2>2, <2>3
<1>4. CASE UpdateEmpty
  <2>1. fds \in Nat /\ fds <= FdLimit /\ FdLimit \in Nat /\ MaxIdle \in Nat
    BY TimerConstants DEF TypeOK
  <2>2. fds' \in 0..FdLimit /\ fds' <= MaxIdle
    BY <1>4, <2>1 DEF UpdateEmpty
  <2> QED BY <1>4, <2>2 DEF UpdateEmpty, TypeOK, CountCoversList
<1>5. CASE UpdateList
  <2>1. /\ list' \in Seq(Nodes) /\ RunOut \in 0..Len(list) /\ Len(list') = Len(list) - RunOut
        /\ numPeers' = CountWithout(list, RunOut)
    BY <1>5, Updating DEF UpdateList
  <2>2. numPeers' \in Nat /\ numPeers' >= Len(list')
    BY <1>1, <2>1, CountLeft
  <2>3. expired' \in [Ids -> Nat]
    BY <1>5, ExpiredType
  <2> QED BY <1>5, <2>1, <2>2, <2>3 DEF UpdateList, TypeOK, CountCoversList, Nodes
<1> QED BY <1>2, <1>3, <1>4, <1>5 DEF Timer

LEMMA TimerInit ==
  ASSUME Init
  PROVE  TimerInv /\ Armed(list) = [n \in Ids |-> 0]
<1>1. TimerInv
  BY TimerConstants DEF Init, TimerInv, TypeOK, CountCoversList
<1>2. ASSUME NEW n \in Ids PROVE Armed(list)[n] = 0
  <2>1. list = <<>>
    BY DEF Init
  <2>2. {i \in 1..Len(list) : list[i].id = n} = {}
    BY <2>1
  <2> QED BY <2>2, FS_EmptySet DEF Armed
<1> QED BY <1>1, <1>2 DEF Armed

LEMMA TimerSafe == Spec => []TimerInv
<1>1. Init => TimerInv
  BY TimerInit
<1>2. TimerInv /\ [Next]_vars => TimerInv'
  <2> SUFFICES ASSUME TimerInv, [Next]_vars PROVE TimerInv'
    OBVIOUS
  <2>1. CASE Timer
    BY <2>1, TimerStep
  <2>2. CASE ClientSends
    BY <2>2, SendKeepsTimerInv DEF ClientSends
  <2>3. ASSUME NEW n \in Ids, ClientReads(n) PROVE TimerInv'
    BY <2>3, ReadKeepsTimerInv
  <2>4. CASE UNCHANGED vars
    BY <2>4 DEF vars, TimerInv, TypeOK, CountCoversList
  <2> QED BY <2>1, <2>2, <2>3, <2>4 DEF Next
<1> QED BY <1>1, <1>2, PTL DEF Spec

-------------------------------------------------------------------------------
(* Every variable of the timer process keeps its type, for all packets,    *)
(* timeouts and bounds: no sequence of starts, stops and updates makes a   *)
(* delay of the list anything but a number of its time unit.               *)
THEOREM TypeCorrect == Spec => []TypeOK
<1>1. TimerInv => TypeOK
  BY DEF TimerInv
<1> QED BY <1>1, TimerSafe, PTL

(* The count of nodes never falls below the nodes there are, however many  *)
(* timers were started, stopped and run out, so that delPeerFromList never *)
(* takes a list with nodes for an empty one (timer_lib.c:184-201, 223).    *)
THEOREM CountCovers == Spec => []CountCoversList
<1>1. TimerInv => CountCoversList
  BY DEF TimerInv
<1> QED BY <1>1, TimerSafe, PTL

(* A start or a stop puts one timer in its place or takes one out. *)
LEMMA StepUndisturbed ==
  ASSUME TimerInv
  PROVE  /\ AddPeer => \E i \in 1..Len(list') : RemoveAt(Due(list'), i) = Due(list)
         /\ DelPeer /\ list' # list =>
              \E i \in 1..Len(list) : RemoveAt(Due(list), i) = Due(list')
<1>1. list \in Seq(Nodes) /\ TypeOK
  BY DEF TimerInv, TypeOK, Nodes
<1>2. ASSUME AddPeer
      PROVE  \E i \in 1..Len(list') : RemoveAt(Due(list'), i) = Due(list)
  <2>1. list' \in Seq(Nodes)
    BY <1>1, <1>2, Adding
  <2>2. PICK j \in 1..Len(list') : Inserted(list, list', j)
    BY <1>1, <1>2, Adding
  <2>3. RemoveAt(Due(list'), j) = Due(list)
    BY <1>1, <2>1, <2>2, InsertedDue
  <2> QED BY <2>3
<1>3. ASSUME DelPeer, list' # list
      PROVE  \E i \in 1..Len(list) : RemoveAt(Due(list), i) = Due(list')
  <2>1. list' \in Seq(Nodes)
    BY <1>1, <1>3, Removing
  <2>2. PICK j \in 1..Len(list) : Inserted(list', list, j)
    BY <1>1, <1>3, Removing
  <2>3. RemoveAt(Due(list), j) = Due(list')
    BY <1>1, <2>1, <2>2, InsertedDue
  <2> QED BY <2>3
<1> QED BY <1>2, <1>3

(* Starting or stopping a timer moves no other timer's deadline, in a list *)
(* of any length and at any of its positions (timer_lib.c:111-217).        *)
THEOREM DeadlinesKept == Spec => OthersUndisturbed
<1>1. TimerInv =>
        [/\ AddPeer => \E i \in 1..Len(list') : RemoveAt(Due(list'), i) = Due(list)
         /\ DelPeer /\ list' # list =>
              \E i \in 1..Len(list) : RemoveAt(Due(list), i) = Due(list')]_vars
  BY StepUndisturbed
<1> QED BY <1>1, TimerSafe, PTL DEF OthersUndisturbed

-------------------------------------------------------------------------------
(* The process implements AlarmSet.                                        *)

LEMMA StepIsAlarm ==
  ASSUME MaxIdle < FdLimit, TimerInv, [Next]_vars
  PROVE  [Alarms!Next]_<<Armed(list), expired>>
<1>1. list \in Seq(Nodes) /\ TypeOK
  BY DEF TimerInv, TypeOK, Nodes
<1>2. CASE AddPeer
  <2>1. list' \in Seq(Nodes)
    BY <1>1, <1>2, Adding
  <2>2. PICK j \in 1..Len(list') : Inserted(list, list', j)
    BY <1>1, <1>2, Adding
  <2>3. list'[j].id \in Ids /\ Armed(list') = [Armed(list) EXCEPT ![list'[j].id] = @ + 1]
    BY <1>1, <2>1, <2>2, InsertedArmed
  <2>4. expired' = expired
    BY <1>2 DEF AddPeer
  <2> QED BY <2>3, <2>4 DEF Alarms!Next, Alarms!Arm
<1>3. CASE DelPeer
  <2>1. expired' = expired
    BY <1>3 DEF DelPeer
  <2>2. CASE list' = list
    BY <2>1, <2>2
  <2>3. CASE list' # list
    <3>1. list' \in Seq(Nodes)
      BY <1>1, <1>3, <2>3, Removing
    <3>2. PICK j \in 1..Len(list) : Inserted(list', list, j)
      BY <1>1, <1>3, <2>3, Removing
    <3>3. /\ list[j].id \in Ids
          /\ Armed(list) = [Armed(list') EXCEPT ![list[j].id] = @ + 1]
          /\ Armed(list') = [Armed(list) EXCEPT ![list[j].id] = @ - 1]
      BY <1>1, <3>1, <3>2, InsertedArmed
    <3>4. Armed(list)[list[j].id] > 0
      <4>1. Armed(list') \in [Ids -> Nat]
        BY <3>1, ArmedType
      <4>2. Armed(list')[list[j].id] \in Nat
        BY <3>3, <4>1
      <4>3. Armed(list)[list[j].id] = Armed(list')[list[j].id] + 1
        BY <3>3, <4>1
      <4> QED BY <4>2, <4>3
    <3> QED BY <2>1, <3>3, <3>4 DEF Alarms!Next, Alarms!Cancel
  <2> QED BY <2>2, <2>3
<1>4. CASE UpdateEmpty
  BY <1>4 DEF UpdateEmpty
<1>5. CASE UpdateList
  <2>1. fds < FdLimit
    BY TimerConstants DEF TimerInv, TypeOK
  <2>2. expired' = [n \in Ids |-> expired[n] + Armed(SubSeq(list, 1, RunOut))[n]]
    BY <1>5, <2>1 DEF UpdateList, Report
  <2>3. /\ list' \in Seq(Nodes) /\ SubSeq(list, 1, RunOut) \in Seq(Nodes)
        /\ \A n \in Ids : Armed(list)[n] = Armed(SubSeq(list, 1, RunOut))[n] + Armed(list')[n]
    BY <1>1, <1>5, Updating
  <2>4. ASSUME NEW n \in Ids
        PROVE  /\ Armed(list')[n] <= Armed(list)[n]
               /\ Armed(SubSeq(list, 1, RunOut))[n] = Armed(list)[n] - Armed(list')[n]
    <3> DEFINE gone == Armed(SubSeq(list, 1, RunOut))[n]  stay == Armed(list')[n]
    <3>1. gone \in Nat /\ stay \in Nat /\ Armed(list)[n] = gone + stay
      BY <2>3, ArmedType
    <3> HIDE DEF gone, stay
    <3>2. stay <= Armed(list)[n] /\ gone = Armed(list)[n] - stay
      BY <3>1
    <3> QED BY <3>2 DEF gone, stay
  <2>5. Alarms!Expire
    BY <2>2, <2>4 DEF Alarms!Expire
  <2> QED BY <2>5 DEF Alarms!Next
<1>6. CASE ClientSends
  BY <1>6 DEF ClientSends, Sends
<1>7. ASSUME NEW n \in Ids, ClientReads(n)
      PROVE  [Alarms!Next]_<<Armed(list), expired>>
  <2>1. list' = list /\ expired[n] > 0 /\ expired' = [expired EXCEPT ![n] = @ - 1]
    BY <1>7 DEF ClientReads
  <2> QED BY <2>1 DEF Alarms!Next, Alarms!Read
<1>8. CASE UNCHANGED vars
  BY <1>8 DEF vars
<1> QED BY <1>2, <1>3, <1>4, <1>5, <1>6, <1>7, <1>8 DEF Next, Timer

(* The delta list is a set of alarms: each timer that is started runs      *)
(* until it is stopped or runs out, one that runs out is reported once,    *)
(* and no other changes - as long as the sockets that updates of an empty  *)
(* list leave open have not used up the process's limit.                   *)
THEOREM ImplementsAlarmSet ==
  ASSUME MaxIdle < FdLimit
  PROVE  Spec => AlarmSetSpec
<1>1. Init => Alarms!Init
  BY TimerInit DEF Init, Alarms!Init
<1>2. TimerInv /\ [Next]_vars => [Alarms!Next]_<<Armed(list), expired>>
  BY StepIsAlarm
<1> QED BY <1>1, <1>2, TimerSafe, PTL DEF Spec, AlarmSetSpec, Alarms!Spec
===============================================================================
