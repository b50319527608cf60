------------------------- MODULE DeltaListHeapProofs -------------------------
(***************************************************************************)
(* Proofs about the linked list of timer_lib.c, for heaps of any size: the *)
(* nodes on the heap are the delta list, and every node is accounted for.  *)
(***************************************************************************)
EXTENDS DeltaListHeap, DeltaTimerProofs

Cells == [id : Ids \cup {-1}, time_out : Int, prev : Int, next : Int]
Heaps == [mem : [Addresses -> Cells], head : Int, tail : Int]

(* The node at a position of a walk, NULL beside it. *)
At(w, i) == IF i \in 1..Len(w) THEN w[i] ELSE Null

(* The addresses w, no two the same, carry the list l and its links. *)
Chain(h, w, l) ==
  /\ w \in Seq(Addresses) /\ Len(w) = Len(l)
  /\ \A i, j \in 1..Len(w) : w[i] = w[j] => i = j
  /\ h.head = At(w, 1) /\ h.tail = At(w, Len(w))
  /\ \A i \in 1..Len(w) :
       /\ h.mem[w[i]].id = l[i].id /\ h.mem[w[i]].time_out = l[i].time_out
       /\ h.mem[w[i]].prev = At(w, i - 1) /\ h.mem[w[i]].next = At(w, i + 1)

Off(w, a) == \A i \in 1..Len(w) : w[i] # a

(* What adding the node p of a timer at position j of the chain w does. *)
Spliced(h, g, w, j, p, d) ==
  /\ g \in Heaps
  /\ g.head = IF j = 1 THEN p ELSE h.head
  /\ g.tail = IF j = Len(w) + 1 THEN p ELSE h.tail
  /\ g.mem[p].id = h.mem[p].id /\ g.mem[p].time_out = d
  /\ g.mem[p].prev = At(w, j - 1) /\ g.mem[p].next = At(w, j)
  /\ \A i \in 1..Len(w) :
       /\ g.mem[w[i]].id = h.mem[w[i]].id
       /\ g.mem[w[i]].time_out = h.mem[w[i]].time_out - (IF i = j THEN d ELSE 0)
       /\ g.mem[w[i]].prev = IF i = j THEN p ELSE h.mem[w[i]].prev
       /\ g.mem[w[i]].next = IF i = j - 1 THEN p ELSE h.mem[w[i]].next
  /\ \A a \in Addresses : a # p /\ Off(w, a) => g.mem[a] = h.mem[a]

-------------------------------------------------------------------------------
(* Writing to one node.                                                    *)

LEMMA AddressesAre ==
  /\ Addresses \subseteq Int /\ Null \notin Addresses /\ Garbage \notin Addresses
  /\ Null \in Int /\ Garbage \in Int /\ Null # Garbage
BY TimerConstants DEF Addresses, Null, Garbage

LEMMA ChainAddresses ==
  ASSUME NEW h \in Heaps, NEW w, NEW l, Chain(h, w, l)
  PROVE  /\ Len(w) \in Nat /\ Len(w) = Len(l)
         /\ \A i \in 1..Len(w) : w[i] \in Addresses /\ h.mem[w[i]] \in Cells /\ w[i] # Null
         /\ h.mem \in [Addresses -> Cells]
<1>1. h.mem \in [Addresses -> Cells]
  BY DEF Heaps
<1>2. w \in Seq(Addresses) /\ Len(w) = Len(l)
  BY DEF Chain
<1>3. Len(w) \in Nat /\ \A i \in 1..Len(w) : w[i] \in Addresses
  BY <1>2
<1> QED BY <1>1, <1>2, <1>3, AddressesAre

LEMMA CellWrite ==
  ASSUME NEW r \in Cells, NEW x \in Int
  PROVE  /\ [r EXCEPT !.time_out = x] \in Cells
         /\ [r EXCEPT !.prev = x] \in Cells
         /\ [r EXCEPT !.next = x] \in Cells
BY DEF Cells

LEMMA CellType ==
  ASSUME NEW h \in Heaps, NEW a \in Addresses
  PROVE  /\ h.mem \in [Addresses -> Cells] /\ h.mem[a] \in Cells
         /\ h.mem[a].time_out \in Int /\ h.mem[a].prev \in Int /\ h.mem[a].next \in Int
         /\ h.head \in Int /\ h.tail \in Int /\ a \in Int
<1>1. h.mem \in [Addresses -> Cells] /\ h.head \in Int /\ h.tail \in Int
  BY DEF Heaps
<1>2. h.mem[a] \in Cells
  BY <1>1
<1> QED BY <1>1, <1>2, AddressesAre DEF Cells

(* The heap made of a memory, a head and a tail. *)
LEMMA HeapOf ==
  ASSUME NEW m \in [Addresses -> Cells], NEW x \in Int, NEW y \in Int
  PROVE  [mem |-> m, head |-> x, tail |-> y] \in Heaps
BY DEF Heaps

-------------------------------------------------------------------------------
(* addPeerToList: each way of adding a node splices it into the chain.     *)

LEMMA HeadSplice ==
  ASSUME NEW h \in Heaps, NEW w, NEW l, Chain(h, w, l), Len(w) # 0,
         NEW p \in Addresses, Off(w, p)
  PROVE  Spliced(h, AddAtHead(h, p), w, 1, p, h.mem[p].time_out)
<1> DEFINE a == w[1]  t == h.mem[p].time_out  g == AddAtHead(h, p)
           c == [h.mem[a] EXCEPT !.time_out = h.mem[a].time_out - t, !.prev = p]
           e == [h.mem[p] EXCEPT !.next = a, !.prev = Null]
<1>1. /\ Len(w) \in Nat /\ 1 \in 1..Len(w) /\ a \in Addresses /\ a # p
      /\ h.mem[a] \in Cells /\ h.mem[p] \in Cells
      /\ h.mem \in [Addresses -> Cells]
  BY ChainAddresses DEF Off
<1>2. t \in Int /\ h.mem[a].time_out \in Int /\ p \in Int /\ a \in Int /\ Null \in Int /\ h.tail \in Int
  BY <1>1, AddressesAre, CellType
<1>3. h.head = a
  BY <1>1 DEF Chain, At
<1>4. c \in Cells /\ e \in Cells
  <2>0. h.mem[a].time_out - t \in Int
    BY <1>2
  <2>1. [h.mem[a] EXCEPT !.time_out = h.mem[a].time_out - t] \in Cells
    BY <1>1, <2>0, CellWrite
  <2>2. [h.mem[p] EXCEPT !.next = a] \in Cells
    BY <1>1, <1>2, CellWrite
  <2> QED BY <1>2, <2>1, <2>2, CellWrite
<1>5. /\ c.id = h.mem[a].id /\ c.time_out = h.mem[a].time_out - t
      /\ c.prev = p /\ c.next = h.mem[a].next
      /\ e.id = h.mem[p].id /\ e.time_out = t
      /\ e.prev = Null /\ e.next = a
  BY <1>1 DEF Cells
<1>6. g.head = p /\ g.tail = h.tail
  BY DEF AddAtHead
<1>7. g.mem = [h.mem EXCEPT ![a] = c, ![p] = e]
  BY <1>1, <1>3 DEF AddAtHead
<1> HIDE DEF c, e
<1>8. g.mem \in [Addresses -> Cells] /\ g.mem[a] = c /\ g.mem[p] = e
      /\ \A b \in Addresses : b # a /\ b # p => g.mem[b] = h.mem[b]
  BY <1>1, <1>4, <1>7
<1>9. g \in Heaps
  <2>1. g = [mem |-> g.mem, head |-> p, tail |-> h.tail]
    BY DEF AddAtHead
  <2> HIDE DEF g
  <2> QED BY <1>2, <1>8, <2>1, HeapOf
<1> HIDE DEF g
<1>10. At(w, 1 - 1) = Null /\ At(w, 1) = a /\ 1 # Len(w) + 1
  BY <1>1 DEF At
<1>11. \A i \in 1..Len(w) : i # 1 => w[i] \in Addresses /\ w[i] # a /\ w[i] # p /\ i # 0
  BY <1>1, ChainAddresses DEF Chain, Off
<1>12. \A i \in 1..Len(w) : i # 1 => g.mem[w[i]] = h.mem[w[i]]
  BY <1>8, <1>11
<1>13. \A i \in 1..Len(w) :
         /\ g.mem[w[i]].id = h.mem[w[i]].id
         /\ g.mem[w[i]].time_out = h.mem[w[i]].time_out - (IF i = 1 THEN t ELSE 0)
         /\ g.mem[w[i]].prev = IF i = 1 THEN p ELSE h.mem[w[i]].prev
         /\ g.mem[w[i]].next = IF i = 1 - 1 THEN p ELSE h.mem[w[i]].next
  <2> SUFFICES ASSUME NEW i \in 1..Len(w)
               PROVE  /\ g.mem[w[i]].id = h.mem[w[i]].id
                      /\ g.mem[w[i]].time_out = h.mem[w[i]].time_out - (IF i = 1 THEN t ELSE 0)
                      /\ g.mem[w[i]].prev = IF i = 1 THEN p ELSE h.mem[w[i]].prev
                      /\ g.mem[w[i]].next = IF i = 1 - 1 THEN p ELSE h.mem[w[i]].next
    OBVIOUS
  <2>1. CASE i = 1
    BY <2>1, <1>5, <1>8
  <2>2. CASE i # 1
    <3>1. h.mem[w[i]].time_out \in Int
      BY <2>2, <1>11, CellType
    <3> QED BY <2>2, <3>1, <1>12
  <2> QED BY <2>1, <2>2
<1>14. \A b \in Addresses : b # p /\ Off(w, b) => g.mem[b] = h.mem[b]
  BY <1>1, <1>8 DEF Off
<1>15. g.mem[p].id = h.mem[p].id /\ g.mem[p].time_out = t
       /\ g.mem[p].prev = At(w, 1 - 1) /\ g.mem[p].next = At(w, 1)
  BY <1>5, <1>8, <1>10
<1>16. /\ g.head = IF 1 = 1 THEN p ELSE h.head
       /\ g.tail = IF 1 = Len(w) + 1 THEN p ELSE h.tail
  BY <1>6, <1>10
<1> HIDE DEF a, t
<1>17. Spliced(h, g, w, 1, p, t)
  BY <1>9, <1>13, <1>14, <1>15, <1>16 DEF Spliced
<1> QED BY <1>17 DEF g, t

LEMMA BetweenSplice ==
  ASSUME NEW h \in Heaps, NEW w, NEW l, Chain(h, w, l), NEW j \in 2..Len(w),
         NEW p \in Addresses, Off(w, p), NEW d \in Int
  PROVE  Spliced(h, AddBefore(h, p, w[j], w[j - 1], d), w, j, p, d)
<1> DEFINE a == w[j]  b == w[j - 1]  g == AddBefore(h, p, a, b, d)
           c == [h.mem[a] EXCEPT !.time_out = h.mem[a].time_out - d, !.prev = p]
           e == [h.mem[p] EXCEPT !.time_out = d, !.next = a, !.prev = b]
           f == [h.mem[b] EXCEPT !.next = p]
<1>1. /\ Len(w) \in Nat /\ j \in 1..Len(w) /\ j - 1 \in 1..Len(w)
      /\ a \in Addresses /\ b \in Addresses /\ a # p /\ b # p
      /\ h.mem[a] \in Cells /\ h.mem[b] \in Cells /\ h.mem[p] \in Cells
      /\ h.mem \in [Addresses -> Cells]
  <2>1. Len(w) \in Nat /\ j \in 1..Len(w) /\ j - 1 \in 1..Len(w)
    BY ChainAddresses
  <2> QED BY <2>1, ChainAddresses, CellType DEF Off
<1>2. a # b
  <2>1. j # j - 1
    BY <1>1
  <2> QED BY <1>1, <2>1 DEF Chain
<1>3. h.mem[a].time_out \in Int /\ p \in Int /\ a \in Int /\ b \in Int /\ h.head \in Int /\ h.tail \in Int
  BY <1>1, CellType
<1>4. c \in Cells /\ e \in Cells /\ f \in Cells
  <2>0. h.mem[a].time_out - d \in Int
    BY <1>3
  <2>1. [h.mem[a] EXCEPT !.time_out = h.mem[a].time_out - d] \in Cells
    BY <1>1, <2>0, CellWrite
  <2>2. [h.mem[p] EXCEPT !.time_out = d] \in Cells
    BY <1>1, CellWrite
  <2>3. [h.mem[p] EXCEPT !.time_out = d, !.next = a] \in Cells
    BY <1>3, <2>2, CellWrite
  <2>4. f \in Cells
    BY <1>1, <1>3, CellWrite
  <2> QED BY <1>3, <2>1, <2>3, <2>4, CellWrite
<1>5. /\ c.id = h.mem[a].id /\ c.time_out = h.mem[a].time_out - d
      /\ c.prev = p /\ c.next = h.mem[a].next
      /\ e.id = h.mem[p].id /\ e.time_out = d /\ e.prev = b /\ e.next = a
      /\ f.id = h.mem[b].id /\ f.time_out = h.mem[b].time_out
      /\ f.prev = h.mem[b].prev /\ f.next = p
  BY <1>1 DEF Cells
<1>6. g.head = h.head /\ g.tail = h.tail
  BY DEF AddBefore
<1>7. g.mem = [h.mem EXCEPT ![a] = c, ![p] = e, ![b] = f]
  BY <1>1, <1>2 DEF AddBefore
<1> HIDE DEF c, e, f
<1>8. /\ g.mem \in [Addresses -> Cells] /\ g.mem[a] = c /\ g.mem[p] = e /\ g.mem[b] = f
      /\ \A x \in Addresses : x # a /\ x # p /\ x # b => g.mem[x] = h.mem[x]
  BY <1>1, <1>2, <1>4, <1>7
<1>9. g \in Heaps
  <2>1. g = [mem |-> g.mem, head |-> h.head, tail |-> h.tail]
    BY DEF AddBefore
  <2> HIDE DEF g
  <2> QED BY <1>3, <1>8, <2>1, HeapOf
<1>10. At(w, j - 1) = b /\ At(w, j) = a /\ j # 1 /\ j # Len(w) + 1
  BY <1>1 DEF At
<1>11. \A i \in 1..Len(w) : i # j /\ i # j - 1 =>
         w[i] \in Addresses /\ w[i] # a /\ w[i] # b /\ w[i] # p
  BY <1>1, ChainAddresses DEF Chain, Off
<1> HIDE DEF g
<1>12. \A i \in 1..Len(w) : i # j /\ i # j - 1 => g.mem[w[i]] = h.mem[w[i]]
  BY <1>8, <1>11
<1> DEFINE Good(i) ==
             /\ g.mem[w[i]].id = h.mem[w[i]].id
             /\ g.mem[w[i]].time_out = h.mem[w[i]].time_out - (IF i = j THEN d ELSE 0)
             /\ g.mem[w[i]].prev = IF i = j THEN p ELSE h.mem[w[i]].prev
             /\ g.mem[w[i]].next = IF i = j - 1 THEN p ELSE h.mem[w[i]].next
<1>13. ASSUME NEW i \in 1..Len(w) PROVE Good(i)
  <2>0. h.mem[w[i]].time_out \in Int /\ j # j - 1
    BY <1>1, ChainAddresses, CellType
  <2>1. CASE i = j
    BY <2>0, <2>1, <1>5, <1>8
  <2>2. CASE i = j - 1
    BY <2>0, <2>2, <1>5, <1>8
  <2>3. CASE i # j /\ i # j - 1
    BY <2>0, <2>3, <1>12
  <2> QED BY <2>1, <2>2, <2>3
<1>14. \A x \in Addresses : x # p /\ Off(w, x) => g.mem[x] = h.mem[x]
  BY <1>1, <1>8 DEF Off
<1>15. g.mem[p].id = h.mem[p].id /\ g.mem[p].time_out = d
       /\ g.mem[p].prev = At(w, j - 1) /\ g.mem[p].next = At(w, j)
  BY <1>5, <1>8, <1>10
<1>16. /\ g.head = IF j = 1 THEN p ELSE h.head
       /\ g.tail = IF j = Len(w) + 1 THEN p ELSE h.tail
  BY <1>6, <1>10
<1>17. Spliced(h, g, w, j, p, d)
  BY <1>9, <1>13, <1>14, <1>15, <1>16 DEF Spliced
<1> QED BY <1>17 DEF g

LEMMA TailSplice ==
  ASSUME NEW h \in Heaps, NEW w, NEW l, Chain(h, w, l), Len(w) # 0,
         NEW p \in Addresses, Off(w, p), NEW d \in Int
  PROVE  Spliced(h, AddAtTail(h, p, d), w, Len(w) + 1, p, d)
<1> DEFINE j == Len(w) + 1  b == w[Len(w)]  g == AddAtTail(h, p, d)
           e == [h.mem[p] EXCEPT !.time_out = d, !.prev = b, !.next = Null]
           f == [h.mem[b] EXCEPT !.next = p]
<1>1. /\ Len(w) \in Nat /\ Len(w) \in 1..Len(w)
      /\ b \in Addresses /\ b # p
      /\ h.mem[b] \in Cells /\ h.mem[p] \in Cells
      /\ h.mem \in [Addresses -> Cells]
  <2>1. Len(w) \in Nat /\ Len(w) \in 1..Len(w)
    BY ChainAddresses
  <2> QED BY <2>1, ChainAddresses, CellType DEF Off
<1>2. h.tail = b
  BY <1>1 DEF Chain, At
<1>3. p \in Int /\ b \in Int /\ h.head \in Int /\ Null \in Int
  BY <1>1, CellType, AddressesAre
<1>4. e \in Cells /\ f \in Cells
  <2>1. [h.mem[p] EXCEPT !.time_out = d] \in Cells
    BY <1>1, CellWrite
  <2>2. [h.mem[p] EXCEPT !.time_out = d, !.prev = b] \in Cells
    BY <1>3, <2>1, CellWrite
  <2>3. f \in Cells
    BY <1>1, <1>3, CellWrite
  <2> QED BY <1>3, <2>2, <2>3, CellWrite
<1>5. /\ e.id = h.mem[p].id /\ e.time_out = d /\ e.prev = b /\ e.next = Null
      /\ f.id = h.mem[b].id /\ f.time_out = h.mem[b].time_out
      /\ f.prev = h.mem[b].prev /\ f.next = p
  BY <1>1 DEF Cells
<1>6. g.head = h.head /\ g.tail = p
  BY DEF AddAtTail
<1>7. g.mem = [h.mem EXCEPT ![b] = f, ![p] = e]
  BY <1>1, <1>2 DEF AddAtTail
<1> HIDE DEF e, f
<1>8. /\ g.mem \in [Addresses -> Cells] /\ g.mem[p] = e /\ g.mem[b] = f
      /\ \A x \in Addresses : x # p /\ x # b => g.mem[x] = h.mem[x]
  BY <1>1, <1>4, <1>7
<1>9. g \in Heaps
  <2>1. g = [mem |-> g.mem, head |-> h.head, tail |-> p]
    BY DEF AddAtTail
  <2> HIDE DEF g
  <2> QED BY <1>3, <1>8, <2>1, HeapOf
<1>10. At(w, j - 1) = b /\ At(w, j) = Null /\ j # 1 /\ j - 1 = Len(w)
  BY <1>1 DEF At
<1>11. \A i \in 1..Len(w) : i # Len(w) => w[i] \in Addresses /\ w[i] # b /\ w[i] # p
  BY <1>1, ChainAddresses DEF Chain, Off
<1> HIDE DEF g
<1>12. \A i \in 1..Len(w) : i # Len(w) => g.mem[w[i]] = h.mem[w[i]]
  BY <1>8, <1>11
<1> DEFINE Good(i) ==
             /\ g.mem[w[i]].id = h.mem[w[i]].id
             /\ g.mem[w[i]].time_out = h.mem[w[i]].time_out - (IF i = j THEN d ELSE 0)
             /\ g.mem[w[i]].prev = IF i = j THEN p ELSE h.mem[w[i]].prev
             /\ g.mem[w[i]].next = IF i = j - 1 THEN p ELSE h.mem[w[i]].next
<1>13. ASSUME NEW i \in 1..Len(w) PROVE Good(i)
  <2>0. h.mem[w[i]].time_out \in Int /\ i # j
    BY <1>1, ChainAddresses, CellType
  <2>1. CASE i = Len(w)
    BY <2>0, <2>1, <1>5, <1>8, <1>10
  <2>2. CASE i # Len(w)
    <3>1. g.mem[w[i]] = h.mem[w[i]] /\ i # j - 1
      BY <2>2, <1>10, <1>12
    <3> HIDE DEF j
    <3> QED BY <2>0, <3>1
  <2> QED BY <2>1, <2>2
<1>14. \A x \in Addresses : x # p /\ Off(w, x) => g.mem[x] = h.mem[x]
  BY <1>1, <1>8 DEF Off
<1>15. g.mem[p].id = h.mem[p].id /\ g.mem[p].time_out = d
       /\ g.mem[p].prev = At(w, j - 1) /\ g.mem[p].next = At(w, j)
  BY <1>5, <1>8, <1>10
<1>16. /\ g.head = IF j = 1 THEN p ELSE h.head
       /\ g.tail = IF j = Len(w) + 1 THEN p ELSE h.tail
  BY <1>6, <1>10
<1>17. Spliced(h, g, w, j, p, d)
  <2> HIDE DEF j
  <2> QED BY <1>9, <1>13, <1>14, <1>15, <1>16 DEF Spliced
<1> QED BY <1>17 DEF g

(* The chain with a node more. *)
LEMMA SpliceChain ==
  ASSUME NEW h \in Heaps, NEW w, NEW l \in Seq(Nodes), Chain(h, w, l),
         NEW j \in 1..(Len(w) + 1), NEW p \in Addresses, Off(w, p), NEW d \in Int,
         NEW g, Spliced(h, g, w, j, p, d),
         NEW m \in Seq(Nodes), Inserted(l, m, j), m[j].id = h.mem[p].id, m[j].time_out = d
  PROVE  Chain(g, InsertAt(w, j, p), m)
<1> DEFINE v == InsertAt(w, j, p)
<1>1. /\ Len(w) \in Nat /\ w \in Seq(Addresses) /\ Len(l) = Len(w) /\ Len(m) = Len(w) + 1
      /\ \A i, k \in 1..Len(w) : w[i] = w[k] => i = k
      /\ \A i \in 1..Len(w) : w[i] # p
  BY ChainAddresses DEF Chain, Inserted, Off
<1>2. /\ v \in Seq(Addresses) /\ Len(v) = Len(w) + 1
      /\ \A i \in 1..(Len(w) + 1) : v[i] = IF i < j THEN w[i] ELSE IF i = j THEN p ELSE w[i - 1]
  <2> DEFINE T == Addresses
  <2>1. w \in Seq(T) /\ j \in 1..(Len(w) + 1) /\ p \in T
    BY <1>1
  <2> HIDE DEF T
  <2>2. v \in Seq(T) /\ Len(v) = Len(w) + 1
    BY <2>1, InsertAtIs
  <2>3. \A i \in 1..(Len(w) + 1) : v[i] = IF i < j THEN w[i] ELSE IF i = j THEN p ELSE w[i - 1]
    BY <2>1, InsertAtIs
  <2> QED BY <2>2, <2>3 DEF T
<1> HIDE DEF v
<1>3. ASSUME NEW k \in Int
      PROVE  At(v, k) = IF k < j THEN At(w, k) ELSE IF k = j THEN p ELSE At(w, k - 1)
  <2>1. CASE k < j
    <3>1. k \in 1..Len(v) <=> k \in 1..Len(w)
      BY <1>1, <1>2, <2>1
    <3> QED BY <1>2, <2>1, <3>1 DEF At
  <2>2. CASE k = j
    BY <1>1, <1>2, <2>2 DEF At
  <2>3. CASE k > j
    <3>1. k \in 1..Len(v) <=> k - 1 \in 1..Len(w)
      BY <1>1, <1>2, <2>3
    <3>2. ~(k < j) /\ k # j
      BY <2>3
    <3> QED BY <1>1, <1>2, <3>1, <3>2 DEF At
  <2> QED BY <2>1, <2>2, <2>3
<1>4. \A i, k \in 1..Len(v) : v[i] = v[k] => i = k
  <2> SUFFICES ASSUME NEW i \in 1..Len(v), NEW k \in 1..Len(v), i < k PROVE v[i] # v[k]
    BY <1>1, <1>2
  <2>1. CASE k < j
    BY <1>1, <1>2, <2>1
  <2>2. CASE k = j
    BY <1>1, <1>2, <2>2
  <2>3. CASE k > j /\ i = j
    BY <1>1, <1>2, <2>3
  <2>4. CASE k > j /\ i < j
    <3>1. i \in 1..Len(w) /\ k - 1 \in 1..Len(w) /\ i # k - 1
      BY <1>1, <1>2, <2>4
    <3>2. v[i] = w[i] /\ v[k] = w[k - 1]
      BY <1>2, <2>4
    <3> QED BY <1>1, <3>1, <3>2
  <2>5. CASE k > j /\ i > j
    <3>1. i - 1 \in 1..Len(w) /\ k - 1 \in 1..Len(w) /\ i - 1 # k - 1
      BY <1>1, <1>2, <2>5
    <3>2. v[i] = w[i - 1] /\ v[k] = w[k - 1]
      BY <1>1, <1>2, <2>5
    <3> QED BY <1>1, <3>1, <3>2
  <2> QED BY <1>1, <1>2, <2>1, <2>2, <2>3, <2>4, <2>5
<1>5. g.head = At(v, 1) /\ g.tail = At(v, Len(v))
  <2>1. h.head = At(w, 1) /\ h.tail = At(w, Len(w))
    BY DEF Chain
  <2>2. g.head = At(v, 1)
    BY <1>1, <1>3, <2>1 DEF Spliced
  <2>3. At(v, Len(v)) = IF j = Len(w) + 1 THEN p ELSE At(w, Len(w))
    <3>1. Len(v) \in Int /\ Len(v) - 1 = Len(w) /\ (Len(v) = j <=> j = Len(w) + 1) /\ ~(Len(v) < j)
      BY <1>1, <1>2
    <3> QED BY <1>3, <3>1
  <2> QED BY <2>1, <2>2, <2>3 DEF Spliced
<1>6. /\ \A i \in 1..(j - 1) : m[i] = l[i]
      /\ \A i \in j..Len(w) : /\ m[i + 1].id = l[i].id
                              /\ m[i + 1].time_out = l[i].time_out - (IF i = j THEN d ELSE 0)
      /\ \A i \in 1..Len(w) : l[i].time_out \in Int
  BY <1>1, NodesIn DEF Inserted
<1>7. \A i \in 1..Len(w) : /\ h.mem[w[i]].id = l[i].id /\ h.mem[w[i]].time_out = l[i].time_out
                           /\ h.mem[w[i]].prev = At(w, i - 1) /\ h.mem[w[i]].next = At(w, i + 1)
  BY DEF Chain
<1>8. \A i \in 1..Len(w) :
        /\ g.mem[w[i]].id = l[i].id
        /\ g.mem[w[i]].time_out = l[i].time_out - (IF i = j THEN d ELSE 0)
        /\ g.mem[w[i]].prev = IF i = j THEN p ELSE At(w, i - 1)
        /\ g.mem[w[i]].next = IF i = j - 1 THEN p ELSE At(w, i + 1)
  BY <1>7 DEF Spliced
<1> DEFINE Good(i) == /\ g.mem[v[i]].id = m[i].id /\ g.mem[v[i]].time_out = m[i].time_out
                      /\ g.mem[v[i]].prev = At(v, i - 1) /\ g.mem[v[i]].next = At(v, i + 1)
<1>9. ASSUME NEW i \in 1..Len(v) PROVE Good(i)
  <2>1. CASE i < j
    <3>1. i \in 1..Len(w) /\ i \in 1..(j - 1) /\ v[i] = w[i] /\ m[i] = l[i] /\ i # j
      BY <1>1, <1>2, <1>6, <2>1
    <3>2. At(v, i - 1) = At(w, i - 1)
      BY <1>3, <2>1
    <3>3. At(v, i + 1) = IF i = j - 1 THEN p ELSE At(w, i + 1)
      BY <1>3, <2>1
    <3>4. l[i].time_out - 0 = l[i].time_out
      BY <1>6, <3>1
    <3> QED BY <1>8, <3>1, <3>2, <3>3, <3>4
  <2>2. CASE i = j
    <3>1. v[i] = p
      BY <1>1, <1>2, <2>2
    <3>2. At(v, i - 1) = At(w, j - 1) /\ At(v, i + 1) = At(w, j)
      BY <1>3, <2>2
    <3> QED BY <2>2, <3>1, <3>2 DEF Spliced
  <2>3. CASE i > j
    <3>1. PICK k \in 1..Len(w) : k = i - 1 /\ i = k + 1
      BY <1>1, <1>2, <2>3
    <3>2. v[i] = w[k] /\ k \in j..Len(w) /\ k # j - 1
      BY <1>1, <1>2, <2>3, <3>1
    <3>3. At(v, i - 1) = IF k = j THEN p ELSE At(w, k - 1)
      BY <1>3, <2>3, <3>1
    <3>4. At(v, i + 1) = At(w, k + 1)
      BY <1>3, <2>3, <3>1
    <3>5. m[i].id = l[k].id /\ m[i].time_out = l[k].time_out - (IF k = j THEN d ELSE 0)
      BY <1>6, <3>1, <3>2
    <3> QED BY <1>8, <3>2, <3>3, <3>4, <3>5
  <2> QED BY <1>1, <1>2, <2>1, <2>2, <2>3
<1>10. Chain(g, v, m)
  BY <1>1, <1>2, <1>4, <1>5, <1>9 DEF Chain
<1> QED BY <1>10 DEF v

-------------------------------------------------------------------------------
(* delPeerFromList: each way of taking a node out unlinks it from the      *)
(* chain, and frees it unless it was the only one.                         *)

(* What taking out the node at position j does; c is the delay the node    *)
(* behind it inherits.                                                     *)
Unlinked(h, g, w, j, c) ==
  /\ g \in Heaps
  /\ g.head = IF j = 1 THEN At(w, 2) ELSE h.head
  /\ g.tail = IF j = Len(w) THEN At(w, j - 1) ELSE h.tail
  /\ Len(w) # 1 => g.mem[w[j]] = FreeNode
  /\ Len(w) = 1 => g.mem[w[j]] = h.mem[w[j]]
  /\ \A i \in 1..Len(w) : i # j =>
       /\ g.mem[w[i]].id = h.mem[w[i]].id
       /\ g.mem[w[i]].time_out = h.mem[w[i]].time_out + (IF i = j + 1 THEN c ELSE 0)
       /\ g.mem[w[i]].prev = IF i = j + 1 THEN At(w, j - 1) ELSE h.mem[w[i]].prev
       /\ g.mem[w[i]].next = IF i = j - 1 THEN At(w, j + 1) ELSE h.mem[w[i]].next
  /\ \A a \in Addresses : Off(w, a) => g.mem[a] = h.mem[a]

(* m is the list l without the node at j, the next node's delay c longer.  *)
Without(l, m, j, c) ==
  /\ Len(m) = Len(l) - 1
  /\ \A i \in 1..(j - 1) : m[i].id = l[i].id /\ m[i].time_out = l[i].time_out
  /\ \A i \in j..Len(m) : /\ m[i].id = l[i + 1].id
                          /\ m[i].time_out = l[i + 1].time_out + (IF i = j THEN c ELSE 0)

(* The chain with a node less. *)
LEMMA UnlinkChain ==
  ASSUME NEW h \in Heaps, NEW w, NEW l \in Seq(Nodes), Chain(h, w, l),
         NEW j \in 1..Len(w), NEW c \in Int, NEW g, Unlinked(h, g, w, j, c),
         NEW m \in Seq(Nodes), Without(l, m, j, c)
  PROVE  Chain(g, RemoveAt(w, j), m)
<1> DEFINE v == RemoveAt(w, j)
<1>1. /\ Len(w) \in Nat /\ w \in Seq(Addresses) /\ Len(l) = Len(w) /\ Len(m) = Len(w) - 1
      /\ \A i, k \in 1..Len(w) : w[i] = w[k] => i = k
      /\ \A i \in 1..Len(w) : l[i].time_out \in Int
  BY ChainAddresses, NodesIn DEF Chain, Without
<1>2. /\ v \in Seq(Addresses) /\ Len(v) = Len(w) - 1
      /\ \A i \in 1..(Len(w) - 1) : v[i] = IF i < j THEN w[i] ELSE w[i + 1]
  <2> DEFINE T == Addresses
  <2>1. w \in Seq(T) /\ j \in 1..Len(w)
    BY <1>1
  <2> HIDE DEF T
  <2>2. v \in Seq(T) /\ Len(v) = Len(w) - 1
    BY <2>1, RemoveAtIs
  <2>3. \A i \in 1..(Len(w) - 1) : v[i] = IF i < j THEN w[i] ELSE w[i + 1]
    BY <2>1, RemoveAtIs
  <2> QED BY <2>2, <2>3 DEF T
<1> HIDE DEF v
<1>3. ASSUME NEW k \in Int
      PROVE  At(v, k) = IF k < j THEN At(w, k) ELSE At(w, k + 1)
  <2>1. CASE k < j
    <3>1. k \in 1..Len(v) <=> k \in 1..Len(w)
      BY <1>1, <1>2, <2>1
    <3> QED BY <1>2, <2>1, <3>1 DEF At
  <2>2. CASE k >= j
    <3>1. k \in 1..Len(v) <=> k + 1 \in 1..Len(w)
      BY <1>1, <1>2, <2>2
    <3>2. ~(k < j)
      BY <2>2
    <3> QED BY <1>2, <3>1, <3>2 DEF At
  <2> QED BY <2>1, <2>2
<1>4. \A i, k \in 1..Len(v) : v[i] = v[k] => i = k
  <2> SUFFICES ASSUME NEW i \in 1..Len(v), NEW k \in 1..Len(v), i < k PROVE v[i] # v[k]
    BY <1>1, <1>2
  <2>1. CASE k < j
    <3>1. i \in 1..Len(w) /\ k \in 1..Len(w) /\ i # k
      BY <1>1, <1>2, <2>1
    <3>2. v[i] = w[i] /\ v[k] = w[k]
      BY <1>2, <2>1
    <3> QED BY <1>1, <3>1, <3>2
  <2>2. CASE k >= j /\ i < j
    <3>1. i \in 1..Len(w) /\ k + 1 \in 1..Len(w) /\ i # k + 1
      BY <1>1, <1>2, <2>2
    <3>2. v[i] = w[i] /\ v[k] = w[k + 1]
      BY <1>2, <2>2
    <3> QED BY <1>1, <3>1, <3>2
  <2>3. CASE k >= j /\ i >= j
    <3>1. i + 1 \in 1..Len(w) /\ k + 1 \in 1..Len(w) /\ i + 1 # k + 1
      BY <1>1, <1>2, <2>3
    <3>2. v[i] = w[i + 1] /\ v[k] = w[k + 1]
      BY <1>2, <2>3
    <3> QED BY <1>1, <3>1, <3>2
  <2> QED BY <1>1, <1>2, <2>1, <2>2, <2>3
<1>5. g.head = At(v, 1) /\ g.tail = At(v, Len(v))
  <2>1. h.head = At(w, 1) /\ h.tail = At(w, Len(w))
    BY DEF Chain
  <2>2. At(v, 1) = IF j = 1 THEN At(w, 2) ELSE At(w, 1)
    <3>1. 1 \in Int /\ 1 + 1 = 2 /\ (1 < j <=> j # 1)
      BY <1>1
    <3> QED BY <1>3, <3>1
  <2>3. At(v, Len(v)) = IF j = Len(w) THEN At(w, j - 1) ELSE At(w, Len(w))
    <3>1. Len(v) \in Int /\ Len(v) + 1 = Len(w) /\ (Len(v) < j <=> j = Len(w))
      BY <1>1, <1>2
    <3>2. j = Len(w) => Len(v) = j - 1
      BY <1>1, <1>2
    <3> QED BY <1>3, <3>1, <3>2
  <2> QED BY <2>1, <2>2, <2>3 DEF Unlinked
<1>6. /\ \A i \in 1..(j - 1) : m[i].id = l[i].id /\ m[i].time_out = l[i].time_out
      /\ \A i \in j..(Len(w) - 1) :
           /\ m[i].id = l[i + 1].id
           /\ m[i].time_out = l[i + 1].time_out + (IF i = j THEN c ELSE 0)
  BY <1>1 DEF Without
<1>7. \A i \in 1..Len(w) : /\ h.mem[w[i]].id = l[i].id /\ h.mem[w[i]].time_out = l[i].time_out
                           /\ h.mem[w[i]].prev = At(w, i - 1) /\ h.mem[w[i]].next = At(w, i + 1)
  BY DEF Chain
<1>8. \A i \in 1..Len(w) : i # j =>
        /\ g.mem[w[i]].id = l[i].id
        /\ g.mem[w[i]].time_out = l[i].time_out + (IF i = j + 1 THEN c ELSE 0)
        /\ g.mem[w[i]].prev = IF i = j + 1 THEN At(w, j - 1) ELSE At(w, i - 1)
        /\ g.mem[w[i]].next = IF i = j - 1 THEN At(w, j + 1) ELSE At(w, i + 1)
  BY <1>7 DEF Unlinked
<1> DEFINE Good(i) == /\ g.mem[v[i]].id = m[i].id /\ g.mem[v[i]].time_out = m[i].time_out
                      /\ g.mem[v[i]].prev = At(v, i - 1) /\ g.mem[v[i]].next = At(v, i + 1)
<1>9. ASSUME NEW i \in 1..Len(v) PROVE Good(i)
  <2>1. CASE i < j
    <3>1. i \in 1..Len(w) /\ i \in 1..(j - 1) /\ v[i] = w[i] /\ i # j /\ i # j + 1
      BY <1>1, <1>2, <2>1
    <3>2. At(v, i - 1) = At(w, i - 1)
      BY <1>3, <2>1
    <3>3. At(v, i + 1) = IF i = j - 1 THEN At(w, j + 1) ELSE At(w, i + 1)
      <4>1. i + 1 \in Int /\ (i + 1 < j <=> i # j - 1)
        BY <2>1
      <4>2. i = j - 1 => (i + 1) + 1 = j + 1
        BY <2>1
      <4> QED BY <1>3, <4>1, <4>2
    <3>4. l[i].time_out + 0 = l[i].time_out
      BY <1>1, <3>1
    <3> QED BY <1>6, <1>8, <3>1, <3>2, <3>3, <3>4
  <2>2. CASE i >= j
    <3>1. PICK k \in 1..Len(w) : k = i + 1 /\ i = k - 1
      BY <1>1, <1>2, <2>2
    <3>2. v[i] = w[k] /\ i \in j..(Len(w) - 1) /\ k # j /\ k # j - 1 /\ (k = j + 1 <=> i = j)
      BY <1>1, <1>2, <2>2, <3>1
    <3>3. At(v, i - 1) = IF k = j + 1 THEN At(w, j - 1) ELSE At(w, k - 1)
      <4>1. i - 1 \in Int /\ (i - 1 < j <=> k = j + 1) /\ (i - 1) + 1 = k - 1
        BY <2>2, <3>1
      <4>2. k = j + 1 => i - 1 = j - 1
        BY <3>1
      <4> QED BY <1>3, <4>1, <4>2
    <3>4. At(v, i + 1) = At(w, k + 1)
      BY <1>3, <2>2, <3>1
    <3>5. m[i].id = l[k].id /\ m[i].time_out = l[k].time_out + (IF k = j + 1 THEN c ELSE 0)
      BY <1>6, <3>1, <3>2
    <3> QED BY <1>8, <3>2, <3>3, <3>4, <3>5
  <2> QED BY <1>1, <1>2, <2>1, <2>2
<1>10. Chain(g, v, m)
  BY <1>1, <1>2, <1>4, <1>5, <1>9 DEF Chain
<1> QED BY <1>10 DEF v

LEMMA FreeCell == FreeNode \in Cells
BY AddressesAre DEF FreeNode, Cells

(* A node is freed last. *)
LEMMA Freed ==
  ASSUME NEW m \in [Addresses -> Cells], NEW x \in Int, NEW y \in Int, NEW a \in Addresses
  PROVE  LET g == DelPeerAt([mem |-> m, head |-> x, tail |-> y], a)
         IN  /\ g \in Heaps /\ g.head = x /\ g.tail = y
             /\ g.mem[a] = FreeNode
             /\ \A b \in Addresses : b # a => g.mem[b] = m[b]
<1> DEFINE n == [m EXCEPT ![a] = FreeNode]  g == DelPeerAt([mem |-> m, head |-> x, tail |-> y], a)
<1>1. n \in [Addresses -> Cells] /\ n[a] = FreeNode /\ \A b \in Addresses : b # a => n[b] = m[b]
  BY FreeCell
<1>2. g = [mem |-> n, head |-> x, tail |-> y]
  BY DEF DelPeerAt
<1> HIDE DEF n
<1>3. g.mem = n /\ g.head = x /\ g.tail = y
  BY <1>2
<1>4. g \in Heaps
  BY <1>1, <1>2, HeapOf
<1> QED BY <1>1, <1>3, <1>4

LEMMA OnlyUnlinked ==
  ASSUME NEW h \in Heaps, NEW w, NEW l, Chain(h, w, l), Len(w) = 1, NEW c
  PROVE  Unlinked(h, DelOnly(h), w, 1, c)
<1> DEFINE g == DelOnly(h)
<1>1. g.mem = h.mem /\ g.head = Null /\ g.tail = Null
  BY DEF DelOnly
<1>2. g \in Heaps
  <2>1. h.mem \in [Addresses -> Cells] /\ Null \in Int
    BY AddressesAre DEF Heaps
  <2> QED BY <2>1, HeapOf DEF DelOnly
<1>3. At(w, 2) = Null /\ At(w, 1 - 1) = Null
  BY DEF At
<1> HIDE DEF g
<1>4. Unlinked(h, g, w, 1, c)
  BY <1>1, <1>2, <1>3 DEF Unlinked
<1> QED BY <1>4 DEF g

LEMMA HeadUnlinked ==
  ASSUME NEW h \in Heaps, NEW w, NEW l, Chain(h, w, l), Len(w) # 0, Len(w) # 1,
         NEW carry \in BOOLEAN
  PROVE  Unlinked(h, DelHead(h, w[1], carry), w, 1, Carried(h, w[1], carry))
<1> DEFINE a == w[1]  b == w[2]  c == Carried(h, a, carry)  g == DelHead(h, a, carry)
           f == [h.mem[b] EXCEPT !.time_out = h.mem[b].time_out + c, !.prev = Null]
           m == [h.mem EXCEPT ![b] = f]
<1>1. /\ Len(w) \in Nat /\ 1 \in 1..Len(w) /\ 2 \in 1..Len(w)
      /\ a \in Addresses /\ b \in Addresses
      /\ h.mem[a] \in Cells /\ h.mem[b] \in Cells /\ h.mem \in [Addresses -> Cells]
  <2>1. Len(w) \in Nat /\ 1 \in 1..Len(w) /\ 2 \in 1..Len(w)
    BY ChainAddresses
  <2> QED BY <2>1, ChainAddresses, CellType
<1>2. a # b
  BY <1>1 DEF Chain
<1>3. /\ h.mem[a].time_out \in Int /\ h.mem[b].time_out \in Int
      /\ a \in Int /\ b \in Int /\ h.head \in Int /\ h.tail \in Int /\ Null \in Int
  BY <1>1, CellType, AddressesAre
<1>4. c \in Int
  BY <1>3 DEF Carried
<1>5. h.head = a /\ h.mem[a].next = b
  BY <1>1 DEF Chain, At
<1> HIDE DEF c
<1>6. f \in Cells
  <2>1. h.mem[b].time_out + c \in Int
    BY <1>3, <1>4
  <2>2. [h.mem[b] EXCEPT !.time_out = h.mem[b].time_out + c] \in Cells
    BY <1>1, <2>1, CellWrite
  <2> QED BY <1>3, <2>2, CellWrite
<1>7. /\ f.id = h.mem[b].id /\ f.time_out = h.mem[b].time_out + c
      /\ f.prev = Null /\ f.next = h.mem[b].next
  BY <1>1 DEF Cells
<1>8. m = [h.mem EXCEPT ![b].time_out = @ + c, ![b].prev = Null]
  BY <1>1
<1>9. g = DelPeerAt([mem |-> m, head |-> b, tail |-> h.tail], a)
  BY <1>5, <1>8 DEF DelHead, c
<1> HIDE DEF f, g
<1>10. m \in [Addresses -> Cells] /\ m[b] = f /\ \A x \in Addresses : x # b => m[x] = h.mem[x]
  BY <1>1, <1>6
<1> HIDE DEF m
<1>11. /\ g \in Heaps /\ g.head = b /\ g.tail = h.tail
       /\ g.mem[a] = FreeNode
       /\ \A x \in Addresses : x # a => g.mem[x] = m[x]
  BY <1>1, <1>3, <1>9, <1>10, Freed
<1>12. At(w, 2) = b /\ At(w, 1 - 1) = Null /\ 1 + 1 = 2
  BY <1>1 DEF At
<1>13. \A i \in 1..Len(w) : i # 1 /\ i # 2 => w[i] \in Addresses /\ w[i] # a /\ w[i] # b
  BY <1>1, ChainAddresses DEF Chain
<1>14. ASSUME NEW i \in 1..Len(w), i # 1
       PROVE  /\ g.mem[w[i]].id = h.mem[w[i]].id
              /\ g.mem[w[i]].time_out = h.mem[w[i]].time_out + (IF i = 1 + 1 THEN c ELSE 0)
              /\ g.mem[w[i]].prev = IF i = 1 + 1 THEN At(w, 1 - 1) ELSE h.mem[w[i]].prev
              /\ g.mem[w[i]].next = IF i = 1 - 1 THEN At(w, 1 + 1) ELSE h.mem[w[i]].next
  <2>1. CASE i = 2
    <3>1. g.mem[w[i]] = f
      BY <1>1, <1>2, <1>10, <1>11, <2>1
    <3> QED BY <2>1, <3>1, <1>7, <1>12
  <2>2. CASE i # 2
    <3>1. g.mem[w[i]] = h.mem[w[i]] /\ h.mem[w[i]].time_out \in Int
      BY <1>10, <1>11, <1>13, <1>14, <2>2, CellType
    <3>2. i # 1 + 1 /\ i # 1 - 1
      BY <2>2
    <3> QED BY <3>1, <3>2
  <2> QED BY <2>1, <2>2
<1>15. \A x \in Addresses : Off(w, x) => g.mem[x] = h.mem[x]
  BY <1>1, <1>10, <1>11 DEF Off
<1>16. /\ g.head = IF 1 = 1 THEN At(w, 2) ELSE h.head
       /\ g.tail = IF 1 = Len(w) THEN At(w, 1 - 1) ELSE h.tail
       /\ Len(w) # 1 => g.mem[w[1]] = FreeNode
       /\ Len(w) = 1 => g.mem[w[1]] = h.mem[w[1]]
  BY <1>11, <1>12
<1>17. Unlinked(h, g, w, 1, c)
  <2> HIDE DEF a, b
  <2> QED BY <1>11, <1>14, <1>15, <1>16 DEF Unlinked
<1> QED BY <1>17 DEF g, c

LEMMA TailUnlinked ==
  ASSUME NEW h \in Heaps, NEW w, NEW l, Chain(h, w, l), Len(w) # 0, Len(w) # 1, NEW c
  PROVE  Unlinked(h, DelTail(h, w[Len(w)], w[Len(w) - 1]), w, Len(w), c)
<1> DEFINE n == Len(w)  a == w[n]  b == w[n - 1]  g == DelTail(h, a, b)
           f == [h.mem[b] EXCEPT !.next = Null]
           m == [h.mem EXCEPT ![b] = f]
<1>1. /\ n \in Nat /\ n \in 1..n /\ n - 1 \in 1..n
      /\ a \in Addresses /\ b \in Addresses
      /\ h.mem[a] \in Cells /\ h.mem[b] \in Cells /\ h.mem \in [Addresses -> Cells]
  <2>0. n \in Nat /\ n # 0 /\ n # 1
    BY ChainAddresses
  <2>1. n \in Nat /\ n \in 1..n /\ n - 1 \in 1..n
    <3> HIDE DEF n
    <3> QED BY <2>0
  <2> QED BY <2>1, ChainAddresses, CellType
<1>2. a # b
  <2>1. n # n - 1
    BY <1>1
  <2> QED BY <1>1, <2>1 DEF Chain
<1>3. b \in Int /\ h.head \in Int /\ h.tail \in Int /\ Null \in Int
  BY <1>1, CellType, AddressesAre
<1>6. f \in Cells
  BY <1>1, <1>3, CellWrite
<1>7. /\ f.id = h.mem[b].id /\ f.time_out = h.mem[b].time_out
      /\ f.prev = h.mem[b].prev /\ f.next = Null
  BY <1>1 DEF Cells
<1>8. m = [h.mem EXCEPT ![b].next = Null]
  BY <1>1
<1>9. g = DelPeerAt([mem |-> m, head |-> h.head, tail |-> b], a)
  BY <1>8 DEF DelTail
<1> HIDE DEF f, g
<1>10. m \in [Addresses -> Cells] /\ m[b] = f /\ \A x \in Addresses : x # b => m[x] = h.mem[x]
  BY <1>1, <1>6
<1> HIDE DEF m
<1>11. /\ g \in Heaps /\ g.head = h.head /\ g.tail = b
       /\ g.mem[a] = FreeNode
       /\ \A x \in Addresses : x # a => g.mem[x] = m[x]
  BY <1>1, <1>3, <1>9, <1>10, Freed
<1>12. At(w, n - 1) = b /\ At(w, n + 1) = Null
  BY <1>1 DEF At
<1>13. \A i \in 1..n : i # n /\ i # n - 1 => w[i] \in Addresses /\ w[i] # a /\ w[i] # b
  BY <1>1, ChainAddresses DEF Chain
<1>14. ASSUME NEW i \in 1..n, i # n
       PROVE  /\ g.mem[w[i]].id = h.mem[w[i]].id
              /\ g.mem[w[i]].time_out = h.mem[w[i]].time_out + (IF i = n + 1 THEN c ELSE 0)
              /\ g.mem[w[i]].prev = IF i = n + 1 THEN At(w, n - 1) ELSE h.mem[w[i]].prev
              /\ g.mem[w[i]].next = IF i = n - 1 THEN At(w, n + 1) ELSE h.mem[w[i]].next
  <2>0. i # n + 1 /\ h.mem[w[i]].time_out \in Int
    BY <1>1, ChainAddresses, CellType
  <2>1. CASE i = n - 1
    <3>1. g.mem[w[i]] = f
      BY <1>1, <1>2, <1>10, <1>11, <2>1
    <3> QED BY <2>0, <2>1, <3>1, <1>7, <1>12
  <2>2. CASE i # n - 1
    <3>1. g.mem[w[i]] = h.mem[w[i]]
      BY <1>10, <1>11, <1>13, <1>14, <2>2
    <3> QED BY <2>0, <2>2, <3>1
  <2> QED BY <2>1, <2>2
<1>15. \A x \in Addresses : Off(w, x) => g.mem[x] = h.mem[x]
  BY <1>1, <1>10, <1>11 DEF Off
<1>16. /\ g.head = IF n = 1 THEN At(w, 2) ELSE h.head
       /\ g.tail = IF n = n THEN At(w, n - 1) ELSE h.tail
       /\ n # 1 => g.mem[w[n]] = FreeNode
       /\ n = 1 => g.mem[w[n]] = h.mem[w[n]]
  BY <1>11, <1>12
<1>17. Unlinked(h, g, w, n, c)
  <2> HIDE DEF a, b
  <2> QED BY <1>11, <1>14, <1>15, <1>16 DEF Unlinked
<1> QED BY <1>17 DEF g

LEMMA BetweenUnlinked ==
  ASSUME NEW h \in Heaps, NEW w, NEW l, Chain(h, w, l), NEW j \in 2..(Len(w) - 1),
         NEW carry \in BOOLEAN
  PROVE  Unlinked(h, DelBetween(h, w[j], w[j - 1], carry), w, j, Carried(h, w[j], carry))
<1> DEFINE a == w[j]  b == w[j - 1]  e == w[j + 1]
           c == Carried(h, a, carry)  g == DelBetween(h, a, b, carry)
           f == [h.mem[e] EXCEPT !.time_out = h.mem[e].time_out + c, !.prev = b]
           k == [h.mem[b] EXCEPT !.next = e]
           m == [h.mem EXCEPT ![e] = f, ![b] = k]
<1>1. /\ Len(w) \in Nat /\ j \in 1..Len(w) /\ j - 1 \in 1..Len(w) /\ j + 1 \in 1..Len(w)
      /\ a \in Addresses /\ b \in Addresses /\ e \in Addresses
      /\ h.mem[a] \in Cells /\ h.mem[b] \in Cells /\ h.mem[e] \in Cells
      /\ h.mem \in [Addresses -> Cells]
  <2>0. Len(w) \in Nat
    BY ChainAddresses
  <2>1. Len(w) \in Nat /\ j \in 1..Len(w) /\ j - 1 \in 1..Len(w) /\ j + 1 \in 1..Len(w)
    BY <2>0
  <2> QED BY <2>1, ChainAddresses, CellType
<1>2. a # b /\ a # e /\ b # e
  <2>1. j # j - 1 /\ j # j + 1 /\ j - 1 # j + 1
    BY <1>1
  <2> QED BY <1>1, <2>1 DEF Chain
<1>3. /\ h.mem[a].time_out \in Int /\ h.mem[e].time_out \in Int
      /\ b \in Int /\ e \in Int /\ h.head \in Int /\ h.tail \in Int
  BY <1>1, CellType
<1>4. c \in Int
  BY <1>3 DEF Carried
<1>5. h.mem[a].next = e
  BY <1>1 DEF Chain, At
<1> HIDE DEF c
<1>6. f \in Cells /\ k \in Cells
  <2>1. h.mem[e].time_out + c \in Int
    BY <1>3, <1>4
  <2>2. [h.mem[e] EXCEPT !.time_out = h.mem[e].time_out + c] \in Cells
    BY <1>1, <2>1, CellWrite
  <2>3. k \in Cells
    BY <1>1, <1>3, CellWrite
  <2> QED BY <1>3, <2>2, <2>3, CellWrite
<1>7. /\ f.id = h.mem[e].id /\ f.time_out = h.mem[e].time_out + c
      /\ f.prev = b /\ f.next = h.mem[e].next
      /\ k.id = h.mem[b].id /\ k.time_out = h.mem[b].time_out
      /\ k.prev = h.mem[b].prev /\ k.next = e
  BY <1>1 DEF Cells
<1>8. m = [h.mem EXCEPT ![e].time_out = @ + c, ![b].next = e, ![e].prev = b]
  BY <1>1, <1>2
<1>9. g = DelPeerAt([mem |-> m, head |-> h.head, tail |-> h.tail], a)
  BY <1>5, <1>8 DEF DelBetween, c
<1> HIDE DEF f, k, g
<1>10. /\ m \in [Addresses -> Cells] /\ m[e] = f /\ m[b] = k
       /\ \A x \in Addresses : x # b /\ x # e => m[x] = h.mem[x]
  BY <1>1, <1>2, <1>6
<1> HIDE DEF m
<1>11. /\ g \in Heaps /\ g.head = h.head /\ g.tail = h.tail
       /\ g.mem[a] = FreeNode
       /\ \A x \in Addresses : x # a => g.mem[x] = m[x]
  BY <1>1, <1>3, <1>9, <1>10, Freed
<1>12. At(w, j - 1) = b /\ At(w, j + 1) = e
  BY <1>1 DEF At
<1>13. \A i \in 1..Len(w) : i # j /\ i # j - 1 /\ i # j + 1 =>
         w[i] \in Addresses /\ w[i] # a /\ w[i] # b /\ w[i] # e
  BY <1>1, ChainAddresses DEF Chain
<1>14. ASSUME NEW i \in 1..Len(w), i # j
       PROVE  /\ g.mem[w[i]].id = h.mem[w[i]].id
              /\ g.mem[w[i]].time_out = h.mem[w[i]].time_out + (IF i = j + 1 THEN c ELSE 0)
              /\ g.mem[w[i]].prev = IF i = j + 1 THEN At(w, j - 1) ELSE h.mem[w[i]].prev
              /\ g.mem[w[i]].next = IF i = j - 1 THEN At(w, j + 1) ELSE h.mem[w[i]].next
  <2>0. h.mem[w[i]].time_out \in Int /\ j + 1 # j - 1
    BY <1>1, ChainAddresses, CellType
  <2>1. CASE i = j - 1
    <3>1. g.mem[w[i]] = k /\ i # j + 1
      BY <1>1, <1>2, <1>10, <1>11, <2>0, <2>1
    <3> QED BY <2>0, <2>1, <3>1, <1>7, <1>12
  <2>2. CASE i = j + 1
    <3>1. g.mem[w[i]] = f /\ i # j - 1
      BY <1>1, <1>2, <1>10, <1>11, <2>0, <2>2
    <3> QED BY <2>0, <2>2, <3>1, <1>7, <1>12
  <2>3. CASE i # j - 1 /\ i # j + 1
    <3>1. g.mem[w[i]] = h.mem[w[i]]
      BY <1>10, <1>11, <1>13, <1>14, <2>3
    <3> QED BY <2>0, <2>3, <3>1
  <2> QED BY <2>1, <2>2, <2>3
<1>15. \A x \in Addresses : Off(w, x) => g.mem[x] = h.mem[x]
  BY <1>1, <1>10, <1>11 DEF Off
<1>16. /\ g.head = IF j = 1 THEN At(w, 2) ELSE h.head
       /\ g.tail = IF j = Len(w) THEN At(w, j - 1) ELSE h.tail
       /\ Len(w) # 1 => g.mem[w[j]] = FreeNode
       /\ Len(w) = 1 => g.mem[w[j]] = h.mem[w[j]]
  BY <1>1, <1>11
<1>17. Unlinked(h, g, w, j, c)
  <2> HIDE DEF a, b, e
  <2> QED BY <1>11, <1>14, <1>15, <1>16 DEF Unlinked
<1> QED BY <1>17 DEF g, c

-------------------------------------------------------------------------------
(* The walk along the links finds the chain.                               *)

(* The chain is not longer than the heap. *)
LEMMA ChainFits ==
  ASSUME NEW h \in Heaps, NEW w, NEW l, Chain(h, w, l)
  PROVE  Len(w) \in 0..MaxMsgs
<1> DEFINE n == Len(w)
<1>1. /\ n \in Nat /\ w \in [1..n -> Addresses]
      /\ \A i, j \in 1..n : w[i] = w[j] => i = j
  BY ChainAddresses DEF Chain
<1>2. MaxMsgs \in Nat /\ IsFiniteSet(Addresses) /\ Cardinality(Addresses) = MaxMsgs
  <2>1. MaxMsgs \in Nat /\ 1 \in Int
    BY TimerConstants
  <2>2. Cardinality(1..MaxMsgs) = IF 1 > MaxMsgs THEN 0 ELSE MaxMsgs - 1 + 1
    BY <2>1, FS_Interval
  <2>3. IsFiniteSet(1..MaxMsgs)
    BY <2>1, FS_Interval
  <2> QED BY <2>1, <2>2, <2>3 DEF Addresses
<1> HIDE DEF n
<1>3. Cardinality(1..n) = n
  <2>1. 1 \in Int /\ n \in Int
    BY <1>1
  <2>2. Cardinality(1..n) = IF 1 > n THEN 0 ELSE n - 1 + 1
    BY <2>1, FS_Interval
  <2> QED BY <1>1, <2>2
<1>4. w \in Injection(1..n, Addresses)
  BY <1>1 DEF Injection, IsInjective
<1>5. Cardinality(1..n) <= Cardinality(Addresses)
  BY <1>2, <1>4, FS_Injection
<1> QED BY <1>1, <1>2, <1>3, <1>5 DEF n

LEMMA WalkIs ==
  ASSUME NEW h \in Heaps, NEW w, NEW l, Chain(h, w, l)
  PROVE  Walk(h) = w
<1> DEFINE N == MaxMsgs + 1
           Behind(a) == IF a \in Addresses THEN h.mem[a].next ELSE Null
           Is(f) == f = [i \in 1..N |-> IF i = 1 THEN h.head ELSE Behind(f[i - 1])]
           node == CHOOSE f : Is(f)
           Ends(k) == /\ \A i \in 1..k : node[i] \in Addresses
                      /\ k <= MaxMsgs => node[k + 1] \notin Addresses
           n == CHOOSE k \in 0..N : Ends(k)
           g == [i \in 1..N |-> At(w, i)]
<1>1. Walk(h) = [i \in 1..n |-> node[i]]
  BY DEF Walk
<1>2. /\ Len(w) \in 0..MaxMsgs /\ MaxMsgs \in Nat
      /\ \A i \in 1..Len(w) : w[i] \in Addresses
      /\ Null \notin Addresses
  BY ChainFits, ChainAddresses, AddressesAre, TimerConstants
<1>3. Is(g)
  <2>1. ASSUME NEW i \in 1..N PROVE At(w, i) = IF i = 1 THEN h.head ELSE Behind(g[i - 1])
    <3>1. CASE i = 1
      BY <3>1 DEF Chain
    <3>2. CASE i # 1
      <4>1. i - 1 \in 1..N /\ (i - 1) + 1 = i
        BY <1>2, <3>2
      <4>2. g[i - 1] = At(w, i - 1)
        BY <4>1
      <4>3. CASE i - 1 \in 1..Len(w)
        <5>1. At(w, i - 1) = w[i - 1] /\ w[i - 1] \in Addresses
          BY <1>2, <4>3 DEF At
        <5>2. h.mem[w[i - 1]].next = At(w, i)
          BY <4>1, <4>3 DEF Chain
        <5> QED BY <3>2, <4>2, <5>1, <5>2
      <4>4. CASE i - 1 \notin 1..Len(w)
        <5>1. At(w, i - 1) = Null
          BY <4>4 DEF At
        <5>2. At(w, i) = Null
          BY <1>2, <4>1, <4>4 DEF At
        <5> QED BY <1>2, <3>2, <4>2, <5>1, <5>2
      <4> QED BY <4>3, <4>4
    <3> QED BY <3>1, <3>2
  <2>2. g = [i \in 1..N |-> At(w, i)]
    OBVIOUS
  <2> HIDE DEF g, Behind
  <2> QED BY <2>1, <2>2
<1>4. Is(node)
  <2> HIDE DEF Is, g
  <2> QED BY <1>3
<1> HIDE DEF node
<1>5. \A i \in 1..N : node[i] = g[i]
  <2> DEFINE S == {i \in 1..N : node[i] = g[i]}
  <2>1. \A i \in 1..N : /\ node[i] = IF i = 1 THEN h.head ELSE Behind(node[i - 1])
                        /\ g[i] = IF i = 1 THEN h.head ELSE Behind(g[i - 1])
    <3> HIDE DEF g, Behind
    <3> QED BY <1>3, <1>4
  <2> HIDE DEF g, Behind
  <2>2. /\ 1 \in Int /\ N \in Int /\ (1 <= N => 1 \in S)
        /\ \A i \in 1..(N - 1) : i \in S => i + 1 \in S
    <3>1. N \in Int /\ 1 \in 1..N
      BY <1>2
    <3>2. ASSUME NEW i \in 1..(N - 1), i \in S PROVE i + 1 \in S
      <4>1. i + 1 \in 1..N /\ (i + 1) - 1 = i /\ i + 1 # 1
        BY <3>1
      <4> QED BY <2>1, <3>2, <4>1
    <3> HIDE DEF N
    <3> QED BY <2>1, <3>1, <3>2
  <2> HIDE DEF S, N
  <2>3. 1..N \subseteq S
    BY <2>2, StepByStep
  <2> QED BY <2>3 DEF S
<1>6. \A i \in 1..N : node[i] = At(w, i) /\ (node[i] \in Addresses <=> i <= Len(w))
  BY <1>2, <1>5 DEF At
<1>7. Ends(Len(w)) /\ Len(w) \in 0..N
  BY <1>2, <1>6
<1>8. \A k \in 0..N : Ends(k) => k = Len(w)
  BY <1>2, <1>6
<1>9. n = Len(w)
  <2> HIDE DEF Ends, N
  <2> QED BY <1>7, <1>8
<1> HIDE DEF n
<1>10. \A i \in 1..Len(w) : node[i] = w[i]
  BY <1>2, <1>6 DEF At
<1>11. w = [i \in 1..Len(w) |-> w[i]]
  BY DEF Chain
<1> QED BY <1>1, <1>9, <1>10, <1>11

LEMMA ContentsAre ==
  ASSUME NEW h \in Heaps, NEW w, NEW l \in Seq(Nodes), Chain(h, w, l)
  PROVE  Contents(h) = l
<1>1. Walk(h) = w /\ Len(w) = Len(l)
  BY WalkIs DEF Chain
<1>2. \A i \in 1..Len(w) : Node(h.mem[w[i]].id, h.mem[w[i]].time_out) = l[i]
  <2>1. ASSUME NEW i \in 1..Len(w)
        PROVE  l[i] = [id |-> l[i].id, time_out |-> l[i].time_out]
    <3>1. l[i] \in Nodes
      BY <1>1
    <3> QED BY <3>1 DEF Nodes
  <2>2. \A i \in 1..Len(w) : h.mem[w[i]].id = l[i].id /\ h.mem[w[i]].time_out = l[i].time_out
    BY DEF Chain
  <2> QED BY <2>1, <2>2 DEF Node
<1>3. l = [i \in 1..Len(w) |-> l[i]]
  BY <1>1
<1> QED BY <1>1, <1>2, <1>3 DEF Contents

-------------------------------------------------------------------------------
(* Where the memory goes.                                                  *)

Used(h) == {a \in Addresses : ~ IsFree(h, a)}

LEMMA ChainUsed ==
  ASSUME NEW h \in Heaps, NEW w, NEW l, Chain(h, w, l), NEW i \in 1..Len(w)
  PROVE  w[i] \in Used(h) /\ ~ IsFree(h, w[i])
<1>1. At(w, i - 1) \in Addresses \cup {Null} /\ w[i] \in Addresses
  BY ChainAddresses DEF At
<1>2. h.mem[w[i]].prev # Garbage
  BY <1>1, AddressesAre DEF Chain
<1>3. FreeNode.prev = Garbage
  BY DEF FreeNode
<1> QED BY <1>1, <1>2, <1>3 DEF Used, IsFree

(* Adding a node to the list allocates nothing and frees nothing. *)
LEMMA SpliceUsed ==
  ASSUME NEW h \in Heaps, NEW w, NEW l \in Seq(Nodes), Chain(h, w, l),
         NEW j \in 1..(Len(w) + 1), NEW p \in Addresses, Off(w, p), NEW d \in Int,
         NEW g, Spliced(h, g, w, j, p, d), ~ IsFree(h, p),
         NEW m, Chain(g, InsertAt(w, j, p), m)
  PROVE  Used(g) = Used(h)
<1> DEFINE v == InsertAt(w, j, p)
<1>1. /\ Len(w) \in Nat /\ w \in Seq(Addresses) /\ g \in Heaps
  BY ChainAddresses DEF Chain, Spliced
<1>2. /\ Len(v) = Len(w) + 1
      /\ \A i \in 1..(Len(w) + 1) : v[i] = IF i < j THEN w[i] ELSE IF i = j THEN p ELSE w[i - 1]
  <2> DEFINE T == Addresses
  <2>1. w \in Seq(T) /\ j \in 1..(Len(w) + 1) /\ p \in T
    BY <1>1
  <2> HIDE DEF T
  <2>2. Len(v) = Len(w) + 1
    BY <2>1, InsertAtIs
  <2>3. \A i \in 1..(Len(w) + 1) : v[i] = IF i < j THEN w[i] ELSE IF i = j THEN p ELSE w[i - 1]
    BY <2>1, InsertAtIs
  <2> QED BY <2>2, <2>3
<1>3. \A i \in 1..Len(v) : v[i] \in Used(g)
  BY <1>1, ChainUsed
<1> HIDE DEF v
<1>4. p \in Used(g) /\ \A i \in 1..Len(w) : w[i] \in Used(g)
  <2>1. p = v[j] /\ j \in 1..Len(v)
    BY <1>1, <1>2
  <2>2. ASSUME NEW i \in 1..Len(w) PROVE w[i] \in Used(g)
    <3>1. CASE i < j
      <4>1. w[i] = v[i] /\ i \in 1..Len(v)
        BY <1>1, <1>2, <3>1
      <4> QED BY <1>3, <4>1
    <3>2. CASE i >= j
      <4>1. i + 1 \in 1..Len(v) /\ ~(i + 1 < j) /\ i + 1 # j /\ (i + 1) - 1 = i
        BY <1>1, <1>2, <3>2
      <4>2. v[i + 1] = w[i]
        BY <1>2, <4>1
      <4> QED BY <1>3, <4>1, <4>2
    <3> QED BY <1>1, <3>1, <3>2
  <2> QED BY <1>3, <2>1, <2>2
<1>5. p \in Used(h) /\ \A i \in 1..Len(w) : w[i] \in Used(h)
  BY ChainUsed DEF Used
<1>6. \A a \in Addresses : a # p /\ Off(w, a) => g.mem[a] = h.mem[a]
  BY DEF Spliced
<1>7. ASSUME NEW a \in Addresses PROVE a \in Used(g) <=> a \in Used(h)
  <2>1. CASE a = p
    BY <1>4, <1>5, <2>1
  <2>2. CASE ~ Off(w, a)
    BY <1>4, <1>5, <2>2 DEF Off
  <2>3. CASE a # p /\ Off(w, a)
    BY <1>6, <2>3 DEF Used, IsFree
  <2> QED BY <2>1, <2>2, <2>3
<1> QED BY <1>7 DEF Used

(* Taking one out frees it, unless it was the only one. *)
LEMMA UnlinkUsed ==
  ASSUME NEW h \in Heaps, NEW w, NEW l \in Seq(Nodes), Chain(h, w, l),
         NEW j \in 1..Len(w), NEW c \in Int, NEW g, Unlinked(h, g, w, j, c),
         NEW m, Chain(g, RemoveAt(w, j), m)
  PROVE  Used(g) = IF Len(w) = 1 THEN Used(h) ELSE Used(h) \ {w[j]}
<1> DEFINE v == RemoveAt(w, j)
<1>1. /\ Len(w) \in Nat /\ w \in Seq(Addresses) /\ g \in Heaps
      /\ \A i, k \in 1..Len(w) : w[i] = w[k] => i = k
  BY ChainAddresses DEF Chain, Unlinked
<1>2. /\ Len(v) = Len(w) - 1
      /\ \A i \in 1..(Len(w) - 1) : v[i] = IF i < j THEN w[i] ELSE w[i + 1]
  <2> DEFINE T == Addresses
  <2>1. w \in Seq(T) /\ j \in 1..Len(w)
    BY <1>1
  <2> HIDE DEF T
  <2>2. Len(v) = Len(w) - 1
    BY <2>1, RemoveAtIs
  <2>3. \A i \in 1..(Len(w) - 1) : v[i] = IF i < j THEN w[i] ELSE w[i + 1]
    BY <2>1, RemoveAtIs
  <2> QED BY <2>2, <2>3
<1>3. \A i \in 1..Len(v) : v[i] \in Used(g)
  BY <1>1, ChainUsed
<1> HIDE DEF v
<1>4. ASSUME NEW i \in 1..Len(w), i # j PROVE w[i] \in Used(g)
  <2>1. CASE i < j
    <3>1. w[i] = v[i] /\ i \in 1..Len(v)
      BY <1>1, <1>2, <2>1
    <3> QED BY <1>3, <3>1
  <2>2. CASE i > j
    <3>1. i - 1 \in 1..Len(v) /\ ~(i - 1 < j) /\ (i - 1) + 1 = i
      BY <1>1, <1>2, <2>2
    <3>2. v[i - 1] = w[i]
      BY <1>2, <3>1
    <3> QED BY <1>3, <3>1, <3>2
  <2> QED BY <1>1, <1>4, <2>1, <2>2
<1>5. \A i \in 1..Len(w) : w[i] \in Used(h)
  BY ChainUsed
<1>6. /\ Len(w) # 1 => w[j] \notin Used(g)
      /\ Len(w) = 1 => w[j] \in Used(g)
  <2>1. Len(w) # 1 => g.mem[w[j]] = FreeNode
    BY DEF Unlinked
  <2>2. Len(w) = 1 => g.mem[w[j]] = h.mem[w[j]]
    BY DEF Unlinked
  <2> QED BY <1>5, <2>1, <2>2 DEF Used, IsFree
<1>7. \A a \in Addresses : Off(w, a) => g.mem[a] = h.mem[a]
  BY DEF Unlinked
<1>8. ASSUME NEW a \in Addresses
      PROVE  a \in Used(g) <=> a \in Used(h) /\ (Len(w) = 1 \/ a # w[j])
  <2>1. CASE a = w[j]
    BY <1>5, <1>6, <2>1
  <2>2. CASE a # w[j] /\ ~ Off(w, a)
    BY <1>4, <1>5, <2>2 DEF Off
  <2>3. CASE Off(w, a)
    BY <1>7, <2>3 DEF Used, IsFree, Off
  <2> QED BY <2>1, <2>2, <2>3
<1> QED BY <1>8 DEF Used

-------------------------------------------------------------------------------
(* addPeerToList puts the node where DeltaTimer puts the timer.            *)

(* p is what newPeer returns for the packet n and the timeout t. *)
NewNode(h, p, n, t) ==
  /\ h.mem[p].id = n /\ h.mem[p].time_out = t
  /\ h.mem[p].prev = Null /\ h.mem[p].next = Null

LEMMA NewNodeUsed ==
  ASSUME NEW h, NEW p, NEW n, NEW t, NewNode(h, p, n, t)
  PROVE  ~ IsFree(h, p)
<1>1. FreeNode.prev = Garbage
  BY DEF FreeNode
<1> QED BY <1>1, AddressesAre DEF NewNode, IsFree

LEMMA AddsSpliced ==
  ASSUME NEW h \in Heaps, NEW w, NEW l \in Seq(Nodes), Chain(h, w, l),
         NEW p \in Addresses, Off(w, p), ~ IsFree(h, p), NEW n \in Ids, NEW d \in Int,
         h.mem[p].id = n, NEW j \in 1..(Len(w) + 1), NEW g, Spliced(h, g, w, j, p, d),
         NEW m \in Seq(Nodes), Inserted(l, m, j), m[j] = Node(n, d)
  PROVE  g \in Heaps /\ Used(g) = Used(h) /\ \E v : Chain(g, v, m)
<1>1. m[j].id = h.mem[p].id /\ m[j].time_out = d
  BY DEF Node
<1>2. Chain(g, InsertAt(w, j, p), m)
  BY <1>1, SpliceChain
<1>3. Used(g) = Used(h)
  BY <1>2, SpliceUsed
<1> QED BY <1>2, <1>3 DEF Spliced

(* The list of a process that had no timers. *)
LEMMA AddsFirst ==
  ASSUME NEW h \in Heaps, NEW p \in Addresses, NEW n \in Ids, NEW t \in Int, NewNode(h, p, n, t)
  PROVE  LET g == AddOnly(h, p)
         IN  g \in Heaps /\ Used(g) = Used(h) /\ Chain(g, <<p>>, <<Node(n, t)>>)
<1> DEFINE g == AddOnly(h, p)
<1>1. g = [mem |-> h.mem, head |-> p, tail |-> p]
  BY DEF AddOnly
<1>2. g.mem = h.mem /\ g.head = p /\ g.tail = p
  BY <1>1
<1>3. g \in Heaps
  <2>1. h.mem \in [Addresses -> Cells] /\ p \in Int
    BY CellType
  <2> QED BY <1>1, <2>1, HeapOf
<1> HIDE DEF g
<1>4. Used(g) = Used(h)
  BY <1>2 DEF Used, IsFree
<1> DEFINE w == <<p>>  l == <<Node(n, t)>>
<1>5. /\ w \in Seq(Addresses) /\ Len(w) = 1 /\ Len(l) = 1 /\ w[1] = p
      /\ l[1].id = n /\ l[1].time_out = t
  BY DEF Node
<1> HIDE DEF w, l
<1>6. At(w, 0) = Null /\ At(w, 1) = p /\ At(w, 2) = Null
  BY <1>5 DEF At
<1>7. \A i \in 1..Len(w) : i = 1
  BY <1>5
<1>8. 1 - 1 = 0 /\ 1 + 1 = 2
  OBVIOUS
<1>9. \A i \in 1..Len(w) :
        /\ g.mem[w[i]].id = l[i].id /\ g.mem[w[i]].time_out = l[i].time_out
        /\ g.mem[w[i]].prev = At(w, i - 1) /\ g.mem[w[i]].next = At(w, i + 1)
  BY <1>2, <1>5, <1>6, <1>7, <1>8 DEF NewNode
<1>10. Chain(g, w, l)
  <2>1. \A i, j \in 1..Len(w) : w[i] = w[j] => i = j
    BY <1>7
  <2> QED BY <1>2, <1>5, <1>6, <1>9, <2>1 DEF Chain
<1> QED BY <1>3, <1>4, <1>10 DEF g, w, l

(* addPeerToList, of a timeout above 0. *)
LEMMA AddsToList ==
  ASSUME NEW h \in Heaps, NEW w, NEW l \in Seq(Nodes), Chain(h, w, l),
         NEW p \in Addresses, Off(w, p), NEW n \in Ids, NEW t \in Int, t > 0, NewNode(h, p, n, t)
  PROVE  LET g == AddToList(h, p)  m == WithPeer(l, n, t)
         IN  g \in Heaps /\ m \in Seq(Nodes) /\ Used(g) = Used(h) /\ \E v : Chain(g, v, m)
<1> DEFINE g == AddToList(h, p)  m == WithPeer(l, n, t)
           Good == g \in Heaps /\ m \in Seq(Nodes) /\ Used(g) = Used(h) /\ \E v : Chain(g, v, m)
<1> SUFFICES Good
  OBVIOUS
<1>1. /\ Len(w) \in Nat /\ Len(l) = Len(w) /\ Walk(h) = w /\ Contents(h) = l
      /\ ~ IsFree(h, p) /\ h.mem[p].id = n /\ h.mem[p].time_out = t
  BY ChainAddresses, WalkIs, ContentsAre, NewNodeUsed DEF NewNode
<1>2. ASSUME Len(w) # 0
      PROVE  /\ 1 \in 1..Len(w) /\ h.head = w[1] /\ h.head # Null
             /\ h.mem[h.head].time_out = l[1].time_out /\ l # <<>>
  <2>1. 1 \in 1..Len(w)
    BY <1>1, <1>2
  <2>2. h.head = w[1]
    BY <2>1 DEF Chain, At
  <2>3. w[1] # Null /\ h.mem[w[1]].time_out = l[1].time_out
    BY <2>1, ChainAddresses DEF Chain
  <2> QED BY <1>1, <1>2, <2>1, <2>2, <2>3
<1>3. CASE Len(w) = 0
  <2>1. l = <<>>
    BY <1>1, <1>3
  <2>2. h.head = Null
    BY <1>3 DEF Chain, At
  <2>3. g = AddOnly(h, p) /\ m = <<Node(n, t)>>
    BY <2>1, <2>2 DEF AddToList, WithPeer
  <2>4. m \in Seq(Nodes)
    BY <2>3 DEF Node, Nodes
  <2> HIDE DEF g, m
  <2>5. g \in Heaps /\ Used(g) = Used(h) /\ Chain(g, <<p>>, m)
    BY <2>3, AddsFirst
  <2>6. \E v : Chain(g, v, m)
    BY <2>5
  <2> QED BY <2>4, <2>5, <2>6
<1>4. CASE Len(w) # 0 /\ t <= l[1].time_out
  <2>1. g = AddAtHead(h, p)
    BY <1>1, <1>2, <1>4 DEF AddToList
  <2>2. m = InsertAt(Delay(l, 1, -t), 1, Node(n, t))
    BY <1>2, <1>4, PeerInFront
  <2> HIDE DEF g, m
  <2>3. m \in Seq(Nodes) /\ Inserted(l, m, 1) /\ m[1] = Node(n, t)
    BY <1>1, <1>2, <1>4, <2>2, InFront
  <2>4. Spliced(h, g, w, 1, p, t)
    BY <1>1, <1>4, <2>1, HeadSplice
  <2>5. 1 \in 1..(Len(w) + 1)
    BY <1>1
  <2>6. g \in Heaps /\ Used(g) = Used(h) /\ \E v : Chain(g, v, m)
    BY <1>1, <2>3, <2>4, <2>5, AddsSpliced
  <2> QED BY <2>3, <2>6
<1>5. CASE Len(w) # 0 /\ ~(t <= l[1].time_out)
  <2> DEFINE j == StopAt(l, t)  d == t - TotalTo(l)[j]
  <2>1. /\ j \in 1..Len(w) /\ d \in Int
        /\ t <= TotalTo(l)[j] \/ j = Len(w)
    <3>1. j \in 1..Len(l) /\ (t <= TotalTo(l)[j] \/ j = Len(l))
      BY <1>2, <1>5, StopAtType
    <3>2. TotalTo(l)[j] \in Int
      BY <3>1, TotalType
    <3> QED BY <1>1, <3>1, <3>2
  <2>2. j = 1 => t > TotalTo(l)[j]
    <3>1. l[1].time_out \in Int /\ t > l[1].time_out
      BY <1>1, <1>2, <1>5, NodesIn
    <3>2. t > TotalTo(l)[1]
      BY <1>2, <1>5, <3>1, TruncBelow, TotalType
    <3> QED BY <3>2
  <2>3. TotalTo(l)[j] \in Int
    BY <1>1, <2>1, TotalType
  <2>4. j < Len(l) \/ d < 0 => j \in 2..Len(w)
    BY <1>1, <2>1, <2>2, <2>3
  <2>5. ~(j < Len(l) \/ d < 0) => j = Len(w)
    BY <1>1, <2>1
  <2>6. h.mem[w[j]].next # Null <=> j < Len(l)
    <3>1. h.mem[w[j]].next = At(w, j + 1)
      BY <2>1 DEF Chain
    <3>2. j < Len(w) => At(w, j + 1) = w[j + 1] /\ w[j + 1] # Null
      BY <1>1, <2>1, ChainAddresses DEF At
    <3>3. ~(j < Len(w)) => At(w, j + 1) = Null
      BY <1>1, <2>1 DEF At
    <3> QED BY <1>1, <3>1, <3>2, <3>3
  <2>7. m = IF j < Len(l) \/ d < 0 THEN InsertAt(Delay(l, j, -d), j, Node(n, d))
                                   ELSE Append(l, Node(n, d))
    BY <1>2, <1>5 DEF WithPeer
  <2>8. g = LET prev1 == IF j = 1 THEN Garbage ELSE w[j - 1]
            IN  IF h.mem[w[j]].next # Null \/ d < 0 THEN AddBefore(h, p, w[j], prev1, d)
                                                    ELSE AddAtTail(h, p, d)
    BY <1>1, <1>2, <1>5 DEF AddToList
  <2> HIDE DEF g, m, j, d
  <2>9. CASE j < Len(l) \/ d < 0
    <3>1. j \in 2..Len(w) /\ j # 1 /\ j \in 1..Len(l) /\ j \in 1..(Len(w) + 1)
      BY <1>1, <2>1, <2>4, <2>9
    <3>2. g = AddBefore(h, p, w[j], w[j - 1], d)
      BY <2>6, <2>8, <2>9, <3>1
    <3>3. m = InsertAt(Delay(l, j, -d), j, Node(n, d))
      BY <2>7, <2>9
    <3>4. m \in Seq(Nodes) /\ Inserted(l, m, j) /\ m[j] = Node(n, d)
      BY <2>1, <3>1, <3>3, InFront
    <3>5. Spliced(h, g, w, j, p, d)
      BY <2>1, <3>1, <3>2, BetweenSplice
    <3>6. g \in Heaps /\ Used(g) = Used(h) /\ \E v : Chain(g, v, m)
      BY <1>1, <2>1, <3>1, <3>4, <3>5, AddsSpliced
    <3> QED BY <3>4, <3>6
  <2>10. CASE ~(j < Len(l) \/ d < 0)
    <3>1. g = AddAtTail(h, p, d)
      BY <2>6, <2>8, <2>10
    <3>2. m = Append(l, Node(n, d))
      BY <2>7, <2>10
    <3>3. m \in Seq(Nodes) /\ Inserted(l, m, Len(l) + 1) /\ m[Len(l) + 1] = Node(n, d)
      BY <2>1, <3>2, AtEnd
    <3>4. Spliced(h, g, w, Len(w) + 1, p, d)
      BY <1>5, <2>1, <3>1, TailSplice
    <3>5. Len(l) + 1 = Len(w) + 1 /\ Len(w) + 1 \in 1..(Len(w) + 1)
      BY <1>1
    <3>6. g \in Heaps /\ Used(g) = Used(h) /\ \E v : Chain(g, v, m)
      BY <1>1, <2>1, <3>3, <3>4, <3>5, AddsSpliced
    <3> QED BY <3>3, <3>6
  <2> QED BY <2>9, <2>10
<1> QED BY <1>3, <1>4, <1>5

-------------------------------------------------------------------------------
(* delPeerFromList takes out the node of the timer DeltaTimer takes out.   *)

LEMMA DeletesFromList ==
  ASSUME NEW h \in Heaps, NEW w, NEW l \in Seq(Nodes), Chain(h, w, l),
         NEW n, \E i \in 1..Len(l) : l[i].id = n, NEW carry \in BOOLEAN, NEW count, count # 0
  PROVE  LET i == FirstOf(l, n)
         IN  /\ i \in 1..Len(w)
             /\ Unlinked(h, DelFromList(h, n, carry, count), w, i, Carried(h, w[i], carry))
<1> DEFINE i == FirstOf(l, n)  g == DelFromList(h, n, carry, count)  a == w[i]
           c == Carried(h, a, carry)
<1> SUFFICES i \in 1..Len(w) /\ Unlinked(h, g, w, i, c)
  OBVIOUS
<1>1. /\ Len(w) \in Nat /\ Len(l) = Len(w) /\ Walk(h) = w /\ Contents(h) = l
  BY ChainAddresses, WalkIs, ContentsAre
<1>2. i \in 1..Len(w)
  BY <1>1, FirstOfIs
<1>3. h.mem[a].next = Null <=> i = Len(w)
  <2>1. h.mem[a].next = At(w, i + 1)
    BY <1>2 DEF Chain
  <2>2. i < Len(w) => At(w, i + 1) = w[i + 1] /\ w[i + 1] # Null
    BY <1>1, <1>2, ChainAddresses DEF At
  <2>3. i = Len(w) => At(w, i + 1) = Null
    BY <1>1, <1>2 DEF At
  <2> QED BY <1>1, <1>2, <2>1, <2>2, <2>3
<1>4. g = IF i = 1 THEN IF h.mem[a].next = Null THEN DelOnly(h) ELSE DelHead(h, a, carry)
          ELSE IF h.mem[a].next = Null THEN DelTail(h, a, w[i - 1])
          ELSE DelBetween(h, a, w[i - 1], carry)
  BY <1>1 DEF DelFromList
<1> HIDE DEF g, i, c
<1>5. CASE i = 1 /\ i = Len(w)
  <2>1. g = DelOnly(h)
    BY <1>3, <1>4, <1>5
  <2> QED BY <1>2, <1>5, <2>1, OnlyUnlinked
<1>6. CASE i = 1 /\ i # Len(w)
  <2>1. g = DelHead(h, w[1], carry) /\ c = Carried(h, w[1], carry)
    BY <1>3, <1>4, <1>6 DEF c
  <2>2. Len(w) # 0 /\ Len(w) # 1
    BY <1>1, <1>2, <1>6
  <2> QED BY <1>2, <1>6, <2>1, <2>2, HeadUnlinked
<1>7. CASE i # 1 /\ i = Len(w)
  <2>1. g = DelTail(h, w[Len(w)], w[Len(w) - 1])
    BY <1>3, <1>4, <1>7
  <2>2. Len(w) # 0 /\ Len(w) # 1
    BY <1>1, <1>2, <1>7
  <2> QED BY <1>2, <1>7, <2>1, <2>2, TailUnlinked
<1>8. CASE i # 1 /\ i # Len(w)
  <2>1. g = DelBetween(h, w[i], w[i - 1], carry)
    BY <1>3, <1>4, <1>8
  <2>2. i \in 2..(Len(w) - 1)
    BY <1>1, <1>2, <1>8
  <2> QED BY <1>2, <2>1, <2>2, BetweenUnlinked DEF c
<1> QED BY <1>5, <1>6, <1>7, <1>8

(* What is left is the chain of what is left, one node shorter, and one    *)
(* node is free unless the list is empty now.                              *)
LEMMA DeletesNode ==
  ASSUME NEW h \in Heaps, NEW w, NEW l \in Seq(Nodes), Chain(h, w, l),
         NEW n, \E i \in 1..Len(l) : l[i].id = n, NEW carry \in BOOLEAN, NEW count, count # 0,
         NEW m \in Seq(Nodes),
         Without(l, m, FirstOf(l, n), IF carry THEN l[FirstOf(l, n)].time_out ELSE 0)
  PROVE  LET i == FirstOf(l, n)  g == DelFromList(h, n, carry, count)
         IN  /\ g \in Heaps /\ i \in 1..Len(w) /\ Chain(g, RemoveAt(w, i), m)
             /\ Used(g) = IF Len(w) = 1 THEN Used(h) ELSE Used(h) \ {w[i]}
<1> DEFINE i == FirstOf(l, n)  g == DelFromList(h, n, carry, count)
           c == IF carry THEN l[i].time_out ELSE 0
<1> SUFFICES /\ g \in Heaps /\ i \in 1..Len(w) /\ Chain(g, RemoveAt(w, i), m)
             /\ Used(g) = IF Len(w) = 1 THEN Used(h) ELSE Used(h) \ {w[i]}
  OBVIOUS
<1>1. i \in 1..Len(w) /\ Unlinked(h, g, w, i, Carried(h, w[i], carry))
  BY DeletesFromList
<1>2. Len(w) = Len(l)
  BY DEF Chain
<1> HIDE DEF i, g
<1>3. Carried(h, w[i], carry) = c
  BY <1>1 DEF Carried, Chain
<1>4. c \in Int
  BY <1>1, <1>2, NodesIn
<1>5. Without(l, m, i, c)
  BY DEF i
<1> HIDE DEF c
<1>6. Unlinked(h, g, w, i, c)
  BY <1>1, <1>3
<1>7. Chain(g, RemoveAt(w, i), m)
  BY <1>1, <1>4, <1>5, <1>6, UnlinkChain
<1>8. Used(g) = IF Len(w) = 1 THEN Used(h) ELSE Used(h) \ {w[i]}
  BY <1>1, <1>4, <1>6, <1>7, UnlinkUsed
<1> QED BY <1>1, <1>6, <1>7, <1>8 DEF Unlinked

(* A stopped timer's delay goes to the one behind it. *)
LEMMA StoppedIsWithout ==
  ASSUME NEW l \in Seq(Nodes), NEW n, \E i \in 1..Len(l) : l[i].id = n
  PROVE  Without(l, WithoutPeer(l, n), FirstOf(l, n), l[FirstOf(l, n)].time_out)
<1> DEFINE j == FirstOf(l, n)  m == WithoutPeer(l, n)  c == l[j].time_out
<1> SUFFICES Without(l, m, j, c)
  OBVIOUS
<1>1. m \in Seq(Nodes) /\ Inserted(m, l, j)
  BY WithoutPeerInserts
<1> HIDE DEF j, m
<1>2. /\ Len(l) = Len(m) + 1 /\ j \in 1..Len(l) /\ Len(m) \in Nat
      /\ \A i \in 1..(j - 1) : l[i] = m[i]
      /\ \A i \in j..Len(m) :
           /\ l[i + 1].id = m[i].id
           /\ l[i + 1].time_out = m[i].time_out - (IF i = j THEN l[j].time_out ELSE 0)
  BY <1>1, NodesIn DEF Inserted
<1>3. c \in Int /\ \A i \in 1..Len(m) : m[i].time_out \in Int
  BY <1>1, <1>2, NodesIn
<1>4. ASSUME NEW i \in j..Len(m)
      PROVE  /\ m[i].id = l[i + 1].id
             /\ m[i].time_out = l[i + 1].time_out + (IF i = j THEN c ELSE 0)
  <2>1. i \in 1..Len(m)
    BY <1>2
  <2> QED BY <1>2, <1>3, <2>1
<1>5. Len(m) = Len(l) - 1
  BY <1>2
<1> QED BY <1>2, <1>4, <1>5 DEF Without

-------------------------------------------------------------------------------
(* newPeer allocates a node that was free, and changes no other.           *)

LEMMA UsedFinite ==
  ASSUME NEW h
  PROVE  /\ IsFiniteSet(Used(h)) /\ Cardinality(Used(h)) \in Nat
         /\ Used(h) # Addresses <=> Cardinality(Used(h)) < MaxMsgs
<1>1. MaxMsgs \in Nat /\ IsFiniteSet(Addresses) /\ Cardinality(Addresses) = MaxMsgs
  <2>1. MaxMsgs \in Nat /\ 1 \in Int
    BY TimerConstants
  <2>2. Cardinality(1..MaxMsgs) = IF 1 > MaxMsgs THEN 0 ELSE MaxMsgs - 1 + 1
    BY <2>1, FS_Interval
  <2>3. IsFiniteSet(1..MaxMsgs)
    BY <2>1, FS_Interval
  <2> QED BY <2>1, <2>2, <2>3 DEF Addresses
<1>2. Used(h) \in SUBSET Addresses
  BY DEF Used
<1>3. /\ IsFiniteSet(Used(h)) /\ Cardinality(Used(h)) <= Cardinality(Addresses)
      /\ Cardinality(Addresses) = Cardinality(Used(h)) => Addresses = Used(h)
  BY <1>1, <1>2, FS_Subset
<1>4. Cardinality(Used(h)) \in Nat
  BY <1>3, FS_CardinalityType
<1> QED BY <1>1, <1>3, <1>4

LEMMA FreshIs ==
  ASSUME NEW h, Cardinality(Used(h)) < MaxMsgs
  PROVE  Fresh(h) \in Addresses /\ IsFree(h, Fresh(h))
<1> DEFINE S == {a \in Addresses : IsFree(h, a)}
<1>1. S \subseteq Nat /\ S # {}
  <2>1. Used(h) # Addresses
    BY UsedFinite
  <2>2. Addresses \subseteq Nat
    BY TimerConstants DEF Addresses
  <2> QED BY <2>1, <2>2 DEF Used
<1>2. PICK a \in S : \A b \in S : a <= b
  <2> HIDE DEF S
  <2> QED BY <1>1, LeastExists
<1>3. \A b \in 1..(a - 1) : ~ IsFree(h, b)
  <2> SUFFICES ASSUME NEW b \in 1..(a - 1), IsFree(h, b) PROVE FALSE
    OBVIOUS
  <2>1. b \in Addresses /\ ~(a <= b)
    BY TimerConstants DEF Addresses
  <2> QED BY <1>2, <2>1
<1>4. \E b \in Addresses : IsFree(h, b) /\ \A c \in 1..(b - 1) : ~ IsFree(h, c)
  BY <1>2, <1>3
<1> QED BY <1>4 DEF Fresh

LEMMA NewPeerIs ==
  ASSUME NEW h \in Heaps, NEW w, NEW l \in Seq(Nodes), Chain(h, w, l),
         Cardinality(Used(h)) < MaxMsgs, NEW m \in Nodes
  PROVE  LET g == NewPeer(h, m)  p == Fresh(h)
         IN  /\ g \in Heaps /\ Chain(g, w, l)
             /\ p \in Addresses /\ Off(w, p) /\ NewNode(g, p, m.id, m.time_out)
             /\ Cardinality(Used(g)) = Cardinality(Used(h)) + 1
<1> DEFINE g == NewPeer(h, m)  p == Fresh(h)
           e == [id |-> m.id, time_out |-> m.time_out, prev |-> Null, next |-> Null]
<1> SUFFICES /\ g \in Heaps /\ Chain(g, w, l)
             /\ p \in Addresses /\ Off(w, p) /\ NewNode(g, p, m.id, m.time_out)
             /\ Cardinality(Used(g)) = Cardinality(Used(h)) + 1
  OBVIOUS
<1>1. p \in Addresses /\ IsFree(h, p)
  BY FreshIs
<1> HIDE DEF p
<1>2. e \in Cells
  BY AddressesAre DEF Nodes, Cells
<1>3. /\ e.id = m.id /\ e.time_out = m.time_out /\ e.prev = Null /\ e.next = Null
  OBVIOUS
<1>4. g = [h EXCEPT !.mem = [h.mem EXCEPT ![p] = e]]
  BY DEF NewPeer, p
<1> HIDE DEF e, g
<1>5. h.mem \in [Addresses -> Cells] /\ h.head \in Int /\ h.tail \in Int
  BY DEF Heaps
<1> DEFINE k == [h.mem EXCEPT ![p] = e]
<1>6. /\ k \in [Addresses -> Cells] /\ k[p] = e
      /\ \A a \in Addresses : a # p => k[a] = h.mem[a]
  BY <1>1, <1>2, <1>5
<1>7. g = [h EXCEPT !.mem = k]
  BY <1>4
<1> HIDE DEF k
<1>8. g \in Heaps /\ g.mem = k /\ g.head = h.head /\ g.tail = h.tail
  BY <1>6, <1>7 DEF Heaps
<1>9. Off(w, p)
  BY <1>1, ChainUsed DEF Off
<1>10. \A i \in 1..Len(w) : g.mem[w[i]] = h.mem[w[i]]
  BY <1>6, <1>8, <1>9, ChainAddresses DEF Off
<1>11. Chain(g, w, l)
  BY <1>8, <1>10 DEF Chain
<1>12. NewNode(g, p, m.id, m.time_out)
  BY <1>3, <1>6, <1>8 DEF NewNode
<1>13. Used(g) = Used(h) \cup {p} /\ p \notin Used(h)
  <2>1. ~ IsFree(g, p)
    BY <1>12, NewNodeUsed
  <2>2. \A a \in Addresses : a # p => g.mem[a] = h.mem[a]
    BY <1>6, <1>8
  <2> QED BY <1>1, <2>1, <2>2 DEF Used, IsFree
<1>14. Cardinality(Used(g)) = Cardinality(Used(h)) + 1
  <2>1. IsFiniteSet(Used(h))
    BY UsedFinite
  <2> QED BY <1>13, <2>1, FS_AddElement
<1> QED BY <1>1, <1>8, <1>9, <1>11, <1>12, <1>14

-------------------------------------------------------------------------------
(* UpdateList deletes the nodes DeltaTimer takes off the front, one after  *)
(* the other, and the head it sets is the head the deletions left.         *)

(* What is behind the first i of a sequence. *)
Behind(s, i) == SubSeq(s, i + 1, Len(s))

LEMMA BehindIs ==
  ASSUME NEW T, NEW s \in Seq(T), NEW i \in 0..Len(s)
  PROVE  /\ Behind(s, i) \in Seq(T) /\ Len(Behind(s, i)) = Len(s) - i
         /\ \A q \in 1..(Len(s) - i) : Behind(s, i)[q] = s[i + q]
<1> DEFINE m == i + 1  n == Len(s)
<1>1. n \in Nat /\ m \in Int /\ n \in Int /\ \A q \in m..n : s[q] \in T
  OBVIOUS
<1>2. /\ n - m + 1 = n - i /\ (IF m <= n THEN n - m + 1 ELSE 0) = n - i
      /\ \A q \in Int : m + q - 1 = i + q
  BY <1>1
<1>3. Behind(s, i) = SubSeq(s, m, n)
  BY DEF Behind
<1> HIDE DEF m
<1>4. /\ SubSeq(s, m, n) \in Seq(T) /\ Len(SubSeq(s, m, n)) = IF m <= n THEN n - m + 1 ELSE 0
      /\ \A q \in 1..(n - m + 1) : SubSeq(s, m, n)[q] = s[m + q - 1]
  BY <1>1, SubSeqProperties
<1> HIDE DEF n
<1>5. ASSUME NEW q \in 1..(n - i) PROVE Behind(s, i)[q] = s[i + q]
  <2>1. m + q - 1 = i + q
    BY <1>2
  <2>2. q \in 1..(n - m + 1)
    BY <1>2
  <2> QED BY <1>3, <1>4, <2>1, <2>2
<1>6. Behind(s, i) \in Seq(T) /\ Len(Behind(s, i)) = n - i
  BY <1>2, <1>3, <1>4
<1> QED BY <1>5, <1>6 DEF n

(* Without its first, what is behind the first i is behind the first i + 1. *)
LEMMA BehindNext ==
  ASSUME NEW T, NEW s \in Seq(T), NEW i \in 0..(Len(s) - 1)
  PROVE  RemoveAt(Behind(s, i), 1) = Behind(s, i + 1)
<1> DEFINE v == Behind(s, i)  r == RemoveAt(v, 1)  u == Behind(s, i + 1)  n == Len(s)
<1>1. n \in Nat /\ i \in 0..n /\ i + 1 \in 0..n
  OBVIOUS
<1>2. v \in Seq(T) /\ Len(v) = n - i /\ \A q \in 1..(n - i) : v[q] = s[i + q]
  BY <1>1, BehindIs
<1>3. u \in Seq(T) /\ Len(u) = n - (i + 1) /\ \A q \in 1..(n - (i + 1)) : u[q] = s[(i + 1) + q]
  <2> DEFINE k == i + 1
  <2>1. k \in 0..Len(s)
    BY <1>1
  <2> HIDE DEF k
  <2>2. /\ Behind(s, k) \in Seq(T) /\ Len(Behind(s, k)) = Len(s) - k
        /\ \A q \in 1..(Len(s) - k) : Behind(s, k)[q] = s[k + q]
    BY <2>1, BehindIs
  <2> QED BY <2>2 DEF k
<1> HIDE DEF v, u, n
<1>4. 1 \in 1..Len(v)
  BY <1>1, <1>2 DEF n
<1>5. /\ r \in Seq(T) /\ Len(r) = Len(v) - 1
      /\ \A q \in 1..(Len(v) - 1) : r[q] = IF q < 1 THEN v[q] ELSE v[q + 1]
  BY <1>2, <1>4, RemoveAtIs
<1> HIDE DEF r
<1>6. Len(r) = Len(u) /\ Len(u) \in Nat
  BY <1>1, <1>2, <1>3, <1>5
<1>7. ASSUME NEW q \in 1..Len(u) PROVE r[q] = u[q]
  <2>1. /\ q \in 1..(Len(v) - 1) /\ ~(q < 1) /\ q + 1 \in 1..(n - i)
        /\ i + (q + 1) = (i + 1) + q /\ q \in 1..(n - (i + 1))
    BY <1>1, <1>2, <1>3, <1>6
  <2>2. r[q] = v[q + 1]
    BY <1>5, <2>1
  <2>3. v[q + 1] = s[i + (q + 1)]
    BY <1>2, <2>1
  <2> QED BY <1>3, <2>1, <2>2, <2>3
<1>8. r = u
  BY <1>3, <1>5, <1>6, <1>7
<1> QED BY <1>8 DEF r, u, v

LEMMA TickedChain ==
  ASSUME heap \in Heaps, NEW w, list \in Seq(Nodes), list # <<>>, Chain(heap, w, list)
  PROVE  LET t == [heap EXCEPT !.mem[heap.head].time_out = @ - Tick]
         IN  t \in Heaps /\ Chain(t, w, Ticked) /\ Used(t) = Used(heap)
<1> DEFINE t == [heap EXCEPT !.mem[heap.head].time_out = @ - Tick]  a == w[1]
           e == [heap.mem[a] EXCEPT !.time_out = heap.mem[a].time_out - Tick]
           k == [heap.mem EXCEPT ![a] = e]
<1> SUFFICES t \in Heaps /\ Chain(t, w, Ticked) /\ Used(t) = Used(heap)
  OBVIOUS
<1>1. /\ Len(w) \in Nat /\ Len(w) = Len(list) /\ 1 \in 1..Len(w)
      /\ a \in Addresses /\ heap.mem[a] \in Cells /\ heap.mem \in [Addresses -> Cells]
      /\ \A i \in 1..Len(w) : w[i] \in Addresses
  <2>1. Len(w) \in Nat /\ Len(w) = Len(list) /\ 1 \in 1..Len(w)
    BY ChainAddresses
  <2> QED BY <2>1, ChainAddresses
<1>2. heap.head = a
  BY <1>1 DEF Chain, At
<1>3. heap.mem[a].time_out \in Int /\ Tick \in Int /\ heap.head \in Int /\ heap.tail \in Int
  BY <1>1, CellType, TimerConstants
<1>4. e \in Cells
  <2>1. heap.mem[a].time_out - Tick \in Int
    BY <1>3
  <2> QED BY <1>1, <2>1, CellWrite
<1>5. /\ e.id = heap.mem[a].id /\ e.time_out = heap.mem[a].time_out - Tick
      /\ e.prev = heap.mem[a].prev /\ e.next = heap.mem[a].next
  BY <1>1 DEF Cells
<1>6. t = [heap EXCEPT !.mem = k]
  BY <1>2
<1> HIDE DEF e, t
<1>7. /\ k \in [Addresses -> Cells] /\ k[a] = e
      /\ \A b \in Addresses : b # a => k[b] = heap.mem[b]
  BY <1>1, <1>4
<1> HIDE DEF k
<1>8. t \in Heaps /\ t.mem = k /\ t.head = heap.head /\ t.tail = heap.tail
  BY <1>6, <1>7 DEF Heaps
<1>9. /\ Ticked \in Seq(Nodes) /\ Len(Ticked) = Len(list)
      /\ \A i \in 1..Len(list) :
           /\ Ticked[i].id = list[i].id
           /\ Ticked[i].time_out = list[i].time_out + (IF i = 1 THEN -Tick ELSE 0)
  <2>1. -Tick \in Int /\ 1 \in 1..Len(list)
    BY <1>1, <1>3
  <2> QED BY <2>1, DelayIs DEF Ticked
<1>10. \A i \in 1..Len(list) : list[i].time_out \in Int
  BY NodesIn
<1>11. ASSUME NEW i \in 1..Len(w)
       PROVE  /\ t.mem[w[i]].id = Ticked[i].id /\ t.mem[w[i]].time_out = Ticked[i].time_out
              /\ t.mem[w[i]].prev = At(w, i - 1) /\ t.mem[w[i]].next = At(w, i + 1)
  <2>1. /\ heap.mem[w[i]].id = list[i].id /\ heap.mem[w[i]].time_out = list[i].time_out
        /\ heap.mem[w[i]].prev = At(w, i - 1) /\ heap.mem[w[i]].next = At(w, i + 1)
    BY DEF Chain
  <2>2. CASE i = 1
    BY <1>1, <1>3, <1>5, <1>7, <1>8, <1>9, <2>1, <2>2
  <2>3. CASE i # 1
    <3>1. w[i] \in Addresses /\ w[i] # a
      BY <1>1, <2>3 DEF Chain
    <3>2. t.mem[w[i]] = heap.mem[w[i]]
      BY <1>7, <1>8, <3>1
    <3>3. Ticked[i].time_out = list[i].time_out
      BY <1>1, <1>9, <1>10, <2>3
    <3> QED BY <1>1, <1>9, <2>1, <3>2, <3>3
  <2> QED BY <2>2, <2>3
<1>12. Chain(t, w, Ticked)
  BY <1>1, <1>8, <1>9, <1>11 DEF Chain
<1>13. Used(t) = Used(heap)
  <2>1. a \in Used(t) /\ a \in Used(heap)
    BY <1>1, <1>8, <1>12, ChainUsed
  <2> QED BY <1>7, <1>8, <2>1 DEF Used, IsFree
<1> QED BY <1>8, <1>12, <1>13

(* The heap after each of the deletions, from the heap t on, of the nodes  *)
(* of the chain w.                                                         *)
Deletes(f, t, w, k) ==
  f = [i \in 0..k |-> IF i = 0 THEN t
                      ELSE DelFromList(f[i - 1], t.mem[w[i]].id, FALSE, numPeers - (i - 1))]

LEMMA DeletesFurther ==
  ASSUME NEW t, NEW w, NEW k \in Nat, NEW f, Deletes(f, t, w, k)
  PROVE  \E g : Deletes(g, t, w, k + 1)
<1> DEFINE Del(x, i) == DelFromList(x, t.mem[w[i]].id, FALSE, numPeers - (i - 1))
           g == [i \in 0..(k + 1) |-> IF i = k + 1 THEN Del(f[k], i) ELSE f[i]]
<1>1. \A i \in 0..k : f[i] = IF i = 0 THEN t ELSE Del(f[i - 1], i)
  BY DEF Deletes
<1> HIDE DEF Del
<1>2. ASSUME NEW i \in 0..(k + 1) PROVE g[i] = IF i = 0 THEN t ELSE Del(g[i - 1], i)
  <2>1. CASE i = k + 1
    <3>1. i # 0 /\ i - 1 = k /\ k \in 0..(k + 1) /\ k # k + 1
      BY <2>1
    <3> QED BY <2>1, <3>1
  <2>2. CASE i # k + 1
    <3>1. i \in 0..k /\ (i # 0 => i - 1 \in 0..(k + 1) /\ i - 1 # k + 1)
      BY <2>2
    <3> QED BY <1>1, <2>2, <3>1
  <2> QED BY <2>1, <2>2
<1>3. g = [i \in 0..(k + 1) |-> g[i]]
  OBVIOUS
<1> HIDE DEF g
<1>4. g = [i \in 0..(k + 1) |-> IF i = 0 THEN t ELSE Del(g[i - 1], i)]
  BY <1>2, <1>3
<1> QED BY <1>4 DEF Deletes, Del

LEMMA DeletesExists ==
  ASSUME NEW t, NEW w, NEW k \in Nat
  PROVE  \E f : Deletes(f, t, w, k)
<1> DEFINE S == {i \in 0..k : \E f : Deletes(f, t, w, i)}
<1>1. 0 \in S
  <2> DEFINE f == [i \in 0..0 |-> t]
  <2>1. \A i \in 0..0 : i = 0
    OBVIOUS
  <2>2. f = [i \in 0..0 |-> IF i = 0 THEN t
                  ELSE DelFromList(f[i - 1], t.mem[w[i]].id, FALSE, numPeers - (i - 1))]
    BY <2>1
  <2> HIDE DEF f
  <2>3. Deletes(f, t, w, 0)
    BY <2>2 DEF Deletes
  <2> QED BY <2>3
<1>2. ASSUME NEW i \in 0..(k - 1), i \in S PROVE i + 1 \in S
  <2>1. i \in Nat /\ i + 1 \in 0..k
    OBVIOUS
  <2>2. PICK f : Deletes(f, t, w, i)
    BY <1>2
  <2>3. \E g : Deletes(g, t, w, i + 1)
    BY <2>1, <2>2, DeletesFurther
  <2> QED BY <2>1, <2>3
<1> HIDE DEF S
<1>3. /\ 0 \in Int /\ k \in Int /\ (0 <= k => 0 \in S)
      /\ \A i \in 0..(k - 1) : i \in S => i + 1 \in S
  BY <1>1, <1>2
<1>4. 0..k \subseteq S
  BY <1>3, StepByStep
<1>5. k \in S
  BY <1>4
<1> QED BY <1>5 DEF S

(* Deleting a node frees it, unless it is the only one of the chain v. *)
FreesOne(h, g, v) ==
  Cardinality(Used(g)) = Cardinality(Used(h)) - (IF Len(v) = 1 THEN 0 ELSE 1)

(* Deleting the first node by its number: it is the first node with it. *)
LEMMA DeletesFirst ==
  ASSUME NEW h \in Heaps, NEW v, NEW l \in Seq(Nodes), Chain(h, v, l), Len(v) # 0,
         NEW m \in Seq(Nodes), Len(m) = Len(l) - 1, \A i \in 1..Len(m) : m[i] = l[i + 1],
         NEW count, count # 0
  PROVE  LET g == DelFromList(h, l[1].id, FALSE, count)
         IN  g \in Heaps /\ Chain(g, RemoveAt(v, 1), m) /\ FreesOne(h, g, v)
<1> DEFINE n == l[1].id  g == DelFromList(h, n, FALSE, count)  j == FirstOf(l, n)
<1>1. Len(v) \in Nat /\ Len(v) = Len(l) /\ 1 \in 1..Len(l)
  BY ChainAddresses
<1>2. j = 1
  <2>1. j \in 1..Len(l) /\ \A k \in 1..(j - 1) : l[k].id # n
    BY <1>1, FirstOfIs
  <2> HIDE DEF j
  <2>2. ~(1 \in 1..(j - 1))
    BY <2>1
  <2> QED BY <2>1, <2>2
<1> HIDE DEF j
<1>3. Without(l, m, j, 0)
  <2>1. \A i \in 1..Len(m) : /\ m[i].id = l[i + 1].id
                             /\ m[i].time_out = l[i + 1].time_out + (IF i = j THEN 0 ELSE 0)
    <3>1. ASSUME NEW i \in 1..Len(m) PROVE l[i + 1].time_out \in Int
      <4>1. i + 1 \in 1..Len(l)
        BY <1>1
      <4> QED BY <4>1, NodesIn
    <3> QED BY <3>1
  <2>2. 1..(1 - 1) = {}
    OBVIOUS
  <2> QED BY <1>2, <2>1, <2>2 DEF Without
<1>4. /\ g \in Heaps /\ Chain(g, RemoveAt(v, j), m)
      /\ Used(g) = IF Len(v) = 1 THEN Used(h) ELSE Used(h) \ {v[j]}
  <2>1. \E i \in 1..Len(l) : l[i].id = n
    BY <1>1
  <2>2. Without(l, m, FirstOf(l, n), IF FALSE THEN l[FirstOf(l, n)].time_out ELSE 0)
    BY <1>3 DEF j
  <2> DEFINE carry == FALSE
  <2>3. carry \in BOOLEAN /\ g = DelFromList(h, n, carry, count)
    OBVIOUS
  <2>4. Without(l, m, FirstOf(l, n), IF carry THEN l[FirstOf(l, n)].time_out ELSE 0)
    BY <2>2
  <2> HIDE DEF n, g, carry
  <2>5. LET i == FirstOf(l, n)  x == DelFromList(h, n, carry, count)
        IN  /\ x \in Heaps /\ i \in 1..Len(v) /\ Chain(x, RemoveAt(v, i), m)
            /\ Used(x) = IF Len(v) = 1 THEN Used(h) ELSE Used(h) \ {v[i]}
    BY <2>1, <2>3, <2>4, DeletesNode
  <2> QED BY <2>3, <2>5 DEF j
<1>5. v[1] \in Used(h)
  BY <1>1, ChainUsed
<1>6. Cardinality(Used(g)) = Cardinality(Used(h)) - (IF Len(v) = 1 THEN 0 ELSE 1)
  <2>1. IsFiniteSet(Used(h)) /\ Cardinality(Used(h)) \in Nat
    BY UsedFinite
  <2>2. Cardinality(Used(h) \ {v[1]}) = Cardinality(Used(h)) - 1
    BY <1>5, <2>1, FS_RemoveElement
  <2> HIDE DEF g
  <2> QED BY <1>2, <1>4, <2>1, <2>2
<1> QED BY <1>2, <1>4, <1>6 DEF FreesOne

LEMMA DeletesInFront ==
  ASSUME NEW t \in Heaps, NEW w, NEW l \in Seq(Nodes), l # <<>>, Chain(t, w, l),
         numPeers \in Nat, numPeers >= Len(l),
         NEW k \in 0..Len(l), NEW f, Deletes(f, t, w, k)
  PROVE  /\ f[k] \in Heaps /\ Chain(f[k], Behind(w, k), Behind(l, k))
         /\ Cardinality(Used(f[k])) = Cardinality(Used(t)) - (IF k = Len(l) THEN k - 1 ELSE k)
<1> DEFINE n == Len(l)  C(x) == Cardinality(Used(x))
           P(i) == /\ f[i] \in Heaps /\ Chain(f[i], Behind(w, i), Behind(l, i))
                   /\ C(f[i]) = C(t) - (IF i = n THEN i - 1 ELSE i)
           S == {i \in 0..k : P(i)}
<1>1. /\ n \in Nat /\ n # 0 /\ Len(w) = n /\ w \in Seq(Addresses)
      /\ \A i \in 1..n : t.mem[w[i]].id = l[i].id
      /\ k \in Nat /\ k <= n
  BY ChainAddresses DEF Chain
<1>2. \A x : C(x) \in Nat
  BY UsedFinite
<1>3. \A i \in 0..n :
        /\ Behind(w, i) \in Seq(Addresses) /\ Len(Behind(w, i)) = n - i
        /\ Behind(l, i) \in Seq(Nodes) /\ Len(Behind(l, i)) = n - i
        /\ \A q \in 1..(n - i) : Behind(l, i)[q] = l[i + q]
  <2>1. ASSUME NEW i \in 0..n
        PROVE  /\ Behind(w, i) \in Seq(Addresses) /\ Len(Behind(w, i)) = n - i
               /\ Behind(l, i) \in Seq(Nodes) /\ Len(Behind(l, i)) = n - i
               /\ \A q \in 1..(n - i) : Behind(l, i)[q] = l[i + q]
    <3> DEFINE T == Addresses
    <3>1. w \in Seq(T) /\ i \in 0..Len(w)
      BY <1>1
    <3> HIDE DEF T
    <3>2. Behind(w, i) \in Seq(T) /\ Len(Behind(w, i)) = Len(w) - i
      BY <3>1, BehindIs
    <3>3. /\ Behind(l, i) \in Seq(Nodes) /\ Len(Behind(l, i)) = n - i
          /\ \A q \in 1..(n - i) : Behind(l, i)[q] = l[i + q]
      BY BehindIs
    <3> QED BY <1>1, <3>2, <3>3 DEF T
  <2> QED BY <2>1
<1>4. P(0)
  <2>1. f[0] = t
    BY <1>1 DEF Deletes
  <2>2. Behind(w, 0) = w /\ Behind(l, 0) = l
    <3>1. SubSeq(w, 1, Len(w)) = w /\ SubSeq(l, 1, Len(l)) = l
      BY <1>1, SubSeqFull
    <3> QED BY <3>1 DEF Behind
  <2>3. C(t) = C(t) - (IF 0 = n THEN 0 - 1 ELSE 0)
    BY <1>1, <1>2
  <2> QED BY <2>1, <2>2, <2>3
<1>5. ASSUME NEW i \in 0..(k - 1), P(i) PROVE P(i + 1)
  <2> DEFINE v == Behind(w, i)  r == Behind(l, i)  m == Behind(l, i + 1)
             g == DelFromList(f[i], r[1].id, FALSE, numPeers - i)
  <2>1. /\ i \in 0..n /\ i + 1 \in 0..n /\ i + 1 \in 0..k /\ i + 1 # 0 /\ (i + 1) - 1 = i
        /\ i + 1 \in 1..n /\ i # n /\ 1 \in 1..(n - i)
    BY <1>1
  <2>2. /\ v \in Seq(Addresses) /\ Len(v) = n - i
        /\ r \in Seq(Nodes) /\ Len(r) = n - i /\ \A q \in 1..(n - i) : r[q] = l[i + q]
        /\ m \in Seq(Nodes) /\ Len(m) = n - (i + 1)
        /\ \A q \in 1..(n - (i + 1)) : m[q] = l[(i + 1) + q]
    BY <1>3, <2>1
  <2>3. r[1].id = t.mem[w[i + 1]].id
    BY <1>1, <2>1, <2>2
  <2>4. f[i + 1] = g
    <3>1. f[i + 1] = DelFromList(f[(i + 1) - 1], t.mem[w[i + 1]].id, FALSE, numPeers - ((i + 1) - 1))
      BY <2>1 DEF Deletes
    <3> QED BY <2>1, <2>3, <3>1
  <2>5. RemoveAt(v, 1) = Behind(w, i + 1)
    <3> DEFINE T == Addresses
    <3>1. w \in Seq(T) /\ i \in 0..(Len(w) - 1)
      BY <1>1
    <3> HIDE DEF T
    <3> QED BY <3>1, BehindNext
  <2>6. numPeers - i # 0 /\ Len(v) # 0
    BY <1>1, <2>1, <2>2
  <2>7. Len(m) = Len(r) - 1 /\ \A q \in 1..Len(m) : m[q] = r[q + 1]
    <3>1. ASSUME NEW q \in 1..Len(m) PROVE m[q] = r[q + 1]
      <4>1. q + 1 \in 1..(n - i) /\ q \in 1..(n - (i + 1)) /\ (i + 1) + q = i + (q + 1)
        BY <1>1, <2>1, <2>2
      <4> QED BY <2>2, <4>1
    <3> QED BY <1>1, <2>1, <2>2, <3>1
  <2>8. f[i] \in Heaps /\ Chain(f[i], v, r) /\ C(f[i]) = C(t) - i
    BY <1>5, <2>1
  <2> HIDE DEF v, r, m, n
  <2>9. /\ g \in Heaps /\ Chain(g, RemoveAt(v, 1), m)
        /\ Cardinality(Used(g)) = Cardinality(Used(f[i])) - (IF Len(v) = 1 THEN 0 ELSE 1)
    <3> DEFINE x == f[i]  c == numPeers - i  d == DelFromList(x, r[1].id, FALSE, c)
    <3>1. x \in Heaps /\ Chain(x, v, r) /\ c # 0 /\ g = d
      BY <2>6, <2>8
    <3> HIDE DEF x, c, g
    <3>2. /\ x \in Heaps /\ r \in Seq(Nodes) /\ Chain(x, v, r) /\ Len(v) # 0
          /\ m \in Seq(Nodes) /\ Len(m) = Len(r) - 1 /\ \A q \in 1..Len(m) : m[q] = r[q + 1]
          /\ c # 0
      BY <2>2, <2>6, <2>7, <3>1
    <3>3. d \in Heaps
      BY <3>2, DeletesFirst
    <3>4. Chain(d, RemoveAt(v, 1), m)
      BY <3>2, DeletesFirst
    <3>5. FreesOne(x, d, v)
      BY <3>2, DeletesFirst
    <3> HIDE DEF d
    <3> QED BY <3>1, <3>3, <3>4, <3>5 DEF FreesOne, x
  <2>10. C(g) = C(t) - (IF i + 1 = n THEN (i + 1) - 1 ELSE i + 1)
    <3>1. Len(v) = 1 <=> i + 1 = n
      BY <1>1, <2>1, <2>2
    <3>2. C(t) \in Nat /\ C(f[i]) \in Nat /\ i \in Nat
      BY <1>2, <2>1
    <3> HIDE DEF C, g
    <3>3. C(g) = C(f[i]) - (IF Len(v) = 1 THEN 0 ELSE 1)
      BY <2>9 DEF C
    <3> QED BY <2>8, <3>1, <3>2, <3>3
  <2> HIDE DEF g
  <2> QED BY <2>4, <2>5, <2>9, <2>10 DEF m
<1>6. k \in S
  <2>1. /\ 0 \in Int /\ k \in Int /\ (0 <= k => 0 \in S)
        /\ \A i \in 0..(k - 1) : i \in S => i + 1 \in S
    <3> HIDE DEF P
    <3>1. \A i \in 0..(k - 1) : i + 1 \in 0..k
      BY <1>1
    <3> QED BY <1>1, <1>4, <1>5, <3>1
  <2> HIDE DEF S
  <2>2. 0..k \subseteq S
    BY <2>1, StepByStep
  <2> QED BY <1>1, <2>2
<1> QED BY <1>6

(* UpdateList: the nodes that ran out are freed, all but the last of the   *)
(* list, and what stays is the list DeltaTimer has.                        *)
LEMMA UpdatesHeap ==
  ASSUME heap \in Heaps, NEW w, list \in Seq(Nodes), list # <<>>, Chain(heap, w, list),
         numPeers \in Nat, numPeers >= Len(list)
  PROVE  LET g == UpdateHeap(heap)
         IN  /\ g \in Heaps /\ \E v : Chain(g, v, SubSeq(Ticked, RunOut + 1, Len(list)))
             /\ Cardinality(Used(g)) =
                  Cardinality(Used(heap)) - (IF RunOut = Len(list) THEN RunOut - 1 ELSE RunOut)
<1> DEFINE t == [heap EXCEPT !.mem[heap.head].time_out = @ - Tick]
           n == Len(list)
           Up(i) == /\ \A j \in 1..i : t.mem[w[j]].time_out <= 0
                    /\ i < Len(w) => t.mem[w[i + 1]].time_out > 0
           k == CHOOSE i \in 0..Len(w) : Up(i)
           f == CHOOSE d : Deletes(d, t, w, k)
           g == UpdateHeap(heap)
<1> SUFFICES /\ g \in Heaps /\ \E v : Chain(g, v, SubSeq(Ticked, RunOut + 1, Len(list)))
             /\ Cardinality(Used(g)) =
                  Cardinality(Used(heap)) - (IF RunOut = Len(list) THEN RunOut - 1 ELSE RunOut)
  OBVIOUS
<1>1. t \in Heaps /\ Chain(t, w, Ticked) /\ Used(t) = Used(heap)
  BY TickedChain
<1>2. Walk(heap) = w /\ Len(w) = n /\ n \in Nat
  BY WalkIs, ChainAddresses
<1>3. /\ Ticked \in Seq(Nodes) /\ Len(Ticked) = n /\ RunOut \in 0..n
      /\ \A i \in 1..RunOut : Ticked[i].time_out <= 0
      /\ RunOut < n => Ticked[RunOut + 1].time_out > 0
      /\ \A i \in 1..n : Ticked[i].time_out \in Int
  BY RunOutIs, NodesIn
<1>4. g = [f[k] EXCEPT !.head = IF k < Len(w) THEN w[k + 1] ELSE Null]
  BY <1>2 DEF UpdateHeap, Deletes
<1> HIDE DEF t, g
<1>5. \A i \in 1..n : t.mem[w[i]].time_out = Ticked[i].time_out
  BY <1>1, <1>2 DEF Chain
<1>6. k = RunOut
  <2>1. Up(RunOut) /\ RunOut \in 0..Len(w)
    BY <1>2, <1>3, <1>5
  <2>2. \A i \in 0..Len(w) : Up(i) => i = RunOut
    <3> SUFFICES ASSUME NEW i \in 0..n, Up(i) PROVE i = RunOut
      BY <1>2
    <3>1. \A j \in 1..i : Ticked[j].time_out <= 0
      BY <1>2, <1>5
    <3>2. i < n => Ticked[i + 1].time_out > 0
      BY <1>2, <1>5
    <3> HIDE DEF Up, n
    <3>3. ~(i < RunOut)
      BY <1>2, <1>3, <3>2
    <3>4. ~(RunOut < i)
      BY <1>2, <1>3, <3>1
    <3> QED BY <1>2, <1>3, <3>3, <3>4
  <2> HIDE DEF Up
  <2> QED BY <2>1, <2>2
<1> HIDE DEF k
<1>7. Deletes(f, t, w, k)
  <2>1. k \in Nat
    BY <1>3, <1>6
  <2> QED BY <2>1, DeletesExists
<1> HIDE DEF f
<1>8. /\ f[k] \in Heaps /\ Chain(f[k], Behind(w, k), Behind(Ticked, k))
      /\ Cardinality(Used(f[k])) = Cardinality(Used(t)) - (IF k = n THEN k - 1 ELSE k)
  <2>1. Ticked # <<>> /\ numPeers >= Len(Ticked) /\ k \in 0..Len(Ticked)
    BY <1>2, <1>3, <1>6
  <2>2. /\ f[k] \in Heaps /\ Chain(f[k], Behind(w, k), Behind(Ticked, k))
        /\ Cardinality(Used(f[k])) =
             Cardinality(Used(t)) - (IF k = Len(Ticked) THEN k - 1 ELSE k)
    BY <1>1, <1>3, <1>7, <2>1, DeletesInFront
  <2> QED BY <1>3, <2>2
<1>9. f[k].head = IF k < Len(w) THEN w[k + 1] ELSE Null
  <2> DEFINE T == Addresses
  <2>1. w \in Seq(T) /\ k \in 0..Len(w)
    BY <1>1, <1>2, <1>3, <1>6 DEF Chain
  <2> HIDE DEF T
  <2>2. /\ Len(Behind(w, k)) = Len(w) - k
        /\ \A q \in 1..(Len(w) - k) : Behind(w, k)[q] = w[k + q]
    BY <2>1, BehindIs
  <2>3. k < Len(w) => At(Behind(w, k), 1) = w[k + 1]
    BY <1>2, <2>1, <2>2 DEF At
  <2>4. ~(k < Len(w)) => At(Behind(w, k), 1) = Null
    BY <1>2, <2>1, <2>2 DEF At
  <2> QED BY <1>8, <2>3, <2>4 DEF Chain
<1>10. g = f[k]
  <2> DEFINE x == f[k]
  <2>1. x \in Heaps /\ g = [x EXCEPT !.head = x.head]
    BY <1>4, <1>8, <1>9
  <2> HIDE DEF x
  <2>2. g = x
    BY <2>1 DEF Heaps
  <2> QED BY <2>2 DEF x
<1>11. Behind(Ticked, k) = SubSeq(Ticked, RunOut + 1, Len(list))
  BY <1>3, <1>6 DEF Behind
<1> QED BY <1>1, <1>6, <1>8, <1>10, <1>11

-------------------------------------------------------------------------------
(* The invariant.                                                          *)

(* Some chain on the heap is the list, every node in use is accounted for, *)
(* and there is a node for every message that waits.  No timeout that      *)
(* waits is below 0.                                                       *)
HeapInv ==
  /\ heap \in Heaps /\ list \in Seq(Nodes) /\ \E w : Chain(heap, w, list)
  /\ numPeers \in Nat /\ numPeers >= Len(list) /\ stops \in Nat
  /\ Cardinality(Used(heap)) = numPeers + stops
  /\ inbox \in Seq([id : Ids, time_out : Nat]) /\ msgs \in 0..MaxMsgs
  /\ numPeers + stops + Len(inbox) <= msgs

LEMMA HeapMeans ==
  ASSUME HeapInv
  PROVE  ListOnHeap /\ MemoryAccounted
<1>1. PICK w : Chain(heap, w, list)
  BY DEF HeapInv
<1>2. heap \in Heaps /\ list \in Seq(Nodes)
  BY DEF HeapInv
<1>3. Walk(heap) = w /\ Contents(heap) = list /\ Len(w) \in Nat
  BY <1>1, <1>2, WalkIs, ContentsAre, ChainAddresses
<1>4. heap.tail = IF w = <<>> THEN Null ELSE Last(w)
  <2>1. heap.tail = At(w, Len(w)) /\ w \in Seq(Addresses)
    BY <1>1 DEF Chain
  <2>2. CASE w = <<>>
    <3>1. ~(Len(w) \in 1..Len(w))
      BY <2>2
    <3> QED BY <2>1, <2>2, <3>1 DEF At
  <2>3. CASE w # <<>>
    <3>1. Len(w) \in 1..Len(w)
      BY <1>3, <2>1, <2>3
    <3> QED BY <2>1, <2>3, <3>1 DEF At, Last
  <2> QED BY <2>2, <2>3
<1>5. ASSUME NEW i \in 1..Len(w)
      PROVE  ~ IsFree(heap, w[i]) /\ heap.mem[w[i]].prev = IF i = 1 THEN Null ELSE w[i - 1]
  <2>1. ~ IsFree(heap, w[i])
    BY <1>1, <1>2, ChainUsed
  <2>2. heap.mem[w[i]].prev = At(w, i - 1)
    BY <1>1 DEF Chain
  <2>3. At(w, i - 1) = IF i = 1 THEN Null ELSE w[i - 1]
    <3>1. i - 1 \in 1..Len(w) <=> i # 1
      BY <1>3
    <3> QED BY <3>1 DEF At
  <2> QED BY <2>1, <2>2, <2>3
<1>6. ListOnHeap
  BY <1>3, <1>4, <1>5 DEF ListOnHeap
<1> QED BY <1>6 DEF HeapInv, MemoryAccounted, Used

LEMMA HeapStarts ==
  ASSUME HeapInit
  PROVE  HeapInv
<1>1. /\ list = <<>> /\ numPeers = 0 /\ inbox = <<>> /\ msgs = 0 /\ stops = 0
      /\ heap = NewPeerList
  BY DEF HeapInit, Init
<1>2. heap = [mem |-> [a \in Addresses |-> FreeNode], head |-> Null, tail |-> Null]
  BY <1>1 DEF NewPeerList
<1>3. heap \in Heaps
  <2>1. [a \in Addresses |-> FreeNode] \in [Addresses -> Cells]
    BY FreeCell
  <2> QED BY <1>2, <2>1, AddressesAre, HeapOf
<1>4. heap.head = Null /\ heap.tail = Null /\ \A a \in Addresses : heap.mem[a] = FreeNode
  BY <1>2
<1>5. Chain(heap, <<>>, list)
  <2> DEFINE w == <<>>
  <2>1. w \in Seq(Addresses) /\ Len(w) = 0 /\ Len(list) = 0
    BY <1>1
  <2> HIDE DEF w
  <2>2. 1..Len(w) = {}
    BY <2>1
  <2>3. At(w, 1) = Null /\ At(w, Len(w)) = Null
    BY <2>2 DEF At
  <2>4. Chain(heap, w, list)
    BY <1>4, <2>1, <2>2, <2>3 DEF Chain
  <2> QED BY <2>4 DEF w
<1>6. Cardinality(Used(heap)) = 0
  <2>1. Used(heap) = {}
    BY <1>4 DEF Used, IsFree
  <2> QED BY <2>1, FS_EmptySet
<1>7. list \in Seq(Nodes) /\ inbox \in Seq([id : Ids, time_out : Nat]) /\ Len(list) = 0 /\ Len(inbox) = 0
  BY <1>1
<1>8. msgs \in 0..MaxMsgs
  BY <1>1, TimerConstants
<1> QED BY <1>1, <1>3, <1>5, <1>6, <1>7, <1>8 DEF HeapInv

(* The message received, and the node newPeer makes of it. *)
LEMMA Receiving ==
  ASSUME HeapInv, inbox # <<>>
  PROVE  LET r == Head(inbox)  g == NewPeer(heap, r)  p == Fresh(heap)
         IN  /\ r.id \in Ids /\ r.time_out \in Nat
             /\ Tail(inbox) \in Seq([id : Ids, time_out : Nat]) /\ Len(Tail(inbox)) = Len(inbox) - 1
             /\ g \in Heaps /\ p \in Addresses /\ NewNode(g, p, r.id, r.time_out)
             /\ \E w : Chain(g, w, list) /\ Off(w, p)
             /\ Cardinality(Used(g)) = numPeers + stops + 1
<1> DEFINE M == [id : Ids, time_out : Nat]  r == Head(inbox)  g == NewPeer(heap, r)  p == Fresh(heap)
<1> SUFFICES /\ r.id \in Ids /\ r.time_out \in Nat
             /\ Tail(inbox) \in Seq(M) /\ Len(Tail(inbox)) = Len(inbox) - 1
             /\ g \in Heaps /\ p \in Addresses /\ NewNode(g, p, r.id, r.time_out)
             /\ \E w : Chain(g, w, list) /\ Off(w, p)
             /\ Cardinality(Used(g)) = numPeers + stops + 1
  OBVIOUS
<1>1. /\ inbox \in Seq(M) /\ heap \in Heaps /\ list \in Seq(Nodes)
      /\ numPeers \in Nat /\ stops \in Nat /\ msgs \in 0..MaxMsgs
      /\ Cardinality(Used(heap)) = numPeers + stops
      /\ numPeers + stops + Len(inbox) <= msgs
  BY DEF HeapInv
<1> HIDE DEF M
<1>2. r \in M /\ Tail(inbox) \in Seq(M) /\ Len(Tail(inbox)) = Len(inbox) - 1 /\ Len(inbox) \in Nat \ {0}
  BY <1>1
<1> HIDE DEF r
<1>3. r.id \in Ids /\ r.time_out \in Nat /\ r \in Nodes
  <2>1. r.id \in Ids /\ r.time_out \in Nat
    BY <1>2 DEF M
  <2>2. M \subseteq Nodes
    BY DEF M, Nodes
  <2> QED BY <1>2, <2>1, <2>2
<1>4. Cardinality(Used(heap)) < MaxMsgs
  BY <1>1, <1>2, TimerConstants
<1>5. PICK w : Chain(heap, w, list)
  BY DEF HeapInv
<1>6. /\ g \in Heaps /\ Chain(g, w, list) /\ p \in Addresses /\ Off(w, p)
      /\ NewNode(g, p, r.id, r.time_out)
      /\ Cardinality(Used(g)) = Cardinality(Used(heap)) + 1
  BY <1>1, <1>3, <1>4, <1>5, NewPeerIs
<1> HIDE DEF g, p
<1>7. Cardinality(Used(g)) = numPeers + stops + 1
  BY <1>1, <1>6
<1> QED BY <1>2, <1>3, <1>6, <1>7

LEMMA AddKeepsHeap ==
  ASSUME HeapInv, HeapAddPeer
  PROVE  HeapInv'
<1> DEFINE r == Head(inbox)  h == NewPeer(heap, r)  p == Fresh(heap)  g == AddToList(h, p)
           m == WithPeer(list, r.id, r.time_out)
<1>1. /\ inbox # <<>> /\ r.time_out # 0 /\ list' = m /\ numPeers' = numPeers + 1
      /\ inbox' = Tail(inbox) /\ msgs' = msgs /\ heap' = g /\ stops' = stops
  BY DEF HeapAddPeer, AddPeer
<1>2. /\ heap \in Heaps /\ list \in Seq(Nodes) /\ Len(list) \in Nat /\ Len(inbox) \in Nat
      /\ numPeers \in Nat /\ numPeers >= Len(list) /\ stops \in Nat
      /\ msgs \in 0..MaxMsgs /\ numPeers + stops + Len(inbox) <= msgs
  BY DEF HeapInv
<1>3. /\ r.id \in Ids /\ r.time_out \in Nat
      /\ Tail(inbox) \in Seq([id : Ids, time_out : Nat]) /\ Len(Tail(inbox)) = Len(inbox) - 1
      /\ h \in Heaps /\ p \in Addresses /\ NewNode(h, p, r.id, r.time_out)
      /\ \E w : Chain(h, w, list) /\ Off(w, p)
      /\ Cardinality(Used(h)) = numPeers + stops + 1
  BY <1>1, Receiving
<1> HIDE DEF r, h, p
<1>4. r.time_out \in Int /\ r.time_out > 0
  BY <1>1, <1>3
<1>5. g \in Heaps /\ m \in Seq(Nodes) /\ Used(g) = Used(h) /\ \E v : Chain(g, v, m)
  <2>1. PICK w : Chain(h, w, list) /\ Off(w, p)
    BY <1>3
  <2> QED BY <1>2, <1>3, <1>4, <2>1, AddsToList
<1>6. Len(m) = Len(list) + 1
  BY <1>2, <1>3, <1>4, WithPeerInserts DEF Inserted
<1> HIDE DEF g, m
<1>7. /\ heap' \in Heaps /\ list' \in Seq(Nodes) /\ \E v : Chain(heap', v, list')
      /\ Cardinality(Used(heap')) = numPeers' + stops'
  <2>1. Cardinality(Used(heap')) = numPeers + stops + 1
    BY <1>1, <1>3, <1>5
  <2> QED BY <1>1, <1>2, <1>5, <2>1
<1>8. /\ numPeers' \in Nat /\ numPeers' >= Len(list') /\ stops' \in Nat
      /\ inbox' \in Seq([id : Ids, time_out : Nat]) /\ msgs' \in 0..MaxMsgs
      /\ numPeers' + stops' + Len(inbox') <= msgs'
  BY <1>1, <1>2, <1>3, <1>6
<1> QED BY <1>7, <1>8 DEF HeapInv, Chain, Used, IsFree

LEMMA DelKeepsHeap ==
  ASSUME HeapInv, HeapDelPeer
  PROVE  HeapInv'
<1> DEFINE r == Head(inbox)  h == NewPeer(heap, r)  n == r.id
           g == DelFromList(h, n, TRUE, numPeers)
           Found == numPeers # 0 /\ \E i \in 1..Len(list) : list[i].id = n
<1>1. /\ inbox # <<>> /\ inbox' = Tail(inbox) /\ msgs' = msgs
      /\ heap' = g /\ stops' = stops + 1
      /\ IF Found THEN list' = WithoutPeer(list, n) /\ numPeers' = CountWithout(list, 1)
                  ELSE list' = list /\ numPeers' = numPeers
  BY DEF HeapDelPeer, DelPeer
<1>2. /\ heap \in Heaps /\ list \in Seq(Nodes) /\ Len(list) \in Nat /\ Len(inbox) \in Nat
      /\ numPeers \in Nat /\ numPeers >= Len(list) /\ stops \in Nat
      /\ msgs \in 0..MaxMsgs /\ numPeers + stops + Len(inbox) <= msgs
  BY DEF HeapInv
<1>3. /\ Tail(inbox) \in Seq([id : Ids, time_out : Nat]) /\ Len(Tail(inbox)) = Len(inbox) - 1
      /\ h \in Heaps /\ \E w : Chain(h, w, list)
      /\ Cardinality(Used(h)) = numPeers + stops + 1
  BY <1>1, Receiving
<1>4. PICK w : Chain(h, w, list)
  BY <1>3
<1>5. Len(w) = Len(list)
  BY <1>4 DEF Chain
<1> HIDE DEF h, n, r
<1>6. CASE ~ Found
  <2>1. Contents(h) = list
    BY <1>2, <1>3, <1>4, ContentsAre
  <2>2. g = h
    BY <1>6, <2>1 DEF DelFromList
  <2> HIDE DEF g, Found
  <2>3. /\ heap' \in Heaps /\ list' \in Seq(Nodes) /\ \E v : Chain(heap', v, list')
        /\ Cardinality(Used(heap')) = numPeers + stops + 1
    BY <1>1, <1>2, <1>3, <1>6, <2>2
  <2>4. /\ numPeers' \in Nat /\ numPeers' >= Len(list') /\ stops' \in Nat
        /\ inbox' \in Seq([id : Ids, time_out : Nat]) /\ msgs' \in 0..MaxMsgs
        /\ numPeers' + stops' + Len(inbox') <= msgs'
        /\ numPeers + stops + 1 = numPeers' + stops'
    BY <1>1, <1>2, <1>3, <1>6
  <2> QED BY <2>3, <2>4 DEF HeapInv, Chain, Used, IsFree
<1>7. CASE Found
  <2> DEFINE m == WithoutPeer(list, n)  i == FirstOf(list, n)
  <2>1. i \in 1..Len(list) /\ m \in Seq(Nodes) /\ Inserted(m, list, i)
    BY <1>2, <1>7, FirstOfIs, WithoutPeerInserts
  <2>2. Without(list, m, i, list[i].time_out)
    BY <1>2, <1>7, StoppedIsWithout
  <2>3. /\ g \in Heaps /\ i \in 1..Len(w) /\ Chain(g, RemoveAt(w, i), m)
        /\ Used(g) = IF Len(w) = 1 THEN Used(h) ELSE Used(h) \ {w[i]}
    <3> DEFINE carry == TRUE
    <3>1. /\ carry \in BOOLEAN /\ g = DelFromList(h, n, carry, numPeers) /\ numPeers # 0
          /\ Without(list, m, i, IF carry THEN list[i].time_out ELSE 0)
      BY <1>7, <2>2
    <3> HIDE DEF carry, g
    <3>2. LET j == FirstOf(list, n)  x == DelFromList(h, n, carry, numPeers)
          IN  /\ x \in Heaps /\ j \in 1..Len(w) /\ Chain(x, RemoveAt(w, j), m)
              /\ Used(x) = IF Len(w) = 1 THEN Used(h) ELSE Used(h) \ {w[j]}
      <4>1. /\ h \in Heaps /\ list \in Seq(Nodes) /\ Chain(h, w, list)
            /\ \E j \in 1..Len(list) : list[j].id = n
            /\ carry \in BOOLEAN /\ numPeers # 0 /\ m \in Seq(Nodes)
        BY <1>2, <1>3, <1>4, <1>7, <2>1, <3>1
      <4>2. Without(list, m, FirstOf(list, n), IF carry THEN list[FirstOf(list, n)].time_out ELSE 0)
        BY <3>1
      <4> HIDE DEF m, Found
      <4> QED BY <4>1, <4>2, DeletesNode
    <3> HIDE DEF m
    <3> QED BY <3>1, <3>2
  <2>4. Len(m) = Len(list) - 1
    <3> HIDE DEF m, i
    <3>1. Len(m) \in Nat
      BY <2>1, NodesIn
    <3> QED BY <1>2, <2>1, <3>1 DEF Inserted
  <2>5. list' = m /\ numPeers' = CountWithout(list, 1)
    BY <1>1, <1>7
  <2> HIDE DEF g, m, i, Found
  <2>6. Cardinality(Used(g)) = Cardinality(Used(h)) - (IF Len(w) = 1 THEN 0 ELSE 1)
    <3>1. IsFiniteSet(Used(h)) /\ Cardinality(Used(h)) \in Nat
      BY UsedFinite
    <3>2. w[i] \in Used(h)
      BY <1>3, <1>4, <2>3, ChainUsed
    <3>3. Cardinality(Used(h) \ {w[i]}) = Cardinality(Used(h)) - 1
      BY <3>1, <3>2, FS_RemoveElement
    <3> QED BY <2>3, <3>1, <3>3
  <2>7. numPeers' = IF Len(w) = 1 THEN numPeers ELSE numPeers - 1
    BY <1>2, <1>5, <2>5 DEF CountWithout
  <2>8. numPeers' \in Nat /\ numPeers' >= Len(list) - 1
    <3>1. 1 \in 0..Len(list)
      BY <1>2, <2>1
    <3> QED BY <1>2, <2>5, <3>1, CountLeft
  <2>9. /\ heap' \in Heaps /\ list' \in Seq(Nodes) /\ \E v : Chain(heap', v, list')
        /\ Cardinality(Used(heap')) = numPeers' + stops'
    <3>1. Cardinality(Used(heap')) = (numPeers + stops + 1) - (IF Len(w) = 1 THEN 0 ELSE 1)
      <4>1. Used(heap') = Used(g)
        BY <1>1
      <4> QED BY <1>3, <2>6, <4>1
    <3>2. Cardinality(Used(heap')) = numPeers' + stops'
      <4>1. numPeers' + stops' = (numPeers + stops + 1) - (IF Len(w) = 1 THEN 0 ELSE 1)
        BY <1>1, <1>2, <2>7
      <4> QED BY <3>1, <4>1
    <3> QED BY <1>1, <2>1, <2>3, <2>5, <3>2
  <2>10. /\ numPeers' >= Len(list') /\ stops' \in Nat
         /\ inbox' \in Seq([id : Ids, time_out : Nat]) /\ msgs' \in 0..MaxMsgs
         /\ numPeers' + stops' + Len(inbox') <= msgs'
    BY <1>1, <1>2, <1>3, <2>4, <2>5, <2>7, <2>8
  <2> QED BY <2>8, <2>9, <2>10 DEF HeapInv, Chain, Used, IsFree
<1> QED BY <1>6, <1>7

LEMMA UpdateKeepsHeap ==
  ASSUME HeapInv, HeapUpdateList
  PROVE  HeapInv'
<1> DEFINE g == UpdateHeap(heap)  m == SubSeq(Ticked, RunOut + 1, Len(list))
<1>1. /\ list # <<>> /\ list' = m /\ numPeers' = CountWithout(list, RunOut)
      /\ inbox' = inbox /\ msgs' = msgs /\ heap' = g /\ stops' = stops
  BY DEF HeapUpdateList, UpdateList
<1>2. /\ heap \in Heaps /\ list \in Seq(Nodes) /\ Len(list) \in Nat /\ Len(inbox) \in Nat
      /\ numPeers \in Nat /\ numPeers >= Len(list) /\ stops \in Nat
      /\ msgs \in 0..MaxMsgs /\ numPeers + stops + Len(inbox) <= msgs
      /\ inbox \in Seq([id : Ids, time_out : Nat])
      /\ Cardinality(Used(heap)) = numPeers + stops
  BY DEF HeapInv
<1>3. PICK w : Chain(heap, w, list)
  BY DEF HeapInv
<1>4. /\ g \in Heaps /\ \E v : Chain(g, v, m)
      /\ Cardinality(Used(g)) =
           Cardinality(Used(heap)) - (IF RunOut = Len(list) THEN RunOut - 1 ELSE RunOut)
  BY <1>1, <1>2, <1>3, UpdatesHeap
<1>5. /\ Ticked \in Seq(Nodes) /\ Len(Ticked) = Len(list) /\ RunOut \in 0..Len(list)
      /\ \A i \in 1..Len(list) : Ticked[i].id = list[i].id
  BY <1>1, <1>2, RunOutIs
<1>6. m \in Seq(Nodes) /\ Len(m) = Len(list) - RunOut
  BY <1>2, <1>5, SplitArmed
<1> HIDE DEF g, m
<1>7. CountWithout(list, RunOut) \in Nat /\ CountWithout(list, RunOut) >= Len(list) - RunOut
  BY <1>2, <1>5, CountLeft
<1>8. CountWithout(list, RunOut) =
        numPeers - (IF RunOut = Len(list) THEN RunOut - 1 ELSE RunOut)
  BY DEF CountWithout
<1>9. numPeers' <= numPeers
  <2>1. RunOut = Len(list) => RunOut >= 1
    BY <1>1, <1>2
  <2> QED BY <1>1, <1>2, <1>5, <1>8, <2>1
<1>10. /\ heap' \in Heaps /\ list' \in Seq(Nodes) /\ \E v : Chain(heap', v, list')
       /\ Cardinality(Used(heap')) = numPeers' + stops'
  <2>1. Cardinality(Used(heap')) =
          (numPeers + stops) - (IF RunOut = Len(list) THEN RunOut - 1 ELSE RunOut)
    <3>1. Used(heap') = Used(g)
      BY <1>1
    <3> QED BY <1>2, <1>4, <3>1
  <2> QED BY <1>1, <1>2, <1>4, <1>5, <1>6, <1>8, <2>1
<1>11. /\ numPeers' \in Nat /\ numPeers' >= Len(list') /\ stops' \in Nat
       /\ inbox' \in Seq([id : Ids, time_out : Nat]) /\ msgs' \in 0..MaxMsgs
       /\ numPeers' + stops' + Len(inbox') <= msgs'
  BY <1>1, <1>2, <1>6, <1>7, <1>9
<1> QED BY <1>10, <1>11 DEF HeapInv, Chain, Used, IsFree

(* Every step of the process, and of tcpdc while it asks for no timeout    *)
(* below 0.                                                                *)
LEMMA TimerKeepsHeap ==
  ASSUME HeapInv, HeapTimer
  PROVE  HeapInv'
<1>1. CASE UpdateEmpty /\ UNCHANGED <<heap, stops>>
  BY <1>1 DEF UpdateEmpty, HeapInv, Chain, Used, IsFree
<1> QED BY <1>1, AddKeepsHeap, DelKeepsHeap, UpdateKeepsHeap DEF HeapTimer

LEMMA SendKeepsHeap ==
  ASSUME HeapInv, NEW n \in Ids, NEW t \in Nat, Sends(n, t), UNCHANGED <<heap, stops>>
  PROVE  HeapInv'
<1> DEFINE M == [id : Ids, time_out : Nat]
<1>1. Node(n, t) \in M
  BY DEF Node
<1>2. /\ inbox \in Seq(M) /\ msgs \in 0..MaxMsgs /\ Len(inbox) \in Nat
      /\ numPeers \in Nat /\ stops \in Nat /\ numPeers + stops + Len(inbox) <= msgs
  BY DEF HeapInv
<1>3. /\ msgs < MaxMsgs /\ inbox' = Append(inbox, Node(n, t)) /\ msgs' = msgs + 1
      /\ UNCHANGED <<list, numPeers>>
  BY DEF Sends
<1> HIDE DEF M
<1>4. inbox' \in Seq(M) /\ Len(inbox') = Len(inbox) + 1
  BY <1>1, <1>2, <1>3
<1>5. msgs' \in 0..MaxMsgs /\ numPeers' + stops' + Len(inbox') <= msgs'
  BY <1>2, <1>3, <1>4, TimerConstants
<1> QED BY <1>3, <1>4, <1>5 DEF HeapInv, Chain, Used, IsFree, M
===============================================================================
