----------------------------- MODULE DeltaListHeap -----------------------------
(***************************************************************************)
(* The delta list as timer_lib.c keeps it: nodes on the heap, linked in    *)
(* both directions.  Each action of DeltaTimer is taken together with what *)
(* the code does to the nodes, on their own values; ListOnHeap compares    *)
(* the two.                                                                *)
(*                                                                         *)
(* newPeer allocates a node for every message, also for one that stops a   *)
(* timer; that node is never freed, and neither is the last node that      *)
(* leaves the list.  malloc reuses freed nodes.                            *)
(***************************************************************************)
EXTENDS DeltaTimer

VARIABLES
  heap,   \* the nodes, and the PeerList: head, tail
  stops   \* history: how many messages that stop a timer were received

heapVars == <<vars, heap, stops>>

-------------------------------------------------------------------------------
(* NULL, and what an uninitialized pointer holds. *)
Null    == 0
Garbage == -1

(* One node for each message: the bound of the model. *)
Addresses == 1..MaxMsgs

FreeNode == [id |-> -1, time_out |-> 0, prev |-> Garbage, next |-> Garbage]
IsFree(h, a) == h.mem[a] = FreeNode

NewPeerList == [mem |-> [a \in Addresses |-> FreeNode], head |-> Null, tail |-> Null]

(* Where malloc puts the next node. *)
Fresh(h) == CHOOSE a \in Addresses : IsFree(h, a) /\ \A b \in 1..(a - 1) : ~ IsFree(h, b)

NewPeer(h, m) ==
  [h EXCEPT !.mem[Fresh(h)] = [id |-> m.id, time_out |-> m.time_out, prev |-> Null, next |-> Null]]

DelPeerAt(h, a) == [h EXCEPT !.mem[a] = FreeNode]

(* The nodes a walk along next visits, from the head to the end. *)
Walk(h) ==
  LET Behind(a) == IF a \in Addresses THEN h.mem[a].next ELSE Null
      node[i \in 1..(MaxMsgs + 1)] == IF i = 1 THEN h.head ELSE Behind(node[i - 1])
      n == CHOOSE k \in 0..(MaxMsgs + 1) :
             /\ \A i \in 1..k : node[i] \in Addresses
             /\ k <= MaxMsgs => node[k + 1] \notin Addresses
  IN  [i \in 1..n |-> node[i]]

Contents(h) ==
  LET w == Walk(h) IN [i \in 1..Len(w) |-> Node(h.mem[w[i]].id, h.mem[w[i]].time_out)]

-------------------------------------------------------------------------------
(* addPeerToList: p becomes the only node, the head, the node before temp, *)
(* or the tail.                                                            *)
AddOnly(h, p) == [mem |-> h.mem, head |-> p, tail |-> p]

AddAtHead(h, p) ==
  [mem  |-> [h.mem EXCEPT ![h.head].time_out = @ - h.mem[p].time_out,
                          ![h.head].prev = p,
                          ![p].next = h.head,
                          ![p].prev = Null],
   head |-> p, tail |-> h.tail]

(* Variant, for the mutation runs: temp is not linked back. *)
AddBeforeOneWay(h, p, temp, prev1, d) ==
  [mem  |-> [h.mem EXCEPT ![temp].time_out = @ - d,
                          ![p].time_out = d, ![p].next = temp, ![p].prev = prev1,
                          ![prev1].next = p],
   head |-> h.head, tail |-> h.tail]

AddBefore(h, p, temp, prev1, d) ==
  [mem  |-> [h.mem EXCEPT ![temp].time_out = @ - d,
                          ![temp].prev = p,
                          ![p].time_out = d,
                          ![p].next = temp,
                          ![p].prev = prev1,
                          ![prev1].next = p],
   head |-> h.head, tail |-> h.tail]

AddAtTail(h, p, d) ==
  [mem  |-> [h.mem EXCEPT ![h.tail].next = p,
                          ![p].time_out = d,
                          ![p].prev = h.tail,
                          ![p].next = Null],
   head |-> h.head, tail |-> p]

AddToList(h, p) ==
  IF h.head = Null THEN AddOnly(h, p)
  ELSE IF h.mem[p].time_out <= h.mem[h.head].time_out THEN AddAtHead(h, p)
  ELSE LET t     == h.mem[p].time_out
           l     == Contents(h)
           j     == StopAt(l, t)
           temp  == Walk(h)[j]
           prev1 == IF j = 1 THEN Garbage ELSE Walk(h)[j - 1]
           d     == t - TotalTo(l)[j]
       IN  IF h.mem[temp].next # Null \/ d < 0 THEN AddBefore(h, p, temp, prev1, d)
                                               ELSE AddAtTail(h, p, d)

-------------------------------------------------------------------------------
(* Variant, for the mutation runs: the last node is freed, not counted out. *)
DelOnlyFreeing(h) == DelPeerAt([mem |-> h.mem, head |-> Null, tail |-> Null], h.head)

(* delPeerFromList: the head leaves a list of one, or of more; the tail    *)
(* leaves, or a node between two others.  carry is true for ack = 1.       *)
DelOnly(h) == [mem |-> h.mem, head |-> Null, tail |-> Null]

Carried(h, a, carry) == IF carry THEN h.mem[a].time_out ELSE 0

DelHead(h, a, carry) ==
  LET forward == h.mem[a].next
  IN  DelPeerAt([mem  |-> [h.mem EXCEPT ![forward].time_out = @ + Carried(h, a, carry),
                                        ![forward].prev = Null],
                 head |-> forward, tail |-> h.tail], a)

DelTail(h, a, prev) ==
  DelPeerAt([mem |-> [h.mem EXCEPT ![prev].next = Null], head |-> h.head, tail |-> prev], a)

DelBetween(h, a, prev, carry) ==
  LET forward == h.mem[a].next
  IN  DelPeerAt([mem  |-> [h.mem EXCEPT ![forward].time_out = @ + Carried(h, a, carry),
                                        ![prev].next = forward,
                                        ![forward].prev = prev],
                 head |-> h.head, tail |-> h.tail], a)

(* The first node found for the packet; the count of nodes says whether to *)
(* look at all.                                                            *)
DelFromList(h, n, carry, count) ==
  LET w == Walk(h)
      l == Contents(h)
      i == FirstOf(l, n)
      a == w[i]
  IN  IF count = 0 \/ ~ \E j \in 1..Len(l) : l[j].id = n THEN h
      ELSE IF i = 1 THEN IF h.mem[a].next = Null THEN DelOnly(h) ELSE DelHead(h, a, carry)
      ELSE IF h.mem[a].next = Null THEN DelTail(h, a, w[i - 1])
      ELSE DelBetween(h, a, w[i - 1], carry)

(* UpdateList: the nodes in front whose time is up are deleted, each by    *)
(* its number, and the node the walk stopped at becomes the head.          *)
UpdateHeap(h) ==
  LET ticked == [h EXCEPT !.mem[h.head].time_out = @ - Tick]
      w      == Walk(h)
      k      == CHOOSE i \in 0..Len(w) :
                  /\ \A j \in 1..i : ticked.mem[w[j]].time_out <= 0
                  /\ i < Len(w) => ticked.mem[w[i + 1]].time_out > 0
      deleted[i \in 0..k] ==
        IF i = 0 THEN ticked
        ELSE DelFromList(deleted[i - 1], ticked.mem[w[i]].id, FALSE, numPeers - (i - 1))
  IN  [deleted[k] EXCEPT !.head = IF k < Len(w) THEN w[k + 1] ELSE Null]

-------------------------------------------------------------------------------
HeapInit == Init /\ heap = NewPeerList /\ stops = 0

(* The node of a message, and what the handler does with it. *)
HeapAddPeer ==
  /\ AddPeer
  /\ heap' = AddToList(NewPeer(heap, Head(inbox)), Fresh(heap))
  /\ UNCHANGED stops

HeapDelPeer ==
  /\ DelPeer
  /\ heap' = DelFromList(NewPeer(heap, Head(inbox)), Head(inbox).id, TRUE, numPeers)
  /\ stops' = stops + 1

HeapUpdateList == UpdateList /\ heap' = UpdateHeap(heap) /\ UNCHANGED stops

HeapTimer ==
  HeapAddPeer \/ HeapDelPeer \/ HeapUpdateList \/ (UpdateEmpty /\ UNCHANGED <<heap, stops>>)

-------------------------------------------------------------------------------
(* The linked list is the list: the chain from the head has its nodes in   *)
(* its order, with the delays the code itself computed, the links back and *)
(* the tail agree with the chain, and no link leads to a freed node        *)
(* (timer_lib.c:110-153, 194-222, 298).  In particular addPeerToList never *)
(* uses prev1 uninitialized, and its assert (timer_lib.c:106) holds.       *)
ListOnHeap ==
  LET w == Walk(heap)
  IN  /\ Contents(heap) = list
      /\ heap.tail = IF w = <<>> THEN Null ELSE Last(w)
      /\ \A i \in 1..Len(w) :
           /\ ~ IsFree(heap, w[i])
           /\ heap.mem[w[i]].prev = IF i = 1 THEN Null ELSE w[i - 1]

(* Where the memory goes: numPeers counts the nodes of timers that were    *)
(* never freed, those of the list and those that were its last when they   *)
(* left it (timer_lib.c:198-201); the rest are the nodes of messages that  *)
(* stopped a timer (timer.c:97, 111-127).  No node is freed twice.         *)
MemoryAccounted == Cardinality({a \in Addresses : ~ IsFree(heap, a)}) = numPeers + stops
===============================================================================
