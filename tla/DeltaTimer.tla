------------------------------ MODULE DeltaTimer ------------------------------
(***************************************************************************)
(* The timer process: timer.c and the delta list of timer_lib.c.           *)
(*                                                                         *)
(* The process waits 100 ms for a message from tcpdc.  A message with a    *)
(* timeout starts a timer (addPeerToList), one with timeout 0 stops the    *)
(* first timer of that packet (delPeerFromList).  Only when 100 ms pass    *)
(* without a message is the list updated (UpdateList): Tick is taken off   *)
(* the first node, and the nodes in front whose time is up are reported to *)
(* tcpdc and deleted.                                                      *)
(*                                                                         *)
(* The list holds each node's delay after the node in front of it.  Times  *)
(* are doubles except total_to, an int: a time is counted in units of      *)
(* 1/Scale, and Trunc is the conversion to int.                            *)
(***************************************************************************)
EXTENDS Integers, SequencesExt

CONSTANTS
  Ids,       \* sequence numbers
  Timeouts,  \* the timeouts tcpdc asks for (rto_get), never 0
  Tick,      \* what an update takes off the first node (10000)
  Scale,     \* units of time in 1
  FdLimit,   \* sockets UpdateList can open before socket() fails
  MaxIdle,   \* bound of the model: updates of an empty list
  MaxMsgs,   \* bound of the model: messages tcpdc sends
  MaxInbox   \* bound of the model: messages waiting on the timer's socket

ASSUME TimerConstants ==
  /\ Tick \in Nat \ {0} /\ Scale \in Nat \ {0}
  /\ Timeouts \subseteq Int \ {0}
  /\ FdLimit \in Nat /\ MaxIdle \in Nat /\ MaxMsgs \in Nat /\ MaxInbox \in Nat

VARIABLES
  list,      \* the delta list, a sequence of [id, time_out]
  numPeers,  \* its count of nodes
  fds,       \* sockets UpdateList has left open
  inbox,     \* messages of tcpdc not yet received
  expired,   \* how many reports of each packet wait for tcpdc
  msgs       \* messages tcpdc has sent

vars == <<list, numPeers, fds, inbox, expired, msgs>>

-------------------------------------------------------------------------------
Node(n, t) == [id |-> n, time_out |-> t]

(* (int) of a double: truncation toward zero. *)
Trunc(t) == IF t >= 0 THEN (t \div Scale) * Scale ELSE -(((-t) \div Scale) * Scale)

(* total_to as the search loop has it at each node. *)
TotalTo(l) ==
  LET total[i \in 1..Len(l)] == Trunc((IF i = 1 THEN 0 ELSE total[i - 1]) + l[i].time_out)
  IN  total

(* The node the search loop of addPeerToList stops at. *)
StopAt(l, t) ==
  CHOOSE j \in 1..Len(l) :
    /\ t <= TotalTo(l)[j] \/ j = Len(l)
    /\ \A i \in 1..(j - 1) : t > TotalTo(l)[i]

Delay(l, i, d) == [l EXCEPT ![i].time_out = @ + d]

(* addPeerToList. *)
WithPeer(l, n, t) ==
  IF l = <<>> THEN <<Node(n, t)>>
  ELSE IF t <= l[1].time_out THEN <<Node(n, t)>> \o Delay(l, 1, -t)
  ELSE LET j == StopAt(l, t)
           d == t - TotalTo(l)[j]
       IN  IF j < Len(l) \/ d < 0 THEN InsertAt(Delay(l, j, -d), j, Node(n, d))
                                  ELSE Append(l, Node(n, d))

FirstOf(l, n) == CHOOSE j \in 1..Len(l) : l[j].id = n /\ \A k \in 1..(j - 1) : l[k].id # n

(* Variants, for the mutation runs: a cancelled node's delay is not carried *)
(* on; a deleted node is counted out twice.                                 *)
WithoutPeerDropping(l, n) == RemoveAt(l, FirstOf(l, n))
CountWithoutTwice(l, k)   == numPeers - k - 1

(* delPeerFromList with ack = 1: the next node inherits the delay. *)
WithoutPeer(l, n) ==
  LET i == FirstOf(l, n)
  IN  RemoveAt(IF i = Len(l) THEN l ELSE Delay(l, i + 1, l[i].time_out), i)

(* numPeers when k nodes are deleted from the front, or one anywhere: the  *)
(* deletion of the last remaining node leaves the count as it is.          *)
CountWithout(l, k) == IF k = Len(l) THEN numPeers - (k - 1) ELSE numPeers - k

Armed(l) == [n \in Ids |-> Cardinality({i \in 1..Len(l) : l[i].id = n})]

-------------------------------------------------------------------------------
Init ==
  /\ list = <<>>
  /\ numPeers = 0
  /\ fds = 0
  /\ inbox = <<>>
  /\ expired = [n \in Ids |-> 0]
  /\ msgs = 0

(* A message with a timeout starts a timer. *)
AddPeer ==
  /\ inbox # <<>> /\ Head(inbox).time_out # 0
  /\ list' = WithPeer(list, Head(inbox).id, Head(inbox).time_out)
  /\ numPeers' = numPeers + 1
  /\ inbox' = Tail(inbox)
  /\ UNCHANGED <<fds, expired, msgs>>

(* Timeout 0 stops one, if peerExists finds it. *)
DelPeer ==
  /\ inbox # <<>> /\ Head(inbox).time_out = 0
  /\ inbox' = Tail(inbox)
  /\ IF numPeers # 0 /\ \E i \in 1..Len(list) : list[i].id = Head(inbox).id
     THEN /\ list' = WithoutPeer(list, Head(inbox).id)
          /\ numPeers' = CountWithout(list, 1)
     ELSE UNCHANGED <<list, numPeers>>
  /\ UNCHANGED <<fds, expired, msgs>>

(* Variants, for the mutation runs: the list does not age; only the first *)
(* node is reported.                                                      *)
TickedNot      == list
ReportFirst(k) == [n \in Ids |-> expired[n] + (IF k > 0 /\ list[1].id = n THEN 1 ELSE 0)]

(* How many nodes in front have run out after a tick. *)
Ticked      == Delay(list, 1, -Tick)
RunOut      == CHOOSE k \in 0..Len(list) :
                 /\ \A i \in 1..k : Ticked[i].time_out <= 0
                 /\ k < Len(list) => Ticked[k + 1].time_out > 0
Report(k)   == [n \in Ids |-> expired[n] + Armed(SubSeq(list, 1, k))[n]]

(* UpdateList of an empty list: the socket is opened and not closed. *)
UpdateEmpty ==
  /\ inbox = <<>> /\ list = <<>>
  /\ fds < MaxIdle
  /\ fds' = IF fds < FdLimit THEN fds + 1 ELSE fds
  /\ UNCHANGED <<list, numPeers, inbox, expired, msgs>>

(* UpdateList: the reports go through a socket of its own, which may not   *)
(* have been opened; the nodes are deleted whether sendto worked or not.   *)
UpdateList ==
  /\ inbox = <<>> /\ list # <<>>
  /\ list' = SubSeq(Ticked, RunOut + 1, Len(list))
  /\ numPeers' = CountWithout(list, RunOut)
  /\ expired' = IF fds < FdLimit THEN Report(RunOut) ELSE expired
  /\ UNCHANGED <<fds, inbox, msgs>>

-------------------------------------------------------------------------------
(* tcpdc: starts and stops timers and reads the reports. *)
Sends(n, t) ==
  /\ msgs < MaxMsgs /\ Len(inbox) < MaxInbox
  /\ inbox' = Append(inbox, Node(n, t))
  /\ msgs' = msgs + 1
  /\ UNCHANGED <<list, numPeers, fds, expired>>

ClientSends == \E n \in Ids, t \in Timeouts \cup {0} : Sends(n, t)

ClientReads(n) ==
  /\ expired[n] > 0
  /\ expired' = [expired EXCEPT ![n] = @ - 1]
  /\ UNCHANGED <<list, numPeers, fds, inbox, msgs>>

Timer == AddPeer \/ DelPeer \/ UpdateEmpty \/ UpdateList
Next  == Timer \/ ClientSends \/ \E n \in Ids : ClientReads(n)

Spec == Init /\ [][Next]_vars

(* The process loops for ever and is never blocked: select has a timeout.  *)
FairSpec == Spec /\ WF_vars(AddPeer \/ DelPeer \/ UpdateList)

-------------------------------------------------------------------------------
TypeOK ==
  /\ list \in Seq([id : Ids, time_out : Int])
  /\ numPeers \in Nat
  /\ fds \in 0..FdLimit
  /\ inbox \in Seq([id : Ids, time_out : Timeouts \cup {0}])
  /\ expired \in [Ids -> Nat]
  /\ msgs \in 0..MaxMsgs

(* numPeers overcounts - the last node leaves without being counted out -  *)
(* but never undercounts, so delPeerFromList, which gives up on a count of *)
(* 0, never refuses to delete from a list with nodes in it                 *)
(* (timer_lib.c:184-201, 223).                                             *)
CountCoversList == numPeers >= Len(list)

(* The sum of the delays up to each node. *)
Sums(l) ==
  LET sum[i \in 1..Len(l)] == (IF i = 1 THEN 0 ELSE sum[i - 1]) + l[i].time_out
  IN  sum

(* When each node of the list is due, counted from the last update. *)
Due(l) == [i \in 1..Len(l) |-> <<l[i].id, Sums(l)[i]>>]

(* Starting or stopping a timer moves no other timer's deadline, whatever  *)
(* position it had in the list (timer_lib.c:111, 130, 140, 205, 217).      *)
OthersUndisturbed ==
  [][/\ AddPeer => \E i \in 1..Len(list') : RemoveAt(Due(list'), i) = Due(list)
     /\ DelPeer /\ list' # list =>
          \E i \in 1..Len(list) : RemoveAt(Due(list), i) = Due(list')]_vars

(* Every timer ends: it runs out or is stopped, once tcpdc falls silent.   *)
EveryTimerEnds ==
  \A n \in Ids : Armed(list)[n] > 0 ~> Armed(list)[n] = 0

(* The process does what tcpdc relies on. *)
Alarms == INSTANCE AlarmSet WITH alarms <- Armed(list)
AlarmSetSpec == Alarms!Spec

(* The client is informed of every packet whose timeout has expired        *)
(* (timer_lib.c:274): what the list loses, the client is told.             *)
ExpiryReported ==
  [][UpdateList => \A n \in Ids : Armed(list)[n] - Armed(list')[n] = expired'[n] - expired[n]]_vars

(* A timer is inserted at its appropriate position (timer_lib.c:118): it   *)
(* is due when it was asked for.                                           *)
InsertedInPlace ==
  [][AddPeer => \E i \in 1..Len(list') : Due(list')[i] = <<Head(inbox).id, Head(inbox).time_out>>]_vars
===============================================================================
