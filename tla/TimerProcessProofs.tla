-------------------------- MODULE TimerProcessProofs --------------------------
(***************************************************************************)
(* What rto_get may return, for every sequence number and every sample,    *)
(* and the delta timer as tcpdc drives it: what is proved of a client that *)
(* asks for any timeouts holds for the ones rto_get gives it.              *)
(***************************************************************************)
EXTENDS TimerProcess, DeltaListHeapProofs

(* No sample gives the estimate 0: packet 1 has a case of its own for the  *)
(* sample 0, and for later packets the estimate is at least 9000.          *)
LEMMA EstimateNotZero ==
  ASSUME NEW m \in Int, NEW n
  PROVE  Estimate(m, n) \in Int /\ Estimate(m, n) # 0
<1>1. CASE n = 1
  BY <1>1, SMT DEF Estimate, FirstRto, Eighths
<1>2. CASE n # 1
  BY <1>2, SMT DEF Estimate, Eighths, Magnitude
<1> QED
  BY <1>1, <1>2

(* The estimate of a packet after packet 1 is 9 ms longer than the sample. *)
LEMMA EstimateMargin ==
  ASSUME NEW m \in Int, NEW n, n # 1
  PROVE  Estimate(m, n) >= (m + 9000) * Eighths
BY SMT DEF Estimate, Eighths, Magnitude

(* The estimator's two variables hold numbers, and the timeout given last  *)
(* is not 0; the messages to the timer wait in a sequence.                 *)
RtoInv ==
  /\ rto \in Int /\ rto # 0
  /\ rem_time \in Int

InboxInv == inbox \in Seq([id : Ids, time_out : Int])

LEMMA ArmKeepsRto ==
  ASSUME RtoInv, NEW n, Arm(n)
  PROVE  RtoInv' /\ rto' \in Int /\ rto' # 0
<1>1. RtoGet(n) \in Int /\ RtoGet(n) # 0
  BY EstimateNotZero DEF RtoInv, RtoGet
<1> QED
  BY <1>1 DEF Arm, RtoInv

LEMMA MeasureKeepsRto ==
  ASSUME RtoInv, Measure
  PROVE  RtoInv'
BY SampleAssumption DEF RtoInv, Measure

LEMMA SendKeepsInbox ==
  ASSUME InboxInv, NEW n \in Ids, NEW t \in Int, Sends(n, t)
  PROVE  InboxInv' /\ Last(inbox').time_out = t
<1>1. Node(n, t) \in [id : Ids, time_out : Int] /\ Node(n, t).time_out = t
  BY DEF Node
<1>2. inbox' = Append(inbox, Node(n, t))
  BY DEF Sends
<1>3. inbox' \in Seq([id : Ids, time_out : Int])
  BY <1>1, <1>2 DEF InboxInv
<1>4. Len(inbox') = Len(inbox) + 1 /\ inbox'[Len(inbox) + 1] = Node(n, t)
  BY <1>1, <1>2 DEF InboxInv
<1> QED
  BY <1>1, <1>3, <1>4 DEF InboxInv, Last

LEMMA ReceiveKeepsInbox ==
  ASSUME InboxInv, HeapTimer
  PROVE  InboxInv'
<1>1. CASE AddPeer
  BY <1>1 DEF AddPeer, InboxInv
<1>2. CASE DelPeer
  BY <1>2 DEF DelPeer, InboxInv
<1>3. CASE UpdateEmpty
  BY <1>3 DEF UpdateEmpty, InboxInv
<1>4. CASE UpdateList
  BY <1>4 DEF UpdateList, InboxInv
<1> QED
  BY <1>1, <1>2, <1>3, <1>4 DEF HeapTimer, HeapAddPeer, HeapDelPeer, HeapUpdateList

LEMMA ProcessInv == ProcessSpec => [](RtoInv /\ InboxInv)
<1>1. ProcessInit => RtoInv /\ InboxInv
  BY SMT DEF ProcessInit, HeapInit, Init, RtoInit, RtoInv, InboxInv, FirstRto, Eighths
<1>2. RtoInv /\ InboxInv /\ [ProcessNext]_processVars => (RtoInv /\ InboxInv)'
  <2> SUFFICES ASSUME RtoInv, InboxInv, [ProcessNext]_processVars
               PROVE  (RtoInv /\ InboxInv)'
    OBVIOUS
  <2>1. CASE HeapTimer /\ UNCHANGED rtoVars
    BY <2>1, ReceiveKeepsInbox DEF RtoInv, rtoVars
  <2>2. CASE ClientMeasures
    BY <2>2, MeasureKeepsRto DEF ClientMeasures, vars, InboxInv
  <2>3. ASSUME NEW n \in Ids, ClientArms(n)
        PROVE  (RtoInv /\ InboxInv)'
    BY <2>3, ArmKeepsRto, SendKeepsInbox DEF ClientArms
  <2>4. ASSUME NEW n \in Ids, ClientStops(n)
        PROVE  (RtoInv /\ InboxInv)'
    BY <2>4, MeasureKeepsRto, SendKeepsInbox DEF ClientStops
  <2>5. ASSUME NEW n \in Ids, ClientReads(n), UNCHANGED rtoVars
        PROVE  (RtoInv /\ InboxInv)'
    BY <2>5 DEF ClientReads, rtoVars, RtoInv, InboxInv
  <2>6. CASE UNCHANGED processVars
    BY <2>6 DEF processVars, heapVars, vars, rtoVars, RtoInv, InboxInv
  <2> QED
    BY <2>1, <2>2, <2>3, <2>4, <2>5, <2>6 DEF ProcessNext, Client, rtoVars
<1> QED
  BY <1>1, <1>2, PTL DEF ProcessSpec

(* Sending a packet starts its timer and never stops one: the timeout that *)
(* goes to the timer process is not the 0 that means stop, for every       *)
(* sequence number, every sample and every history of them.                *)
THEOREM ArmedNeverZero == ProcessSpec => SendingStartsTimer
<1>1. RtoInv /\ InboxInv /\ [ProcessNext]_processVars
        => [\A n \in Ids : ClientArms(n) => Last(inbox').time_out # 0]_processVars
  <2> SUFFICES ASSUME RtoInv, InboxInv, NEW n \in Ids, ClientArms(n)
               PROVE  Last(inbox').time_out # 0
    OBVIOUS
  <2>1. rto' \in Int /\ rto' # 0
    BY ArmKeepsRto DEF ClientArms
  <2> QED
    BY <2>1, SendKeepsInbox DEF ClientArms
<1> QED
  BY <1>1, ProcessInv, PTL DEF ProcessSpec, SendingStartsTimer

(* However often a packet after packet 1 is sent or resent, and whatever   *)
(* was measured before, tcpdc asks for a timer that lasts at least 9 ms    *)
(* longer than the last measured time: a reply as slow as the last one     *)
(* comes before it runs out (tcpdclient.c:298, 362; tcpd_def.h:53-60).     *)
(* Packet 1 gets the measured time itself, without a margin, and the       *)
(* header (packet 0) whatever timeout was given last: neither is covered.  *)
THEOREM EstimateCoversSample ==
  ProcessSpec => [][\A n \in Ids \ {0, 1} :
                      ClientArms(n) => Last(inbox').time_out >= (rem_time + 9000) * Eighths]_processVars
<1> DEFINE Covered == \A n \in Ids \ {0, 1} :
             ClientArms(n) => Last(inbox').time_out >= (rem_time + 9000) * Eighths
<1>1. RtoInv /\ InboxInv /\ [ProcessNext]_processVars => [Covered]_processVars
  <2> SUFFICES ASSUME RtoInv, InboxInv, NEW n \in Ids \ {0, 1}, ClientArms(n)
               PROVE  Last(inbox').time_out >= (rem_time + 9000) * Eighths
    OBVIOUS
  <2>1. rto' = Estimate(rem_time, n) /\ Sends(n, rto') /\ rto' \in Int
    BY ArmKeepsRto DEF ClientArms, Arm, RtoGet
  <2>2. Last(inbox').time_out = rto'
    BY <2>1, SendKeepsInbox
  <2>3. Estimate(rem_time, n) >= (rem_time + 9000) * Eighths
    BY EstimateMargin DEF RtoInv
  <2> QED
    BY <2>1, <2>2, <2>3
<1> HIDE DEF Covered
<1>2. ProcessSpec => [][Covered]_processVars
  BY <1>1, ProcessInv, PTL DEF ProcessSpec
<1> QED
  BY <1>2 DEF Covered

-------------------------------------------------------------------------------
(* The timer process does what DeltaTimer says.                            *)

(* The timeouts tcpdc may ask for: the first one, and every estimate from  *)
(* a sample or, before the first sample, from 0.                           *)
RtoTimeouts ==
  /\ FirstRto \in Timeouts
  /\ \A m \in Samples \cup {0}, n \in Ids : n # 0 => Estimate(m, n) \in Timeouts

RtoRange == rto \in Timeouts /\ rem_time \in Samples \cup {0}

LEMMA ArmInRange ==
  ASSUME RtoTimeouts, RtoRange, NEW n \in Ids, Arm(n)
  PROVE  RtoRange'
BY DEF RtoTimeouts, RtoRange, Arm, RtoGet

LEMMA ProcessSteps ==
  ASSUME RtoTimeouts, RtoRange, [ProcessNext]_processVars
  PROVE  RtoRange' /\ [Next]_vars
<1>1. CASE HeapTimer /\ UNCHANGED rtoVars
  <2>1. Timer
    BY <1>1 DEF HeapTimer, HeapAddPeer, HeapDelPeer, HeapUpdateList, Timer
  <2> QED BY <1>1, <2>1 DEF Next, rtoVars, RtoRange
<1>2. CASE ClientMeasures
  BY <1>2 DEF ClientMeasures, Measure, RtoRange
<1>3. ASSUME NEW n \in Ids, ClientArms(n)
      PROVE  RtoRange' /\ [Next]_vars
  <2>1. RtoRange'
    BY <1>3, ArmInRange DEF ClientArms
  <2>2. rto' \in Timeouts /\ Sends(n, rto')
    BY <1>3, <2>1 DEF ClientArms, RtoRange
  <2>3. ClientSends
    BY <2>2 DEF ClientSends
  <2> QED BY <2>1, <2>3 DEF Next
<1>4. ASSUME NEW n \in Ids, ClientStops(n)
      PROVE  RtoRange' /\ [Next]_vars
  <2>1. RtoRange'
    BY <1>4 DEF ClientStops, Measure, RtoRange
  <2>2. ClientSends
    BY <1>4 DEF ClientStops, ClientSends
  <2> QED BY <2>1, <2>2 DEF Next
<1>5. ASSUME NEW n \in Ids, ClientReads(n), UNCHANGED rtoVars
      PROVE  RtoRange' /\ [Next]_vars
  BY <1>5 DEF Next, rtoVars, RtoRange
<1>6. CASE UNCHANGED processVars
  BY <1>6 DEF processVars, heapVars, rtoVars, RtoRange
<1> QED
  BY <1>1, <1>2, <1>3, <1>4, <1>5, <1>6 DEF ProcessNext, Client

(* The process, its list on the heap and its timeouts from rto_get, takes  *)
(* only steps of DeltaTimer, whatever samples the clock gives.             *)
THEOREM ProcessIsTimer ==
  ASSUME RtoTimeouts
  PROVE  ProcessSpec => Spec
<1>1. ProcessInit => Init /\ RtoRange
  BY DEF ProcessInit, HeapInit, RtoInit, RtoRange, RtoTimeouts
<1>2. RtoRange /\ [ProcessNext]_processVars => RtoRange' /\ [Next]_vars
  BY ProcessSteps
<1> QED
  BY <1>1, <1>2, PTL DEF ProcessSpec, Spec

(* So the process keeps its types, its count of nodes covers the list,     *)
(* and no start or stop of a timer moves another.                          *)
THEOREM ProcessSafe ==
  ASSUME RtoTimeouts
  PROVE  ProcessSpec => [](TypeOK /\ CountCoversList) /\ OthersUndisturbed
BY ProcessIsTimer, TypeCorrect, CountCovers, DeadlinesKept, PTL

(* And tcpdc may rely on it: it is a set of alarms, while sockets last.    *)
THEOREM ProcessIsAlarmSet ==
  ASSUME RtoTimeouts, MaxIdle < FdLimit
  PROVE  ProcessSpec => AlarmSetSpec
BY ProcessIsTimer, ImplementsAlarmSet

-------------------------------------------------------------------------------
(* The heap of the process.                                                *)

(* The clock is not set back between a datagram and the reply to it.       *)
ClockForward == Samples \subseteq Nat

RtoPositive == rto \in Nat /\ rto > 0 /\ rem_time \in Nat

LEMMA ArmKeepsPositive ==
  ASSUME RtoPositive, NEW n, Arm(n)
  PROVE  RtoPositive'
<1>1. rem_time \in Nat /\ rto \in Nat /\ rto > 0
  BY DEF RtoPositive
<1>2. RtoGet(n) \in Nat /\ RtoGet(n) > 0
  BY <1>1, SMT DEF RtoGet, Estimate, FirstRto, Eighths, Magnitude
<1> QED BY <1>1, <1>2 DEF Arm, RtoPositive

LEMMA MeasureKeepsPositive ==
  ASSUME ClockForward, RtoPositive, Measure
  PROVE  RtoPositive'
BY DEF ClockForward, RtoPositive, Measure

LEMMA ProcessKeepsHeap ==
  ASSUME ClockForward, RtoPositive, HeapInv, [ProcessNext]_processVars
  PROVE  RtoPositive' /\ HeapInv'
<1>1. CASE HeapTimer /\ UNCHANGED rtoVars
  BY <1>1, TimerKeepsHeap DEF rtoVars, RtoPositive
<1>2. CASE ClientMeasures /\ UNCHANGED <<heap, stops>>
  BY <1>2, MeasureKeepsPositive DEF ClientMeasures, vars, HeapInv, Chain, Used, IsFree
<1>3. ASSUME NEW n \in Ids, ClientArms(n), UNCHANGED <<heap, stops>>
      PROVE  RtoPositive' /\ HeapInv'
  <2>1. RtoPositive' /\ Sends(n, rto')
    BY <1>3, ArmKeepsPositive DEF ClientArms
  <2>2. rto' \in Nat
    BY <2>1 DEF RtoPositive
  <2> QED BY <1>3, <2>1, <2>2, SendKeepsHeap
<1>4. ASSUME NEW n \in Ids, ClientStops(n), UNCHANGED <<heap, stops>>
      PROVE  RtoPositive' /\ HeapInv'
  <2>1. RtoPositive' /\ Sends(n, 0) /\ 0 \in Nat
    BY <1>4, MeasureKeepsPositive DEF ClientStops
  <2> QED BY <1>4, <2>1, SendKeepsHeap
<1>5. ASSUME NEW n \in Ids, ClientReads(n), UNCHANGED <<heap, stops, rtoVars>>
      PROVE  RtoPositive' /\ HeapInv'
  BY <1>5 DEF ClientReads, rtoVars, RtoPositive, HeapInv, Chain, Used, IsFree
<1>6. CASE UNCHANGED processVars
  BY <1>6 DEF processVars, heapVars, vars, rtoVars, RtoPositive, HeapInv, Chain, Used, IsFree
<1> QED
  BY <1>1, <1>2, <1>3, <1>4, <1>5, <1>6 DEF ProcessNext, Client

LEMMA ProcessHeap ==
  ASSUME ClockForward
  PROVE  ProcessSpec => []HeapInv
<1>1. ProcessInit => RtoPositive /\ HeapInv
  <2>1. RtoInit => RtoPositive
    BY SMT DEF RtoInit, RtoPositive, FirstRto, Eighths
  <2> QED BY <2>1, HeapStarts DEF ProcessInit
<1>2. RtoPositive /\ HeapInv /\ [ProcessNext]_processVars => (RtoPositive /\ HeapInv)'
  BY ProcessKeepsHeap
<1> QED
  BY <1>1, <1>2, PTL DEF ProcessSpec

(* The linked list on the heap is the delta list: forward links, backward  *)
(* links, head and tail agree, with the delays the list should have, and   *)
(* no link leads to a freed node, however timers are started, stopped and  *)
(* run out (timer_lib.c:110-153, 194-222, 298).  In particular             *)
(* addPeerToList never links a node with prev1 before the search has set   *)
(* it (timer_lib.c:115-141).                                               *)
THEOREM HeapCarriesList ==
  ASSUME ClockForward
  PROVE  ProcessSpec => []ListOnHeap
<1>1. HeapInv => ListOnHeap
  BY HeapMeans
<1> QED BY <1>1, ProcessHeap, PTL

(* Every node of the heap that is in use belongs to a timer of the list,   *)
(* to a timer that was the last of it, or to a message that stopped one;   *)
(* nothing else leaks and nothing is freed twice (timer.c:97-127,          *)
(* timer_lib.c:194-222).                                                   *)
THEOREM HeapAccounted ==
  ASSUME ClockForward
  PROVE  ProcessSpec => []MemoryAccounted
<1>1. HeapInv => MemoryAccounted
  BY HeapMeans
<1> QED BY <1>1, ProcessHeap, PTL
===============================================================================
