----------------------------- MODULE TimerProcess ------------------------------
(***************************************************************************)
(* The timer process as tcpdc drives it: DeltaTimer with its list on the   *)
(* heap, and the timeouts of Rto.  tcpdc starts a timer with the timeout   *)
(* rto_get returns and stops one with timeout 0, so that a timeout of 0    *)
(* would stop the timer it should start.                                   *)
(***************************************************************************)
EXTENDS DeltaListHeap, Rto

processVars == <<heapVars, rtoVars>>

-------------------------------------------------------------------------------
(* tcpdc sends or resends a packet. *)
ClientArms(n) == Arm(n) /\ Sends(n, rto')

(* A reply arrives: it is garbled, or stops the timer of a packet. *)
ClientMeasures   == Measure /\ UNCHANGED vars
ClientStops(n)   == Measure /\ Sends(n, 0)

ProcessInit == HeapInit /\ RtoInit

Client ==
  /\ ClientMeasures \/ \E n \in Ids : ClientArms(n) \/ ClientStops(n)
  /\ UNCHANGED <<heap, stops>>

ProcessNext ==
  \/ HeapTimer /\ UNCHANGED rtoVars
  \/ Client
  \/ \E n \in Ids : ClientReads(n) /\ UNCHANGED <<heap, stops, rtoVars>>

ProcessSpec == ProcessInit /\ [][ProcessNext]_processVars

(* The process loops for ever and is never blocked: select has a timeout.  *)
FairProcessSpec == ProcessSpec /\ WF_vars(AddPeer \/ DelPeer \/ UpdateList)

-------------------------------------------------------------------------------
(* What tcpdc asks for when it sends a packet is a timer, never the timeout *)
(* 0 that stops one, whatever it measured (tcpdclient.c:298, 362, 403;      *)
(* tcpd_def.h:45-48).                                                       *)
SendingStartsTimer ==
  [][\A n \in Ids : ClientArms(n) => Last(inbox').time_out # 0]_processVars
===============================================================================
