------------------------------ MODULE ReliableUDP ------------------------------
(***************************************************************************)
(* The whole transfer: TcpdClient and TcpdServer with the troll between    *)
(* them, in both directions.  The troll (an external program, known from   *)
(* the README and from how the daemons use it) drops, delays, reorders,    *)
(* garbles and, where Duplicates allows it, duplicates datagrams.          *)
(*                                                                         *)
(* net and ackNet are what the troll holds.  A datagram that is delivered  *)
(* leaves it, unless it is duplicated; a datagram of the same contents     *)
(* sent while it is there is the same datagram.                            *)
(***************************************************************************)
EXTENDS Integers, Sequences, FiniteSets

CONSTANTS
  WindowFront, WindowSize, ClientBuf, ServerBuf, AckSlots, Sentinel, FinSeq,
  Uninit, MaxControl, MaxExpired,   \* see TcpdClient
  Duplicates,   \* whether the troll may deliver a datagram any number of times
  Garbles,      \* whether it may deliver a datagram garbled
  MaxWindow,    \* bound of the model: packets tcpdc takes until its window is empty
  MaxFlight     \* bound of the model: replies the troll holds before it takes more

ASSUME TransferConstants ==
  /\ Duplicates \in BOOLEAN /\ Garbles \in BOOLEAN
  /\ MaxWindow \in Nat /\ MaxFlight \in Nat

VARIABLES
  next, ftpcDone, local, control,
  window, window_pointer, buffer, head, resendpacket, mode,
  alarms, expired, net,
  server_window, server_buffer, server_head, acks, ack_pointer, last_sent, exited,
  finack, ackNet, toFtps, file, closed

Client == INSTANCE TcpdClient WITH BufSize <- ClientBuf
Server == INSTANCE TcpdServer WITH
            BufSize <- ServerBuf, head <- server_head, Ahead <- WindowSize, Lag <- AckSlots

clientVars == <<next, ftpcDone, local, control, window, window_pointer, buffer, head,
                resendpacket, mode, alarms, expired>>
serverVars == <<server_window, server_buffer, server_head, acks, ack_pointer, last_sent,
                exited, finack, toFtps, file, closed>>
vars == <<clientVars, serverVars, net, ackNet>>

-------------------------------------------------------------------------------
Init == Client!Init /\ Server!Init

(* Whether the CRC of a delivered datagram agrees. *)
Arrival == IF Garbles THEN {TRUE, FALSE} ELSE {TRUE}

(* What the troll keeps of the datagrams ds when it delivers d. *)
Without(ds, d) == IF Duplicates THEN ds ELSE ds \ {d}

(* The troll takes more of the server. *)
RoomForReply == Cardinality(ackNet) < MaxFlight

(* The client's side alone: ftpc, tcpdc's sockets to ftpc and to the timer *)
(* process, and the timer process.                                         *)
Ftpc  == (Client!FtpcSleep \/ Client!FtpcSend) /\ UNCHANGED <<serverVars, ackNet>>
Local == window_pointer < MaxWindow /\ Client!RecvLocal /\ UNCHANGED <<serverVars, ackNet>>
Expiry(n) == Client!RecvExpiry(n) /\ UNCHANGED <<serverVars, ackNet>>
Expire(n) == Client!Expire(n) /\ UNCHANGED <<serverVars, ackNet>>

FtpsStep ==
  /\ Server!FtpsWrite \/ Server!FtpsClose
  /\ UNCHANGED <<clientVars, net>>

(* The troll delivers a packet to tcpds, intact or garbled. *)
Deliver(n, ok) ==
  /\ n \in net /\ RoomForReply
  /\ Server!RecvPacket(Server!Packet(n, ok))
  /\ net' = Without(net, n)
  /\ UNCHANGED clientVars

(* The troll delivers a reply of tcpds to tcpdc. *)
Reply(a, ok) ==
  /\ a \in ackNet
  /\ Client!RecvReply([kind |-> a.kind, seq |-> a.seq, finack |-> a.finack, ok |-> ok])
  /\ ackNet' = Without(ackNet, a)
  /\ UNCHANGED serverVars

(* The troll drops a datagram, in either direction; so does a host none of *)
(* whose programs listens any more.                                        *)
DropPacket ==
  /\ ~Duplicates
  /\ \E n \in net : net' = net \ {n}
  /\ UNCHANGED <<clientVars, serverVars, ackNet>>

DropReply ==
  /\ ~Duplicates
  /\ \E a \in ackNet : ackNet' = ackNet \ {a}
  /\ UNCHANGED <<clientVars, serverVars, net>>

Next ==
  \/ Ftpc
  \/ Local
  \/ \E n \in Client!Ids : Expiry(n) \/ Expire(n)
  \/ FtpsStep
  \/ \E n \in Client!Seqs, ok \in Arrival : Deliver(n, ok)
  \/ \E a \in ackNet, ok \in Arrival : Reply(a, ok)
  \/ DropPacket
  \/ DropReply

Spec == Init /\ [][Next]_vars

(* The programs loop for ever and every one of their sockets is served;    *)
(* every timer runs out (DeltaTimer, EveryTimerEnds).  The troll holds no  *)
(* reply for ever, and a datagram it is given again and again gets through *)
(* intact again and again: the next packet, one already delivered, and the *)
(* acknowledgement of one that tcpdc still has in its window.              *)
FairSpec ==
  /\ Spec
  /\ WF_vars(DropReply \/ \E a \in ackNet : Reply(a, TRUE))
  /\ WF_vars(Ftpc \/ Local \/ FtpsStep)
  /\ \A n \in Client!Seqs : WF_vars(Expire(n) \/ Expiry(n))
  /\ SF_vars(Deliver(last_sent + 1, TRUE))
  /\ SF_vars(\E n \in 0..last_sent : Client!Windowed(n) /\ Deliver(n, TRUE))
  /\ SF_vars(\E n \in Client!Seqs : Client!Windowed(n) /\ Reply(Server!Ack(n), TRUE))

-------------------------------------------------------------------------------
(* The transfer as its user sees it: the file grows block by block into    *)
(* the one that was sent, whatever the troll does.                         *)
Transfer == INSTANCE FileTransfer WITH Source <- [i \in 1..FinSeq |-> i - 1]
TransferSpec == Transfer!Spec

Taken(n) == n <= next /\ \A i \in 1..Len(local) : local[i] # n

(* tcpdc lets go of a packet only when ftps has it: a packet it took from  *)
(* ftpc is in its window, or was passed on by tcpds - unless more packets  *)
(* were taken than the window has slots (tcpdclient.c:282-285, 415-428).   *)
NothingForgotten ==
  mode = "run" =>
    \A n \in Client!Seqs :
      Taken(n) => Client!Windowed(n) \/ n <= last_sent \/ exited

(* tcpdc reports success only when ftps has been sent the whole file       *)
(* (tcpdclient.c:432-454, tcpdserver.c:261-290) - on the condition that    *)
(* the field finack of the ordinary acknowledgements, which tcpds never    *)
(* writes (tcpdserver.c:51), is not 1 by chance.                           *)
DoneWhenDelivered ==
  ~finack /\ mode \in {"fin", "done"} =>
    exited /\ last_sent = FinSeq - 1

(* tcpds is never sent a packet that its window has no room for beside     *)
(* those it may be waiting for (tcpdclient.c:305-321, tcpdserver.c:174-    *)
(* 180) - under the same condition.                                        *)
WithinServerWindow == \A n \in net : n <= last_sent + WindowSize

(* Whatever the troll drops or reorders, ftps ends up with the whole file, *)
(* and closes it - or tcpdc has crashed over the uninitialized             *)
(* resendpacket, or written its window beyond the end, or tcpds has sent   *)
(* acknowledgements with finack 1 by chance (README section 3 d: the file  *)
(* "is transferred to the server").                                        *)
TransferCompletes ==
  ~finack /\ []Client!WindowWithinBounds => <>(closed \/ mode = "crashed")
===============================================================================
