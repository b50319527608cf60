---------------------------- MODULE ReliableUDPInv ----------------------------
(***************************************************************************)
(* Why the whole transfer works: the inductive invariant of ReliableUDP.   *)
(*                                                                         *)
(* tcpdc takes the packets of ftpc in order.  What it has taken is in its  *)
(* window or was passed on by tcpds, because only an acknowledgement frees *)
(* a slot, and tcpds acknowledges what it passed on.  So when the window   *)
(* is empty everything taken was passed on, and from there on tcpdc is     *)
(* never more packets ahead than its window has slots; that is what tcpds  *)
(* needs for its own invariant (TcpdServerInv), with Ahead the size of its *)
(* window and Lag the size of its ring of acknowledgements.                *)
(***************************************************************************)
EXTENDS ReliableUDP

Receiver == INSTANCE TcpdServerInv WITH
              BufSize <- ServerBuf, head <- server_head, Ahead <- WindowSize, Lag <- AckSlots

(* The sizes, and what the real ones give: 19, 20, 64, 64, 64, 9999. *)
ASSUME TransferSizes ==
  /\ WindowFront \in Nat /\ WindowSize \in Nat /\ AckSlots \in Nat \ {0}
  /\ ClientBuf \in Nat \ {0} /\ ServerBuf \in Nat \ {0}
  /\ Sentinel \in Nat /\ FinSeq \in Nat /\ FinSeq >= 2
  /\ Uninit \subseteq 0..ClientBuf /\ Uninit # {}
  /\ MaxControl \in Nat /\ MaxExpired \in Nat
  /\ WindowFront + 1 <= WindowSize  \* tcpdc's window is no larger than that of tcpds (20, 20)
  /\ 2 * WindowSize <= ServerBuf    \* twice that fits the buffer (40, 64)
  /\ FinSeq < Sentinel              \* no file has as many packets as find_low can count

-------------------------------------------------------------------------------
(* The packet tcpdc took from ftpc last.  Packets 0 to LastTaken are those *)
(* it has handed to the troll so far.                                      *)
LastTaken == next - Len(local)

Sender == INSTANCE TcpdClient WITH BufSize <- ClientBuf, net <- 0..LastTaken

(* What waits at tcpdc follows it, and as long as ftpc is not done it has  *)
(* the last block and the FIN packet still to send.                        *)
LocalInOrder ==
  /\ \A i \in 1..Len(local) : local[i] = LastTaken + i
  /\ ~ftpcDone => next <= FinSeq - 2

(* Nothing is resent, filed or passed on that was not taken, and the FIN   *)
(* packet alone is acknowledged as such.                                   *)
OnlyTaken ==
  /\ \A i \in Client!BufSlots : buffer[i] <= LastTaken
  /\ \A n \in net : n <= LastTaken
  /\ \A k \in Server!WinSlots : server_window[k] <= LastTaken
  /\ last_sent <= LastTaken
  /\ \A a \in ackNet : a.kind = "finack" => a.seq = FinSeq /\ a.seq <= LastTaken

(* What was taken is in the window or was passed on to ftps. *)
Kept ==
  \A n \in 0..LastTaken : Client!Windowed(n) \/ n <= last_sent \/ exited

(* The packets taken before the window was last empty were all passed on;  *)
(* the others lie in front of window_pointer.                              *)
WindowAhead ==
  /\ \A k \in Client!WinSlots : window[k] # Client!Free => k < window_pointer
  /\ ~exited => LastTaken <= last_sent + window_pointer

IInv ==
  /\ Client!TypeOK
  /\ Receiver!IInv
  /\ LocalInOrder
  /\ OnlyTaken
  /\ Kept
  /\ WindowAhead
  /\ DoneWhenDelivered

-------------------------------------------------------------------------------
(* What TcpdServer assumes of the packets that arrive, and TcpdClient of   *)
(* the replies, is what the other half and the troll in between do: seen   *)
(* from tcpds and ftps, the whole system is TcpdServer (tcpdserver.c:143-  *)
(* 307), and seen from ftpc and tcpdc it is TcpdClient, with what tcpdc    *)
(* has sent so far for the network (tcpdclient.c:267-459).                 *)
ReceiverSpec == Server!Spec
SenderSpec   == Sender!Spec

-------------------------------------------------------------------------------
(* The two things the code takes for granted of a run.                     *)

(* Of the packets: tcpdc is never sent more than its window has slots for  *)
(* before the window is empty again.                                       *)
NoOverrun == []Client!WindowWithinBounds

(* Of the troll: no copy of a packet is so old that its acknowledgement    *)
(* has left the ring of tcpds.                                             *)
Fresh     == \A n \in Client!Seqs, ok \in Arrival : Deliver(n, ok) => last_sent - AckSlots < n
NoOldCopy == [][Fresh]_vars
===============================================================================
