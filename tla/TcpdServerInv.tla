----------------------------- MODULE TcpdServerInv -----------------------------
(***************************************************************************)
(* Why tcpds works: the inductive invariant of TcpdServer, for a sender    *)
(* and a network that respect the sizes of its arrays.                     *)
(*                                                                         *)
(* The packets of the window lie less than a window ahead of the last one  *)
(* delivered, so no two share a slot of server_window.  Packets 0 to       *)
(* last_sent and those in the window are the ones accepted so far, each    *)
(* in a slot of server_buffer of its own until the ring comes round; the   *)
(* ring is so much larger than the window that it never does before the    *)
(* packet is delivered.  acks holds the last deliveries, more than the age *)
(* of any copy the network can still bring.                                *)
(***************************************************************************)
EXTENDS TcpdServer

(* What the real sizes give (20, 20, 64, 64, 9999).  That the sender stays *)
(* within Ahead of the last delivered packet is true as long as tcpdc does *)
(* not overrun its own window: ReliableUDP, WithinServerWindow.            *)
ASSUME ServerFits ==
  /\ Ahead <= WindowSize      \* the sender's window is no larger than the receiver's (20, 20)
  /\ 2 * Ahead <= BufSize     \* twice that fits the buffer (40, 64)
  /\ Lag <= AckSlots          \* no copy is older than the ring of acknowledgements (64)
  /\ FinSeq < Sentinel        \* no file has as many packets as find_low can count (9999)

(* The sequence numbers in a window. *)
Values(win) == {n \in 0..FinSeq : \E k \in WinSlots : win[k] = n}

(* How many packets tcpds has accepted: delivered or waiting. *)
AcceptedWith(win) == last_sent + 1 + Cardinality(Values(win))
Accepted == AcceptedWith(server_window)

(* Waiting packets are in their own slots, ahead of what was delivered. *)
WindowGood(win) ==
  \A k \in WinSlots : win[k] # Free =>
    /\ win[k] \in (last_sent + 1)..(last_sent + Ahead)
    /\ k = win[k] % WindowSize

(* A waiting packet was the a-th accepted, not long ago, and still is where *)
(* it was put then.                                                         *)
BufferGood(win, buf) ==
  \A n \in Values(win) : \E a \in 0..(AcceptedWith(win) - 1) :
    /\ n < a + Ahead
    /\ buf[a % BufSize] = Packet(n, TRUE)

(* The slots in front of head hold what was accepted last; only the slot   *)
(* head itself, and slots not reached yet, may hold anything else.         *)
SlotsGood(win, buf, h) ==
  \A i \in BufSlots : i # h =>
    buf[i].ok \/ (buf[i] = ZeroPacket /\ AcceptedWith(win) <= i)

(* acks remembers the last AckSlots deliveries, and nothing undelivered. *)
AcksGood ==
  /\ \A i \in RingSlots : acks[i] <= last_sent
  /\ \A n \in 0..last_sent : last_sent - AckSlots < n => acks[n % AckSlots] = n
  /\ ack_pointer = (last_sent + 1) % AckSlots

(* What ftps has written, and what is under way to it, is packets 0, 1, 2, *)
(* ... with none missing.                                                  *)
StreamGood ==
  /\ Len(file) <= FinSeq
  /\ file = [i \in 1..Len(file) |-> i - 1]
  /\ ~closed => \A i \in 1..Len(toFtps) :
       Len(file) + i - 1 <= FinSeq => toFtps[i] = Packet(Len(file) + i - 1, TRUE)
  /\ ~exited => ~closed /\ Len(file) + Len(toFtps) = last_sent + 1
  /\ exited => last_sent = FinSeq - 1
  /\ closed => Len(file) = FinSeq

IInv ==
  /\ TypeOK
  /\ last_sent < FinSeq
  /\ WindowGood(server_window)
  /\ ~exited => /\ head = Accepted % BufSize
                /\ BufferGood(server_window, server_buffer)
                /\ SlotsGood(server_window, server_buffer, head)
  /\ AcksGood
  /\ StreamGood
  /\ AckedOnlyDelivered
===============================================================================
