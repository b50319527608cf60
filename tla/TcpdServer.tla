------------------------------ MODULE TcpdServer ------------------------------
(***************************************************************************)
(* The receiving half: the daemon tcpds (tcpdserver.c) and the program     *)
(* ftps (ftpserver.c) that writes the file.                                *)
(*                                                                         *)
(* tcpds is one loop: receive one datagram from the troll, file it, pass   *)
(* at most ONE packet on to ftps and acknowledge it.  RecvGarbled,         *)
(* RecvAndWait, RecvAndDeliver and RecvFin are that loop body, one for     *)
(* each way through it.  RecvPacket takes the datagram as a parameter, so  *)
(* that the module is usable with a real network (module ReliableUDP); on  *)
(* its own it runs against Arrivals, any datagram the sender's window and  *)
(* the age of the network allow, intact or garbled, in any order, any      *)
(* number of times.                                                        *)
(*                                                                         *)
(* A packet's payload is determined by its sequence number, so a packet is *)
(* [seq, fin, ok], where ok says whether the CRC computed over it agrees   *)
(* with the one it carries.                                                *)
(***************************************************************************)
EXTENDS Integers, Sequences, FiniteSets

CONSTANTS
  WindowSize,  \* slots of server_window (20)
  BufSize,     \* slots of server_buffer (64)
  AckSlots,    \* slots of the ring acks (64)
  Sentinel,    \* what find_low returns for an empty window (9999)
  FinSeq,      \* sequence number of the FIN packet: packets 0..FinSeq-1 are the file
  Ahead,       \* the sender never sends a packet more than Ahead after the last delivered one
  Lag          \* the network never delivers a copy more than Lag before the next expected one

ASSUME ServerSizes ==
  /\ WindowSize \in Nat \ {0} /\ BufSize \in Nat \ {0} /\ AckSlots \in Nat \ {0}
  /\ Sentinel \in Nat /\ FinSeq \in Nat \ {0}
  /\ Ahead \in Nat /\ Lag \in Nat

VARIABLES
  server_window,  \* sequence numbers received and not yet passed to ftps, at seq % WindowSize
  server_buffer,  \* the datagrams themselves
  head,           \* the slot the next datagram is received into
  acks,           \* ring of the sequence numbers acknowledged last
  ack_pointer,    \* next slot of acks
  last_sent,      \* the last sequence number passed to ftps
  exited,         \* tcpds has called exit()
  finack,         \* request_packet.packetdata.finack, uninitialized until the FIN packet comes
  ackNet,         \* acknowledgements handed to the troll
  toFtps,         \* datagrams on the local socket to ftps, in order
  file,           \* what ftps has written: the blocks of the packets, in order
  closed          \* ftps has closed the file and exited

tcpdsVars == <<server_window, server_buffer, head, acks, ack_pointer, last_sent, exited,
              finack>>
ftpsVars  == <<file, closed>>
vars      == <<tcpdsVars, ackNet, toFtps, ftpsVars>>

-------------------------------------------------------------------------------
Free     == -1                       \* an unused entry of server_window or acks
WinSlots == 0..(WindowSize - 1)
BufSlots == 0..(BufSize - 1)
RingSlots == 0..(AckSlots - 1)

(* ftpc sets fin in the FIN packet; in the header, where it is never       *)
(* written, it is taken to be 0 here (module Startup has both values).     *)
Packet(n, ok) == [seq |-> n, fin |-> n = FinSeq, ok |-> ok]
Packets       == {Packet(n, ok) : n \in 0..FinSeq, ok \in BOOLEAN}

(* server_buffer is a zeroed global, so an unused slot claims to be packet 0. *)
ZeroPacket  == [seq |-> 0, fin |-> FALSE, ok |-> FALSE]
(* received_packet is never written: what tcpds sends of it means nothing. *)
UninitPacket == [seq |-> Free, fin |-> FALSE, ok |-> FALSE]

(* "ack" or "finack" is what tcpds means; an ordinary acknowledgement also *)
(* carries whatever its field finack happens to hold.                      *)
Ack(n)       == [kind |-> "ack", seq |-> n, copy |-> 1, finack |-> finack]
FinAck(n, c) == [kind |-> "finack", seq |-> n, copy |-> c, finack |-> TRUE]
Replies      == {Ack(n) : n \in 0..FinSeq} \cup {FinAck(n, c) : n \in 0..FinSeq, c \in {1, 2}}

-------------------------------------------------------------------------------
(* The values a search loop finds: find_low, find_low_index and            *)
(* find_low_in_buffer.  The last two return an uninitialized value when    *)
(* nothing matches: any slot.                                              *)
FindLow(win) ==
  LET present == {win[k] : k \in WinSlots} \cap 0..(Sentinel - 1)
  IN  IF present = {} THEN Sentinel ELSE CHOOSE n \in present : \A m \in present : n <= m

FindLowIndex(win, low) ==
  LET at == {k \in WinSlots : win[k] = low}
  IN  IF at = {} THEN WinSlots ELSE {k \in at : \A j \in at : j <= k}

FindLowInBuffer(buf, low) ==
  LET at == {i \in BufSlots : buf[i].seq = low}
  IN  IF at = {} THEN BufSlots ELSE {i \in at : \A j \in at : i <= j}

AlreadyAcked(n) == \E i \in RingSlots : acks[i] = n
InWindow(n)     == \E k \in WinSlots : server_window[k] = n

(* Variant, for the mutation runs: the ring acks is not consulted. *)
IsNewUnlessWaiting(p) == p.ok /\ ~InWindow(p.seq)

(* An intact packet neither acknowledged nor waiting is new. *)
IsNew(p) == p.ok /\ ~AlreadyAcked(p.seq) /\ ~InWindow(p.seq)

-------------------------------------------------------------------------------
Init ==
  /\ server_window = [k \in WinSlots |-> Free]
  /\ server_buffer = [i \in BufSlots |-> ZeroPacket]
  /\ head = 0
  /\ acks = [i \in RingSlots |-> Free]
  /\ ack_pointer = 0
  /\ last_sent = -1
  /\ exited = FALSE
  /\ finack \in BOOLEAN
  /\ ackNet = {}
  /\ toFtps = <<>>
  /\ file = <<>>
  /\ closed = FALSE

(* Variants, for the mutation runs: the window indexed modulo one slot too *)
(* few; head that does not wrap, or that never leaves its slot; every      *)
(* intact packet acknowledged on arrival; no packet acknowledged twice.    *)
WindowWithMisplaced(p) ==
  IF IsNew(p) THEN [server_window EXCEPT ![p.seq % (WindowSize - 1)] = p.seq] ELSE server_window
HeadAfterNoWrap(p)  == IF ~IsNew(p) THEN head ELSE head + 1
HeadAfterStuck(p)   == head
ReAckOnArrival(p)   == IF p.ok THEN {Ack(p.seq)} ELSE {}
ReAckNever(p)       == {}

(* Every datagram lands in slot head; only a new packet keeps the slot and *)
(* enters the window.                                                      *)
BufferWith(p) == [server_buffer EXCEPT ![head] = p]
WindowWith(p) ==
  IF IsNew(p) THEN [server_window EXCEPT ![p.seq % WindowSize] = p.seq] ELSE server_window
HeadAfter(p) ==
  IF ~IsNew(p) THEN head ELSE IF head < BufSize - 1 THEN head + 1 ELSE 0

(* A packet that is in acks was delivered: its acknowledgement was lost. *)
ReAck(p) == IF p.ok /\ AlreadyAcked(p.seq) THEN {Ack(p.seq)} ELSE {}

(* The checksums disagree: the slot is overwritten and nothing else happens. *)
RecvGarbled(p) ==
  /\ ~p.ok
  /\ server_buffer' = BufferWith(p)
  /\ UNCHANGED <<server_window, head, acks, ack_pointer, last_sent, exited, ackNet, toFtps>>

(* The lowest packet of the window is not the next one for ftps. *)
RecvAndWait(p) ==
  /\ p.ok
  /\ FindLow(WindowWith(p)) # last_sent + 1
  /\ server_buffer' = BufferWith(p)
  /\ server_window' = WindowWith(p)
  /\ head' = HeadAfter(p)
  /\ ackNet' = ackNet \cup ReAck(p)
  /\ UNCHANGED <<acks, ack_pointer, last_sent, exited, toFtps>>

(* The lowest packet is the next one: pass it on, acknowledge it, and free *)
(* its window slot.  Whatever is behind it waits for the next datagram.    *)
RecvAndDeliver(p) ==
  LET low == FindLow(WindowWith(p)) IN
  /\ p.ok
  /\ low = last_sent + 1
  /\ server_buffer' = BufferWith(p)
  /\ head' = HeadAfter(p)
  /\ \E b \in FindLowInBuffer(BufferWith(p), low), k \in FindLowIndex(WindowWith(p), low) :
       LET out == BufferWith(p)[b] IN
       /\ ~out.fin
       /\ toFtps' = Append(toFtps, out)
       /\ last_sent' = out.seq
       /\ acks' = [acks EXCEPT ![ack_pointer] = out.seq]
       /\ ack_pointer' = IF ack_pointer < AckSlots - 1 THEN ack_pointer + 1 ELSE 0
       /\ ackNet' = ackNet \cup ReAck(p) \cup {Ack(out.seq)}
       /\ server_window' = [WindowWith(p) EXCEPT ![k] = Free]
  /\ UNCHANGED exited

(* The next one is the FIN packet: pass it on with the uninitialized       *)
(* received_packet after it, send its acknowledgement twice and exit.      *)
(* After that nothing reads request_packet: finack is left as it was.      *)
RecvFin(p) ==
  LET low == FindLow(WindowWith(p)) IN
  /\ p.ok
  /\ low = last_sent + 1
  /\ server_buffer' = BufferWith(p)
  /\ head' = HeadAfter(p)
  /\ \E b \in FindLowInBuffer(BufferWith(p), low), k \in FindLowIndex(WindowWith(p), low) :
       LET out == BufferWith(p)[b] IN
       /\ out.fin
       /\ toFtps' = toFtps \o <<out, UninitPacket>>
       /\ ackNet' = ackNet \cup ReAck(p) \cup {FinAck(out.seq, 1), FinAck(out.seq, 2)}
       /\ server_window' = [WindowWith(p) EXCEPT ![k] = Free]
  /\ exited' = TRUE
  /\ UNCHANGED <<acks, ack_pointer, last_sent>>

RecvPacket(p) ==
  /\ ~exited
  /\ RecvGarbled(p) \/ RecvAndWait(p) \/ RecvAndDeliver(p) \/ RecvFin(p)
  /\ UNCHANGED <<finack, ftpsVars>>

(* What the payload of a packet is worth: its block, if it is intact. *)
Block(p) == IF p.ok THEN p.seq ELSE Free

(* ftps: write the block, or close the file and exit on FIN. *)
FtpsWrite ==
  /\ ~closed /\ toFtps # <<>> /\ ~Head(toFtps).fin
  /\ file' = Append(file, Block(Head(toFtps)))
  /\ toFtps' = Tail(toFtps)
  /\ UNCHANGED <<tcpdsVars, ackNet, closed>>

FtpsClose ==
  /\ ~closed /\ toFtps # <<>> /\ Head(toFtps).fin
  /\ closed' = TRUE
  /\ toFtps' = Tail(toFtps)
  /\ UNCHANGED <<tcpdsVars, ackNet, file>>

-------------------------------------------------------------------------------
(* The network and the sender, as far as tcpds can tell: copies of the     *)
(* packets in the sender's window and of those delivered recently.         *)
Arrivals == {p \in Packets : last_sent - Lag < p.seq /\ p.seq <= last_sent + Ahead}

(* An acknowledgement leaves for the client, or is lost on the way. *)
AcksLeave ==
  /\ \E a \in ackNet : ackNet' = ackNet \ {a}
  /\ UNCHANGED <<tcpdsVars, toFtps, ftpsVars>>

Next ==
  \/ \E p \in Arrivals : RecvPacket(p)
  \/ FtpsWrite
  \/ FtpsClose
  \/ AcksLeave

Spec == Init /\ [][Next]_vars

-------------------------------------------------------------------------------
(* Types, and the relation between head and the ring pointers and their    *)
(* arrays.                                                                 *)
TypeOK ==
  /\ server_window \in [WinSlots -> 0..FinSeq \cup {Free}]
  /\ server_buffer \in [BufSlots -> Packets \cup {ZeroPacket}]
  /\ head \in BufSlots
  /\ acks \in [RingSlots -> 0..FinSeq \cup {Free}]
  /\ ack_pointer \in RingSlots
  /\ last_sent \in -1..FinSeq
  /\ exited \in BOOLEAN
  /\ finack \in BOOLEAN
  /\ ackNet \subseteq Replies
  /\ toFtps \in Seq(Packets \cup {ZeroPacket, UninitPacket})
  /\ file \in Seq(0..FinSeq \cup {Free})
  /\ closed \in BOOLEAN

(* The file ftps writes is the file that was sent: packets 0..FinSeq-1, in *)
(* order, each once, none garbled, and it is closed only when complete -   *)
(* although the packets arrive in any order, several times, or garbled in  *)
(* the slot the next one is received into (tcpdserver.c:147-298).          *)
Transfer == INSTANCE FileTransfer WITH Source <- [i \in 1..FinSeq |-> i - 1]
TransferSpec == Transfer!Spec

(* An acknowledgement is a promise: every packet tcpds acknowledges has    *)
(* been passed to ftps, and the FIN is acknowledged only after the whole   *)
(* file (tcpdserver.c:239-288).                                            *)
AckedOnlyDelivered ==
  \A a \in ackNet :
    IF a.kind = "ack" THEN a.seq <= last_sent
    ELSE exited /\ last_sent = FinSeq - 1

(* A copy of a packet that was delivered is acknowledged again, so that a  *)
(* lost acknowledgement never leaves the client resending forever          *)
(* (tcpdserver.c:157-209).                                                 *)
DuplicateReAcked ==
  [][\A p \in Arrivals :
       p.ok /\ p.seq <= last_sent /\ RecvPacket(p) => Ack(p.seq) \in ackNet']_vars

(* The packet ftps is waiting for is passed on by the very iteration that  *)
(* receives it: nothing else in the window can be in front of it           *)
(* (tcpdserver.c:223-232).                                                 *)
NextIsDelivered ==
  [][\A p \in Arrivals :
       p.ok /\ p.seq = last_sent + 1 /\ RecvPacket(p)
         => last_sent' = last_sent + 1 \/ exited']_vars

(* A packet that waits in the window stays there until it is the one       *)
(* passed to ftps: no other packet takes its slot (tcpdserver.c:178-180).  *)
WaitingKept ==
  [][\A k \in WinSlots :
       server_window[k] # Free /\ server_window'[k] # server_window[k]
         => server_window[k] = last_sent + 1]_vars
===============================================================================
