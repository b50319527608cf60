--------------------------- MODULE ReliableUDPProofs ---------------------------
(***************************************************************************)
(* Proofs about the whole transfer, for every size of the arrays, every    *)
(* length of the file and every bound of the model, and for a troll that   *)
(* may drop, delay, reorder, garble and duplicate.                         *)
(*                                                                         *)
(* What tcpdc and tcpds do on their own is proved in TcpdClientProofs and  *)
(* TcpdServerProofs; it is used here through the instances SP and CP.      *)
(***************************************************************************)
EXTENDS ReliableUDPInv, SequenceTheorems, TLAPS

CP == INSTANCE TcpdClientProofs WITH BufSize <- ClientBuf
SC == INSTANCE TcpdClientProofs WITH BufSize <- ClientBuf, net <- 0..LastTaken
SP == INSTANCE TcpdServerProofs WITH
        BufSize <- ServerBuf, head <- server_head, Ahead <- WindowSize, Lag <- AckSlots

-------------------------------------------------------------------------------
(* The definitions of the instances are those of the model.                *)

LEMMA SameReceiver ==
  ASSUME NEW p
  PROVE  /\ Server!RecvPacket(p) <=> SP!RecvPacket(p)
         /\ Server!FtpsWrite <=> SP!FtpsWrite
         /\ Server!FtpsClose <=> SP!FtpsClose
<1>1. /\ Server!ReAck(p) = SP!ReAck(p)
      /\ Server!WindowWith(p) = SP!WindowWith(p)
      /\ Server!BufferWith(p) = SP!BufferWith(p)
      /\ Server!HeadAfter(p) = SP!HeadAfter(p)
  BY DEF Server!ReAck, Server!WindowWith, Server!BufferWith, Server!HeadAfter,
         Server!IsNew, Server!AlreadyAcked, Server!InWindow, Server!Ack,
         Server!RingSlots, Server!WinSlots,
         SP!ReAck, SP!WindowWith, SP!BufferWith, SP!HeadAfter,
         SP!IsNew, SP!AlreadyAcked, SP!InWindow, SP!Ack, SP!RingSlots, SP!WinSlots
<1>2. \A w, low : /\ Server!FindLow(w) = SP!FindLow(w)
                  /\ Server!FindLowIndex(w, low) = SP!FindLowIndex(w, low)
                  /\ Server!FindLowInBuffer(w, low) = SP!FindLowInBuffer(w, low)
  BY DEF Server!FindLow, Server!FindLowIndex, Server!FindLowInBuffer,
         Server!WinSlots, Server!BufSlots,
         SP!FindLow, SP!FindLowIndex, SP!FindLowInBuffer, SP!WinSlots, SP!BufSlots
<1>3. Server!RecvGarbled(p) <=> SP!RecvGarbled(p)
  BY <1>1 DEF Server!RecvGarbled, SP!RecvGarbled
<1>4. Server!RecvAndWait(p) <=> SP!RecvAndWait(p)
  BY <1>1, <1>2 DEF Server!RecvAndWait, SP!RecvAndWait
<1>5. Server!RecvAndDeliver(p) <=> SP!RecvAndDeliver(p)
  BY <1>1, <1>2 DEF Server!RecvAndDeliver, Server!Ack, Server!Free,
                    SP!RecvAndDeliver, SP!Ack, SP!Free
<1>6. Server!RecvFin(p) <=> SP!RecvFin(p)
  BY <1>1, <1>2 DEF Server!RecvFin, Server!FinAck, Server!Free, Server!UninitPacket,
                    SP!RecvFin, SP!FinAck, SP!Free, SP!UninitPacket
<1>7. Server!RecvPacket(p) <=> SP!RecvPacket(p)
  BY <1>3, <1>4, <1>5, <1>6 DEF Server!RecvPacket, Server!ftpsVars, SP!RecvPacket, SP!ftpsVars
<1>8. (Server!FtpsWrite <=> SP!FtpsWrite) /\ (Server!FtpsClose <=> SP!FtpsClose)
  BY DEF Server!FtpsWrite, Server!FtpsClose, Server!tcpdsVars, Server!ftpsVars,
         Server!Block, Server!Free,
         SP!FtpsWrite, SP!FtpsClose, SP!tcpdsVars, SP!ftpsVars, SP!Block, SP!Free
<1> QED BY <1>7, <1>8

LEMMA SameReceiverInv == Receiver!IInv <=> SP!IInv
<1>1. Receiver!TypeOK <=> SP!TypeOK
  BY DEF Receiver!TypeOK, Receiver!WinSlots, Receiver!BufSlots, Receiver!RingSlots,
         Receiver!Free, Receiver!Packets, Receiver!Packet, Receiver!ZeroPacket,
         Receiver!UninitPacket, Receiver!Replies, Receiver!Ack, Receiver!FinAck,
         SP!TypeOK, SP!WinSlots, SP!BufSlots, SP!RingSlots,
         SP!Free, SP!Packets, SP!Packet, SP!ZeroPacket,
         SP!UninitPacket, SP!Replies, SP!Ack, SP!FinAck
<1>2. \A w : Receiver!Values(w) = SP!Values(w)
  BY DEF Receiver!Values, Receiver!WinSlots, SP!Values, SP!WinSlots
<1>3. \A w : Receiver!AcceptedWith(w) = SP!AcceptedWith(w)
  BY <1>2 DEF Receiver!AcceptedWith, Receiver!Cardinality, SP!AcceptedWith, SP!Cardinality
<1>4. /\ \A w : Receiver!WindowGood(w) <=> SP!WindowGood(w)
      /\ \A w, b : Receiver!BufferGood(w, b) <=> SP!BufferGood(w, b)
      /\ \A w, b, h : Receiver!SlotsGood(w, b, h) <=> SP!SlotsGood(w, b, h)
  BY <1>2, <1>3
     DEF Receiver!WindowGood, Receiver!BufferGood, Receiver!SlotsGood, Receiver!WinSlots,
         Receiver!BufSlots, Receiver!Free, Receiver!Packet, Receiver!ZeroPacket,
         SP!WindowGood, SP!BufferGood, SP!SlotsGood, SP!WinSlots,
         SP!BufSlots, SP!Free, SP!Packet, SP!ZeroPacket
<1>5. (Receiver!AcksGood <=> SP!AcksGood) /\ (Receiver!StreamGood <=> SP!StreamGood)
      /\ (Receiver!AckedOnlyDelivered <=> SP!AckedOnlyDelivered)
  BY DEF Receiver!AcksGood, Receiver!RingSlots, Receiver!StreamGood, Receiver!Packet,
         Receiver!AckedOnlyDelivered,
         SP!AcksGood, SP!RingSlots, SP!StreamGood, SP!Packet, SP!AckedOnlyDelivered
<1> QED BY <1>1, <1>3, <1>4, <1>5 DEF Receiver!IInv, Receiver!Accepted, SP!IInv, SP!Accepted

LEMMA SameClientType == Client!TypeOK <=> CP!TypeOK
  BY DEF Client!TypeOK, Client!Seqs, Client!Ids, Client!Free, Client!Go, Client!Stop,
         Client!WinSlots, Client!BufSlots, Client!OutOfBuffer,
         CP!TypeOK, CP!Seqs, CP!Ids, CP!Free, CP!Go, CP!Stop,
         CP!WinSlots, CP!BufSlots, CP!OutOfBuffer

-------------------------------------------------------------------------------
(* What the other modules prove, in terms of this one.                     *)

(* Acknowledgements leave for the client, or are lost. *)
LEMMA ReceiverStill ==
  ASSUME Receiver!IInv, UNCHANGED serverVars, ackNet' \subseteq ackNet
  PROVE  Receiver!IInv'
<1>1. UNCHANGED <<SP!tcpdsVars, toFtps, SP!ftpsVars>>
  BY DEF serverVars, SP!tcpdsVars, SP!ftpsVars
<1>2. SP!IInv
  BY SameReceiverInv
<1>3. SP!IInv'
  BY <1>1, <1>2, SP!StillStep, TransferSizes
<1>4. Receiver!IInv' <=> SP!IInv'
  BY SameReceiverInv, PTL
<1> QED BY <1>3, <1>4

(* What the invariant of tcpds and ftps says that the transfer relies on. *)
LEMMA ReceiverFacts ==
  ASSUME Receiver!IInv
  PROVE  /\ last_sent \in -1..(FinSeq - 1) /\ exited \in BOOLEAN
         /\ exited => last_sent = FinSeq - 1
<1>1. /\ last_sent \in -1..FinSeq /\ last_sent < FinSeq /\ exited \in BOOLEAN
      /\ exited => last_sent = FinSeq - 1
  BY DEF Receiver!IInv, Receiver!TypeOK, Receiver!StreamGood
<1> QED BY <1>1, TransferSizes

LEMMA AckFacts ==
  ASSUME Receiver!IInv, NEW a \in ackNet
  PROVE  /\ a.kind \in {"ack", "finack"} /\ a.seq \in 0..FinSeq /\ a.finack \in BOOLEAN
         /\ a.kind = "ack" => a.seq <= last_sent /\ a.finack = finack
         /\ a.kind = "finack" => a.finack = TRUE /\ exited /\ last_sent = FinSeq - 1
<1>1. /\ a.kind \in {"ack", "finack"} /\ a.seq \in 0..FinSeq /\ a.finack \in BOOLEAN
      /\ a.kind = "ack" => a.finack = finack
      /\ a.kind = "finack" => a.finack = TRUE
  <2>1. a \in Receiver!Replies /\ finack \in BOOLEAN
    BY DEF Receiver!IInv, Receiver!TypeOK
  <2>2. CASE \E n \in 0..FinSeq : a = Receiver!Ack(n)
    BY <2>1, <2>2 DEF Receiver!Ack
  <2>3. CASE \E n \in 0..FinSeq, c \in {1, 2} : a = Receiver!FinAck(n, c)
    BY <2>3 DEF Receiver!FinAck
  <2>4. \/ \E n \in 0..FinSeq : a = Receiver!Ack(n)
        \/ \E n \in 0..FinSeq, c \in {1, 2} : a = Receiver!FinAck(n, c)
    BY <2>1 DEF Receiver!Replies
  <2> QED BY <2>2, <2>3, <2>4
<1>2. IF a.kind = "ack" THEN a.seq <= last_sent ELSE exited /\ last_sent = FinSeq - 1
  BY DEF Receiver!IInv, Receiver!AckedOnlyDelivered
<1> QED BY <1>1, <1>2

(* A packet that tcpdc may have sent, and that is not too old, is one that *)
(* tcpds copes with.                                                       *)
LEMMA ReceiverRecv ==
  ASSUME Receiver!IInv, NEW n \in 0..FinSeq, NEW ok \in BOOLEAN,
         n <= last_sent + WindowSize, last_sent - AckSlots < n,
         Server!RecvPacket(Server!Packet(n, ok)),
         NEW b \in Int, n <= b, last_sent <= b, \A k \in Server!WinSlots : server_window[k] <= b
  PROVE  /\ Receiver!IInv' /\ UNCHANGED <<file, closed, finack>>
         /\ ~exited /\ last_sent' \in {last_sent, last_sent + 1}
         /\ \A k \in Server!WinSlots : server_window'[k] <= b
         /\ last_sent' <= b
         /\ \A a \in ackNet' : a.kind = "finack" => a \in ackNet \/ (a.seq = FinSeq /\ FinSeq <= b)
<1> DEFINE p == SP!Packet(n, ok)
<1>1. p \in SP!Arrivals
  <2>1. p \in SP!Packets
    BY DEF SP!Packets
  <2>2. p.seq = n
    BY DEF SP!Packet
  <2> QED BY <2>1, <2>2 DEF SP!Arrivals
<1>2. SP!RecvPacket(p) /\ SP!IInv
  <2>1. Server!Packet(n, ok) = p
    BY DEF Server!Packet, SP!Packet
  <2> HIDE DEF p
  <2> QED BY <2>1, SameReceiver, SameReceiverInv
<1> HIDE DEF p
<1>3. SP!IInv'
  BY <1>1, <1>2, SP!IInvStep, TransferSizes DEF SP!Next
<1>4. ~exited /\ last_sent' \in {last_sent, last_sent + 1}
  BY <1>1, <1>2, SP!RecvMoves, TransferSizes
<1>5. UNCHANGED <<file, closed, finack>>
  BY <1>2 DEF SP!RecvPacket, SP!ftpsVars
<1>6. Receiver!IInv' <=> SP!IInv'
  BY SameReceiverInv, PTL
<1>7. /\ \A k \in SP!WinSlots : server_window'[k] <= b
      /\ last_sent' <= b
      /\ \A a \in ackNet' : a.kind = "finack" => a \in ackNet \/ (a.seq = FinSeq /\ FinSeq <= b)
  <2>1. p.seq <= b
    BY DEF p, SP!Packet
  <2>2. \A k \in SP!WinSlots : server_window[k] <= b
    BY DEF Server!WinSlots, SP!WinSlots
  <2> QED BY <1>1, <1>2, <2>1, <2>2, SP!RecvWithin, TransferSizes
<1>8. \A k \in Server!WinSlots : server_window'[k] <= b
  BY <1>7 DEF Server!WinSlots, SP!WinSlots
<1> QED BY <1>3, <1>4, <1>5, <1>6, <1>7, <1>8

(* ftps writes a block or closes the file. *)
LEMMA ReceiverFtps ==
  ASSUME Receiver!IInv, Server!FtpsWrite \/ Server!FtpsClose
  PROVE  /\ Receiver!IInv' /\ Transfer!Next
         /\ UNCHANGED <<server_window, last_sent, exited, finack, ackNet>>
<1>1. SP!IInv /\ (SP!FtpsWrite \/ SP!FtpsClose)
  BY SameReceiver, SameReceiverInv
<1>2. SP!IInv'
  BY <1>1, SP!IInvStep, TransferSizes DEF SP!Next
<1>3. UNCHANGED <<server_window, last_sent, exited, finack, ackNet>>
  BY <1>1 DEF SP!FtpsWrite, SP!FtpsClose, SP!tcpdsVars
<1>4. SP!Transfer!Write \/ SP!Transfer!Close
  BY <1>1, SP!WriteIsWrite, SP!CloseIsClose, TransferSizes
<1>5. Transfer!Next
  BY <1>4 DEF SP!Transfer!Write, SP!Transfer!Close, Transfer!Next, Transfer!Write, Transfer!Close
<1>6. Receiver!IInv' <=> SP!IInv'
  BY SameReceiverInv, PTL
<1> QED BY <1>2, <1>3, <1>5, <1>6

LEMMA SameClient ==
  ASSUME NEW a
  PROVE  /\ Client!FtpcSleep <=> CP!FtpcSleep
         /\ Client!FtpcSend <=> CP!FtpcSend
         /\ Client!RecvLocal <=> CP!RecvLocal
         /\ Client!RecvExpiry(a) <=> CP!RecvExpiry(a)
         /\ Client!RecvReply(a) <=> CP!RecvReply(a)
         /\ Client!Expire(a) <=> CP!Expire(a)
         /\ Client!FindResend(a) = CP!FindResend(a)
<1>1. \A bag, n : Client!Plus(bag, n) = CP!Plus(bag, n) /\ Client!Minus(bag, n) = CP!Minus(bag, n)
  BY DEF Client!Plus, Client!Minus, CP!Plus, CP!Minus
<1>2. \A msg : Client!Signal(msg) = CP!Signal(msg)
  BY DEF Client!Signal, CP!Signal
<1>3. /\ \A w : Client!WindowEmpty(w) <=> CP!WindowEmpty(w)
      /\ \A n : Client!WindowWith(n) = CP!WindowWith(n)
  BY DEF Client!WindowEmpty, Client!WindowWith, Client!WinSlots, Client!Free,
         CP!WindowEmpty, CP!WindowWith, CP!WinSlots, CP!Free
<1>4. Client!FindResend(a) = CP!FindResend(a)
  BY DEF Client!FindResend, Client!Windowed, Client!BufSlots, Client!WinSlots, Client!Free,
         CP!FindResend, CP!Windowed, CP!BufSlots, CP!WinSlots, CP!Free
<1>5. (Client!FtpcSleep <=> CP!FtpcSleep) /\ (Client!FtpcSend <=> CP!FtpcSend)
  BY DEF Client!FtpcSleep, Client!FtpcSend, Client!Go, Client!Stop, Client!ftpcVars,
         Client!tcpdcVars, Client!timerVars,
         CP!FtpcSleep, CP!FtpcSend, CP!Go, CP!Stop, CP!ftpcVars, CP!tcpdcVars, CP!timerVars
<1>6. Client!RecvLocal <=> CP!RecvLocal
  BY <1>1, <1>2, <1>3
     DEF Client!RecvLocal, Client!HeadNext, Client!Full, Client!Go, Client!Stop, Client!ftpcVars,
         CP!RecvLocal, CP!HeadNext, CP!Full, CP!Go, CP!Stop, CP!ftpcVars
<1>7. Client!RecvExpiry(a) <=> CP!RecvExpiry(a)
  BY <1>1, <1>4
     DEF Client!RecvExpiry, Client!OutOfBuffer, Client!Free, Client!ftpcVars,
         CP!RecvExpiry, CP!OutOfBuffer, CP!Free, CP!ftpcVars
<1>8. Client!RecvReply(a) <=> CP!RecvReply(a)
  <2>1. Client!RecvAck(a) <=> CP!RecvAck(a)
    BY <1>1, <1>2, <1>3
       DEF Client!RecvAck, Client!Cleared, Client!Emptied, Client!WinSlots, Client!Free, Client!Go,
           CP!RecvAck, CP!Cleared, CP!Emptied, CP!WinSlots, CP!Free, CP!Go
  <2>2. Client!RecvFinAgain(a) <=> CP!RecvFinAgain(a)
    BY <1>1, <1>2 DEF Client!RecvFinAgain, Client!Stop, CP!RecvFinAgain, CP!Stop
  <2> QED
    BY <2>1, <2>2
       DEF Client!RecvReply, Client!RecvFinAck, Client!RecvGarbledReply, Client!ftpcVars,
           CP!RecvReply, CP!RecvFinAck, CP!RecvGarbledReply, CP!ftpcVars
<1>9. Client!Expire(a) <=> CP!Expire(a)
  BY <1>1 DEF Client!Expire, Client!ftpcVars, Client!tcpdcVars,
              CP!Expire, CP!ftpcVars, CP!tcpdcVars
<1> QED BY <1>4, <1>5, <1>6, <1>7, <1>8, <1>9

(* A step of the sending half. *)
ClientStep ==
  \/ Client!FtpcSleep \/ Client!FtpcSend \/ Client!RecvLocal
  \/ \E n \in Client!Ids : Client!RecvExpiry(n) \/ Client!Expire(n)
  \/ \E a : a.seq \in Client!Seqs /\ Client!RecvReply(a)

LEMMA ClientTypes ==
  ASSUME Client!TypeOK, ~ftpcDone => next <= FinSeq - 2, ClientStep
  PROVE  Client!TypeOK' /\ (~ftpcDone' => next' <= FinSeq - 2)
<1>1. CP!TypeOK /\ CP!RoomForFin
  BY SameClientType DEF CP!RoomForFin
<1>2. CP!TypeOK' /\ CP!RoomForFin'
  <2>1. CASE Client!FtpcSleep \/ Client!FtpcSend
    <3>1. CP!FtpcSleep \/ CP!FtpcSend
      BY <2>1, SameClient
    <3> QED BY <1>1, <3>1, CP!TypeFtpc, TransferSizes
  <2>2. CASE Client!RecvLocal
    <3>1. CP!RecvLocal
      BY <2>2, SameClient
    <3> QED BY <1>1, <3>1, CP!TypeLocal, TransferSizes
  <2>3. ASSUME NEW n \in Client!Ids, Client!RecvExpiry(n) \/ Client!Expire(n)
        PROVE  CP!TypeOK' /\ CP!RoomForFin'
    <3>1. n \in CP!Ids
      BY DEF Client!Ids, Client!Seqs, Client!Free, CP!Ids, CP!Seqs, CP!Free
    <3>2. CP!RecvExpiry(n) \/ CP!Expire(n)
      BY <2>3, SameClient
    <3> QED BY <1>1, <3>1, <3>2, CP!TypeExpiry, CP!TypeExpire, TransferSizes
  <2>4. ASSUME NEW a, a.seq \in Client!Seqs, Client!RecvReply(a)
        PROVE  CP!TypeOK' /\ CP!RoomForFin'
    <3>1. a.seq \in CP!Seqs
      BY <2>4 DEF Client!Seqs, CP!Seqs
    <3>2. CP!RecvReply(a)
      BY <2>4, SameClient
    <3> QED BY <1>1, <3>1, <3>2, CP!TypeReply, TransferSizes
  <2> QED BY <2>1, <2>2, <2>3, <2>4 DEF ClientStep
<1>3. Client!TypeOK' <=> CP!TypeOK'
  BY SameClientType, PTL
<1> QED BY <1>2, <1>3 DEF CP!RoomForFin

(* What is resent comes from the buffer. *)
LEMMA ResentFromBuffer ==
  ASSUME Client!TypeOK, NEW n \in Client!Ids, Client!FindResend(n) # Client!OutOfBuffer
  PROVE  Client!FindResend(n) \in Client!BufSlots
<1>1. n \in CP!Ids /\ CP!TypeOK
  BY SameClientType DEF Client!Ids, Client!Seqs, Client!Free, CP!Ids, CP!Seqs, CP!Free
<1>2. CP!FindResend(n) \in CP!BufSlots \cup {CP!OutOfBuffer}
  BY <1>1, CP!ResendSlot, TransferSizes
<1> QED BY <1>2, SameClient DEF Client!BufSlots, Client!OutOfBuffer, CP!BufSlots, CP!OutOfBuffer

-------------------------------------------------------------------------------
(* The invariant of the transfer.                                          *)

LEMMA TakenFacts ==
  ASSUME Client!TypeOK, LocalInOrder
  PROVE  /\ next \in 0..FinSeq /\ local \in Seq(0..FinSeq) /\ Len(local) \in Nat
         /\ LastTaken \in -1..FinSeq
<1>1. next \in 0..FinSeq /\ local \in Seq(0..FinSeq) /\ Len(local) \in Nat
  BY DEF Client!TypeOK, Client!Seqs
<1>2. LastTaken \in Int /\ LastTaken <= FinSeq
  BY <1>1, TransferSizes DEF LastTaken
<1>3. LastTaken >= -1
  <2>1. CASE Len(local) = 0
    BY <1>1, <2>1, TransferSizes DEF LastTaken
  <2>2. CASE Len(local) # 0
    <3>1. 1 \in 1..Len(local)
      BY <1>1, <2>2
    <3>2. local[1] \in 0..FinSeq
      <4> DEFINE T == 0..FinSeq
      <4>1. local \in Seq(T)
        BY <1>1
      <4> HIDE DEF T
      <4>2. local[1] \in T
        BY <3>1, <4>1
      <4> QED BY <4>2 DEF T
    <3>3. local[1] = LastTaken + 1
      BY <3>1 DEF LocalInOrder
    <3> QED BY <1>2, <3>2, <3>3, TransferSizes
  <2> QED BY <2>1, <2>2
<1> QED BY <1>1, <1>2, <1>3, TransferSizes

(* What ftpc sends goes behind what waits, what tcpdc takes is in front. *)
LEMMA InOrder ==
  ASSUME NEW T, NEW s \in Seq(T), NEW c \in Int, \A i \in 1..Len(s) : s[i] = c + i
  PROVE  /\ \A i \in 1..Len(Append(s, c + Len(s) + 1)) :
              Append(s, c + Len(s) + 1)[i] = c + i
         /\ LET t == s \o <<c + Len(s) + 1, c + Len(s) + 2>>
            IN  Len(t) = Len(s) + 2 /\ \A i \in 1..Len(t) : t[i] = c + i
         /\ s # <<>> => Head(s) = c + 1 /\ \A i \in 1..Len(Tail(s)) : Tail(s)[i] = c + 1 + i
<1>1. Len(s) \in Nat
  OBVIOUS
<1>2. \A i \in 1..Len(Append(s, c + Len(s) + 1)) : Append(s, c + Len(s) + 1)[i] = c + i
  <2>1. /\ Len(Append(s, c + Len(s) + 1)) = Len(s) + 1
        /\ \A i \in 1..(Len(s) + 1) :
             Append(s, c + Len(s) + 1)[i] = IF i = Len(s) + 1 THEN c + Len(s) + 1 ELSE s[i]
    OBVIOUS
  <2> QED BY <1>1, <2>1
<1>3. LET t == s \o <<c + Len(s) + 1, c + Len(s) + 2>>
      IN  Len(t) = Len(s) + 2 /\ \A i \in 1..Len(t) : t[i] = c + i
  <2> DEFINE e == <<c + Len(s) + 1, c + Len(s) + 2>>  t == s \o e
  <2>1. Len(e) = 2 /\ e[1] = c + Len(s) + 1 /\ e[2] = c + Len(s) + 2 /\ e \in Seq(Int)
    BY <1>1
  <2> HIDE DEF e
  <2>2. /\ Len(t) = Len(s) + 2
        /\ \A i \in 1..(Len(s) + 2) : t[i] = IF i <= Len(s) THEN s[i] ELSE e[i - Len(s)]
    <3>1. s \in Seq(T \cup Int) /\ e \in Seq(T \cup Int)
      BY <2>1
    <3> HIDE DEF t
    <3>2. t = s \o e
      BY DEF t
    <3>3. /\ Len(s \o e) = Len(s) + Len(e)
          /\ \A i \in 1..(Len(s) + Len(e)) :
               (s \o e)[i] = IF i <= Len(s) THEN s[i] ELSE e[i - Len(s)]
      BY <3>1, ConcatProperties
    <3> QED BY <2>1, <3>2, <3>3
  <2> HIDE DEF t
  <2>3. ASSUME NEW i \in 1..(Len(s) + 2) PROVE t[i] = c + i
    <3>1. i <= Len(s) \/ i = Len(s) + 1 \/ i = Len(s) + 2
      BY <1>1
    <3>2. CASE i <= Len(s)
      BY <1>1, <2>2, <3>2
    <3>3. CASE i = Len(s) + 1
      BY <1>1, <2>1, <2>2, <3>3
    <3>4. CASE i = Len(s) + 2
      BY <1>1, <2>1, <2>2, <3>4
    <3> QED BY <3>1, <3>2, <3>3, <3>4
  <2>4. Len(t) = Len(s) + 2 /\ \A i \in 1..Len(t) : t[i] = c + i
    BY <2>2, <2>3
  <2> QED BY <2>4 DEF t, e
<1>4. s # <<>> => Head(s) = c + 1 /\ \A i \in 1..Len(Tail(s)) : Tail(s)[i] = c + 1 + i
  <2> SUFFICES ASSUME s # <<>>
               PROVE  Head(s) = c + 1 /\ \A i \in 1..Len(Tail(s)) : Tail(s)[i] = c + 1 + i
    OBVIOUS
  <2>1. Len(s) >= 1 /\ Head(s) = s[1] /\ Len(Tail(s)) = Len(s) - 1
        /\ \A i \in 1..(Len(s) - 1) : Tail(s)[i] = s[i + 1]
    BY <1>1
  <2> QED BY <1>1, <2>1
<1> QED BY <1>2, <1>3, <1>4

LEMMA IInvInit == Init => IInv
<1> SUFFICES ASSUME Init PROVE IInv
  OBVIOUS
<1>1. Client!Init /\ Server!Init
  BY DEF Init
<1>2. Client!TypeOK
  <2>1. CP!Init
    BY <1>1 DEF Client!Init, Client!WinSlots, Client!BufSlots, Client!Ids, Client!Seqs, Client!Free,
                CP!Init, CP!WinSlots, CP!BufSlots, CP!Ids, CP!Seqs, CP!Free
  <2> QED BY <2>1, CP!TypeInit, SameClientType, TransferSizes
<1>3. Receiver!IInv
  <2>1. SP!Init
    BY <1>1 DEF Server!Init, Server!WinSlots, Server!BufSlots, Server!RingSlots, Server!Free,
                Server!ZeroPacket,
                SP!Init, SP!WinSlots, SP!BufSlots, SP!RingSlots, SP!Free, SP!ZeroPacket
  <2> QED BY <2>1, SP!IInvInit, SameReceiverInv, TransferSizes
<1>4. /\ next = 0 /\ local = <<0>> /\ ~ftpcDone /\ mode = "run" /\ net = {}
      /\ window = [k \in Client!WinSlots |-> Client!Free] /\ window_pointer = 0
      /\ buffer = [i \in Client!BufSlots |-> -1] /\ last_sent = -1
      /\ server_window = [k \in Server!WinSlots |-> -1] /\ ackNet = {}
  BY <1>1 DEF Client!Init, Client!Free, Server!Init, Server!Free
<1>5. LastTaken = -1 /\ Len(local) = 1
  BY <1>4 DEF LastTaken
<1>6. LocalInOrder
  BY <1>4, <1>5, TransferSizes DEF LocalInOrder
<1>7. OnlyTaken /\ Kept /\ WindowAhead /\ DoneWhenDelivered
  BY <1>4, <1>5 DEF OnlyTaken, Kept, WindowAhead, DoneWhenDelivered
<1> QED BY <1>2, <1>3, <1>6, <1>7 DEF IInv

(* The receiving half moves on, or the troll drops something. *)
LEMMA ReceiverMoves ==
  ASSUME IInv, Receiver!IInv', UNCHANGED <<clientVars, finack>>, net' \subseteq net,
         last_sent <= last_sent', exited => exited' /\ last_sent' = last_sent,
         \A k \in Server!WinSlots : server_window'[k] <= LastTaken,
         last_sent' <= LastTaken,
         \A a \in ackNet' : a.kind = "finack" =>
           a \in ackNet \/ (a.seq = FinSeq /\ FinSeq <= LastTaken)
  PROVE  IInv'
<1>1. UNCHANGED <<next, ftpcDone, local, control, window, window_pointer, buffer, head,
                  resendpacket, mode, alarms, expired>>
  BY DEF clientVars
<1>2. Client!TypeOK'
  BY <1>1 DEF IInv, Client!TypeOK
<1>3. LastTaken' = LastTaken /\ LastTaken \in Int /\ LastTaken \in -1..FinSeq
  BY <1>1, TakenFacts, TransferSizes DEF LastTaken, IInv
<1>4. last_sent \in Int /\ last_sent' \in Int /\ window_pointer \in Nat /\ last_sent <= last_sent'
  <2>1. last_sent \in -1..(FinSeq - 1)
    BY ReceiverFacts DEF IInv
  <2>2. last_sent' \in -1..FinSeq
    BY DEF Receiver!IInv, Receiver!TypeOK
  <2> QED BY <2>1, <2>2, TransferSizes DEF IInv, Client!TypeOK
<1>5. LocalInOrder' /\ OnlyTaken'
  <2>1. LocalInOrder'
    BY <1>1, <1>3 DEF IInv, LocalInOrder
  <2>2. \A a \in ackNet' : a.kind = "finack" => a.seq = FinSeq /\ a.seq <= LastTaken
    BY DEF IInv, OnlyTaken
  <2>3. OnlyTaken'
    BY <1>1, <1>3, <2>2 DEF IInv, OnlyTaken
  <2> QED BY <2>1, <2>3
<1>6. Kept'
  <2> SUFFICES ASSUME NEW n \in 0..LastTaken
               PROVE  Client!Windowed(n)' \/ n <= last_sent' \/ exited'
    BY <1>3 DEF Kept
  <2>1. Client!Windowed(n) \/ n <= last_sent \/ exited
    BY DEF IInv, Kept
  <2> QED BY <1>1, <1>3, <1>4, <2>1 DEF Client!Windowed
<1>7. WindowAhead'
  <2>1. ASSUME ~exited' PROVE LastTaken' <= last_sent' + window_pointer'
    <3>1. LastTaken <= last_sent + window_pointer
      BY <2>1 DEF IInv, WindowAhead
    <3>2. LastTaken' = LastTaken /\ window_pointer' = window_pointer
      BY <1>1, <1>3
    <3>3. LastTaken \in Int
      BY <1>3
    <3>4. LastTaken <= last_sent' + window_pointer
      <4> DEFINE y == last_sent'
      <4>1. y \in Int /\ last_sent <= y
        BY <1>4
      <4> HIDE DEF y
      <4>2. LastTaken <= y + window_pointer
        BY <1>4, <3>1, <3>3, <4>1
      <4> QED BY <4>2 DEF y
    <3> QED BY <3>2, <3>4
  <2>2. \A k \in Client!WinSlots : window'[k] # Client!Free => k < window_pointer'
    BY <1>1 DEF IInv, WindowAhead
  <2> QED BY <2>1, <2>2 DEF WindowAhead
<1>8. DoneWhenDelivered'
  BY <1>1 DEF IInv, DoneWhenDelivered
<1> QED BY <1>2, <1>5, <1>6, <1>7, <1>8 DEF IInv

(* A step of the sending half keeps what the two halves say on their own. *)
LEMMA HalvesHold ==
  ASSUME IInv, ClientStep, UNCHANGED serverVars, ackNet' \subseteq ackNet
  PROVE  /\ Client!TypeOK' /\ Receiver!IInv' /\ (~ftpcDone' => next' <= FinSeq - 2)
         /\ UNCHANGED <<server_window, last_sent, exited, finack>>
<1>1. Client!TypeOK /\ Receiver!IInv /\ (~ftpcDone => next <= FinSeq - 2)
  BY DEF IInv, LocalInOrder
<1>2. UNCHANGED <<server_window, last_sent, exited, finack>>
  BY DEF serverVars
<1> QED BY <1>1, <1>2, ClientTypes, ReceiverStill

(* tcpdc takes nothing from ftpc and keeps its window. *)
LEMMA NothingTaken ==
  ASSUME IInv, Client!TypeOK', Receiver!IInv', LocalInOrder', LastTaken' = LastTaken,
         UNCHANGED <<window, window_pointer, buffer, server_window, last_sent, exited, finack, ackNet>>,
         \A n \in net' : n \in net \/ \E i \in Client!BufSlots : n = buffer[i],
         mode' \in {"fin", "done"} => mode \in {"fin", "done"}
  PROVE  IInv'
<1>1. OnlyTaken'
  BY DEF IInv, OnlyTaken
<1>2. Kept' /\ WindowAhead'
  BY DEF IInv, Kept, WindowAhead, Client!Windowed
<1>3. DoneWhenDelivered'
  BY DEF IInv, DoneWhenDelivered
<1> QED BY <1>1, <1>2, <1>3 DEF IInv

(* ftpc puts its packets behind those that wait. *)
LEMMA FtpcTakesNothing ==
  ASSUME IInv, Ftpc
  PROVE  /\ LocalInOrder' /\ LastTaken' = LastTaken
         /\ Client!TypeOK' /\ Receiver!IInv' /\ UNCHANGED <<server_window, last_sent, exited, finack>>
<1>1. /\ Client!FtpcSleep \/ Client!FtpcSend
      /\ UNCHANGED <<serverVars, ackNet>>
      /\ UNCHANGED <<window, window_pointer, buffer, mode, net>>
  BY DEF Ftpc, Client!FtpcSleep, Client!FtpcSend, Client!tcpdcVars
<1>2. /\ Client!TypeOK' /\ Receiver!IInv' /\ (~ftpcDone' => next' <= FinSeq - 2)
      /\ UNCHANGED <<server_window, last_sent, exited, finack>>
  BY <1>1, HalvesHold DEF ClientStep
<1>3. LocalInOrder' /\ LastTaken' = LastTaken
  <2>1. CASE Client!FtpcSleep
    <3>1. UNCHANGED <<next, ftpcDone, local>>
      BY <2>1 DEF Client!FtpcSleep, Client!ftpcVars
    <3> QED BY <3>1 DEF IInv, LocalInOrder, LastTaken
  <2>2. CASE Client!FtpcSend
    <3>1. /\ next \in Int /\ local \in Seq(0..FinSeq) /\ Len(local) \in Nat
          /\ LastTaken \in Int /\ LastTaken + Len(local) = next
          /\ \A i \in 1..Len(local) : local[i] = LastTaken + i
      BY TakenFacts, TransferSizes DEF IInv, LocalInOrder, LastTaken
    <3>2. CASE next' = next + 1 /\ local' = Append(local, next + 1)
      <4>1. next + 1 = LastTaken + Len(local) + 1
        BY <3>1
      <4>2. \A i \in 1..Len(local') : local'[i] = LastTaken + i
        BY <3>1, <3>2, <4>1, InOrder
      <4>3. Len(local') = Len(local) + 1
        BY <3>1, <3>2
      <4>4. LastTaken' = LastTaken
        BY <3>1, <3>2, <4>3 DEF LastTaken
      <4> QED BY <1>2, <4>2, <4>4 DEF LocalInOrder
    <3>3. CASE next' = next + 2 /\ local' = local \o <<next + 1, next + 2>>
      <4>1. next + 1 = LastTaken + Len(local) + 1 /\ next + 2 = LastTaken + Len(local) + 2
        BY <3>1
      <4>2. local' = local \o <<LastTaken + Len(local) + 1, LastTaken + Len(local) + 2>>
        BY <3>3, <4>1
      <4> DEFINE t == local \o <<LastTaken + Len(local) + 1, LastTaken + Len(local) + 2>>
      <4>3. Len(local') = Len(local) + 2 /\ \A i \in 1..Len(local') : local'[i] = LastTaken + i
        <5>1. Len(t) = Len(local) + 2 /\ \A i \in 1..Len(t) : t[i] = LastTaken + i
          BY <3>1, InOrder
        <5>2. local' = t
          BY <4>2
        <5> HIDE DEF t
        <5> QED BY <5>1, <5>2
      <4>4. LastTaken' = LastTaken
        BY <3>1, <3>3, <4>3 DEF LastTaken
      <4> QED BY <1>2, <4>3, <4>4 DEF LocalInOrder
    <3> QED BY <2>2, <3>2, <3>3 DEF Client!FtpcSend
  <2> QED BY <1>1, <2>1, <2>2
<1> QED BY <1>2, <1>3

LEMMA FtpcStep ==
  ASSUME IInv, Ftpc
  PROVE  IInv'
<1>1. UNCHANGED <<ackNet, window, window_pointer, buffer, mode, net>>
  BY DEF Ftpc, Client!FtpcSleep, Client!FtpcSend, Client!tcpdcVars
<1> QED BY <1>1, FtpcTakesNothing, NothingTaken

LEMMA ExpiryStep ==
  ASSUME IInv, NEW n \in Client!Ids, Expiry(n) \/ Expire(n)
  PROVE  IInv'
<1>1. /\ Client!RecvExpiry(n) \/ Client!Expire(n)
      /\ UNCHANGED <<serverVars, ackNet>>
      /\ UNCHANGED <<next, ftpcDone, local, window, window_pointer, buffer>>
      /\ mode' = mode \/ mode' = "crashed"
  BY DEF Expiry, Expire, Client!RecvExpiry, Client!Expire, Client!ftpcVars, Client!tcpdcVars
<1>2. /\ Client!TypeOK' /\ Receiver!IInv' /\ UNCHANGED <<server_window, last_sent, exited, finack>>
  BY <1>1, HalvesHold DEF ClientStep
<1>3. LocalInOrder' /\ LastTaken' = LastTaken
  BY <1>1 DEF IInv, LocalInOrder, LastTaken
<1>4. \A m \in net' : m \in net \/ \E i \in Client!BufSlots : m = buffer[i]
  <2>1. CASE Client!Expire(n)
    BY <2>1 DEF Client!Expire
  <2>2. CASE Client!RecvExpiry(n) /\ Client!FindResend(n) = Client!OutOfBuffer
    BY <2>2 DEF Client!RecvExpiry
  <2>3. CASE Client!RecvExpiry(n) /\ Client!FindResend(n) # Client!OutOfBuffer
    <3>1. Client!FindResend(n) \in Client!BufSlots
      BY <2>3, ResentFromBuffer DEF IInv
    <3>2. net' = net \cup ({buffer[Client!FindResend(n)]} \ {Client!Free})
      BY <2>3 DEF Client!RecvExpiry
    <3> QED BY <3>1, <3>2
  <2> QED BY <1>1, <2>1, <2>2, <2>3
<1> QED BY <1>1, <1>2, <1>3, <1>4, NothingTaken

(* tcpdc takes the next packet and has a slot of its window for it. *)
LEMMA LocalStep ==
  ASSUME IInv, Local, Client!WindowWithinBounds'
  PROVE  IInv'
<1> DEFINE n == Head(local)
<1>1. /\ Client!RecvLocal /\ UNCHANGED <<serverVars, ackNet>>
      /\ local # <<>> /\ local' = Tail(local)
      /\ buffer' = [buffer EXCEPT ![head] = n] /\ window' = Client!WindowWith(n)
      /\ net' = net \cup {n} /\ window_pointer' = window_pointer + 1
      /\ UNCHANGED <<next, ftpcDone, mode>>
  BY DEF Local, Client!RecvLocal, Client!ftpcVars
<1>2. /\ Client!TypeOK' /\ Receiver!IInv' /\ (~ftpcDone' => next' <= FinSeq - 2)
      /\ UNCHANGED <<server_window, last_sent, exited, finack>>
  BY <1>1, HalvesHold DEF ClientStep
<1>3. /\ next \in Int /\ local \in Seq(0..FinSeq) /\ Len(local) \in Nat
      /\ LastTaken \in Int /\ LastTaken \in -1..FinSeq
      /\ \A i \in 1..Len(local) : local[i] = LastTaken + i
      /\ last_sent \in Int
  BY TakenFacts, ReceiverFacts, TransferSizes DEF IInv, LocalInOrder
<1>4. n = LastTaken + 1 /\ \A i \in 1..Len(local') : local'[i] = LastTaken + 1 + i
  BY <1>1, <1>3, InOrder
<1>5. LastTaken' = LastTaken + 1
  BY <1>1, <1>3 DEF LastTaken
<1>6. LocalInOrder'
  BY <1>2, <1>4, <1>5 DEF LocalInOrder
<1>7. OnlyTaken'
  <2>1. \A i \in Client!BufSlots : buffer[i] \in Int /\ buffer[i] <= LastTaken
    BY TransferSizes DEF IInv, OnlyTaken, Client!TypeOK, Client!Ids, Client!Seqs, Client!Free
  <2>2. \A i \in Client!BufSlots : buffer'[i] = IF i = head THEN n ELSE buffer[i]
    BY <1>1 DEF IInv, Client!TypeOK
  <2>3. \A m \in net : m \in Int /\ m <= LastTaken
    BY TransferSizes DEF IInv, OnlyTaken, Client!TypeOK, Client!Seqs
  <2> HIDE DEF n
  <2>4. \A i \in Client!BufSlots : buffer'[i] <= LastTaken + 1
    BY <1>3, <1>4, <2>1, <2>2
  <2>5. \A m \in net' : m <= LastTaken + 1
    BY <1>1, <1>3, <1>4, <2>3
  <2>6. \A k \in Server!WinSlots : server_window'[k] <= LastTaken + 1
    <3>1. \A k \in Server!WinSlots : server_window[k] \in Int /\ server_window[k] <= LastTaken
      BY TransferSizes DEF IInv, OnlyTaken, Receiver!IInv, Receiver!TypeOK, Receiver!Free,
                           Receiver!WinSlots, Server!WinSlots
    <3> QED BY <1>2, <1>3, <3>1
  <2>7. last_sent' <= LastTaken + 1
    BY <1>2, <1>3 DEF IInv, OnlyTaken
  <2>8. \A a \in ackNet' : a.kind = "finack" => a.seq = FinSeq /\ a.seq <= LastTaken + 1
    BY <1>1, <1>3, TransferSizes DEF IInv, OnlyTaken
  <2> QED BY <1>5, <2>4, <2>5, <2>6, <2>7, <2>8 DEF OnlyTaken
<1>8. /\ window_pointer \in Client!WinSlots /\ window_pointer \in Nat
      /\ window[window_pointer] = Client!Free
  <2>1. window_pointer \in Nat /\ window_pointer + 1 <= WindowFront + 1
    BY <1>1 DEF IInv, Client!TypeOK, Client!WindowWithinBounds
  <2>2. window_pointer \in Client!WinSlots
    BY <2>1, TransferSizes DEF Client!WinSlots
  <2> QED BY <2>1, <2>2 DEF IInv, WindowAhead
<1>9. \A k \in Client!WinSlots : window'[k] = IF k = window_pointer THEN n ELSE window[k]
  BY <1>1, <1>8 DEF IInv, Client!TypeOK, Client!WindowWith
<1>10. Kept'
  <2> SUFFICES ASSUME NEW m \in 0..(LastTaken + 1)
               PROVE  Client!Windowed(m)' \/ m <= last_sent' \/ exited'
    BY <1>5 DEF Kept
  <2>1. CASE m = LastTaken + 1
    BY <1>4, <1>8, <1>9, <2>1 DEF Client!Windowed
  <2>2. CASE m # LastTaken + 1
    <3>1. m \in 0..LastTaken /\ m # Client!Free
      BY <1>3, <2>2, TransferSizes DEF Client!Free
    <3>2. Client!Windowed(m) \/ m <= last_sent \/ exited
      BY <3>1 DEF IInv, Kept
    <3>3. Client!Windowed(m) => Client!Windowed(m)'
      BY <1>8, <1>9, <3>1 DEF Client!Windowed
    <3> QED BY <1>2, <3>2, <3>3
  <2> QED BY <2>1, <2>2
<1>11. WindowAhead'
  <2>1. ~exited => LastTaken + 1 <= last_sent + (window_pointer + 1)
    BY <1>3, <1>8 DEF IInv, WindowAhead
  <2>2. ASSUME NEW k \in Client!WinSlots, window'[k] # Client!Free
        PROVE  k < window_pointer + 1
    <3>1. k \in Int
      BY TransferSizes DEF Client!WinSlots
    <3>2. k = window_pointer \/ k < window_pointer
      BY <1>9, <2>2 DEF IInv, WindowAhead
    <3> QED BY <1>8, <3>1, <3>2
  <2> QED BY <1>1, <1>2, <1>5, <2>1, <2>2 DEF WindowAhead
<1>12. DoneWhenDelivered'
  BY <1>1, <1>2 DEF IInv, DoneWhenDelivered
<1> QED BY <1>2, <1>6, <1>7, <1>10, <1>11, <1>12 DEF IInv

(* A reply of tcpds comes through. *)
LEMMA ReplyStep ==
  ASSUME IInv, NEW a \in ackNet, NEW ok \in BOOLEAN, Reply(a, ok)
  PROVE  IInv'
<1> DEFINE r == [kind |-> a.kind, seq |-> a.seq, finack |-> a.finack, ok |-> ok]
<1>1. /\ Client!RecvReply(r) /\ UNCHANGED serverVars /\ ackNet' \subseteq ackNet
      /\ r.kind = a.kind /\ r.seq = a.seq /\ r.finack = a.finack
      /\ UNCHANGED <<next, ftpcDone, local, buffer, net>>
  BY DEF Reply, Without, Client!RecvReply, Client!ftpcVars
<1> HIDE DEF r
<1>2. /\ r.kind \in {"ack", "finack"} /\ r.seq \in 0..FinSeq
      /\ r.kind = "ack" => r.seq <= last_sent /\ r.finack = finack
      /\ r.kind = "finack" => exited /\ last_sent = FinSeq - 1
      /\ last_sent \in Int /\ LastTaken \in Int
      /\ exited => last_sent = FinSeq - 1
  <2>1. /\ a.kind \in {"ack", "finack"} /\ a.seq \in 0..FinSeq
        /\ a.kind = "ack" => a.seq <= last_sent /\ a.finack = finack
        /\ a.kind = "finack" => exited /\ last_sent = FinSeq - 1
        /\ last_sent \in -1..(FinSeq - 1) /\ (exited => last_sent = FinSeq - 1)
    <3>1. Receiver!IInv
      BY DEF IInv
    <3>2. /\ a.kind \in {"ack", "finack"} /\ a.seq \in 0..FinSeq
          /\ a.kind = "ack" => a.seq <= last_sent /\ a.finack = finack
          /\ a.kind = "finack" => exited /\ last_sent = FinSeq - 1
      BY <3>1, AckFacts
    <3> QED BY <3>1, <3>2, ReceiverFacts
  <2>2. LastTaken \in -1..FinSeq
    BY TakenFacts DEF IInv
  <2> QED BY <1>1, <2>1, <2>2, TransferSizes
<1>3. Client!TypeOK' /\ Receiver!IInv' /\ UNCHANGED <<server_window, last_sent, exited, finack>>
  BY <1>1, <1>2, HalvesHold DEF ClientStep, Client!Seqs
<1>4. LocalInOrder' /\ LastTaken' = LastTaken /\ OnlyTaken'
  BY <1>1, <1>3 DEF IInv, LocalInOrder, LastTaken, OnlyTaken
<1>5. CASE mode = "run" /\ Client!RecvAck(r)
  <2>1. /\ r.kind = "ack" /\ window' = Client!Cleared(window, r.seq)
        /\ window_pointer' = IF Client!WindowEmpty(window') THEN 0 ELSE window_pointer
        /\ mode' = IF r.finack THEN "fin" ELSE mode
    BY <1>5 DEF Client!RecvAck
  <2>2. \A k \in Client!WinSlots :
          window'[k] = IF window[k] = r.seq THEN Client!Free ELSE window[k]
    BY <2>1 DEF Client!Cleared
  <2>3. Kept'
    <3> SUFFICES ASSUME NEW n \in 0..LastTaken
                 PROVE  Client!Windowed(n)' \/ n <= last_sent' \/ exited'
      BY <1>4 DEF Kept
    <3>1. Client!Windowed(n) \/ n <= last_sent \/ exited
      BY DEF IInv, Kept
    <3>2. CASE n = r.seq
      BY <1>2, <1>3, <2>1, <3>2
    <3>3. CASE n # r.seq
      BY <1>3, <2>2, <3>1, <3>3 DEF Client!Windowed
    <3> QED BY <3>2, <3>3
  <2>4. WindowAhead'
    <3>1. CASE Client!WindowEmpty(window')
      <4>1. \A k \in Client!WinSlots : window'[k] = Client!Free
        BY <3>1 DEF Client!WindowEmpty
      <4>2. \A n \in 0..LastTaken : ~Client!Windowed(n)'
        BY <4>1, TransferSizes DEF Client!Windowed, Client!Free
      <4>3. ~exited' => LastTaken <= last_sent
        <5>1. CASE LastTaken >= 0
          <6>1. LastTaken \in 0..LastTaken
            BY <1>2, <5>1
          <6> QED BY <1>3, <1>4, <2>3, <4>2, <6>1 DEF Kept
        <5>2. CASE LastTaken < 0
          <6>1. last_sent \in -1..(FinSeq - 1)
            BY ReceiverFacts DEF IInv
          <6> QED BY <1>2, <5>2, <6>1, TransferSizes
        <5> QED BY <1>2, <5>1, <5>2
      <4>4. window_pointer' = 0 /\ last_sent' + 0 = last_sent
        BY <1>2, <1>3, <2>1, <3>1
      <4> QED BY <1>4, <4>1, <4>3, <4>4 DEF WindowAhead
    <3>2. CASE ~Client!WindowEmpty(window')
      BY <1>3, <1>4, <2>1, <2>2, <3>2 DEF IInv, WindowAhead
    <3> QED BY <3>1, <3>2
  <2>5. DoneWhenDelivered'
    BY <1>2, <1>3, <1>5, <2>1 DEF DoneWhenDelivered
  <2> QED BY <1>3, <1>4, <2>3, <2>4, <2>5 DEF IInv
<1>6. CASE (mode = "run" /\ (Client!RecvFinAck(r) \/ Client!RecvGarbledReply(r)))
           \/ Client!RecvFinAgain(r)
  <2>1. UNCHANGED <<window, window_pointer>>
    BY <1>6 DEF Client!RecvFinAck, Client!RecvGarbledReply, Client!RecvFinAgain
  <2>2. Kept' /\ WindowAhead'
    BY <1>3, <1>4, <2>1 DEF IInv, Kept, WindowAhead, Client!Windowed
  <2>3. DoneWhenDelivered'
    <3>1. CASE mode = "run" /\ Client!RecvFinAck(r)
      BY <1>2, <1>3, <3>1 DEF Client!RecvFinAck, DoneWhenDelivered
    <3>2. CASE Client!RecvGarbledReply(r)
      BY <1>3, <3>2 DEF IInv, DoneWhenDelivered, Client!RecvGarbledReply
    <3>3. CASE Client!RecvFinAgain(r)
      BY <1>3, <3>3 DEF IInv, DoneWhenDelivered, Client!RecvFinAgain
    <3> QED BY <1>6, <3>1, <3>2, <3>3
  <2> QED BY <1>3, <1>4, <2>2, <2>3 DEF IInv
<1> QED BY <1>1, <1>5, <1>6 DEF Client!RecvReply

-------------------------------------------------------------------------------
(* tcpds is never sent more than its window has room for.                  *)
LEMMA SentFits ==
  ASSUME IInv, Client!WindowWithinBounds
  PROVE  WithinServerWindow /\ net \subseteq 0..FinSeq
<1>1. /\ LastTaken \in -1..FinSeq /\ last_sent \in -1..(FinSeq - 1)
      /\ exited => last_sent = FinSeq - 1
  BY TakenFacts, ReceiverFacts DEF IInv
<1>2. window_pointer \in Nat /\ window_pointer <= WindowSize
  BY TransferSizes DEF IInv, Client!TypeOK, Client!WindowWithinBounds
<1>3. ~exited => LastTaken <= last_sent + window_pointer
  BY DEF IInv, WindowAhead
<1>4. LastTaken <= last_sent + WindowSize
  BY <1>1, <1>2, <1>3, TransferSizes
<1>5. net \subseteq 0..FinSeq /\ \A n \in net : n <= LastTaken
  BY DEF IInv, OnlyTaken, Client!TypeOK, Client!Seqs
<1>6. ASSUME NEW n \in net PROVE n <= last_sent + WindowSize
  <2>1. n \in Int /\ n <= LastTaken
    BY <1>5, TransferSizes
  <2> QED BY <1>1, <1>4, <2>1, TransferSizes
<1> QED BY <1>5, <1>6 DEF WithinServerWindow

LEMMA DeliverStep ==
  ASSUME IInv, Client!WindowWithinBounds, Fresh,
         NEW n \in Client!Seqs, NEW ok \in Arrival, Deliver(n, ok)
  PROVE  IInv' /\ UNCHANGED <<file, closed>>
<1>1. /\ n \in net /\ Server!RecvPacket(Server!Packet(n, ok))
      /\ net' \subseteq net /\ UNCHANGED clientVars
      /\ ok \in BOOLEAN /\ last_sent - AckSlots < n
  BY DEF Deliver, Without, Arrival, Fresh
<1>2. n \in 0..FinSeq /\ n <= last_sent + WindowSize /\ Receiver!IInv
  BY <1>1, SentFits DEF WithinServerWindow, IInv
<1>3. /\ Receiver!IInv' /\ UNCHANGED <<file, closed, finack>>
      /\ ~exited /\ last_sent' \in {last_sent, last_sent + 1}
      /\ \A k \in Server!WinSlots : server_window'[k] <= LastTaken
      /\ last_sent' <= LastTaken
      /\ \A a \in ackNet' : a.kind = "finack" =>
           a \in ackNet \/ (a.seq = FinSeq /\ FinSeq <= LastTaken)
  <2>1. LastTaken \in -1..FinSeq
    BY TakenFacts DEF IInv
  <2>2. LastTaken \in Int
    BY <2>1, TransferSizes
  <2>3. /\ n <= LastTaken /\ last_sent <= LastTaken
        /\ \A k \in Server!WinSlots : server_window[k] <= LastTaken
    BY <1>1 DEF IInv, OnlyTaken
  <2> QED BY <1>1, <1>2, <2>2, <2>3, ReceiverRecv
<1>4. last_sent <= last_sent'
  <2>1. last_sent \in -1..(FinSeq - 1)
    BY <1>2, ReceiverFacts
  <2> QED BY <1>3, <2>1, TransferSizes
<1>5. IInv'
  BY <1>1, <1>3, <1>4, ReceiverMoves
<1> QED BY <1>3, <1>5

LEMMA IInvStep ==
  IInv /\ Client!WindowWithinBounds /\ Client!WindowWithinBounds' /\ [Fresh]_vars /\ [Next]_vars
    => IInv' /\ [Transfer!Next]_<<file, closed>>
<1> SUFFICES ASSUME IInv, Client!WindowWithinBounds, Client!WindowWithinBounds', [Fresh]_vars, [Next]_vars
             PROVE  IInv' /\ (Transfer!Next \/ UNCHANGED <<file, closed>>)
  OBVIOUS
<1>0. /\ last_sent <= last_sent /\ last_sent <= LastTaken
      /\ \A k \in Server!WinSlots : server_window[k] <= LastTaken
  <2>1. last_sent \in -1..(FinSeq - 1)
    BY ReceiverFacts DEF IInv
  <2> QED BY <2>1, TransferSizes DEF IInv, OnlyTaken
<1>1. CASE Ftpc
  BY <1>1, FtpcStep DEF Ftpc, serverVars
<1>2. CASE Local
  BY <1>2, LocalStep DEF Local, serverVars
<1>3. ASSUME NEW n \in Client!Ids, Expiry(n) \/ Expire(n)
      PROVE  IInv' /\ UNCHANGED <<file, closed>>
  BY <1>3, ExpiryStep DEF Expiry, Expire, serverVars
<1>4. CASE FtpsStep
  <2>1. /\ Server!FtpsWrite \/ Server!FtpsClose
        /\ UNCHANGED clientVars /\ net' \subseteq net
    BY <1>4 DEF FtpsStep
  <2>2. Receiver!IInv' /\ Transfer!Next /\ UNCHANGED <<server_window, last_sent, exited, finack, ackNet>>
    BY <2>1, ReceiverFtps DEF IInv
  <2> QED BY <1>0, <2>1, <2>2, ReceiverMoves
<1>5. ASSUME Fresh, NEW n \in Client!Seqs, NEW ok \in Arrival, Deliver(n, ok)
      PROVE  IInv' /\ UNCHANGED <<file, closed>>
  BY <1>5, DeliverStep
<1>6. ASSUME NEW a \in ackNet, NEW ok \in Arrival, Reply(a, ok)
      PROVE  IInv' /\ UNCHANGED <<file, closed>>
  <2>1. ok \in BOOLEAN
    BY DEF Arrival
  <2> QED BY <1>6, <2>1, ReplyStep DEF Reply, serverVars
<1>7. CASE DropPacket \/ DropReply \/ UNCHANGED vars
  <2>1. /\ UNCHANGED <<clientVars, serverVars>> /\ net' \subseteq net /\ ackNet' \subseteq ackNet
    BY <1>7 DEF DropPacket, DropReply, vars
  <2>2. UNCHANGED <<server_window, last_sent, exited, finack, file, closed>>
    BY <2>1 DEF serverVars
  <2>3. Receiver!IInv'
    BY <2>1, ReceiverStill DEF IInv
  <2> QED BY <1>0, <2>1, <2>2, <2>3, ReceiverMoves
<1> QED BY <1>1, <1>2, <1>3, <1>4, <1>5, <1>6, <1>7 DEF Next

(* A run in which tcpdc never overruns its window and no copy of a packet  *)
(* is delivered that is older than the acknowledgements tcpds remembers.   *)
GoodRun == Spec /\ NoOverrun /\ NoOldCopy

(* tcpdc, the network and tcpds are consistent with one another at every   *)
(* moment of such a run.                                                   *)
THEOREM Consistent == GoodRun => []IInv
<1>1. IInv /\ Client!WindowWithinBounds /\ Client!WindowWithinBounds' /\ [Fresh]_vars /\ [Next]_vars
        => IInv'
  BY IInvStep
<1> QED BY IInvInit, <1>1, PTL DEF GoodRun, Spec, NoOverrun, NoOldCopy

(* tcpdc lets go of a packet only when ftps has been sent it. *)
THEOREM Forgotten == GoodRun => []NothingForgotten
<1>1. IInv => NothingForgotten
  <2> SUFFICES ASSUME IInv, NEW n \in Client!Seqs, Taken(n)
               PROVE  Client!Windowed(n) \/ n <= last_sent \/ exited
    BY DEF NothingForgotten
  <2>1. /\ LastTaken \in -1..FinSeq /\ next \in 0..FinSeq /\ Len(local) \in Nat
        /\ \A i \in 1..Len(local) : local[i] = LastTaken + i
    BY TakenFacts DEF IInv, LocalInOrder
  <2>2. n \in 0..FinSeq /\ n <= next /\ \A i \in 1..Len(local) : local[i] # n
    BY DEF Taken, Client!Seqs
  <2>3. n <= LastTaken
    <3> SUFFICES ASSUME n > LastTaken PROVE FALSE
      BY <2>1, <2>2, TransferSizes
    <3>1. n - LastTaken \in 1..Len(local)
      BY <2>1, <2>2, TransferSizes DEF LastTaken
    <3>2. LastTaken + (n - LastTaken) = n
      BY <2>1, <2>2, TransferSizes
    <3> QED BY <2>1, <2>2, <3>1, <3>2
  <2>4. n \in 0..LastTaken
    BY <2>1, <2>2, <2>3, TransferSizes
  <2> QED BY <2>4 DEF IInv, Kept
<1> QED BY <1>1, Consistent, PTL

(* tcpdc reports success only when ftps has been sent the whole file. *)
THEOREM SuccessIsTrue == GoodRun => []DoneWhenDelivered
<1>1. IInv => DoneWhenDelivered
  BY DEF IInv
<1> QED BY <1>1, Consistent, PTL

(* No packet is sent that tcpds has no room for. *)
THEOREM SentWithinWindow == GoodRun => []WithinServerWindow
<1>1. IInv /\ Client!WindowWithinBounds => WithinServerWindow
  BY SentFits
<1> QED BY <1>1, Consistent, PTL DEF GoodRun, NoOverrun

(* The file ftps writes grows block by block into the file ftpc reads, and *)
(* is closed when it is complete.                                          *)
THEOREM FileTransferred == GoodRun => TransferSpec
<1>1. Init => Transfer!Init
  BY DEF Init, Server!Init, Transfer!Init
<1>2. IInv /\ Client!WindowWithinBounds /\ Client!WindowWithinBounds' /\ [Fresh]_vars /\ [Next]_vars
        => [Transfer!Next]_<<file, closed>>
  BY IInvStep
<1> QED BY <1>1, <1>2, Consistent, PTL
        DEF GoodRun, Spec, NoOverrun, NoOldCopy, TransferSpec, Transfer!Spec

-------------------------------------------------------------------------------
(* When every run is good.                                                 *)

LEMMA WindowStep ==
  ASSUME MaxWindow <= WindowFront + 1, IInv, Client!WindowWithinBounds, [Next]_vars
  PROVE  Client!WindowWithinBounds'
<1>1. window_pointer \in Nat /\ window_pointer <= WindowFront + 1
  BY DEF IInv, Client!TypeOK, Client!WindowWithinBounds
<1>2. CASE Local
  <2>1. window_pointer < MaxWindow /\ window_pointer' = window_pointer + 1
    BY <1>2 DEF Local, Client!RecvLocal
  <2>2. window_pointer + 1 <= WindowFront + 1
    BY <1>1, <2>1, TransferSizes, TransferConstants
  <2> QED BY <2>1, <2>2 DEF Client!WindowWithinBounds
<1>3. ASSUME NEW a \in ackNet, NEW ok \in Arrival, Reply(a, ok)
      PROVE  Client!WindowWithinBounds'
  <2>1. window_pointer' \in {window_pointer, 0}
    BY <1>3 DEF Reply, Client!RecvReply, Client!RecvAck, Client!RecvFinAck,
                Client!RecvGarbledReply, Client!RecvFinAgain
  <2> QED BY <1>1, <2>1, TransferSizes DEF Client!WindowWithinBounds
<1>4. CASE \/ Ftpc \/ \E n \in Client!Ids : Expiry(n) \/ Expire(n)
           \/ FtpsStep \/ \E n \in Client!Seqs, ok \in Arrival : Deliver(n, ok)
           \/ DropPacket \/ DropReply \/ UNCHANGED vars
  <2>1. window_pointer' = window_pointer
    BY <1>4 DEF Ftpc, Client!FtpcSleep, Client!FtpcSend, Expiry, Client!RecvExpiry,
                Expire, Client!Expire, Client!tcpdcVars, FtpsStep, Deliver, DropPacket, DropReply,
                clientVars, vars
  <2> QED BY <2>1 DEF Client!WindowWithinBounds
<1> QED BY <1>2, <1>3, <1>4 DEF Next

LEMMA AllFresh == FinSeq <= AckSlots /\ IInv => Fresh
<1> SUFFICES ASSUME FinSeq <= AckSlots, IInv, NEW n \in Client!Seqs
             PROVE  last_sent - AckSlots < n
  BY DEF Fresh
<1>1. last_sent \in -1..(FinSeq - 1) /\ n \in 0..FinSeq
  BY ReceiverFacts DEF IInv, Client!Seqs
<1> QED BY <1>1, TransferSizes

(* As long as ftpc gets no further ahead than the window has slots, and    *)
(* the file is no longer than the ring of acknowledgements, every run is   *)
(* good: nothing else is asked of the troll or the timers.                 *)
THEOREM SmallRunsAreGood ==
  ASSUME MaxWindow <= WindowFront + 1, FinSeq <= AckSlots
  PROVE  Spec => GoodRun
<1> DEFINE Inv == IInv /\ Client!WindowWithinBounds
<1>1. Init => Inv
  <2>1. Init => Client!WindowWithinBounds
    BY TransferSizes DEF Init, Client!Init, Client!WindowWithinBounds
  <2> QED BY <2>1, IInvInit
<1>2. Inv /\ [Next]_vars => Inv'
  <2> SUFFICES ASSUME IInv, Client!WindowWithinBounds, [Next]_vars
               PROVE  IInv' /\ Client!WindowWithinBounds'
    OBVIOUS
  <2>1. Client!WindowWithinBounds'
    BY WindowStep
  <2> QED BY <2>1, AllFresh, IInvStep
<1>3. Inv => Client!WindowWithinBounds
  OBVIOUS
<1>4. Inv => Fresh
  BY AllFresh
<1>5. Inv => [Fresh]_vars
  BY <1>4
<1> HIDE DEF Inv
<1> QED BY <1>1, <1>2, <1>3, <1>5, PTL DEF Spec, GoodRun, NoOverrun, NoOldCopy

-------------------------------------------------------------------------------
(* Each half within the whole.  What TcpdServer assumes of the packets,    *)
(* and TcpdClient of the replies, is what the other half does.             *)

LEMMA ReceiverSteps ==
  ASSUME IInv, Client!WindowWithinBounds, [Fresh]_vars, [Next]_vars
  PROVE  Server!Next \/ UNCHANGED Server!vars
<1>1. ASSUME UNCHANGED <<serverVars, ackNet>>
      PROVE  UNCHANGED Server!vars
  BY <1>1 DEF serverVars, Server!vars, Server!tcpdsVars, Server!ftpsVars
<1>2. CASE Ftpc \/ Local \/ \E n \in Client!Ids : Expiry(n) \/ Expire(n)
  BY <1>1, <1>2 DEF Ftpc, Local, Expiry, Expire
<1>3. CASE DropPacket \/ UNCHANGED vars
  BY <1>1, <1>3 DEF DropPacket, vars
<1>4. CASE FtpsStep
  BY <1>4 DEF FtpsStep, Server!Next
<1>5. ASSUME Fresh, NEW n \in Client!Seqs, NEW ok \in Arrival, Deliver(n, ok)
      PROVE  Server!Next
  <2>1. /\ n \in net /\ Server!RecvPacket(Server!Packet(n, ok)) /\ ok \in BOOLEAN
        /\ last_sent - AckSlots < n
    BY <1>5 DEF Deliver, Arrival, Fresh
  <2>2. n \in 0..FinSeq /\ n <= last_sent + WindowSize
    BY <2>1, SentFits DEF WithinServerWindow
  <2> DEFINE p == Server!Packet(n, ok)
  <2>3. p \in Server!Packets
    BY <2>1, <2>2 DEF Server!Packets
  <2>4. p.seq = n
    BY DEF Server!Packet
  <2> HIDE DEF p
  <2>5. p \in Server!Arrivals
    BY <2>1, <2>2, <2>3, <2>4 DEF Server!Arrivals
  <2>6. Server!RecvPacket(p)
    BY <2>1 DEF p
  <2> QED BY <2>5, <2>6 DEF Server!Next
<1>6. ASSUME NEW a \in ackNet, NEW ok \in Arrival, Reply(a, ok)
      PROVE  Server!Next \/ UNCHANGED Server!vars
  <2>1. UNCHANGED serverVars /\ (ackNet' = ackNet \/ ackNet' = ackNet \ {a})
    BY <1>6 DEF Reply, Without
  <2>2. UNCHANGED <<Server!tcpdsVars, toFtps, Server!ftpsVars>>
    BY <2>1 DEF serverVars, Server!tcpdsVars, Server!ftpsVars
  <2> QED BY <1>1, <2>1, <2>2 DEF Server!Next, Server!AcksLeave
<1>7. CASE DropReply
  <2>1. UNCHANGED <<Server!tcpdsVars, toFtps, Server!ftpsVars>> /\ \E a \in ackNet : ackNet' = ackNet \ {a}
    BY <1>7 DEF DropReply, serverVars, Server!tcpdsVars, Server!ftpsVars
  <2> QED BY <2>1 DEF Server!Next, Server!AcksLeave
<1> QED BY <1>2, <1>3, <1>4, <1>5, <1>6, <1>7 DEF Next

(* tcpds and ftps, within the whole transfer, are TcpdServer. *)
THEOREM ReceiverWithin == GoodRun => ReceiverSpec
<1>1. IInv /\ Client!WindowWithinBounds /\ [Fresh]_vars /\ [Next]_vars => [Server!Next]_(Server!vars)
  BY ReceiverSteps
<1>2. Init => Server!Init
  BY DEF Init
<1> QED BY <1>1, <1>2, Consistent, PTL
        DEF GoodRun, Spec, NoOverrun, NoOldCopy, ReceiverSpec, Server!Spec

LEMMA SenderSame ==
  ASSUME NEW a
  PROVE  /\ Client!FtpcSleep /\ LastTaken' = LastTaken => Sender!FtpcSleep
         /\ Client!FtpcSend /\ LastTaken' = LastTaken => Sender!FtpcSend
         /\ Client!RecvLocal /\ 0..LastTaken' = 0..LastTaken \cup {Head(local)} => Sender!RecvLocal
         /\ /\ Client!RecvExpiry(a) /\ LastTaken' = LastTaken
            /\ Client!FindResend(a) # Client!OutOfBuffer
                 => buffer[Client!FindResend(a)] \in 0..LastTaken \cup {Client!Free}
            => Sender!RecvExpiry(a)
         /\ Client!RecvReply(a) /\ LastTaken' = LastTaken => Sender!RecvReply(a)
         /\ Client!Expire(a) /\ LastTaken' = LastTaken => Sender!Expire(a)
<1>1. \A bag, n : Client!Plus(bag, n) = Sender!Plus(bag, n) /\ Client!Minus(bag, n) = Sender!Minus(bag, n)
  BY DEF Client!Plus, Client!Minus, Sender!Plus, Sender!Minus
<1>2. \A msg : Client!Signal(msg) = Sender!Signal(msg)
  BY DEF Client!Signal, Sender!Signal
<1>3. /\ \A w : Client!WindowEmpty(w) <=> Sender!WindowEmpty(w)
      /\ \A n : Client!WindowWith(n) = Sender!WindowWith(n)
  BY DEF Client!WindowEmpty, Client!WindowWith, Client!WinSlots, Client!Free,
         Sender!WindowEmpty, Sender!WindowWith, Sender!WinSlots, Sender!Free
<1>4. Client!FindResend(a) = Sender!FindResend(a)
  BY DEF Client!FindResend, Client!Windowed, Client!BufSlots, Client!WinSlots, Client!Free,
         Sender!FindResend, Sender!Windowed, Sender!BufSlots, Sender!WinSlots, Sender!Free
<1>5. /\ Client!FtpcSleep /\ LastTaken' = LastTaken => Sender!FtpcSleep
      /\ Client!FtpcSend /\ LastTaken' = LastTaken => Sender!FtpcSend
  BY DEF Client!FtpcSleep, Client!FtpcSend, Client!Go, Client!Stop, Client!ftpcVars,
         Client!tcpdcVars, Client!timerVars,
         Sender!FtpcSleep, Sender!FtpcSend, Sender!Go, Sender!Stop, Sender!ftpcVars,
         Sender!tcpdcVars, Sender!timerVars
<1>6. Client!RecvLocal /\ 0..LastTaken' = 0..LastTaken \cup {Head(local)} => Sender!RecvLocal
  BY <1>1, <1>2, <1>3
     DEF Client!RecvLocal, Client!HeadNext, Client!Full, Client!Go, Client!Stop, Client!ftpcVars,
         Sender!RecvLocal, Sender!HeadNext, Sender!Full, Sender!Go, Sender!Stop, Sender!ftpcVars
<1>7. /\ Client!RecvExpiry(a) /\ LastTaken' = LastTaken
      /\ Client!FindResend(a) # Client!OutOfBuffer
           => buffer[Client!FindResend(a)] \in 0..LastTaken \cup {Client!Free}
      => Sender!RecvExpiry(a)
  <2> SUFFICES ASSUME Client!RecvExpiry(a), LastTaken' = LastTaken,
                      Client!FindResend(a) # Client!OutOfBuffer
                        => buffer[Client!FindResend(a)] \in 0..LastTaken \cup {Client!Free}
               PROVE  Sender!RecvExpiry(a)
    OBVIOUS
  <2> DEFINE r == Client!FindResend(a)
  <2>1. r # Client!OutOfBuffer => 0..LastTaken = 0..LastTaken \cup ({buffer[r]} \ {Client!Free})
    OBVIOUS
  <2> HIDE DEF r
  <2>2. /\ mode = "run" /\ expired[a] > 0 /\ expired' = Client!Minus(expired, a)
        /\ resendpacket' = r
        /\ IF r = Client!OutOfBuffer THEN mode' = "crashed" /\ UNCHANGED alarms
           ELSE alarms' = Client!Plus(alarms, buffer[r]) /\ UNCHANGED mode
        /\ UNCHANGED <<Client!ftpcVars, local, control, window, window_pointer, buffer, head>>
    BY DEF Client!RecvExpiry, r
  <2>3. r = Sender!FindResend(a)
    BY <1>4 DEF r
  <2> QED BY <1>1, <2>1, <2>2, <2>3
          DEF Client!OutOfBuffer, Client!Free, Client!ftpcVars,
              Sender!RecvExpiry, Sender!OutOfBuffer, Sender!Free, Sender!ftpcVars
<1>8. Client!RecvReply(a) /\ LastTaken' = LastTaken => Sender!RecvReply(a)
  <2>1. Client!RecvAck(a) <=> Sender!RecvAck(a)
    BY <1>1, <1>2, <1>3
       DEF Client!RecvAck, Client!Cleared, Client!Emptied, Client!WinSlots, Client!Free, Client!Go,
           Sender!RecvAck, Sender!Cleared, Sender!Emptied, Sender!WinSlots, Sender!Free, Sender!Go
  <2>2. Client!RecvFinAgain(a) <=> Sender!RecvFinAgain(a)
    BY <1>1, <1>2 DEF Client!RecvFinAgain, Client!Stop, Sender!RecvFinAgain, Sender!Stop
  <2> QED
    BY <2>1, <2>2
       DEF Client!RecvReply, Client!RecvFinAck, Client!RecvGarbledReply, Client!ftpcVars,
           Sender!RecvReply, Sender!RecvFinAck, Sender!RecvGarbledReply, Sender!ftpcVars
<1>9. Client!Expire(a) /\ LastTaken' = LastTaken => Sender!Expire(a)
  BY <1>1 DEF Client!Expire, Client!ftpcVars, Client!tcpdcVars,
              Sender!Expire, Sender!ftpcVars, Sender!tcpdcVars
<1> QED BY <1>5, <1>6, <1>7, <1>8, <1>9

(* A reply tcpds sends is one that TcpdClient expects. *)
LEMMA RepliesExpected ==
  ASSUME IInv, NEW a \in ackNet, NEW ok \in BOOLEAN
  PROVE  [kind |-> a.kind, seq |-> a.seq, finack |-> a.finack, ok |-> ok] \in Sender!Replies
<1>1. /\ a.kind \in {"ack", "finack"} /\ a.seq \in 0..FinSeq /\ a.finack \in BOOLEAN
      /\ a.kind = "ack" => a.seq <= last_sent
      /\ a.kind = "finack" => a.finack = TRUE
      /\ last_sent \in -1..(FinSeq - 1) /\ last_sent <= LastTaken
      /\ a.kind = "finack" => a.seq = FinSeq /\ a.seq <= LastTaken
      /\ LastTaken \in -1..FinSeq
  <2>1. Receiver!IInv /\ Client!TypeOK /\ LocalInOrder
    BY DEF IInv
  <2> QED BY <2>1, AckFacts, ReceiverFacts, TakenFacts DEF IInv, OnlyTaken
<1>2. a.seq <= LastTaken
  BY <1>1, TransferSizes
<1>3. 0..a.seq \subseteq 0..LastTaken
  BY <1>1, <1>2, TransferSizes
<1>4. CASE a.kind = "ack"
  <2>1. a.seq \in 0..(FinSeq - 1)
    BY <1>1, <1>4, TransferSizes
  <2>2. Sender!Ack(a.seq, a.finack, ok) \in Sender!Replies
    BY <1>1, <1>3, <2>1 DEF Sender!Replies
  <2> QED BY <1>4, <2>2 DEF Sender!Ack
<1>5. CASE a.kind = "finack"
  <2>1. a.seq = FinSeq
    BY <1>1, <1>5
  <2>2. Sender!FinAck(a.seq, ok) \in Sender!Replies
    BY <1>3, <2>1 DEF Sender!Replies
  <2> QED BY <1>1, <1>5, <2>2 DEF Sender!FinAck
<1> QED BY <1>1, <1>4, <1>5

LEMMA SenderSteps ==
  ASSUME IInv, [Next]_vars
  PROVE  Sender!Next \/ UNCHANGED Sender!vars
<1>1. ASSUME UNCHANGED clientVars
      PROVE  UNCHANGED Sender!vars
  <2>1. LastTaken' = LastTaken
    BY <1>1 DEF clientVars, LastTaken
  <2> QED BY <1>1, <2>1
          DEF clientVars, Sender!vars, Sender!ftpcVars, Sender!tcpdcVars, Sender!timerVars
<1>2. CASE Ftpc
  <2>1. LastTaken' = LastTaken
    BY <1>2, FtpcTakesNothing
  <2> QED BY <1>2, <2>1, SenderSame DEF Ftpc, Sender!Next
<1>3. CASE Local
  <2>1. Client!RecvLocal /\ local # <<>> /\ local' = Tail(local) /\ next' = next
    BY <1>3 DEF Local, Client!RecvLocal, Client!ftpcVars
  <2>2. /\ next \in Int /\ local \in Seq(0..FinSeq) /\ Len(local) \in Nat
        /\ LastTaken \in Int /\ LastTaken \in -1..FinSeq
        /\ \A i \in 1..Len(local) : local[i] = LastTaken + i
    BY TakenFacts, TransferSizes DEF IInv, LocalInOrder
  <2>3. Head(local) = LastTaken + 1
    BY <2>1, <2>2, InOrder
  <2>4. LastTaken' = LastTaken + 1
    BY <2>1, <2>2 DEF LastTaken
  <2>5. 0..(LastTaken + 1) = 0..LastTaken \cup {LastTaken + 1}
    BY <2>2, TransferSizes
  <2>6. 0..LastTaken' = 0..LastTaken \cup {Head(local)}
    BY <2>3, <2>4, <2>5
  <2> QED BY <2>1, <2>6, SenderSame DEF Sender!Next
<1>4. ASSUME NEW n \in Client!Ids, Expiry(n) \/ Expire(n)
      PROVE  Sender!Next
  <2>1. n \in Sender!Ids
    BY DEF Client!Ids, Client!Seqs, Client!Free, Sender!Ids, Sender!Seqs, Sender!Free
  <2>2. LastTaken' = LastTaken
    BY <1>4 DEF Expiry, Expire, Client!RecvExpiry, Client!Expire, Client!ftpcVars, LastTaken
  <2>3. Client!FindResend(n) # Client!OutOfBuffer
          => buffer[Client!FindResend(n)] \in 0..LastTaken \cup {Client!Free}
    <3> SUFFICES ASSUME Client!FindResend(n) # Client!OutOfBuffer
                 PROVE  buffer[Client!FindResend(n)] \in 0..LastTaken \cup {Client!Free}
      OBVIOUS
    <3>1. Client!FindResend(n) \in Client!BufSlots
      BY ResentFromBuffer DEF IInv
    <3> DEFINE m == buffer[Client!FindResend(n)]
    <3>2. m \in 0..FinSeq \cup {Client!Free} /\ m <= LastTaken
      BY <3>1 DEF IInv, OnlyTaken, Client!TypeOK, Client!Ids, Client!Seqs
    <3> HIDE DEF m
    <3>3. LastTaken \in -1..FinSeq
      BY TakenFacts DEF IInv
    <3>4. m \in 0..LastTaken \cup {Client!Free}
      BY <3>2, <3>3, TransferSizes
    <3> QED BY <3>4 DEF m
  <2>4. Sender!RecvExpiry(n) \/ Sender!Expire(n)
    BY <1>4, <2>2, <2>3, SenderSame DEF Expiry, Expire
  <2> QED BY <2>1, <2>4 DEF Sender!Next
<1>5. ASSUME NEW a \in ackNet, NEW ok \in Arrival, Reply(a, ok)
      PROVE  Sender!Next
  <2> DEFINE r == [kind |-> a.kind, seq |-> a.seq, finack |-> a.finack, ok |-> ok]
  <2>1. Client!RecvReply(r)
    BY <1>5 DEF Reply
  <2>2. r \in Sender!Replies
    <3>1. ok \in BOOLEAN
      BY DEF Arrival
    <3> QED BY <3>1, RepliesExpected
  <2> HIDE DEF r
  <2>3. LastTaken' = LastTaken
    BY <2>1 DEF Client!RecvReply, Client!ftpcVars, LastTaken
  <2>4. Sender!RecvReply(r)
    BY <2>1, <2>3, SenderSame
  <2> QED BY <2>2, <2>4 DEF Sender!Next
<1>6. CASE FtpsStep \/ DropPacket \/ DropReply \/ UNCHANGED vars
           \/ \E n \in Client!Seqs, ok \in Arrival : Deliver(n, ok)
  BY <1>1, <1>6 DEF FtpsStep, DropPacket, DropReply, Deliver, vars
<1> QED BY <1>2, <1>3, <1>4, <1>5, <1>6 DEF Next

(* ftpc and tcpdc, within the whole transfer, are TcpdClient. *)
THEOREM SenderWithin == GoodRun => SenderSpec
<1>1. IInv /\ [Next]_vars => [Sender!Next]_(Sender!vars)
  BY SenderSteps
<1>2. Init => Sender!Init
  <2> SUFFICES ASSUME Init PROVE Sender!Init
    OBVIOUS
  <2>1. Client!Init
    BY DEF Init
  <2>2. next = 0 /\ Len(local) = 1
    BY <2>1 DEF Client!Init
  <2>3. 0..LastTaken = {}
    BY <2>2 DEF LastTaken
  <2> QED BY <2>1, <2>3
          DEF Client!Init, Client!WinSlots, Client!BufSlots, Client!Ids, Client!Seqs, Client!Free,
              Sender!Init, Sender!WinSlots, Sender!BufSlots, Sender!Ids, Sender!Seqs, Sender!Free
<1> QED BY <1>1, <1>2, Consistent, PTL DEF GoodRun, Spec, SenderSpec, Sender!Spec

LEMMA SameReceiverSpec == Server!Spec => SP!Spec
<1>1. Server!Init => SP!Init
  BY DEF Server!Init, Server!WinSlots, Server!BufSlots, Server!RingSlots, Server!Free,
         Server!ZeroPacket,
         SP!Init, SP!WinSlots, SP!BufSlots, SP!RingSlots, SP!Free, SP!ZeroPacket
<1>2. [Server!Next]_(Server!vars) => [SP!Next]_(SP!vars)
  <2>1. Server!Arrivals = SP!Arrivals
    BY DEF Server!Arrivals, Server!Packets, Server!Packet, SP!Arrivals, SP!Packets, SP!Packet
  <2>2. Server!AcksLeave => SP!AcksLeave
    BY DEF Server!AcksLeave, Server!tcpdsVars, Server!ftpsVars,
           SP!AcksLeave, SP!tcpdsVars, SP!ftpsVars
  <2>3. Server!Next => SP!Next
    BY <2>1, <2>2, SameReceiver DEF Server!Next, SP!Next
  <2>4. UNCHANGED Server!vars => UNCHANGED SP!vars
    BY DEF Server!vars, Server!tcpdsVars, Server!ftpsVars, SP!vars, SP!tcpdsVars, SP!ftpsVars
  <2> QED BY <2>3, <2>4
<1> QED BY <1>1, <1>2, PTL DEF Server!Spec, SP!Spec

(* What TcpdServerProofs shows of tcpds alone holds of the whole transfer: *)
(* a copy of a delivered packet is acknowledged again, the packet ftps     *)
(* waits for is passed on by the step that receives it, and a packet that  *)
(* waits stays in the window until then.                                   *)
THEOREM ReceiverKeepsPromises ==
  GoodRun => Server!DuplicateReAcked /\ Server!NextIsDelivered /\ Server!WaitingKept
<1>1. Server!Spec => SP!Spec
  BY SameReceiverSpec
<1>2. Server!Arrivals = SP!Arrivals /\ Server!WinSlots = SP!WinSlots /\ Server!Free = SP!Free
      /\ Server!vars = SP!vars
  BY DEF Server!Arrivals, Server!Packets, Server!Packet, SP!Arrivals, SP!Packets, SP!Packet,
         Server!WinSlots, SP!WinSlots, Server!Free, SP!Free,
         Server!vars, Server!tcpdsVars, Server!ftpsVars, SP!vars, SP!tcpdsVars, SP!ftpsVars
<1>3. SP!DuplicateReAcked => Server!DuplicateReAcked
  <2> DEFINE A == \A p \in Server!Arrivals :
                    p.ok /\ p.seq <= last_sent /\ Server!RecvPacket(p) => Server!Ack(p.seq) \in ackNet'
             B == \A p \in SP!Arrivals :
                    p.ok /\ p.seq <= last_sent /\ SP!RecvPacket(p) => SP!Ack(p.seq) \in ackNet'
  <2>1. [B]_(SP!vars) => [A]_(Server!vars)
    BY <1>2, SameReceiver DEF Server!Ack, SP!Ack, Server!vars, Server!tcpdsVars, Server!ftpsVars,
                              SP!vars, SP!tcpdsVars, SP!ftpsVars
  <2>2. [][B]_(SP!vars) => [][A]_(Server!vars)
    BY <2>1, PTL
  <2> QED BY <2>2 DEF SP!DuplicateReAcked, Server!DuplicateReAcked
<1>4. SP!NextIsDelivered => Server!NextIsDelivered
  <2> DEFINE A == \A p \in Server!Arrivals :
                    p.ok /\ p.seq = last_sent + 1 /\ Server!RecvPacket(p)
                      => last_sent' = last_sent + 1 \/ exited'
             B == \A p \in SP!Arrivals :
                    p.ok /\ p.seq = last_sent + 1 /\ SP!RecvPacket(p)
                      => last_sent' = last_sent + 1 \/ exited'
  <2>1. [B]_(SP!vars) => [A]_(Server!vars)
    BY <1>2, SameReceiver DEF Server!vars, Server!tcpdsVars, Server!ftpsVars,
                              SP!vars, SP!tcpdsVars, SP!ftpsVars
  <2>2. [][B]_(SP!vars) => [][A]_(Server!vars)
    BY <2>1, PTL
  <2> QED BY <2>2 DEF SP!NextIsDelivered, Server!NextIsDelivered
<1>5. SP!WaitingKept => Server!WaitingKept
  <2> DEFINE A == \A k \in Server!WinSlots :
                    server_window[k] # Server!Free /\ server_window'[k] # server_window[k]
                      => server_window[k] = last_sent + 1
             B == \A k \in SP!WinSlots :
                    server_window[k] # SP!Free /\ server_window'[k] # server_window[k]
                      => server_window[k] = last_sent + 1
  <2>1. [B]_(SP!vars) => [A]_(Server!vars)
    BY <1>2 DEF Server!vars, Server!tcpdsVars, Server!ftpsVars,
                SP!vars, SP!tcpdsVars, SP!ftpsVars
  <2>2. [][B]_(SP!vars) => [][A]_(Server!vars)
    BY <2>1, PTL
  <2> QED BY <2>2 DEF SP!WaitingKept, Server!WaitingKept
<1>6. SP!Spec => SP!DuplicateReAcked /\ SP!NextIsDelivered /\ SP!WaitingKept
  BY SP!CopyReAcked, SP!NextDelivered, SP!WaitingStays, TransferSizes
<1> QED BY <1>1, <1>3, <1>4, <1>5, <1>6, ReceiverWithin DEF ReceiverSpec

LEMMA SameSender ==
  ASSUME NEW a
  PROVE  /\ Sender!FtpcSleep => SC!FtpcSleep
         /\ Sender!FtpcSend => SC!FtpcSend
         /\ Sender!RecvLocal => SC!RecvLocal
         /\ Sender!RecvExpiry(a) => SC!RecvExpiry(a)
         /\ Sender!RecvReply(a) => SC!RecvReply(a)
         /\ Sender!Expire(a) => SC!Expire(a)
<1>1. \A bag, n : Sender!Plus(bag, n) = SC!Plus(bag, n) /\ Sender!Minus(bag, n) = SC!Minus(bag, n)
  BY DEF Sender!Plus, Sender!Minus, SC!Plus, SC!Minus
<1>2. \A msg : Sender!Signal(msg) = SC!Signal(msg)
  BY DEF Sender!Signal, SC!Signal
<1>3. /\ \A w : Sender!WindowEmpty(w) <=> SC!WindowEmpty(w)
      /\ \A n : Sender!WindowWith(n) = SC!WindowWith(n)
  BY DEF Sender!WindowEmpty, Sender!WindowWith, Sender!WinSlots, Sender!Free,
         SC!WindowEmpty, SC!WindowWith, SC!WinSlots, SC!Free
<1>4. Sender!FindResend(a) = SC!FindResend(a)
  BY DEF Sender!FindResend, Sender!Windowed, Sender!BufSlots, Sender!WinSlots, Sender!Free,
         SC!FindResend, SC!Windowed, SC!BufSlots, SC!WinSlots, SC!Free
<1>5. /\ Sender!FtpcSleep => SC!FtpcSleep
      /\ Sender!FtpcSend => SC!FtpcSend
  BY DEF Sender!FtpcSleep, Sender!FtpcSend, Sender!Go, Sender!Stop, Sender!ftpcVars,
         Sender!tcpdcVars, Sender!timerVars,
         SC!FtpcSleep, SC!FtpcSend, SC!Go, SC!Stop, SC!ftpcVars,
         SC!tcpdcVars, SC!timerVars
<1>6. Sender!RecvLocal => SC!RecvLocal
  BY <1>1, <1>2, <1>3
     DEF Sender!RecvLocal, Sender!HeadNext, Sender!Full, Sender!Go, Sender!Stop, Sender!ftpcVars,
         SC!RecvLocal, SC!HeadNext, SC!Full, SC!Go, SC!Stop, SC!ftpcVars
<1>7. Sender!RecvExpiry(a) => SC!RecvExpiry(a)
  BY <1>1, <1>4
     DEF Sender!RecvExpiry, Sender!OutOfBuffer, Sender!Free, Sender!ftpcVars,
         SC!RecvExpiry, SC!OutOfBuffer, SC!Free, SC!ftpcVars
<1>8. Sender!RecvReply(a) => SC!RecvReply(a)
  <2>1. Sender!RecvAck(a) <=> SC!RecvAck(a)
    BY <1>1, <1>2, <1>3
       DEF Sender!RecvAck, Sender!Cleared, Sender!Emptied, Sender!WinSlots, Sender!Free, Sender!Go,
           SC!RecvAck, SC!Cleared, SC!Emptied, SC!WinSlots, SC!Free, SC!Go
  <2>2. Sender!RecvFinAgain(a) <=> SC!RecvFinAgain(a)
    BY <1>1, <1>2 DEF Sender!RecvFinAgain, Sender!Stop, SC!RecvFinAgain, SC!Stop
  <2> QED
    BY <2>1, <2>2
       DEF Sender!RecvReply, Sender!RecvFinAck, Sender!RecvGarbledReply, Sender!ftpcVars,
           SC!RecvReply, SC!RecvFinAck, SC!RecvGarbledReply, SC!ftpcVars
<1>9. Sender!Expire(a) => SC!Expire(a)
  BY <1>1 DEF Sender!Expire, Sender!ftpcVars, Sender!tcpdcVars,
              SC!Expire, SC!ftpcVars, SC!tcpdcVars
<1> QED BY <1>5, <1>6, <1>7, <1>8, <1>9

LEMMA SameSenderSpec == Sender!Spec => SC!Spec
<1>1. Sender!Init => SC!Init
  BY DEF Sender!Init, Sender!WinSlots, Sender!BufSlots, Sender!Ids, Sender!Seqs, Sender!Free,
         SC!Init, SC!WinSlots, SC!BufSlots, SC!Ids, SC!Seqs, SC!Free
<1>2. [Sender!Next]_(Sender!vars) => [SC!Next]_(SC!vars)
  <2>1. Sender!Ids = SC!Ids
    BY DEF Sender!Ids, Sender!Seqs, Sender!Free, SC!Ids, SC!Seqs, SC!Free
  <2>2. Sender!Replies = SC!Replies
    BY DEF Sender!Replies, Sender!Ack, Sender!FinAck, SC!Replies, SC!Ack, SC!FinAck
  <2>3. Sender!Next => SC!Next
    BY <2>1, <2>2, SameSender DEF Sender!Next, SC!Next
  <2>4. UNCHANGED Sender!vars => UNCHANGED SC!vars
    BY DEF Sender!vars, Sender!ftpcVars, Sender!tcpdcVars, Sender!timerVars,
           SC!vars, SC!ftpcVars, SC!tcpdcVars, SC!timerVars
  <2> QED BY <2>3, <2>4
<1> QED BY <1>1, <1>2, PTL DEF Sender!Spec, SC!Spec

(* What TcpdClientProofs shows of tcpdc alone holds of the whole transfer: *)
(* every unacknowledged packet is in the buffer and has a timer or an      *)
(* expiry message on the way, and ftpc is never left without a signal.     *)
THEOREM SenderKeepsPromises ==
  GoodRun => [](Client!WindowInBuffer /\ Client!WindowedHasTimer /\ Client!GoNotLost)
<1>1. Sender!Spec => SC!Spec
  BY SameSenderSpec
<1>2. SC!Spec => []SC!WindowInBuffer /\ []SC!WindowedHasTimer /\ []SC!GoNotLost
  BY SC!WindowBuffered, SC!TimersCover, SC!SignalsReach, TransferSizes
<1>3. SC!WindowInBuffer /\ SC!WindowedHasTimer /\ SC!GoNotLost
        => Client!WindowInBuffer /\ Client!WindowedHasTimer /\ Client!GoNotLost
  BY DEF SC!WindowInBuffer, SC!WindowedHasTimer, SC!GoNotLost, SC!WinSlots, SC!Free, SC!Seqs,
         SC!Windowed, SC!WindowEmpty, SC!Go,
         Client!WindowInBuffer, Client!WindowedHasTimer, Client!GoNotLost, Client!WinSlots,
         Client!Free, Client!Seqs, Client!Windowed, Client!WindowEmpty, Client!Go
<1> QED BY <1>1, <1>2, <1>3, SenderWithin, PTL DEF SenderSpec
===============================================================================
