--------------------------- MODULE TcpdServerProofs ---------------------------
(***************************************************************************)
(* Proofs about tcpds and ftps, for every size of the window, the buffer   *)
(* and the ring of acknowledgements and every length of the file.          *)
(***************************************************************************)
EXTENDS TcpdServerInv, RingLemmas, FiniteSetTheorems

-------------------------------------------------------------------------------
(* Facts about the definitions.                                            *)

LEMMA PacketFacts ==
  /\ \A n \in 0..FinSeq, ok \in BOOLEAN : Packet(n, ok) \in Packets
  /\ \A p \in Packets : /\ p = Packet(p.seq, p.ok)
                        /\ p.seq \in 0..FinSeq /\ p.ok \in BOOLEAN
                        /\ p.fin <=> p.seq = FinSeq
  /\ \A p \in Packets \cup {ZeroPacket} : p.seq \in 0..FinSeq
<1>1. \A n \in 0..FinSeq, ok \in BOOLEAN : Packet(n, ok) \in Packets
  BY DEF Packets
<1>2. ASSUME NEW p \in Packets
      PROVE  /\ p = Packet(p.seq, p.ok)
             /\ p.seq \in 0..FinSeq /\ p.ok \in BOOLEAN
             /\ p.fin <=> p.seq = FinSeq
  <2>1. PICK n \in 0..FinSeq, ok \in BOOLEAN : p = Packet(n, ok)
    BY DEF Packets
  <2> QED BY <2>1 DEF Packet
<1>3. ZeroPacket.seq \in 0..FinSeq
  BY ServerSizes DEF ZeroPacket
<1> QED BY <1>1, <1>2, <1>3

LEMMA SearchSlots ==
  ASSUME NEW win, NEW buf, NEW low
  PROVE  FindLowIndex(win, low) \subseteq WinSlots /\ FindLowInBuffer(buf, low) \subseteq BufSlots
  BY DEF FindLowIndex, FindLowInBuffer

(* What filing a datagram does to the types of the window and the buffer. *)
LEMMA FileTypes ==
  ASSUME TypeOK, NEW p \in Packets
  PROVE  /\ WindowWith(p) \in [WinSlots -> 0..FinSeq \cup {Free}]
         /\ BufferWith(p) \in [BufSlots -> Packets \cup {ZeroPacket}]
         /\ HeadAfter(p) \in BufSlots
         /\ ReAck(p) \subseteq {Ack(n) : n \in 0..FinSeq}
<1>1. p.seq \in 0..FinSeq
  BY PacketFacts
<1>2. WindowWith(p) \in [WinSlots -> 0..FinSeq \cup {Free}]
  <2>1. [server_window EXCEPT ![p.seq % WindowSize] = p.seq] \in [WinSlots -> 0..FinSeq \cup {Free}]
    <3> DEFINE V == 0..FinSeq \cup {Free}  k == p.seq % WindowSize
    <3>1. p.seq \in V /\ server_window \in [WinSlots -> V]
      BY <1>1 DEF TypeOK
    <3> HIDE DEF V, k
    <3>2. [server_window EXCEPT ![k] = p.seq] \in [WinSlots -> V]
      BY <3>1
    <3> QED BY <3>2 DEF V, k
  <2> QED BY <2>1 DEF WindowWith, TypeOK
<1>3. BufferWith(p) \in [BufSlots -> Packets \cup {ZeroPacket}]
  BY DEF BufferWith, TypeOK
<1>4. HeadAfter(p) \in BufSlots
  BY ServerSizes DEF HeadAfter, TypeOK, BufSlots
<1>5. ReAck(p) \subseteq {Ack(n) : n \in 0..FinSeq}
  BY <1>1 DEF ReAck
<1> QED BY <1>2, <1>3, <1>4, <1>5

-------------------------------------------------------------------------------
(* Type correctness.                                                       *)

LEMMA TypeInit == Init => TypeOK
<1> SUFFICES ASSUME Init PROVE TypeOK
  OBVIOUS
<1> QED BY ServerSizes DEF Init, TypeOK, BufSlots, RingSlots

(* finack is never written, so what a reply can be does not change. *)
LEMMA RepliesKept == finack' = finack => Replies' = Replies
  BY DEF Replies, Ack, FinAck

LEMMA TypeRecv ==
  ASSUME TypeOK, NEW p \in Packets, RecvPacket(p)
  PROVE  TypeOK'
<1>0. UNCHANGED <<finack, ftpsVars>> /\ Replies' = Replies
  BY RepliesKept DEF RecvPacket
<1>1. CASE RecvGarbled(p)
  BY <1>0, <1>1, FileTypes DEF RecvGarbled, ftpsVars, TypeOK
<1>2. CASE RecvAndWait(p)
  <2>1. ackNet' \subseteq Replies
    BY <1>2, FileTypes DEF RecvAndWait, TypeOK, Replies
  <2> QED BY <1>0, <1>2, <2>1, FileTypes DEF RecvAndWait, ftpsVars, TypeOK
<1>3. CASE RecvAndDeliver(p)
  <2> DEFINE low == FindLow(WindowWith(p))
  <2>1. PICK b \in FindLowInBuffer(BufferWith(p), low), k \in FindLowIndex(WindowWith(p), low) :
          LET out == BufferWith(p)[b] IN
          /\ toFtps' = Append(toFtps, out)
          /\ last_sent' = out.seq
          /\ acks' = [acks EXCEPT ![ack_pointer] = out.seq]
          /\ ack_pointer' = IF ack_pointer < AckSlots - 1 THEN ack_pointer + 1 ELSE 0
          /\ ackNet' = ackNet \cup ReAck(p) \cup {Ack(out.seq)}
          /\ server_window' = [WindowWith(p) EXCEPT ![k] = Free]
    BY <1>3 DEF RecvAndDeliver
  <2> DEFINE out == BufferWith(p)[b]
  <2>2. b \in BufSlots /\ k \in WinSlots
    BY SearchSlots
  <2>3. out \in Packets \cup {ZeroPacket} /\ out.seq \in 0..FinSeq
    BY <2>2, FileTypes, PacketFacts
  <2>4. toFtps' \in Seq(Packets \cup {ZeroPacket, UninitPacket})
    BY <2>1, <2>3 DEF TypeOK
  <2>5. ackNet' \subseteq Replies
    <3>1. Ack(out.seq) \in {Ack(n) : n \in 0..FinSeq}
      BY <2>3
    <3>2. ackNet' = ackNet \cup ReAck(p) \cup {Ack(out.seq)}
      BY <2>1
    <3> HIDE DEF out
    <3> QED BY <3>1, <3>2, FileTypes DEF TypeOK, Replies
  <2>6. server_window' \in [WinSlots -> 0..FinSeq \cup {Free}]
    <3>1. server_window' = [WindowWith(p) EXCEPT ![k] = Free]
      BY <2>1
    <3> QED BY <3>1, FileTypes
  <2>7. acks' \in [RingSlots -> 0..FinSeq \cup {Free}] /\ last_sent' \in -1..FinSeq
    BY <2>1, <2>3 DEF TypeOK
  <2>8. ack_pointer' \in RingSlots
    BY <2>1, ServerSizes DEF RingSlots, TypeOK
  <2>9. /\ server_buffer' \in [BufSlots -> Packets \cup {ZeroPacket}]
        /\ head' \in BufSlots /\ exited' = exited
    BY <1>3, FileTypes DEF RecvAndDeliver
  <2> QED BY <1>0, <2>4, <2>5, <2>6, <2>7, <2>8, <2>9 DEF ftpsVars, TypeOK
<1>4. CASE RecvFin(p)
  <2> DEFINE low == FindLow(WindowWith(p))
  <2>1. PICK b \in FindLowInBuffer(BufferWith(p), low), k \in FindLowIndex(WindowWith(p), low) :
          LET out == BufferWith(p)[b] IN
          /\ toFtps' = toFtps \o <<out, UninitPacket>>
          /\ ackNet' = ackNet \cup ReAck(p) \cup {FinAck(out.seq, 1), FinAck(out.seq, 2)}
          /\ server_window' = [WindowWith(p) EXCEPT ![k] = Free]
    BY <1>4 DEF RecvFin
  <2> DEFINE out == BufferWith(p)[b]
  <2>2. b \in BufSlots /\ k \in WinSlots
    BY SearchSlots
  <2>3. out \in Packets \cup {ZeroPacket} /\ out.seq \in 0..FinSeq
    BY <2>2, FileTypes, PacketFacts
  <2>4. toFtps' \in Seq(Packets \cup {ZeroPacket, UninitPacket})
    <3>1. <<out, UninitPacket>> \in Seq(Packets \cup {ZeroPacket, UninitPacket})
      BY <2>3
    <3> HIDE DEF out
    <3> QED BY <2>1, <3>1 DEF out, TypeOK
  <2>5. ackNet' \subseteq Replies
    <3>1. {FinAck(out.seq, 1), FinAck(out.seq, 2)} \subseteq {FinAck(n, c) : n \in 0..FinSeq, c \in {1, 2}}
      BY <2>3
    <3>2. ackNet' = ackNet \cup ReAck(p) \cup {FinAck(out.seq, 1), FinAck(out.seq, 2)}
      BY <2>1
    <3> HIDE DEF out
    <3> QED BY <3>1, <3>2, FileTypes DEF TypeOK, Replies
  <2>6. server_window' \in [WinSlots -> 0..FinSeq \cup {Free}]
    <3>1. server_window' = [WindowWith(p) EXCEPT ![k] = Free]
      BY <2>1
    <3> QED BY <3>1, FileTypes
  <2>7. /\ server_buffer' \in [BufSlots -> Packets \cup {ZeroPacket}]
        /\ head' \in BufSlots /\ exited' = TRUE
        /\ UNCHANGED <<acks, ack_pointer, last_sent>>
    BY <1>4, FileTypes DEF RecvFin
  <2> QED BY <1>0, <2>4, <2>5, <2>6, <2>7 DEF ftpsVars, TypeOK
<1> QED BY <1>1, <1>2, <1>3, <1>4 DEF RecvPacket

LEMMA TypeStep == TypeOK /\ [Next]_vars => TypeOK'
<1> SUFFICES ASSUME TypeOK, [Next]_vars PROVE TypeOK'
  OBVIOUS
<1>1. ASSUME NEW p \in Arrivals, RecvPacket(p) PROVE TypeOK'
  BY <1>1, TypeRecv DEF Arrivals
<1>2. CASE FtpsWrite
  <2>1. Head(toFtps) \in Packets \cup {ZeroPacket, UninitPacket} /\ ~Head(toFtps).fin
        /\ Tail(toFtps) \in Seq(Packets \cup {ZeroPacket, UninitPacket})
    BY <1>2 DEF FtpsWrite, TypeOK
  <2>2. Block(Head(toFtps)) \in 0..FinSeq \cup {Free}
    BY <2>1, PacketFacts DEF Block, UninitPacket
  <2>3. file' \in Seq(0..FinSeq \cup {Free})
    BY <1>2, <2>2 DEF FtpsWrite, TypeOK
  <2>4. toFtps' = Tail(toFtps) /\ UNCHANGED <<tcpdsVars, ackNet, closed>>
    BY <1>2 DEF FtpsWrite
  <2> QED BY <2>1, <2>3, <2>4, RepliesKept DEF TypeOK, tcpdsVars
<1>3. CASE FtpsClose
  <2>1. Tail(toFtps) \in Seq(Packets \cup {ZeroPacket, UninitPacket})
    BY <1>3 DEF FtpsClose, TypeOK
  <2>2. toFtps' = Tail(toFtps) /\ closed' = TRUE /\ UNCHANGED <<tcpdsVars, ackNet, file>>
    BY <1>3 DEF FtpsClose
  <2> QED BY <2>1, <2>2, RepliesKept DEF TypeOK, tcpdsVars
<1>4. CASE AcksLeave
  BY <1>4, RepliesKept DEF AcksLeave, TypeOK, tcpdsVars, ftpsVars
<1>5. CASE UNCHANGED vars
  BY <1>5, RepliesKept DEF vars, TypeOK, tcpdsVars, ftpsVars
<1> QED BY <1>1, <1>2, <1>3, <1>4, <1>5 DEF Next

(* Every variable of tcpds and ftps keeps its type; head and ack_pointer   *)
(* never leave their rings, whatever the network does.                     *)
THEOREM TypeCorrect == Spec => []TypeOK
<1> QED BY TypeInit, TypeStep, PTL DEF Spec

-------------------------------------------------------------------------------
(* How many packets wait.                                                  *)

LEMMA ValuesFinite ==
  ASSUME NEW win
  PROVE  IsFiniteSet(Values(win)) /\ Cardinality(Values(win)) \in Nat
<1>1. Values(win) \in SUBSET (0..FinSeq) /\ 0 \in Int /\ FinSeq \in Int
  BY ServerSizes DEF Values
<1>2. IsFiniteSet(0..FinSeq)
  BY <1>1, FS_Interval
<1>3. IsFiniteSet(Values(win))
  BY <1>1, <1>2, FS_Subset
<1> QED BY <1>3, FS_CardinalityType

(* No more than Ahead packets wait. *)
LEMMA FewWaiting ==
  ASSUME last_sent \in -1..FinSeq, NEW win, WindowGood(win)
  PROVE  /\ Cardinality(Values(win)) <= Ahead
         /\ \A n \in Values(win) : n \in (last_sent + 1)..(last_sent + Ahead)
<1> DEFINE I == (last_sent + 1)..(last_sent + Ahead)
<1>1. last_sent + 1 \in Int /\ last_sent + Ahead \in Int /\ Ahead \in Nat
  BY ServerSizes
<1>2. \A n \in Values(win) : n \in I
  BY DEF Values, WindowGood, Free
<1>3. IsFiniteSet(I) /\ Cardinality(I) = IF last_sent + 1 > last_sent + Ahead THEN 0
                                         ELSE (last_sent + Ahead) - (last_sent + 1) + 1
  BY <1>1, FS_Interval
<1>4. Cardinality(I) <= Ahead
  BY <1>1, <1>3
<1>5. Cardinality(Values(win)) <= Cardinality(I) /\ Cardinality(I) \in Nat
  <2> HIDE DEF I
  <2> QED BY <1>2, <1>3, FS_Subset, FS_CardinalityType
<1>6. Cardinality(Values(win)) \in Nat
  BY ValuesFinite
<1> QED BY <1>1, <1>2, <1>4, <1>5, <1>6

LEMMA AcceptedNat ==
  ASSUME last_sent \in -1..FinSeq, NEW win
  PROVE  AcceptedWith(win) \in Nat
  BY ValuesFinite DEF AcceptedWith

(* The next slot of the buffer holds no packet that waits. *)
LEMMA SlotDistinct ==
  ASSUME last_sent \in -1..FinSeq, NEW win, WindowGood(win),
         NEW n \in Values(win), NEW a \in 0..(AcceptedWith(win) - 1), n < a + Ahead
  PROVE  a % BufSize # AcceptedWith(win) % BufSize
<1>1. /\ n \in Int /\ last_sent \in Int /\ AcceptedWith(win) \in Nat /\ a \in Int
      /\ Ahead \in Nat /\ BufSize \in Nat \ {0} /\ 2 * Ahead <= BufSize
  BY AcceptedNat, ServerSizes, ServerFits DEF Values
<1>2. Cardinality(Values(win)) <= Ahead /\ last_sent + 1 <= n /\ Cardinality(Values(win)) \in Nat
  BY FewWaiting, ValuesFinite, <1>1
<1>3. AcceptedWith(win) <= n + Ahead
  BY <1>1, <1>2 DEF AcceptedWith
<1>4. /\ a < AcceptedWith(win)
      /\ AcceptedWith(win) - a < BufSize /\ a - AcceptedWith(win) < BufSize
  BY <1>1, <1>3
<1>5. AcceptedWith(win) \in Int
  BY <1>1
<1>6. a % BufSize = AcceptedWith(win) % BufSize => a = AcceptedWith(win)
  BY <1>1, <1>4, <1>5, RingUnique
<1> QED BY <1>1, <1>4, <1>6

-------------------------------------------------------------------------------
(* Filing a datagram.                                                      *)

(* A packet taken for new is ahead of what was delivered, and its slot of  *)
(* the window is free.                                                     *)
LEMMA NewAhead ==
  ASSUME IInv, NEW p \in Arrivals, IsNew(p)
  PROVE  /\ p.seq \in (last_sent + 1)..(last_sent + Ahead)
         /\ p.seq \in 0..FinSeq
         /\ p.seq % WindowSize \in WinSlots
         /\ server_window[p.seq % WindowSize] = Free
         /\ p.seq \notin Values(server_window)
         /\ p = Packet(p.seq, TRUE)
<1> DEFINE s == p.seq
<1>0. /\ last_sent \in -1..FinSeq
      /\ Ahead \in Nat /\ Lag \in Nat /\ WindowSize \in Nat \ {0} /\ AckSlots \in Nat \ {0}
      /\ Ahead <= WindowSize /\ Lag <= AckSlots
  BY ServerSizes, ServerFits DEF IInv, TypeOK
<1>1. /\ s \in 0..FinSeq /\ s <= last_sent + Ahead /\ last_sent - Lag < s
      /\ p = Packet(s, TRUE)
  <2>1. p \in Packets /\ s <= last_sent + Ahead /\ last_sent - Lag < s
    BY DEF Arrivals
  <2>2. p = Packet(s, p.ok) /\ s \in 0..FinSeq /\ p.ok \in BOOLEAN
    BY <2>1, PacketFacts
  <2>3. p.ok = TRUE
    BY <2>2 DEF IsNew
  <2> QED BY <2>1, <2>2, <2>3
<1>2. s > last_sent
  <2> SUFFICES ASSUME s <= last_sent PROVE FALSE
    BY <1>0, <1>1
  <2>1. s \in 0..last_sent /\ last_sent - AckSlots < s
    BY <1>0, <1>1, ServerSizes
  <2>2. acks[s % AckSlots] = s
    BY <2>1 DEF IInv, AcksGood
  <2>3. s % AckSlots \in RingSlots
    BY <1>0, <1>1, RingSlot, ServerSizes DEF RingSlots
  <2> QED BY <2>2, <2>3 DEF IsNew, AlreadyAcked
<1>3. s % WindowSize \in WinSlots
  BY <1>0, <1>1, RingSlot, ServerSizes DEF WinSlots
<1>4. server_window[s % WindowSize] = Free
  <2> DEFINE m == server_window[s % WindowSize]
  <2> SUFFICES ASSUME m # Free PROVE FALSE
    OBVIOUS
  <2>1. m \in 0..FinSeq
    BY <1>3 DEF IInv, TypeOK
  <2>2. m \in (last_sent + 1)..(last_sent + Ahead) /\ s % WindowSize = m % WindowSize
    BY <1>3 DEF IInv, WindowGood
  <2>3. m - s < WindowSize /\ s - m < WindowSize /\ m \in Int /\ s \in Int
    BY <1>0, <1>1, <1>2, <2>1, <2>2, ServerSizes
  <2>4. m = s
    <3> HIDE DEF m, s
    <3> QED BY <1>0, <2>2, <2>3, RingUnique
  <2> QED BY <1>3, <2>4 DEF IsNew, InWindow
<1>5. s \notin Values(server_window)
  BY DEF Values, IsNew, InWindow
<1>6. s \in (last_sent + 1)..(last_sent + Ahead)
  BY <1>0, <1>1, <1>2, ServerSizes
<1> QED BY <1>1, <1>3, <1>4, <1>5, <1>6

(* A new packet joins the window; nothing leaves it. *)
LEMMA NewValues ==
  ASSUME IInv, NEW p \in Arrivals, IsNew(p)
  PROVE  /\ Values(WindowWith(p)) = Values(server_window) \cup {p.seq}
         /\ AcceptedWith(WindowWith(p)) = Accepted + 1
<1> DEFINE k == p.seq % WindowSize
<1>1. WindowWith(p) = [server_window EXCEPT ![k] = p.seq]
  BY DEF WindowWith
<1>2. /\ p.seq \in 0..FinSeq /\ k \in WinSlots
      /\ server_window[k] = Free /\ p.seq \notin Values(server_window)
  BY NewAhead
<1>3. /\ server_window \in [WinSlots -> 0..FinSeq \cup {Free}] /\ last_sent \in -1..FinSeq
  BY DEF IInv, TypeOK
<1>4. \A n \in 0..FinSeq : n # Free
  BY ServerSizes DEF Free
<1> HIDE DEF k
<1>5. \A j \in WinSlots : WindowWith(p)[j] = IF j = k THEN p.seq ELSE server_window[j]
  BY <1>1, <1>2, <1>3
<1>6. Values(WindowWith(p)) = Values(server_window) \cup {p.seq}
  BY <1>2, <1>4, <1>5 DEF Values
<1>7. Cardinality(Values(WindowWith(p))) = Cardinality(Values(server_window)) + 1
  BY <1>2, <1>6, ValuesFinite, FS_AddElement
<1> QED BY <1>3, <1>6, <1>7, ValuesFinite DEF AcceptedWith, Accepted

(* A datagram that is not new changes nothing but the slot at head. *)
LEMMA OldValues ==
  ASSUME NEW p, ~IsNew(p)
  PROVE  /\ WindowWith(p) = server_window /\ HeadAfter(p) = head
         /\ AcceptedWith(WindowWith(p)) = Accepted
  BY DEF WindowWith, HeadAfter, Accepted

LEMMA FiledWindow ==
  ASSUME IInv, NEW p \in Arrivals
  PROVE  WindowGood(WindowWith(p))
<1>1. CASE IsNew(p)
  <2> DEFINE k == p.seq % WindowSize
  <2>1. WindowWith(p) = [server_window EXCEPT ![k] = p.seq]
    BY <1>1 DEF WindowWith
  <2>2. p.seq \in (last_sent + 1)..(last_sent + Ahead) /\ k \in WinSlots
    BY <1>1, NewAhead
  <2>3. server_window \in [WinSlots -> 0..FinSeq \cup {Free}] /\ WindowGood(server_window)
    BY DEF IInv, TypeOK
  <2>4. \A j \in WinSlots : WindowWith(p)[j] = IF j = k THEN p.seq ELSE server_window[j]
    <3> HIDE DEF k
    <3> QED BY <2>1, <2>2, <2>3
  <2> QED BY <2>2, <2>3, <2>4 DEF WindowGood
<1>2. CASE ~IsNew(p)
  BY <1>2, OldValues DEF IInv
<1> QED BY <1>1, <1>2

LEMMA FiledHead ==
  ASSUME IInv, ~exited, NEW p \in Arrivals
  PROVE  HeadAfter(p) = AcceptedWith(WindowWith(p)) % BufSize
<1>1. head = Accepted % BufSize /\ last_sent \in -1..FinSeq
  BY DEF IInv, TypeOK
<1>2. CASE IsNew(p)
  <2>1. Accepted \in Nat /\ BufSize \in Nat \ {0}
    BY <1>1, AcceptedNat, ServerSizes DEF Accepted
  <2>2. (Accepted + 1) % BufSize = IF head < BufSize - 1 THEN head + 1 ELSE 0
    BY <1>1, <2>1, RingNext
  <2> QED BY <1>2, <2>2, NewValues DEF HeadAfter
<1>3. CASE ~IsNew(p)
  BY <1>1, <1>3, OldValues
<1> QED BY <1>2, <1>3

LEMMA FiledBuffer ==
  ASSUME IInv, ~exited, NEW p \in Arrivals
  PROVE  BufferGood(WindowWith(p), BufferWith(p))
<1>1. /\ head = Accepted % BufSize /\ head \in BufSlots
      /\ last_sent \in -1..FinSeq
      /\ server_buffer \in [BufSlots -> Packets \cup {ZeroPacket}]
      /\ WindowGood(server_window)
      /\ BufferGood(server_window, server_buffer)
  BY DEF IInv, TypeOK
<1>2. Accepted \in Nat /\ Ahead \in Nat /\ BufSize \in Nat \ {0}
  BY <1>1, AcceptedNat, ServerSizes DEF Accepted
<1>3. ASSUME NEW n \in Values(server_window)
      PROVE  \E a \in 0..(Accepted - 1) : n < a + Ahead /\ BufferWith(p)[a % BufSize] = Packet(n, TRUE)
  <2>1. PICK a \in 0..(Accepted - 1) : n < a + Ahead /\ server_buffer[a % BufSize] = Packet(n, TRUE)
    BY <1>1 DEF BufferGood, Accepted
  <2>2. a % BufSize # head
    BY <1>1, <2>1, SlotDistinct DEF Accepted
  <2>3. a % BufSize \in BufSlots
    BY <1>2, RingSlot DEF BufSlots
  <2>4. BufferWith(p)[a % BufSize] = server_buffer[a % BufSize]
    BY <1>1, <2>2, <2>3 DEF BufferWith
  <2> QED BY <2>1, <2>4
<1>4. CASE IsNew(p)
  <2>1. /\ Values(WindowWith(p)) = Values(server_window) \cup {p.seq}
        /\ AcceptedWith(WindowWith(p)) = Accepted + 1
        /\ p = Packet(p.seq, TRUE) /\ p.seq \in 0..FinSeq /\ p.seq <= last_sent + Ahead
    <3>1. /\ p.seq \in (last_sent + 1)..(last_sent + Ahead)
          /\ p = Packet(p.seq, TRUE) /\ p.seq \in 0..FinSeq
      BY <1>4, NewAhead
    <3>2. p.seq <= last_sent + Ahead
      BY <1>1, <1>2, <3>1
    <3> QED BY <1>4, <3>1, <3>2, NewValues
  <2>2. BufferWith(p)[Accepted % BufSize] = Packet(p.seq, TRUE)
    BY <1>1, <2>1 DEF BufferWith
  <2>3. Accepted \in 0..Accepted /\ p.seq < Accepted + Ahead
    <3>1. last_sent + 1 <= Accepted
      BY <1>1, ValuesFinite DEF Accepted, AcceptedWith
    <3> QED BY <1>1, <1>2, <2>1, <3>1, ServerSizes
  <2>4. ASSUME NEW n \in Values(WindowWith(p))
        PROVE  \E a \in 0..Accepted : n < a + Ahead /\ BufferWith(p)[a % BufSize] = Packet(n, TRUE)
    <3>1. CASE n = p.seq
      BY <2>2, <2>3, <3>1
    <3>2. CASE n \in Values(server_window)
      <4>1. PICK a \in 0..(Accepted - 1) : n < a + Ahead /\ BufferWith(p)[a % BufSize] = Packet(n, TRUE)
        BY <1>3, <3>2
      <4>2. a \in 0..Accepted
        BY <1>2
      <4> QED BY <4>1, <4>2
    <3> QED BY <2>1, <3>1, <3>2
  <2>5. AcceptedWith(WindowWith(p)) - 1 = Accepted
    BY <1>2, <2>1
  <2> QED BY <2>4, <2>5 DEF BufferGood
<1>5. CASE ~IsNew(p)
  <2>1. WindowWith(p) = server_window /\ AcceptedWith(WindowWith(p)) = Accepted
    BY <1>5, OldValues
  <2> QED BY <1>3, <2>1 DEF BufferGood
<1> QED BY <1>4, <1>5

(* Once an intact datagram is filed no slot holds a garbled one; an unused *)
(* slot still lies behind all that were accepted.                          *)
LEMMA FiledSlots ==
  ASSUME IInv, ~exited, NEW p \in Arrivals
  PROVE  /\ SlotsGood(WindowWith(p), BufferWith(p), HeadAfter(p))
         /\ p.ok => \A i \in BufSlots :
              BufferWith(p)[i].ok
              \/ (BufferWith(p)[i] = ZeroPacket /\ AcceptedWith(WindowWith(p)) <= i)
<1>1. /\ head = Accepted % BufSize /\ head \in BufSlots
      /\ last_sent \in -1..FinSeq
      /\ server_buffer \in [BufSlots -> Packets \cup {ZeroPacket}]
      /\ SlotsGood(server_window, server_buffer, head)
  BY DEF IInv, TypeOK
<1>2. Accepted \in Nat /\ BufSize \in Nat \ {0}
  BY <1>1, AcceptedNat, ServerSizes DEF Accepted
<1>3. /\ BufferWith(p)[head] = p
      /\ \A i \in BufSlots : i # head => BufferWith(p)[i] = server_buffer[i]
  BY <1>1 DEF BufferWith
<1>4. ASSUME NEW i \in BufSlots, i # head
      PROVE  BufferWith(p)[i].ok \/ (BufferWith(p)[i] = ZeroPacket /\ Accepted + 1 <= i)
  <2>1. server_buffer[i].ok \/ (server_buffer[i] = ZeroPacket /\ Accepted <= i)
    BY <1>1, <1>4 DEF SlotsGood, Accepted
  <2>2. Accepted <= i => Accepted # i
    <3>1. i \in 0..(BufSize - 1)
      BY DEF BufSlots
    <3>2. Accepted <= i => Accepted \in 0..(BufSize - 1)
      BY <1>2, <3>1
    <3>3. ASSUME NEW a \in 0..(BufSize - 1) PROVE a % BufSize = a
      BY <1>2, RingSlot
    <3> QED BY <1>1, <1>4, <3>2, <3>3
  <2> QED BY <1>2, <1>3, <1>4, <2>1, <2>2 DEF BufSlots
<1>5. AcceptedWith(WindowWith(p)) <= Accepted + 1 /\ AcceptedWith(WindowWith(p)) \in Int
  <2>1. CASE IsNew(p)
    BY <1>2, <2>1, NewValues
  <2>2. CASE ~IsNew(p)
    BY <1>2, <2>2, OldValues
  <2> QED BY <2>1, <2>2
<1>6. ASSUME NEW i \in BufSlots, i # head
      PROVE  BufferWith(p)[i].ok
             \/ (BufferWith(p)[i] = ZeroPacket /\ AcceptedWith(WindowWith(p)) <= i)
  <2>1. i \in Int
    BY ServerSizes DEF BufSlots
  <2> QED BY <1>2, <1>4, <1>5, <1>6, <2>1
<1>7. p.ok => BufferWith(p)[head].ok
  BY <1>3
<1>8. HeadAfter(p) # head => p.ok
  BY DEF HeadAfter, IsNew
<1> QED BY <1>6, <1>7, <1>8 DEF SlotsGood

-------------------------------------------------------------------------------
(* Finding the packet to pass on.                                          *)

(* find_low finds the next packet exactly when it waits. *)
LEMMA FindLowNext ==
  ASSUME last_sent \in -1..FinSeq, last_sent < FinSeq, NEW win, WindowGood(win)
  PROVE  FindLow(win) = last_sent + 1 <=> last_sent + 1 \in Values(win)
<1> DEFINE present == {win[k] : k \in WinSlots} \cap 0..(Sentinel - 1)
           low == last_sent + 1
<1>1. low \in 0..FinSeq /\ low \in 0..(Sentinel - 1) /\ low # Sentinel
  BY ServerSizes, ServerFits
<1>2. \A n \in present : n \in Nat /\ low <= n
  <2> SUFFICES ASSUME NEW k \in WinSlots, win[k] \in 0..(Sentinel - 1)
               PROVE  win[k] \in Nat /\ low <= win[k]
    OBVIOUS
  <2>1. win[k] # Free /\ win[k] \in Nat
    BY ServerSizes DEF Free
  <2> QED BY <2>1 DEF WindowGood
<1>3. low \in present <=> low \in Values(win)
  BY <1>1 DEF Values
<1>4. FindLow(win) = IF present = {} THEN Sentinel
                     ELSE CHOOSE n \in present : \A m \in present : n <= m
  BY DEF FindLow
<1> HIDE DEF present
<1>5. ASSUME present # {}
      PROVE  FindLow(win) \in present /\ \A m \in present : FindLow(win) <= m
  <2>1. \E n \in present : \A m \in present : n <= m
    BY <1>2, <1>5, LeastExists
  <2> QED BY <1>4, <1>5, <2>1
<1>6. CASE low \in present
  <2>1. FindLow(win) \in Nat /\ low <= FindLow(win) /\ FindLow(win) <= low
    BY <1>2, <1>5, <1>6
  <2>2. low \in Nat
    BY <1>2, <1>6
  <2> QED BY <1>3, <1>6, <2>1, <2>2
<1>7. CASE low \notin present
  BY <1>1, <1>3, <1>4, <1>5, <1>7
<1> QED BY <1>6, <1>7

(* What the two searches find when the next packet waits. *)
LEMMA Found ==
  ASSUME IInv, ~exited, NEW p \in Arrivals, p.ok,
         FindLow(WindowWith(p)) = last_sent + 1,
         NEW b \in FindLowInBuffer(BufferWith(p), last_sent + 1),
         NEW k \in FindLowIndex(WindowWith(p), last_sent + 1)
  PROVE  /\ last_sent + 1 \in Values(WindowWith(p))
         /\ BufferWith(p)[b] = Packet(last_sent + 1, TRUE)
         /\ k \in WinSlots /\ WindowWith(p)[k] = last_sent + 1
         /\ k = (last_sent + 1) % WindowSize
<1> DEFINE low == last_sent + 1  W == WindowWith(p)  B == BufferWith(p)
<1>1. /\ last_sent \in -1..FinSeq /\ last_sent < FinSeq /\ WindowGood(W)
      /\ B \in [BufSlots -> Packets \cup {ZeroPacket}]
      /\ BufferGood(W, B)
  <2>1. p \in Packets
    BY DEF Arrivals
  <2> QED BY <2>1, FiledWindow, FiledBuffer, FileTypes DEF IInv, TypeOK
<1>2. low \in Values(W)
  BY <1>1, FindLowNext
<1>3. low \in 0..FinSeq /\ low # Free
  BY <1>1, <1>2, ServerSizes DEF Values, Free
<1>4. k \in WinSlots /\ W[k] = low
  BY <1>2 DEF FindLowIndex, Values
<1>5. k = low % WindowSize
  BY <1>1, <1>3, <1>4 DEF WindowGood
<1>6. PICK a \in 0..(AcceptedWith(W) - 1) : B[a % BufSize] = Packet(low, TRUE)
  BY <1>1, <1>2 DEF BufferGood
<1>7. a % BufSize \in BufSlots /\ BufSize \in Nat \ {0} /\ a \in Nat /\ AcceptedWith(W) \in Nat
  BY <1>1, <1>6, AcceptedNat, RingSlot, ServerSizes DEF BufSlots
<1>8. B[a % BufSize].seq = low
  BY <1>6 DEF Packet
<1>9. b \in BufSlots /\ B[b].seq = low /\ b <= a % BufSize
  BY <1>7, <1>8 DEF FindLowInBuffer
<1>10. CASE B[b].ok
  <2>1. B[b] \in Packets
    BY <1>1, <1>9, <1>10 DEF ZeroPacket
  <2>2. B[b] = Packet(low, B[b].ok) /\ B[b].ok \in BOOLEAN
    BY <1>9, <2>1, PacketFacts
  <2>3. B[b] = Packet(low, TRUE)
    BY <1>10, <2>2
  <2> QED BY <1>2, <1>4, <1>5, <2>3
<1>11. CASE ~B[b].ok
  <2>1. AcceptedWith(W) <= b
    BY <1>9, <1>11, FiledSlots
  <2>2. b \in 0..(BufSize - 1)
    BY <1>9 DEF BufSlots
  <2>3. a \in 0..(BufSize - 1) /\ a < b
    BY <1>6, <1>7, <2>1, <2>2
  <2>4. ASSUME NEW c \in 0..(BufSize - 1) PROVE c % BufSize = c
    <3>1. BufSize \in Nat \ {0} /\ c \in Int
      BY <1>7
    <3> QED BY <3>1, RingSlot
  <2> QED BY <1>9, <2>2, <2>3, <2>4
<1> QED BY <1>10, <1>11

(* The window without the packet passed on. *)
LEMMA LeftWindow ==
  ASSUME last_sent \in -1..FinSeq, NEW win \in [WinSlots -> 0..FinSeq \cup {Free}], WindowGood(win),
         last_sent + 1 \in Values(win),
         NEW k \in WinSlots, k = (last_sent + 1) % WindowSize
  PROVE  LET left == [win EXCEPT ![k] = Free] IN
         /\ Values(left) = Values(win) \ {last_sent + 1}
         /\ Cardinality(Values(left)) + 1 = Cardinality(Values(win))
         /\ \A j \in WinSlots : left[j] # Free =>
              /\ left[j] \in (last_sent + 2)..(last_sent + Ahead)
              /\ j = left[j] % WindowSize
<1> DEFINE left == [win EXCEPT ![k] = Free]  low == last_sent + 1
<1>1. \A j \in WinSlots : left[j] = IF j = k THEN Free ELSE win[j]
  OBVIOUS
<1> HIDE DEF left
<1>2. \A n \in 0..FinSeq : n # Free
  BY ServerSizes DEF Free
<1>3. low \in 0..FinSeq
  BY DEF Values
<1>4. \A j \in WinSlots : win[j] = low => j = k
  BY <1>2, <1>3 DEF WindowGood
<1>5. Values(left) = Values(win) \ {low}
  BY <1>1, <1>2, <1>4 DEF Values
<1>6. Cardinality(Values(left)) + 1 = Cardinality(Values(win))
  <2>1. Cardinality(Values(win) \ {low}) = Cardinality(Values(win)) - 1
    BY ValuesFinite, FS_RemoveElement
  <2> QED BY <1>5, <2>1, ValuesFinite
<1>7. ASSUME NEW j \in WinSlots, left[j] # Free
      PROVE  left[j] \in (last_sent + 2)..(last_sent + Ahead) /\ j = left[j] % WindowSize
  <2>1. left[j] = win[j] /\ j # k /\ win[j] # low
    BY <1>1, <1>4, <1>7
  <2>2. win[j] \in (last_sent + 1)..(last_sent + Ahead) /\ j = win[j] % WindowSize
    BY <1>7, <2>1 DEF WindowGood
  <2> QED BY <2>1, <2>2, ServerSizes
<1> QED BY <1>5, <1>6, <1>7 DEF left

-------------------------------------------------------------------------------
(* The inductive invariant.                                                *)

LEMMA IInvInit == Init => IInv
<1> SUFFICES ASSUME Init PROVE IInv
  OBVIOUS
<1>1. TypeOK /\ last_sent = -1 /\ last_sent < FinSeq /\ AckedOnlyDelivered
  BY TypeInit, ServerSizes DEF Init, AckedOnlyDelivered
<1>2. WindowGood(server_window)
  BY DEF Init, WindowGood
<1>3. Values(server_window) = {}
  BY ServerSizes DEF Init, Values, Free
<1>4. Accepted = 0
  BY <1>1, <1>3, FS_EmptySet DEF Accepted, AcceptedWith
<1>5. head = Accepted % BufSize
  <2>1. 0 % BufSize = 0
    BY ServerSizes
  <2> QED BY <1>4, <2>1 DEF Init
<1>6. BufferGood(server_window, server_buffer)
  BY <1>3 DEF BufferGood
<1>7. SlotsGood(server_window, server_buffer, head)
  BY <1>4, ServerSizes DEF SlotsGood, Accepted, Init, BufSlots
<1>8. AcksGood
  <2>1. 0 % AckSlots = 0
    BY ServerSizes
  <2>2. \A i \in RingSlots : acks[i] <= last_sent
    BY DEF Init, Free
  <2>3. 0..last_sent = {} /\ last_sent + 1 = 0
    BY <1>1
  <2> QED BY <2>1, <2>2, <2>3 DEF AcksGood, Init
<1>9. StreamGood
  BY ServerSizes DEF Init, StreamGood
<1> QED BY <1>1, <1>2, <1>5, <1>6, <1>7, <1>8, <1>9 DEF IInv

(* An acknowledgement sent again is one of a delivered packet. *)
LEMMA ReAckDelivered ==
  ASSUME IInv, NEW p \in Arrivals, NEW a \in ReAck(p)
  PROVE  a.kind = "ack" /\ a.seq <= last_sent
<1>1. AlreadyAcked(p.seq) /\ a = Ack(p.seq)
  BY DEF ReAck
<1>2. p.seq <= last_sent
  BY <1>1 DEF AlreadyAcked, IInv, AcksGood
<1> QED BY <1>1, <1>2 DEF Ack

LEMMA GarbledStep ==
  ASSUME IInv, ~exited, NEW p \in Arrivals, RecvGarbled(p), UNCHANGED ftpsVars, TypeOK'
  PROVE  IInv'
<1>1. ~IsNew(p)
  BY DEF IsNew, RecvGarbled
<1>2. /\ server_buffer' = BufferWith(p) /\ server_window' = WindowWith(p) /\ head' = HeadAfter(p)
      /\ UNCHANGED <<acks, ack_pointer, last_sent, exited, ackNet, toFtps, file, closed>>
  BY <1>1, OldValues DEF RecvGarbled, ftpsVars
<1>3. (WindowGood(server_window))'
  BY <1>2, FiledWindow DEF WindowGood
<1>4. head' = Accepted' % BufSize
  BY <1>2, FiledHead DEF Accepted, AcceptedWith, Values
<1>5. (BufferGood(server_window, server_buffer))'
  BY <1>2, FiledBuffer DEF BufferGood, AcceptedWith, Values
<1>6. (SlotsGood(server_window, server_buffer, head))'
  BY <1>2, FiledSlots DEF SlotsGood, AcceptedWith, Values
<1>7. AcksGood' /\ StreamGood' /\ AckedOnlyDelivered' /\ last_sent' < FinSeq
  BY <1>2 DEF IInv, AcksGood, StreamGood, AckedOnlyDelivered
<1> QED BY <1>3, <1>4, <1>5, <1>6, <1>7 DEF IInv

LEMMA WaitStep ==
  ASSUME IInv, ~exited, NEW p \in Arrivals, RecvAndWait(p), UNCHANGED ftpsVars, TypeOK'
  PROVE  IInv'
<1>2. /\ server_buffer' = BufferWith(p) /\ server_window' = WindowWith(p) /\ head' = HeadAfter(p)
      /\ UNCHANGED <<acks, ack_pointer, last_sent, exited, toFtps, file, closed>>
  BY DEF RecvAndWait, ftpsVars
<1>3. (WindowGood(server_window))'
  BY <1>2, FiledWindow DEF WindowGood
<1>4. head' = Accepted' % BufSize
  BY <1>2, FiledHead DEF Accepted, AcceptedWith, Values
<1>5. (BufferGood(server_window, server_buffer))'
  BY <1>2, FiledBuffer DEF BufferGood, AcceptedWith, Values
<1>6. (SlotsGood(server_window, server_buffer, head))'
  BY <1>2, FiledSlots DEF SlotsGood, AcceptedWith, Values
<1>7. AcksGood' /\ StreamGood' /\ last_sent' < FinSeq
  BY <1>2 DEF IInv, AcksGood, StreamGood
<1>8. AckedOnlyDelivered'
  <2>1. ackNet' = ackNet \cup ReAck(p)
    BY DEF RecvAndWait
  <2>2. \A a \in ReAck(p) : a.kind = "ack" /\ a.seq <= last_sent
    BY ReAckDelivered
  <2> QED BY <1>2, <2>1, <2>2 DEF IInv, AckedOnlyDelivered
<1> QED BY <1>3, <1>4, <1>5, <1>6, <1>7, <1>8 DEF IInv

(* What the invariant says of the datagrams under way to ftps. *)
LEMMA StreamFacts ==
  ASSUME IInv
  PROVE  /\ toFtps \in Seq(Packets \cup {ZeroPacket, UninitPacket})
         /\ file \in Seq(0..FinSeq \cup {Free})
         /\ Len(file) \in Nat /\ Len(toFtps) \in Nat
         /\ last_sent < FinSeq /\ last_sent \in -1..FinSeq
         /\ Len(file) <= FinSeq
         /\ file = [i \in 1..Len(file) |-> i - 1]
         /\ ~closed => \A i \in 1..Len(toFtps) :
              Len(file) + i - 1 <= FinSeq => toFtps[i] = Packet(Len(file) + i - 1, TRUE)
         /\ ~exited => ~closed /\ Len(file) + Len(toFtps) = last_sent + 1
<1>1. /\ toFtps \in Seq(Packets \cup {ZeroPacket, UninitPacket})
      /\ file \in Seq(0..FinSeq \cup {Free})
      /\ last_sent < FinSeq /\ last_sent \in -1..FinSeq
  BY DEF IInv, TypeOK
<1>2. Len(file) \in Nat /\ Len(toFtps) \in Nat
  BY <1>1
<1>3. /\ Len(file) <= FinSeq
      /\ file = [i \in 1..Len(file) |-> i - 1]
      /\ ~closed => \A i \in 1..Len(toFtps) :
           Len(file) + i - 1 <= FinSeq => toFtps[i] = Packet(Len(file) + i - 1, TRUE)
      /\ ~exited => ~closed /\ Len(file) + Len(toFtps) = last_sent + 1
  BY DEF IInv, StreamGood
<1> QED BY <1>1, <1>2, <1>3

LEMMA DeliverStep ==
  ASSUME IInv, ~exited, NEW p \in Arrivals, RecvAndDeliver(p), UNCHANGED ftpsVars, TypeOK'
  PROVE  IInv'
<1> DEFINE low == last_sent + 1  W == WindowWith(p)  B == BufferWith(p)
<1>1. /\ p.ok /\ FindLow(W) = low
      /\ server_buffer' = B /\ head' = HeadAfter(p) /\ exited' = exited
      /\ UNCHANGED <<file, closed>>
  BY DEF RecvAndDeliver, ftpsVars
<1>2. PICK b \in FindLowInBuffer(B, low), k \in FindLowIndex(W, low) :
        /\ ~B[b].fin
        /\ toFtps' = Append(toFtps, B[b])
        /\ last_sent' = B[b].seq
        /\ acks' = [acks EXCEPT ![ack_pointer] = B[b].seq]
        /\ ack_pointer' = IF ack_pointer < AckSlots - 1 THEN ack_pointer + 1 ELSE 0
        /\ ackNet' = ackNet \cup ReAck(p) \cup {Ack(B[b].seq)}
        /\ server_window' = [W EXCEPT ![k] = Free]
  BY <1>1 DEF RecvAndDeliver
<1>3. /\ low \in Values(W) /\ B[b] = Packet(low, TRUE)
      /\ k \in WinSlots /\ k = low % WindowSize
  BY <1>1, Found
<1>4. B[b].seq = low /\ low # FinSeq
  <2>1. Packet(low, TRUE).seq = low /\ (Packet(low, TRUE).fin <=> low = FinSeq)
    BY DEF Packet
  <2>2. ~B[b].fin
    BY <1>2
  <2> HIDE DEF B, low
  <2> QED BY <1>3, <2>1, <2>2
<1>5. /\ last_sent \in -1..FinSeq /\ last_sent < FinSeq /\ low \in 0..FinSeq
      /\ last_sent' = low /\ last_sent' < FinSeq
  BY <1>2, <1>4, ServerSizes DEF IInv, TypeOK
<1>6. /\ Values(server_window') = Values(W) \ {low}
      /\ Cardinality(Values(server_window')) + 1 = Cardinality(Values(W))
      /\ \A j \in WinSlots : server_window'[j] # Free =>
           /\ server_window'[j] \in (last_sent + 2)..(last_sent + Ahead)
           /\ j = server_window'[j] % WindowSize
  <2>1. W \in [WinSlots -> 0..FinSeq \cup {Free}] /\ WindowGood(W)
    BY FiledWindow, FileTypes DEF Arrivals, IInv
  <2> QED BY <1>2, <1>3, <1>5, <2>1, LeftWindow
<1>7. (AcceptedWith(server_window))' = AcceptedWith(W)
  <2>1. (AcceptedWith(server_window))' = last_sent' + 1 + Cardinality(Values(server_window'))
    BY DEF AcceptedWith, Values
  <2>2. Cardinality(Values(server_window')) \in Nat
    BY ValuesFinite
  <2> QED BY <1>5, <1>6, <2>1, <2>2 DEF AcceptedWith
<1>8. (WindowGood(server_window))'
  BY <1>5, <1>6, ServerSizes DEF WindowGood
<1>9. head' = Accepted' % BufSize
  BY <1>1, <1>7, FiledHead DEF Accepted
<1>10. (BufferGood(server_window, server_buffer))'
  <2>1. BufferGood(W, server_buffer')
    BY <1>1, FiledBuffer
  <2>2. (Values(server_window))' \subseteq Values(W)
    BY <1>6 DEF Values
  <2> QED BY <1>7, <2>1, <2>2 DEF BufferGood
<1>11. (SlotsGood(server_window, server_buffer, head))'
  <2>1. SlotsGood(W, server_buffer', head')
    BY <1>1, FiledSlots
  <2> QED BY <1>7, <2>1 DEF SlotsGood
<1>12. AcksGood'
  <2>1. /\ acks \in [RingSlots -> 0..FinSeq \cup {Free}] /\ AckSlots \in Nat \ {0}
        /\ ack_pointer = low % AckSlots /\ ack_pointer \in RingSlots
        /\ acks' = [acks EXCEPT ![ack_pointer] = low]
        /\ low \in Nat /\ last_sent = low - 1
    BY <1>2, <1>4, <1>5, ServerSizes DEF IInv, TypeOK, AcksGood
  <2>2. \A i \in RingSlots : acks'[i] = IF i = ack_pointer THEN low ELSE acks[i]
    BY <2>1
  <2>3. \A i \in RingSlots : acks'[i] <= low
    <3>1. \A i \in RingSlots : acks[i] <= last_sent /\ acks[i] \in Int
      BY <2>1, ServerSizes DEF IInv, AcksGood, Free
    <3> QED BY <2>1, <2>2, <3>1
  <2>4. ASSUME NEW n \in 0..low, low - AckSlots < n PROVE acks'[n % AckSlots] = n
    <3>1. n % AckSlots \in RingSlots /\ n \in Int
      BY <2>1, RingSlot DEF RingSlots
    <3>2. CASE n = low
      BY <2>1, <2>2, <3>1, <3>2
    <3>3. CASE n # low
      <4>1. n \in 0..last_sent /\ last_sent - AckSlots < n
        BY <2>1, <2>4, <3>3
      <4>2. acks[n % AckSlots] = n
        BY <4>1 DEF IInv, AcksGood
      <4>3. n - low < AckSlots /\ low - n < AckSlots /\ low \in Int
        BY <2>1, <2>4
      <4>4. n % AckSlots # low % AckSlots
        <5> HIDE DEF low
        <5> QED BY <2>1, <3>1, <3>3, <4>3, RingUnique
      <4> QED BY <2>1, <2>2, <3>1, <4>2, <4>4
    <3> QED BY <3>2, <3>3
  <2>5. ack_pointer' = (low + 1) % AckSlots
    <3>1. (low + 1) % AckSlots = IF low % AckSlots < AckSlots - 1 THEN (low % AckSlots) + 1 ELSE 0
      BY <2>1, RingNext
    <3> QED BY <1>2, <2>1, <3>1
  <2> QED BY <1>5, <2>3, <2>4, <2>5 DEF AcksGood
<1>13. StreamGood'
  <2>1. /\ toFtps \in Seq(Packets \cup {ZeroPacket, UninitPacket}) /\ file \in Seq(0..FinSeq \cup {Free})
        /\ Len(file) + Len(toFtps) = low /\ ~closed
    BY DEF IInv, TypeOK, StreamGood
  <2>2. /\ Len(toFtps') = Len(toFtps) + 1
        /\ \A i \in 1..Len(toFtps) : toFtps'[i] = toFtps[i]
        /\ toFtps'[Len(toFtps) + 1] = Packet(low, TRUE)
    <3>1. toFtps' = Append(toFtps, Packet(low, TRUE))
      BY <1>2, <1>3
    <3> DEFINE T == Packets \cup {ZeroPacket, UninitPacket}  e == Packet(low, TRUE)
    <3>2. toFtps \in Seq(T) /\ toFtps' = Append(toFtps, e)
      BY <2>1, <3>1
    <3> HIDE DEF T, e
    <3>3. /\ Len(toFtps') = Len(toFtps) + 1
          /\ \A i \in 1..Len(toFtps) : toFtps'[i] = toFtps[i]
          /\ toFtps'[Len(toFtps) + 1] = e
      BY <3>2
    <3> QED BY <3>3 DEF e
  <2>3. ASSUME NEW i \in 1..Len(toFtps'), Len(file) + i - 1 <= FinSeq
        PROVE  toFtps'[i] = Packet(Len(file) + i - 1, TRUE)
    <3>0. Len(file) \in Nat /\ Len(toFtps) \in Nat
      BY <2>1
    <3>1. CASE i \in 1..Len(toFtps)
      <4>1. toFtps[i] = Packet(Len(file) + i - 1, TRUE)
        BY <2>1, <2>3, <3>1 DEF IInv, StreamGood
      <4> QED BY <2>2, <3>1, <4>1
    <3>2. CASE i = Len(toFtps) + 1
      <4>1. Len(file) + i - 1 = low
        BY <2>1, <3>0, <3>2
      <4>2. toFtps'[i] = Packet(low, TRUE)
        BY <2>2, <3>2
      <4> HIDE DEF low
      <4> QED BY <4>1, <4>2
    <3>3. i \in 1..(Len(toFtps) + 1)
      BY <2>2
    <3>4. i \in 1..Len(toFtps) \/ i = Len(toFtps) + 1
      BY <3>0, <3>3
    <3> QED BY <3>1, <3>2, <3>4
  <2>4. Len(file) + Len(toFtps') = low + 1
    BY <2>1, <2>2
  <2> QED BY <1>1, <1>5, <2>1, <2>3, <2>4 DEF IInv, StreamGood
<1>14. AckedOnlyDelivered'
  <2>1. ackNet' = ackNet \cup ReAck(p) \cup {Ack(low)}
    BY <1>2, <1>4
  <2>2. \A a \in ReAck(p) : a.kind = "ack" /\ a.seq <= last_sent
    BY ReAckDelivered
  <2>3. \A a \in ackNet : a.kind = "ack" /\ a.seq <= last_sent /\ a.seq \in Int
    <3>1. \A a \in ackNet : a.kind = "ack" /\ a.seq <= last_sent
      BY DEF IInv, AckedOnlyDelivered
    <3>2. \A a \in ackNet : a.seq \in Int
      BY ServerSizes DEF IInv, TypeOK, Replies, Ack, FinAck
    <3> QED BY <3>1, <3>2
  <2>4. \A a \in ReAck(p) : a.seq \in Int
    BY PacketFacts DEF ReAck, Ack, Arrivals
  <2>5. Ack(low).kind = "ack" /\ Ack(low).seq = low
    BY DEF Ack
  <2>6. \A a \in ackNet' : a.kind = "ack" /\ a.seq <= low
    BY <1>5, <2>1, <2>2, <2>3, <2>4, <2>5
  <2> QED BY <1>5, <2>6 DEF AckedOnlyDelivered
<1> QED BY <1>1, <1>5, <1>8, <1>9, <1>10, <1>11, <1>12, <1>13, <1>14 DEF IInv

LEMMA FinStep ==
  ASSUME IInv, ~exited, NEW p \in Arrivals, RecvFin(p), UNCHANGED ftpsVars, TypeOK'
  PROVE  IInv'
<1> DEFINE low == last_sent + 1  W == WindowWith(p)  B == BufferWith(p)
<1>1. /\ p.ok /\ FindLow(W) = low /\ exited'
      /\ UNCHANGED <<acks, ack_pointer, last_sent, file, closed>>
  BY DEF RecvFin, ftpsVars
<1>2. PICK b \in FindLowInBuffer(B, low), k \in FindLowIndex(W, low) :
        /\ B[b].fin
        /\ toFtps' = toFtps \o <<B[b], UninitPacket>>
        /\ ackNet' = ackNet \cup ReAck(p) \cup {FinAck(B[b].seq, 1), FinAck(B[b].seq, 2)}
        /\ server_window' = [W EXCEPT ![k] = Free]
  BY <1>1 DEF RecvFin
<1>3. /\ low \in Values(W) /\ B[b] = Packet(low, TRUE)
      /\ k \in WinSlots /\ k = low % WindowSize
  BY <1>1, Found
<1>4. low = FinSeq
  <2>1. Packet(low, TRUE).fin <=> low = FinSeq
    BY DEF Packet
  <2>2. B[b].fin
    BY <1>2
  <2> HIDE DEF B, low
  <2> QED BY <1>3, <2>1, <2>2
<1>5. last_sent \in -1..FinSeq /\ last_sent = FinSeq - 1 /\ last_sent' = FinSeq - 1
  BY <1>1, <1>4, ServerSizes DEF IInv, TypeOK
<1>6. (WindowGood(server_window))'
  <2>1. W \in [WinSlots -> 0..FinSeq \cup {Free}] /\ WindowGood(W)
    BY FiledWindow, FileTypes DEF Arrivals, IInv
  <2>2. \A j \in WinSlots : server_window'[j] # Free =>
           server_window'[j] = W[j]
    <3> HIDE DEF W
    <3> QED BY <1>2, <2>1
  <2> QED BY <1>1, <2>1, <2>2 DEF WindowGood
<1>7. AcksGood'
  BY <1>1 DEF IInv, AcksGood
<1>8. StreamGood'
  <2>1. /\ toFtps \in Seq(Packets \cup {ZeroPacket, UninitPacket}) /\ file \in Seq(0..FinSeq \cup {Free})
        /\ Len(file) + Len(toFtps) = low /\ ~closed
        /\ \A i \in 1..Len(toFtps) :
             Len(file) + i - 1 <= FinSeq => toFtps[i] = Packet(Len(file) + i - 1, TRUE)
    BY StreamFacts
  <2>2. /\ Len(toFtps') = Len(toFtps) + 2
        /\ \A i \in 1..Len(toFtps) : toFtps'[i] = toFtps[i]
        /\ toFtps'[Len(toFtps) + 1] = Packet(low, TRUE)
    <3> DEFINE T == Packets \cup {ZeroPacket, UninitPacket}  e == Packet(low, TRUE)
    <3>1. toFtps' = toFtps \o <<e, UninitPacket>>
      BY <1>2, <1>3
    <3>2. toFtps \in Seq(T)
      BY <2>1
    <3> HIDE DEF T, e
    <3>3. /\ Len(toFtps') = Len(toFtps) + 2
          /\ \A i \in 1..Len(toFtps) : toFtps'[i] = toFtps[i]
          /\ toFtps'[Len(toFtps) + 1] = e
      BY <3>1, <3>2
    <3> QED BY <3>3 DEF e
  <2>3. ASSUME NEW i \in 1..Len(toFtps'), Len(file) + i - 1 <= FinSeq
        PROVE  toFtps'[i] = Packet(Len(file) + i - 1, TRUE)
    <3>0. Len(file) \in Nat /\ Len(toFtps) \in Nat
      BY <2>1
    <3>1. CASE i \in 1..Len(toFtps)
      <4>1. toFtps[i] = Packet(Len(file) + i - 1, TRUE)
        BY <2>1, <2>3, <3>1
      <4> QED BY <2>2, <3>1, <4>1
    <3>2. CASE i = Len(toFtps) + 1
      <4>1. Len(file) + i - 1 = low
        BY <2>1, <3>0, <3>2
      <4>2. toFtps'[i] = Packet(low, TRUE)
        BY <2>2, <3>2
      <4> HIDE DEF low
      <4> QED BY <4>1, <4>2
    <3>3. i \in 1..(Len(toFtps) + 2) /\ Len(file) + Len(toFtps) = FinSeq
      BY <1>4, <2>1, <2>2
    <3>4. i \in 1..Len(toFtps) \/ i = Len(toFtps) + 1
      BY <2>3, <3>0, <3>3, ServerSizes
    <3> QED BY <3>1, <3>2, <3>4
  <2> QED BY <1>1, <1>5, <2>1, <2>3 DEF IInv, StreamGood
<1>9. AckedOnlyDelivered'
  <2>1. \A a \in ReAck(p) : a.kind = "ack" /\ a.seq <= last_sent
    BY ReAckDelivered
  <2>2. \A a \in ackNet : a.kind = "ack" /\ a.seq <= last_sent
    BY DEF IInv, AckedOnlyDelivered
  <2>3. \A c : FinAck(B[b].seq, c).kind # "ack"
    BY DEF FinAck
  <2>4. \A a \in ackNet' : a.kind = "ack" => a.seq <= last_sent'
    BY <1>1, <1>2, <2>1, <2>2, <2>3
  <2> QED BY <1>1, <1>5, <2>4 DEF AckedOnlyDelivered
<1> QED BY <1>1, <1>5, <1>6, <1>7, <1>8, <1>9, ServerSizes DEF IInv

(* The packet in front of ftps is the next one of the file, or the FIN     *)
(* packet behind all of them.                                              *)
LEMMA InFront ==
  ASSUME IInv, ~closed, toFtps # <<>>
  PROVE  /\ Head(toFtps) = Packet(Len(file), TRUE)
         /\ Head(toFtps).fin <=> Len(file) = FinSeq
         /\ Block(Head(toFtps)) = Len(file)
         /\ Len(file) \in 0..FinSeq
         /\ Head(toFtps).fin => exited
<1>1. /\ toFtps \in Seq(Packets \cup {ZeroPacket, UninitPacket}) /\ file \in Seq(0..FinSeq \cup {Free})
      /\ Len(file) <= FinSeq /\ Len(file) \in Nat /\ Len(toFtps) \in Nat
      /\ last_sent < FinSeq /\ last_sent \in -1..FinSeq
      /\ \A i \in 1..Len(toFtps) :
           Len(file) + i - 1 <= FinSeq => toFtps[i] = Packet(Len(file) + i - 1, TRUE)
      /\ ~exited => Len(file) + Len(toFtps) = last_sent + 1
  BY StreamFacts
<1>2. Len(file) \in Nat /\ Len(toFtps) \in Nat /\ Len(toFtps) >= 1 /\ Head(toFtps) = toFtps[1]
  BY <1>1
<1>3. Head(toFtps) = Packet(Len(file), TRUE)
  <2>1. 1 \in 1..Len(toFtps) /\ Len(file) + 1 - 1 = Len(file)
    BY <1>2
  <2> QED BY <1>1, <1>2, <2>1
<1>4. (Head(toFtps).fin <=> Len(file) = FinSeq) /\ Block(Head(toFtps)) = Len(file)
  <2> DEFINE n == Len(file)  q == Head(toFtps)
  <2>1. q = Packet(n, TRUE)
    BY <1>3
  <2> HIDE DEF n, q
  <2>2. (q.fin <=> n = FinSeq) /\ Block(q) = n
    BY <2>1 DEF Packet, Block
  <2> QED BY <2>2 DEF n, q
<1>5. Len(file) = FinSeq => exited
  BY <1>1, <1>2, ServerSizes
<1>6. Len(file) \in 0..FinSeq
  BY <1>1, ServerSizes
<1>7. Head(toFtps).fin => exited
  BY <1>4, <1>5
<1> QED BY <1>3, <1>4, <1>6, <1>7

LEMMA AppendBlock ==
  ASSUME NEW S, NEW s \in Seq(S), s = [i \in 1..Len(s) |-> i - 1]
  PROVE  Append(s, Len(s)) = [i \in 1..(Len(s) + 1) |-> i - 1]
<1> DEFINE t == Append(s, Len(s))
<1>1. Len(s) \in Nat
  OBVIOUS
<1>2. /\ Len(t) = Len(s) + 1 /\ t[Len(s) + 1] = Len(s)
      /\ \A i \in 1..Len(s) : t[i] = s[i]
  OBVIOUS
<1>3. t = [i \in 1..(Len(s) + 1) |-> t[i]]
  <2>1. s \in Seq(S \cup {Len(s)}) /\ Len(s) \in S \cup {Len(s)}
    OBVIOUS
  <2>2. t \in Seq(S \cup {Len(s)})
    BY <2>1
  <2> HIDE DEF t
  <2>3. t = [i \in 1..Len(t) |-> t[i]]
    BY <2>2
  <2> QED BY <1>2, <2>3
<1> HIDE DEF t
<1>4. \A i \in 1..(Len(s) + 1) : t[i] = i - 1
  <2> SUFFICES ASSUME NEW i \in 1..(Len(s) + 1) PROVE t[i] = i - 1
    OBVIOUS
  <2>1. i \in 1..Len(s) \/ i = Len(s) + 1
    BY <1>1
  <2>2. CASE i \in 1..Len(s)
    BY <1>2, <2>2
  <2>3. CASE i = Len(s) + 1
    BY <1>1, <1>2, <2>3
  <2> QED BY <2>1, <2>2, <2>3
<1>5. t = [i \in 1..(Len(s) + 1) |-> i - 1]
  BY <1>3, <1>4
<1> QED BY <1>5 DEF t

LEMMA WriteStep ==
  ASSUME IInv, FtpsWrite, TypeOK'
  PROVE  IInv'
<1>1. /\ ~closed /\ toFtps # <<>> /\ ~Head(toFtps).fin
      /\ toFtps' = Tail(toFtps)
      /\ file' = Append(file, Block(Head(toFtps)))
      /\ UNCHANGED <<server_window, server_buffer, head, acks, ack_pointer, last_sent, exited,
                     ackNet, closed>>
  BY DEF FtpsWrite, tcpdsVars
<1>2. Block(Head(toFtps)) = Len(file) /\ Len(file) \in 0..FinSeq /\ Len(file) # FinSeq
  BY <1>1, InFront
<1>3. StreamGood'
  <2>1. /\ toFtps \in Seq(Packets \cup {ZeroPacket, UninitPacket}) /\ file \in Seq(0..FinSeq \cup {Free})
        /\ file = [i \in 1..Len(file) |-> i - 1]
        /\ \A i \in 1..Len(toFtps) :
             Len(file) + i - 1 <= FinSeq => toFtps[i] = Packet(Len(file) + i - 1, TRUE)
        /\ ~exited => Len(file) + Len(toFtps) = last_sent + 1
    BY <1>1, StreamFacts
  <2>2. /\ Len(toFtps) \in Nat /\ Len(toFtps') = Len(toFtps) - 1
        /\ \A i \in 1..Len(toFtps') : toFtps'[i] = toFtps[i + 1]
    <3> DEFINE T == Packets \cup {ZeroPacket, UninitPacket}
    <3>1. toFtps \in Seq(T)
      BY <2>1
    <3> HIDE DEF T
    <3> QED BY <1>1, <3>1
  <2>3. Len(file') = Len(file) + 1 /\ Len(file) \in Nat /\ Len(file') <= FinSeq
    <3>1. file' = Append(file, Len(file)) /\ Len(file) \in Nat
      BY <1>1, <1>2, <2>1
    <3>2. Len(file') = Len(file) + 1
      BY <2>1, <3>1
    <3> QED BY <1>2, <3>1, <3>2, ServerSizes
  <2>4. file' = [i \in 1..Len(file') |-> i - 1]
    <3>1. Append(file, Len(file)) = [i \in 1..(Len(file) + 1) |-> i - 1]
      BY <2>1, AppendBlock
    <3> QED BY <1>1, <1>2, <2>3, <3>1
  <2>5. ASSUME NEW i \in 1..Len(toFtps'), Len(file') + i - 1 <= FinSeq
        PROVE  toFtps'[i] = Packet(Len(file') + i - 1, TRUE)
    <3>1. i + 1 \in 1..Len(toFtps) /\ Len(file') + i - 1 = Len(file) + (i + 1) - 1
      BY <2>2, <2>3
    <3> QED BY <2>1, <2>2, <2>5, <3>1
  <2>6. Len(file') + Len(toFtps') = Len(file) + Len(toFtps)
    BY <2>2, <2>3
  <2> QED BY <1>1, <2>1, <2>3, <2>4, <2>5, <2>6 DEF IInv, StreamGood
<1>4. AcksGood' /\ AckedOnlyDelivered' /\ (WindowGood(server_window))' /\ last_sent' < FinSeq
  BY <1>1 DEF IInv, AcksGood, AckedOnlyDelivered, WindowGood
<1>5. ~exited' => /\ head' = Accepted' % BufSize
                  /\ (BufferGood(server_window, server_buffer))'
                  /\ (SlotsGood(server_window, server_buffer, head))'
  BY <1>1 DEF IInv, Accepted, AcceptedWith, Values, BufferGood, SlotsGood
<1> QED BY <1>3, <1>4, <1>5 DEF IInv

LEMMA CloseStep ==
  ASSUME IInv, FtpsClose, TypeOK'
  PROVE  IInv'
<1>1. /\ ~closed /\ toFtps # <<>> /\ Head(toFtps).fin /\ closed'
      /\ UNCHANGED <<server_window, server_buffer, head, acks, ack_pointer, last_sent, exited,
                     ackNet, file>>
  BY DEF FtpsClose, tcpdsVars
<1>2. Len(file) = FinSeq /\ exited
  BY <1>1, InFront
<1>3. StreamGood'
  BY <1>1, <1>2 DEF IInv, StreamGood
<1>4. AcksGood' /\ AckedOnlyDelivered' /\ (WindowGood(server_window))' /\ last_sent' < FinSeq
  BY <1>1 DEF IInv, AcksGood, AckedOnlyDelivered, WindowGood
<1> QED BY <1>1, <1>2, <1>3, <1>4 DEF IInv

(* Acknowledgements may leave for the client at any time. *)
LEMMA StillStep ==
  ASSUME IInv, ackNet' \subseteq ackNet, UNCHANGED <<tcpdsVars, toFtps, ftpsVars>>
  PROVE  IInv'
<1>0. TypeOK'
  BY RepliesKept DEF IInv, TypeOK, tcpdsVars, ftpsVars
<1>1. /\ ackNet' \subseteq ackNet
      /\ UNCHANGED <<server_window, server_buffer, head, acks, ack_pointer, last_sent, exited,
                     toFtps, file, closed>>
  BY DEF tcpdsVars, ftpsVars
<1>2. AcksGood' /\ AckedOnlyDelivered' /\ (WindowGood(server_window))' /\ last_sent' < FinSeq /\ StreamGood'
  BY <1>1 DEF IInv, AcksGood, AckedOnlyDelivered, WindowGood, StreamGood
<1>3. ~exited' => /\ head' = Accepted' % BufSize
                  /\ (BufferGood(server_window, server_buffer))'
                  /\ (SlotsGood(server_window, server_buffer, head))'
  BY <1>1 DEF IInv, Accepted, AcceptedWith, Values, BufferGood, SlotsGood
<1> QED BY <1>0, <1>2, <1>3 DEF IInv

LEMMA IInvStep == IInv /\ [Next]_vars => IInv'
<1> SUFFICES ASSUME IInv, [Next]_vars PROVE IInv'
  OBVIOUS
<1>0. TypeOK'
  BY TypeStep DEF IInv
<1>1. ASSUME NEW p \in Arrivals, RecvPacket(p) PROVE IInv'
  <2>1. ~exited /\ UNCHANGED ftpsVars
        /\ (RecvGarbled(p) \/ RecvAndWait(p) \/ RecvAndDeliver(p) \/ RecvFin(p))
    BY <1>1 DEF RecvPacket
  <2> QED BY <1>0, <2>1, GarbledStep, WaitStep, DeliverStep, FinStep
<1>2. CASE FtpsWrite
  BY <1>0, <1>2, WriteStep
<1>3. CASE FtpsClose
  BY <1>0, <1>3, CloseStep
<1>4. CASE AcksLeave \/ UNCHANGED vars
  <2>1. ackNet' \subseteq ackNet /\ UNCHANGED <<tcpdsVars, toFtps, ftpsVars>>
    BY <1>4 DEF AcksLeave, vars
  <2> QED BY <2>1, StillStep
<1> QED BY <1>1, <1>2, <1>3, <1>4 DEF Next

(* A datagram takes ftps at most one packet further. *)
LEMMA RecvMoves ==
  ASSUME IInv, NEW p \in Arrivals, RecvPacket(p)
  PROVE  ~exited /\ last_sent' \in {last_sent, last_sent + 1}
<1>1. ~exited
  BY DEF RecvPacket
<1>2. CASE RecvAndDeliver(p)
  <2>1. FindLow(WindowWith(p)) = last_sent + 1 /\ p.ok
    BY <1>2 DEF RecvAndDeliver
  <2>2. PICK b \in FindLowInBuffer(BufferWith(p), last_sent + 1),
             k \in FindLowIndex(WindowWith(p), last_sent + 1) :
          last_sent' = BufferWith(p)[b].seq
    BY <1>2, <2>1 DEF RecvAndDeliver
  <2>3. BufferWith(p)[b] = Packet(last_sent + 1, TRUE)
    BY <1>1, <2>1, <2>2, Found
  <2> QED BY <1>1, <2>2, <2>3 DEF Packet
<1>3. CASE RecvGarbled(p) \/ RecvAndWait(p) \/ RecvFin(p)
  BY <1>1, <1>3 DEF RecvGarbled, RecvAndWait, RecvFin
<1> QED BY <1>2, <1>3 DEF RecvPacket

(* Whatever bounds the packets that were sent bounds all that is filed,    *)
(* passed on and acknowledged.                                             *)
LEMMA RecvWithin ==
  ASSUME IInv, NEW p \in Arrivals, RecvPacket(p),
         NEW b \in Int, p.seq <= b, last_sent <= b, \A k \in WinSlots : server_window[k] <= b
  PROVE  /\ \A k \in WinSlots : server_window'[k] <= b
         /\ last_sent' <= b
         /\ \A a \in ackNet' : a.kind = "finack" => a \in ackNet \/ (a.seq = FinSeq /\ FinSeq <= b)
<1> DEFINE W == WindowWith(p)  low == last_sent + 1
<1>0. /\ ~exited /\ p \in Packets /\ p.seq \in 0..FinSeq /\ last_sent \in -1..FinSeq
      /\ Free <= b
  <2>1. p \in Packets /\ ~exited /\ p.seq \in 0..FinSeq
    BY PacketFacts DEF Arrivals, RecvPacket
  <2> QED BY <2>1, ServerSizes DEF IInv, TypeOK, Free
<1>1. \A k \in WinSlots : W[k] <= b
  <2>1. server_window \in [WinSlots -> 0..FinSeq \cup {Free}]
    BY DEF IInv, TypeOK
  <2>2. CASE IsNew(p)
    <3> DEFINE i == p.seq % WindowSize
    <3>1. W = [server_window EXCEPT ![i] = p.seq]
      BY <2>2 DEF WindowWith
    <3> HIDE DEF i, W
    <3> QED BY <2>1, <3>1
  <2>3. CASE ~IsNew(p)
    BY <2>3, OldValues
  <2> QED BY <2>2, <2>3
<1>2. W \in [WinSlots -> 0..FinSeq \cup {Free}]
  BY <1>0, FileTypes DEF IInv
<1>3. \A a \in ReAck(p) : a.kind = "ack"
  BY ReAckDelivered
<1> HIDE DEF W
<1>4. CASE RecvGarbled(p)
  BY <1>0, <1>4 DEF RecvGarbled
<1>5. CASE RecvAndWait(p)
  BY <1>0, <1>1, <1>3, <1>5 DEF RecvAndWait, W
<1>6. ASSUME p.ok, FindLow(W) = low,
             NEW i \in FindLowInBuffer(BufferWith(p), low), NEW k \in FindLowIndex(W, low)
      PROVE  /\ BufferWith(p)[i] = Packet(low, TRUE) /\ low <= b
             /\ \A j \in WinSlots : [W EXCEPT ![k] = Free][j] <= b
  <2>1. BufferWith(p)[i] = Packet(low, TRUE) /\ k \in WinSlots /\ W[k] = low
    BY <1>0, <1>6, Found DEF W
  <2>2. \A j \in WinSlots : [W EXCEPT ![k] = Free][j] <= b
    BY <1>0, <1>1, <1>2
  <2> QED BY <1>1, <2>1, <2>2
<1>7. CASE RecvAndDeliver(p)
  <2>1. p.ok /\ FindLow(W) = low
    BY <1>7 DEF RecvAndDeliver, W
  <2>2. PICK i \in FindLowInBuffer(BufferWith(p), low), k \in FindLowIndex(W, low) :
          /\ last_sent' = BufferWith(p)[i].seq
          /\ ackNet' = ackNet \cup ReAck(p) \cup {Ack(BufferWith(p)[i].seq)}
          /\ server_window' = [W EXCEPT ![k] = Free]
    BY <1>7, <2>1 DEF RecvAndDeliver, W
  <2>3. /\ BufferWith(p)[i] = Packet(low, TRUE) /\ low <= b
        /\ \A j \in WinSlots : server_window'[j] <= b
    BY <1>6, <2>1, <2>2
  <2>4. last_sent' = low
    BY <2>2, <2>3 DEF Packet
  <2>5. \A a \in ackNet' : a.kind = "finack" => a \in ackNet
    BY <1>3, <2>2 DEF Ack
  <2> QED BY <2>3, <2>4, <2>5
<1>8. CASE RecvFin(p)
  <2>1. p.ok /\ FindLow(W) = low
    BY <1>8 DEF RecvFin, W
  <2>2. PICK i \in FindLowInBuffer(BufferWith(p), low), k \in FindLowIndex(W, low) :
          /\ BufferWith(p)[i].fin
          /\ ackNet' = ackNet \cup ReAck(p) \cup {FinAck(BufferWith(p)[i].seq, 1),
                                                 FinAck(BufferWith(p)[i].seq, 2)}
          /\ server_window' = [W EXCEPT ![k] = Free]
    BY <1>8, <2>1 DEF RecvFin, W
  <2>3. /\ BufferWith(p)[i] = Packet(low, TRUE) /\ low <= b
        /\ \A j \in WinSlots : server_window'[j] <= b
    BY <1>6, <2>1, <2>2
  <2>4. BufferWith(p)[i].seq = FinSeq /\ FinSeq <= b
    <3>1. Packet(low, TRUE).fin = (low = FinSeq) /\ Packet(low, TRUE).seq = low
      BY DEF Packet
    <3> QED BY <2>2, <2>3, <3>1
  <2>5. last_sent' = last_sent
    BY <1>8 DEF RecvFin
  <2>6. \A a \in ackNet' : a.kind = "finack" => a \in ackNet \/ a.seq = FinSeq
    BY <1>3, <2>2, <2>4 DEF FinAck
  <2> QED BY <2>3, <2>4, <2>5, <2>6
<1> QED BY <1>4, <1>5, <1>7, <1>8 DEF RecvPacket

(* What tcpds and ftps hold is consistent at every moment.                 *)
THEOREM Consistent == Spec => []IInv
<1> QED BY IInvInit, IInvStep, PTL DEF Spec

(* Every packet tcpds acknowledges has been passed to ftps, and the FIN    *)
(* packet is acknowledged only after all of them.                          *)
THEOREM AckedDelivered == Spec => []AckedOnlyDelivered
<1>1. IInv => AckedOnlyDelivered
  BY DEF IInv
<1> QED BY <1>1, Consistent, PTL

-------------------------------------------------------------------------------
(* What a step may never do.                                               *)

(* A copy of a delivered packet is acknowledged again.                     *)
THEOREM CopyReAcked == Spec => DuplicateReAcked
<1>1. IInv => \A p \in Arrivals :
        p.ok /\ p.seq <= last_sent /\ RecvPacket(p) => Ack(p.seq) \in ackNet'
  <2> SUFFICES ASSUME IInv, NEW p \in Arrivals, p.ok, p.seq <= last_sent, RecvPacket(p)
               PROVE  Ack(p.seq) \in ackNet'
    OBVIOUS
  <2>1. /\ p.seq \in 0..FinSeq /\ last_sent - Lag < p.seq /\ last_sent \in -1..FinSeq
        /\ AckSlots \in Nat \ {0} /\ Lag \in Nat /\ Lag <= AckSlots
    BY PacketFacts, ServerSizes, ServerFits DEF Arrivals, IInv, TypeOK
  <2>2. p.seq \in 0..last_sent /\ last_sent - AckSlots < p.seq /\ p.seq \in Int
    BY <2>1, ServerSizes
  <2>3. acks[p.seq % AckSlots] = p.seq
    BY <2>2 DEF IInv, AcksGood
  <2>4. p.seq % AckSlots \in RingSlots
    BY <2>1, <2>2, RingSlot DEF RingSlots
  <2>5. Ack(p.seq) \in ReAck(p)
    BY <2>3, <2>4 DEF ReAck, AlreadyAcked
  <2>6. ReAck(p) \subseteq ackNet'
    BY DEF RecvPacket, RecvGarbled, RecvAndWait, RecvAndDeliver, RecvFin
  <2> QED BY <2>5, <2>6
<1>2. IInv => [\A p \in Arrivals :
        p.ok /\ p.seq <= last_sent /\ RecvPacket(p) => Ack(p.seq) \in ackNet']_vars
  BY <1>1
<1> QED BY <1>2, Consistent, PTL DEF DuplicateReAcked

(* The packet ftps waits for is passed on by the iteration that receives   *)
(* it.                                                                     *)
THEOREM NextDelivered == Spec => NextIsDelivered
<1>1. IInv => \A p \in Arrivals :
        p.ok /\ p.seq = last_sent + 1 /\ RecvPacket(p) => last_sent' = last_sent + 1 \/ exited'
  <2> SUFFICES ASSUME IInv, NEW p \in Arrivals, p.ok, p.seq = last_sent + 1, RecvPacket(p)
               PROVE  last_sent' = last_sent + 1 \/ exited'
    OBVIOUS
  <2>1. /\ last_sent \in -1..FinSeq /\ last_sent < FinSeq /\ p.seq \in 0..FinSeq
        /\ ~exited
    BY PacketFacts DEF Arrivals, IInv, TypeOK, RecvPacket
  <2>2. p.seq \in Values(WindowWith(p))
    <3>1. ~AlreadyAcked(p.seq)
      <4>1. \A i \in RingSlots : acks[i] <= last_sent
        BY DEF IInv, AcksGood
      <4> QED BY <2>1, <4>1 DEF AlreadyAcked
    <3>2. CASE IsNew(p)
      BY <3>2, NewValues
    <3>3. CASE InWindow(p.seq)
      <4>1. ~IsNew(p)
        BY <3>3 DEF IsNew
      <4> QED BY <2>1, <3>3, <4>1, OldValues DEF InWindow, Values
    <3> QED BY <3>1, <3>2, <3>3 DEF IsNew
  <2>3. FindLow(WindowWith(p)) = last_sent + 1
    BY <2>1, <2>2, FiledWindow, FindLowNext
  <2>4. CASE RecvAndDeliver(p)
    <3>1. PICK b \in FindLowInBuffer(BufferWith(p), last_sent + 1),
               k \in FindLowIndex(WindowWith(p), last_sent + 1) :
            last_sent' = BufferWith(p)[b].seq
      BY <2>3, <2>4 DEF RecvAndDeliver
    <3>2. BufferWith(p)[b] = Packet(last_sent + 1, TRUE)
      BY <2>1, <2>3, <3>1, Found
    <3> QED BY <3>1, <3>2 DEF Packet
  <2>5. CASE RecvFin(p)
    BY <2>5 DEF RecvFin
  <2>6. ~RecvGarbled(p) /\ ~RecvAndWait(p)
    BY <2>3 DEF RecvGarbled, RecvAndWait
  <2> QED BY <2>4, <2>5, <2>6 DEF RecvPacket
<1>2. IInv => [\A p \in Arrivals :
        p.ok /\ p.seq = last_sent + 1 /\ RecvPacket(p) => last_sent' = last_sent + 1 \/ exited']_vars
  BY <1>1
<1> QED BY <1>2, Consistent, PTL DEF NextIsDelivered

(* A waiting packet leaves the window only to be passed on.                *)
THEOREM WaitingStays == Spec => WaitingKept
<1> DEFINE Kept == \A k \in WinSlots :
             server_window[k] # Free /\ server_window'[k] # server_window[k]
               => server_window[k] = last_sent + 1
<1>1. ASSUME IInv, NEW p \in Arrivals, RecvPacket(p),
             NEW j \in WinSlots, server_window[j] # Free, server_window'[j] # server_window[j]
      PROVE  server_window[j] = last_sent + 1
  <2> DEFINE W == WindowWith(p)
  <2>1. W[j] = server_window[j]
    <3>1. CASE IsNew(p)
      <4>1. p.seq % WindowSize # j
        BY <1>1, <3>1, NewAhead
      <4>2. W = [server_window EXCEPT ![p.seq % WindowSize] = p.seq]
        BY <3>1 DEF WindowWith
      <4>3. server_window \in [WinSlots -> 0..FinSeq \cup {Free}]
        BY <1>1 DEF IInv, TypeOK
      <4> DEFINE i == p.seq % WindowSize
      <4> HIDE DEF i
      <4>4. i # j /\ W = [server_window EXCEPT ![i] = p.seq]
        BY <4>1, <4>2 DEF i
      <4> QED BY <4>3, <4>4
    <3>2. CASE ~IsNew(p)
      BY <3>2, OldValues
    <3> QED BY <3>1, <3>2
  <2>2. CASE RecvGarbled(p) \/ RecvAndWait(p)
    BY <1>1, <2>1, <2>2 DEF RecvGarbled, RecvAndWait
  <2>3. CASE RecvAndDeliver(p) \/ RecvFin(p)
    <3>1. p.ok /\ ~exited /\ FindLow(W) = last_sent + 1
      BY <1>1, <2>3 DEF RecvAndDeliver, RecvFin, RecvPacket
    <3>2. PICK b \in FindLowInBuffer(BufferWith(p), last_sent + 1), k \in FindLowIndex(W, last_sent + 1) :
            server_window' = [W EXCEPT ![k] = Free]
      BY <2>3, <3>1 DEF RecvAndDeliver, RecvFin
    <3>3. W[k] = last_sent + 1 /\ k \in WinSlots
      BY <1>1, <3>1, <3>2, Found
    <3>4. W \in [WinSlots -> 0..FinSeq \cup {Free}]
      BY <1>1, FileTypes DEF Arrivals, IInv
    <3>5. j # k => server_window'[j] = W[j]
      BY <3>2, <3>4
    <3> QED BY <1>1, <2>1, <3>3, <3>5
  <2> QED BY <1>1, <2>2, <2>3 DEF RecvPacket
<1>2. IInv /\ [Next]_vars => Kept
  <2> SUFFICES ASSUME IInv, [Next]_vars,
                      NEW j \in WinSlots, server_window[j] # Free, server_window'[j] # server_window[j]
               PROVE  server_window[j] = last_sent + 1
    OBVIOUS
  <2>1. \E p \in Arrivals : RecvPacket(p)
    BY DEF Next, FtpsWrite, FtpsClose, AcksLeave, vars, tcpdsVars
  <2> QED BY <1>1, <2>1
<1>3. IInv /\ [Next]_vars => [Kept]_vars
  BY <1>2
<1> HIDE DEF Kept
<1>4. Spec => [][Kept]_vars
  BY <1>3, Consistent, PTL DEF Spec
<1> QED BY <1>4 DEF WaitingKept, Kept

-------------------------------------------------------------------------------
LEMMA WriteIsWrite == IInv /\ FtpsWrite => Transfer!Write
<1> DEFINE S == [i \in 1..FinSeq |-> i - 1]
<1> SUFFICES ASSUME IInv, FtpsWrite PROVE Transfer!Write
  OBVIOUS
<1>1. /\ ~closed /\ toFtps # <<>> /\ ~Head(toFtps).fin
      /\ file' = Append(file, Block(Head(toFtps))) /\ UNCHANGED closed
  BY DEF FtpsWrite
<1>2. Block(Head(toFtps)) = Len(file) /\ Len(file) \in 0..FinSeq /\ Len(file) # FinSeq
  BY <1>1, InFront
<1>3. Len(S) = FinSeq
  BY ServerSizes
<1>4. Len(file) + 1 \in 1..FinSeq /\ Len(file) + 1 - 1 = Len(file) /\ Len(file) < FinSeq
  BY <1>2, ServerSizes
<1>5. S[Len(file) + 1] = Len(file)
  BY <1>4
<1> HIDE DEF S
<1>6. Len(file) < Len(S) /\ file' = Append(file, S[Len(file) + 1])
  BY <1>1, <1>2, <1>3, <1>4, <1>5
<1> QED BY <1>1, <1>6 DEF Transfer!Write, S

LEMMA CloseIsClose == IInv /\ FtpsClose => Transfer!Close
<1> DEFINE S == [i \in 1..FinSeq |-> i - 1]
<1> SUFFICES ASSUME IInv, FtpsClose PROVE Transfer!Close
  OBVIOUS
<1>1. /\ ~closed /\ toFtps # <<>> /\ Head(toFtps).fin
      /\ closed' = TRUE /\ UNCHANGED file
  BY DEF FtpsClose
<1>2. Len(file) = FinSeq /\ file = [i \in 1..Len(file) |-> i - 1]
  BY <1>1, InFront, StreamFacts
<1>3. file = S
  BY <1>2
<1> QED BY <1>1, <1>3 DEF Transfer!Close

(* The file written is the file sent: tcpds and ftps implement the         *)
(* transfer of packets 0 to FinSeq-1, whatever arrives in between.         *)
THEOREM TransferCorrect == Spec => TransferSpec
<1>1. Init => Transfer!Init
  BY DEF Init, Transfer!Init
<1>2. IInv /\ [Next]_vars => [Transfer!Next]_<<file, closed>>
  <2> SUFFICES ASSUME IInv, [Next]_vars PROVE Transfer!Next \/ UNCHANGED <<file, closed>>
    OBVIOUS
  <2>1. CASE FtpsWrite
    BY <2>1, WriteIsWrite DEF Transfer!Next
  <2>2. CASE FtpsClose
    BY <2>2, CloseIsClose DEF Transfer!Next
  <2>3. CASE (\E p \in Arrivals : RecvPacket(p)) \/ AcksLeave \/ UNCHANGED vars
    BY <2>3 DEF RecvPacket, AcksLeave, vars, ftpsVars
  <2> QED BY <2>1, <2>2, <2>3 DEF Next
<1> QED BY <1>1, <1>2, Consistent, PTL DEF Spec, TransferSpec, Transfer!Spec
===============================================================================
