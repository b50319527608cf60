--------------------------- MODULE TcpdClientProofs ---------------------------
(***************************************************************************)
(* Proofs about ftpc and tcpdc, for every size of the window and the       *)
(* buffer, every length of the file and every bound of the model.          *)
(***************************************************************************)
EXTENDS TcpdClient, RingLemmas

(* The window starts over as soon as it is empty. *)
EmptyAtStart == WindowEmpty(window) => window_pointer = 0

(* Until it is done, ftpc has the last block and the FIN packet to send. *)
RoomForFin == ~ftpcDone => next <= FinSeq - 2

-------------------------------------------------------------------------------
(* Facts about the definitions.                                            *)

LEMMA BagTypes ==
  ASSUME NEW bag \in [Ids -> Nat], NEW n \in Ids
  PROVE  /\ Plus(bag, n) \in [Ids -> Nat] /\ Minus(bag, n) \in [Ids -> Nat]
         /\ \A m \in Ids : Plus(bag, n)[m] = IF m = n THEN bag[m] + 1 ELSE bag[m]
         /\ \A m \in Ids : Minus(bag, n)[m] = IF m = n /\ bag[m] > 0 THEN bag[m] - 1 ELSE bag[m]
  BY DEF Plus, Minus

LEMMA SignalType ==
  ASSUME control \in Seq({Go, Stop}), NEW msg \in {Go, Stop}
  PROVE  Signal(msg) \in Seq({Go, Stop})
  BY DEF Signal

(* The search for the packet to resend. *)
LEMMA ResendSlot ==
  ASSUME TypeOK, NEW n \in Ids
  PROVE  /\ FindResend(n) \in BufSlots \cup {OutOfBuffer}
         /\ Windowed(n) /\ (\E j \in BufSlots : buffer[j] = n /\ n # Free)
              => FindResend(n) \in BufSlots /\ buffer[FindResend(n)] = n
<1> DEFINE at == {j \in BufSlots : buffer[j] = n /\ n # Free}
<1>1. FindResend(n) = IF Windowed(n) /\ at # {} THEN CHOOSE j \in at : \A i \in at : i <= j
                      ELSE resendpacket
  BY DEF FindResend
<1>2. at \subseteq 0..(BufSize - 1) /\ BufSize - 1 \in Nat
  BY ClientSizes DEF BufSlots
<1>3. at # {} => \E j \in at : \A i \in at : i <= j
  <2> HIDE DEF at
  <2> QED BY <1>2, GreatestExists
<1>4. Windowed(n) /\ at # {} => FindResend(n) \in at
  <2> HIDE DEF at
  <2> QED BY <1>1, <1>3
<1>5. ~(Windowed(n) /\ at # {}) => FindResend(n) \in BufSlots \cup {OutOfBuffer}
  <2> HIDE DEF at
  <2> QED BY <1>1 DEF TypeOK
<1> QED BY <1>4, <1>5

LEMMA ReplyTypes ==
  ASSUME NEW a \in Replies
  PROVE  a.seq \in Seqs /\ a.seq \in Ids /\ a.seq # Free
<1>1. a.seq \in 0..FinSeq
  BY ClientSizes DEF Replies, Ack, FinAck
<1> QED BY <1>1, ClientSizes DEF Seqs, Ids, Free

-------------------------------------------------------------------------------
(* Type correctness.                                                       *)

LEMMA TypeInit == Init => TypeOK /\ RoomForFin
<1> SUFFICES ASSUME Init PROVE TypeOK /\ RoomForFin
  OBVIOUS
<1>1. resendpacket \in BufSlots \cup {OutOfBuffer}
  BY ClientSizes DEF Init, BufSlots, OutOfBuffer
<1>2. local \in Seq(Seqs) /\ control \in Seq({Go, Stop})
  BY ClientSizes DEF Init, Seqs
<1>3. next \in Seqs /\ RoomForFin /\ head \in BufSlots
  BY ClientSizes DEF Init, Seqs, RoomForFin, BufSlots
<1> QED BY <1>1, <1>2, <1>3 DEF Init, TypeOK, Ids

LEMMA TypeFtpc ==
  ASSUME TypeOK, RoomForFin, FtpcSleep \/ FtpcSend
  PROVE  TypeOK' /\ RoomForFin'
<1>1. CASE FtpcSleep
  BY <1>1 DEF FtpcSleep, TypeOK, RoomForFin, ftpcVars, tcpdcVars, timerVars
<1>2. CASE FtpcSend
  <2>1. next \in 0..FinSeq /\ next <= FinSeq - 2 /\ FinSeq \in Nat
        /\ local \in Seq(Seqs) /\ control \in Seq({Go, Stop}) /\ control # <<>>
    BY <1>2, ClientSizes DEF FtpcSend, TypeOK, RoomForFin, Seqs
  <2>2. next + 1 \in Seqs /\ next + 2 \in Seqs
    BY <2>1 DEF Seqs
  <2>3. Append(local, next + 1) \in Seq(Seqs) /\ local \o <<next + 1, next + 2>> \in Seq(Seqs)
    BY <2>1, <2>2
  <2>4. Tail(control) \in Seq({Go, Stop}) /\ <<>> \in Seq({Go, Stop})
    BY <2>1
  <2>5. next' \in Seqs /\ local' \in Seq(Seqs) /\ control' \in Seq({Go, Stop})
        /\ ftpcDone' \in BOOLEAN
    BY <1>2, <2>2, <2>3, <2>4 DEF FtpcSend, TypeOK
  <2>6. RoomForFin'
    BY <1>2, <2>1 DEF FtpcSend, RoomForFin
  <2>7. UNCHANGED <<tcpdcVars, timerVars, net>>
    BY <1>2 DEF FtpcSend
  <2> QED BY <2>5, <2>6, <2>7 DEF TypeOK, tcpdcVars, timerVars
<1> QED BY <1>1, <1>2

LEMMA TypeLocal ==
  ASSUME TypeOK, RoomForFin, RecvLocal
  PROVE  TypeOK' /\ RoomForFin'
<1> DEFINE n == Head(local)
<1>1. n \in Seqs /\ n \in Ids /\ Tail(local) \in Seq(Seqs)
  BY DEF RecvLocal, TypeOK, Ids
<1>2. buffer' \in [BufSlots -> Ids] /\ window' \in [WinSlots -> Ids]
  BY <1>1 DEF RecvLocal, TypeOK, WindowWith
<1>3. alarms' \in [Ids -> Nat] /\ net' \subseteq Seqs
  BY <1>1, BagTypes DEF RecvLocal, TypeOK
<1>4. head' \in BufSlots
  <2>1. head + 1 \in Int /\ BufSize \in Nat \ {0} /\ head' = (head + 1) % BufSize
    BY ClientSizes DEF RecvLocal, HeadNext, TypeOK, BufSlots
  <2> QED BY <2>1, RingSlot DEF BufSlots
<1>5. control' \in Seq({Go, Stop})
  BY SignalType DEF RecvLocal, TypeOK
<1>6. /\ local' = Tail(local) /\ window_pointer' = window_pointer + 1
      /\ UNCHANGED <<ftpcVars, resendpacket, mode, expired>>
  BY DEF RecvLocal
<1>7. RoomForFin' /\ next' \in Seqs /\ ftpcDone' \in BOOLEAN
  BY <1>6 DEF TypeOK, RoomForFin, ftpcVars
<1>8. window_pointer' \in Nat /\ UNCHANGED <<resendpacket, mode, expired>>
  BY <1>6 DEF TypeOK
<1> QED BY <1>1, <1>2, <1>3, <1>4, <1>5, <1>6, <1>7, <1>8 DEF TypeOK

LEMMA TypeExpiry ==
  ASSUME TypeOK, RoomForFin, NEW n \in Ids, RecvExpiry(n)
  PROVE  TypeOK' /\ RoomForFin'
<1>1. expired' \in [Ids -> Nat]
  BY BagTypes DEF RecvExpiry, TypeOK
<1>2. resendpacket' \in BufSlots \cup {OutOfBuffer}
  BY ResendSlot DEF RecvExpiry
<1>3. net' \subseteq Seqs /\ alarms' \in [Ids -> Nat] /\ mode' \in {"run", "fin", "done", "crashed"}
  <2>1. CASE FindResend(n) = OutOfBuffer
    BY <2>1 DEF RecvExpiry, TypeOK
  <2>2. CASE FindResend(n) # OutOfBuffer
    <3>1. buffer[FindResend(n)] \in Ids
      BY <2>2, ResendSlot DEF TypeOK
    <3>2. /\ net' = net \cup ({buffer[FindResend(n)]} \ {Free})
          /\ alarms' = Plus(alarms, buffer[FindResend(n)])
          /\ UNCHANGED mode
      BY <2>2 DEF RecvExpiry
    <3>3. {buffer[FindResend(n)]} \ {Free} \subseteq Seqs
      BY <3>1 DEF Ids
    <3> QED BY <3>1, <3>2, <3>3, BagTypes DEF TypeOK
  <2> QED BY <2>1, <2>2
<1>4. UNCHANGED <<ftpcVars, local, control, window, window_pointer, buffer, head>>
  BY DEF RecvExpiry
<1> QED BY <1>1, <1>2, <1>3, <1>4 DEF TypeOK, RoomForFin, ftpcVars

(* Of a reply, only that it is about a packet matters. *)
LEMMA TypeReply ==
  ASSUME TypeOK, RoomForFin, NEW a, a.seq \in Seqs, RecvReply(a)
  PROVE  TypeOK' /\ RoomForFin'
<1>0. a.seq \in Ids
  BY DEF Ids
<1>1. UNCHANGED <<ftpcVars, local, buffer, head, resendpacket, expired, net>>
  BY DEF RecvReply
<1>2. CASE RecvAck(a)
  <2>1. alarms' \in [Ids -> Nat]
    BY <1>2, <1>0, BagTypes DEF RecvAck, TypeOK
  <2>2. window' \in [WinSlots -> Ids]
    BY <1>2 DEF RecvAck, Cleared, TypeOK, Ids
  <2>3. window_pointer' \in Nat /\ mode' \in {"run", "fin", "done", "crashed"}
    BY <1>2 DEF RecvAck, TypeOK
  <2>4. control' \in Seq({Go, Stop})
    BY <1>2, SignalType DEF RecvAck, Emptied, TypeOK
  <2> QED BY <1>1, <2>1, <2>2, <2>3, <2>4 DEF TypeOK, RoomForFin, ftpcVars
<1>3. CASE RecvFinAck(a) \/ RecvGarbledReply(a)
  BY <1>1, <1>3 DEF RecvFinAck, RecvGarbledReply, TypeOK, RoomForFin, ftpcVars
<1>4. CASE RecvFinAgain(a)
  <2>1. alarms' \in [Ids -> Nat]
    BY <1>4, <1>0, BagTypes DEF RecvFinAgain, TypeOK
  <2>2. control' \in Seq({Go, Stop})
    BY <1>4, SignalType DEF RecvFinAgain, TypeOK
  <2>3. mode' = "done" /\ UNCHANGED <<window, window_pointer>>
    BY <1>4 DEF RecvFinAgain
  <2> QED BY <1>1, <2>1, <2>2, <2>3 DEF TypeOK, RoomForFin, ftpcVars
<1> QED BY <1>2, <1>3, <1>4 DEF RecvReply

LEMMA TypeExpire ==
  ASSUME TypeOK, RoomForFin, NEW n \in Ids, Expire(n)
  PROVE  TypeOK' /\ RoomForFin'
<1>1. alarms' \in [Ids -> Nat] /\ expired' \in [Ids -> Nat]
  BY BagTypes DEF Expire, TypeOK
<1> QED BY <1>1 DEF Expire, TypeOK, RoomForFin, ftpcVars, tcpdcVars

LEMMA TypeStep == TypeOK /\ RoomForFin /\ [Next]_vars => TypeOK' /\ RoomForFin'
<1> SUFFICES ASSUME TypeOK, RoomForFin, [Next]_vars PROVE TypeOK' /\ RoomForFin'
  OBVIOUS
<1>1. CASE UNCHANGED vars
  BY <1>1 DEF vars, TypeOK, RoomForFin, ftpcVars, tcpdcVars, timerVars
<1>2. CASE Next
  BY <1>2, TypeFtpc, TypeLocal, TypeExpiry, TypeReply, TypeExpire, ReplyTypes DEF Next
<1> QED BY <1>1, <1>2

(* Every variable of ftpc and tcpdc keeps its type; no packet beyond the   *)
(* FIN packet is made, and head never leaves the buffer.                   *)
THEOREM TypeCorrect == Spec => []TypeOK
<1> QED BY TypeInit, TypeStep, PTL DEF Spec

-------------------------------------------------------------------------------
(* The window and the buffer.                                              *)

LEMMA BufferInit == Init => EmptyAtStart /\ WindowInBuffer
  BY DEF Init, EmptyAtStart, WindowInBuffer

(* A packet from ftpc takes the next slots of both. *)
LEMMA BufferLocal ==
  ASSUME TypeOK, EmptyAtStart, WindowInBuffer, RecvLocal
  PROVE  EmptyAtStart' /\ WindowInBuffer'
<1> DEFINE n == Head(local)
<1>1. /\ n \in Seqs /\ n # Free
      /\ buffer \in [BufSlots -> Ids] /\ head \in BufSlots /\ head \in Int
      /\ window \in [WinSlots -> Ids]
      /\ window_pointer \in Nat /\ BufSize \in Nat \ {0}
  <2>1. n \in Seqs
    BY DEF TypeOK, RecvLocal
  <2>2. n # Free
    BY <2>1, ClientSizes DEF Seqs, Free
  <2>3. head \in BufSlots /\ head \in Int
    BY ClientSizes DEF TypeOK, BufSlots
  <2> HIDE DEF n
  <2> QED BY <2>1, <2>2, <2>3, ClientSizes DEF TypeOK
<1>2. /\ buffer' = [buffer EXCEPT ![head] = n] /\ window' = WindowWith(n)
      /\ window_pointer' = window_pointer + 1 /\ head' = (head + 1) % BufSize
  BY DEF RecvLocal, HeadNext
<1>3. \A k \in WinSlots : window'[k] = IF k = window_pointer THEN n ELSE window[k]
  <2> HIDE DEF n
  <2> QED BY <1>1, <1>2 DEF WindowWith
<1>4. EmptyAtStart'
  <2> SUFFICES \E k \in WinSlots : window'[k] # Free
    BY DEF EmptyAtStart, WindowEmpty
  <2>1. CASE window_pointer \in WinSlots
    BY <1>1, <1>3, <2>1
  <2>2. CASE window_pointer \notin WinSlots
    <3>1. window_pointer # 0
      BY <2>2, ClientSizes DEF WinSlots
    <3>2. PICK k \in WinSlots : window[k] # Free
      BY <3>1 DEF EmptyAtStart, WindowEmpty
    <3> QED BY <1>3, <2>2, <3>2
  <2> QED BY <2>1, <2>2
<1>5. ASSUME NEW k \in WinSlots, window'[k] # Free
      PROVE  /\ k < window_pointer'
             /\ window_pointer' - k <= BufSize
                  => buffer'[(head' + k - window_pointer') % BufSize] = window'[k]
  <2>0. k \in Nat
    BY ClientSizes DEF WinSlots
  <2> DEFINE m == k - window_pointer - 1
  <2>1. m \in Int /\ head' + k - window_pointer' = ((head + 1) % BufSize) + m
    BY <1>1, <1>2, <2>0
  <2>2. (((head + 1) % BufSize) + m) % BufSize = (head + 1 + m) % BufSize
    <3>1. head + 1 \in Int
      BY <1>1
    <3> HIDE DEF m
    <3> QED BY <1>1, <2>1, <3>1, RingShift
  <2>3. (head' + k - window_pointer') % BufSize = (head + k - window_pointer) % BufSize
    <3>1. head + 1 + m = head + k - window_pointer
      BY <1>1, <2>0
    <3> QED BY <2>1, <2>2, <3>1
  <2>4. CASE k = window_pointer
    <3>1. head + k - window_pointer = head
      BY <1>1, <2>0, <2>4
    <3>2. head % BufSize = head
      BY <1>1, RingSlot DEF BufSlots
    <3>3. (head' + k - window_pointer') % BufSize = head
      BY <2>3, <3>1, <3>2
    <3>4. buffer'[head] = n
      BY <1>1, <1>2
    <3> QED BY <1>1, <1>2, <1>3, <2>4, <3>3, <3>4
  <2>5. CASE k # window_pointer
    <3>1. window'[k] = window[k] /\ window[k] # Free
      BY <1>3, <1>5, <2>5
    <3>2. /\ k < window_pointer
          /\ window_pointer - k <= BufSize
               => buffer[(head + k - window_pointer) % BufSize] = window[k]
      BY <3>1 DEF WindowInBuffer
    <3>3. ASSUME window_pointer' - k <= BufSize
          PROVE  buffer'[(head' + k - window_pointer') % BufSize] = window'[k]
      <4> DEFINE i == head + k - window_pointer
      <4>1. i \in Int /\ head - i < BufSize /\ i - head < BufSize /\ i # head
        BY <1>1, <1>2, <2>0, <3>2, <3>3
      <4>2. i % BufSize # head /\ i % BufSize \in BufSlots
        <5>1. head % BufSize = head
          BY <1>1, RingSlot DEF BufSlots
        <5> HIDE DEF i
        <5>2. i % BufSize # head % BufSize
          BY <1>1, <4>1, RingUnique
        <5> QED BY <1>1, <4>1, <5>1, <5>2, RingSlot DEF BufSlots
      <4>3. buffer[i % BufSize] = window[k]
        <5>1. window_pointer - k <= BufSize
          BY <1>1, <1>2, <2>0, <3>3
        <5> QED BY <3>2, <5>1
      <4>4. buffer'[i % BufSize] = buffer[i % BufSize]
        <5> HIDE DEF i, n
        <5> QED BY <1>1, <1>2, <4>2
      <4> QED BY <2>3, <3>1, <4>3, <4>4
    <3> QED BY <1>1, <1>2, <2>0, <3>2, <3>3
  <2> QED BY <2>4, <2>5
<1> QED BY <1>4, <1>5 DEF WindowInBuffer

(* An acknowledgement only empties slots, and the pointer goes back only   *)
(* when all of them are.                                                   *)
LEMMA BufferAck ==
  ASSUME TypeOK, EmptyAtStart, WindowInBuffer, NEW a, RecvAck(a), UNCHANGED <<buffer, head>>
  PROVE  EmptyAtStart' /\ WindowInBuffer'
<1>1. /\ window' = [k \in WinSlots |-> IF window[k] = a.seq THEN Free ELSE window[k]]
      /\ window_pointer' = IF WindowEmpty(window') THEN 0 ELSE window_pointer
  BY DEF RecvAck, Cleared
<1>2. EmptyAtStart'
  BY <1>1 DEF EmptyAtStart, WindowEmpty
<1>3. ASSUME NEW k \in WinSlots, window'[k] # Free
      PROVE  window'[k] = window[k] /\ window_pointer' = window_pointer
  BY <1>1, <1>3 DEF WindowEmpty
<1> QED BY <1>2, <1>3 DEF WindowInBuffer

LEMMA BufferStep ==
  TypeOK /\ EmptyAtStart /\ WindowInBuffer /\ [Next]_vars => EmptyAtStart' /\ WindowInBuffer'
<1> SUFFICES ASSUME TypeOK, EmptyAtStart, WindowInBuffer, [Next]_vars
             PROVE  EmptyAtStart' /\ WindowInBuffer'
  OBVIOUS
<1>1. CASE RecvLocal
  BY <1>1, BufferLocal
<1>2. ASSUME NEW a \in Replies, RecvReply(a) PROVE EmptyAtStart' /\ WindowInBuffer'
  <2>1. CASE RecvAck(a)
    BY <1>2, <2>1, BufferAck DEF RecvReply
  <2>2. CASE ~RecvAck(a)
    <3>1. UNCHANGED <<window, window_pointer, buffer, head>>
      BY <1>2, <2>2 DEF RecvReply, RecvFinAck, RecvGarbledReply, RecvFinAgain
    <3> QED BY <3>1 DEF EmptyAtStart, WindowEmpty, WindowInBuffer
  <2> QED BY <2>1, <2>2
<1>3. CASE FtpcSleep \/ FtpcSend \/ (\E n \in Ids : RecvExpiry(n) \/ Expire(n)) \/ UNCHANGED vars
  <2>1. UNCHANGED <<window, window_pointer, buffer, head>>
    BY <1>3 DEF FtpcSleep, FtpcSend, RecvExpiry, Expire, vars, tcpdcVars
  <2> QED BY <2>1 DEF EmptyAtStart, WindowEmpty, WindowInBuffer
<1> QED BY <1>1, <1>2, <1>3 DEF Next

(* A packet that waits for its acknowledgement is in the buffer, where the *)
(* search for it looks, until as many packets as the buffer has slots have *)
(* come after it.                                                          *)
THEOREM WindowBuffered == Spec => []WindowInBuffer
<1> DEFINE Inv == TypeOK /\ RoomForFin /\ EmptyAtStart /\ WindowInBuffer
<1>1. Init => Inv
  BY TypeInit, BufferInit
<1>2. Inv /\ [Next]_vars => Inv'
  BY TypeStep, BufferStep
<1>3. Inv => WindowInBuffer
  OBVIOUS
<1> HIDE DEF Inv
<1> QED BY <1>1, <1>2, <1>3, PTL DEF Spec

-------------------------------------------------------------------------------
(* The timers.                                                             *)


LEMMA TimerAck ==
  ASSUME TypeOK, EmptyAtStart, WindowedHasTimer, NEW a \in Replies, RecvAck(a),
         mode = "run", expired' = expired
  PROVE  WindowedHasTimer'
<1>1. /\ alarms' = Minus(alarms, a.seq) /\ UNCHANGED expired
      /\ window' = [k \in WinSlots |-> IF window[k] = a.seq THEN Free ELSE window[k]]
      /\ window_pointer' = IF WindowEmpty(window') THEN 0 ELSE window_pointer
  BY DEF RecvAck, Cleared
<1>2. ASSUME window_pointer' <= BufSize, NEW n \in Seqs, \E k \in WinSlots : window'[k] = n
      PROVE  alarms'[n] + expired'[n] > 0
  <2>1. n # Free /\ n \in Ids
    BY ClientSizes DEF Seqs, Free, Ids
  <2>2. PICK k \in WinSlots : window'[k] = n
    BY <1>2
  <2>3. window[k] = n /\ n # a.seq /\ window_pointer' = window_pointer
    BY <1>1, <2>1, <2>2 DEF WindowEmpty
  <2>4. alarms[n] + expired[n] > 0
    BY <1>2, <2>3 DEF WindowedHasTimer, Windowed
  <2>5. alarms'[n] = alarms[n]
    <3>1. alarms \in [Ids -> Nat] /\ a.seq \in Ids
      BY ReplyTypes DEF TypeOK
    <3>2. \A m \in Ids : Minus(alarms, a.seq)[m] =
                           IF m = a.seq /\ alarms[m] > 0 THEN alarms[m] - 1 ELSE alarms[m]
      BY <3>1, BagTypes
    <3> QED BY <1>1, <2>1, <2>3, <3>2
  <2> QED BY <1>1, <2>4, <2>5
<1> QED BY <1>2 DEF WindowedHasTimer, Windowed

(* The search finds a packet that still waits, so the timer that ran out   *)
(* is replaced by one for the same packet.                                 *)
LEMMA TimerExpiry ==
  ASSUME TypeOK, WindowInBuffer, WindowedHasTimer, NEW e \in Ids, RecvExpiry(e)
  PROVE  WindowedHasTimer'
<1>1. /\ expired[e] > 0 /\ expired' = Minus(expired, e) /\ mode = "run"
      /\ UNCHANGED <<window, window_pointer, buffer, head>>
      /\ FindResend(e) = OutOfBuffer => mode' = "crashed"
      /\ FindResend(e) # OutOfBuffer => alarms' = Plus(alarms, buffer[FindResend(e)])
  BY DEF RecvExpiry
<1>2. ASSUME mode' \in {"run", "fin"}, window_pointer <= BufSize, NEW n \in Seqs, Windowed(n)
      PROVE  alarms'[n] + expired'[n] > 0
  <2>1. n \in Ids /\ n # Free /\ alarms[n] + expired[n] > 0
    BY <1>1, <1>2, ClientSizes DEF Seqs, Ids, Free, WindowedHasTimer
  <2>2. FindResend(e) \in BufSlots /\ alarms' = Plus(alarms, buffer[FindResend(e)])
    <3>1. FindResend(e) # OutOfBuffer
      BY <1>1, <1>2
    <3> QED BY <1>1, <3>1, ResendSlot
  <2>3. buffer[FindResend(e)] \in Ids
    BY <2>2 DEF TypeOK
  <2>4. /\ alarms[n] \in Nat /\ expired[n] \in Nat
        /\ alarms'[n] = IF n = buffer[FindResend(e)] THEN alarms[n] + 1 ELSE alarms[n]
        /\ expired'[n] = IF n = e /\ expired[n] > 0 THEN expired[n] - 1 ELSE expired[n]
    <3>1. alarms \in [Ids -> Nat] /\ expired \in [Ids -> Nat]
      BY DEF TypeOK
    <3>2. Plus(alarms, buffer[FindResend(e)])[n] =
            IF n = buffer[FindResend(e)] THEN alarms[n] + 1 ELSE alarms[n]
      BY <2>1, <2>3, <3>1, BagTypes
    <3>3. Minus(expired, e)[n] = IF n = e /\ expired[n] > 0 THEN expired[n] - 1 ELSE expired[n]
      BY <2>1, <3>1, BagTypes
    <3> QED BY <1>1, <2>1, <2>2, <3>1, <3>2, <3>3
  <2>5. CASE n # e
    BY <2>1, <2>4, <2>5
  <2>6. CASE n = e
    <3>1. PICK k \in WinSlots : window[k] = n
      BY <1>2 DEF Windowed
    <3>2. k \in Nat /\ window_pointer \in Nat /\ BufSize \in Nat \ {0} /\ head \in Int
      BY ClientSizes DEF WinSlots, TypeOK, BufSlots
    <3>3. window_pointer - k <= BufSize
      BY <1>2, <3>2
    <3>4. buffer[(head + k - window_pointer) % BufSize] = n
      BY <2>1, <3>1, <3>3 DEF WindowInBuffer
    <3>5. (head + k - window_pointer) % BufSize \in BufSlots
      <4>1. head + k - window_pointer \in Int
        BY <3>2
      <4> QED BY <3>2, <4>1, RingSlot DEF BufSlots
    <3>6. buffer[FindResend(e)] = n
      BY <1>2, <2>1, <2>6, <3>4, <3>5, ResendSlot
    <3> QED BY <2>4, <3>6
  <2> QED BY <2>5, <2>6
<1> QED BY <1>1, <1>2 DEF WindowedHasTimer, Windowed

LEMMA TimerStep ==
  TypeOK /\ EmptyAtStart /\ WindowInBuffer /\ WindowedHasTimer /\ [Next]_vars => WindowedHasTimer'
<1> SUFFICES ASSUME TypeOK, EmptyAtStart, WindowInBuffer, WindowedHasTimer, [Next]_vars
             PROVE  WindowedHasTimer'
  OBVIOUS
<1>1. CASE RecvLocal
  <2> DEFINE q == Head(local)
  <2>1. /\ q \in Ids /\ alarms' = Plus(alarms, q) /\ UNCHANGED <<mode, expired>>
        /\ window' = WindowWith(q) /\ window_pointer' = window_pointer + 1
    BY <1>1 DEF RecvLocal, TypeOK, Ids
  <2> HIDE DEF q
  <2>2. ASSUME mode \in {"run", "fin"}, window_pointer' <= BufSize,
               NEW n \in Seqs, NEW k \in WinSlots, window'[k] = n
        PROVE  alarms'[n] + expired'[n] > 0
    <3>1. /\ n \in Ids /\ alarms[n] \in Nat /\ expired[n] \in Nat /\ expired'[n] = expired[n]
          /\ alarms'[n] = IF n = q THEN alarms[n] + 1 ELSE alarms[n]
      <4>1. n \in Ids /\ alarms \in [Ids -> Nat] /\ expired \in [Ids -> Nat]
        BY DEF TypeOK, Ids
      <4>2. Plus(alarms, q)[n] = IF n = q THEN alarms[n] + 1 ELSE alarms[n]
        BY <2>1, <4>1, BagTypes
      <4> QED BY <2>1, <4>1, <4>2
    <3>2. n = q \/ window[k] = n
      BY <2>1, <2>2 DEF WindowWith, TypeOK
    <3>3. window[k] = n => alarms[n] + expired[n] > 0
      <4>1. window_pointer <= BufSize
        BY <2>1, <2>2, ClientSizes DEF TypeOK
      <4> QED BY <2>2, <4>1 DEF WindowedHasTimer, Windowed
    <3> QED BY <3>1, <3>2, <3>3
  <2> QED BY <2>1, <2>2 DEF WindowedHasTimer, Windowed
<1>2. ASSUME NEW a \in Replies, RecvReply(a) PROVE WindowedHasTimer'
  <2>1. CASE mode = "run" /\ RecvAck(a)
    BY <1>2, <2>1, TimerAck DEF RecvReply
  <2>2. CASE RecvFinAgain(a)
    BY <2>2 DEF RecvFinAgain, WindowedHasTimer
  <2>3. CASE mode = "run" /\ (RecvFinAck(a) \/ RecvGarbledReply(a))
    BY <1>2, <2>3 DEF RecvReply, RecvFinAck, RecvGarbledReply, WindowedHasTimer, Windowed
  <2> QED BY <1>2, <2>1, <2>2, <2>3 DEF RecvReply
<1>3. ASSUME NEW e \in Ids, RecvExpiry(e) PROVE WindowedHasTimer'
  BY <1>3, TimerExpiry
<1>4. ASSUME NEW e \in Ids, Expire(e) PROVE WindowedHasTimer'
  <2>1. /\ alarms[e] > 0 /\ alarms' = Minus(alarms, e) /\ expired' = Plus(expired, e)
        /\ UNCHANGED <<window, window_pointer, mode>>
    BY <1>4 DEF Expire, tcpdcVars
  <2>2. ASSUME NEW n \in Seqs, alarms[n] + expired[n] > 0 PROVE alarms'[n] + expired'[n] > 0
    <3>1. /\ n \in Ids /\ alarms[n] \in Nat /\ expired[n] \in Nat
          /\ alarms'[n] = IF n = e /\ alarms[n] > 0 THEN alarms[n] - 1 ELSE alarms[n]
          /\ expired'[n] = IF n = e THEN expired[n] + 1 ELSE expired[n]
      <4>1. n \in Ids /\ alarms \in [Ids -> Nat] /\ expired \in [Ids -> Nat]
        BY DEF TypeOK, Ids
      <4>2. Minus(alarms, e)[n] = IF n = e /\ alarms[n] > 0 THEN alarms[n] - 1 ELSE alarms[n]
        BY <4>1, BagTypes
      <4>3. Plus(expired, e)[n] = IF n = e THEN expired[n] + 1 ELSE expired[n]
        BY <4>1, BagTypes
      <4> QED BY <2>1, <4>1, <4>2, <4>3
    <3> QED BY <2>2, <3>1
  <2> QED BY <2>1, <2>2 DEF WindowedHasTimer, Windowed
<1>5. CASE FtpcSleep \/ FtpcSend \/ UNCHANGED vars
  <2>1. UNCHANGED <<window, window_pointer, mode, alarms, expired>>
    BY <1>5 DEF FtpcSleep, FtpcSend, vars, tcpdcVars, timerVars
  <2> QED BY <2>1 DEF WindowedHasTimer, Windowed
<1> QED BY <1>1, <1>2, <1>3, <1>4, <1>5 DEF Next

(* No packet waits for its acknowledgement without a timer running for it, *)
(* or a message under way that it ran out.                                 *)
THEOREM TimersCover == Spec => []WindowedHasTimer
<1> DEFINE Inv == TypeOK /\ RoomForFin /\ EmptyAtStart /\ WindowInBuffer /\ WindowedHasTimer
<1>1. Init => Inv
  <2>1. Init => WindowedHasTimer
    BY ClientSizes DEF Init, WindowedHasTimer, Windowed, Free, Seqs
  <2> QED BY <2>1, TypeInit, BufferInit
<1>2. Inv /\ [Next]_vars => Inv'
  BY TypeStep, BufferStep, TimerStep
<1>3. Inv => WindowedHasTimer
  OBVIOUS
<1> HIDE DEF Inv
<1> QED BY <1>1, <1>2, <1>3, PTL DEF Spec

-------------------------------------------------------------------------------
(* The signals.                                                            *)

LEMMA AppendedGo ==
  ASSUME control \in Seq({Go, Stop})
  PROVE  \E i \in 1..Len(Append(control, Go)) : Append(control, Go)[i] = Go
<1>1. /\ Len(Append(control, Go)) = Len(control) + 1 /\ Len(control) \in Nat
      /\ Append(control, Go)[Len(control) + 1] = Go
  OBVIOUS
<1> QED BY <1>1

LEMMA SignalStep ==
  TypeOK /\ EmptyAtStart /\ GoNotLost /\ [Next]_vars => GoNotLost'
<1> SUFFICES ASSUME TypeOK, EmptyAtStart, GoNotLost, [Next]_vars, ~ftpcDone'
             PROVE  \/ \E i \in 1..Len(control') : control'[i] = Go
                    \/ local' # <<>>
                    \/ ~(WindowEmpty(window))'
                    \/ mode' # "run"
  BY DEF GoNotLost
<1>0. ~ftpcDone
  BY DEF Next, FtpcSleep, FtpcSend, RecvLocal, RecvExpiry, RecvReply, Expire, vars, ftpcVars
<1>1. CASE FtpcSleep
  <2>1. /\ control # <<>> /\ Head(control) = Stop /\ control' = Tail(control)
        /\ UNCHANGED <<local, window, mode>> /\ control \in Seq({Go, Stop})
    BY <1>1 DEF FtpcSleep, tcpdcVars, TypeOK
  <2>2. CASE \E i \in 1..Len(control) : control[i] = Go
    <3>1. PICK i \in 1..Len(control) : control[i] = Go
      BY <2>2
    <3>2. Head(control) = control[1] /\ Len(control) \in Nat
      BY <2>1
    <3>3. i # 1
      BY <2>1, <3>1, <3>2 DEF Go, Stop
    <3>4. i - 1 \in 1..Len(Tail(control)) /\ Tail(control)[i - 1] = control[i]
      BY <2>1, <3>2, <3>3
    <3> QED BY <2>1, <3>1, <3>4
  <2>3. CASE ~\E i \in 1..Len(control) : control[i] = Go
    BY <1>0, <2>1, <2>3 DEF GoNotLost, WindowEmpty
  <2> QED BY <2>2, <2>3
<1>2. CASE FtpcSend
  <2>1. local' = Append(local, next + 1) /\ local \in Seq(Seqs)
    BY <1>2 DEF FtpcSend, TypeOK
  <2> QED BY <2>1
<1>3. CASE RecvLocal
  <2> DEFINE n == Head(local)
  <2>1. n \in Seqs /\ n # Free
    <3>1. n \in Seqs
      BY <1>3 DEF RecvLocal, TypeOK
    <3> QED BY <3>1, ClientSizes DEF Seqs, Free
  <2>2. window' = WindowWith(n) /\ window \in [WinSlots -> Ids]
    BY <1>3 DEF RecvLocal, TypeOK
  <2> HIDE DEF n
  <2>3. CASE window_pointer \in WinSlots
    <3>1. window'[window_pointer] # Free
      BY <2>1, <2>2, <2>3 DEF WindowWith
    <3> QED BY <2>3, <3>1 DEF WindowEmpty
  <2>4. CASE window_pointer \notin WinSlots
    <3>1. window_pointer # 0 /\ window' = window
      BY <2>2, <2>4, ClientSizes DEF WinSlots, WindowWith
    <3> QED BY <3>1 DEF EmptyAtStart, WindowEmpty
  <2> QED BY <2>3, <2>4
<1>4. ASSUME NEW a \in Replies, RecvReply(a)
      PROVE  \/ \E i \in 1..Len(control') : control'[i] = Go
             \/ local' # <<>>
             \/ ~(WindowEmpty(window))'
             \/ mode' # "run"
  <2>1. CASE RecvAck(a)
    <3>1. CASE WindowEmpty(window')
      <4>1. control' = Append(control, Go)
        BY <1>0, <2>1, <3>1 DEF RecvAck, Emptied, Signal
      <4> QED BY <4>1, AppendedGo DEF TypeOK
    <3>2. CASE ~WindowEmpty(window')
      BY <3>2 DEF WindowEmpty
    <3> QED BY <3>1, <3>2
  <2>2. CASE RecvFinAck(a) \/ RecvFinAgain(a)
    BY <2>2 DEF RecvFinAck, RecvFinAgain
  <2>3. CASE RecvGarbledReply(a)
    BY <1>0, <1>4, <2>3 DEF RecvReply, RecvGarbledReply, GoNotLost, WindowEmpty
  <2> QED BY <1>4, <2>1, <2>2, <2>3 DEF RecvReply
<1>5. CASE (\E n \in Ids : RecvExpiry(n) \/ Expire(n)) \/ UNCHANGED vars
  <2>1. UNCHANGED <<control, local, window>> /\ (mode' = mode \/ mode' = "crashed")
    BY <1>5 DEF RecvExpiry, Expire, vars, tcpdcVars
  <2> QED BY <1>0, <2>1 DEF GoNotLost, WindowEmpty
<1> QED BY <1>1, <1>2, <1>3, <1>4, <1>5 DEF Next

(* As long as ftpc has something to send, a stop=0 waits for it, or        *)
(* something is on the way that will bring one.                            *)
THEOREM SignalsReach == Spec => []GoNotLost
<1> DEFINE Inv == TypeOK /\ RoomForFin /\ EmptyAtStart /\ WindowInBuffer /\ GoNotLost
<1>1. Init => Inv
  <2>1. Init => GoNotLost
    BY DEF Init, GoNotLost
  <2> QED BY <2>1, TypeInit, BufferInit
<1>2. Inv /\ [Next]_vars => Inv'
  BY TypeStep, BufferStep, SignalStep
<1>3. Inv => GoNotLost
  OBVIOUS
<1> HIDE DEF Inv
<1> QED BY <1>1, <1>2, <1>3, PTL DEF Spec
===============================================================================
