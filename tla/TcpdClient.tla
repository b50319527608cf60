------------------------------ MODULE TcpdClient ------------------------------
(***************************************************************************)
(* The sending half: the program ftpc (ftpclient.c), which cuts the file   *)
(* into packets and sends one for every stop=0 message it gets, and the    *)
(* daemon tcpdc (tcpdclient.c), which keeps the unacknowledged packets in  *)
(* a window and a ring buffer, has a timer run for each, and resends.      *)
(*                                                                         *)
(* tcpdc is one select loop over three sockets; RecvLocal, RecvExpiry and  *)
(* RecvReply (RecvAck, RecvFinAck) are its three branches, RecvFinAgain    *)
(* the second, blocking recvfrom of the FIN handshake.  The timer process  *)
(* is what tcpdc can tell of it: a bag of running timers, any of which may *)
(* run out at any moment (module DeltaTimer has the process itself).       *)
(*                                                                         *)
(* A packet is determined by its sequence number, so buffer, window and    *)
(* net hold sequence numbers.                                              *)
(***************************************************************************)
EXTENDS Integers, Sequences

CONSTANTS
  WindowFront,  \* last slot of window (19)
  BufSize,      \* slots of buffer (64)
  FinSeq,       \* sequence number of the FIN packet: 0 is the header, 1..FinSeq-1 the data
  Uninit,       \* what the uninitialized index resendpacket may be
  MaxControl,   \* bound of the model: stop messages waiting at ftpc
  MaxExpired    \* bound of the model: expiry messages of one packet waiting at tcpdc

ASSUME ClientSizes ==
  /\ WindowFront \in Nat /\ BufSize \in Nat \ {0}
  /\ FinSeq \in Nat /\ FinSeq >= 2
  /\ Uninit \subseteq 0..BufSize /\ Uninit # {}
  /\ MaxControl \in Nat /\ MaxExpired \in Nat

VARIABLES
  next,            \* sending_packet.packetdata.sequence_num, the packet ftpc sent last
  ftpcDone,        \* ftpc has sent the FIN packet and exited
  local,           \* datagrams on the local socket from ftpc to tcpdc
  control,         \* stop messages on the control socket from tcpdc to ftpc
  window,          \* sequence numbers sent and not acknowledged
  window_pointer,  \* the slot the next packet gets
  buffer,          \* the packets themselves
  head,            \* the slot the next packet is received into
  resendpacket,    \* index of the packet resent last, uninitialized before
  mode,            \* "run", "fin" (second recvfrom), "done", "crashed"
  alarms,          \* how many timers run for each sequence number
  expired,         \* how many expiry messages wait for tcpdc
  net              \* the packets handed to the troll so far

ftpcVars  == <<next, ftpcDone>>
tcpdcVars == <<window, window_pointer, buffer, head, resendpacket, mode>>
timerVars == <<alarms, expired>>
vars      == <<ftpcVars, local, control, tcpdcVars, timerVars, net>>

-------------------------------------------------------------------------------
Free     == -1                    \* an unused slot of window or buffer
WinSlots == 0..WindowFront
BufSlots == 0..(BufSize - 1)
Seqs     == 0..FinSeq
Ids      == Seqs \cup {Free}

(* An uninitialized index that points to no slot. *)
OutOfBuffer == BufSize

Go   == 0                         \* stop=0: send one packet
Stop == 1

(* An ordinary acknowledgement has flag ack set, that of the FIN packet    *)
(* flag finack; what the other one has in its field finack, tcpds decides. *)
Ack(n, f, ok) == [kind |-> "ack", seq |-> n, finack |-> f, ok |-> ok]
FinAck(n, ok) == [kind |-> "finack", seq |-> n, finack |-> TRUE, ok |-> ok]

Plus(bag, n)  == [bag EXCEPT ![n] = @ + 1]
Minus(bag, n) == [bag EXCEPT ![n] = IF @ > 0 THEN @ - 1 ELSE 0]

Windowed(n) == \E k \in WinSlots : window[k] = n

(* The variant, for the mutation runs: one acknowledgement frees the whole *)
(* window.                                                                 *)
WindowEmptyAlways(win) == TRUE

WindowEmpty(win) == \A k \in WinSlots : win[k] = Free

(* A message to ftpc; once ftpc has exited it goes nowhere. *)
Signal(msg) == IF ftpcDone THEN control ELSE Append(control, msg)

-------------------------------------------------------------------------------
(* ftpc starts by sending the header packet. *)
Init ==
  /\ next = 0
  /\ ftpcDone = FALSE
  /\ local = <<0>>
  /\ control = <<>>
  /\ window = [k \in WinSlots |-> Free]
  /\ window_pointer = 0
  /\ buffer = [i \in BufSlots |-> Free]
  /\ head = 0
  /\ resendpacket \in Uninit
  /\ mode = "run"
  /\ alarms = [n \in Ids |-> 0]
  /\ expired = [n \in Ids |-> 0]
  /\ net = {}

(* Told to stop, ftpc sleeps 10 ms and does nothing else. *)
FtpcSleep ==
  /\ ~ftpcDone /\ control # <<>> /\ Head(control) = Stop
  /\ control' = Tail(control)
  /\ UNCHANGED <<ftpcVars, local, tcpdcVars, timerVars, net>>

(* One data packet for one stop=0.  At the end of the file the FIN packet  *)
(* follows at once, whatever tcpdc has room for, and ftpc exits.           *)
FtpcSend ==
  /\ ~ftpcDone /\ control # <<>> /\ Head(control) = Go
  /\ IF next + 1 < FinSeq - 1
     THEN /\ next' = next + 1
          /\ local' = Append(local, next + 1)
          /\ control' = Tail(control)
          /\ UNCHANGED ftpcDone
     ELSE /\ next' = next + 2
          /\ local' = local \o <<next + 1, next + 2>>
          /\ control' = <<>>
          /\ ftpcDone' = TRUE
  /\ UNCHANGED <<tcpdcVars, timerVars, net>>

-------------------------------------------------------------------------------
(* window[window_pointer] = n.  Beyond the array the write lands on        *)
(* variables no search of the window reads.                                *)
WindowWith(n) ==
  IF window_pointer \in WinSlots THEN [window EXCEPT ![window_pointer] = n] ELSE window

(* Variants, for the mutation runs: head does not wrap; the expired packet *)
(* is not looked up; an emptied window sends no stop=0.                    *)
HeadNoWrap(h)         == h + 1
FindResendNever(n)    == resendpacket
EmptiedWithoutGo(win) == control

Full(wp)    == wp >= WindowFront
HeadNext(h) == (h + 1) % BufSize

(* A packet from ftpc: into the buffer, the window and the network, a      *)
(* timer for it, and word to ftpc whether it may send another.             *)
RecvLocal ==
  /\ mode = "run" /\ local # <<>>
  /\ Len(control) < MaxControl
  /\ LET n == Head(local) IN
     /\ buffer' = [buffer EXCEPT ![head] = n]
     /\ window' = WindowWith(n)
     /\ net' = net \cup {n}
     /\ alarms' = Plus(alarms, n)
  /\ local' = Tail(local)
  /\ window_pointer' = window_pointer + 1
  /\ head' = HeadNext(head)
  /\ control' = Signal(IF Full(window_pointer + 1) THEN Stop ELSE Go)
  /\ UNCHANGED <<ftpcVars, resendpacket, mode, expired>>

(* Where the packet to resend is: the last slot holding n if n is in the   *)
(* window, the slot found some other time if it is not.                    *)
FindResend(n) ==
  LET at == {j \in BufSlots : buffer[j] = n /\ n # Free} IN
  IF Windowed(n) /\ at # {} THEN CHOOSE j \in at : \A i \in at : i <= j ELSE resendpacket

(* The timer for n ran out: resend, and arm a timer for what was resent.   *)
(* An index that points nowhere ends the process.  A slot never filled     *)
(* has no address to be sent to, but a timer runs for it.                  *)
RecvExpiry(n) ==
  /\ mode = "run" /\ expired[n] > 0
  /\ expired' = Minus(expired, n)
  /\ resendpacket' = FindResend(n)
  /\ IF FindResend(n) = OutOfBuffer
     THEN mode' = "crashed" /\ UNCHANGED <<net, alarms>>
     ELSE /\ net' = net \cup ({buffer[FindResend(n)]} \ {Free})
          /\ alarms' = Plus(alarms, buffer[FindResend(n)])
          /\ UNCHANGED mode
  /\ UNCHANGED <<ftpcVars, local, control, window, window_pointer, buffer, head>>

-------------------------------------------------------------------------------
(* An emptied window starts over, and ftpc may send again.                 *)
Emptied(win)    == IF WindowEmpty(win) THEN Signal(Go) ELSE control
Cleared(win, n) == [k \in WinSlots |-> IF win[k] = n THEN Free ELSE win[k]]

(* An acknowledgement: cancel the timer and free the packet's slot.  With  *)
(* finack in it, it is taken for that of the FIN packet as well.           *)
RecvAck(a) ==
  /\ a.ok /\ a.kind = "ack"
  /\ Len(control) < MaxControl
  /\ alarms' = Minus(alarms, a.seq)
  /\ window' = Cleared(window, a.seq)
  /\ window_pointer' = IF WindowEmpty(window') THEN 0 ELSE window_pointer
  /\ control' = Emptied(window')
  /\ mode' = IF a.finack THEN "fin" ELSE mode

(* Variant, for the mutation runs: the flag finack is not looked at. *)
RecvFinAckAny(a) ==
  /\ a.ok
  /\ mode' = "fin"
  /\ UNCHANGED <<alarms, window, window_pointer, control>>

(* The acknowledgement of the FIN packet: wait for the second copy. *)
RecvFinAck(a) ==
  /\ a.ok /\ a.kind = "finack"
  /\ mode' = "fin"
  /\ UNCHANGED <<alarms, window, window_pointer, control>>

(* The checksums disagree: nothing happens. *)
RecvGarbledReply(a) ==
  /\ ~a.ok
  /\ UNCHANGED <<alarms, window, window_pointer, control, mode>>

(* The datagram after it, whatever it is and unchecked, ends the daemon.   *)
RecvFinAgain(a) ==
  /\ mode = "fin"
  /\ Len(control) < MaxControl
  /\ control' = Signal(Stop)
  /\ alarms' = Minus(alarms, a.seq)
  /\ mode' = "done"
  /\ UNCHANGED <<window, window_pointer>>

RecvReply(a) ==
  /\ \/ mode = "run" /\ (RecvAck(a) \/ RecvFinAck(a) \/ RecvGarbledReply(a))
     \/ RecvFinAgain(a)
  /\ UNCHANGED <<ftpcVars, local, buffer, head, resendpacket, expired, net>>

(* A timer runs out; the timer process tells tcpdc and forgets it. *)
Expire(n) ==
  /\ alarms[n] > 0
  /\ expired[n] < MaxExpired
  /\ alarms' = Minus(alarms, n)
  /\ expired' = Plus(expired, n)
  /\ UNCHANGED <<ftpcVars, local, control, tcpdcVars, net>>

-------------------------------------------------------------------------------
(* The receiver, as far as tcpdc can tell: it acknowledges the packets in  *)
(* order, the FIN packet with finack; any of its replies may come again,   *)
(* late, garbled, or never.  The field finack of an acknowledgement is not *)
(* known.                                                                  *)
Replies ==
  {Ack(n, f, ok) : n \in {m \in 0..(FinSeq - 1) : 0..m \subseteq net},
                   f \in BOOLEAN, ok \in BOOLEAN}
    \cup {FinAck(n, ok) : n \in {m \in {FinSeq} : 0..m \subseteq net}, ok \in BOOLEAN}

Next ==
  \/ FtpcSleep
  \/ FtpcSend
  \/ RecvLocal
  \/ \E n \in Ids : RecvExpiry(n)
  \/ \E a \in Replies : RecvReply(a)
  \/ \E n \in Ids : Expire(n)

Spec == Init /\ [][Next]_vars

-------------------------------------------------------------------------------
(* Types, and the ring index within its array. *)
TypeOK ==
  /\ next \in Seqs
  /\ ftpcDone \in BOOLEAN
  /\ local \in Seq(Seqs)
  /\ control \in Seq({Go, Stop})
  /\ window \in [WinSlots -> Ids]
  /\ window_pointer \in Nat
  /\ buffer \in [BufSlots -> Ids]
  /\ head \in BufSlots
  /\ resendpacket \in BufSlots \cup {OutOfBuffer}
  /\ mode \in {"run", "fin", "done", "crashed"}
  /\ alarms \in [Ids -> Nat]
  /\ expired \in [Ids -> Nat]
  /\ net \subseteq Seqs

(* Every packet that waits for its acknowledgement can be resent: it is in *)
(* the ring buffer, as many slots behind head as its window slot is behind *)
(* window_pointer - as long as no more packets than the ring has slots     *)
(* were taken since the window was last empty (tcpdclient.c:280-306,       *)
(* 423-428).  Slots from window_pointer on are free.                       *)
WindowInBuffer ==
  \A k \in WinSlots :
    window[k] # Free =>
      /\ k < window_pointer
      /\ window_pointer - k <= BufSize
           => buffer[(head + k - window_pointer) % BufSize] = window[k]

(* Nothing in the window is forgotten: a timer runs for it, or has run out *)
(* and tcpdc is yet to be told (tcpdclient.c:298-303, 338-369, 403-421).   *)
WindowedHasTimer ==
  mode \in {"run", "fin"} /\ window_pointer <= BufSize =>
    \A n \in Seqs : Windowed(n) => alarms[n] + expired[n] > 0

(* The transfer is never stuck for want of a signal: as long as ftpc has   *)
(* something to send, it has a stop=0 waiting, or a packet of its is on    *)
(* the way to tcpdc, or in the window, whose last acknowledgement will     *)
(* bring one (tcpdclient.c:308-321, 423-428).                              *)
GoNotLost ==
  ~ftpcDone =>
    \/ \E i \in 1..Len(control) : control[i] = Go
    \/ local # <<>>
    \/ ~WindowEmpty(window)
    \/ mode # "run"

(* The array window is not written beyond its end (tcpdclient.c:54), the   *)
(* condition of ReliableUDP's TransferCompletes.                           *)
WindowWithinBounds == window_pointer <= WindowFront + 1

(* The timer of a packet runs out: that packet is resent, from the buffer  *)
(* (the comment at tcpdclient.c:336).                                      *)
ResendIsForExpired ==
  [][\A n \in Seqs :
       RecvExpiry(n) /\ mode' = "run" => buffer[resendpacket'] = n]_vars
===============================================================================
