-------------------------------- MODULE Startup --------------------------------
(***************************************************************************)
(* From the start of the seven programs to the first acknowledgement.      *)
(*                                                                         *)
(* Each program binds its sockets and, except ftpc, then waits.  ftpc      *)
(* sends the header packet at once.  A datagram to a port nobody has bound *)
(* is lost without an error, and with it, on most of the ways, its only    *)
(* copy: nobody but tcpdc sends anything twice.  tcpdc and the timer both  *)
(* want port 21000 of the client's machine: tcpdc binds the address it     *)
(* sends to.  The first to bind it has it; tcpdc does not look whether it  *)
(* got it, the timer exits if it did not.                                  *)
(*                                                                         *)
(* The operator starts the programs in any order that keeps to order, some *)
(* part of what NeededOrder asks for.  Nothing is lost here except for     *)
(* want of a receiver; the troll's losses are the subject of ReliableUDP.  *)
(***************************************************************************)
EXTENDS Integers, SequencesExt

CONSTANT MaxCopies   \* bound of the model: datagrams on their way when a timer runs out

Programs == {"ftps", "tcpds", "ts", "timer", "tcpdc", "tc", "ftpc"}

ASSUME StartupAssumption == MaxCopies \in Nat \ {0}

(* <<p, q>>: q is started only when p waits.  The order of the README      *)
(* (README:42-51) keeps to all three.                                      *)
NeededOrder == {<<"timer", "tcpdc">>, <<"tcpdc", "ftpc">>, <<"ftps", "tcpds">>}

VARIABLES
  order,      \* the part of NeededOrder the operator keeps to
  pc,         \* per program: 0 not started, else its next bind; Waiting, Closing, Exited
  owner,      \* who has bound each port
  sock,       \* the datagrams waiting at each port
  fin,        \* the uninitialized field fin of the header packet (ftpc)
  finack,     \* the uninitialized field finack of the acknowledgements (tcpds)
  localsock,  \* the uninitialized localsock tcpds tests: negative or not
  begun,      \* ftpc was told to go on
  window,     \* tcpdc: whether the header waits for its acknowledgement
  resend,     \* tcpdc: whether resendpacket, uninitialized at first, is the index of the header
  alarms,     \* timer: timers that run for the header
  passed,     \* tcpds: whether it has passed the header on
  got         \* ftps: whether it has read the header

vars == <<order, pc, owner, sock, fin, finack, localsock, begun, window, resend, alarms, passed, got>>

-------------------------------------------------------------------------------
Socket(port, checked) == [port |-> port, checked |-> checked]

(* Variant, for the mutation runs: the timer at the port of tcpd_def.h.    *)
TimerSocketOther == Socket(9050, TRUE)

(* The ports each program binds, in its order, and whether it exits when a *)
(* bind fails.  The two trolls are external.                               *)
FtpsSocket     == Socket(13000, TRUE)
TcpdsSocket    == Socket(12000, TRUE)
TimerSocket    == Socket(21000, TRUE)
LocalSocket    == Socket(9005, TRUE)
ExpirySocket   == Socket(20000, FALSE)
ToTimerSocket  == Socket(21000, FALSE)
RequestSocket  == Socket(14000, TRUE)
ControlSocket  == Socket(22000, TRUE)
ServerTroll    == Socket(25000, TRUE)
ClientTroll    == Socket(11000, TRUE)

Binds ==
  [p \in Programs |->
     CASE p = "ftps"  -> <<FtpsSocket>>
       [] p = "tcpds" -> <<TcpdsSocket>>
       [] p = "ts"    -> <<ServerTroll>>
       [] p = "timer" -> <<TimerSocket>>
       [] p = "tcpdc" -> <<LocalSocket, ExpirySocket, ToTimerSocket, RequestSocket>>
       [] p = "tc"    -> <<ClientTroll>>
       [] p = "ftpc"  -> <<ControlSocket>>]

Ports   == {s.port : s \in UNION {Range(Binds[p]) : p \in Programs}}
Nobody  == "nobody"
Waiting == 10
Closing == 11
Exited  == 12

(* The datagrams s with m sent to port, which loses it if nobody is there. *)
Sent(s, port, m) == IF owner[port] = Nobody THEN s ELSE [s EXCEPT ![port] = Append(@, m)]
Read(port)       == [sock EXCEPT ![port] = Tail(@)]
Arrived(p, port) == pc[p] = Waiting /\ owner[port] = p /\ sock[port] # <<>>

Exit(p) ==
  /\ pc' = [pc EXCEPT ![p] = Exited]
  /\ owner' = [q \in Ports |-> IF owner[q] = p THEN Nobody ELSE owner[q]]

(* What was sent in the step of an exit, less what waited at its ports. *)
Closed(p, s) == [q \in Ports |-> IF owner[q] = p THEN <<>> ELSE s[q]]

-------------------------------------------------------------------------------
Init ==
  /\ order \in SUBSET NeededOrder
  /\ pc = [p \in Programs |-> 0]
  /\ owner = [q \in Ports |-> Nobody]
  /\ sock = [q \in Ports |-> <<>>]
  /\ fin \in BOOLEAN /\ finack \in BOOLEAN
  /\ localsock \in {"negative", "nonnegative"}
  /\ begun = FALSE /\ window = FALSE /\ resend \in BOOLEAN
  /\ alarms = 0
  /\ passed = FALSE /\ got = FALSE

progress == <<order, fin, finack, localsock, begun, window, resend, alarms, passed, got>>

Start(p) ==
  /\ pc[p] = 0
  /\ \A q \in Programs : <<q, p>> \in order => pc[q] \in {Waiting, Closing, Exited}
  /\ pc' = [pc EXCEPT ![p] = 1]
  /\ UNCHANGED <<owner, sock, progress>>

(* After its last bind a program waits, but for tcpds and ftpc, which have *)
(* more to do first.                                                       *)
Opened(p) ==
  pc' = [pc EXCEPT ![p] = IF @ = Len(Binds[p]) /\ p \notin {"tcpds", "ftpc"} THEN Waiting ELSE @ + 1]

(* The next bind of p. *)
Bind(p) ==
  /\ pc[p] \in 1..Len(Binds[p])
  /\ LET b == Binds[p][pc[p]]
     IN  \/ /\ owner[b.port] = Nobody
            /\ owner' = [owner EXCEPT ![b.port] = p]
            /\ Opened(p)
            /\ UNCHANGED sock
         \/ /\ owner[b.port] # Nobody /\ ~ b.checked
            /\ Opened(p)
            /\ UNCHANGED <<owner, sock>>
         \/ /\ owner[b.port] # Nobody /\ b.checked
            /\ Exit(p)
            /\ sock' = Closed(p, sock)
  /\ UNCHANGED progress

Bound(p) == pc[p] = Len(Binds[p]) + 1

(* tcpds opens requestsocket and tests localsock, which has no value yet.  *)
WaitTcpds ==
  /\ Bound("tcpds")
  /\ IF localsock = "negative"
     THEN Exit("tcpds") /\ sock' = Closed("tcpds", sock)
     ELSE pc' = [pc EXCEPT !["tcpds"] = Waiting] /\ UNCHANGED <<owner, sock>>
  /\ UNCHANGED progress

(* ftpc opens the file and sends the header packet. *)
SendHeader ==
  /\ Bound("ftpc")
  /\ pc' = [pc EXCEPT !["ftpc"] = Waiting]
  /\ sock' = Sent(sock, 9005, "header")
  /\ UNCHANGED <<owner, progress>>

-------------------------------------------------------------------------------
(* The programs at work. *)
FtpcSignal ==
  /\ Arrived("ftpc", 22000)
  /\ begun' = (begun \/ Head(sock[22000]) = "go")
  /\ sock' = Read(22000)
  /\ UNCHANGED <<order, pc, owner, fin, finack, localsock, window, resend, alarms, passed, got>>

(* tcpds leaves finack as it is until the end of the transfer. *)
Acknowledgement == IF finack THEN "ack_finack" ELSE "ack"

(* Variants, for the mutation runs: tcpdc starts no timer; tcpds keeps the *)
(* first packet for itself; nothing is resent; a timer that does not run   *)
(* is stopped.                                                             *)
SentOnLocalUntimed(s)  == Sent(Sent(s, 11000, "header"), 22000, "go")
SentOnPacketKeeping(s) == Sent(s, 25000, Acknowledgement)
SentOnExpiryNever(s)   == Sent(s, 21000, "arm")
StoppedBlindly         == alarms - 1

SentOnLocal(s)  == Sent(Sent(Sent(s, 11000, "header"), 21000, "arm"), 22000, "go")
SentOnExpiry(s) == Sent(Sent(s, 11000, "header"), 21000, "arm")
SentOnAck(s)    == Sent(Sent(s, 21000, "cancel"), 22000, "go")
SentOnPacket(s) == Sent(Sent(s, 13000, "header"), 25000, Acknowledgement)
SentOnFin(s)    == Sent(Sent(Sent(s, 13000, "header"), 25000, "finack"), 25000, "finack")
Stopped         == IF alarms > 0 THEN alarms - 1 ELSE 0

RecvLocal ==
  /\ Arrived("tcpdc", 9005)
  /\ sock' = SentOnLocal(Read(9005))
  /\ window' = TRUE
  /\ UNCHANGED <<order, pc, owner, fin, finack, localsock, begun, resend, alarms, passed, got>>

(* The header is found in the window, or was when an expiry came before,   *)
(* or resendpacket has its index by chance.  Else what is resent was never *)
(* received, and has no address; or the index lies beyond the memory.      *)
RecvExpiry ==
  /\ Arrived("tcpdc", 20000)
  /\ \/ /\ resend' = (window \/ resend)
        /\ sock' = IF resend' THEN SentOnExpiry(Read(20000)) ELSE Read(20000)
        /\ UNCHANGED <<pc, owner>>
     \/ /\ ~ window /\ ~ resend
        /\ Exit("tcpdc")
        /\ sock' = Closed("tcpdc", sock)
        /\ UNCHANGED resend
  /\ UNCHANGED <<order, fin, finack, localsock, begun, window, alarms, passed, got>>

(* With finack set the acknowledgement is then taken for that of the FIN. *)
RecvAck ==
  /\ Arrived("tcpdc", 14000) /\ Head(sock[14000]) \in {"ack", "ack_finack"}
  /\ window' = FALSE
  /\ sock' = SentOnAck(Read(14000))
  /\ pc' = [pc EXCEPT !["tcpdc"] = IF Head(sock[14000]) = "ack" THEN @ ELSE Closing]
  /\ UNCHANGED <<order, owner, fin, finack, localsock, begun, resend, alarms, passed, got>>

RecvFinAck ==
  /\ Arrived("tcpdc", 14000) /\ Head(sock[14000]) = "finack"
  /\ pc' = [pc EXCEPT !["tcpdc"] = Closing]
  /\ sock' = Read(14000)
  /\ UNCHANGED <<owner, progress>>

RecvFinAgain ==
  /\ pc["tcpdc"] = Closing /\ sock[14000] # <<>>
  /\ Exit("tcpdc")
  /\ sock' = Closed("tcpdc", Sent(Sent(sock, 22000, "stop"), 21000, "cancel"))
  /\ UNCHANGED progress

TimerMessage ==
  /\ Arrived("timer", 21000)
  /\ alarms' = IF Head(sock[21000]) = "arm" THEN alarms + 1 ELSE Stopped
  /\ sock' = Read(21000)
  /\ UNCHANGED <<order, pc, owner, fin, finack, localsock, begun, window, resend, passed, got>>

Copies == MapThenSumSet(LAMBDA q : Len(sock[q]), Ports \ {21000})

TimerTick ==
  /\ pc["timer"] = Waiting /\ owner[21000] = "timer" /\ sock[21000] = <<>>
  /\ alarms > 0 /\ Copies < MaxCopies
  /\ alarms' = alarms - 1
  /\ sock' = Sent(sock, 20000, "expiry")
  /\ UNCHANGED <<order, pc, owner, fin, finack, localsock, begun, window, resend, passed, got>>

(* A troll passes a datagram on. *)
Forward(troll, from, to) ==
  /\ Arrived(troll, from)
  /\ sock' = Sent(Read(from), to, Head(sock[from]))
  /\ UNCHANGED <<pc, owner, progress>>

(* tcpds passes the first copy on and acknowledges every copy; a header    *)
(* with fin = 1 is the end of the transfer.                                *)
RecvPacket ==
  /\ Arrived("tcpds", 12000)
  /\ passed' = TRUE
  /\ \/ /\ passed
        /\ sock' = Sent(Read(12000), 25000, Acknowledgement)
        /\ UNCHANGED <<pc, owner>>
     \/ /\ ~ passed /\ ~ fin
        /\ sock' = SentOnPacket(Read(12000))
        /\ UNCHANGED <<pc, owner>>
     \/ /\ ~ passed /\ fin
        /\ Exit("tcpds")
        /\ sock' = Closed("tcpds", SentOnFin(sock))
  /\ UNCHANGED <<order, fin, finack, localsock, begun, window, resend, alarms, got>>

FtpsWrite ==
  /\ Arrived("ftps", 13000)
  /\ got' = TRUE
  /\ IF fin THEN Exit("ftps") /\ sock' = Closed("ftps", sock)
            ELSE sock' = Read(13000) /\ UNCHANGED <<pc, owner>>
  /\ UNCHANGED <<order, fin, finack, localsock, begun, window, resend, alarms, passed>>

Operator == \E p \in Programs : Start(p)
Opening  == (\E p \in Programs : Bind(p)) \/ WaitTcpds \/ SendHeader
Daemons  ==
  \/ RecvLocal \/ RecvExpiry \/ RecvAck \/ RecvFinAck \/ RecvFinAgain
  \/ TimerMessage \/ TimerTick
  \/ Forward("tc", 11000, 12000) \/ Forward("ts", 25000, 14000)
  \/ RecvPacket
Next == Operator \/ Opening \/ FtpcSignal \/ Daemons \/ FtpsWrite

Spec == Init /\ [][Next]_vars

(* The operator starts every program; each runs; a troll passes on what it *)
(* has.                                                                    *)
FairSpec ==
  /\ Spec
  /\ \A p \in Programs : WF_vars(Start(p)) /\ WF_vars(Bind(p))
  /\ WF_vars(WaitTcpds) /\ WF_vars(SendHeader) /\ WF_vars(FtpcSignal)
  /\ WF_vars(RecvLocal) /\ WF_vars(RecvExpiry) /\ WF_vars(RecvAck)
  /\ WF_vars(RecvFinAck) /\ WF_vars(RecvFinAgain)
  /\ WF_vars(TimerMessage) /\ WF_vars(TimerTick)
  /\ WF_vars(Forward("tc", 11000, 12000)) /\ WF_vars(Forward("ts", 25000, 14000))
  /\ WF_vars(RecvPacket) /\ WF_vars(FtpsWrite)

-------------------------------------------------------------------------------
TypeOK ==
  /\ pc \in [Programs -> 0..5 \cup {Waiting, Closing, Exited}]
  /\ owner \in [Ports -> Programs \cup {Nobody}]
  /\ \A q \in Ports : \A i \in 1..Len(sock[q]) :
       sock[q][i] \in {"header", "arm", "cancel", "expiry", "ack", "ack_finack", "finack",
                    "go", "stop"}
  /\ alarms \in Nat
  /\ {fin, finack, begun, window, resend, passed, got} \subseteq BOOLEAN

(* tcpdc never sends its timer messages to itself: once it waits for       *)
(* packets, port 21000 is the timer's (tcpdclient.c:213, timer.c:62).      *)
TimerHasItsPort ==
  <<"timer", "tcpdc">> \in order /\ pc["tcpdc"] = Waiting => owner[21000] = "timer"

(* The header can still be sent again for as long as it is unacknowledged: *)
(* its timer runs, or will, or has run out (tcpdclient.c:303, 369).        *)
HeaderHasTimer ==
  <<"timer", "tcpdc">> \in order /\ window /\ pc["tcpdc"] = Waiting =>
    alarms > 0 \/ sock[20000] # <<>> \/ \E i \in 1..Len(sock[21000]) : sock[21000][i] = "arm"

(* What tcpds acknowledges, ftps has: the header is in its socket or read, *)
(* for tcpds sends it once and tcpdc never again (tcpdserver.c:232, 256).  *)
AckedIsAtFtps ==
  <<"ftps", "tcpds">> \in order =>
    \A q \in {25000, 14000} : sock[q] # <<>> => got \/ sock[13000] # <<>>

(* Every order of starting the programs that keeps to NeededOrder leads to *)
(* a transfer under way: ftpc told to go on, the header acknowledged and   *)
(* read by ftps, and tcpdc not waiting for a second acknowledgement of a   *)
(* FIN - though it may have ended on an expiry that came after the         *)
(* acknowledgement (RecvExpiry).  Unless one of three uninitialized values *)
(* ends it at the start: fin of the header (ftpclient.c:23), finack of the *)
(* acknowledgement (tcpdserver.c:51), localsock (tcpdserver.c:97).         *)
TransferBegins ==
  order = NeededOrder /\ ~ fin /\ ~ finack /\ localsock = "nonnegative" =>
    <>(begun /\ got /\ ~ window /\ pc["tcpdc"] # Closing)
===============================================================================
