---------------------------- MODULE StartupProofs -----------------------------
(***************************************************************************)
(* Proofs about the start of the seven programs, for every order of        *)
(* starting them and every number of datagrams on their way.               *)
(***************************************************************************)
EXTENDS Startup, SequenceTheorems, TLAPS

Datagrams == {"header", "arm", "cancel", "expiry", "ack", "ack_finack", "finack", "go", "stop"}

(* Every socket's queue holds datagrams of the protocol. *)
StartupTypes ==
  /\ order \subseteq NeededOrder
  /\ sock \in [Ports -> Seq(Datagrams)]
  /\ TypeOK

(* Only ftps binds 13000, and only tcpdc 20000, before it waits. *)
OwnPorts ==
  /\ owner[13000] \in {Nobody, "ftps"}
  /\ owner[20000] \in {Nobody, "tcpdc"}
  /\ pc["tcpdc"] \in {3, 4, Waiting, Closing} => owner[20000] = "tcpdc"

(* The timer has port 21000 for ever once it waits; before, nobody has it, *)
(* for tcpdc is not started.                                               *)
TimerFirst ==
  <<"timer", "tcpdc">> \in order =>
    \/ pc["timer"] \in {0, 1} /\ pc["tcpdc"] = 0 /\ owner[21000] = Nobody
    \/ pc["timer"] = Waiting /\ owner[21000] = "timer"

(* Until tcpdc reads the header of ftpc, which is sent once, none of the   *)
(* datagrams the header leads to is on its way.                            *)
Pending == pc["ftpc"] \in {0, 1, 2} \/ sock[9005] # <<>>

Quiet ==
  /\ ~ window /\ alarms = 0
  /\ \A q \in {11000, 12000, 14000, 20000, 21000, 25000} : sock[q] = <<>>

HeaderOnce ==
  /\ Pending => Quiet
  /\ pc["ftpc"] \in {0, 1, 2} => sock[9005] = <<>>
  /\ Len(sock[9005]) <= 1

(* While the header is unacknowledged tcpdc is past its binds, and         *)
(* HeaderHasTimer holds; it stays so because no cancellation is on its     *)
(* way to the timer.                                                       *)
HeaderLate == window => pc["tcpdc"] \in {Waiting, Closing, Exited}

HeaderTimed ==
  <<"timer", "tcpdc">> \in order /\ window /\ pc["tcpdc"] = Waiting =>
    /\ \A i \in 1..Len(sock[21000]) : sock[21000][i] = "arm"
    /\ alarms > 0 \/ sock[20000] # <<>> \/ sock[21000] # <<>>

(* ftps keeps its port until it has read the header, and what tcpds passes *)
(* on reaches it (PassedOn).                                               *)
FtpsFirst ==
  /\ pc["ftps"] \in {0, 1, Waiting, Exited}
  /\ pc["ftps"] \in {0, 1} => owner[13000] = Nobody
  /\ pc["ftps"] = Waiting => owner[13000] = "ftps"
  /\ pc["ftps"] = Exited => got
  /\ <<"ftps", "tcpds">> \in order /\ pc["tcpds"] # 0 => pc["ftps"] \in {Waiting, Exited}

PassedOn == <<"ftps", "tcpds">> \in order /\ passed => got \/ sock[13000] # <<>>

(* An acknowledgement is of a header that tcpds has passed on. *)
AcksPassed == sock[14000] # <<>> \/ sock[25000] # <<>> => passed

-------------------------------------------------------------------------------
(* What the operators of Startup do.                                       *)

LEMMA BindsAre ==
  /\ Binds["ftps"] = <<FtpsSocket>> /\ Binds["tcpds"] = <<TcpdsSocket>>
  /\ Binds["ts"] = <<ServerTroll>> /\ Binds["timer"] = <<TimerSocket>>
  /\ Binds["tcpdc"] = <<LocalSocket, ExpirySocket, ToTimerSocket, RequestSocket>>
  /\ Binds["tc"] = <<ClientTroll>> /\ Binds["ftpc"] = <<ControlSocket>>
BY DEF Binds, Programs

LEMMA PortsAre ==
  Ports = {13000, 12000, 25000, 21000, 9005, 20000, 14000, 11000, 22000}
<1> DEFINE of(p) == {s.port : s \in Range(Binds[p])}
<1>1. /\ of("ftps") = {13000} /\ of("tcpds") = {12000} /\ of("ts") = {25000}
      /\ of("timer") = {21000} /\ of("tc") = {11000} /\ of("ftpc") = {22000}
  BY BindsAre DEF Range, FtpsSocket, TcpdsSocket, ServerTroll, TimerSocket, ClientTroll,
     ControlSocket, Socket
<1>2. of("tcpdc") = {9005, 20000, 21000, 14000}
  <2>1. Range(Binds["tcpdc"]) = {LocalSocket, ExpirySocket, ToTimerSocket, RequestSocket}
    BY BindsAre DEF Range
  <2> QED BY <2>1 DEF LocalSocket, ExpirySocket, ToTimerSocket, RequestSocket, Socket
<1>3. Ports = UNION {of(p) : p \in Programs}
  BY DEF Ports
<1> HIDE DEF of
<1> QED BY <1>1, <1>2, <1>3 DEF Programs

LEMMA PortsIn ==
  /\ 13000 \in Ports /\ 12000 \in Ports /\ 25000 \in Ports /\ 21000 \in Ports /\ 9005 \in Ports
  /\ 20000 \in Ports /\ 14000 \in Ports /\ 11000 \in Ports /\ 22000 \in Ports
BY PortsAre

LEMMA DatagramsIn ==
  /\ "header" \in Datagrams /\ "arm" \in Datagrams /\ "cancel" \in Datagrams
  /\ "expiry" \in Datagrams /\ "ack" \in Datagrams /\ "ack_finack" \in Datagrams
  /\ "finack" \in Datagrams /\ "go" \in Datagrams /\ "stop" \in Datagrams
BY DEF Datagrams

(* Which program binds which port, and when. *)
LEMMA BindOf ==
  ASSUME NEW p \in Programs, pc[p] \in 1..Len(Binds[p])
  PROVE  LET b == Binds[p][pc[p]]
         IN  /\ b.port \in Ports
             /\ b.port = 13000 <=> p = "ftps"
             /\ b.port = 20000 <=> p = "tcpdc" /\ pc[p] = 2
             /\ b.port = 21000 => p = "timer" \/ p = "tcpdc"
             /\ p = "timer" => b.port = 21000
             /\ p # "tcpdc" => pc[p] = 1 /\ Len(Binds[p]) = 1
             /\ p = "tcpdc" => pc[p] \in 1..4 /\ Len(Binds[p]) = 4
             /\ p = "ftps" => pc[p] = 1
<1>1. CASE p = "tcpdc"
  <2>1. pc[p] \in 1..4
    BY <1>1, BindsAre
  <2> QED BY <1>1, <2>1, BindsAre, PortsAre DEF LocalSocket, ExpirySocket, ToTimerSocket, RequestSocket, Socket
<1>2. CASE p = "ftps"
  BY <1>2, BindsAre, PortsAre DEF FtpsSocket, Socket
<1>3. CASE p = "tcpds"
  BY <1>3, BindsAre, PortsAre DEF TcpdsSocket, Socket
<1>4. CASE p = "ts"
  BY <1>4, BindsAre, PortsAre DEF ServerTroll, Socket
<1>5. CASE p = "timer"
  BY <1>5, BindsAre, PortsAre DEF TimerSocket, Socket
<1>6. CASE p = "tc"
  BY <1>6, BindsAre, PortsAre DEF ClientTroll, Socket
<1>7. CASE p = "ftpc"
  BY <1>7, BindsAre, PortsAre DEF ControlSocket, Socket
<1> QED BY <1>1, <1>2, <1>3, <1>4, <1>5, <1>6, <1>7 DEF Programs

(* A datagram that is sent waits at its port if somebody has bound it, and *)
(* nowhere else.                                                           *)
LEMMA SentIs ==
  ASSUME NEW s \in [Ports -> Seq(Datagrams)], NEW port \in Ports, NEW m \in Datagrams
  PROVE  /\ Sent(s, port, m) \in [Ports -> Seq(Datagrams)]
         /\ \A q \in Ports : q # port => Sent(s, port, m)[q] = s[q]
         /\ s[port] # <<>> => Sent(s, port, m)[port] # <<>>
         /\ Sent(s, port, m)[port] \in {s[port], Append(s[port], m)}
         /\ owner[port] # Nobody => Sent(s, port, m)[port] = Append(s[port], m)
<1>1. s[port] \in Seq(Datagrams)
  OBVIOUS
<1>2. Append(s[port], m) \in Seq(Datagrams) /\ Append(s[port], m) # <<>>
  BY <1>1, AppendProperties
<1> QED BY <1>2 DEF Sent

LEMMA ReadIs ==
  ASSUME sock \in [Ports -> Seq(Datagrams)], NEW port \in Ports, sock[port] # <<>>
  PROVE  /\ Read(port) \in [Ports -> Seq(Datagrams)]
         /\ \A q \in Ports : q # port => Read(port)[q] = sock[q]
         /\ Read(port)[port] = Tail(sock[port])
         /\ Head(sock[port]) \in Datagrams
<1>1. sock[port] \in Seq(Datagrams)
  OBVIOUS
<1>2. Tail(sock[port]) \in Seq(Datagrams) /\ Head(sock[port]) \in Datagrams
  BY <1>1, HeadTailProperties
<1> QED BY <1>2 DEF Read

LEMMA ClosedIs ==
  ASSUME NEW p, NEW s \in [Ports -> Seq(Datagrams)]
  PROVE  /\ Closed(p, s) \in [Ports -> Seq(Datagrams)]
         /\ \A q \in Ports : Closed(p, s)[q] = IF owner[q] = p THEN <<>> ELSE s[q]
<1>1. <<>> \in Seq(Datagrams)
  OBVIOUS
<1> QED BY <1>1 DEF Closed

LEMMA ExitIs ==
  ASSUME TypeOK, NEW p \in Programs, Exit(p)
  PROVE  /\ pc' = [pc EXCEPT ![p] = Exited]
         /\ pc' \in [Programs -> 0..5 \cup {Waiting, Closing, Exited}]
         /\ owner' \in [Ports -> Programs \cup {Nobody}]
         /\ \A q \in Ports : owner'[q] = IF owner[q] = p THEN Nobody ELSE owner[q]
BY DEF Exit, TypeOK

-------------------------------------------------------------------------------
(* What the actions that send more than one datagram leave in the sockets. *)

LEMMA RecvLocalSends ==
  ASSUME StartupTypes, RecvLocal
  PROVE  /\ sock' \in [Ports -> Seq(Datagrams)]
         /\ sock[9005] # <<>> /\ sock'[9005] = Tail(sock[9005])
         /\ \A q \in Ports \ {9005, 11000, 21000, 22000} : sock'[q] = sock[q]
         /\ owner[21000] # Nobody => sock'[21000] = Append(sock[21000], "arm")
<1> DEFINE s0 == Read(9005)  s1 == Sent(s0, 11000, "header")  s2 == Sent(s1, 21000, "arm")
           s3 == Sent(s2, 22000, "go")
<1>p11000. 11000 \in Ports
  BY PortsIn
<1>p21000. 21000 \in Ports
  BY PortsIn
<1>p22000. 22000 \in Ports
  BY PortsIn
<1>p9005. 9005 \in Ports
  BY PortsIn
<1>arm. "arm" \in Datagrams
  BY DatagramsIn
<1>go. "go" \in Datagrams
  BY DatagramsIn
<1>header. "header" \in Datagrams
  BY DatagramsIn
<1>1. sock' = s3 /\ sock[9005] # <<>> /\ sock \in [Ports -> Seq(Datagrams)]
  BY DEF RecvLocal, SentOnLocal, Arrived, StartupTypes
<1>2. /\ s0 \in [Ports -> Seq(Datagrams)]
      /\ \A q \in Ports : q # 9005 => s0[q] = sock[q]
      /\ s0[9005] = Tail(sock[9005])
  BY <1>1, ReadIs, <1>p9005
<1> HIDE DEF s0
<1>3. s1 \in [Ports -> Seq(Datagrams)] /\ \A q \in Ports : q # 11000 => s1[q] = s0[q]
  BY <1>2, SentIs, <1>p11000, <1>header
<1> HIDE DEF s1
<1>4. /\ s2 \in [Ports -> Seq(Datagrams)] /\ \A q \in Ports : q # 21000 => s2[q] = s1[q]
      /\ owner[21000] # Nobody => s2[21000] = Append(s1[21000], "arm")
  BY <1>3, SentIs, <1>p21000, <1>arm
<1> HIDE DEF s2
<1>5. s3 \in [Ports -> Seq(Datagrams)] /\ \A q \in Ports : q # 22000 => s3[q] = s2[q]
  BY <1>4, SentIs, <1>p22000, <1>go
<1> HIDE DEF s3
<1>6. sock'[9005] = Tail(sock[9005])
  <2>1. s3[9005] = s2[9005]
    BY <1>5, <1>p9005
  <2>2. s2[9005] = s1[9005]
    BY <1>4, <1>p9005
  <2>3. s1[9005] = s0[9005]
    BY <1>3, <1>p9005
  <2> QED BY <1>1, <1>2, <2>1, <2>2, <2>3
<1>7. \A q \in Ports \ {9005, 11000, 21000, 22000} : sock'[q] = sock[q]
  BY <1>1, <1>2, <1>3, <1>4, <1>5
<1>8. owner[21000] # Nobody => sock'[21000] = Append(sock[21000], "arm")
  <2>1. s3[21000] = s2[21000]
    BY <1>5, <1>p21000
  <2>2. s1[21000] = s0[21000]
    BY <1>3, <1>p21000
  <2>3. s0[21000] = sock[21000]
    BY <1>2, <1>p21000
  <2> QED BY <1>1, <1>4, <2>1, <2>2, <2>3
<1> QED BY <1>1, <1>5, <1>6, <1>7, <1>8

LEMMA RecvExpirySends ==
  ASSUME StartupTypes, RecvExpiry, UNCHANGED <<pc, owner>>
  PROVE  /\ sock' \in [Ports -> Seq(Datagrams)]
         /\ sock[20000] # <<>>
         /\ \A q \in Ports \ {20000, 11000, 21000} : sock'[q] = sock[q]
         /\ resend' /\ owner[21000] # Nobody => sock'[21000] = Append(sock[21000], "arm")
         /\ resend' = (window \/ resend)
<1> DEFINE s0 == Read(20000)  s1 == Sent(s0, 11000, "header")  s2 == Sent(s1, 21000, "arm")
<1>p11000. 11000 \in Ports
  BY PortsIn
<1>p20000. 20000 \in Ports
  BY PortsIn
<1>p21000. 21000 \in Ports
  BY PortsIn
<1>arm. "arm" \in Datagrams
  BY DatagramsIn
<1>header. "header" \in Datagrams
  BY DatagramsIn
<1>1. /\ sock' = IF resend' THEN s2 ELSE s0
      /\ resend' = (window \/ resend)
      /\ sock[20000] # <<>> /\ sock \in [Ports -> Seq(Datagrams)]
  <2>1. ~ Exit("tcpdc")
    <3>1. pc["tcpdc"] = Waiting
      BY DEF RecvExpiry, Arrived
    <3>2. pc \in [Programs -> 0..5 \cup {Waiting, Closing, Exited}]
      BY DEF StartupTypes, TypeOK
    <3> QED BY <3>1, <3>2 DEF Exit, Waiting, Exited, Programs
  <2> QED BY <2>1 DEF RecvExpiry, SentOnExpiry, Arrived, StartupTypes
<1>2. /\ s0 \in [Ports -> Seq(Datagrams)]
      /\ \A q \in Ports : q # 20000 => s0[q] = sock[q]
  BY <1>1, ReadIs, <1>p20000
<1> HIDE DEF s0
<1>3. s1 \in [Ports -> Seq(Datagrams)] /\ \A q \in Ports : q # 11000 => s1[q] = s0[q]
  BY <1>2, SentIs, <1>p11000, <1>header
<1> HIDE DEF s1
<1>4. /\ s2 \in [Ports -> Seq(Datagrams)] /\ \A q \in Ports : q # 21000 => s2[q] = s1[q]
      /\ owner[21000] # Nobody => s2[21000] = Append(s1[21000], "arm")
  BY <1>3, SentIs, <1>p21000, <1>arm
<1> HIDE DEF s2
<1>5. sock' \in [Ports -> Seq(Datagrams)]
  BY <1>1, <1>2, <1>4
<1>6. \A q \in Ports \ {20000, 11000, 21000} : sock'[q] = sock[q]
  BY <1>1, <1>2, <1>3, <1>4
<1>7. resend' /\ owner[21000] # Nobody => sock'[21000] = Append(sock[21000], "arm")
  <2>1. s1[21000] = s0[21000]
    BY <1>3, <1>p21000
  <2>2. s0[21000] = sock[21000]
    BY <1>2, <1>p21000
  <2> QED BY <1>1, <1>4, <2>1, <2>2
<1> QED BY <1>1, <1>5, <1>6, <1>7

LEMMA RecvAckSends ==
  ASSUME StartupTypes, RecvAck
  PROVE  /\ sock' \in [Ports -> Seq(Datagrams)]
         /\ sock[14000] # <<>>
         /\ \A q \in Ports \ {14000, 21000, 22000} : sock'[q] = sock[q]
<1> DEFINE s0 == Read(14000)  s1 == Sent(s0, 21000, "cancel")  s2 == Sent(s1, 22000, "go")
<1>p14000. 14000 \in Ports
  BY PortsIn
<1>p21000. 21000 \in Ports
  BY PortsIn
<1>p22000. 22000 \in Ports
  BY PortsIn
<1>cancel. "cancel" \in Datagrams
  BY DatagramsIn
<1>go. "go" \in Datagrams
  BY DatagramsIn
<1>1. sock' = s2 /\ sock[14000] # <<>> /\ sock \in [Ports -> Seq(Datagrams)]
  BY DEF RecvAck, SentOnAck, Arrived, StartupTypes
<1>2. /\ s0 \in [Ports -> Seq(Datagrams)]
      /\ \A q \in Ports : q # 14000 => s0[q] = sock[q]
  BY <1>1, ReadIs, <1>p14000
<1> HIDE DEF s0
<1>3. s1 \in [Ports -> Seq(Datagrams)] /\ \A q \in Ports : q # 21000 => s1[q] = s0[q]
  BY <1>2, SentIs, <1>p21000, <1>cancel
<1> HIDE DEF s1
<1>4. s2 \in [Ports -> Seq(Datagrams)] /\ \A q \in Ports : q # 22000 => s2[q] = s1[q]
  BY <1>3, SentIs, <1>p22000, <1>go
<1> HIDE DEF s2
<1> QED BY <1>1, <1>2, <1>3, <1>4, <1>p14000, <1>p21000, <1>p22000

LEMMA RecvFinAgainSends ==
  ASSUME StartupTypes, RecvFinAgain
  PROVE  /\ sock' \in [Ports -> Seq(Datagrams)]
         /\ sock[14000] # <<>>
         /\ \A q \in Ports \ {21000, 22000} :
              sock'[q] = IF owner[q] = "tcpdc" THEN <<>> ELSE sock[q]
<1> DEFINE s1 == Sent(sock, 22000, "stop")  s2 == Sent(s1, 21000, "cancel")
<1>p21000. 21000 \in Ports
  BY PortsIn
<1>p22000. 22000 \in Ports
  BY PortsIn
<1>cancel. "cancel" \in Datagrams
  BY DatagramsIn
<1>stop. "stop" \in Datagrams
  BY DatagramsIn
<1>1. sock' = Closed("tcpdc", s2) /\ sock[14000] # <<>> /\ sock \in [Ports -> Seq(Datagrams)]
  BY DEF RecvFinAgain, StartupTypes
<1>2. s1 \in [Ports -> Seq(Datagrams)] /\ \A q \in Ports : q # 22000 => s1[q] = sock[q]
  BY <1>1, SentIs, <1>p22000, <1>stop
<1> HIDE DEF s1
<1>3. s2 \in [Ports -> Seq(Datagrams)] /\ \A q \in Ports : q # 21000 => s2[q] = s1[q]
  BY <1>2, SentIs, <1>p21000, <1>cancel
<1> HIDE DEF s2
<1> QED BY <1>1, <1>2, <1>3, ClosedIs, <1>p21000, <1>p22000

LEMMA RecvPacketSends ==
  ASSUME StartupTypes, RecvPacket
  PROVE  /\ sock' \in [Ports -> Seq(Datagrams)]
         /\ sock[12000] # <<>>
         /\ \A q \in Ports \ {12000, 13000, 25000} :
              sock'[q] \in {sock[q], <<>>} /\ (owner[q] # "tcpds" => sock'[q] = sock[q])
         /\ owner[13000] = "ftps" /\ (sock[13000] # <<>> \/ ~ passed) => sock'[13000] # <<>>
<1> DEFINE a  == Acknowledgement
           s0 == Read(12000)  t0 == Sent(s0, 25000, a)
           s1 == Sent(s0, 13000, "header")  s2 == Sent(s1, 25000, a)
           r1 == Sent(sock, 13000, "header")  r2 == Sent(r1, 25000, "finack")
           r3 == Sent(r2, 25000, "finack")
<1>p12000. 12000 \in Ports
  BY PortsIn
<1>p13000. 13000 \in Ports
  BY PortsIn
<1>p25000. 25000 \in Ports
  BY PortsIn
<1>finack. "finack" \in Datagrams
  BY DatagramsIn
<1>header. "header" \in Datagrams
  BY DatagramsIn
<1>1. /\ sock[12000] # <<>> /\ sock \in [Ports -> Seq(Datagrams)]
      /\ \/ passed /\ sock' = t0
         \/ ~ passed /\ sock' = s2
         \/ ~ passed /\ sock' = Closed("tcpds", r3)
  <2>1. sock[12000] # <<>> /\ sock \in [Ports -> Seq(Datagrams)]
    BY DEF RecvPacket, Arrived, StartupTypes
  <2>2. \/ passed /\ sock' = Sent(Read(12000), 25000, Acknowledgement)
        \/ ~ passed /\ sock' = SentOnPacket(Read(12000))
        \/ ~ passed /\ sock' = Closed("tcpds", SentOnFin(sock))
    BY DEF RecvPacket
  <2>3. CASE passed /\ sock' = Sent(Read(12000), 25000, Acknowledgement)
    BY <2>1, <2>3
  <2>4. CASE ~ passed /\ sock' = SentOnPacket(Read(12000))
    BY <2>1, <2>4 DEF SentOnPacket
  <2>5. CASE ~ passed /\ sock' = Closed("tcpds", SentOnFin(sock))
    BY <2>1, <2>5 DEF SentOnFin
  <2> QED BY <2>2, <2>3, <2>4, <2>5
<1>2. a \in Datagrams
  BY DEF Acknowledgement, Datagrams
<1> HIDE DEF a
<1>3. /\ s0 \in [Ports -> Seq(Datagrams)]
      /\ \A q \in Ports : q # 12000 => s0[q] = sock[q]
  BY <1>1, ReadIs, <1>p12000
<1> HIDE DEF s0
<1>4. t0 \in [Ports -> Seq(Datagrams)] /\ \A q \in Ports : q # 25000 => t0[q] = s0[q]
  BY <1>2, <1>3, SentIs, <1>p25000
<1>5. /\ s1 \in [Ports -> Seq(Datagrams)] /\ \A q \in Ports : q # 13000 => s1[q] = s0[q]
      /\ owner[13000] # Nobody => s1[13000] = Append(s0[13000], "header")
  BY <1>3, SentIs, <1>p13000, <1>header
<1> HIDE DEF t0, s1
<1>6. s2 \in [Ports -> Seq(Datagrams)] /\ \A q \in Ports : q # 25000 => s2[q] = s1[q]
  BY <1>2, <1>5, SentIs, <1>p25000
<1>7. /\ r1 \in [Ports -> Seq(Datagrams)] /\ \A q \in Ports : q # 13000 => r1[q] = sock[q]
      /\ owner[13000] # Nobody => r1[13000] = Append(sock[13000], "header")
  BY <1>1, SentIs, <1>p13000, <1>header
<1> HIDE DEF s2, r1
<1>8. r2 \in [Ports -> Seq(Datagrams)] /\ \A q \in Ports : q # 25000 => r2[q] = r1[q]
  BY <1>7, SentIs, <1>p25000, <1>finack
<1> HIDE DEF r2
<1>9. r3 \in [Ports -> Seq(Datagrams)] /\ \A q \in Ports : q # 25000 => r3[q] = r2[q]
  BY <1>8, SentIs, <1>p25000, <1>finack
<1> HIDE DEF r3
<1>10. /\ Closed("tcpds", r3) \in [Ports -> Seq(Datagrams)]
       /\ \A q \in Ports : Closed("tcpds", r3)[q] = IF owner[q] = "tcpds" THEN <<>> ELSE r3[q]
  BY <1>9, ClosedIs
<1>11. \A s \in Seq(Datagrams) : Append(s, "header") # <<>>
  BY AppendProperties, <1>header
<1> DEFINE Others(f) == \A q \in Ports \ {12000, 13000, 25000} :
                          f[q] \in {sock[q], <<>>} /\ (owner[q] # "tcpds" => f[q] = sock[q])
           Reached(f) == owner[13000] = "ftps" /\ (sock[13000] # <<>> \/ ~ passed) => f[13000] # <<>>
<1>13. Others(t0) /\ Others(s2) /\ Others(Closed("tcpds", r3))
  <2>1. Others(t0)
    BY <1>3, <1>4
  <2>2. Others(s2)
    BY <1>3, <1>5, <1>6
  <2>3. Others(Closed("tcpds", r3))
    BY <1>7, <1>8, <1>9, <1>10
  <2> QED BY <2>1, <2>2, <2>3
<1>14. passed => Reached(t0)
  BY <1>3, <1>4, <1>p13000
<1>15. Reached(s2)
  <2>1. owner[13000] = "ftps" => s1[13000] = Append(s0[13000], "header")
    BY <1>5 DEF Nobody
  <2>2. s0[13000] \in Seq(Datagrams)
    BY <1>3, <1>p13000
  <2>3. s2[13000] = s1[13000]
    BY <1>6, <1>p13000
  <2> QED BY <1>11, <2>1, <2>2, <2>3
<1>16. Reached(Closed("tcpds", r3))
  <2>1. owner[13000] = "ftps" => r1[13000] = Append(sock[13000], "header")
    BY <1>7 DEF Nobody
  <2>2. sock[13000] \in Seq(Datagrams)
    BY <1>1, <1>p13000
  <2>3. r3[13000] = r2[13000] /\ r2[13000] = r1[13000]
    BY <1>8, <1>9, <1>p13000
  <2>4. owner[13000] = "ftps" => Closed("tcpds", r3)[13000] = r3[13000]
    BY <1>10, <1>p13000
  <2> QED BY <1>11, <2>1, <2>2, <2>3, <2>4
<1> HIDE DEF Others, Reached
<1>17. sock' \in [Ports -> Seq(Datagrams)] /\ Others(sock') /\ Reached(sock')
  BY <1>1, <1>4, <1>6, <1>10, <1>13, <1>14, <1>15, <1>16
<1> QED BY <1>1, <1>17 DEF Others, Reached

-------------------------------------------------------------------------------
(* The programs and their ports.                                           *)

LEMMA BindIs ==
  ASSUME StartupTypes, NEW p \in Programs, Bind(p)
  PROVE  \E port \in Ports :
           /\ port = 13000 <=> p = "ftps"
           /\ port = 20000 <=> p = "tcpdc" /\ pc[p] = 2
           /\ port = 21000 => p = "timer" \/ p = "tcpdc"
           /\ p = "timer" => port = 21000
           /\ pc[p] \in 1..4 /\ (p # "tcpdc" => pc[p] = 1)
           /\ \/ Exit(p) /\ owner[port] # Nobody /\ sock' = Closed(p, sock)
              \/ /\ owner' = [owner EXCEPT ![port] = IF owner[port] = Nobody THEN p ELSE owner[port]]
                 /\ pc' = [pc EXCEPT ![p] = IF (p = "tcpdc" /\ pc[p] # 4) \/ p \in {"tcpds", "ftpc"}
                                            THEN pc[p] + 1 ELSE Waiting]
                 /\ sock' = sock
<1> DEFINE b == Binds[p][pc[p]]  port == b.port
<1>1. pc[p] \in 1..Len(Binds[p])
  BY DEF Bind
<1>2. /\ port \in Ports
      /\ port = 13000 <=> p = "ftps"
      /\ port = 20000 <=> p = "tcpdc" /\ pc[p] = 2
      /\ port = 21000 => p = "timer" \/ p = "tcpdc"
      /\ p = "timer" => port = 21000
      /\ p # "tcpdc" => pc[p] = 1 /\ Len(Binds[p]) = 1
      /\ p = "tcpdc" => pc[p] \in 1..4 /\ Len(Binds[p]) = 4
  BY <1>1, BindOf
<1>3. owner \in [Ports -> Programs \cup {Nobody}]
  BY DEF StartupTypes, TypeOK
<1>4. \/ owner[port] = Nobody /\ owner' = [owner EXCEPT ![port] = p] /\ Opened(p) /\ sock' = sock
      \/ owner[port] # Nobody /\ owner' = owner /\ Opened(p) /\ sock' = sock
      \/ owner[port] # Nobody /\ Exit(p) /\ sock' = Closed(p, sock)
  BY DEF Bind
<1> HIDE DEF port
<1>5. Opened(p) =>
        pc' = [pc EXCEPT ![p] = IF (p = "tcpdc" /\ pc[p] # 4) \/ p \in {"tcpds", "ftpc"}
                                THEN pc[p] + 1 ELSE Waiting]
  <2>1. (pc[p] = Len(Binds[p]) /\ p \notin {"tcpds", "ftpc"})
          <=> ~ ((p = "tcpdc" /\ pc[p] # 4) \/ p \in {"tcpds", "ftpc"})
    <3>1. CASE p = "tcpdc"
      <4>1. Len(Binds[p]) = 4
        BY <1>2, <3>1
      <4> QED BY <3>1, <4>1
    <3>2. CASE p # "tcpdc"
      <4>1. Len(Binds[p]) = 1 /\ pc[p] = 1
        BY <1>2, <3>2
      <4> QED BY <3>2, <4>1
    <3> QED BY <3>1, <3>2
  <2> QED BY <2>1, Zenon DEF Opened
<1>6. owner[port] # Nobody => owner = [owner EXCEPT ![port] = owner[port]]
  BY <1>3
<1>7. pc[p] \in 1..4 /\ (p # "tcpdc" => pc[p] = 1)
  BY <1>2
<1> HIDE DEF Opened, Exit
<1>8. \/ Exit(p) /\ owner[port] # Nobody /\ sock' = Closed(p, sock)
      \/ /\ owner' = [owner EXCEPT ![port] = IF owner[port] = Nobody THEN p ELSE owner[port]]
         /\ Opened(p) /\ sock' = sock
  BY <1>4, <1>6
<1> QED BY <1>2, <1>5, <1>7, <1>8

(* Whatever happens, the programs and their ports change in one of these   *)
(* ways.                                                                   *)
ControlStep ==
  /\ order' = order /\ (got => got')
  /\ \/ \E p \in Programs : Start(p)
     \/ \E p \in Programs : Bind(p)
     \/ Exit("tcpds") /\ pc["tcpds"] # 0
     \/ Exit("tcpdc") /\ pc["tcpdc"] # 0
     \/ Exit("ftps") /\ got'
     \/ /\ owner' = owner
        /\ \/ pc["tcpds"] = 2 /\ pc' = [pc EXCEPT !["tcpds"] = Waiting]
           \/ pc["ftpc"] = 2 /\ pc' = [pc EXCEPT !["ftpc"] = Waiting]
           \/ pc["tcpdc"] = Waiting /\ pc' = [pc EXCEPT !["tcpdc"] = Closing]
           \/ pc' = pc

LEMMA StepIsControl ==
  ASSUME StartupTypes, [Next]_vars
  PROVE  ControlStep
<1>1. pc \in [Programs -> 0..5 \cup {Waiting, Closing, Exited}]
  BY DEF StartupTypes, TypeOK
<1> USE DEF ControlStep, progress
<1>2. ASSUME NEW p \in Programs, Start(p) PROVE ControlStep
  BY <1>2 DEF Start
<1>3. ASSUME NEW p \in Programs, Bind(p) PROVE ControlStep
  BY <1>3 DEF Bind
<1>4. CASE WaitTcpds
  <2>1. pc["tcpds"] = 2
    BY <1>4, BindsAre DEF WaitTcpds, Bound
  <2> QED BY <1>4, <2>1 DEF WaitTcpds
<1>5. CASE SendHeader
  <2>1. pc["ftpc"] = 2
    BY <1>5, BindsAre DEF SendHeader, Bound
  <2> QED BY <1>5, <2>1 DEF SendHeader
<1>6. CASE FtpcSignal \/ RecvLocal \/ TimerMessage \/ TimerTick
  BY <1>6 DEF FtpcSignal, RecvLocal, TimerMessage, TimerTick
<1>7. CASE RecvExpiry
  BY <1>7 DEF RecvExpiry, Arrived, Waiting
<1>8. CASE RecvAck
  <2>1. pc["tcpdc"] = Waiting /\ owner' = owner /\ order' = order /\ got' = got
    BY <1>8 DEF RecvAck, Arrived
  <2>2. pc' = pc \/ pc' = [pc EXCEPT !["tcpdc"] = Closing]
    <3>1. pc' = [pc EXCEPT !["tcpdc"] = pc["tcpdc"]] \/ pc' = [pc EXCEPT !["tcpdc"] = Closing]
      <4>1. CASE Head(sock[14000]) = "ack"
        BY <1>8, <4>1 DEF RecvAck
      <4>2. CASE Head(sock[14000]) # "ack"
        BY <1>8, <4>2 DEF RecvAck
      <4> QED BY <4>1, <4>2
    <3> QED BY <1>1, <3>1
  <2> QED BY <2>1, <2>2
<1>9. CASE RecvFinAck
  BY <1>9 DEF RecvFinAck, Arrived
<1>10. CASE RecvFinAgain
  BY <1>10 DEF RecvFinAgain, Closing
<1>11. ASSUME NEW t, NEW f, NEW g, Forward(t, f, g) PROVE ControlStep
  BY <1>11 DEF Forward
<1>12. CASE RecvPacket
  BY <1>12 DEF RecvPacket, Arrived, Waiting
<1>13. CASE FtpsWrite
  BY <1>13 DEF FtpsWrite
<1>14. CASE UNCHANGED vars
  BY <1>14 DEF vars
<1> QED BY <1>2, <1>3, <1>4, <1>5, <1>6, <1>7, <1>8, <1>9, <1>10, <1>11, <1>12, <1>13, <1>14
        DEF Next, Operator, Opening, Daemons

LEMMA StartIs ==
  ASSUME NEW p \in Programs, Start(p)
  PROVE  /\ pc[p] = 0 /\ pc' = [pc EXCEPT ![p] = 1] /\ owner' = owner /\ sock' = sock
         /\ p = "tcpdc" /\ <<"timer", "tcpdc">> \in order => pc["timer"] \in {Waiting, Closing, Exited}
         /\ p = "tcpds" /\ <<"ftps", "tcpds">> \in order => pc["ftps"] \in {Waiting, Closing, Exited}
<1>1. \A q \in Programs : <<q, p>> \in order => pc[q] \in {Waiting, Closing, Exited}
  BY DEF Start
<1>2. "timer" \in Programs /\ "ftps" \in Programs
  BY DEF Programs
<1>3. p = "tcpdc" /\ <<"timer", "tcpdc">> \in order => pc["timer"] \in {Waiting, Closing, Exited}
  BY <1>1, <1>2
<1>4. p = "tcpds" /\ <<"ftps", "tcpds">> \in order => pc["ftps"] \in {Waiting, Closing, Exited}
  BY <1>1, <1>2
<1> QED BY <1>3, <1>4 DEF Start

LEMMA TimerStaysFirst ==
  ASSUME StartupTypes, TimerFirst, ControlStep
  PROVE  TimerFirst'
<1> SUFFICES ASSUME <<"timer", "tcpdc">> \in order PROVE TimerFirst'
  BY DEF TimerFirst, ControlStep
<1>1. /\ pc \in [Programs -> 0..5 \cup {Waiting, Closing, Exited}]
      /\ owner \in [Ports -> Programs \cup {Nobody}]
      /\ "timer" \in Programs /\ "tcpdc" \in Programs /\ "nobody" \notin Programs
  BY DEF StartupTypes, TypeOK, Programs
<1>2. 21000 \in Ports
  BY PortsIn
<1>3. \/ pc["timer"] \in {0, 1} /\ pc["tcpdc"] = 0 /\ owner[21000] = Nobody
      \/ pc["timer"] = Waiting /\ owner[21000] = "timer"
  BY DEF TimerFirst
<1> DEFINE Goal == \/ pc'["timer"] \in {0, 1} /\ pc'["tcpdc"] = 0 /\ owner'[21000] = Nobody
                   \/ pc'["timer"] = Waiting /\ owner'[21000] = "timer"
<1> SUFFICES Goal
  BY DEF TimerFirst
<1>4. ASSUME NEW p \in Programs, Start(p) PROVE Goal
  BY <1>1, <1>3, <1>4, StartIs DEF Waiting, Closing, Exited
<1>5. ASSUME NEW p \in Programs, Exit(p), p # "timer", p = "tcpdc" => pc[p] # 0 PROVE Goal
  <2>1. /\ pc' = [pc EXCEPT ![p] = Exited]
        /\ owner'[21000] = IF owner[21000] = p THEN Nobody ELSE owner[21000]
    BY <1>2, <1>5, ExitIs DEF StartupTypes
  <2>2. pc'["timer"] = pc["timer"] /\ (pc["tcpdc"] = 0 => pc'["tcpdc"] = 0)
    BY <1>1, <1>5, <2>1
  <2>3. owner'[21000] = owner[21000]
    BY <1>1, <1>3, <1>5, <2>1 DEF Nobody
  <2> QED BY <1>3, <2>2, <2>3
<1>6. ASSUME NEW p \in Programs, Bind(p) PROVE Goal
  <2>1. PICK port \in Ports :
          /\ port = 21000 => p = "timer" \/ p = "tcpdc"
          /\ p = "timer" => port = 21000
          /\ pc[p] \in 1..4 /\ (p # "tcpdc" => pc[p] = 1)
          /\ \/ Exit(p) /\ owner[port] # Nobody
             \/ /\ owner' = [owner EXCEPT ![port] = IF owner[port] = Nobody THEN p ELSE owner[port]]
                /\ pc' = [pc EXCEPT ![p] = IF (p = "tcpdc" /\ pc[p] # 4) \/ p \in {"tcpds", "ftpc"}
                                           THEN pc[p] + 1 ELSE Waiting]
    BY <1>6, BindIs
  <2>2. CASE p = "timer"
    <3>1. pc["timer"] = 1 /\ owner[21000] = Nobody /\ port = 21000
      BY <1>3, <2>1, <2>2 DEF Waiting
    <3>2. owner' = [owner EXCEPT ![21000] = "timer"] /\ pc' = [pc EXCEPT !["timer"] = Waiting]
      BY <2>1, <2>2, <3>1
    <3> QED BY <1>1, <1>2, <3>2
  <2>3. CASE p # "timer"
    <3>1. pc[p] # 0
      BY <2>1
    <3>2. CASE Exit(p)
      BY <1>5, <2>3, <3>1, <3>2
    <3>3. CASE ~ Exit(p)
      <4>1. /\ owner' = [owner EXCEPT ![port] = IF owner[port] = Nobody THEN p ELSE owner[port]]
            /\ pc' = [pc EXCEPT ![p] = IF (p = "tcpdc" /\ pc[p] # 4) \/ p \in {"tcpds", "ftpc"}
                                       THEN pc[p] + 1 ELSE Waiting]
        BY <2>1, <3>3
      <4>2. pc'["timer"] = pc["timer"]
        BY <1>1, <2>3, <4>1
      <4>3. CASE pc["tcpdc"] = 0
        <5>1. p # "tcpdc"
          BY <3>1, <4>3
        <5>2. pc'["tcpdc"] = pc["tcpdc"] /\ owner'[21000] = owner[21000]
          BY <1>1, <1>2, <2>1, <2>3, <4>1, <5>1
        <5> QED BY <1>3, <4>2, <5>2
      <4>4. CASE pc["tcpdc"] # 0
        <5>1. pc["timer"] = Waiting /\ owner[21000] = "timer"
          BY <1>3, <4>4
        <5>2. owner'[21000] = "timer"
          BY <1>1, <1>2, <4>1, <5>1 DEF Nobody
        <5> QED BY <4>2, <5>1, <5>2
      <4> QED BY <4>3, <4>4
    <3> QED BY <3>2, <3>3
  <2> QED BY <2>2, <2>3
<1>7. CASE \/ Exit("tcpds") /\ pc["tcpds"] # 0
           \/ Exit("tcpdc") /\ pc["tcpdc"] # 0
           \/ Exit("ftps") /\ got'
  <2> HIDE DEF Goal
  <2>1. ASSUME Exit("tcpds") PROVE Goal
    BY <1>5, <2>1 DEF Programs
  <2>2. ASSUME Exit("tcpdc"), pc["tcpdc"] # 0 PROVE Goal
    BY <1>5, <2>2 DEF Programs
  <2>3. ASSUME Exit("ftps") PROVE Goal
    BY <1>5, <2>3 DEF Programs
  <2> QED BY <1>7, <2>1, <2>2, <2>3
<1>8. ASSUME owner' = owner,
             \/ pc["tcpds"] = 2 /\ pc' = [pc EXCEPT !["tcpds"] = Waiting]
             \/ pc["ftpc"] = 2 /\ pc' = [pc EXCEPT !["ftpc"] = Waiting]
             \/ pc["tcpdc"] = Waiting /\ pc' = [pc EXCEPT !["tcpdc"] = Closing]
             \/ pc' = pc
      PROVE  Goal
  <2>1. pc'["timer"] = pc["timer"]
    BY <1>1, <1>8
  <2>2. pc["tcpdc"] = 0 => pc'["tcpdc"] = 0
    BY <1>1, <1>8 DEF Waiting
  <2> QED BY <1>3, <1>8, <2>1, <2>2
<1> HIDE DEF Goal
<1>9. Goal
  <2>1. CASE \E p \in Programs : Start(p)
    BY <1>4, <2>1
  <2>2. CASE \E p \in Programs : Bind(p)
    BY <1>6, <2>2
  <2> QED BY <1>7, <1>8, <2>1, <2>2 DEF ControlStep
<1> QED BY <1>9

LEMMA ControlTypes ==
  ASSUME StartupTypes, ControlStep
  PROVE  /\ pc' \in [Programs -> 0..5 \cup {Waiting, Closing, Exited}]
         /\ owner' \in [Ports -> Programs \cup {Nobody}]
<1> DEFINE States == 0..5 \cup {Waiting, Closing, Exited}
           Goal == pc' \in [Programs -> States] /\ owner' \in [Ports -> Programs \cup {Nobody}]
<1> SUFFICES Goal
  OBVIOUS
<1>1. pc \in [Programs -> States] /\ owner \in [Ports -> Programs \cup {Nobody}]
  BY DEF StartupTypes, TypeOK
<1>2. "tcpds" \in Programs /\ "tcpdc" \in Programs /\ "ftps" \in Programs /\ "ftpc" \in Programs
  BY DEF Programs
<1>3. ASSUME NEW p \in Programs, Start(p) PROVE Goal
  BY <1>1, <1>3, StartIs
<1>4. ASSUME NEW p \in Programs, Exit(p) PROVE Goal
  BY <1>4, ExitIs DEF StartupTypes
<1>5. ASSUME NEW p \in Programs, Bind(p) PROVE Goal
  <2>1. PICK port \in Ports :
          /\ pc[p] \in 1..4
          /\ \/ Exit(p)
             \/ /\ owner' = [owner EXCEPT ![port] = IF owner[port] = Nobody THEN p ELSE owner[port]]
                /\ pc' = [pc EXCEPT ![p] = IF (p = "tcpdc" /\ pc[p] # 4) \/ p \in {"tcpds", "ftpc"}
                                           THEN pc[p] + 1 ELSE Waiting]
    BY <1>5, BindIs
  <2>2. CASE Exit(p)
    BY <1>4, <2>2
  <2>3. CASE ~ Exit(p)
    <3>1. (IF (p = "tcpdc" /\ pc[p] # 4) \/ p \in {"tcpds", "ftpc"} THEN pc[p] + 1 ELSE Waiting) \in States
      BY <2>1 DEF Waiting
    <3>2. (IF owner[port] = Nobody THEN p ELSE owner[port]) \in Programs \cup {Nobody}
      BY <1>1
    <3> HIDE DEF States
    <3> QED BY <1>1, <2>1, <2>3, <3>1, <3>2
  <2> QED BY <2>2, <2>3
<1>6. ASSUME owner' = owner,
             \/ pc["tcpds"] = 2 /\ pc' = [pc EXCEPT !["tcpds"] = Waiting]
             \/ pc["ftpc"] = 2 /\ pc' = [pc EXCEPT !["ftpc"] = Waiting]
             \/ pc["tcpdc"] = Waiting /\ pc' = [pc EXCEPT !["tcpdc"] = Closing]
             \/ pc' = pc
      PROVE  Goal
  BY <1>1, <1>2, <1>6
<1> HIDE DEF Goal
<1>7. ASSUME Exit("tcpds") \/ Exit("tcpdc") \/ Exit("ftps") PROVE Goal
  BY <1>2, <1>4, <1>7
<1>8. CASE \E p \in Programs : Start(p)
  BY <1>3, <1>8
<1>9. CASE \E p \in Programs : Bind(p)
  BY <1>5, <1>9
<1> QED BY <1>6, <1>7, <1>8, <1>9 DEF ControlStep

LEMMA PortsStayOwn ==
  ASSUME StartupTypes, OwnPorts, ControlStep
  PROVE  OwnPorts'
<1> DEFINE Goal == /\ owner'[13000] \in {Nobody, "ftps"}
                   /\ owner'[20000] \in {Nobody, "tcpdc"}
                   /\ pc'["tcpdc"] \in {3, 4, Waiting, Closing} => owner'[20000] = "tcpdc"
<1> SUFFICES Goal
  BY DEF OwnPorts
<1>1. /\ pc \in [Programs -> 0..5 \cup {Waiting, Closing, Exited}]
      /\ owner \in [Ports -> Programs \cup {Nobody}]
  BY DEF StartupTypes, TypeOK
<1>2. "tcpds" \in Programs /\ "tcpdc" \in Programs /\ "ftps" \in Programs /\ "ftpc" \in Programs
  BY DEF Programs
<1>3. 13000 \in Ports /\ 20000 \in Ports
  BY PortsIn
<1>4. /\ owner[13000] \in {Nobody, "ftps"} /\ owner[20000] \in {Nobody, "tcpdc"}
      /\ pc["tcpdc"] \in {3, 4, Waiting, Closing} => owner[20000] = "tcpdc"
  BY DEF OwnPorts
<1>5. ASSUME NEW p \in Programs, Start(p) PROVE Goal
  <2>1. owner' = owner /\ pc' = [pc EXCEPT ![p] = 1]
    BY <1>5, StartIs
  <2> QED BY <1>1, <1>4, <2>1 DEF Waiting, Closing
<1>6. ASSUME NEW p \in Programs, Exit(p) PROVE Goal
  <2>1. /\ pc' = [pc EXCEPT ![p] = Exited]
        /\ \A q \in Ports : owner'[q] = IF owner[q] = p THEN Nobody ELSE owner[q]
    BY <1>6, ExitIs DEF StartupTypes
  <2>2. owner'[13000] \in {Nobody, "ftps"} /\ owner'[20000] \in {Nobody, "tcpdc"}
    BY <1>3, <1>4, <2>1
  <2>3. CASE p = "tcpdc"
    BY <1>1, <1>2, <2>1, <2>2, <2>3 DEF Waiting, Closing, Exited
  <2>4. CASE p # "tcpdc"
    <3>1. pc'["tcpdc"] = pc["tcpdc"]
      BY <1>1, <1>2, <2>1, <2>4
    <3>2. owner'[20000] = owner[20000]
      BY <1>3, <1>4, <2>1, <2>4
    <3> QED BY <1>4, <2>2, <3>1, <3>2
  <2> QED BY <2>3, <2>4
<1>7. ASSUME NEW p \in Programs, Bind(p) PROVE Goal
  <2>1. PICK port \in Ports :
          /\ port = 13000 <=> p = "ftps"
          /\ port = 20000 <=> p = "tcpdc" /\ pc[p] = 2
          /\ pc[p] \in 1..4
          /\ \/ Exit(p)
             \/ /\ owner' = [owner EXCEPT ![port] = IF owner[port] = Nobody THEN p ELSE owner[port]]
                /\ pc' = [pc EXCEPT ![p] = IF (p = "tcpdc" /\ pc[p] # 4) \/ p \in {"tcpds", "ftpc"}
                                           THEN pc[p] + 1 ELSE Waiting]
    BY <1>7, BindIs
  <2>2. CASE Exit(p)
    BY <1>6, <2>2
  <2>3. CASE ~ Exit(p)
    <3>1. owner'[13000] = IF port = 13000 /\ owner[13000] = Nobody THEN p ELSE owner[13000]
      BY <1>1, <1>3, <2>1, <2>3
    <3>2. owner'[20000] = IF port = 20000 /\ owner[20000] = Nobody THEN p ELSE owner[20000]
      BY <1>1, <1>3, <2>1, <2>3
    <3>3. owner'[13000] \in {Nobody, "ftps"} /\ owner'[20000] \in {Nobody, "tcpdc"}
      BY <1>4, <2>1, <3>1, <3>2
    <3>4. ASSUME pc'["tcpdc"] \in {3, 4, Waiting, Closing}
          PROVE  owner'[20000] = "tcpdc"
      <4>1. CASE pc["tcpdc"] \in {3, 4, Waiting, Closing}
        BY <1>4, <3>2, <4>1 DEF Nobody
      <4>2. CASE pc["tcpdc"] \notin {3, 4, Waiting, Closing}
        <5>1. p = "tcpdc"
          BY <1>1, <1>2, <2>1, <2>3, <3>4, <4>2
        <5>2. pc[p] = 2
          BY <1>1, <1>2, <2>1, <2>3, <3>4, <4>2, <5>1 DEF Waiting, Closing
        <5> QED BY <1>4, <2>1, <3>2, <5>1, <5>2
      <4> QED BY <4>1, <4>2
    <3> QED BY <3>3, <3>4
  <2> QED BY <2>2, <2>3
<1>8. ASSUME owner' = owner,
             \/ pc["tcpds"] = 2 /\ pc' = [pc EXCEPT !["tcpds"] = Waiting]
             \/ pc["ftpc"] = 2 /\ pc' = [pc EXCEPT !["ftpc"] = Waiting]
             \/ pc["tcpdc"] = Waiting /\ pc' = [pc EXCEPT !["tcpdc"] = Closing]
             \/ pc' = pc
      PROVE  Goal
  <2>1. pc'["tcpdc"] = pc["tcpdc"] \/ pc["tcpdc"] = Waiting
    BY <1>1, <1>2, <1>8
  <2> QED BY <1>4, <1>8, <2>1
<1> HIDE DEF Goal
<1>9. ASSUME Exit("tcpds") \/ Exit("tcpdc") \/ Exit("ftps") PROVE Goal
  BY <1>2, <1>6, <1>9
<1>10. CASE \E p \in Programs : Start(p)
  BY <1>5, <1>10
<1>11. CASE \E p \in Programs : Bind(p)
  BY <1>7, <1>11
<1> QED BY <1>8, <1>9, <1>10, <1>11 DEF ControlStep

LEMMA FtpsStaysFirst ==
  ASSUME StartupTypes, OwnPorts, FtpsFirst, ControlStep
  PROVE  FtpsFirst'
<1> DEFINE Goal == /\ pc'["ftps"] \in {0, 1, Waiting, Exited}
                   /\ pc'["ftps"] \in {0, 1} => owner'[13000] = Nobody
                   /\ pc'["ftps"] = Waiting => owner'[13000] = "ftps"
                   /\ pc'["ftps"] = Exited => got'
                   /\ <<"ftps", "tcpds">> \in order /\ pc'["tcpds"] # 0 => pc'["ftps"] \in {Waiting, Exited}
<1> SUFFICES Goal
  BY DEF FtpsFirst, ControlStep
<1>1. /\ pc \in [Programs -> 0..5 \cup {Waiting, Closing, Exited}]
      /\ owner \in [Ports -> Programs \cup {Nobody}]
  BY DEF StartupTypes, TypeOK
<1>2. "tcpds" \in Programs /\ "tcpdc" \in Programs /\ "ftps" \in Programs /\ "ftpc" \in Programs
  BY DEF Programs
<1>3. 13000 \in Ports /\ owner[13000] \in {Nobody, "ftps"}
  BY PortsIn DEF OwnPorts
<1>4. /\ pc["ftps"] \in {0, 1, Waiting, Exited}
      /\ pc["ftps"] \in {0, 1} => owner[13000] = Nobody
      /\ pc["ftps"] = Waiting => owner[13000] = "ftps"
      /\ pc["ftps"] = Exited => got'
      /\ <<"ftps", "tcpds">> \in order /\ pc["tcpds"] # 0 => pc["ftps"] \in {Waiting, Exited}
  BY DEF FtpsFirst, ControlStep
(* Where ftps and its port stay as they are, only a start of tcpds counts. *)
<1>5. ASSUME pc'["ftps"] = pc["ftps"], owner'[13000] = owner[13000],
             <<"ftps", "tcpds">> \in order /\ pc'["tcpds"] # 0 => pc["tcpds"] # 0 \/ pc["ftps"] \in {Waiting, Exited}
      PROVE  Goal
  BY <1>4, <1>5
<1>6. ASSUME NEW p \in Programs, Start(p) PROVE Goal
  <2>1. /\ owner' = owner /\ pc[p] = 0 /\ pc' = [pc EXCEPT ![p] = 1]
        /\ p = "tcpds" /\ <<"ftps", "tcpds">> \in order => pc["ftps"] \in {Waiting, Closing, Exited}
    BY <1>6, StartIs
  <2>2. CASE p = "ftps"
    <3>1. pc'["ftps"] = 1 /\ pc'["tcpds"] = pc["tcpds"] /\ owner'[13000] = Nobody
      BY <1>1, <1>2, <1>4, <2>1, <2>2
    <3> QED BY <1>4, <2>1, <2>2, <3>1 DEF Waiting, Exited
  <2>3. CASE p # "ftps"
    <3>1. pc'["ftps"] = pc["ftps"] /\ owner'[13000] = owner[13000]
      BY <1>1, <1>2, <2>1, <2>3
    <3>2. pc'["tcpds"] = pc["tcpds"] \/ p = "tcpds"
      BY <1>1, <1>2, <2>1
    <3>3. p = "tcpds" /\ <<"ftps", "tcpds">> \in order => pc["ftps"] \in {Waiting, Exited}
      BY <1>4, <2>1 DEF Waiting, Closing, Exited
    <3> HIDE DEF Goal
    <3> QED BY <1>5, <3>1, <3>2, <3>3
  <2> QED BY <2>2, <2>3
<1>7. ASSUME NEW p \in Programs, Exit(p), p # "ftps", p = "tcpds" => pc[p] # 0 PROVE Goal
  <2>1. /\ pc' = [pc EXCEPT ![p] = Exited]
        /\ owner'[13000] = IF owner[13000] = p THEN Nobody ELSE owner[13000]
    BY <1>3, <1>7, ExitIs DEF StartupTypes
  <2>2. pc'["ftps"] = pc["ftps"] /\ (pc["tcpds"] = 0 => pc'["tcpds"] = 0)
    BY <1>1, <1>2, <1>7, <2>1
  <2>3. owner'[13000] = owner[13000]
    BY <1>3, <1>7, <2>1
  <2> HIDE DEF Goal
  <2> QED BY <1>5, <2>2, <2>3
<1>8. ASSUME Exit("ftps"), got' PROVE Goal
  <2>1. pc' = [pc EXCEPT !["ftps"] = Exited]
    BY <1>2, <1>8, ExitIs DEF StartupTypes
  <2>2. pc'["ftps"] = Exited
    BY <1>1, <1>2, <2>1
  <2> QED BY <1>8, <2>2 DEF Waiting, Exited
<1>9. ASSUME NEW p \in Programs, Bind(p) PROVE Goal
  <2>1. PICK port \in Ports :
          /\ port = 13000 <=> p = "ftps"
          /\ pc[p] \in 1..4 /\ (p # "tcpdc" => pc[p] = 1)
          /\ \/ Exit(p) /\ owner[port] # Nobody
             \/ /\ owner' = [owner EXCEPT ![port] = IF owner[port] = Nobody THEN p ELSE owner[port]]
                /\ pc' = [pc EXCEPT ![p] = IF (p = "tcpdc" /\ pc[p] # 4) \/ p \in {"tcpds", "ftpc"}
                                           THEN pc[p] + 1 ELSE Waiting]
    BY <1>9, BindIs
  <2>2. CASE p = "ftps"
    <3>1. pc["ftps"] = 1 /\ port = 13000 /\ owner[13000] = Nobody
      BY <1>4, <2>1, <2>2
    <3>2. owner' = [owner EXCEPT ![13000] = "ftps"] /\ pc' = [pc EXCEPT !["ftps"] = Waiting]
      BY <2>1, <2>2, <3>1
    <3>3. owner'[13000] = "ftps" /\ pc'["ftps"] = Waiting
      BY <1>1, <1>2, <1>3, <3>2
    <3> QED BY <3>3 DEF Waiting, Exited
  <2>3. CASE p # "ftps" /\ Exit(p)
    <3>1. pc[p] # 0
      BY <2>1
    <3> HIDE DEF Goal
    <3> QED BY <1>7, <2>3, <3>1
  <2>4. CASE p # "ftps" /\ ~ Exit(p)
    <3>1. pc'["ftps"] = pc["ftps"] /\ owner'[13000] = owner[13000]
      BY <1>1, <1>2, <1>3, <2>1, <2>4
    <3>2. pc["tcpds"] = 0 => pc'["tcpds"] = 0
      BY <1>1, <1>2, <2>1, <2>4
    <3> HIDE DEF Goal
    <3> QED BY <1>5, <3>1, <3>2
  <2> QED BY <2>2, <2>3, <2>4
<1>10. ASSUME owner' = owner,
              \/ pc["tcpds"] = 2 /\ pc' = [pc EXCEPT !["tcpds"] = Waiting]
              \/ pc["ftpc"] = 2 /\ pc' = [pc EXCEPT !["ftpc"] = Waiting]
              \/ pc["tcpdc"] = Waiting /\ pc' = [pc EXCEPT !["tcpdc"] = Closing]
              \/ pc' = pc
       PROVE  Goal
  <2>1. pc'["ftps"] = pc["ftps"] /\ owner'[13000] = owner[13000]
    BY <1>1, <1>2, <1>10
  <2>2. pc["tcpds"] = 0 => pc'["tcpds"] = 0
    BY <1>1, <1>2, <1>10
  <2> HIDE DEF Goal
  <2> QED BY <1>5, <2>1, <2>2
<1> HIDE DEF Goal
<1>11. ASSUME Exit("tcpds"), pc["tcpds"] # 0 PROVE Goal
  BY <1>2, <1>7, <1>11
<1>12. ASSUME Exit("tcpdc") PROVE Goal
  BY <1>2, <1>7, <1>12
<1>13. CASE \E p \in Programs : Start(p)
  BY <1>6, <1>13
<1>14. CASE \E p \in Programs : Bind(p)
  BY <1>9, <1>14
<1> QED BY <1>8, <1>10, <1>11, <1>12, <1>13, <1>14 DEF ControlStep

-------------------------------------------------------------------------------
(* What the other actions leave in the sockets.                            *)

Unsent == UNCHANGED <<window, resend, alarms, passed>>

(* Nothing is sent; the sockets of a program that exits are emptied.       *)
Idle ==
  /\ sock' \in [Ports -> Seq(Datagrams)]
  /\ Unsent
  /\ \A q \in Ports \ {22000} :
       sock'[q] = sock[q] \/ (sock'[q] = <<>> /\ \E p \in Programs : Exit(p) /\ owner[q] = p)

LEMMA ClosingIsIdle ==
  ASSUME StartupTypes, Unsent, NEW p \in Programs, Exit(p), sock' = Closed(p, sock)
  PROVE  Idle
<1>1. sock \in [Ports -> Seq(Datagrams)]
  BY DEF StartupTypes
<1>2. /\ sock' \in [Ports -> Seq(Datagrams)]
      /\ \A q \in Ports : sock'[q] = IF owner[q] = p THEN <<>> ELSE sock[q]
  BY <1>1, ClosedIs
<1>3. ASSUME NEW q \in Ports
      PROVE  sock'[q] = sock[q] \/ (sock'[q] = <<>> /\ \E r \in Programs : Exit(r) /\ owner[q] = r)
  <2>1. CASE owner[q] = p
    <3>1. sock'[q] = <<>>
      BY <1>2, <2>1
    <3> QED BY <2>1, <3>1, Zenon
  <2>2. CASE owner[q] # p
    BY <1>2, <2>2
  <2> QED BY <2>1, <2>2
<1> QED BY <1>2, <1>3 DEF Idle

LEMMA StayingIsIdle ==
  ASSUME StartupTypes, Unsent, sock' = sock
  PROVE  Idle
<1>1. sock' \in [Ports -> Seq(Datagrams)] /\ \A q \in Ports : sock'[q] = sock[q]
  BY DEF StartupTypes
<1> QED BY <1>1 DEF Idle

LEMMA IdleSteps ==
  ASSUME StartupTypes,
         \/ \E p \in Programs : Start(p) \/ Bind(p)
         \/ WaitTcpds \/ FtpcSignal \/ UNCHANGED vars
         \/ RecvExpiry /\ ~ UNCHANGED <<pc, owner>>
  PROVE  Idle
<1>1. ASSUME NEW p \in Programs, Start(p) PROVE Idle
  BY <1>1, StayingIsIdle DEF Start, progress, Unsent
<1>2. ASSUME NEW p \in Programs, Bind(p) PROVE Idle
  <2>1. Unsent
    BY <1>2 DEF Bind, progress, Unsent
  <2>2. (Exit(p) /\ sock' = Closed(p, sock)) \/ sock' = sock
    BY <1>2 DEF Bind
  <2> QED BY <2>1, <2>2, ClosingIsIdle, StayingIsIdle
<1>3. CASE WaitTcpds
  <2>1. Unsent
    BY <1>3 DEF WaitTcpds, progress, Unsent
  <2>2. (Exit("tcpds") /\ sock' = Closed("tcpds", sock)) \/ sock' = sock
    BY <1>3 DEF WaitTcpds
  <2>3. "tcpds" \in Programs
    BY DEF Programs
  <2> QED BY <2>1, <2>2, <2>3, ClosingIsIdle, StayingIsIdle
<1>4. CASE FtpcSignal
  <2>1. /\ sock \in [Ports -> Seq(Datagrams)] /\ sock[22000] # <<>> /\ sock' = Read(22000)
        /\ Unsent
    BY <1>4 DEF FtpcSignal, Arrived, Unsent, StartupTypes
  <2>2. 22000 \in Ports
    BY PortsIn
  <2>3. /\ sock' \in [Ports -> Seq(Datagrams)]
        /\ \A q \in Ports : q # 22000 => sock'[q] = sock[q]
    BY <2>1, <2>2, ReadIs
  <2>4. \A q \in Ports \ {22000} : sock'[q] = sock[q]
    BY <2>3
  <2> QED BY <2>1, <2>3, <2>4 DEF Idle
<1>5. CASE UNCHANGED vars
  BY <1>5, StayingIsIdle DEF vars, Unsent
<1>6. CASE RecvExpiry /\ ~ UNCHANGED <<pc, owner>>
  <2>1. Exit("tcpdc") /\ sock' = Closed("tcpdc", sock) /\ Unsent
    BY <1>6 DEF RecvExpiry, Unsent
  <2>2. "tcpdc" \in Programs
    BY DEF Programs
  <2> QED BY <2>1, <2>2, ClosingIsIdle
<1> QED BY <1>1, <1>2, <1>3, <1>4, <1>5, <1>6

LEMMA SendHeaderSends ==
  ASSUME StartupTypes, SendHeader
  PROVE  /\ sock' \in [Ports -> Seq(Datagrams)] /\ Unsent /\ got' = got
         /\ pc["ftpc"] = 2 /\ pc' = [pc EXCEPT !["ftpc"] = Waiting]
         /\ \A q \in Ports \ {9005} : sock'[q] = sock[q]
         /\ sock'[9005] \in {sock[9005], Append(sock[9005], "header")}
<1>1. /\ sock \in [Ports -> Seq(Datagrams)] /\ sock' = Sent(sock, 9005, "header")
      /\ Unsent /\ got' = got /\ pc["ftpc"] = 2 /\ pc' = [pc EXCEPT !["ftpc"] = Waiting]
  BY BindsAre DEF SendHeader, progress, Unsent, StartupTypes, Bound
<1>2. 9005 \in Ports
  BY PortsIn
<1>3. "header" \in Datagrams
  BY DatagramsIn
<1>4. /\ sock' \in [Ports -> Seq(Datagrams)]
      /\ \A q \in Ports : q # 9005 => sock'[q] = sock[q]
  BY <1>1, <1>2, <1>3, SentIs
<1>5. sock'[9005] \in {sock[9005], Append(sock[9005], "header")}
  BY <1>1, <1>2, <1>3, SentIs
<1> QED BY <1>1, <1>4, <1>5

LEMMA TimerMessageSends ==
  ASSUME StartupTypes, TimerMessage
  PROVE  /\ sock' \in [Ports -> Seq(Datagrams)]
         /\ sock[21000] # <<>> /\ sock'[21000] = Tail(sock[21000])
         /\ \A q \in Ports \ {21000} : sock'[q] = sock[q]
<1>1. sock \in [Ports -> Seq(Datagrams)] /\ sock[21000] # <<>> /\ sock' = Read(21000)
  BY DEF TimerMessage, Arrived, StartupTypes
<1>2. 21000 \in Ports
  BY PortsIn
<1>3. /\ sock' \in [Ports -> Seq(Datagrams)]
      /\ \A q \in Ports : q # 21000 => sock'[q] = sock[q]
      /\ sock'[21000] = Tail(sock[21000])
  BY <1>1, <1>2, ReadIs
<1> QED BY <1>1, <1>3

LEMMA TimerTickSends ==
  ASSUME StartupTypes, TimerTick
  PROVE  /\ sock' \in [Ports -> Seq(Datagrams)]
         /\ \A q \in Ports \ {20000} : sock'[q] = sock[q]
         /\ owner[20000] # Nobody => sock'[20000] # <<>>
<1>1. sock \in [Ports -> Seq(Datagrams)] /\ sock' = Sent(sock, 20000, "expiry")
  BY DEF TimerTick, StartupTypes
<1>2. 20000 \in Ports
  BY PortsIn
<1>3. "expiry" \in Datagrams
  BY DatagramsIn
<1>4. /\ sock' \in [Ports -> Seq(Datagrams)]
      /\ \A q \in Ports : q # 20000 => sock'[q] = sock[q]
  BY <1>1, <1>2, <1>3, SentIs
<1>5. owner[20000] # Nobody => sock'[20000] = Append(sock[20000], "expiry")
  BY <1>1, <1>2, <1>3, SentIs
<1>6. Append(sock[20000], "expiry") # <<>>
  BY <1>1, <1>2, <1>3, AppendProperties
<1> QED BY <1>4, <1>5, <1>6

LEMMA ForwardSends ==
  ASSUME StartupTypes, NEW t, NEW from \in Ports, NEW to \in Ports, from # to, Forward(t, from, to)
  PROVE  /\ sock' \in [Ports -> Seq(Datagrams)] /\ Unsent
         /\ sock[from] # <<>>
         /\ \A q \in Ports \ {from, to} : sock'[q] = sock[q]
<1> DEFINE s == Read(from)
<1>1. /\ sock \in [Ports -> Seq(Datagrams)] /\ sock[from] # <<>> /\ Unsent
      /\ sock' = Sent(s, to, Head(sock[from]))
  BY DEF Forward, Arrived, StartupTypes, progress, Unsent
<1>2. /\ s \in [Ports -> Seq(Datagrams)]
      /\ \A q \in Ports : q # from => s[q] = sock[q]
      /\ Head(sock[from]) \in Datagrams
  BY <1>1, ReadIs
<1> HIDE DEF s
<1>3. /\ sock' \in [Ports -> Seq(Datagrams)]
      /\ \A q \in Ports : q # to => sock'[q] = s[q]
  BY <1>1, <1>2, SentIs
<1> QED BY <1>1, <1>2, <1>3

LEMMA ClientTrollSends ==
  ASSUME StartupTypes, Forward("tc", 11000, 12000)
  PROVE  /\ sock' \in [Ports -> Seq(Datagrams)] /\ Unsent
         /\ sock[11000] # <<>>
         /\ \A q \in Ports \ {11000, 12000} : sock'[q] = sock[q]
<1>1. 11000 \in Ports /\ 12000 \in Ports
  BY PortsIn
<1> DEFINE a == 11000  b == 12000  t == "tc"
<1>2. a \in Ports /\ b \in Ports /\ a # b /\ Forward(t, a, b)
  BY <1>1
<1> HIDE DEF a, b, t
<1>3. /\ sock' \in [Ports -> Seq(Datagrams)] /\ Unsent
      /\ sock[a] # <<>>
      /\ \A q \in Ports \ {a, b} : sock'[q] = sock[q]
  BY <1>2, ForwardSends
<1> QED BY <1>3 DEF a, b

LEMMA ServerTrollSends ==
  ASSUME StartupTypes, Forward("ts", 25000, 14000)
  PROVE  /\ sock' \in [Ports -> Seq(Datagrams)] /\ Unsent
         /\ sock[25000] # <<>>
         /\ \A q \in Ports \ {25000, 14000} : sock'[q] = sock[q]
<1>1. 25000 \in Ports /\ 14000 \in Ports
  BY PortsIn
<1> DEFINE a == 25000  b == 14000  t == "ts"
<1>2. a \in Ports /\ b \in Ports /\ a # b /\ Forward(t, a, b)
  BY <1>1
<1> HIDE DEF a, b, t
<1>3. /\ sock' \in [Ports -> Seq(Datagrams)] /\ Unsent
      /\ sock[a] # <<>>
      /\ \A q \in Ports \ {a, b} : sock'[q] = sock[q]
  BY <1>2, ForwardSends
<1> QED BY <1>3 DEF a, b

LEMMA FtpsWriteSends ==
  ASSUME StartupTypes, FtpsWrite
  PROVE  /\ sock' \in [Ports -> Seq(Datagrams)] /\ Unsent /\ got'
         /\ \A q \in Ports \ {13000} :
              sock'[q] \in {sock[q], <<>>} /\ (owner[q] # "ftps" => sock'[q] = sock[q])
<1>1. sock \in [Ports -> Seq(Datagrams)] /\ sock[13000] # <<>> /\ Unsent /\ got'
  BY DEF FtpsWrite, Arrived, Unsent, StartupTypes
<1>2. sock' = Closed("ftps", sock) \/ sock' = Read(13000)
  BY DEF FtpsWrite
<1>3. 13000 \in Ports
  BY PortsIn
<1>4. CASE sock' = Closed("ftps", sock)
  BY <1>1, <1>4, ClosedIs
<1>5. CASE sock' = Read(13000)
  BY <1>1, <1>3, <1>5, ReadIs
<1> QED BY <1>2, <1>4, <1>5

LEMMA RecvFinAckSends ==
  ASSUME StartupTypes, RecvFinAck
  PROVE  /\ sock' \in [Ports -> Seq(Datagrams)] /\ Unsent
         /\ sock[14000] # <<>>
         /\ \A q \in Ports \ {14000} : sock'[q] = sock[q]
<1>1. sock \in [Ports -> Seq(Datagrams)] /\ sock[14000] # <<>> /\ sock' = Read(14000) /\ Unsent
  BY DEF RecvFinAck, Arrived, StartupTypes, progress, Unsent
<1>2. 14000 \in Ports
  BY PortsIn
<1>3. /\ sock' \in [Ports -> Seq(Datagrams)]
      /\ \A q \in Ports : q # 14000 => sock'[q] = sock[q]
  BY <1>1, <1>2, ReadIs
<1> QED BY <1>1, <1>3

-------------------------------------------------------------------------------
(* What no program's course goes back on.                                  *)

LEMMA FtpcOn ==
  ASSUME StartupTypes, ControlStep, pc'["ftpc"] \in {0, 1, 2}
  PROVE  pc["ftpc"] \in {0, 1, 2}
<1>1. pc \in [Programs -> 0..5 \cup {Waiting, Closing, Exited}]
  BY DEF StartupTypes, TypeOK
<1>2. "tcpds" \in Programs /\ "tcpdc" \in Programs /\ "ftps" \in Programs /\ "ftpc" \in Programs
  BY DEF Programs
<1> DEFINE Goal == pc["ftpc"] \in {0, 1, 2}
<1>3. ASSUME NEW p \in Programs, Start(p) PROVE Goal
  <2>1. pc[p] = 0 /\ pc' = [pc EXCEPT ![p] = 1]
    BY <1>3, StartIs
  <2> QED BY <1>1, <1>2, <2>1
<1>4. ASSUME NEW p \in Programs, Exit(p) PROVE Goal
  <2>1. pc' = [pc EXCEPT ![p] = Exited]
    BY <1>4, ExitIs DEF StartupTypes
  <2> QED BY <1>1, <1>2, <2>1 DEF Exited
<1>5. ASSUME NEW p \in Programs, Bind(p) PROVE Goal
  <2>1. PICK port \in Ports :
          /\ pc[p] \in 1..4 /\ (p # "tcpdc" => pc[p] = 1)
          /\ \/ Exit(p)
             \/ pc' = [pc EXCEPT ![p] = IF (p = "tcpdc" /\ pc[p] # 4) \/ p \in {"tcpds", "ftpc"}
                                        THEN pc[p] + 1 ELSE Waiting]
    BY <1>5, BindIs
  <2>2. CASE Exit(p)
    BY <1>4, <2>2
  <2>3. CASE ~ Exit(p)
    BY <1>1, <1>2, <2>1, <2>3
  <2> QED BY <2>2, <2>3
<1>6. ASSUME \/ pc["tcpds"] = 2 /\ pc' = [pc EXCEPT !["tcpds"] = Waiting]
             \/ pc["ftpc"] = 2 /\ pc' = [pc EXCEPT !["ftpc"] = Waiting]
             \/ pc["tcpdc"] = Waiting /\ pc' = [pc EXCEPT !["tcpdc"] = Closing]
             \/ pc' = pc
      PROVE  Goal
  BY <1>1, <1>2, <1>6
<1> HIDE DEF Goal
<1>7. ASSUME Exit("tcpds") \/ Exit("tcpdc") \/ Exit("ftps") PROVE Goal
  BY <1>2, <1>4, <1>7
<1>8. Goal
  <2>1. CASE \E p \in Programs : Start(p)
    BY <1>3, <2>1
  <2>2. CASE \E p \in Programs : Bind(p)
    BY <1>5, <2>2
  <2> QED BY <1>6, <1>7, <2>1, <2>2 DEF ControlStep
<1> QED BY <1>8 DEF Goal

LEMMA TcpdcOn ==
  ASSUME StartupTypes, ControlStep, pc["tcpdc"] \in {Waiting, Closing, Exited}
  PROVE  /\ pc'["tcpdc"] \in {Waiting, Closing, Exited}
         /\ pc'["tcpdc"] = Waiting => pc["tcpdc"] = Waiting
<1>1. pc \in [Programs -> 0..5 \cup {Waiting, Closing, Exited}]
  BY DEF StartupTypes, TypeOK
<1>2. "tcpds" \in Programs /\ "tcpdc" \in Programs /\ "ftps" \in Programs /\ "ftpc" \in Programs
  BY DEF Programs
<1> DEFINE Goal == /\ pc'["tcpdc"] \in {Waiting, Closing, Exited}
                   /\ pc'["tcpdc"] = Waiting => pc["tcpdc"] = Waiting
<1> SUFFICES Goal
  OBVIOUS
<1>3. ASSUME NEW p \in Programs, Start(p) PROVE Goal
  <2>1. pc[p] = 0 /\ pc' = [pc EXCEPT ![p] = 1]
    BY <1>3, StartIs
  <2>2. p # "tcpdc"
    BY <2>1 DEF Waiting, Closing, Exited
  <2> QED BY <1>1, <1>2, <2>1, <2>2
<1>4. ASSUME NEW p \in Programs, Exit(p) PROVE Goal
  <2>1. pc' = [pc EXCEPT ![p] = Exited]
    BY <1>4, ExitIs DEF StartupTypes
  <2>2. pc'["tcpdc"] = pc["tcpdc"] \/ pc'["tcpdc"] = Exited
    BY <1>1, <1>2, <2>1
  <2> QED BY <2>2 DEF Waiting, Exited
<1>5. ASSUME NEW p \in Programs, Bind(p) PROVE Goal
  <2>1. PICK port \in Ports :
          /\ pc[p] \in 1..4
          /\ \/ Exit(p)
             \/ pc' = [pc EXCEPT ![p] = IF (p = "tcpdc" /\ pc[p] # 4) \/ p \in {"tcpds", "ftpc"}
                                        THEN pc[p] + 1 ELSE Waiting]
    BY <1>5, BindIs
  <2>2. CASE Exit(p)
    BY <1>4, <2>2
  <2>3. CASE ~ Exit(p)
    <3>1. p # "tcpdc"
      BY <2>1 DEF Waiting, Closing, Exited
    <3>2. pc'["tcpdc"] = pc["tcpdc"]
      BY <1>1, <1>2, <2>1, <2>3, <3>1
    <3> QED BY <3>2
  <2> QED BY <2>2, <2>3
<1>6. ASSUME \/ pc["tcpds"] = 2 /\ pc' = [pc EXCEPT !["tcpds"] = Waiting]
             \/ pc["ftpc"] = 2 /\ pc' = [pc EXCEPT !["ftpc"] = Waiting]
             \/ pc["tcpdc"] = Waiting /\ pc' = [pc EXCEPT !["tcpdc"] = Closing]
             \/ pc' = pc
      PROVE  Goal
  <2>1. pc'["tcpdc"] = pc["tcpdc"] \/ pc'["tcpdc"] = Closing
    BY <1>1, <1>2, <1>6
  <2> QED BY <2>1 DEF Waiting, Closing
<1> HIDE DEF Goal
<1>7. ASSUME Exit("tcpds") \/ Exit("tcpdc") \/ Exit("ftps") PROVE Goal
  BY <1>2, <1>4, <1>7
<1>8. CASE \E p \in Programs : Start(p)
  BY <1>3, <1>8
<1>9. CASE \E p \in Programs : Bind(p)
  BY <1>5, <1>9
<1> QED BY <1>6, <1>7, <1>8, <1>9 DEF ControlStep

-------------------------------------------------------------------------------
(* The parts of the invariant about the datagrams.                         *)

(* The steps, as the invariants below tell them apart. *)
LEMMA StepCases ==
  ASSUME StartupTypes, [Next]_vars
  PROVE  \/ Idle /\ got' = got
         \/ SendHeader \/ RecvLocal \/ RecvAck \/ RecvFinAck \/ RecvFinAgain
         \/ RecvExpiry /\ UNCHANGED <<pc, owner>>
         \/ TimerMessage \/ TimerTick \/ RecvPacket \/ FtpsWrite
         \/ Forward("tc", 11000, 12000) \/ Forward("ts", 25000, 14000)
<1>1. ASSUME \/ \E p \in Programs : Start(p) \/ Bind(p)
             \/ WaitTcpds \/ FtpcSignal \/ UNCHANGED vars
             \/ RecvExpiry /\ ~ UNCHANGED <<pc, owner>>
      PROVE  Idle /\ got' = got
  <2>1. Idle
    BY <1>1, IdleSteps
  <2>2. got' = got
    BY <1>1 DEF Start, Bind, WaitTcpds, FtpcSignal, RecvExpiry, progress, vars
  <2> QED BY <2>1, <2>2
<1> QED BY <1>1 DEF Next, Operator, Opening, Daemons

LEMMA AcksStayPassed ==
  ASSUME StartupTypes, AcksPassed, [Next]_vars
  PROVE  AcksPassed'
<1>1. 14000 \in Ports /\ 25000 \in Ports /\ 11000 \in Ports /\ 12000 \in Ports
  BY PortsIn
<1>2. ASSUME sock'[14000] \in {sock[14000], <<>>} \/ sock[14000] # <<>>,
             sock'[25000] \in {sock[25000], <<>>},
             passed' = passed
      PROVE  AcksPassed'
  BY <1>2 DEF AcksPassed
<1>3. CASE Idle
  BY <1>1, <1>2, <1>3 DEF Idle, Unsent
<1>4. CASE SendHeader
  BY <1>1, <1>2, <1>4, SendHeaderSends DEF Unsent
<1>5. CASE RecvLocal
  <2>1. passed' = passed
    BY <1>5 DEF RecvLocal
  <2>2. \A q \in {14000, 25000} : q \in Ports \ {9005, 11000, 21000, 22000}
    BY <1>1
  <2>3. \A q \in {14000, 25000} : sock'[q] = sock[q]
    BY <1>5, <2>2, RecvLocalSends
  <2> QED BY <1>2, <2>1, <2>3
<1>6. CASE RecvAck
  <2>1. passed' = passed
    BY <1>6 DEF RecvAck
  <2>2. 25000 \in Ports \ {14000, 21000, 22000}
    BY <1>1
  <2>3. sock[14000] # <<>> /\ sock'[25000] = sock[25000]
    BY <1>6, <2>2, RecvAckSends
  <2> QED BY <1>2, <2>1, <2>3
<1>7. CASE RecvFinAck
  BY <1>1, <1>2, <1>7, RecvFinAckSends DEF Unsent
<1>8. CASE RecvFinAgain
  <2>1. passed' = passed
    BY <1>8 DEF RecvFinAgain, progress
  <2>2. sock[14000] # <<>>
    BY <1>8, RecvFinAgainSends
  <2>3. sock'[25000] \in {sock[25000], <<>>}
    <3>1. 25000 \in Ports \ {21000, 22000}
      BY <1>1
    <3>2. sock'[25000] = IF owner[25000] = "tcpdc" THEN <<>> ELSE sock[25000]
      BY <1>8, <3>1, RecvFinAgainSends
    <3> QED BY <3>2
  <2> QED BY <1>2, <2>1, <2>2, <2>3
<1>9. CASE RecvExpiry /\ UNCHANGED <<pc, owner>>
  <2>1. passed' = passed
    BY <1>9 DEF RecvExpiry
  <2>2. 14000 \in Ports \ {20000, 11000, 21000} /\ 25000 \in Ports \ {20000, 11000, 21000}
    BY <1>1
  <2>3. sock'[14000] = sock[14000] /\ sock'[25000] = sock[25000]
    <3>1. \A q \in Ports \ {20000, 11000, 21000} : sock'[q] = sock[q]
      BY <1>9, RecvExpirySends
    <3> QED BY <2>2, <3>1
  <2> QED BY <1>2, <2>1, <2>3
<1>10. CASE TimerMessage
  <2>1. passed' = passed
    BY <1>10 DEF TimerMessage
  <2>2. 14000 \in Ports \ {21000} /\ 25000 \in Ports \ {21000}
    BY <1>1
  <2>3. sock'[14000] = sock[14000] /\ sock'[25000] = sock[25000]
    BY <1>10, <2>2, TimerMessageSends
  <2> QED BY <1>2, <2>1, <2>3
<1>11. CASE TimerTick
  <2>1. passed' = passed
    BY <1>11 DEF TimerTick
  <2>2. 14000 \in Ports \ {20000} /\ 25000 \in Ports \ {20000}
    BY <1>1
  <2>3. sock'[14000] = sock[14000] /\ sock'[25000] = sock[25000]
    BY <1>11, <2>2, TimerTickSends
  <2> QED BY <1>2, <2>1, <2>3
<1>12. CASE RecvPacket
  BY <1>12 DEF RecvPacket, AcksPassed
<1>13. CASE FtpsWrite
  BY <1>1, <1>2, <1>13, FtpsWriteSends DEF Unsent
<1>14. CASE Forward("tc", 11000, 12000)
  <2>1. 14000 \in Ports \ {11000, 12000} /\ 25000 \in Ports \ {11000, 12000}
    BY <1>1
  <2>2. sock'[14000] = sock[14000] /\ sock'[25000] = sock[25000]
    BY <1>14, <2>1, ClientTrollSends
  <2>3. passed' = passed
    BY <1>14, ClientTrollSends DEF Unsent
  <2> QED BY <1>2, <2>2, <2>3
<1>15. CASE Forward("ts", 25000, 14000)
  <2>1. sock[25000] # <<>> /\ Unsent
    BY <1>15, ServerTrollSends
  <2> QED BY <2>1 DEF Unsent, AcksPassed
<1> QED BY <1>3, <1>4, <1>5, <1>6, <1>7, <1>8, <1>9, <1>10, <1>11, <1>12, <1>13, <1>14, <1>15, StepCases

LEMMA PassedStaysOn ==
  ASSUME StartupTypes, OwnPorts, FtpsFirst, FtpsFirst', PassedOn, ControlStep, [Next]_vars
  PROVE  PassedOn'
<1>1. 13000 \in Ports /\ owner[13000] \in {Nobody, "ftps"}
  BY PortsIn DEF OwnPorts
<1>2. ASSUME passed' = passed, sock'[13000] = sock[13000] \/ got'
      PROVE  PassedOn'
  BY <1>2 DEF PassedOn, ControlStep
<1>3. CASE Idle
  <2>1. ASSUME NEW p \in Programs, Exit(p), owner[13000] = p PROVE got'
    <3>1. p = "ftps"
      BY <1>1, <2>1 DEF Nobody, Programs
    <3>2. pc' = [pc EXCEPT !["ftps"] = Exited] /\ pc'["ftps"] = Exited
      <4>1. pc' = [pc EXCEPT !["ftps"] = Exited] /\ "ftps" \in Programs
        BY <2>1, <3>1, ExitIs DEF StartupTypes
      <4>2. pc \in [Programs -> 0..5 \cup {Waiting, Closing, Exited}]
        BY DEF StartupTypes, TypeOK
      <4> QED BY <4>1, <4>2
    <3> QED BY <3>2 DEF FtpsFirst
  <2>2. sock'[13000] = sock[13000] \/ got'
    BY <1>1, <1>3, <2>1 DEF Idle
  <2>3. passed' = passed
    BY <1>3 DEF Idle, Unsent
  <2> QED BY <1>2, <2>2, <2>3
<1>4. CASE SendHeader
  BY <1>1, <1>2, <1>4, SendHeaderSends DEF Unsent
<1>5. CASE RecvLocal
  <2>1. passed' = passed
    BY <1>5 DEF RecvLocal
  <2>2. sock'[13000] = sock[13000]
    BY <1>1, <1>5, RecvLocalSends
  <2> QED BY <1>2, <2>1, <2>2
<1>6. CASE RecvAck
  <2>1. passed' = passed
    BY <1>6 DEF RecvAck
  <2>2. sock'[13000] = sock[13000]
    BY <1>1, <1>6, RecvAckSends
  <2> QED BY <1>2, <2>1, <2>2
<1>7. CASE RecvFinAck
  BY <1>1, <1>2, <1>7, RecvFinAckSends DEF Unsent
<1>8. CASE RecvFinAgain
  <2>1. passed' = passed
    BY <1>8 DEF RecvFinAgain, progress
  <2>2. owner[13000] # "tcpdc"
    BY <1>1 DEF Nobody
  <2>3. sock'[13000] = sock[13000]
    BY <1>1, <1>8, <2>2, RecvFinAgainSends
  <2> QED BY <1>2, <2>1, <2>3
<1>9. CASE RecvExpiry /\ UNCHANGED <<pc, owner>>
  <2>1. passed' = passed
    BY <1>9 DEF RecvExpiry
  <2>2. sock'[13000] = sock[13000]
    <3>1. \A q \in Ports \ {20000, 11000, 21000} : sock'[q] = sock[q]
      BY <1>9, RecvExpirySends
    <3>2. 13000 \in Ports \ {20000, 11000, 21000}
      BY <1>1
    <3> QED BY <3>1, <3>2
  <2> QED BY <1>2, <2>1, <2>2
<1>10. CASE TimerMessage
  <2>1. passed' = passed
    BY <1>10 DEF TimerMessage
  <2>2. sock'[13000] = sock[13000]
    BY <1>1, <1>10, TimerMessageSends
  <2> QED BY <1>2, <2>1, <2>2
<1>11. CASE TimerTick
  <2>1. passed' = passed
    BY <1>11 DEF TimerTick
  <2>2. sock'[13000] = sock[13000]
    BY <1>1, <1>11, TimerTickSends
  <2> QED BY <1>2, <2>1, <2>2
<1>12. CASE RecvPacket
  <2> SUFFICES ASSUME <<"ftps", "tcpds">> \in order PROVE PassedOn'
    BY DEF PassedOn, ControlStep
  <2>1. pc["tcpds"] # 0
    BY <1>12 DEF RecvPacket, Arrived, Waiting
  <2>2. pc["ftps"] \in {Waiting, Exited} /\ (pc["ftps"] = Exited => got)
    BY <2>1 DEF FtpsFirst
  <2>3. CASE pc["ftps"] = Exited
    BY <2>2, <2>3 DEF ControlStep, PassedOn
  <2>4. CASE pc["ftps"] = Waiting
    <3>1. owner[13000] = "ftps"
      BY <2>4 DEF FtpsFirst
    <3>2. sock[13000] # <<>> \/ ~ passed => sock'[13000] # <<>>
      BY <1>12, <3>1, RecvPacketSends
    <3> QED BY <3>2 DEF PassedOn, ControlStep
  <2> QED BY <2>2, <2>3, <2>4
<1>13. CASE FtpsWrite
  BY <1>2, <1>13, FtpsWriteSends DEF Unsent
<1>14. CASE Forward("tc", 11000, 12000)
  BY <1>1, <1>2, <1>14, ClientTrollSends DEF Unsent
<1>15. CASE Forward("ts", 25000, 14000)
  BY <1>1, <1>2, <1>15, ServerTrollSends DEF Unsent
<1> QED BY <1>3, <1>4, <1>5, <1>6, <1>7, <1>8, <1>9, <1>10, <1>11, <1>12, <1>13, <1>14, <1>15, StepCases

LEMMA HeaderStaysOnce ==
  ASSUME StartupTypes, HeaderOnce, ControlStep, [Next]_vars
  PROVE  HeaderOnce'
<1> DEFINE Q == {11000, 12000, 14000, 20000, 21000, 25000}
<1>1. /\ 9005 \in Ports /\ Q \subseteq Ports \ {9005, 22000, 13000}
      /\ sock[9005] \in Seq(Datagrams)
  <2>1. Q \subseteq Ports
    BY PortsIn
  <2>2. 9005 \in Ports
    BY PortsIn
  <2>3. sock[9005] \in Seq(Datagrams)
    BY <2>2 DEF StartupTypes
  <2> QED BY <2>1, <2>2, <2>3
<1>2. \A q \in Q : q \in Ports /\ q # 9005 /\ q # 22000 /\ q # 13000
  BY <1>1
<1>q. Quiet <=> ~ window /\ alarms = 0 /\ \A q \in Q : sock[q] = <<>>
  BY DEF Quiet
<1>r. Quiet' <=> ~ window' /\ alarms' = 0 /\ \A q \in Q : sock'[q] = <<>>
  BY DEF Quiet
<1>m. Q = {11000, 12000, 14000, 20000, 21000, 25000}
  OBVIOUS
<1> HIDE DEF Q
<1>3. /\ pc["ftpc"] \in {0, 1, 2} => sock[9005] = <<>>
      /\ Len(sock[9005]) <= 1
      /\ pc'["ftpc"] \in {0, 1, 2} => pc["ftpc"] \in {0, 1, 2}
  BY FtpcOn DEF HeaderOnce
(* The header is still to come, and nothing is sent. *)
<1>4. ASSUME UNCHANGED <<window, resend, alarms>>, sock'[9005] \in {sock[9005], <<>>},
             \A q \in Q : sock'[q] \in {sock[q], <<>>}
      PROVE  HeaderOnce'
  <2>1. Quiet => Quiet'
    BY <1>4, <1>q, <1>r
  <2>2. sock'[9005] # <<>> => sock'[9005] = sock[9005]
    BY <1>4
  <2>3. Pending' => Pending
    BY <1>3, <2>2 DEF Pending
  <2>4. Len(sock'[9005]) <= 1
    <3>1. CASE sock'[9005] = <<>>
      BY <3>1
    <3>2. CASE sock'[9005] # <<>>
      BY <1>3, <2>2, <3>2
    <3> QED BY <3>1, <3>2
  <2>5. pc'["ftpc"] \in {0, 1, 2} => sock'[9005] = <<>>
    BY <1>3, <1>4
  <2> QED BY <2>1, <2>3, <2>4, <2>5 DEF HeaderOnce
(* The header was read or lost before. *)
<1>5. ASSUME ~ Quiet, sock'[9005] \in {sock[9005], <<>>}
      PROVE  HeaderOnce'
  <2>1. pc["ftpc"] \notin {0, 1, 2} /\ sock[9005] = <<>>
    BY <1>5 DEF HeaderOnce, Pending
  <2>2. pc'["ftpc"] \notin {0, 1, 2} /\ sock'[9005] = <<>>
    BY <1>3, <1>5, <2>1
  <2>3. Len(sock'[9005]) <= 1
    BY <2>2
  <2> QED BY <2>2, <2>3 DEF HeaderOnce, Pending
<1>6. ASSUME NEW q \in Q, sock[q] # <<>>, sock'[9005] \in {sock[9005], <<>>}
      PROVE  HeaderOnce'
  BY <1>5, <1>6, <1>q
<1>7. CASE Idle
  <2>1. \A q \in Ports \ {22000} : sock'[q] \in {sock[q], <<>>}
    BY <1>7 DEF Idle
  <2>2. UNCHANGED <<window, resend, alarms>>
    BY <1>7 DEF Idle, Unsent
  <2>3. 9005 \in Ports \ {22000}
    BY <1>1
  <2> QED BY <1>2, <1>4, <2>1, <2>2, <2>3
<1>8. CASE SendHeader
  <2>1. /\ pc["ftpc"] = 2 /\ pc' = [pc EXCEPT !["ftpc"] = Waiting]
        /\ pc \in [Programs -> 0..5 \cup {Waiting, Closing, Exited}] /\ "ftpc" \in Programs
    BY <1>8, SendHeaderSends DEF StartupTypes, TypeOK, Programs
  <2>2. pc'["ftpc"] \notin {0, 1, 2}
    BY <2>1 DEF Waiting
  <2>3. sock[9005] = <<>> /\ Quiet
    BY <1>3, <2>1 DEF HeaderOnce, Pending
  <2>4. UNCHANGED <<window, resend, alarms>>
    BY <1>8, SendHeaderSends DEF Unsent
  <2>5. \A q \in Q : sock'[q] = sock[q]
    BY <1>2, <1>8, SendHeaderSends
  <2>6. Quiet'
    BY <1>q, <1>r, <2>3, <2>4, <2>5
  <2>7. sock'[9005] = <<>> \/ sock'[9005] = Append(<<>>, "header")
    BY <1>8, <2>3, SendHeaderSends
  <2>8. Len(sock'[9005]) <= 1
    <3>1. Len(<<>>) = 0 /\ Len(Append(<<>>, "header")) = 1
      OBVIOUS
    <3>2. CASE sock'[9005] = <<>>
      BY <3>1, <3>2
    <3>3. CASE sock'[9005] = Append(<<>>, "header")
      BY <3>1, <3>3
    <3> QED BY <2>7, <3>2, <3>3
  <2> QED BY <2>2, <2>6, <2>8 DEF HeaderOnce
<1>9. CASE RecvLocal
  <2>1. sock[9005] # <<>> /\ sock'[9005] = Tail(sock[9005])
    BY <1>9, RecvLocalSends
  <2>2. Len(sock'[9005]) = 0 /\ sock'[9005] = <<>>
    <3> DEFINE s == sock[9005]  t == Tail(sock[9005])
    <3>0. s \in Seq(Datagrams) /\ s # <<>> /\ Len(s) <= 1
      BY <1>1, <1>3, <2>1
    <3>1. t \in Seq(Datagrams) /\ Len(t) = Len(s) - 1
      BY <3>0, HeadTailProperties
    <3> HIDE DEF s, t
    <3>2. Len(s) \in Nat /\ Len(t) \in Nat
      BY <3>0, <3>1, LenProperties
    <3>3. Len(t) = 0
      BY <3>0, <3>1, <3>2
    <3>4. t = <<>>
      BY <3>1, <3>3, EmptySeq
    <3> USE DEF t
    <3> QED BY <2>1, <3>3, <3>4
  <2>3. pc'["ftpc"] \notin {0, 1, 2}
    BY <1>3, <2>1
  <2> QED BY <2>2, <2>3 DEF HeaderOnce, Pending
<1>10. CASE RecvAck
  <2>1. 9005 \in Ports \ {14000, 21000, 22000}
    BY <1>1
  <2>2. sock[14000] # <<>> /\ sock'[9005] = sock[9005]
    BY <1>10, <2>1, RecvAckSends
  <2> QED BY <1>6, <1>m, <2>2
<1>11. CASE RecvFinAck
  <2>1. 9005 \in Ports \ {14000}
    BY <1>1
  <2>2. sock[14000] # <<>> /\ sock'[9005] = sock[9005]
    BY <1>11, <2>1, RecvFinAckSends
  <2> QED BY <1>6, <1>m, <2>2
<1>12. CASE RecvFinAgain
  <2>1. 9005 \in Ports \ {21000, 22000}
    BY <1>1
  <2>2. sock[14000] # <<>> /\ sock'[9005] = IF owner[9005] = "tcpdc" THEN <<>> ELSE sock[9005]
    BY <1>12, <2>1, RecvFinAgainSends
  <2>3. sock'[9005] \in {sock[9005], <<>>}
    BY <2>2
  <2> QED BY <1>6, <1>m, <2>2, <2>3
<1>13. CASE RecvExpiry /\ UNCHANGED <<pc, owner>>
  <2>1. 9005 \in Ports \ {20000, 11000, 21000}
    BY <1>1
  <2>2. sock[20000] # <<>> /\ sock'[9005] = sock[9005]
    BY <1>13, <2>1, RecvExpirySends
  <2> QED BY <1>6, <1>m, <2>2
<1>14. CASE TimerMessage
  <2>1. 9005 \in Ports \ {21000}
    BY <1>1
  <2>2. sock[21000] # <<>> /\ sock'[9005] = sock[9005]
    BY <1>14, <2>1, TimerMessageSends
  <2> QED BY <1>6, <1>m, <2>2
<1>15. CASE TimerTick
  <2>1. 9005 \in Ports \ {20000}
    BY <1>1
  <2>2. sock'[9005] = sock[9005]
    BY <1>15, <2>1, TimerTickSends
  <2>3. alarms # 0
    BY <1>15 DEF TimerTick
  <2> QED BY <1>5, <1>q, <2>2, <2>3
<1>16. CASE RecvPacket
  <2>1. 9005 \in Ports \ {12000, 13000, 25000}
    BY <1>1
  <2>2. sock[12000] # <<>> /\ sock'[9005] \in {sock[9005], <<>>}
    BY <1>16, <2>1, RecvPacketSends
  <2> QED BY <1>6, <1>m, <2>2
<1>17. CASE FtpsWrite
  <2>1. 9005 \in Ports \ {13000} /\ \A q \in Q : q \in Ports \ {13000}
    BY <1>1
  <2>2. \A q \in Ports \ {13000} : sock'[q] \in {sock[q], <<>>}
    BY <1>17, FtpsWriteSends
  <2>3. UNCHANGED <<window, resend, alarms>>
    BY <1>17, FtpsWriteSends DEF Unsent
  <2> QED BY <1>4, <2>1, <2>2, <2>3
<1>18. CASE Forward("tc", 11000, 12000)
  <2>1. 9005 \in Ports \ {11000, 12000}
    BY <1>1
  <2>2. sock[11000] # <<>> /\ sock'[9005] = sock[9005]
    BY <1>18, <2>1, ClientTrollSends
  <2> QED BY <1>6, <1>m, <2>2
<1>19. CASE Forward("ts", 25000, 14000)
  <2>1. 9005 \in Ports \ {25000, 14000}
    BY <1>1
  <2>2. sock[25000] # <<>> /\ sock'[9005] = sock[9005]
    BY <1>19, <2>1, ServerTrollSends
  <2> QED BY <1>6, <1>m, <2>2
<1> QED BY <1>7, <1>8, <1>9, <1>10, <1>11, <1>12, <1>13, <1>14, <1>15, <1>16, <1>17, <1>18, <1>19, StepCases

(* tcpdc alone changes whether the header waits for its acknowledgement. *)
LEMMA WindowChanges ==
  ASSUME StartupTypes, [Next]_vars
  PROVE  window' = window \/ RecvLocal \/ RecvAck
<1>1. CASE Idle \/ SendHeader \/ RecvFinAck \/ FtpsWrite
           \/ Forward("tc", 11000, 12000) \/ Forward("ts", 25000, 14000)
  BY <1>1, SendHeaderSends, RecvFinAckSends, FtpsWriteSends, ClientTrollSends,
     ServerTrollSends DEF Idle, Unsent
<1>2. CASE RecvFinAgain \/ RecvExpiry \/ TimerMessage \/ TimerTick \/ RecvPacket
  BY <1>2 DEF RecvFinAgain, RecvExpiry, TimerMessage, TimerTick, RecvPacket, progress
<1> QED BY <1>1, <1>2, StepCases

LEMMA HeaderStaysLate ==
  ASSUME StartupTypes, HeaderLate, ControlStep, [Next]_vars
  PROVE  HeaderLate'
<1>1. pc["tcpdc"] \in {Waiting, Closing, Exited} => HeaderLate'
  BY TcpdcOn DEF HeaderLate
<1>2. CASE RecvLocal
  BY <1>1, <1>2 DEF RecvLocal, Arrived
<1>3. CASE RecvAck
  BY <1>3 DEF RecvAck, HeaderLate
<1>4. CASE window' = window
  BY <1>1, <1>4 DEF HeaderLate
<1> QED BY <1>2, <1>3, <1>4, WindowChanges

(* Every step leaves datagrams of the protocol in the sockets. *)
LEMMA SocketsTyped ==
  ASSUME StartupTypes, [Next]_vars
  PROVE  sock' \in [Ports -> Seq(Datagrams)]
<1>1. CASE Idle
  BY <1>1 DEF Idle
<1>2. CASE SendHeader
  BY <1>2, SendHeaderSends
<1>3. CASE RecvLocal
  BY <1>3, RecvLocalSends
<1>4. CASE RecvAck
  BY <1>4, RecvAckSends
<1>5. CASE RecvFinAck
  BY <1>5, RecvFinAckSends
<1>6. CASE RecvFinAgain
  BY <1>6, RecvFinAgainSends
<1>7. CASE RecvExpiry /\ UNCHANGED <<pc, owner>>
  BY <1>7, RecvExpirySends
<1>8. CASE TimerMessage
  BY <1>8, TimerMessageSends
<1>9. CASE TimerTick
  BY <1>9, TimerTickSends
<1>10. CASE RecvPacket
  BY <1>10, RecvPacketSends
<1>11. CASE FtpsWrite
  BY <1>11, FtpsWriteSends
<1>12. CASE Forward("tc", 11000, 12000)
  BY <1>12, ClientTrollSends
<1>13. CASE Forward("ts", 25000, 14000)
  BY <1>13, ServerTrollSends
<1> QED BY <1>1, <1>2, <1>3, <1>4, <1>5, <1>6, <1>7, <1>8, <1>9, <1>10, <1>11, <1>12, <1>13, StepCases

(* What is in a socket is a datagram. *)
LEMMA SocketsHold ==
  ASSUME NEW s \in [Ports -> Seq(Datagrams)]
  PROVE  \A q \in Ports : \A i \in 1..Len(s[q]) : s[q][i] \in Datagrams
<1>1. ASSUME NEW q \in Ports, NEW i \in 1..Len(s[q])
      PROVE  s[q][i] \in Datagrams
  <2>1. s[q] \in Seq(Datagrams)
    OBVIOUS
  <2> QED BY <1>1, <2>1, ElementOfSeq
<1> QED BY <1>1

(* The timers that run. *)
LEMMA AlarmsTyped ==
  ASSUME StartupTypes, [Next]_vars
  PROVE  alarms' \in Nat
<1>1. alarms \in Nat
  BY DEF StartupTypes, TypeOK
<1>2. CASE TimerMessage
  <2>1. alarms' = alarms + 1 \/ alarms' = Stopped
    BY <1>2 DEF TimerMessage
  <2> QED BY <1>1, <2>1 DEF Stopped
<1>3. CASE TimerTick
  BY <1>1, <1>3 DEF TimerTick
<1>4. alarms' = alarms \/ TimerMessage \/ TimerTick
  <2>1. CASE Idle \/ SendHeader \/ RecvFinAck \/ FtpsWrite
             \/ Forward("tc", 11000, 12000) \/ Forward("ts", 25000, 14000)
    BY <2>1, SendHeaderSends, RecvFinAckSends, FtpsWriteSends, ClientTrollSends,
       ServerTrollSends DEF Idle, Unsent
  <2>2. CASE RecvLocal \/ RecvAck \/ RecvFinAgain \/ RecvExpiry \/ RecvPacket
    BY <2>2 DEF RecvLocal, RecvAck, RecvFinAgain, RecvExpiry, RecvPacket, progress
  <2> QED BY <2>1, <2>2, StepCases
<1> QED BY <1>1, <1>2, <1>3, <1>4

(* The flags; the three that have no value of their own keep theirs. *)
LEMMA FlagsTyped ==
  ASSUME StartupTypes, [Next]_vars
  PROVE  /\ fin' \in BOOLEAN /\ finack' \in BOOLEAN /\ begun' \in BOOLEAN /\ window' \in BOOLEAN
         /\ resend' \in BOOLEAN /\ passed' \in BOOLEAN /\ got' \in BOOLEAN
<1> DEFINE Goal == /\ fin' \in BOOLEAN /\ finack' \in BOOLEAN /\ begun' \in BOOLEAN
                   /\ window' \in BOOLEAN /\ resend' \in BOOLEAN /\ passed' \in BOOLEAN
                   /\ got' \in BOOLEAN
<1> SUFFICES Goal
  OBVIOUS
<1>1. /\ fin \in BOOLEAN /\ finack \in BOOLEAN /\ begun \in BOOLEAN /\ window \in BOOLEAN
      /\ resend \in BOOLEAN /\ passed \in BOOLEAN /\ got \in BOOLEAN
  BY DEF StartupTypes, TypeOK
<1>2. CASE \/ \E p \in Programs : Start(p) \/ Bind(p)
           \/ WaitTcpds \/ SendHeader \/ RecvFinAck \/ RecvFinAgain
           \/ Forward("tc", 11000, 12000) \/ Forward("ts", 25000, 14000) \/ UNCHANGED vars
  <2>1. UNCHANGED progress
    BY <1>2 DEF Start, Bind, WaitTcpds, SendHeader, RecvFinAck, RecvFinAgain, Forward, vars, progress
  <2> QED BY <1>1, <2>1 DEF progress
<1>3. CASE FtpcSignal
  BY <1>1, <1>3 DEF FtpcSignal
<1>4. CASE RecvLocal
  BY <1>1, <1>4 DEF RecvLocal
<1>5. CASE RecvExpiry
  BY <1>1, <1>5 DEF RecvExpiry
<1>6. CASE RecvAck
  <2>1. window' = FALSE /\ UNCHANGED <<fin, finack, begun, resend, passed, got>>
    BY <1>6 DEF RecvAck
  <2> QED BY <1>1, <2>1
<1>7. CASE TimerMessage
  BY <1>1, <1>7 DEF TimerMessage
<1>8. CASE TimerTick
  BY <1>1, <1>8 DEF TimerTick
<1>9. CASE RecvPacket
  BY <1>1, <1>9 DEF RecvPacket
<1>10. CASE FtpsWrite
  BY <1>1, <1>10 DEF FtpsWrite
<1> HIDE DEF Goal
<1> QED BY <1>2, <1>3, <1>4, <1>5, <1>6, <1>7, <1>8, <1>9, <1>10 DEF Next, Operator, Opening, Daemons

LEMMA TypesStay ==
  ASSUME StartupTypes, ControlStep, [Next]_vars
  PROVE  StartupTypes'
<1>1. sock' \in [Ports -> Seq(Datagrams)]
  BY SocketsTyped
<1>2. \A q \in Ports : \A i \in 1..Len(sock'[q]) : sock'[q][i] \in Datagrams
  BY <1>1, SocketsHold
<1>3. /\ pc' \in [Programs -> 0..5 \cup {Waiting, Closing, Exited}]
      /\ owner' \in [Ports -> Programs \cup {Nobody}]
  BY ControlTypes
<1>4. alarms' \in Nat
  BY AlarmsTyped
<1>5. /\ fin' \in BOOLEAN /\ finack' \in BOOLEAN /\ begun' \in BOOLEAN /\ window' \in BOOLEAN
      /\ resend' \in BOOLEAN /\ passed' \in BOOLEAN /\ got' \in BOOLEAN
  BY FlagsTyped
<1>6. {fin', finack', begun', window', resend', passed', got'} \subseteq BOOLEAN
  BY <1>5
<1>7. order' \subseteq NeededOrder
  BY DEF ControlStep, StartupTypes
<1>8. \A q \in Ports : \A i \in 1..Len(sock'[q]) :
         sock'[q][i] \in {"header", "arm", "cancel", "expiry", "ack", "ack_finack", "finack",
                          "go", "stop"}
  BY <1>2 DEF Datagrams
<1>9. TypeOK'
  BY <1>3, <1>4, <1>6, <1>8 DEF TypeOK
<1> QED BY <1>1, <1>7, <1>9 DEF StartupTypes

LEMMA TimedStays ==
  ASSUME StartupTypes, TimerFirst, TimerFirst', OwnPorts, OwnPorts', HeaderOnce, HeaderLate,
         HeaderTimed, ControlStep, [Next]_vars
  PROVE  HeaderTimed'
<1> DEFINE Clear(s) == \A i \in 1..Len(s) : s[i] = "arm"
           Timed == alarms > 0 \/ sock[20000] # <<>> \/ sock[21000] # <<>>
<1> SUFFICES ASSUME <<"timer", "tcpdc">> \in order, window', pc'["tcpdc"] = Waiting
             PROVE  Clear(sock'[21000]) /\ Timed'
  BY DEF HeaderTimed, ControlStep
<1>1. 21000 \in Ports /\ 20000 \in Ports
  BY PortsIn
<1>2. sock[21000] \in Seq(Datagrams) /\ alarms \in Nat
  BY <1>1 DEF StartupTypes, TypeOK
<1>3. CASE RecvLocal
  <2>1. owner[21000] = "timer"
    <3>1. pc["tcpdc"] = Waiting
      BY <1>3 DEF RecvLocal, Arrived
    <3> QED BY <3>1 DEF TimerFirst, Waiting
  <2>2. sock[21000] = <<>>
    BY <1>3 DEF RecvLocal, Arrived, HeaderOnce, Pending, Quiet
  <2>3. sock'[21000] = Append(<<>>, "arm")
    BY <1>3, <2>1, <2>2, RecvLocalSends DEF Nobody
  <2>4. Len(sock'[21000]) = 1 /\ sock'[21000][1] = "arm"
    BY <2>3
  <2> QED BY <2>4
<1>4. CASE ~ RecvLocal
  <2>1. window /\ pc["tcpdc"] = Waiting
    <3>1. window
      <4>1. CASE RecvAck
        BY <4>1 DEF RecvAck
      <4>2. CASE window' = window
        BY <4>2
      <4> QED BY <1>4, <4>1, <4>2, WindowChanges
    <3>2. pc["tcpdc"] \in {Waiting, Closing, Exited}
      BY <3>1 DEF HeaderLate
    <3> QED BY <3>1, <3>2, TcpdcOn
  <2>2. Clear(sock[21000]) /\ Timed
    BY <2>1 DEF HeaderTimed
  <2>3. owner[21000] = "timer" /\ owner'[21000] = "timer"
    BY <2>1 DEF TimerFirst, ControlStep, Waiting
  <2>4. owner[20000] = "tcpdc" /\ owner'[20000] = "tcpdc"
    BY <2>1 DEF OwnPorts
  <2> HIDE DEF Clear
  (* Neither port changes, nor the timers. *)
  <2>5. ASSUME sock'[21000] = sock[21000], sock'[20000] = sock[20000], alarms' = alarms
        PROVE  Clear(sock'[21000]) /\ Timed'
    BY <2>2, <2>5
  <2>6. CASE Idle
    <3>1. ASSUME NEW q \in {21000, 20000} PROVE sock'[q] = sock[q]
      <4>1. q \in Ports \ {22000} /\ owner[q] = owner'[q] /\ owner[q] # Nobody
        BY <1>1, <2>3, <2>4 DEF Nobody
      <4>2. ASSUME NEW p \in Programs, Exit(p), owner[q] = p PROVE FALSE
        <5>1. TypeOK
          BY DEF StartupTypes
        <5>2. \A r \in Ports : owner'[r] = IF owner[r] = p THEN Nobody ELSE owner[r]
          BY <4>2, <5>1, ExitIs
        <5>3. owner'[q] = Nobody
          <6>1. q \in Ports /\ owner[q] = p
            BY <4>1, <4>2
          <6> QED BY <5>2, <6>1
        <5> QED BY <4>1, <5>3
      <4> QED BY <2>6, <4>1, <4>2 DEF Idle
    <3>2. alarms' = alarms
      BY <2>6 DEF Idle, Unsent
    <3> QED BY <2>5, <3>1, <3>2
  <2>7. CASE SendHeader
    <3>1. 21000 \in Ports \ {9005} /\ 20000 \in Ports \ {9005}
      BY <1>1
    <3> QED BY <2>5, <2>7, <3>1, SendHeaderSends DEF Unsent
  <2>8. CASE RecvAck
    BY <2>8 DEF RecvAck
  <2>9. CASE RecvFinAck
    <3>1. pc \in [Programs -> 0..5 \cup {Waiting, Closing, Exited}] /\ "tcpdc" \in Programs
      BY DEF StartupTypes, TypeOK, Programs
    <3> QED BY <2>9, <3>1 DEF RecvFinAck, Waiting, Closing
  <2>10. CASE RecvFinAgain
    BY <2>1, <2>10 DEF RecvFinAgain, Waiting, Closing
  <2>11. CASE RecvExpiry /\ UNCHANGED <<pc, owner>>
    <3>0. resend'
      <4>1. resend' = (window \/ resend)
        BY <2>11, RecvExpirySends
      <4> QED BY <2>1, <4>1
    <3>1. sock'[21000] = Append(sock[21000], "arm")
      <4>1. owner[21000] # Nobody
        BY <2>3 DEF Nobody
      <4>2. resend' /\ owner[21000] # Nobody => sock'[21000] = Append(sock[21000], "arm")
        BY <2>11, RecvExpirySends
      <4> QED BY <3>0, <4>1, <4>2
    <3> DEFINE s == sock[21000]  t == sock'[21000]
    <3>2. s \in Seq(Datagrams) /\ t = Append(s, "arm")
      BY <1>2, <3>1
    <3>3. Clear(s)
      BY <2>2
    <3> HIDE DEF s, t
    <3>4. Clear(t) /\ t # <<>>
      <4>1. Len(t) = Len(s) + 1 /\ Len(s) \in Nat /\ t[Len(s) + 1] = "arm"
            /\ \A i \in 1..Len(s) : t[i] = s[i]
        BY <3>2, AppendProperties
      <4> QED BY <3>2, <3>3, <4>1, AppendProperties DEF Clear
    <3> QED BY <3>4 DEF t
  <2>12. CASE TimerMessage
    <3> DEFINE s == sock[21000]  t == sock'[21000]
    <3>1. s \in Seq(Datagrams) /\ s # <<>> /\ t = Tail(s)
      BY <1>2, <2>12, TimerMessageSends
    <3>2. alarms' = IF Head(s) = "arm" THEN alarms + 1 ELSE Stopped
      BY <2>12 DEF TimerMessage
    <3>3. sock'[20000] = sock[20000]
      <4>1. 20000 \in Ports \ {21000}
        BY <1>1
      <4> QED BY <2>12, <4>1, TimerMessageSends
    <3>4. Clear(s)
      BY <2>2
    <3> HIDE DEF s, t
    <3>6. Clear(t)
      <4>1. Len(t) = Len(s) - 1 /\ Len(s) \in Nat /\ \A i \in 1..Len(t) : t[i] = s[i + 1]
        BY <3>1, HeadTailProperties, LenProperties
      <4>2. \A i \in 1..Len(t) : i + 1 \in 1..Len(s)
        BY <4>1
      <4> QED BY <3>4, <4>1, <4>2 DEF Clear
    <3>7. alarms' > 0
      <4>1. Head(s) = s[1] /\ Len(s) \in Nat /\ Len(s) # 0
        BY <3>1, HeadTailProperties, LenProperties, EmptySeq
      <4>2. Head(s) = "arm"
        BY <3>4, <4>1 DEF Clear
      <4> QED BY <1>2, <3>2, <4>2
    <3> QED BY <3>6, <3>7 DEF t
  <2>13. CASE TimerTick
    <3>1. 21000 \in Ports \ {20000}
      BY <1>1
    <3>2. sock'[21000] = sock[21000] /\ sock'[20000] # <<>>
      BY <2>4, <2>13, <3>1, TimerTickSends DEF Nobody
    <3> QED BY <2>2, <3>2
  <2>14. CASE RecvPacket
    <3>1. 21000 \in Ports \ {12000, 13000, 25000} /\ 20000 \in Ports \ {12000, 13000, 25000}
      BY <1>1
    <3>2. alarms' = alarms
      BY <2>14 DEF RecvPacket
    <3>3. sock'[21000] = sock[21000] /\ sock'[20000] = sock[20000]
      BY <2>3, <2>4, <2>14, <3>1, RecvPacketSends
    <3> QED BY <2>5, <3>2, <3>3
  <2>15. CASE FtpsWrite
    <3>1. 21000 \in Ports \ {13000} /\ 20000 \in Ports \ {13000}
      BY <1>1
    <3>2. sock'[21000] = sock[21000] /\ sock'[20000] = sock[20000] /\ alarms' = alarms
      BY <2>3, <2>4, <2>15, <3>1, FtpsWriteSends DEF Unsent
    <3> QED BY <2>5, <3>2
  <2>16. CASE Forward("tc", 11000, 12000)
    <3>1. 21000 \in Ports \ {11000, 12000} /\ 20000 \in Ports \ {11000, 12000}
      BY <1>1
    <3> QED BY <2>5, <2>16, <3>1, ClientTrollSends DEF Unsent
  <2>17. CASE Forward("ts", 25000, 14000)
    <3>1. 21000 \in Ports \ {25000, 14000} /\ 20000 \in Ports \ {25000, 14000}
      BY <1>1
    <3> QED BY <2>5, <2>17, <3>1, ServerTrollSends DEF Unsent
  <2> QED BY <1>4, <2>6, <2>7, <2>8, <2>9, <2>10, <2>11, <2>12, <2>13, <2>14, <2>15, <2>16, <2>17, StepCases
<1> QED BY <1>3, <1>4

-------------------------------------------------------------------------------
StartupInv ==
  /\ StartupTypes
  /\ OwnPorts
  /\ TimerFirst
  /\ FtpsFirst
  /\ PassedOn
  /\ AcksPassed
  /\ HeaderOnce
  /\ HeaderLate
  /\ HeaderTimed

LEMMA StartupInit ==
  Init => StartupInv
<1> SUFFICES ASSUME Init PROVE StartupInv
  OBVIOUS
<1>1. /\ order \subseteq NeededOrder
      /\ pc = [p \in Programs |-> 0] /\ owner = [q \in Ports |-> Nobody]
      /\ sock = [q \in Ports |-> <<>>]
      /\ fin \in BOOLEAN /\ finack \in BOOLEAN
      /\ begun = FALSE /\ window = FALSE /\ resend \in BOOLEAN /\ alarms = 0
      /\ passed = FALSE /\ got = FALSE
  BY DEF Init
<1>2. /\ "timer" \in Programs /\ "tcpdc" \in Programs /\ "tcpds" \in Programs
      /\ "ftps" \in Programs /\ "ftpc" \in Programs
  BY DEF Programs
<1>3. /\ pc["timer"] = 0 /\ pc["tcpdc"] = 0 /\ pc["tcpds"] = 0 /\ pc["ftps"] = 0 /\ pc["ftpc"] = 0
  BY <1>1, <1>2
<1>4. \A q \in Ports : owner[q] = Nobody /\ sock[q] = <<>>
  BY <1>1
<1>5. /\ owner[13000] = Nobody /\ owner[20000] = Nobody /\ owner[21000] = Nobody
      /\ sock[9005] = <<>> /\ sock[11000] = <<>> /\ sock[12000] = <<>> /\ sock[14000] = <<>>
      /\ sock[20000] = <<>> /\ sock[21000] = <<>> /\ sock[25000] = <<>>
  BY <1>4, PortsIn
<1>6. sock \in [Ports -> Seq(Datagrams)]
  <2>1. <<>> \in Seq(Datagrams)
    OBVIOUS
  <2> QED BY <1>1, <2>1
<1>7. TypeOK
  <2>1. pc \in [Programs -> 0..5 \cup {Waiting, Closing, Exited}]
    BY <1>1
  <2>2. owner \in [Ports -> Programs \cup {Nobody}]
    BY <1>1
  <2>3. \A q \in Ports : \A i \in 1..Len(sock[q]) : sock[q][i] \in Datagrams
    BY <1>6, SocketsHold
  <2>4. alarms \in Nat
    BY <1>1
  <2>5. {fin, finack, begun, window, resend, passed, got} \subseteq BOOLEAN
    BY <1>1
  <2> QED BY <2>1, <2>2, <2>3, <2>4, <2>5 DEF TypeOK, Datagrams
<1>8. StartupTypes
  BY <1>1, <1>6, <1>7 DEF StartupTypes
<1>9. OwnPorts
  BY <1>3, <1>5 DEF OwnPorts, Waiting, Closing
<1>10. TimerFirst
  BY <1>3, <1>5 DEF TimerFirst
<1>11. FtpsFirst
  BY <1>3, <1>5 DEF FtpsFirst, Waiting, Exited
<1>12. PassedOn /\ AcksPassed
  BY <1>1, <1>5 DEF PassedOn, AcksPassed
<1>13. HeaderOnce
  <2>1. Quiet
    BY <1>1, <1>5 DEF Quiet
  <2> QED BY <1>5, <2>1 DEF HeaderOnce
<1>14. HeaderLate /\ HeaderTimed
  BY <1>1 DEF HeaderLate, HeaderTimed
<1> QED BY <1>8, <1>9, <1>10, <1>11, <1>12, <1>13, <1>14 DEF StartupInv

LEMMA StartupStep ==
  StartupInv /\ [Next]_vars => StartupInv'
<1> SUFFICES ASSUME StartupInv, [Next]_vars PROVE StartupInv'
  OBVIOUS
<1>1. /\ StartupTypes /\ OwnPorts /\ TimerFirst /\ FtpsFirst /\ PassedOn /\ AcksPassed
      /\ HeaderOnce /\ HeaderLate /\ HeaderTimed
  BY DEF StartupInv
<1>2. ControlStep
  BY <1>1, StepIsControl
<1>3. StartupTypes'
  BY <1>1, <1>2, TypesStay
<1>4. OwnPorts'
  BY <1>1, <1>2, PortsStayOwn
<1>5. TimerFirst'
  BY <1>1, <1>2, TimerStaysFirst
<1>6. FtpsFirst'
  BY <1>1, <1>2, FtpsStaysFirst
<1>7. PassedOn'
  BY <1>1, <1>2, <1>6, PassedStaysOn
<1>8. AcksPassed'
  BY <1>1, AcksStayPassed
<1>9. HeaderOnce'
  BY <1>1, <1>2, HeaderStaysOnce
<1>10. HeaderLate'
  BY <1>1, <1>2, HeaderStaysLate
<1>11. HeaderTimed'
  BY <1>1, <1>2, <1>4, <1>5, TimedStays
<1> QED BY <1>3, <1>4, <1>5, <1>6, <1>7, <1>8, <1>9, <1>10, <1>11 DEF StartupInv

LEMMA StartupSafe ==
  Spec => []StartupInv
BY StartupInit, StartupStep, PTL DEF Spec

(* Every variable keeps its type: whatever the order of starting, a        *)
(* program is at a bind or at one of its three ends, a port belongs to one *)
(* of the seven, and nothing but the nine datagrams is ever sent.          *)
THEOREM TypeCorrect ==
  Spec => []TypeOK
<1>1. StartupInv => TypeOK
  BY DEF StartupInv, StartupTypes
<1> QED BY <1>1, StartupSafe, PTL

(* If the timer is started before tcpdc, tcpdc sends its timer messages to *)
(* the timer and never to itself (tcpdclient.c:213, timer.c:62).           *)
THEOREM TimerReached ==
  Spec => []TimerHasItsPort
<1>1. StartupInv => TimerHasItsPort
  BY DEF StartupInv, TimerFirst, TimerHasItsPort, Waiting
<1> QED BY <1>1, StartupSafe, PTL

(* If the timer is started before tcpdc, the header packet can be resent   *)
(* as long as it is unacknowledged (tcpdclient.c:303, 369).                *)
THEOREM HeaderKeepsTimer ==
  Spec => []HeaderHasTimer
<1>1. StartupInv => HeaderHasTimer
  <2> SUFFICES ASSUME StartupInv, <<"timer", "tcpdc">> \in order, window, pc["tcpdc"] = Waiting
               PROVE  alarms > 0 \/ sock[20000] # <<>> \/ \E i \in 1..Len(sock[21000]) : sock[21000][i] = "arm"
    BY DEF HeaderHasTimer
  <2>1. /\ \A i \in 1..Len(sock[21000]) : sock[21000][i] = "arm"
        /\ alarms > 0 \/ sock[20000] # <<>> \/ sock[21000] # <<>>
    BY DEF StartupInv, HeaderTimed
  <2>2. sock[21000] \in Seq(Datagrams)
    BY PortsIn DEF StartupInv, StartupTypes
  <2>3. ASSUME sock[21000] # <<>> PROVE 1 \in 1..Len(sock[21000])
    BY <2>2, <2>3, EmptySeq
  <2> QED BY <2>1, <2>3
<1> QED BY <1>1, StartupSafe, PTL

(* If ftps is started before tcpds, the header that tcpds acknowledges is  *)
(* with ftps, although tcpds sends it on once (tcpdserver.c:232, 256).     *)
THEOREM AckedReachesFtps ==
  Spec => []AckedIsAtFtps
<1>1. StartupInv => AckedIsAtFtps
  BY DEF StartupInv, AcksPassed, PassedOn, AckedIsAtFtps
<1> QED BY <1>1, StartupSafe, PTL
===============================================================================
