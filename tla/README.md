# ReliableUDP in TLA+

ReliableUDP copies a file from one host to another. `ftpc` reads the file and
sends it in packets; `ftps` writes what it receives. Between them two daemons,
`tcpdc` and `tcpds`, speak UDP through `troll`, a program that drops, delays,
reorders, duplicates and garbles datagrams, and make the transfer reliable
nevertheless: sequence numbers, a window, acknowledgements, timers, resends,
CRCs and a FIN handshake. This directory models the programs the Makefile
builds, checks the models with TLC and proves the core of them with TLAPS.

```
 ftpc --packets--> tcpdc --packets--> troll --packets--> tcpds --packets--> ftps
      <-stop 0/1--   |   <---acks---- troll <---acks----
                     |  ^
         start/cancel|  |expiry
                     v  |
                     timer
```

Every arrow is a UDP socket. Every program is a single thread around a `select`
or `recvfrom` loop, so the atomic steps of the models are iterations of these
loops, and all the concurrency is between programs.

## 1. Inventory

| component | code | state | operations |
|---|---|---|---|
| tcpds | `tcpdserver.c` | `server_window[20]`, `server_buffer[64]`, `head`, `acks[64]`, `ack_pointer`, `last_sent` | receive a datagram: check, file, acknowledge a copy again, pass the next one on and acknowledge it, FIN and exit |
| ftps | `ftpserver.c` | the output file | write a block; on FIN close and exit |
| tcpdc | `tcpdclient.c` | `window[20]`, `window_pointer`, `buffer[64]`, `head`, `resendpacket` | a packet from ftpc; an expiry; an acknowledgement; the FIN handshake |
| ftpc | `ftpclient.c` | position in the file, sequence number | header packet; sleep on stop=1; one packet on stop=0; FIN packet |
| timer | `timer.c`, `timer_lib.c` | delta list, `numPeers`, open descriptors | start a timer, cancel one, update the list every 100 ms without a message |
| troll | external binary, scripts `t`, `tc`, `ts` | datagrams under way | deliver, drop, duplicate, garble |
| RTO estimation | `tcpd_def.h`, calls in `tcpdclient.c` | `rto`, last measured time | `rto_get`, `timeval_diff` |
| sockets and startup | the first part of every `main` | bound ports, what waits at them | bind, wait or exit; the header packet |
| CRC | `checksum.h` | - | hash of a packet |
| legacy programs | `ftpc.c`, `tcpdc.c`, `ftps.c`, `tcpds.c`, `tcpdclientold.c` | - | an earlier generation, not built |
| unused libraries | `timer_lib.h`, `timer_def.h`, `crc.c`, `crc32.c`, `checksum.c`, `tcpheader.c`, `tcpd_lib.c` | - | included by no program that is built |

What makes this code hard, and what correctness means for each part:

* **tcpds** receives *every* datagram into `server_buffer[head]` before it knows
  whether the datagram is intact or new. It passes on at most one packet for each
  datagram received. It must write the file in order, each block once, never let
  a copy or a garbled datagram destroy a waiting packet, never acknowledge what it
  has not passed on, and acknowledge again what it has, since the first
  acknowledgement may be lost.
* **tcpdc** frees window slots in any order but reuses them only once the window
  is empty, while `head` of the ring runs on. A timer may run out while its
  acknowledgement is being handled; cancellations stop one of possibly several
  timers. Every unacknowledged packet must stay in the buffer and have a timer;
  ftpc must never wait for a stop=0 that nobody will send.
* **ftpc** sends the FIN packet right behind the last block, without being asked.
* **timer** keeps a delta list: inserting and removing nodes must leave all other
  deadlines alone, and every timer must be reported or cancelled in the end. Its
  nodes are linked by hand in both directions, in seven cases of insertion and
  removal; head, tail and links must agree after each, and no freed node be reached.
* **rto_get** computes the timeout of every packet, and a timeout of 0 *stops* a
  timer: it must never come out as 0.
* **startup**: seven programs are started by hand. A datagram to a port nobody has
  bound is lost without an error, and only tcpdc sends anything twice; tcpdc and the
  timer both want port 21000. Once the programs are started in the order the code
  needs, the header must arrive and ftpc must be told to go on.
* **the whole**: whatever troll does, the file written is a prefix of the file
  sent, complete when it is closed; and if troll lets something through now and
  then, it is completed.

`PROJECT.json` lists every component with its status and every hazard at its line.

## 2. Modules

| module | models | built on |
|---|---|---|
| `FileTransfer` | what the user is promised: a file that grows block by block into the source | - |
| `AlarmSet` | what tcpdc relies on of the timer process: a bag of timers, each reported once or cancelled | - |
| `TcpdServer` | tcpds and ftps against any datagram the network can bring | `FileTransfer` |
| `TcpdServerInv` | the inductive invariant `IInv` and the assumption `ServerFits` | `TcpdServer` |
| `TcpdClient` | ftpc, tcpdc, and the timers as tcpdc sees them, against any reply | - |
| `DeltaTimer` | the timer process with its delta list as a sequence | `AlarmSet` |
| `DeltaListHeap` | the same list as nodes on the heap, in step with the sequence | `DeltaTimer` |
| `Rto` | `rto_get` and the measurements it is given | - |
| `TimerProcess` | the timer process driven with the timeouts of `Rto` | `DeltaListHeap`, `Rto` |
| `Startup` | from the start of the programs to the first acknowledgement | - |
| `ReliableUDP` | both daemons and both programs with troll between them, in both directions | `TcpdClient`, `TcpdServer`, `FileTransfer` |
| `ReliableUDPInv` | the inductive invariant of the whole, its assumption `TransferSizes`, the two halves as properties, and what is asked of a run | `ReliableUDP`, `TcpdServerInv` |
| `RingLemmas` | arithmetic of ring indices; least and greatest elements; stepping through an interval | TLAPS |
| `TcpdServerProofs`, `TcpdClientProofs` | the theorems about the two halves | `TcpdServerInv`, `TcpdClient` |
| `ReliableUDPProofs` | the theorems about the whole transfer, with those of the halves taken in by `INSTANCE` | `ReliableUDPInv`, the two above |
| `DeltaTimerProofs` | the theorems about the timer process and its list | `DeltaTimer` |
| `DeltaListHeapProofs` | the invariant of the heap and what each operation does to the nodes | `DeltaListHeap`, `DeltaTimerProofs` |
| `TimerProcessProofs` | the theorems about the timer process as tcpdc drives it, with its heap | `TimerProcess`, `DeltaListHeapProofs` |
| `StartupProofs` | the theorems about the start | `Startup` |
| `MC...` | the instances TLC checks | |

### How state and actions correspond to the code

*TcpdServer.* Variables have the names of the globals. `RecvPacket(p)` is one
iteration of the loop at `tcpdserver.c:143`: `RecvGarbled` is the mismatch branch,
`RecvAndWait` the case where the lowest packet of the window is not
`last_sent + 1`, `RecvAndDeliver` the case where it is, `RecvFin` the case where
that packet is the FIN (two acknowledgements, then `exit`). `BufferWith`,
`WindowWith`, `HeadAfter` and `ReAck` are the parts all of them share. The search
loops are operators returning the *set* of results: with no match the code returns
an uninitialized variable, so `FindLowInBuffer` and `FindLowIndex` return every
slot. `server_buffer` is a zeroed global, hence `ZeroPacket`, which claims to be
packet 0. After FIN, tcpds sends ftps the never-written `received_packet`
(`UninitPacket`). `FtpsWrite` and `FtpsClose` are the two outcomes of an iteration
of ftps.

`finack` is that field of `request_packet`, which nothing writes before the FIN: either
value in `Init`, kept ever after, and carried by every ordinary acknowledgement.

*TcpdClient.* `RecvLocal`, `RecvExpiry`, `RecvReply` are the three `FD_ISSET`
branches. `RecvFinAgain` is the second, blocking `recvfrom` of the handshake; in
`mode = "fin"` nothing else happens. `resendpacket` is a local that is
uninitialized until an expiry finds its packet. The flags of a reply are tested one after
the other, so an acknowledgement with `finack` in it is handled as both (`RecvAck`). `Uninit` is the set of values it
may start with, and `OutOfBuffer` stands for those beyond the buffer, on which
the process ends. A write to `window` beyond its end lands on variables that no
search of the window reads, so `WindowWith` drops it. The timers are counters
`alarms` and `expired`, i.e. the state of `AlarmSet`: `Expire(n)` may happen at any
moment, so nothing shown depends on the value of the timeout. A packet's contents
are determined by its sequence number.

*DeltaTimer.* The list is a sequence of `[id, time_out]`; `WithPeer` is
`addPeerToList` and `WithoutPeer` is `delPeerFromList`, `UpdateList` is the tick.
`total_to` in the search loop is an `int` while delays are doubles, so times are
counted in units of `1/Scale` and `Trunc` is the conversion, which rounds toward zero
(an overdue head has a negative delay). Two bookkeeping errors
of the code are part of the model: deleting the only node leaves `numPeers` as it
is, and `UpdateList` leaks a socket when the list is empty.

*DeltaListHeap.* `heap` holds the nodes (`id`, `time_out`, `prev`, `next`), the head
and the tail. `AddToList` is `addPeerToList` with its branches `AddOnly`,
`AddAtHead`, `AddBefore`, `AddAtTail`; `DelFromList` is `delPeerFromList` with
`DelOnly`, `DelHead`, `DelTail`, `DelBetween`; `UpdateHeap` is the loop of
`UpdateList`. `HeapAddPeer`, `HeapDelPeer` and `HeapUpdateList` take a step of
`DeltaTimer` and the same step on the nodes, computed from the nodes' own values:
the two never look at each other, and `ListOnHeap` says they agree. `stops` counts
the messages that stop a timer, for `MemoryAccounted` (a history variable).

*Rto.* Times are in eighths of the unit of `rto`, so `Estimate` is exact: with `a`
and `d` starting from 0 and 3000 on every call, the "smoothing" keeps nothing from
one call to the next, and the result is `m/8 + 4 * (3000 + (|m| - 3000)/4)`. The
rounding of the `float`s, from 2^24 on, is not modelled. A sample `m` is in
microseconds, and the timer counts 10000 down in 100 ms: tcpdc's timeouts are ten
times the time it measured. `RtoGet(0)` leaves `rto` alone, `RtoGet(1)` is the sample
itself. `Measure` comes before the checksum of the reply is compared, as in the code.

*TimerProcess.* A message of tcpdc to the timer has the timeout of `RtoGet`
(`ClientArms`) or 0 (`ClientStops`, an acknowledgement; every reply is measured).

*Startup.* `pc` counts the binds a program has made; `owner` says who has bound a
port and `sock` what waits there. `Binds` lists each program's sockets in its order
and whether the program looks at the result of `bind`. `Sent` loses a datagram to
a port without owner; `Exit` gives up a program's ports. Four variables that are
read uninitialized are chosen in `Init`: `fin` of the header packet, `finack` of
the acknowledgements, `localsock` of tcpds and `resendpacket` of tcpdc. `order` is the part of `NeededOrder` the
operator keeps to: the timer waits before tcpdc is started, tcpdc before ftpc, ftps
before tcpds; the order in the repository's README keeps to all three. Only the
header packet and its copies are followed, so a `go` is counted and not answered.

*ReliableUDP.* `INSTANCE`s of the two halves share `net` (packets troll holds) and
`ackNet` (replies it holds), sets of datagrams. With `Duplicates` a delivered
datagram stays, so it can be delivered any number of times, in any order, or never;
without it, it is taken out, and troll can also drop it. With `Garbles`, any
delivery may be garbled. What arrives is what the other side really sent;
`ReceiverSpec` and `SenderSpec` say that this is no more than `TcpdServer` and
`TcpdClient` expect, `TcpdServer` with `Ahead` = `WindowSize` and `Lag` = `AckSlots`.
`TcpdServer` has an action `AcksLeave` for the network taking one of its
acknowledgements away; tcpds itself never does.

Definitions ending in a word like `Never`, `Stuck`, `NoWrap`, `Keeping` or
`Dropping`, introduced by a comment "variants, for the mutation runs", model no
code: each is a plausible mistake in the definition that follows it, and the
mutation runs of `PROJECT.json` show that the named property notices it.

## 3. What is checked

Run a configuration with `tlc -config X.cfg M`. Deadlock checking is off
everywhere: a finished transfer, a crashed tcpdc and a silent tcpdc all stop.

| run | configuration | states | properties | shows |
|---|---|---|---|---|
| `server` | `MCTcpdServer` | 88,986 | `TypeOK`, `IInv`, `AckedOnlyDelivered`, `TransferSpec`, `DuplicateReAcked`, `NextIsDelivered`, `WaitingKept` | tcpds and ftps against every datagram of a sender within its window: the file is written in order, an acknowledgement is a promise, copies are acknowledged again, the next packet is passed on at once, a waiting packet keeps its slot |
| `client` | `MCTcpdClient` | 240,467 | `TypeOK`, `WindowInBuffer`, `WindowedHasTimer`, `GoNotLost` | every unacknowledged packet is in the buffer and has a timer; ftpc is never left waiting |
| `timer` | `MCTimerProcess` | 176,062 | `TypeOK`, `CountCoversList`, `ListOnHeap`, `MemoryAccounted`, `OthersUndisturbed`, `EveryTimerEnds`, `AlarmSetSpec`, `SendingStartsTimer` | the delta list implements the bag of timers tcpdc relies on, and the linked nodes implement the list; which nodes are leaked; adding and removing a timer moves no other deadline; every timer ends; a packet sent always starts one |
| `startup` | `MCStartup` | 608,324 | `TypeOK`, `TimerHasItsPort`, `HeaderHasTimer`, `AckedIsAtFtps`, `TransferBegins` | which order of starting the programs the code needs for what, and that the whole of it leads to a transfer under way |
| `transfer` | `MCReliableUDP` | 237,609 | `IInv`, `NothingForgotten`, `DoneWhenDelivered`, `WithinServerWindow`, `TransferSpec`, `ReceiverSpec`, `SenderSpec` | all four programs with a troll that drops, delays, reorders, duplicates and garbles in both directions; each half of it is what its own module says |
| `transfer_completes` | `MCReliableUDPLossy` | 194,835 | `TransferCompletes` | liveness: with a lossy but fair troll, the whole file arrives and is closed |
| `server_old_copy` | `MCTcpdServerOldCopy` | - | `DuplicateReAcked` | violated, see 5.1 |
| `server_long_file` | `MCTcpdServerLongFile` | - | `TransferSpec` | violated, see 5.6 |
| `transfer_overrun` | `MCReliableUDPOverrun` | - | `NothingForgotten` | violated, see 5.2 |
| `client_stale` | `MCTcpdClientStale` | - | `ResendIsForExpired` | violated, see 5.3 |
| `timer_position` | `MCDeltaTimerPosition` | - | `InsertedInPlace` | violated, see 5.4 |
| `timer_sockets` | `MCDeltaTimerSockets` | - | `ExpiryReported` | violated, see 5.5 |

`TransferSpec` and `AlarmSetSpec` are refinements: the state machine implements
`FileTransfer`, respectively `AlarmSet`. `ReceiverSpec` and `SenderSpec` are the other
kind: the composed system implements each component's own module, so that the
assumptions the component was checked under are met.

### Bounds, and why they are enough

The arrays are scaled down (window 20 to 2 or 3, rings 64 to 3 to 5) but keep the
order of their sizes. What matters is that every ring wraps at least once with
packets still waiting, that the window fills and empties more than once, and that
copies of long delivered packets are still about.

* `server`: window 2, buffer 4, acks ring 3 and six packets, so the buffer and the
  acks ring both come round; copies up to 3 packets old (`Lag` = `AckSlots`) and
  packets up to a window ahead, intact or garbled.
* `client`: window of 3 slots, a ring of 3 that is reused, five packets; two
  expiries of the same packet under way at once (`MaxExpired`), three control
  messages waiting (`MaxControl`).
* `timer`: packet 1, whose timeout is the sample itself, and a later packet; the
  samples 0 (before the first reply, the case `rto_get` treats apart) and 20001 µs. The four
  timeouts that come out make truncation of `total_to` matter; two are shorter than
  a tick, one spans more than three. Four messages, of which two may
  wait: insertions in front, in the middle and at the end, and removal of the only,
  first, last and a middle node, all occur, and with four allocations freed
  nodes are reused. `FdLimit` is above `MaxIdle`: descriptors do not run out in this
  run; in `timer_sockets` they do.
* `startup`: every subset of `NeededOrder`, every interleaving of 7 programs' 10 binds and
  first messages, all values of the uninitialized variables. `MaxCopies` = 2 datagrams on
  their way when a timer runs out: a copy of the header behind the first one, and an expiry behind an
  acknowledgement, both occur.
* `server_long_file`: `Sentinel` 3 for 9999, and a file of 6 packets.
* `transfer`: window 2, rings of 3 and 4, header, two blocks and FIN, both values of
  `finack`, every datagram any number of times (`Duplicates`) or garbled (`Garbles`). The file is no
  longer than the acks ring, so finding 5.1 stays out; `server` has the longer file.
  `MaxFlight` = 8
  is more than there are different replies. `MaxWindow` is a restriction of the
  *behaviour*: at most as many packets as the window has slots are taken until the
  window is empty. Without it `NothingForgotten` and `WithinServerWindow` are false,
  which is finding 5.2, and the two properties say what the code guarantees
  otherwise.
* `transfer_completes`: header, one block and FIN, window 2; both values of `finack`; two values of the
  uninitialized `resendpacket`, one of which ends tcpdc. `MaxWindow` is 3, so the
  window may be overrun; the property then promises nothing.

### Fairness

`TransferCompletes` assumes (`FairSpec` of `ReliableUDP`) only what the loops and a
usable network give:

* weak fairness of the programs' steps: each is an endless loop around `select` or
  a blocking receive, and local sockets do not lose messages in the model (one
  condition for ftpc, tcpdc's local socket and ftps together, which is weaker than
  one for each);
* weak fairness, for each packet, of its timer running out and tcpdc handling the
  expiry (`DeltaTimer` shows
  that every timer ends; see the caveat in section 6);
* weak fairness of "troll delivers or drops a reply": it holds none for ever;
* strong fairness of the delivery of the next packet, of a delivered one that is
  still in tcpdc's window, and of the acknowledgement of one that is: a datagram
  given to troll again and again is delivered intact again and again. This is the
  usual fair-loss channel; without it nothing can be promised.

`EveryTimerEnds` assumes weak fairness of the timer process's own steps: `select`
there has a timeout, so it is never blocked. The bound on messages stands for a
tcpdc that falls silent.

`TransferBegins` assumes weak fairness of each step of each program, of the operator
starting each program, and of the trolls passing on what they have: in `Startup` the
trolls lose nothing.

## 4. What is proved

TLAPS checks 10,164 obligations; every theorem holds for all values of the
constants that satisfy the named assumptions.

### Assumptions

* `ServerSizes`, `ClientSizes`, `TransferConstants`, `TimerConstants`,
  `StartupAssumption`: sizes are sizes, and a timeout is a number other than 0 (it
  may be negative, see below). `SampleAssumption`: measured times are whole
  microseconds, negative ones included.
* `ServerFits` (in `TcpdServerInv`), for tcpds alone: the sender is at most
  `WindowSize` ahead of the last delivered packet, `BufSize` is at least twice that
  (40 and 64), no copy is older than the acks ring, and the file has fewer packets
  than `Sentinel`.
* `TransferSizes` (in `ReliableUDPInv`), for the whole: the sizes again, i.e.
  tcpdc's window of 20 is no larger than that of tcpds, twice that fits its buffer,
  and the file has fewer packets than `Sentinel`.
* Four hypotheses of theorems, about a run. `NoOverrun`: tcpdc is never sent more
  than its window has slots for before the window is empty again. `NoOldCopy`: no
  copy is delivered that is older than the acks ring. Without them the theorems are
  false: these are findings 5.2 and 5.1. `GoodRun` is `Spec` with both;
  `SmallRunsAreGood` shows that every run is one when ftpc gets no further ahead than
  the window has slots and the file is no longer than the acks ring.
  `MaxIdle < FdLimit`: the leaked sockets have not used up the descriptors (5.5).
  `ClockForward`: no measured time is negative, i.e. the clock is not set back between a
  datagram and the reply it is measured with. Only the two theorems about the heap use
  it, and without it they are false. Packet 1 then gets a negative timeout; the
  cancellation of its timer, at the head, adds that to the node behind it, whose own
  delay may be a fraction below 0. The head's delay is then, say, -3.25, which
  `total_to` cuts to -3. A next timeout of -3 is above the first and not above the second:
  the search of `addPeerToList` stops at the head of a list that goes on behind it, and
  the new node is linked to the uninitialized `prev1`. TLC reaches this with five
  messages and the samples -2 and -3, in 12 steps; it takes a clock set back more than once.

### Theorems

| module | theorem | says |
|---|---|---|
| `TcpdServerProofs` | `TypeCorrect` | `Spec => []TypeOK`; no assumption beyond `ServerSizes` is used |
| | `Consistent` | `Spec => []IInv` |
| | `AckedDelivered` | `Spec => []AckedOnlyDelivered` |
| | `CopyReAcked` | `Spec => DuplicateReAcked` |
| | `NextDelivered` | `Spec => NextIsDelivered` |
| | `WaitingStays` | `Spec => WaitingKept` |
| | `TransferCorrect` | `Spec => TransferSpec`: tcpds and ftps implement `FileTransfer` |
| `TcpdClientProofs` | `TypeCorrect` | `Spec => []TypeOK` |
| | `WindowBuffered` | `Spec => []WindowInBuffer` |
| | `TimersCover` | `Spec => []WindowedHasTimer` |
| | `SignalsReach` | `Spec => []GoNotLost` |
| `ReliableUDPProofs` | `Consistent` | `GoodRun => []IInv` |
| | `Forgotten` | `GoodRun => []NothingForgotten` |
| | `SuccessIsTrue` | `GoodRun => []DoneWhenDelivered` |
| | `SentWithinWindow` | `GoodRun => []WithinServerWindow` |
| | `FileTransferred` | `GoodRun => TransferSpec`: the file written is the file read |
| | `SmallRunsAreGood` | when `Spec => GoodRun` |
| | `ReceiverWithin`, `SenderWithin` | `GoodRun => ReceiverSpec`, `GoodRun => SenderSpec` |
| | `ReceiverKeepsPromises`, `SenderKeepsPromises` | the theorems about each half hold in the whole |
| `DeltaTimerProofs` | `TypeCorrect` | `Spec => []TypeOK` |
| | `CountCovers` | `Spec => []CountCoversList` |
| | `DeadlinesKept` | `Spec => OthersUndisturbed` |
| | `ImplementsAlarmSet` | if `MaxIdle < FdLimit`, `Spec => AlarmSetSpec` |
| `TimerProcessProofs` | `ArmedNeverZero` | `ProcessSpec => SendingStartsTimer` |
| | `EstimateCoversSample` | `ProcessSpec =>` every timer tcpdc asks for when it sends a packet other than the header and packet 1 lasts 9 ms longer than the last measured time, or more |
| | `ProcessIsTimer` | `ProcessSpec => Spec` of `DeltaTimer` |
| | `ProcessSafe`, `ProcessIsAlarmSet` | so the theorems about `DeltaTimer` hold of the process with its heap and `rto_get` |
| | `HeapCarriesList` | if `ClockForward`, `ProcessSpec => []ListOnHeap` |
| | `HeapAccounted` | if `ClockForward`, `ProcessSpec => []MemoryAccounted` |
| `StartupProofs` | `TypeCorrect` | `Spec => []TypeOK` |
| | `TimerReached` | `Spec => []TimerHasItsPort` |
| | `HeaderKeepsTimer` | `Spec => []HeaderHasTimer` |
| | `AckedReachesFtps` | `Spec => []AckedIsAtFtps` |

**The server.** None of its properties is inductive. That ftps gets the right block
depends on `find_low_in_buffer` finding the slot of the packet, i.e. on where
packets were put, possibly many packets ago, in a ring that overwrites itself and
whose slot `head` may hold anything. `IInv` says: packets waiting lie at most
`Ahead` beyond `last_sent`, so they have window slots of their own (`WindowGood`);
the packet accepted as the `a`-th is in slot `a % BufSize`, and a waiting packet was
accepted less than `Ahead` acceptances before its number (`BufferGood`), so with
`2 * Ahead <= BufSize` the ring cannot have come round; every slot but `head` holds
an intact packet or was never used (`SlotsGood`), so a garbled copy can never be
found; `acks` holds the last `AckSlots` deliveries (`AcksGood`); what is written and
what is under way to ftps is 0, 1, 2, ... (`StreamGood`). The proof has one lemma
per branch of the receive loop (`GarbledStep`, `WaitStep`, `DeliverStep`,
`FinStep`) and per step of ftps (`WriteStep`, `CloseStep`), on top of lemmas that
say what filing a packet does (`Filed...`), what the search finds (`FindLowNext`,
`Found`) and arithmetic of rings (`RingLemmas`). The refinement follows from `IInv`:
the block at the head of the local socket is always block `Len(file)`.

**The client.** `WindowInBuffer` is inductive together with `EmptyAtStart` (an empty
window has `window_pointer = 0`): slot `k` of the window is always as far behind
`window_pointer` as its packet is behind `head`. `WindowedHasTimer` needs it because
an expiry of a packet in the window must find that packet, not another, to re-arm
its timer; the delicate case is an expiry of a packet *not* in the window, which
resends some other packet and adds a timer to it, so that a later cancellation of
one timer leaves one running. `GoNotLost` needs `EmptyAtStart`: a packet for which
the window has no slot leaves a window that was not empty before. All three hold with the window overrun as well
(under the condition written in them that no more packets than the *buffer* has
slots were taken); overrun packets are simply in no window slot, which is the
finding.

**The whole transfer.** Neither half can show its own assumption: that tcpds is sent
nothing beyond its window depends on what tcpdc lets go of, which depends on what
tcpds acknowledges. The invariant (`IInv` of `ReliableUDPInv`) carries both. `Kept`:
every packet tcpdc has taken is in its window or was passed on by tcpds, since only
an acknowledgement frees a slot and tcpds acknowledges what it has passed on
(`AckedOnlyDelivered`, part of the receiver's invariant). `WindowAhead`: tcpdc is at most
`window_pointer` packets ahead of tcpds - whenever the window empties, `Kept` says that
everything was passed on, and from there the pointer counts. With `NoOverrun` the
pointer is at most the number of slots, which is `WithinServerWindow`, and that is the
first condition of `ServerFits`: the lemmas about the steps of tcpds apply, through an
instance of `TcpdServerProofs`. `OnlyTaken` and `LocalInOrder` say that no packet is
resent, filed or acknowledged that was not taken, in the order of the file, and that only
the FIN packet is acknowledged as such; an ordinary acknowledgement has in its field
`finack` what tcpds has in it (the receiver's `TypeOK`), and without a 1 there only the
former ends tcpdc: `DoneWhenDelivered`.
`ReceiverWithin` and `SenderWithin` then state that the system restricted to either
half takes only steps of that half's module, and the theorems about it hold in the
whole.

**The timer.** An operation on the delta list changes the delay of the node behind the
one it adds or takes out, and the running sum `Due` of all delays must stay what it
was for the others. `Inserted(l, m, j)` says that `m` is `l` with a node at `j`, *whatever
its delay*; `WithPeer` and `WithoutPeer` both satisfy it (one of them backwards), and
that `Due`, the bag of timers and the length change as they should follows from
it alone. `Due` and `total_to` are recursive functions; that they have
a value on every list, with the recursion equation of their definition, is proved by stepping through
the interval of indices (`StepByStep`), and equality of two of them by looking at the
first index where they differ (`LeastExists`), in place of the induction theorems of the library.
A timer goes in with the wrong delay (finding 5.4), and neither
`OthersUndisturbed` nor `AlarmSet` depends on the delay being right: nobody else's
deadline moves, and the timer runs out, too early. The refinement needs the
descriptors: `fds` never exceeds `MaxIdle`.

**The timeouts.** That no timeout is 0 needs the history: `RtoGet(0)` returns what
was computed for some packet before, so the invariant is that `rto` was never 0
(`RtoInv`), which the exact formula gives for every integer sample: packet 1 gets
the sample only if it is not 0, later packets `m/8 + 9000 + |m|`, which is also why a
packet after packet 1 always gets 9 ms more than the last sample (`EstimateCoversSample`). The sample may be negative
- the clock was set back - and so may the timeout of packet 1; then its timer
runs out on the next tick, but it is a timer. `RtoTimeouts`, the hypothesis of
`ProcessIsTimer`, names the timeouts that can come out; it holds of the
constants of the `timer` run.

**The heap.** The invariant (`HeapInv`) says that *some* sequence `w` of distinct
addresses is the chain of the list: `Chain(heap, w, list)` gives number, delay and both
links of every node, and head and tail. An operation writes to up to three nodes, and
that each write lands on the node it is meant for depends on all the links being right
before. `Spliced` and `Unlinked` say what adding a node at a position, or taking one
out, does to every node; each branch of `addPeerToList` and `delPeerFromList` satisfies
one of them, and from them alone it follows that the new chain carries the new list
(`Inserted`, shared with `DeltaTimerProofs`, and `Without`). That the search and the
walk visit the chain (`WalkIs`) is that the chain is no longer than the heap, which is
that its addresses are distinct. Three more things are needed. *The allocation finds a
node*: the nodes in use are exactly those counted, and these and the messages still
waiting are no more than the messages sent, so one is free when a message is received;
the first half of this is `MemoryAccounted`, and the two theorems come from one
induction. *The new node is not in the chain*, because it is free and those of the chain
are not. *The search passes the head*: `TruncBelow`, since a timeout above the head's
and above 0 is also above the head's delay cut to an integer; this is what
`ClockForward` is for. For a tick, `UpdateHeap` is followed along the prefixes of the
nodes deleted: after `i` of them the chain is `w` without its first `i` nodes, shown by
stepping through the interval. `delPeerFromList` is given a packet's number there and
deletes the first node that has it; that this is the head and no node behind it is what
makes the nodes deleted the nodes reported.

**The start.** Port 21000 is the timer's only because of what happened before:
`TimerFirst` says that until the timer waits, nobody has the port, tcpdc not being
started, and that from then on the timer never gives it up. `HeaderHasTimer` could be broken by a
cancellation from an earlier acknowledgement that is still in the timer's socket
when the header's timer message arrives there. There is none, for `HeaderOnce`: ftpc sends the header
once, and until tcpdc has read it (`Pending`), nothing that comes of it is in any socket
(`Quiet`). `HeaderTimed` then says that while the header is unacknowledged only requests
for timers wait at the timer. `AckedIsAtFtps` rests on `FtpsFirst` (ftps keeps its port
until it has read something), `PassedOn` and `AcksPassed`. Which program's step
changes what is said once, in `StepIsControl` (programs and ports) and the lemmas
`...Sends` (datagrams); each part of the invariant is then a lemma.

### Only model-checked

* Liveness: `TransferCompletes`, `EveryTimerEnds`, `TransferBegins`. The fairness of
  actions (`ENABLED`) is out of the prover's reach.

Every safety invariant and action property of a passing run is stated by a theorem.
The invariants used in the proofs were checked by TLC first, on the instances of
section 3.

## 5. Findings

Disagreements between the code and its own comments, each with a run that shows it.

1. **Old copy taken for a new packet** (`tcpdserver.c:157`). The acks ring, meant
   to recognize duplicates, remembers 64 deliveries. A copy delayed by more is
   entered into the window as new; its number is the lowest in the window and never
   `last_sent + 1`, so it blocks delivery until a later new packet of the same residue
   overwrites its slot (lines 178-180) - for good, if the sender's current round has
   no packet of that residue.
2. **Window overrun** (`tcpdclient.c:423`). Each acknowledgement that leaves the
   window empty sends a stop=0, on top of the one already sent for the packet that
   was just acknowledged. Each such round adds a credit; with several of them ftpc
   sends more packets than there are slots. `window[window_pointer]` is written
   beyond the array and the packet is in no slot the resend search reads: if it is
   lost, it is lost for good. It takes 11 states, no loss and no duplication.
3. **Stale resend** (`tcpdclient.c:357`). An expiry that crossed its acknowledgement
   resends `buffer[resendpacket]` for the index found last time, or for an
   uninitialized one.
4. **Timer due too early** (`timer_lib.c:128`). A timer inserted between two others
   does not get the delay of the node it is put in front of added back, and runs out
   with the timer in front of it.
5. **Socket leak** (`timer_lib.c:243`). One socket for each idle tick; once
   descriptors run out, expiries are deleted unreported.

6. **Long files** (`tcpdserver.c:314`). `find_low` starts from 9999. It does not see
   a packet from number 9999 on, and returns 9999 for an empty window, so that after
   packet 9998 any intact datagram makes tcpds pass on whatever slot
   `find_low_in_buffer`, which ends without a return, gives it.

Facts that contradict nothing the repository says, and that the models keep:
deleting the only node leaves `numPeers` as it is and leaks the node, as every
message that stops a timer leaks its own (`MemoryAccounted` counts them); a reply
is measured from the last datagram sent, whichever packet it is for; if the clock is
set back in between, the next timer for packet 1 has a negative timeout, and
`addPeerToList` may use `prev1` before it is set (`ClockForward`, section 4); tcpdc binds
port 21000, meant to be the timer's, and if it is the first to do so the timer
exits and tcpdc never hears of an expiry (`TimerHasItsPort` states the order that
avoids it); tcpds exits at the start if the uninitialized `localsock` it tests is
negative.

## 6. Not modelled, and caveats

* *The CRC* (`checksum.h`): a hash of public domain code included as it is; a
  datagram carries the verdict of the comparison as its flag `ok`. That two
  different packets have the same hash is not considered.
* *The timeout's value in `TcpdClient`*: a timer may run out at any moment there, so
  what holds there holds for every value; the values are in `TimerProcess`.
* *Uninitialized packet fields*: `fin` of the header packet is chosen in `Startup` and taken
  to be 0 in `ReliableUDP`: a 1 would end the transfer with the header. `finack` of the
  acknowledgements is chosen in both; `DoneWhenDelivered` and `TransferCompletes` name
  a `finack` that is not 1 as their condition, for with a 1 tcpdc takes the first
  acknowledgement for that of the FIN packet and ends.
  `bytes_in_packet` of the header packet, the number of bytes of it ftps writes to
  the file, is left out.
* *`packetsSentToServer[1000]`*, written with the sequence number as index and never
  read: what lies behind it depends on the linker.
* *Loss on the local sockets*, which are UDP too: in `Startup` for want of a receiver
  only. No module bounds the receive buffer of a running program.
* *A second transfer* with the same timer process or trolls: what is left over from the first
  would reach the daemons of the second. Every module starts from fresh programs.
* *Failures* of `socket`, `gethostbyname` and `malloc`: the program ends at once.
* *That tcpdc ends*: if one of the two FIN acknowledgements is lost it waits for
  ever; if both are, it resends the FIN to a tcpds that has exited. Nothing is
  claimed about it but `DoneWhenDelivered`.
* *Timer starvation*: the list ages only after 100 ms without a message.
  `EveryTimerEnds` is about a tcpdc that falls silent, which a full window forces on
  it.
* *The previous generation* (`ftpc.c`, `ftps.c`, `tcpdc.c`, `tcpds.c`,
  `tcpdclientold.c`), which is no system: `tcpds.c` does not compile (members
  `messageHeader` and `messageBody` that the packet does not have, an undefined
  `TCPDC_PORT`), and `tcpdc.c` sends to port 7002 while `tcpds.c` listens at 9001.
  `tcpdclientold.c` is `tcpdclient.c` but for comments, prints and a port.
* *Unused libraries*: `timer_lib.h` is `timer_lib.c` byte for byte, `timer_def.h` an
  older version of it, the others are checksums and a timer message in another
  format. No program of the Makefile includes them.
* Logging and the debug file `tcpd.txt`.

## 7. Plan

Done, in this order: `FileTransfer`, `TcpdServer` with `TcpdServerInv` and its
proofs; `TcpdClient` and its proofs; `AlarmSet`, `DeltaTimer`; `ReliableUDP`;
`DeltaListHeap`, `Rto`, `TimerProcess` and its proofs; `Startup`; `ReliableUDPInv`
and the proofs about `ReliableUDP`, `DeltaTimer`, `Startup` and `DeltaListHeap`.

Next, most important first:

1. `fin` of the header packet as a choice in `ReliableUDP`.
2. A local socket to ftps that is full.
3. A second transfer with what the first left over: the timer process and the trolls go
   on, and the daemons number their packets from 0 again.
