------------------------------- MODULE AlarmSet -------------------------------
(***************************************************************************)
(* What tcpdc relies on of the timer process: timers that run, each known  *)
(* by the sequence number of its packet.  A timer that is started runs     *)
(* until it is cancelled or runs out; one that runs out is reported, once. *)
(* Several timers may run for one packet; a cancellation stops one of them *)
(* and does nothing when none is running.                                  *)
(***************************************************************************)
EXTENDS Naturals

CONSTANT Ids

VARIABLES
  alarms,   \* how many timers run for each packet
  expired   \* how many reports wait to be read for each packet

Init ==
  /\ alarms = [n \in Ids |-> 0]
  /\ expired = [n \in Ids |-> 0]

Arm(n) ==
  /\ alarms' = [alarms EXCEPT ![n] = @ + 1]
  /\ UNCHANGED expired

Cancel(n) ==
  /\ alarms[n] > 0
  /\ alarms' = [alarms EXCEPT ![n] = @ - 1]
  /\ UNCHANGED expired

(* Some of the timers run out together. *)
Expire ==
  /\ \A n \in Ids : alarms'[n] <= alarms[n]
  /\ expired' = [n \in Ids |-> expired[n] + (alarms[n] - alarms'[n])]

Read(n) ==
  /\ expired[n] > 0
  /\ expired' = [expired EXCEPT ![n] = @ - 1]
  /\ UNCHANGED alarms

Next == Expire \/ \E n \in Ids : Arm(n) \/ Cancel(n) \/ Read(n)

Spec == Init /\ [][Next]_<<alarms, expired>>
===============================================================================
