---------------------------------- MODULE Rto ----------------------------------
(***************************************************************************)
(* The retransmission timeout of tcpdc: rto_get and timeval_diff of        *)
(* tcpd_def.h.  The estimator keeps nothing but the timeout it gave last:  *)
(* the mean a and the deviation d it smooths are locals that start from 0  *)
(* and 3000 on every call, so that for a sample m it gives                 *)
(*     m / 8 + 4 * (3000 + (|m| - 3000) / 4).                              *)
(*                                                                         *)
(* A sample is a difference of two readings of the clock, a whole number   *)
(* of microseconds - negative if the clock was set back in between, 0 if   *)
(* the reply came within one.  It is measured from the last datagram sent, *)
(* whichever packet the reply is for.  Timeouts are counted in eighths.    *)
(***************************************************************************)
EXTENDS Integers

CONSTANT Samples  \* the differences timeval_diff may return

ASSUME SampleAssumption == Samples \subseteq Int

VARIABLES
  rto,       \* the timeout given last
  rem_time   \* the last sample

rtoVars == <<rto, rem_time>>

-------------------------------------------------------------------------------
Eighths == 8
Magnitude(m) == IF m < 0 THEN -m ELSE m

(* Before the first sample. *)
FirstRto == 6000 * Eighths

(* Variant, for the mutation runs: the sample 0 is taken as it is. *)
EstimateOfZero(m, n) == IF n = 1 THEN m * Eighths ELSE m + (9000 + Magnitude(m)) * Eighths

(* Packet 1 gets the sample as it is, every later packet the estimate. *)
Estimate(m, n) ==
  IF n = 1 THEN IF m = 0 THEN FirstRto ELSE m * Eighths
           ELSE m + (9000 + Magnitude(m)) * Eighths

(* rto_get: what the global rto is afterwards, which is what is returned.  *)
(* The header packet gets the timeout given last, whatever packet it was   *)
(* for.                                                                    *)
RtoGet(n) == IF n = 0 THEN rto ELSE Estimate(rem_time, n)

RtoInit == rto = FirstRto /\ rem_time = 0

(* A packet is sent or resent, and its timer started. *)
Arm(n) == rto' = RtoGet(n) /\ UNCHANGED rem_time

(* A reply arrives; its checksum is not tested before this. *)
Measure == \E m \in Samples : rem_time' = m /\ UNCHANGED rto

RtoNext(Packets) == Measure \/ \E n \in Packets : Arm(n)
===============================================================================
