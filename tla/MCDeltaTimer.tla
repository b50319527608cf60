----------------------------- MODULE MCDeltaTimer -----------------------------
(* DeltaTimer with two packets and three timeouts that tcpdc may ask for.  *)
EXTENDS DeltaTimer
===============================================================================
