-------------------------- MODULE MCTcpdServerOldCopy --------------------------
(* TcpdServer with a network that keeps copies longer than acks does.      *)
EXTENDS TcpdServer
===============================================================================
