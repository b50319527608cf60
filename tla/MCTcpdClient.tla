----------------------------- MODULE MCTcpdClient -----------------------------
(* TcpdClient on small arrays.                                             *)
EXTENDS TcpdClient
===============================================================================
