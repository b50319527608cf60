----------------------------- MODULE MCTcpdServer -----------------------------
(* TcpdServer on small arrays that fit the sender's window: a file long    *)
(* enough for the buffer and the ring of acknowledgements to wrap around.  *)
EXTENDS TcpdServerInv
===============================================================================
