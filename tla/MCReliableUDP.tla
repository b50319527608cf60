---------------------------- MODULE MCReliableUDP ----------------------------
(* ReliableUDP on small arrays.                                            *)
EXTENDS ReliableUDPInv
===============================================================================
