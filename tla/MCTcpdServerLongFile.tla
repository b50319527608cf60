-------------------------- MODULE MCTcpdServerLongFile --------------------------
(* TcpdServer with a file of more packets than find_low starts from.        *)
EXTENDS TcpdServer
===============================================================================
