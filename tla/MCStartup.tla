------------------------------- MODULE MCStartup -------------------------------
(* Startup for every part of the order that may be kept or not.             *)
EXTENDS Startup
===============================================================================
