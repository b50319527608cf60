----------------------------- MODULE FileTransfer -----------------------------
(***************************************************************************)
(* What the file transfer application promises its user (README, sections  *)
(* 3.d and 4): the file the server writes is a prefix of the file that was *)
(* sent at every moment, and it is closed only once it is the whole file.  *)
(*                                                                         *)
(* Source is the transferred file as the sequence of blocks ftpc reads     *)
(* from it.  The daemons and the unreliable network in between are         *)
(* invisible at this level.                                                *)
(***************************************************************************)
EXTENDS Naturals, Sequences

CONSTANT Source

VARIABLES
  file,    \* the blocks written so far
  closed   \* the receiving program has closed the file and exited

Init == file = <<>> /\ closed = FALSE

(* The next block of the source is appended: no gap, no repetition. *)
Write ==
  /\ ~closed
  /\ Len(file) < Len(Source)
  /\ file' = Append(file, Source[Len(file) + 1])
  /\ UNCHANGED closed

(* Only a complete file is closed. *)
Close ==
  /\ ~closed
  /\ file = Source
  /\ closed' = TRUE
  /\ UNCHANGED file

Next == Write \/ Close

Spec == Init /\ [][Next]_<<file, closed>>
===============================================================================
