----------------------------- MODULE MCStreamLoop -----------------------------
(***************************************************************************)
(* Three ticks to a stall, two to the deadline, a ring of two reads: long  *)
(* enough for the clock to run out in every place of the loop.             *)
(***************************************************************************)
EXTENDS StreamLoop
=============================================================================
