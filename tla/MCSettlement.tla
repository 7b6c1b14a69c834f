----------------------------- MODULE MCSettlement -----------------------------
(***************************************************************************)
(* Settlement on small instances: two payments, so that a pass has an      *)
(* earlier reversal to lose; two replicas and a callback, so that each can *)
(* lose the race to another.                                               *)
(***************************************************************************)
EXTENDS Settlement
===============================================================================
