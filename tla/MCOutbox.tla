------------------------------- MODULE MCOutbox -------------------------------
(***************************************************************************)
(* Outbox on a small instance: two events, so that one can fail beside the *)
(* other and overtake it, and two replicas racing for both; two attempts,  *)
(* so that a row can fail, recover, or be exhausted and reset.             *)
(***************************************************************************)
EXTENDS Outbox
===============================================================================
