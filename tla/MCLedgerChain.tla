---------------------------- MODULE MCLedgerChain ----------------------------
(***************************************************************************)
(* LedgerChain on a small instance.  Three transactions, each appending up *)
(* to MaxBatch entries with MaxAttempts tries: enough for a writer to lose *)
(* to two others and run out of attempts, and for a sequence number drawn  *)
(* early to wait behind two later commits.                                 *)
(***************************************************************************)
EXTENDS LedgerChain
==============================================================================
