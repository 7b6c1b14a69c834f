---------------------------- MODULE MCAuditChain ----------------------------
(***************************************************************************)
(* AuditChain on a small instance: three entries, so that one may be       *)
(* overtaken between two others, and a check of any range of them.         *)
(***************************************************************************)
EXTENDS AuditChain
==============================================================================
