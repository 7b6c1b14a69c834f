----------------------------- MODULE MCAnchors ------------------------------
(* The anchor job on a small instance: two replicas, two releases and four   *)
(* days, so that two replicas meet on a backlog of two days, and a run that  *)
(* outlasts midnight on a release that does.                                 *)
EXTENDS Anchors
=============================================================================
