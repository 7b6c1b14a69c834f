------------------------------ MODULE MCDispatch ------------------------------
(***************************************************************************)
(* Dispatch on a small instance: two plans over the same two incidents in  *)
(* opposite orders, so that two rejections can wait for each other; one    *)
(* plan has an agent thread, the other was proposed without agents.        *)
(***************************************************************************)
EXTENDS Dispatch, TLC

CONSTANTS p1, p2, i1, i2

MCPlanIncidents == (p1 :> <<i1, i2>>) @@ (p2 :> <<i2, i1>>)
===============================================================================
