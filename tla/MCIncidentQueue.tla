--------------------------- MODULE MCIncidentQueue ---------------------------
(***************************************************************************)
(* IncidentQueue on a small instance: a report by app and one that a mesh  *)
(* node took earlier, at the other end of the division, each sent again    *)
(* while unanswered; the node may send it together with one whose type the *)
(* schema refuses.  The query returns one row.                             *)
(***************************************************************************)
EXTENDS IncidentQueue, TLC

CONSTANTS app, mesh, odd, flood

MCAreaOf == (app :> flood) @@ (mesh :> flood) @@ (odd :> flood)
MCNear == {<<k, k>> : k \in Keys}
MCObserved == (app :> None) @@ (mesh :> -1) @@ (odd :> -1)
MCBatches == {<<app>>, <<mesh, mesh>>, <<mesh, odd>>}
MCSymmetry == Permutations(Incidents) \cup Permutations(Requests)
===============================================================================
