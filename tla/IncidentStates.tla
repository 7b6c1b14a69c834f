---------------------------- MODULE IncidentStates ----------------------------
(***************************************************************************)
(* The statuses of an incident and the table of legal moves between them   *)
(* (incident-svc, repo/base.py and domain/state_machine.py).  A proposed   *)
(* dispatch is no status of its own; a resolved incident is final.         *)
(***************************************************************************)

IncidentStatuses == {"REPORTED", "VERIFIED", "TRIAGED", "DISPATCHED",
                     "IN_PROGRESS", "RESOLVED", "DUPLICATE", "REJECTED"}

\* INCIDENT_TRANSITIONS: the statuses an operator may move an incident to.
LegalNext(s) ==
    CASE s = "REPORTED"    -> {"VERIFIED", "DUPLICATE", "REJECTED"}
      [] s = "VERIFIED"    -> {"TRIAGED", "DUPLICATE", "REJECTED"}
      [] s = "TRIAGED"     -> {"DISPATCHED", "TRIAGED", "DUPLICATE", "RESOLVED", "REJECTED"}
      [] s = "DISPATCHED"  -> {"IN_PROGRESS", "TRIAGED", "RESOLVED"}
      [] s = "IN_PROGRESS" -> {"RESOLVED", "TRIAGED"}
      [] s = "RESOLVED"    -> {}
      [] s = "DUPLICATE"   -> {"TRIAGED", "VERIFIED"}
      [] s = "REJECTED"    -> {"TRIAGED"}

\* What deduplication and a returned plan pass over: incidents nobody works on.
Closed == {"RESOLVED", "REJECTED", "DUPLICATE"}
===============================================================================
