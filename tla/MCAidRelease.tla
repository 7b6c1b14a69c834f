----------------------------- MODULE MCAidRelease -----------------------------
(***************************************************************************)
(* AidRelease on small instances.  AidRelease.cfg: an assessor who also    *)
(* holds an approving role, a DS officer and two district officers, just   *)
(* enough people for a large payment; two requests at a time.  The         *)
(* platform opens its cases without a bound.  The rail makes two transfers *)
(* of a large amount, the second after a return or beside the first, and   *)
(* its household complains once; a small amount, whose releases need less  *)
(* and so meet in more orders, is transferred once.                        *)
(***************************************************************************)
EXTENDS AidRelease, TLC

Transfers == [above \in BOOLEAN |-> IF above THEN 2 ELSE 1]
Complaints == [above \in BOOLEAN |-> IF above THEN 1 ELSE 0]
Symmetric == Permutations(Requests) \union Permutations(DistrictOfficers)
===============================================================================
