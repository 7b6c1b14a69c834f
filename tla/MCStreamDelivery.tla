--------------------------- MODULE MCStreamDelivery ---------------------------
(***************************************************************************)
(* StreamDelivery on small instances: two workers racing in a group that   *)
(* sends messages, and one worker of a group without side effects; an      *)
(* event that reaches the stream twice, as a duplicate or as a replay.     *)
(***************************************************************************)
EXTENDS StreamDelivery, TLC

CONSTANTS w1, w2, v, notices, projection

MCGroupOf == w1 :> notices @@ w2 :> notices @@ v :> projection
===============================================================================
