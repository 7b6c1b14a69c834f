----------------------------- MODULE MCWarning ------------------------------
(* The warning agent on a small instance: one subject, starts and resumes    *)
(* that may overlap, one operator at the console, and one channel.           *)
EXTENDS Warning, TLC

CONSTANTS home, phone, e1, e2, e3

MCPhoneOf == home :> phone
MCSymmetry == Permutations({e1, e2, e3})
MCVerdicts == [SMS |-> {"SENT"}]
=============================================================================
