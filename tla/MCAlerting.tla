----------------------------- MODULE MCAlerting -----------------------------
(* Alerting on a small instance: three households, two of them on one       *)
(* phone and one without any, and two channels.                             *)
EXTENDS Alerting, TLC

CONSTANTS h1, h2, h3, phone

MCPhoneOf == (h1 :> phone) @@ (h2 :> phone) @@ (h3 :> NoPhone)
MCVerdicts == [SMS |-> {"SENT", "FAILED"}, LORA |-> {"DELIVERED", "UNKNOWN"}]
============================================================================
