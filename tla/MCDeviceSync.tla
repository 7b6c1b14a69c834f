----------------------------- MODULE MCDeviceSync -----------------------------
(***************************************************************************)
(* DeviceSync on small instances: three rows of every kind in every order, *)
(* a batch of two, so that a run takes several, and two pushes in flight,  *)
(* so that one the device gave up can overtake its repetition.             *)
(***************************************************************************)
EXTENDS DeviceSync

===============================================================================
