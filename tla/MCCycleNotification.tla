------------------------ MODULE MCCycleNotification ------------------------
(***************************************************************************)
(* Two recording threads, so that a late render meets a newer one; three   *)
(* recorded actions, so that a body is replaced after a delivery.          *)
(***************************************************************************)
EXTENDS CycleNotification

=============================================================================
