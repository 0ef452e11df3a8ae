--------------------------- MODULE MCPositionCDC ---------------------------
(***************************************************************************)
(* Two rows, so that a poll handles a batch while writers change the row   *)
(* it has not reached yet; two versions and two seconds, so that a row is  *)
(* written twice within one second or in two different ones.               *)
(***************************************************************************)
EXTENDS PositionCDC

=============================================================================
