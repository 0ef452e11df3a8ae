--------------------------- MODULE MCSupervision ---------------------------
(***************************************************************************)
(* Four workers, so that a restarted worker can fail again, twice, before  *)
(* and during the shutdown.                                                *)
(***************************************************************************)
EXTENDS Supervision

=============================================================================
