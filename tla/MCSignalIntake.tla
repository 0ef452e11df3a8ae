--------------------------- MODULE MCSignalIntake ---------------------------
(***************************************************************************)
(* One trade: an entry and an exit, so that the live copies, the replayed  *)
(* copies and the row meet in every order; the listener and one thread of  *)
(* a reconnect.                                                            *)
(***************************************************************************)
EXTENDS SignalIntake

=============================================================================
