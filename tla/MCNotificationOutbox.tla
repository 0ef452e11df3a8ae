------------------------ MODULE MCNotificationOutbox ------------------------
(***************************************************************************)
(* Two messages with a batch of one, so that a retried row competes with a *)
(* new one; two targets, so that one can fail alone; two dispatchers, as   *)
(* after a restart of the worker thread.                                   *)
(***************************************************************************)
EXTENDS NotificationOutbox

=============================================================================
