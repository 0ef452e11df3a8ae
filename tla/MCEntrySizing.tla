---------------------------- MODULE MCEntrySizing ----------------------------
(* A small instance of EntrySizing: every signal over a dozen prices.         *)
EXTENDS EntrySizing

=============================================================================
