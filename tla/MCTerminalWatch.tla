--------------------------- MODULE MCTerminalWatch ---------------------------
(* A small instance of TerminalWatch: two positions, two magic numbers.       *)
EXTENDS TerminalWatch

=============================================================================
