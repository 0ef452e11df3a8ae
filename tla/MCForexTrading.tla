--------------------------- MODULE MCForexTrading ---------------------------
(* A small instance of ForexTrading: the strategies and the signals of a      *)
(* symbol are interchangeable.                                                *)
EXTENDS ForexTrading, TLC

Symmetry == Permutations(Strategies) \cup Permutations(Uxids)

=============================================================================
