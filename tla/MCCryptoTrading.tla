--------------------------- MODULE MCCryptoTrading ---------------------------
(***************************************************************************)
(* Two strategies on one symbol and two entries: one strategy's leftovers  *)
(* meet the other's signals, and an entry meets a position left behind by  *)
(* an earlier one.                                                         *)
(***************************************************************************)
EXTENDS CryptoTrading

=============================================================================
