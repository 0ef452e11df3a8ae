------------------------- MODULE MCCryptoReconcile -------------------------
(***************************************************************************)
(* The crypto market (worker/gateways/crypto/reconcile_job.py): one net    *)
(* position per symbol, rows and positions correlated by resolved symbol,  *)
(* untracked positions imported.  All positions are on one symbol, so that *)
(* every key collides.                                                     *)
(***************************************************************************)
EXTENDS ReconcileJob

TheSymbol(p) == "BTCUSDT"
Owner(p) == IF p \in WorkerPos THEN "trend" ELSE "MANUAL"

crypto_live_keys(p, re) == {TheSymbol(p)}
crypto_db_keys(p, isMapped) == {TheSymbol(p)}
crypto_live_id(p) == TheSymbol(p)

=============================================================================
