-------------------------- MODULE MCForexReconcile --------------------------
(***************************************************************************)
(* The forex market (worker/gateways/forex/reconcile_job.py): individual   *)
(* tickets, several strategies on one symbol under their own magics, no    *)
(* import of untracked positions.  The keys are namespaced as in the code. *)
(***************************************************************************)
EXTENDS ReconcileJob

CONSTANT GridPos   \* positions of the second strategy

GoldSymbol(p) == "XAUUSDm"
MagicOwner(p) == IF p \in GridPos THEN "grid" ELSE "trend"
Slot(p) == <<"slot", GoldSymbol(p), MagicOwner(p)>>

ticket_key(p, re) == <<"ticket", p, re>>
symbol_key(p) == <<"symbol", GoldSymbol(p)>>

forex_live_keys(p, re) == {ticket_key(p, re), Slot(p), symbol_key(p)}

\* The row knows the ticket of the fill; its slot while the strategy's magic
\* resolves, its symbol otherwise.
forex_db_keys(p, isMapped) ==
    {ticket_key(p, FALSE), IF isMapped THEN Slot(p) ELSE symbol_key(p)}

forex_live_id(p) == ticket_key(p, FALSE)

=============================================================================
