------------------------------ MODULE Mailbox ------------------------------
(***************************************************************************)
(* What the notification outbox promises, without its table, its job or    *)
(* its retries (worker/jobs/notification_job.py, "Delivery semantics"):    *)
(* a stored message leaves the mailbox only when every target has been     *)
(* shown it; it may be shown more than once, and it may be given up, but   *)
(* it is never lost; a muted message is never shown.                       *)
(***************************************************************************)
CONSTANTS Messages, Targets

VARIABLES
    status,   \* per message
    seen      \* per message: targets it was shown to at least once

vars == <<status, seen>>

Statuses == {"unsent", "queued", "muted", "dead", "done"}

Init ==
    /\ status = [m \in Messages |-> "unsent"]
    /\ seen = [m \in Messages |-> {}]

Submit(m) ==
    /\ status[m] = "unsent"
    /\ status' = [status EXCEPT ![m] = "queued"]
    /\ UNCHANGED seen

Mute(m) ==
    /\ status[m] = "unsent"
    /\ status' = [status EXCEPT ![m] = "muted"]
    /\ UNCHANGED seen

Show(m, t) ==
    /\ status[m] \in {"queued", "dead", "done"}
    /\ seen' = [seen EXCEPT ![m] = @ \cup {t}]
    /\ UNCHANGED status

Retire(m) ==
    /\ status[m] \in {"queued", "dead"}
    /\ seen[m] = Targets
    /\ status' = [status EXCEPT ![m] = "done"]
    /\ UNCHANGED seen

GiveUp(m) ==
    /\ status[m] = "queued"
    /\ status' = [status EXCEPT ![m] = "dead"]
    /\ UNCHANGED seen

Next ==
    \E m \in Messages :
        \/ Submit(m) \/ Mute(m) \/ Retire(m) \/ GiveUp(m)
        \/ \E t \in Targets : Show(m, t)

Spec == Init /\ [][Next]_vars

\* Every queued message is delivered to all targets or given up.
Settles == \A m \in Messages : status[m] = "queued" ~> status[m] # "queued"

=============================================================================
