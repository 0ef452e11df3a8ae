------------------------ MODULE ForexTrading_proofs ------------------------
(***************************************************************************)
(* Signal execution on a hedging account, for any strategies and signals,  *)
(* any settings, any number of tickets, messages and failing calls, with   *)
(* the terminal's closes and restarts of the worker between any two calls; *)
(* and the sizing of an entry, for any prices, levels, volume grid and     *)
(* account.                                                                *)
(***************************************************************************)
EXTENDS ForexTrading, EntrySizing, FiniteSetTheorems, TLAPS

-----------------------------------------------------------------------------
(* Types *)

LEMMA GotTypes ==
    ASSUME faults \in 0..MaxFaults, NEW S, NEW answer, Got(S, answer)
    PROVE  faults' \in 0..MaxFaults /\ (answer = S \/ answer = {})
           /\ (faults' = 0 => answer = S /\ faults = 0)
BY ForexAssumption DEF Got, Fault

LEMMA FaultTypes ==
    ASSUME faults \in 0..MaxFaults, Fault
    PROVE  faults' \in 0..MaxFaults /\ faults' > 0
BY ForexAssumption DEF Fault

LEMMA OldestIsARow == ASSUME NEW S PROVE Oldest(S) \subseteq S
BY DEF Oldest

-----------------------------------------------------------------------------
(* The listener's place in its code *)

\* Where a message of each kind can be.
Control(j) ==
    \/ /\ j.kind = "ENTRY" /\ j.then = "exit"
       /\ j.at \in {"guard", "cap", "netting", "db_stale", "find_stale", "mark_stale", "order",
                    "insert"}
    \/ /\ j.kind = "ENTRY" /\ j.then = "stale"
       /\ j.at \in {"list", "close", "mark_stale", "order", "insert"}
    \/ /\ j.kind = "TP1" /\ j.then = "exit"
       /\ j.at \in {"lookup", "live_guard", "tp1_list", "partial", "breakeven", "persist"}
    \/ /\ j.kind = "TP1" /\ j.then = "failsafe" /\ j.at \in {"list", "close", "persist"}
    \/ /\ j.kind = "CLOSE" /\ j.then = "exit"
       /\ j.at \in {"lookup", "live_guard", "list", "close", "persist"}
    \/ /\ j.kind = "FLAT" /\ j.then = "exit" /\ j.at = "lookup"
    \/ /\ j.kind = "FLAT" /\ j.then \in {"flat", "retry"}
       /\ j.at \in {"list", "close", "flat_lookup", "persist"}
    \/ j.kind = "ADMIN" /\ j.then = "admin" /\ j.at \in {"list", "close", "admin_sync"}

GoodJobs == {j \in Jobs :
    /\ Control(j)
    /\ j.kind # "ADMIN" => j.by \in Owners
    /\ j.at \in {"insert", "partial", "breakeven"} => j.target \in Tickets}

LEMMA GoodAt ==
    ASSUME job \in GoodJobs \cup {Idle}, NEW step, At(step)
    PROVE  job \in GoodJobs /\ job \in Jobs /\ Control(job) /\ job.at = step
BY DEF At, GoodJobs

\* The running message goes on as the same one.
Goes ==
    /\ job \in GoodJobs /\ job' \in GoodJobs
    /\ job'.kind = job.kind /\ job'.by = job.by

LEMMA Receives ==
    ASSUME receive
    PROVE  /\ job = Idle /\ job' \in GoodJobs /\ job'.at \in {"guard", "lookup", "list"}
           /\ job'.then \in {"exit", "admin"} /\ (job'.at = "list" => job'.kind = "ADMIN")
           /\ job'.rows = {} /\ job'.todo = {} /\ job'.listed = {} /\ job'.closed = {}
<1>1. PICK kind \in Kinds, s \in Strategies \cup {All}, u \in Uxids \cup {All} :
        /\ s = All => kind = "ADMIN"
        /\ u = All <=> kind = "ADMIN"
        /\ job' = [kind |-> kind, by |-> [strategy |-> s, uxid |-> u], at |-> First(kind),
                   then |-> IF kind = "ADMIN" THEN "admin" ELSE "exit",
                   rows |-> {}, todo |-> {}, listed |-> {}, closed |-> {}, target |-> 0,
                   status |-> "CLOSED", blind |-> FALSE]
  BY DEF receive
<1>2. First(kind) \in Steps /\ First(kind) \in {"guard", "lookup", "list"}
      /\ (First(kind) = "list" => kind = "ADMIN")
  BY DEF First, Kinds, Steps
<1>3. 0 \in 0..MaxTicket
  BY ForexAssumption
<1>4. job' \in Jobs
  BY <1>1, <1>2, <1>3 DEF Jobs, CLOSED
<1>5. kind # "ADMIN" => [strategy |-> s, uxid |-> u] \in Owners
  BY <1>1 DEF Owners
<1>6. Control(job')
  BY <1>1 DEF Control, First, Kinds
<1>7. job' \in GoodJobs
  BY <1>1, <1>2, <1>4, <1>5, <1>6 DEF GoodJobs
<1> QED
  BY <1>1, <1>2, <1>7 DEF receive

\* symbol_open_rejection, max_open_orders_rejection and other_holders let the
\* entry through.
LEMMA GuardPasses ==
    ASSUME job \in GoodJobs \cup {Idle}, NEW from \in {"guard", "cap", "netting"},
           NEW to \in {"cap", "netting", "db_stale"}, At(from), Goto(to)
    PROVE  /\ Goes /\ job'.at = to /\ job.at = from /\ job.kind = "ENTRY"
           /\ job'.rows = job.rows /\ job'.closed = job.closed
<1>1. /\ job' \in Jobs /\ job'.at = to /\ job'.kind = job.kind /\ job'.by = job.by
      /\ job'.then = job.then /\ job'.rows = job.rows /\ job'.closed = job.closed
  BY GoodAt DEF Goto, Jobs, Steps
<1> QED
  BY <1>1, GoodAt DEF Goes, GoodJobs, Control

LEMMA ReadsStale ==
    ASSUME job \in GoodJobs \cup {Idle}, db_stale
    PROVE  \E rows \in SUBSET Tickets :
             /\ Got(Active \cap OfKey(job.by), rows)
             /\ Goes /\ job.kind = "ENTRY" /\ job.at = "db_stale"
             /\ job'.at = "find_stale" /\ job'.rows = rows /\ job'.closed = job.closed
<1>1. PICK rows \in SUBSET Tickets :
        /\ Got(Active \cap OfKey(job.by), rows)
        /\ job' = [job EXCEPT !.rows = rows, !.at = "find_stale"]
  BY DEF db_stale
<1>2. job \in GoodJobs /\ job \in Jobs /\ job.at = "db_stale"
  BY GoodAt DEF db_stale
<1>3. /\ job' \in Jobs /\ job'.at = "find_stale" /\ job'.kind = job.kind /\ job'.by = job.by
      /\ job'.then = job.then /\ job'.rows = rows /\ job'.closed = job.closed
  BY <1>1, <1>2 DEF Jobs, Steps
<1>4. Goes /\ job.kind = "ENTRY"
  BY <1>2, <1>3 DEF Goes, GoodJobs, Control
<1> QED
  BY <1>1, <1>2, <1>3, <1>4

LEMMA FindsStale ==
    ASSUME job \in GoodJobs \cup {Idle}, find_stale
    PROVE  \E stale \in SUBSET Tickets :
             /\ Got(Live \cap OfStrategy(job.by.strategy)
                      \cap (IF settings.positions THEN job.rows ELSE Tickets), stale)
             /\ Goes /\ job.kind = "ENTRY" /\ job.at = "find_stale"
             /\ job'.rows = job.rows /\ job'.closed = job.closed
             /\ IF stale = {} THEN job'.at = "mark_stale" /\ job'.then = job.then
                ELSE job'.at = "list" /\ job'.then = "stale"
<1>1. PICK stale \in SUBSET Tickets :
        /\ Got(Live \cap OfStrategy(job.by.strategy)
                 \cap (IF settings.positions THEN job.rows ELSE Tickets), stale)
        /\ IF stale = {} THEN job' = [job EXCEPT !.at = "mark_stale"]
           ELSE job' = [job EXCEPT !.at = "list", !.then = "stale"]
  BY DEF find_stale, Goto
<1>2. job \in GoodJobs /\ job \in Jobs /\ job.at = "find_stale"
  BY GoodAt DEF find_stale
<1>3. CASE stale = {}
  <2>1. /\ job' \in Jobs /\ job'.at = "mark_stale" /\ job'.kind = job.kind /\ job'.by = job.by
        /\ job'.then = job.then /\ job'.rows = job.rows /\ job'.closed = job.closed
    BY <1>1, <1>2, <1>3 DEF Jobs, Steps
  <2>2. Goes /\ job.kind = "ENTRY"
    BY <1>2, <2>1 DEF Goes, GoodJobs, Control
  <2> QED
    BY <1>1, <1>2, <1>3, <2>1, <2>2
<1>4. CASE stale # {}
  <2>0. job' = [job EXCEPT !.at = "list", !.then = "stale"]
    BY <1>1, <1>4
  <2>1. /\ job' \in Jobs /\ job'.at = "list" /\ job'.kind = job.kind /\ job'.by = job.by
        /\ job'.then = "stale" /\ job'.rows = job.rows /\ job'.closed = job.closed
    BY <1>2, <2>0 DEF Jobs, Steps
  <2>2. Goes /\ job.kind = "ENTRY"
    BY <1>2, <2>1 DEF Goes, GoodJobs, Control
  <2> QED
    BY <1>1, <1>2, <1>4, <2>1, <2>2
<1> QED
  BY <1>3, <1>4

LEMMA MarksStale ==
    ASSUME job \in GoodJobs \cup {Idle}, mark_stale
    PROVE  /\ Goes /\ job.kind = "ENTRY" /\ job.at = "mark_stale" /\ job'.at = "order"
           /\ job'.rows = job.rows
<1>1. job \in GoodJobs /\ job \in Jobs /\ job.at = "mark_stale"
      /\ job' = [job EXCEPT !.at = "order"]
  BY GoodAt DEF mark_stale, Goto
<1>2. /\ job' \in Jobs /\ job'.at = "order" /\ job'.kind = job.kind /\ job'.by = job.by
      /\ job'.then = job.then /\ job'.rows = job.rows
  BY <1>1 DEF Jobs, Steps
<1> QED
  BY <1>1, <1>2 DEF Goes, GoodJobs, Control

LEMMA FillsOrder ==
    ASSUME job \in GoodJobs \cup {Idle}, used \in 0..MaxTicket, order_filled
    PROVE  /\ job \in GoodJobs /\ job.kind = "ENTRY" /\ job.at = "order" /\ job.by \in Owners
           /\ used' = used + 1 /\ used' \in Tickets
           /\ \/ /\ Goes /\ job'.at = "insert" /\ job'.target = used'
                 /\ job'.rows = job.rows
              \/ job' = Idle /\ Fault
<1>1. used' = used + 1 /\ used' \in Tickets /\ used' \in 0..MaxTicket
  BY ForexAssumption DEF order_filled, Tickets
<1>2. job \in GoodJobs /\ job \in Jobs /\ job.at = "order"
  BY GoodAt DEF order_filled
<1>3. job.kind = "ENTRY" /\ job.by \in Owners
  BY <1>2 DEF GoodJobs, Control
<1>4. ASSUME job' = [job EXCEPT !.at = "insert", !.target = used']
      PROVE  Goes /\ job'.at = "insert" /\ job'.target = used' /\ job'.rows = job.rows
  <2>1. /\ job' \in Jobs /\ job'.at = "insert" /\ job'.kind = job.kind /\ job'.by = job.by
        /\ job'.then = job.then /\ job'.target = used' /\ job'.rows = job.rows
    BY <1>1, <1>2, <1>4 DEF Jobs, Steps
  <2> QED
    BY <1>1, <1>2, <2>1 DEF Goes, GoodJobs, Control
<1>5. job' = [job EXCEPT !.at = "insert", !.target = used'] \/ (job' = Idle /\ Fault)
  BY DEF order_filled, Done
<1> QED
  BY <1>1, <1>2, <1>3, <1>4, <1>5

LEMMA LooksUp ==
    ASSUME job \in GoodJobs \cup {Idle}, get_db_position
    PROVE  \E rows \in SUBSET Tickets :
             /\ Got(Active \cap OfKey(job.by), rows)
             /\ row' = [t \in Tickets |-> IF t \in rows \ Oldest(rows) THEN "FORCED_CLOSED"
                                          ELSE row[t]]
             /\ job \in GoodJobs /\ job.at = "lookup" /\ job.kind \in {"TP1", "CLOSE", "FLAT"}
             /\ \/ job' = Idle
                \/ /\ Goes /\ job'.rows = Oldest(rows) /\ job'.closed = job.closed
                   /\ IF job.kind = "FLAT"
                      THEN /\ job'.at = "list" /\ job'.then = "flat"
                           /\ Oldest(rows) # {} \/ ~settings.positions
                      ELSE /\ job'.at = "live_guard" /\ job'.then = job.then
                           /\ Oldest(rows) # {}
<1>1. PICK rows \in SUBSET Tickets :
        /\ Got(Active \cap OfKey(job.by), rows)
        /\ job' = AfterLookup(Oldest(rows))
        /\ row' = [t \in Tickets |-> IF t \in rows \ Oldest(rows) THEN "FORCED_CLOSED"
                                     ELSE row[t]]
  BY DEF get_db_position
<1> DEFINE owned == Oldest(rows)
<1>2. owned \in SUBSET Tickets
  BY OldestIsARow
<1>3. job \in GoodJobs /\ job \in Jobs /\ job.at = "lookup"
  BY GoodAt DEF get_db_position
<1>4. job.kind \in {"TP1", "CLOSE", "FLAT"}
  BY <1>3 DEF GoodJobs, Control
<1>5. \/ job' = Idle
      \/ /\ job.kind = "FLAT" /\ (owned # {} \/ ~settings.positions)
         /\ job' = [job EXCEPT !.rows = owned, !.at = "list", !.then = "flat"]
      \/ /\ job.kind # "FLAT" /\ owned # {}
         /\ job' = [job EXCEPT !.rows = owned, !.at = "live_guard"]
  BY <1>1 DEF AfterLookup
<1> HIDE DEF owned
<1>6. ASSUME job.kind = "FLAT",
             job' = [job EXCEPT !.rows = owned, !.at = "list", !.then = "flat"]
      PROVE  /\ Goes /\ job'.rows = owned /\ job'.closed = job.closed
             /\ job'.at = "list" /\ job'.then = "flat"
  <2>1. /\ job' \in Jobs /\ job'.at = "list" /\ job'.kind = job.kind /\ job'.by = job.by
        /\ job'.then = "flat" /\ job'.rows = owned /\ job'.closed = job.closed
    BY <1>2, <1>3, <1>6 DEF Jobs, Steps
  <2> QED
    BY <1>3, <1>6, <2>1 DEF Goes, GoodJobs, Control
<1>7. ASSUME job.kind # "FLAT", job' = [job EXCEPT !.rows = owned, !.at = "live_guard"]
      PROVE  /\ Goes /\ job'.rows = owned /\ job'.closed = job.closed
             /\ job'.at = "live_guard" /\ job'.then = job.then
  <2>1. /\ job' \in Jobs /\ job'.at = "live_guard" /\ job'.kind = job.kind
        /\ job'.by = job.by /\ job'.then = job.then /\ job'.rows = owned
        /\ job'.closed = job.closed
    BY <1>2, <1>3, <1>7 DEF Jobs, Steps
  <2> QED
    BY <1>3, <1>7, <2>1 DEF Goes, GoodJobs, Control
<1>8. \/ job' = Idle
      \/ /\ Goes /\ job'.rows = owned /\ job'.closed = job.closed
         /\ IF job.kind = "FLAT"
            THEN job'.at = "list" /\ job'.then = "flat" /\ (owned # {} \/ ~settings.positions)
            ELSE job'.at = "live_guard" /\ job'.then = job.then /\ owned # {}
  BY <1>5, <1>6, <1>7
<1> QED
  BY <1>1, <1>3, <1>4, <1>8 DEF owned

LEMMA GuardsLive ==
    ASSUME job \in GoodJobs \cup {Idle}, live_guard
    PROVE  /\ job \in GoodJobs /\ job.at = "live_guard" /\ job.kind \in {"TP1", "CLOSE"}
           /\ \/ job' = Idle
              \/ /\ Goes /\ job'.then = "exit" /\ job'.rows = job.rows
                 /\ job'.at = IF job.kind = "TP1" THEN "tp1_list" ELSE "list"
<1>1. job \in GoodJobs /\ job \in Jobs /\ job.at = "live_guard"
  BY GoodAt DEF live_guard
<1>2. job.kind \in {"TP1", "CLOSE"} /\ job.then = "exit"
  BY <1>1 DEF GoodJobs, Control
<1>3. \/ job' = Idle
      \/ job.kind = "TP1" /\ job' = [job EXCEPT !.at = "tp1_list"]
      \/ job.kind # "TP1" /\ job' = [job EXCEPT !.at = "list", !.status = "CLOSED"]
  BY DEF live_guard, Done, Goto
<1>4. ASSUME job.kind = "TP1", job' = [job EXCEPT !.at = "tp1_list"]
      PROVE  Goes /\ job'.then = "exit" /\ job'.rows = job.rows /\ job'.at = "tp1_list"
  <2>1. /\ job' \in Jobs /\ job'.at = "tp1_list" /\ job'.kind = job.kind /\ job'.by = job.by
        /\ job'.then = job.then /\ job'.rows = job.rows
    BY <1>1, <1>4 DEF Jobs, Steps
  <2> QED
    BY <1>1, <1>2, <1>4, <2>1 DEF Goes, GoodJobs, Control
<1>5. ASSUME job.kind # "TP1", job' = [job EXCEPT !.at = "list", !.status = "CLOSED"]
      PROVE  Goes /\ job'.then = "exit" /\ job'.rows = job.rows /\ job'.at = "list"
  <2>1. /\ job' \in Jobs /\ job'.at = "list" /\ job'.kind = job.kind /\ job'.by = job.by
        /\ job'.then = job.then /\ job'.rows = job.rows
    BY <1>1, <1>5 DEF Jobs, Steps, CLOSED
  <2> QED
    BY <1>1, <1>2, <1>5, <2>1 DEF Goes, GoodJobs, Control
<1> QED
  BY <1>1, <1>2, <1>3, <1>4, <1>5

LEMMA ListsForTP1 ==
    ASSUME job \in GoodJobs \cup {Idle}, tp1_list
    PROVE  /\ job \in GoodJobs /\ job.at = "tp1_list" /\ job.kind = "TP1" /\ job.then = "exit"
           /\ \/ job' = Idle
              \/ \E t \in Live \cap OfStrategy(job.by.strategy) \cap Scope :
                   /\ Goes /\ job'.at = "partial" /\ job'.target = t /\ job'.then = "exit"
                   /\ job'.rows = job.rows
<1>1. job \in GoodJobs /\ job \in Jobs /\ job.at = "tp1_list"
  BY GoodAt DEF tp1_list
<1>2. job.kind = "TP1" /\ job.then = "exit"
  BY <1>1 DEF GoodJobs, Control
<1> DEFINE S == Live \cap OfStrategy(job.by.strategy) \cap Scope
<1>3. \/ job' = Idle
      \/ \E t \in S : job' = [job EXCEPT !.at = "partial", !.target = t]
  BY DEF tp1_list, Done, Got
<1>4. ASSUME NEW t \in Tickets, job' = [job EXCEPT !.at = "partial", !.target = t]
      PROVE  /\ Goes /\ job'.at = "partial" /\ job'.target = t /\ job'.then = "exit"
             /\ job'.rows = job.rows
  <2>1. t \in 0..MaxTicket
    BY ForexAssumption DEF Tickets
  <2>2. /\ job' \in Jobs /\ job'.at = "partial" /\ job'.kind = job.kind /\ job'.by = job.by
        /\ job'.then = job.then /\ job'.rows = job.rows /\ job'.target = t
    BY <1>1, <1>4, <2>1 DEF Jobs, Steps
  <2> QED
    BY <1>1, <1>2, <2>2 DEF Goes, GoodJobs, Control
<1>5. S \subseteq Tickets
  BY DEF Live
<1> QED
  BY <1>1, <1>2, <1>3, <1>4, <1>5

LEMMA ReducesPosition ==
    ASSUME job \in GoodJobs \cup {Idle}, partial_close
    PROVE  /\ Goes /\ job.at = "partial" /\ job.kind = "TP1" /\ job.then = "exit"
           /\ job.target \in Tickets /\ job'.at \in {"breakeven", "persist"}
           /\ job'.then = "exit" /\ job'.rows = job.rows /\ job'.target = job.target
           /\ job'.status = "TP1"
<1>1. PICK to \in {"breakeven", "persist"} : job' = [job EXCEPT !.at = to, !.status = "TP1"]
  BY DEF partial_close
<1>2. job \in GoodJobs /\ job \in Jobs /\ job.at = "partial"
  BY GoodAt DEF partial_close
<1>3. /\ job' \in Jobs /\ job'.at = to /\ job'.kind = job.kind /\ job'.by = job.by
      /\ job'.then = job.then /\ job'.rows = job.rows /\ job'.target = job.target
      /\ job'.status = "TP1"
  BY <1>1, <1>2 DEF Jobs, Steps, ACTIVE
<1> QED
  BY <1>2, <1>3 DEF Goes, GoodJobs, Control

LEMMA MovesStop ==
    ASSUME job \in GoodJobs \cup {Idle}, update_position_sl
    PROVE  /\ Goes /\ job.at = "breakeven" /\ job.kind = "TP1" /\ job.then = "exit"
           /\ job.target \in Tickets /\ job'.at = "persist" /\ job'.then = "exit"
           /\ job'.rows = job.rows /\ job'.status = job.status
<1>1. job \in GoodJobs /\ job \in Jobs /\ job.at = "breakeven"
      /\ job' = [job EXCEPT !.at = "persist"]
  BY GoodAt DEF update_position_sl, Goto
<1>2. /\ job' \in Jobs /\ job'.at = "persist" /\ job'.kind = job.kind /\ job'.by = job.by
      /\ job'.then = job.then /\ job'.rows = job.rows /\ job'.status = job.status
  BY <1>1 DEF Jobs, Steps
<1> QED
  BY <1>1, <1>2 DEF Goes, GoodJobs, Control

LEMMA FallsBack ==
    ASSUME job \in GoodJobs \cup {Idle}, update_position_sl_fails
    PROVE  /\ Goes /\ job.at = "breakeven" /\ job.kind = "TP1"
           /\ job'.at = "list" /\ job'.then = "failsafe" /\ job'.rows = job.rows
<1>1. job \in GoodJobs /\ job \in Jobs /\ job.at = "breakeven"
      /\ job' = [job EXCEPT !.at = "list", !.then = "failsafe"]
  BY GoodAt DEF update_position_sl_fails
<1>2. /\ job' \in Jobs /\ job'.at = "list" /\ job'.kind = job.kind /\ job'.by = job.by
      /\ job'.then = "failsafe" /\ job'.rows = job.rows
  BY <1>1 DEF Jobs, Steps
<1> QED
  BY <1>1, <1>2 DEF Goes, GoodJobs, Control

LEMMA Lists ==
    ASSUME job \in GoodJobs \cup {Idle}, list_positions
    PROVE  \E found \in SUBSET Tickets :
             /\ Got(Reachable, found)
             /\ Goes /\ job.at = "list" /\ job'.at = "close" /\ job'.then = job.then
             /\ job'.rows = job.rows /\ job'.todo = found /\ job'.listed = found
             /\ job'.closed = {} /\ (job'.blind <=> found # Reachable)
<1>1. PICK found \in SUBSET Tickets :
        /\ Got(Reachable, found)
        /\ job' = [job EXCEPT !.listed = found, !.todo = found, !.closed = {},
                              !.blind = (found # Reachable), !.at = "close"]
  BY DEF list_positions
<1>2. job \in GoodJobs /\ job \in Jobs /\ job.at = "list"
  BY GoodAt DEF list_positions
<1> DEFINE b == (found # Reachable)
<1>3. b \in BOOLEAN /\ job' = [job EXCEPT !.listed = found, !.todo = found, !.closed = {},
                                        !.blind = b, !.at = "close"]
  BY <1>1
<1> HIDE DEF b
<1>4. /\ job' \in Jobs /\ job'.at = "close" /\ job'.kind = job.kind /\ job'.by = job.by
      /\ job'.then = job.then /\ job'.rows = job.rows /\ job'.todo = found
      /\ job'.listed = found /\ job'.closed = {} /\ job'.blind = b
  BY <1>2, <1>3 DEF Jobs, Steps
<1>5. Goes
  BY <1>2, <1>4 DEF Goes, GoodJobs, Control
<1> QED
  BY <1>1, <1>2, <1>4, <1>5 DEF b

LEMMA Closes ==
    ASSUME job \in GoodJobs \cup {Idle}, close_position
    PROVE  \E t \in job.todo :
             /\ t \in Tickets /\ job.at = "close" /\ job'.at = "close" /\ Goes
             /\ job'.then = job.then /\ job'.rows = job.rows /\ job'.listed = job.listed
             /\ job'.blind = job.blind /\ job'.todo = job.todo \ {t}
             /\ \/ /\ pos[t].live /\ pos' = [pos EXCEPT ![t].live = FALSE]
                   /\ job'.closed = job.closed \cup {t} /\ faults' = faults
                \/ /\ Fault \/ (~pos[t].live /\ UNCHANGED faults)
                   /\ pos' = pos \/ pos' = [pos EXCEPT ![t].live = FALSE]
                   /\ job'.closed = job.closed
<1>1. PICK t \in job.todo :
        \/ /\ pos[t].live /\ pos' = [pos EXCEPT ![t].live = FALSE]
           /\ job' = [job EXCEPT !.todo = job.todo \ {t}, !.closed = job.closed \cup {t}]
           /\ faults' = faults
        \/ /\ Fault \/ (~pos[t].live /\ UNCHANGED faults)
           /\ pos' = pos \/ pos' = [pos EXCEPT ![t].live = FALSE]
           /\ job' = [job EXCEPT !.todo = job.todo \ {t}]
  BY DEF close_position
<1>2. /\ job \in GoodJobs /\ job \in Jobs /\ job.at = "close"
      /\ job.todo \subseteq Tickets /\ job.closed \subseteq Tickets
  BY GoodAt DEF close_position, Jobs
<1>3. job.todo \ {t} \in SUBSET Tickets /\ job.closed \cup {t} \in SUBSET Tickets
  BY <1>2
<1>4. /\ job' \in Jobs /\ job'.at = job.at /\ job'.kind = job.kind /\ job'.by = job.by
      /\ job'.then = job.then /\ job'.rows = job.rows /\ job'.listed = job.listed
      /\ job'.blind = job.blind /\ job'.todo = job.todo \ {t}
      /\ job'.closed \in {job.closed, job.closed \cup {t}}
  <2>1. CASE job' = [job EXCEPT !.todo = job.todo \ {t}, !.closed = job.closed \cup {t}]
    BY <1>2, <1>3, <2>1 DEF Jobs
  <2>2. CASE job' = [job EXCEPT !.todo = job.todo \ {t}]
    BY <1>2, <1>3, <2>2 DEF Jobs
  <2> QED
    BY <1>1, <2>1, <2>2
<1>5. Goes
  BY <1>2, <1>4 DEF Goes, GoodJobs, Control
<1>6. \/ /\ pos[t].live /\ pos' = [pos EXCEPT ![t].live = FALSE]
         /\ job'.closed = job.closed \cup {t} /\ faults' = faults
      \/ /\ Fault \/ (~pos[t].live /\ UNCHANGED faults)
         /\ pos' = pos \/ pos' = [pos EXCEPT ![t].live = FALSE]
         /\ job'.closed = job.closed
  BY <1>1, <1>2 DEF Jobs
<1> QED
  BY <1>2, <1>4, <1>5, <1>6

LEMMA FinishesClosing ==
    ASSUME job \in GoodJobs \cup {Idle}, all_closed
    PROVE  /\ job \in GoodJobs /\ job.at = "close" /\ job.todo = {}
           /\ \/ job' = Idle
              \/ /\ Goes /\ job'.rows = job.rows /\ job'.closed = job.closed
                 /\ job'.listed = job.listed /\ job'.blind = job.blind
                 /\ \/ job.then = "stale" /\ job'.then = "stale" /\ job'.at = "mark_stale"
                    \/ /\ job.then = "exit" /\ job'.at = "persist" /\ job'.status = "CLOSED"
                       /\ job'.then = "exit"
                    \/ /\ job.then = "failsafe" /\ job'.at = "persist" /\ job'.then = "failsafe"
                       /\ job'.status \in {"FORCED_CLOSED", "TP1"}
                    \/ /\ job.then = "flat" /\ MayRetry /\ job'.at = "list"
                       /\ job'.then = "retry"
                    \/ /\ job.then = "retry" /\ MayRetry /\ job'.at = "list"
                       /\ job'.then = "retry"
                    \/ /\ job.then \in {"flat", "retry"} /\ job.rows # {}
                       /\ job'.at = "persist" /\ job'.status = "FLATTED"
                       /\ job'.then = job.then
                    \/ /\ job.then \in {"flat", "retry"} /\ job.rows = {}
                       /\ job'.at = "flat_lookup" /\ job'.then = job.then
                    \/ /\ job.then = "admin" /\ job'.at = "admin_sync" /\ job'.then = "admin"
<1>1. job' = AfterClose /\ job \in GoodJobs /\ job \in Jobs /\ job.at = "close" /\ job.todo = {}
  BY GoodAt DEF all_closed
<1> DEFINE Kept == /\ job'.kind = job.kind /\ job'.by = job.by
                   /\ job'.rows = job.rows /\ job'.closed = job.closed
                   /\ job'.listed = job.listed /\ job'.blind = job.blind
<1>2. ASSUME NEW a \in {"mark_stale", "flat_lookup", "admin_sync"}, job' = [job EXCEPT !.at = a]
      PROVE  job' \in Jobs /\ Kept /\ job'.at = a /\ job'.then = job.then
  BY <1>1, <1>2 DEF Jobs, Steps
<1>3. ASSUME NEW st \in {"CLOSED", "FORCED_CLOSED", "TP1", "FLATTED"}, job' = Persist(st)
      PROVE  /\ job' \in Jobs /\ Kept /\ job'.at = "persist" /\ job'.then = job.then
             /\ job'.status = st
  <2>1. st \in ACTIVE \cup CLOSED
    BY DEF ACTIVE, CLOSED
  <2>2. job' = [job EXCEPT !.at = "persist", !.status = st]
    BY <1>3 DEF Persist
  <2> QED
    BY <1>1, <2>1, <2>2 DEF Jobs, Steps
<1>4. ASSUME job' = [job EXCEPT !.at = "list", !.then = "retry"]
      PROVE  job' \in Jobs /\ Kept /\ job'.at = "list" /\ job'.then = "retry"
  BY <1>1, <1>4 DEF Jobs, Steps
<1>5. job.then \in {"stale", "exit", "failsafe", "flat", "retry", "admin"}
  BY <1>1 DEF Jobs
<1> HIDE DEF Kept
<1>6. \/ job' = Idle
      \/ /\ job' \in Jobs /\ Kept
         /\ \/ job.then = "stale" /\ job'.then = "stale" /\ job'.at = "mark_stale"
            \/ /\ job.then = "exit" /\ job'.at = "persist" /\ job'.status = "CLOSED"
               /\ job'.then = "exit"
            \/ /\ job.then = "failsafe" /\ job'.at = "persist" /\ job'.then = "failsafe"
               /\ job'.status \in {"FORCED_CLOSED", "TP1"}
            \/ /\ job.then \in {"flat", "retry"} /\ MayRetry /\ job'.at = "list"
               /\ job'.then = "retry"
            \/ /\ job.then \in {"flat", "retry"} /\ job.rows # {}
               /\ job'.at = "persist" /\ job'.status = "FLATTED"
               /\ job'.then = job.then
            \/ /\ job.then \in {"flat", "retry"} /\ job.rows = {}
               /\ job'.at = "flat_lookup" /\ job'.then = job.then
            \/ /\ job.then = "admin" /\ job'.at = "admin_sync" /\ job'.then = "admin"
  <2>1. CASE job.then \in {"stale", "admin"}
    BY <1>1, <1>2, <2>1 DEF AfterClose
  <2>2. CASE job.then \in {"exit", "failsafe"}
    BY <1>1, <1>3, <2>2 DEF AfterClose
  <2>3. CASE job.then \in {"flat", "retry"}
    BY <1>1, <1>2, <1>3, <1>4, <2>3 DEF AfterClose
  <2> QED
    BY <1>5, <2>1, <2>2, <2>3
<1>7. job' # Idle => Goes
  BY <1>1, <1>6 DEF Goes, GoodJobs, Control, Kept
<1> QED
  BY <1>1, <1>6, <1>7 DEF Kept

LEMMA LooksUpAgain ==
    ASSUME job \in GoodJobs \cup {Idle}, flat_lookup
    PROVE  \E rows \in SUBSET Tickets :
             /\ Got(Active \cap OfKey(job.by), rows)
             /\ row' = [t \in Tickets |-> IF t \in rows \ Oldest(rows) THEN "FORCED_CLOSED"
                                          ELSE row[t]]
             /\ job \in GoodJobs /\ job.at = "flat_lookup" /\ job.kind = "FLAT"
             /\ \/ job' = Idle
                \/ /\ Goes /\ job'.at = "persist" /\ job'.status = "FLATTED"
                   /\ job'.then = job.then
                   /\ job'.rows = Oldest(IF rows # {} THEN rows ELSE job.listed)
<1>1. PICK rows \in SUBSET Tickets :
        /\ Got(Active \cap OfKey(job.by), rows)
        /\ job' = IF rows = {} /\ job.closed = {} THEN Idle
                  ELSE [job EXCEPT !.status = "FLATTED", !.at = "persist",
                                   !.rows = Oldest(IF rows # {} THEN rows ELSE job.listed)]
        /\ row' = [t \in Tickets |-> IF t \in rows \ Oldest(rows) THEN "FORCED_CLOSED"
                                     ELSE row[t]]
  BY DEF flat_lookup
<1>2. /\ job \in GoodJobs /\ job \in Jobs
      /\ job.at = "flat_lookup" /\ job.listed \subseteq Tickets
  BY GoodAt DEF flat_lookup, Jobs
<1>3. job.kind = "FLAT"
  BY <1>2 DEF GoodJobs, Control
<1> DEFINE R == Oldest(IF rows # {} THEN rows ELSE job.listed)
<1>4. R \in SUBSET Tickets
  BY <1>2, OldestIsARow
<1> HIDE DEF R
<1>5. ASSUME job' = [job EXCEPT !.status = "FLATTED", !.at = "persist", !.rows = R]
      PROVE  /\ Goes /\ job'.at = "persist" /\ job'.status = "FLATTED" /\ job'.rows = R
             /\ job'.then = job.then
  <2>1. /\ job' \in Jobs /\ job'.at = "persist" /\ job'.kind = job.kind /\ job'.by = job.by
        /\ job'.then = job.then /\ job'.rows = R /\ job'.status = "FLATTED"
    BY <1>2, <1>4, <1>5 DEF Jobs, Steps, CLOSED
  <2> QED
    BY <1>2, <1>3, <2>1 DEF Goes, GoodJobs, Control
<1> QED
  BY <1>1, <1>2, <1>3, <1>5 DEF R

\* Every handler leaves a good job or none.
LEMMA GoodNext ==
    job \in GoodJobs \cup {Idle} /\ used \in 0..MaxTicket /\ [Next]_vars
        => job' \in GoodJobs \cup {Idle}
<1> SUFFICES ASSUME job \in GoodJobs \cup {Idle}, used \in 0..MaxTicket, [Next]_vars
             PROVE  job' \in GoodJobs \cup {Idle}
  OBVIOUS
<1>1. CASE symbol_open_rejection \/ max_open_orders_rejection \/ other_holders
  <2>1. job' = Idle \/ \E from \in {"guard", "cap", "netting"},
                          to \in {"cap", "netting", "db_stale"} : At(from) /\ Goto(to)
    BY <1>1 DEF symbol_open_rejection, max_open_orders_rejection, other_holders, Done
  <2> QED
    BY <2>1, GuardPasses DEF Goes
<1>2. CASE job' = job \/ job' = Idle
  BY <1>2
<1> QED
  BY <1>1, <1>2, Receives, ReadsStale, FindsStale, MarksStale, FillsOrder, LooksUp, GuardsLive,
     ListsForTP1, ReducesPosition, MovesStop, FallsBack, Lists, Closes, FinishesClosing,
     LooksUpAgain
     DEF Goes, Next, vars, Done, order_refused, insert_position, insert_conflicts,
         insert_fails, partial_close_fails, persist, admin_sync, terminal_closes,
         on_terminal_close, Crash

-----------------------------------------------------------------------------
(* Types *)

Statuses == {"none"} \cup ACTIVE \cup CLOSED

\* A position has a volume while it is open.
OpenPositions == {p \in Positions : p.live => p.vol > 0}

Typed ==
    /\ settings \in Settings
    /\ pos \in [Tickets -> OpenPositions]
    /\ row \in [Tickets -> Statuses]
    /\ job \in GoodJobs \cup {Idle}
    /\ reports \subseteq Tickets
    /\ used \in 0..MaxTicket
    /\ lost \subseteq Tickets
    /\ messages \in 0..MaxMessages
    /\ faults \in 0..MaxFaults

LEMMA TypedIsTypeOK == Typed => TypeOK
BY DEF Typed, TypeOK, GoodJobs, OpenPositions, Statuses

LEMMA TypedStart == Init => Typed
<1> SUFFICES ASSUME Init PROVE Typed
  OBVIOUS
<1>1. [live |-> FALSE, owner |-> NoOwner, vol |-> 0, stop |-> "entry"] \in OpenPositions
  BY DEF Positions, OpenPositions
<1>2. pos \in [Tickets -> OpenPositions]
  BY <1>1 DEF Init
<1>3. row \in [Tickets -> Statuses]
  BY DEF Init, Statuses
<1>4. 0 \in 0..MaxTicket /\ 0 \in 0..MaxMessages /\ 0 \in 0..MaxFaults
  BY ForexAssumption
<1> QED
  BY <1>2, <1>3, <1>4 DEF Init, Typed

LEMMA FaultsStep == Typed /\ [Next]_vars => faults' \in 0..MaxFaults
<1> SUFFICES ASSUME Typed, [Next]_vars PROVE faults' \in 0..MaxFaults
  OBVIOUS
<1>1. faults \in 0..MaxFaults
  BY DEF Typed
<1>2. ASSUME Fault PROVE faults' \in 0..MaxFaults
  BY <1>1, <1>2, FaultTypes
<1>3. ASSUME NEW S, NEW answer, Got(S, answer) PROVE faults' \in 0..MaxFaults
  BY <1>1, <1>3, GotTypes
<1>4. CASE UNCHANGED faults
  BY <1>1, <1>4
<1>5. CASE close_position
  BY <1>2, <1>4, <1>5, Closes DEF Typed
<1> QED
  BY <1>2, <1>3, <1>4, <1>5
     DEF Next, vars, receive, symbol_open_rejection, max_open_orders_rejection, other_holders,
         db_stale, find_stale, mark_stale, order_filled, order_refused, insert_position,
         insert_conflicts, insert_fails, get_db_position, live_guard, tp1_list, partial_close,
         partial_close_fails, update_position_sl, update_position_sl_fails, list_positions,
         all_closed, flat_lookup, persist, admin_sync, terminal_closes, on_terminal_close, Crash

LEMMA RowStep == Typed /\ [Next]_vars => row' \in [Tickets -> Statuses]
<1> SUFFICES ASSUME Typed, [Next]_vars PROVE row' \in [Tickets -> Statuses]
  OBVIOUS
<1>1. row \in [Tickets -> Statuses] /\ job \in GoodJobs \cup {Idle}
      /\ {"OPENED", "FORCED_CLOSED", "FLATTED", "TERMINAL_CLOSED"} \subseteq Statuses
  BY DEF Typed, Statuses, ACTIVE, CLOSED
<1>2. CASE UNCHANGED row
  BY <1>1, <1>2
<1>3. CASE mark_stale
  BY <1>1, <1>3 DEF mark_stale
<1>4. CASE insert_position
  BY <1>1, <1>4 DEF insert_position
<1>5. CASE get_db_position
  BY <1>1, <1>5, LooksUp
<1>6. CASE flat_lookup
  BY <1>1, <1>6, LooksUpAgain
<1>7. CASE persist
  <2>1. job.status \in Statuses
    BY <1>1, <1>7, GoodAt DEF persist, Jobs, Statuses
  <2> QED
    BY <1>1, <1>7, <2>1 DEF persist
<1>8. CASE admin_sync
  <2>1. PICK rows \in SUBSET Tickets :
          row' = [t \in Tickets |-> IF t \in Flatted(rows) THEN "FLATTED" ELSE row[t]]
    BY <1>8 DEF admin_sync
  <2> QED
    BY <1>1, <2>1
<1>9. CASE on_terminal_close
  BY <1>1, <1>9 DEF on_terminal_close
<1> QED
  BY <1>2, <1>3, <1>4, <1>5, <1>6, <1>7, <1>8, <1>9
     DEF Next, vars, Reading, receive, symbol_open_rejection, max_open_orders_rejection,
         other_holders, db_stale, find_stale, order_filled, order_refused, insert_conflicts,
         insert_fails, live_guard, tp1_list, partial_close, partial_close_fails,
         update_position_sl, update_position_sl_fails, list_positions, close_position,
         all_closed, terminal_closes, Crash

LEMMA PosStep == Typed /\ [Next]_vars => pos' \in [Tickets -> OpenPositions]
<1> SUFFICES ASSUME Typed, [Next]_vars PROVE pos' \in [Tickets -> OpenPositions]
  OBVIOUS
<1>1. pos \in [Tickets -> OpenPositions] /\ job \in GoodJobs \cup {Idle}
  BY DEF Typed
<1>2. ASSUME NEW t \in Tickets, NEW p \in OpenPositions, pos' = [pos EXCEPT ![t] = p]
      PROVE  pos' \in [Tickets -> OpenPositions]
  BY <1>1, <1>2
<1>3. ASSUME NEW t \in Tickets PROVE [pos[t] EXCEPT !.live = FALSE] \in OpenPositions
  <2>1. pos[t] \in OpenPositions
    BY <1>1
  <2> QED
    BY <2>1 DEF OpenPositions, Positions
<1>4. CASE UNCHANGED pos
  BY <1>1, <1>4
<1>5. CASE order_filled
  <2>1. PICK v \in 1..2 :
          pos' = [pos EXCEPT ![used'] = [live |-> TRUE, owner |-> job.by, vol |-> v,
                                         stop |-> "entry"]]
    BY <1>5 DEF order_filled
  <2>2. used' \in Tickets /\ job.by \in Owners
    BY <1>1, <1>5, FillsOrder DEF Typed
  <2>3. [live |-> TRUE, owner |-> job.by, vol |-> v, stop |-> "entry"] \in OpenPositions
    BY <2>2 DEF OpenPositions, Positions
  <2> QED
    BY <1>2, <2>1, <2>2, <2>3
<1>6. CASE partial_close
  <2>1. PICK t \in Picks(Live \cap OfStrategy(job.by.strategy)) :
          pos' = [pos EXCEPT ![t] = Shrunk(pos[t])]
    BY <1>6 DEF partial_close
  <2>2. t \in Tickets /\ pos[t].live /\ pos[t] \in OpenPositions
    BY <1>1, <2>1 DEF Picks, Live
  <2>3. pos[t].vol \in 1..2 /\ pos[t].vol - 1 \in 0..2 /\ (pos[t].vol > 1) \in BOOLEAN
    BY <2>2 DEF OpenPositions, Positions
  <2>4. Shrunk(pos[t]) \in Positions
    BY <2>2, <2>3 DEF Shrunk, OpenPositions, Positions
  <2>5. Shrunk(pos[t]).live => Shrunk(pos[t]).vol > 0
    <3>1. pos[t] \in Positions
      BY <2>2 DEF OpenPositions
    <3>2. Shrunk(pos[t]).live = (pos[t].vol > 1) /\ Shrunk(pos[t]).vol = pos[t].vol - 1
      BY <3>1 DEF Shrunk, Positions
    <3>3. Shrunk(pos[t]).live => pos[t].vol > 1
      BY <3>2, Zenon
    <3> QED
      BY <2>3, <3>2, <3>3
  <2>6. Shrunk(pos[t]) \in OpenPositions
    BY <2>4, <2>5 DEF OpenPositions
  <2> QED
    BY <1>2, <2>1, <2>2, <2>6
<1>7. CASE update_position_sl
  <2>1. PICK t \in Picks(Live \cap OfStrategy(job.by.strategy)) :
          pos' = [pos EXCEPT ![t] = [pos[t] EXCEPT !.stop = "breakeven"]]
    BY <1>7 DEF update_position_sl
  <2>2. t \in Tickets /\ pos[t] \in OpenPositions
    BY <1>1, <2>1 DEF Picks, Live
  <2>3. [pos[t] EXCEPT !.stop = "breakeven"] \in OpenPositions
    BY <2>2 DEF OpenPositions, Positions
  <2> QED
    BY <1>2, <2>1, <2>2, <2>3
<1>8. CASE close_position
  <2>1. PICK t \in Tickets : pos' = pos \/ pos' = [pos EXCEPT ![t].live = FALSE]
    BY <1>1, <1>8, Closes
  <2>2. pos' = pos \/ pos' = [pos EXCEPT ![t] = [pos[t] EXCEPT !.live = FALSE]]
    BY <2>1
  <2> QED
    BY <1>1, <1>2, <1>3, <2>2
<1>9. CASE terminal_closes
  <2>1. PICK t \in Tickets : pos' = [pos EXCEPT ![t] = [pos[t] EXCEPT !.live = FALSE]]
    BY <1>9 DEF terminal_closes, Live
  <2> QED
    BY <1>2, <1>3, <2>1
<1> QED
  BY <1>4, <1>5, <1>6, <1>7, <1>8, <1>9
     DEF Next, vars, Reading, receive, symbol_open_rejection, max_open_orders_rejection,
         other_holders, db_stale, find_stale, mark_stale, order_refused, insert_position,
         insert_conflicts, insert_fails, get_db_position, live_guard, tp1_list,
         partial_close_fails, update_position_sl_fails, list_positions, all_closed,
         flat_lookup, persist, admin_sync, on_terminal_close, Crash

LEMMA SettingsKept == [Next]_vars => settings' = settings
BY DEF Next, vars, Reading, receive, symbol_open_rejection, max_open_orders_rejection,
       other_holders, db_stale, find_stale, mark_stale, order_filled, order_refused,
       insert_position, insert_conflicts, insert_fails, get_db_position, live_guard, tp1_list,
       partial_close, partial_close_fails, update_position_sl, update_position_sl_fails,
       list_positions, close_position, all_closed, flat_lookup, persist, admin_sync,
       terminal_closes, on_terminal_close, Crash

LEMMA TypedStep == Typed /\ [Next]_vars => Typed'
<1> SUFFICES ASSUME Typed, [Next]_vars PROVE Typed'
  OBVIOUS
<1>1. /\ job' \in GoodJobs \cup {Idle} /\ faults' \in 0..MaxFaults
      /\ row' \in [Tickets -> Statuses] /\ pos' \in [Tickets -> OpenPositions]
  BY GoodNext, FaultsStep, RowStep, PosStep DEF Typed
<1>2. settings' = settings
  BY SettingsKept
<1>3. used' \in 0..MaxTicket
  <2>1. used' = used \/ order_filled
    BY DEF Next, vars, Reading, receive, symbol_open_rejection, max_open_orders_rejection,
           other_holders, db_stale, find_stale, mark_stale, order_refused,
           insert_position, insert_conflicts, insert_fails, get_db_position, live_guard,
           tp1_list, partial_close, partial_close_fails, update_position_sl,
           update_position_sl_fails, list_positions, close_position, all_closed, flat_lookup,
           persist, admin_sync, terminal_closes, on_terminal_close, Crash
  <2> QED
    BY <2>1, FillsOrder, ForexAssumption DEF Typed, Tickets
<1>4. messages' \in 0..MaxMessages
  <2>1. messages' = messages \/ (messages < MaxMessages /\ messages' = messages + 1)
    BY DEF Next, vars, Reading, receive, symbol_open_rejection, max_open_orders_rejection,
           other_holders, db_stale, find_stale, mark_stale, order_filled, order_refused,
           insert_position, insert_conflicts, insert_fails, get_db_position, live_guard,
           tp1_list, partial_close, partial_close_fails, update_position_sl,
           update_position_sl_fails, list_positions, close_position, all_closed, flat_lookup,
           persist, admin_sync, terminal_closes, on_terminal_close, Crash
  <2> QED
    BY <2>1, ForexAssumption DEF Typed
<1>5. reports' \subseteq Tickets
  <2>1. CASE terminal_closes \/ on_terminal_close \/ Crash
    BY <2>1 DEF terminal_closes, on_terminal_close, Crash, Live, Typed
  <2>2. CASE reports' = reports
    BY <2>2 DEF Typed
  <2> QED
    BY <2>1, <2>2
       DEF Next, vars, Reading, receive, symbol_open_rejection, max_open_orders_rejection,
           other_holders, db_stale, find_stale, mark_stale, order_filled, order_refused,
           insert_position, insert_conflicts, insert_fails, get_db_position, live_guard,
           tp1_list, partial_close, partial_close_fails, update_position_sl,
           update_position_sl_fails, list_positions, close_position, all_closed, flat_lookup,
           persist, admin_sync
<1>6. lost' \subseteq Tickets
  <2>1. CASE order_filled
    <3>1. used' \in Tickets
      BY <2>1, FillsOrder DEF Typed
    <3> QED
      BY <2>1, <3>1 DEF order_filled, Typed
  <2>2. CASE insert_fails \/ Crash
    <3>1. At("insert") => job.target \in Tickets
      BY GoodAt DEF GoodJobs, Typed
    <3> QED
      BY <2>2, <3>1 DEF insert_fails, Crash, Typed
  <2>3. CASE lost' = lost
    BY <2>3 DEF Typed
  <2> QED
    BY <2>1, <2>2, <2>3
       DEF Next, vars, Reading, receive, symbol_open_rejection, max_open_orders_rejection,
           other_holders, db_stale, find_stale, mark_stale, order_refused,
           insert_position, insert_conflicts, get_db_position, live_guard,
           tp1_list, partial_close, partial_close_fails, update_position_sl,
           update_position_sl_fails, list_positions, close_position, all_closed, flat_lookup,
           persist, admin_sync, terminal_closes, on_terminal_close
<1> QED
  BY <1>1, <1>2, <1>3, <1>4, <1>5, <1>6 DEF Typed

\* Types, where a message of each kind can be, and the volume of an open
\* position: a partial close never takes more than is open.
THEOREM TypeCorrect == Spec => []TypeOK
BY TypedStart, TypedStep, TypedIsTypeOK, PTL DEF Spec

-----------------------------------------------------------------------------
(* Whose positions a message reaches *)

\* A ticket keeps its owner, and a position that is gone stays gone.
LEMMA PositionsKept ==
    ASSUME Typed, [Next]_vars, NEW t \in Tickets
    PROVE  /\ pos'[t].owner = pos[t].owner \/ (order_filled /\ t = used')
           /\ pos'[t].live => pos[t].live \/ (order_filled /\ t = used')
           /\ used' = used \/ (order_filled /\ used' = used + 1 /\ used' \in Tickets)
<1>1. pos \in [Tickets -> OpenPositions] /\ job \in GoodJobs \cup {Idle}
      /\ pos[t] \in Positions /\ used \in 0..MaxTicket
  BY DEF Typed, OpenPositions
<1>2. CASE UNCHANGED <<pos, used>>
  BY <1>2
<1>3. ASSUME NEW u \in Tickets, pos' = [pos EXCEPT ![u].live = FALSE], used' = used
      PROVE  pos'[t].owner = pos[t].owner /\ (pos'[t].live => pos[t].live) /\ used' = used
  BY <1>1, <1>3 DEF Positions
<1>4. CASE order_filled
  <2>1. used' \in Tickets /\ used' = used + 1
    BY <1>1, <1>4, FillsOrder
  <2>2. t # used' => pos'[t] = pos[t]
    BY <1>1, <1>4 DEF order_filled
  <2> QED
    BY <1>4, <2>1, <2>2
<1>5. CASE partial_close
  <2>1. PICK u \in Live : pos' = [pos EXCEPT ![u] = Shrunk(pos[u])]
    BY <1>5 DEF partial_close, Picks
  <2>2. u \in Tickets /\ pos[u].live
    BY DEF Live
  <2>3. /\ pos'[t].owner = pos[t].owner
        /\ t # u => pos'[t] = pos[t]
    BY <1>1, <2>1, <2>2 DEF Shrunk, Positions
  <2> QED
    BY <1>5, <2>2, <2>3 DEF partial_close
<1>6. CASE update_position_sl
  <2>1. PICK u \in Tickets : pos' = [pos EXCEPT ![u].stop = "breakeven"]
    BY <1>6 DEF update_position_sl, Picks, Live
  <2> QED
    BY <1>1, <1>6, <2>1 DEF Positions, update_position_sl
<1>7. CASE close_position
  <2>1. PICK u \in Tickets : pos' = pos \/ pos' = [pos EXCEPT ![u].live = FALSE]
    BY <1>1, <1>7, Closes
  <2> QED
    BY <1>2, <1>3, <1>7, <2>1 DEF close_position
<1>8. CASE terminal_closes
  BY <1>3, <1>8 DEF terminal_closes, Live
<1> QED
  BY <1>2, <1>4, <1>5, <1>6, <1>7, <1>8
     DEF Next, vars, Reading, receive, symbol_open_rejection, max_open_orders_rejection,
         other_holders, db_stale, find_stale, mark_stale, order_refused, insert_position,
         insert_conflicts, insert_fails, get_db_position, live_guard, tp1_list,
         partial_close_fails, update_position_sl_fails, list_positions, all_closed,
         flat_lookup, persist, admin_sync, on_terminal_close, Crash

\* What has not been opened is not there, and a reported close is a close.
Opened ==
    /\ \A t \in Tickets : t > used => ~pos[t].live /\ row[t] = "none" /\ t \notin reports
    /\ \A t \in reports : ~pos[t].live

\* o has the key by.
HasKey(o, by, narrow) ==
    (by.strategy = All \/ o.strategy = by.strategy) /\ (narrow => o.uxid = by.uxid)

LEMMA KeyHolders ==
    ASSUME NEW by, NEW t \in OfKey(by)
    PROVE  t \in Tickets /\ HasKey(pos[t].owner, by, settings.positions)
BY DEF OfKey, OfStrategy, HasKey

\* The rows a message works on are rows of its own key.
OwnRows ==
    job # Idle =>
        /\ \A t \in job.rows : t <= used
        /\ job.at = "close" => \A t \in job.todo : t <= used
        /\ job.at \in {"close", "flat_lookup", "admin_sync"} =>
             \A t \in job.listed \cup job.closed : t <= used
        /\ job.at \in {"insert", "partial", "breakeven"} => job.target <= used
        /\ job.kind # "ADMIN" /\ job.at # "persist" =>
             \A t \in job.rows : HasKey(pos[t].owner, job.by, settings.positions)

LEMMA OpenedStart == Init => Opened /\ OwnRows
BY DEF Init, Opened, OwnRows

LEMMA OpenedStep == Typed /\ Opened /\ OwnRows /\ [Next]_vars => Opened'
<1> SUFFICES ASSUME Typed, Opened, OwnRows, [Next]_vars PROVE Opened'
  OBVIOUS
<1> USE ForexAssumption DEF Tickets
<1>0. used \in 0..MaxTicket /\ row \in [Tickets -> Statuses] /\ reports \subseteq Tickets
      /\ job \in GoodJobs \cup {Idle}
  BY DEF Typed
<1>1. ASSUME NEW t \in Tickets, t > used' PROVE ~pos'[t].live /\ t > used /\ row[t] = "none"
  BY <1>0, <1>1, PositionsKept DEF Opened
<1>2. ASSUME NEW t \in reports PROVE ~pos'[t].live
  <2>1. t \in Tickets /\ t <= used /\ ~pos[t].live
    BY <1>0 DEF Opened
  <2>2. order_filled => t # used'
    BY <1>0, <2>1, FillsOrder
  <2> QED
    BY <2>1, <2>2, PositionsKept
<1>3. ASSUME NEW t \in Tickets, t > used' PROVE t \notin reports'
  <2>1. t \notin reports /\ t \notin Live
    BY <1>1, <1>3 DEF Opened, Live
  <2>2. CASE terminal_closes \/ on_terminal_close \/ Crash
    BY <2>1, <2>2 DEF terminal_closes, on_terminal_close, Crash
  <2>3. CASE reports' = reports
    BY <2>1, <2>3
  <2> QED
    BY <2>2, <2>3
       DEF Next, vars, Reading, receive, symbol_open_rejection, max_open_orders_rejection,
           other_holders, db_stale, find_stale, mark_stale, order_filled, order_refused,
           insert_position, insert_conflicts, insert_fails, get_db_position, live_guard,
           tp1_list, partial_close, partial_close_fails, update_position_sl,
           update_position_sl_fails, list_positions, close_position, all_closed, flat_lookup,
           persist, admin_sync
<1>4. ASSUME NEW t \in reports' PROVE ~pos'[t].live
  <2>1. CASE terminal_closes
    <3>1. PICK u \in Live : pos' = [pos EXCEPT ![u].live = FALSE] /\ reports' = reports \cup {u}
      BY <2>1 DEF terminal_closes
    <3>2. u \in Tickets /\ pos \in [Tickets -> OpenPositions] /\ pos[u] \in Positions
      BY DEF Live, Typed, OpenPositions
    <3>3. ~pos'[u].live
      BY <3>1, <3>2 DEF Positions
    <3> QED
      BY <1>2, <1>4, <3>1, <3>3
  <2>2. CASE on_terminal_close \/ Crash
    BY <1>2, <1>4, <2>2 DEF on_terminal_close, Crash
  <2>3. CASE reports' = reports
    BY <1>2, <1>4, <2>3
  <2> QED
    BY <2>1, <2>2, <2>3
       DEF Next, vars, Reading, receive, symbol_open_rejection, max_open_orders_rejection,
           other_holders, db_stale, find_stale, mark_stale, order_filled, order_refused,
           insert_position, insert_conflicts, insert_fails, get_db_position, live_guard,
           tp1_list, partial_close, partial_close_fails, update_position_sl,
           update_position_sl_fails, list_positions, close_position, all_closed, flat_lookup,
           persist, admin_sync
<1>5. ASSUME NEW t \in Tickets, t > used' PROVE row'[t] = "none"
  <2>1. t > used /\ row[t] = "none"
    BY <1>1, <1>5
  <2>2. CASE UNCHANGED row
    BY <2>1, <2>2
  <2>3. CASE mark_stale
    <3>1. job # Idle /\ t \notin job.rows
      BY <1>0, <2>1, <2>3 DEF OwnRows, mark_stale, At
    <3> QED
      BY <2>1, <2>3, <3>1 DEF mark_stale
  <2>4. CASE insert_position
    <3>1. t # job.target
      BY <1>0, <2>1, <2>4 DEF OwnRows, insert_position, At
    <3> QED
      BY <2>1, <2>4, <3>1 DEF insert_position
  <2>5. CASE get_db_position
    <3>1. PICK rows \in SUBSET Tickets :
            /\ Got(Active \cap OfKey(job.by), rows)
            /\ row' = [u \in Tickets |-> IF u \in rows \ Oldest(rows) THEN "FORCED_CLOSED"
                                         ELSE row[u]]
      BY <1>0, <2>5, LooksUp
    <3>2. t \notin rows
      BY <2>1, <3>1 DEF Got, Active, ACTIVE
    <3> QED
      BY <2>1, <3>1, <3>2
  <2>6. CASE flat_lookup
    <3>1. PICK rows \in SUBSET Tickets :
            /\ Got(Active \cap OfKey(job.by), rows)
            /\ row' = [u \in Tickets |-> IF u \in rows \ Oldest(rows) THEN "FORCED_CLOSED"
                                         ELSE row[u]]
      BY <1>0, <2>6, LooksUpAgain
    <3>2. t \notin rows
      BY <2>1, <3>1 DEF Got, Active, ACTIVE
    <3> QED
      BY <2>1, <3>1, <3>2
  <2>7. CASE persist
    BY <2>1, <2>7 DEF persist
  <2>8. CASE admin_sync
    <3>1. PICK rows \in SUBSET Tickets :
            /\ Got(Active \cap OfStrategy(job.by.strategy), rows)
            /\ row' = [u \in Tickets |-> IF u \in Flatted(rows) THEN "FLATTED" ELSE row[u]]
      BY <2>8 DEF admin_sync
    <3>2. t \notin rows
      BY <2>1, <3>1 DEF Got, Active, ACTIVE
    <3> QED
      BY <2>1, <3>1, <3>2 DEF Flatted
  <2>9. CASE on_terminal_close
    BY <1>0, <2>1, <2>9 DEF on_terminal_close
  <2> QED
    BY <2>2, <2>3, <2>4, <2>5, <2>6, <2>7, <2>8, <2>9
       DEF Next, vars, Reading, receive, symbol_open_rejection, max_open_orders_rejection,
           other_holders, db_stale, find_stale, order_filled, order_refused, insert_conflicts,
           insert_fails, live_guard, tp1_list, partial_close, partial_close_fails,
           update_position_sl, update_position_sl_fails, list_positions, close_position,
           all_closed, terminal_closes, Crash
<1> QED
  BY <1>1, <1>3, <1>4, <1>5 DEF Opened

LEMMA OldestOfKey ==
    ASSUME Typed, Opened, NEW S, NEW rows \in SUBSET Tickets, Got(Active \cap S, rows)
    PROVE  rows \subseteq S /\ \A t \in rows : t <= used
BY ForexAssumption DEF Typed, Opened, Got, Active, ACTIVE, Tickets

\* A ticket given out keeps its owner, and its position does not come back.
LEMMA TicketsKept ==
    ASSUME Typed, [Next]_vars, NEW t \in Tickets, t <= used
    PROVE  /\ pos'[t].owner = pos[t].owner /\ (pos'[t].live => pos[t].live)
           /\ t <= used'
<1>1. used \in 0..MaxTicket /\ job \in GoodJobs \cup {Idle}
  BY DEF Typed
<1>2. order_filled => t # used'
  BY <1>1, FillsOrder, ForexAssumption DEF Tickets
<1> QED
  BY <1>1, <1>2, PositionsKept, ForexAssumption DEF Tickets

LEMMA OwnRowsStep == Typed /\ Opened /\ OwnRows /\ [Next]_vars => OwnRows'
<1> SUFFICES ASSUME Typed, Opened, OwnRows, [Next]_vars, job' # Idle PROVE OwnRows'
  BY DEF OwnRows
<1> USE ForexAssumption
<1>0. used \in 0..MaxTicket /\ job \in GoodJobs \cup {Idle} /\ settings' = settings
  BY SettingsKept DEF Typed
<1>1. ASSUME NEW t \in Tickets, t <= used
      PROVE  t <= used' /\ pos'[t].owner = pos[t].owner
  BY <1>1, TicketsKept
\* The message goes on with the rows it had.
<1>2. ASSUME Goes, job # Idle, job.at # "persist", job'.rows = job.rows,
             job'.at \in {"insert", "partial", "breakeven"} => job'.target <= used',
             job'.at = "close" => job'.todo \subseteq job.todo,
             job'.at \in {"close", "flat_lookup", "admin_sync"} =>
               job.at = "close" /\ job'.listed = job.listed
               /\ job'.closed \subseteq job.closed \cup job.todo
      PROVE  OwnRows'
  <2>1. /\ job.rows \subseteq Tickets /\ job.todo \subseteq Tickets
        /\ job.listed \subseteq Tickets /\ job.closed \subseteq Tickets
    BY <1>2 DEF Goes, GoodJobs, Jobs
  <2>2. /\ \A t \in job.rows : t <= used
        /\ job.kind # "ADMIN" =>
             \A t \in job.rows : HasKey(pos[t].owner, job.by, settings.positions)
        /\ job.at = "close" => \A t \in job.todo \cup job.listed \cup job.closed : t <= used
    BY <1>2 DEF OwnRows
  <2>3. /\ \A t \in job.rows : t <= used' /\ pos'[t].owner = pos[t].owner
        /\ job.at = "close" => \A t \in job.todo \cup job.listed \cup job.closed : t <= used'
    BY <1>1, <2>1, <2>2
  <2>4. job'.kind # "ADMIN" =>
          \A t \in job'.rows : HasKey(pos'[t].owner, job'.by, settings'.positions)
    BY <1>0, <1>2, <2>2, <2>3 DEF Goes
  <2> QED
    BY <1>2, <2>3, <2>4 DEF OwnRows
\* The message reads rows of its key.
<1>3. ASSUME NEW rows \in SUBSET Tickets, Got(Active \cap OfKey(job.by), rows), Goes,
             job'.rows \subseteq rows,
             job'.at \in {"find_stale", "list", "live_guard"}
      PROVE  OwnRows'
  <2>1. \A t \in rows : t <= used /\ HasKey(pos[t].owner, job.by, settings.positions)
    BY <1>3, OldestOfKey, KeyHolders
  <2>2. \A t \in rows : t <= used' /\ pos'[t].owner = pos[t].owner
    BY <1>1, <2>1
  <2> QED
    BY <1>0, <1>3, <2>1, <2>2 DEF OwnRows, Goes
<1>4. CASE receive
  BY <1>4, Receives DEF OwnRows
<1>5. CASE symbol_open_rejection \/ max_open_orders_rejection \/ other_holders
  <2>1. \E from \in {"guard", "cap", "netting"},
           to \in {"cap", "netting", "db_stale"} : At(from) /\ Goto(to)
    BY <1>5 DEF symbol_open_rejection, max_open_orders_rejection, other_holders, Done
  <2>2. /\ Goes /\ job'.rows = job.rows /\ job.at \in {"guard", "cap", "netting"}
        /\ job'.at \in {"cap", "netting", "db_stale"}
    BY <1>0, <2>1, GuardPasses
  <2>3. job # Idle
    BY <2>1 DEF At
  <2> QED
    BY <1>2, <2>2, <2>3
<1>6. CASE db_stale
  BY <1>0, <1>3, <1>6, ReadsStale
<1>7. CASE find_stale
  <2>1. /\ Goes /\ job'.rows = job.rows /\ job.at = "find_stale"
        /\ job'.at \in {"mark_stale", "list"}
    BY <1>0, <1>7, FindsStale
  <2> QED
    BY <1>2, <1>7, <2>1 DEF find_stale, At
<1>8. CASE mark_stale
  BY <1>0, <1>2, <1>8, MarksStale DEF mark_stale, At
<1>9. CASE order_filled
  <2>1. /\ Goes /\ job.at = "order" /\ job'.at = "insert" /\ job'.target = used'
        /\ job'.rows = job.rows /\ used' = used + 1
    BY <1>0, <1>9, FillsOrder
  <2> QED
    BY <1>0, <1>2, <1>9, <2>1 DEF order_filled, At
<1>10. CASE get_db_position
  <2>1. PICK rows \in SUBSET Tickets :
          /\ Got(Active \cap OfKey(job.by), rows)
          /\ Goes /\ job'.rows = Oldest(rows) /\ job'.at \in {"list", "live_guard"}
    BY <1>0, <1>10, LooksUp
  <2> QED
    BY <1>3, <2>1, OldestIsARow
<1>11. CASE live_guard
  BY <1>0, <1>2, <1>11, GuardsLive DEF live_guard, At
<1>12. CASE tp1_list
  <2>1. PICK t \in Live :
          /\ Goes /\ job.at = "tp1_list" /\ job'.at = "partial" /\ job'.target = t
          /\ job'.rows = job.rows
    BY <1>0, <1>12, ListsForTP1
  <2>2. t \in Tickets /\ t <= used
    BY <1>0 DEF Opened, Live, Tickets
  <2> QED
    BY <1>1, <1>2, <1>12, <2>1, <2>2 DEF tp1_list, At
<1>13. CASE partial_close
  <2>1. job.target <= used'
    BY <1>0, <1>1, <1>13, ReducesPosition DEF OwnRows, partial_close, At
  <2> QED
    BY <1>0, <1>2, <1>13, <2>1, ReducesPosition DEF partial_close, At
<1>14. CASE update_position_sl
  BY <1>0, <1>2, <1>14, MovesStop DEF update_position_sl, At
<1>15. CASE update_position_sl_fails
  BY <1>0, <1>2, <1>15, FallsBack DEF update_position_sl_fails, At
<1>16. CASE list_positions
  <2>1. PICK found \in SUBSET Tickets :
          /\ Got(Reachable, found)
          /\ Goes /\ job.at = "list" /\ job'.at = "close" /\ job'.rows = job.rows
          /\ job'.todo = found /\ job'.listed = found /\ job'.closed = {}
    BY <1>0, <1>16, Lists
  <2>2. \A t \in found : t <= used'
    <3>1. found \subseteq Live
      BY <2>1 DEF Got, Reachable
    <3> QED
      BY <1>0, <1>1, <3>1 DEF Opened, Live, Tickets
  <2>3. /\ \A t \in job.rows : t <= used
        /\ job.kind # "ADMIN" =>
             \A t \in job.rows : HasKey(pos[t].owner, job.by, settings.positions)
        /\ job.rows \subseteq Tickets
    BY <1>16, <2>1 DEF OwnRows, list_positions, At, Goes, GoodJobs, Jobs
  <2>4. \A t \in job.rows : t <= used' /\ pos'[t].owner = pos[t].owner
    BY <1>1, <2>3
  <2>5. job'.kind # "ADMIN" =>
          \A t \in job'.rows : HasKey(pos'[t].owner, job'.by, settings'.positions)
    BY <1>0, <2>1, <2>3, <2>4 DEF Goes
  <2> QED
    BY <2>1, <2>2, <2>4, <2>5 DEF OwnRows
<1>17. CASE close_position
  <2>1. /\ Goes /\ job.at = "close" /\ job'.at = "close" /\ job'.rows = job.rows
        /\ job'.listed = job.listed /\ job'.todo \subseteq job.todo
        /\ job'.closed \subseteq job.closed \cup job.todo
    BY <1>0, <1>17, Closes
  <2> QED
    BY <1>2, <1>17, <2>1 DEF close_position, At
<1>18. CASE all_closed
  <2>1. /\ Goes /\ job.at = "close" /\ job'.rows = job.rows /\ job'.closed = job.closed
        /\ job'.listed = job.listed
        /\ job'.at \in {"mark_stale", "persist", "list", "flat_lookup", "admin_sync"}
    BY <1>0, <1>18, FinishesClosing
  <2> QED
    BY <1>2, <1>18, <2>1 DEF all_closed, At
<1>19. CASE flat_lookup
  <2>1. PICK rows \in SUBSET Tickets :
          /\ Got(Active \cap OfKey(job.by), rows)
          /\ Goes /\ job.at = "flat_lookup" /\ job'.at = "persist"
          /\ job'.rows = Oldest(IF rows # {} THEN rows ELSE job.listed)
    BY <1>0, <1>19, LooksUpAgain
  <2>2. \A t \in rows : t <= used
    BY <2>1, OldestOfKey
  <2>3. \A t \in job.listed : t <= used
    <3>1. job # Idle
      BY <1>19 DEF flat_lookup, At
    <3> QED
      BY <2>1, <3>1 DEF OwnRows
  <2>4. job.listed \subseteq Tickets
    BY <2>1 DEF Goes, GoodJobs, Jobs
  <2>5. \A t \in job'.rows : t <= used'
    BY <1>1, <2>1, <2>2, <2>3, <2>4, OldestIsARow
  <2> QED
    BY <2>1, <2>5 DEF OwnRows
<1>20. CASE job' = job
  <2>1. /\ job.rows \subseteq Tickets /\ job.todo \subseteq Tickets
        /\ job.listed \subseteq Tickets /\ job.closed \subseteq Tickets
        /\ (job.at \in {"insert", "partial", "breakeven"} => job.target \in Tickets)
    BY <1>0, <1>20 DEF GoodJobs, Jobs
  <2>2. \A t \in Tickets : t <= used => t <= used' /\ pos'[t].owner = pos[t].owner
    BY <1>1
  <2> QED
    BY <1>0, <1>20, <2>1, <2>2 DEF OwnRows
<1> QED
  BY <1>4, <1>5, <1>6, <1>7, <1>8, <1>9, <1>10, <1>11, <1>12, <1>13, <1>14, <1>15, <1>16,
     <1>17, <1>18, <1>19, <1>20
     DEF Next, vars, Done, order_refused, insert_position, insert_conflicts, insert_fails,
         partial_close_fails, persist, admin_sync, terminal_closes, on_terminal_close, Crash

-----------------------------------------------------------------------------
(* A signal touches what it may touch *)

\* What the running message may have listed for closing.
MayClose(t) ==
    LET o == pos[t].owner IN
    /\ job.kind = "ADMIN" => job.by.strategy = All \/ o.strategy = job.by.strategy
    /\ job.kind # "ADMIN" =>
         /\ o.strategy = job.by.strategy \/ job.then = "retry"
         /\ settings.positions /\ job.then # "failsafe" => o = job.by

Reach ==
    job # Idle =>
        /\ job.then = "retry" => ~settings.strategies /\ ~settings.positions
        /\ job.at \in {"partial", "breakeven"} /\ settings.positions =>
             pos[job.target].owner = job.by
        /\ job.at = "close" => \A t \in job.todo : MayClose(t)

LEMMA OwnerIsKey ==
    ASSUME NEW o \in Owners \cup {NoOwner}, NEW by \in Owners, HasKey(o, by, TRUE)
    PROVE  o = by
BY ForexAssumption DEF Owners, NoOwner, HasKey

LEMMA ReachStart == Init => Reach
BY DEF Init, Reach

LEMMA ReachStep ==
    Typed /\ Opened /\ OwnRows /\ Reach /\ [Next]_vars => Reach'
<1> SUFFICES ASSUME Typed, Opened, OwnRows, Reach, [Next]_vars, job' # Idle PROVE Reach'
  BY DEF Reach
<1> USE ForexAssumption
<1>0. /\ used \in 0..MaxTicket /\ job \in GoodJobs \cup {Idle} /\ settings' = settings
      /\ \A t \in Tickets : pos[t].owner \in Owners \cup {NoOwner}
      /\ settings.positions \in BOOLEAN
  BY SettingsKept DEF Typed, OpenPositions, Positions, Settings
<1>1. ASSUME NEW t \in Tickets, t <= used PROVE pos'[t].owner = pos[t].owner
  BY <1>1, TicketsKept
\* The message goes on and neither lists nor takes another ticket.
<1>2. ASSUME Goes, job # Idle,
             job'.then # "retry" \/ (job'.then = job.then) \/ MayRetry,
             job'.at \in {"partial", "breakeven"} =>
               job.at \in {"partial", "breakeven"} /\ job'.target = job.target,
             job'.at = "close" =>
               job.at = "close" /\ job'.todo \subseteq job.todo /\ job'.then = job.then
      PROVE  Reach'
  <2>1. job'.then = "retry" => ~settings'.strategies /\ ~settings'.positions
    BY <1>0, <1>2 DEF Reach, MayRetry
  <2>2. job'.at \in {"partial", "breakeven"} /\ settings'.positions =>
          pos'[job'.target].owner = job'.by
    <3>1. SUFFICES ASSUME job'.at \in {"partial", "breakeven"}, settings.positions
                   PROVE  pos'[job'.target].owner = job'.by
      BY <1>0
    <3>2. job.target \in Tickets /\ job.target <= used /\ job'.target = job.target
      BY <1>2, <3>1 DEF OwnRows, Goes, GoodJobs
    <3>3. pos[job.target].owner = job.by
      BY <1>2, <3>1 DEF Reach
    <3> QED
      BY <1>1, <1>2, <3>2, <3>3 DEF Goes
  <2>3. ASSUME job'.at = "close", NEW t \in job'.todo PROVE MayClose(t)'
    <3>1. t \in job.todo /\ t \in Tickets /\ t <= used
      BY <1>2, <2>3 DEF OwnRows, Goes, GoodJobs, Jobs
    <3>2. MayClose(t)
      BY <1>2, <2>3, <3>1 DEF Reach
    <3>3. pos'[t].owner = pos[t].owner
      BY <1>1, <3>1
    <3> QED
      BY <1>0, <1>2, <2>3, <3>2, <3>3 DEF MayClose, Goes
  <2> QED
    BY <2>1, <2>2, <2>3 DEF Reach
<1>3. CASE receive
  BY <1>3, Receives DEF Reach, GoodJobs, Control
<1>4. CASE tp1_list
  <2>1. PICK t \in Live \cap OfStrategy(job.by.strategy) \cap Scope :
          /\ Goes /\ job'.at = "partial" /\ job'.target = t /\ job'.then = "exit"
          /\ job.kind = "TP1" /\ job.then = "exit" /\ job.at = "tp1_list"
    BY <1>0, <1>4, ListsForTP1
  <2>2. t \in Tickets /\ t <= used /\ job # Idle
    <3>1. t \in Tickets /\ pos[t].live
      BY DEF Live
    <3>2. t <= used
      BY <1>0, <3>1 DEF Opened, Tickets
    <3> QED
      BY <1>4, <3>1, <3>2 DEF tp1_list, At
  <2>3. ASSUME settings.positions PROVE pos[t].owner = job.by
    <3>1. t \in job.rows
      BY <2>1, <2>3 DEF Scope
    <3>2. HasKey(pos[t].owner, job.by, settings.positions)
      BY <2>1, <2>2, <3>1 DEF OwnRows
    <3>3. HasKey(pos[t].owner, job.by, TRUE)
      BY <2>3, <3>2 DEF HasKey
    <3>4. job.by \in Owners
      BY <2>1 DEF Goes, GoodJobs
    <3> QED
      BY <1>0, <2>2, <3>3, <3>4, OwnerIsKey
  <2>4. pos'[t].owner = pos[t].owner
    BY <1>1, <2>2
  <2> QED
    BY <1>0, <2>1, <2>3, <2>4 DEF Reach, Goes
<1>5. CASE list_positions
  <2>1. PICK found \in SUBSET Tickets :
          /\ Got(Reachable, found)
          /\ Goes /\ job.at = "list" /\ job'.at = "close" /\ job'.then = job.then
          /\ job'.todo = found
    BY <1>0, <1>5, Lists
  <2>2. job # Idle /\ Control(job)
    BY <1>5, <2>1 DEF list_positions, At, Goes, GoodJobs
  <2>3. ASSUME NEW t \in found PROVE MayClose(t)
    <3>1. t \in Reachable /\ t \in Tickets
      BY <2>1, <2>3 DEF Got
    <3>2. job.then = "retry" \/ job.by.strategy = All \/ pos[t].owner.strategy = job.by.strategy
      BY <3>1 DEF Reachable, OfStrategy
    <3>3. CASE job.kind = "ADMIN"
      BY <2>2, <3>2, <3>3 DEF MayClose, Control
    <3>4. CASE job.kind # "ADMIN"
      <4>1. job.by \in Owners /\ job.by.strategy # All
        BY <2>1, <3>4 DEF Goes, GoodJobs, Owners
      <4>2. ASSUME settings.positions, job.then # "failsafe" PROVE pos[t].owner = job.by
        <5>1. t \in job.rows
          BY <3>1, <3>4, <4>2 DEF Reachable, Scope
        <5>2. HasKey(pos[t].owner, job.by, settings.positions)
          BY <2>1, <2>2, <3>4, <5>1 DEF OwnRows
        <5>3. HasKey(pos[t].owner, job.by, TRUE)
          BY <4>2, <5>2 DEF HasKey
        <5> QED
          BY <1>0, <3>1, <4>1, <5>3, OwnerIsKey
      <4> QED
        BY <3>2, <3>4, <4>1, <4>2 DEF MayClose
    <3> QED
      BY <3>3, <3>4
  <2>4. \A t \in found : pos'[t].owner = pos[t].owner
    BY <1>5, <2>1 DEF list_positions, Reading
  <2>5. \A t \in found : MayClose(t)'
    BY <1>0, <2>1, <2>3, <2>4 DEF MayClose, Goes
  <2> QED
    BY <1>0, <2>1, <2>2, <2>5 DEF Reach
<1>6. CASE symbol_open_rejection \/ max_open_orders_rejection \/ other_holders
  <2>1. \E from \in {"guard", "cap", "netting"},
           to \in {"cap", "netting", "db_stale"} : At(from) /\ Goto(to)
    BY <1>6 DEF symbol_open_rejection, max_open_orders_rejection, other_holders, Done
  <2>2. Goes /\ job'.at \in {"cap", "netting", "db_stale"} /\ job # Idle /\ job'.kind = "ENTRY"
    BY <1>0, <2>1, GuardPasses DEF At, Goes
  <2>3. job'.then # "retry"
    BY <2>2 DEF Goes, GoodJobs, Control
  <2> QED
    BY <1>2, <2>2, <2>3
<1>7. CASE db_stale \/ find_stale \/ mark_stale \/ order_filled
  <2>1. Goes /\ job.kind = "ENTRY"
        /\ job'.at \in {"find_stale", "mark_stale", "list", "order", "insert"}
    BY <1>0, <1>7, ReadsStale, FindsStale, MarksStale, FillsOrder
  <2>2. job'.then # "retry"
    BY <2>1 DEF Goes, GoodJobs, Control
  <2> QED
    BY <1>2, <1>7, <2>1, <2>2 DEF db_stale, find_stale, mark_stale, order_filled, At
<1>8. CASE get_db_position
  <2>1. Goes /\ job.at = "lookup" /\ job'.at \in {"list", "live_guard"}
    BY <1>0, <1>8, LooksUp
  <2>2. job'.then \in {"flat", "exit"}
    BY <1>0, <1>8, <2>1, LooksUp DEF Goes, GoodJobs, Control
  <2> QED
    BY <1>2, <1>8, <2>1, <2>2 DEF get_db_position, At
<1>9. CASE live_guard
  BY <1>0, <1>2, <1>9, GuardsLive DEF live_guard, At
<1>10. CASE partial_close
  BY <1>0, <1>2, <1>10, ReducesPosition DEF partial_close, At
<1>11. CASE update_position_sl
  BY <1>0, <1>2, <1>11, MovesStop DEF update_position_sl, At
<1>12. CASE update_position_sl_fails
  BY <1>0, <1>2, <1>12, FallsBack DEF update_position_sl_fails, At
<1>13. CASE close_position
  BY <1>0, <1>2, <1>13, Closes DEF close_position, At
<1>14. CASE all_closed
  BY <1>0, <1>2, <1>14, FinishesClosing DEF all_closed, At
<1>15. CASE flat_lookup
  BY <1>0, <1>2, <1>15, LooksUpAgain DEF flat_lookup, At
<1>16. CASE job' = job
  BY <1>0, <1>2, <1>16 DEF Goes
<1> QED
  BY <1>3, <1>4, <1>5, <1>6, <1>7, <1>8, <1>9, <1>10, <1>11, <1>12, <1>13, <1>14, <1>15, <1>16
     DEF Next, vars, Done, order_refused, insert_position, insert_conflicts, insert_fails,
         partial_close_fails, persist, admin_sync, terminal_closes, on_terminal_close, Crash

\* One step of the code changes an open position only as MayTouch allows.
LEMMA TouchStep ==
    ASSUME Typed, Opened, OwnRows, Reach, [Next]_vars, NEW t \in Live,
           pos'[t] # pos[t], reports' = reports
    PROVE  MayTouch(t)
<1> USE ForexAssumption
<1>0. /\ used \in 0..MaxTicket /\ job \in GoodJobs \cup {Idle} /\ settings.positions \in BOOLEAN
      /\ pos \in [Tickets -> OpenPositions] /\ t \in Tickets /\ pos[t].live
  BY DEF Typed, Live, Settings
<1>1. CASE order_filled
  <2>1. used' \in Tickets /\ used' = used + 1
    BY <1>0, <1>1, FillsOrder
  <2>2. t # used'
    BY <1>0, <2>1 DEF Opened, Tickets
  <2> QED
    BY <1>0, <1>1, <2>1, <2>2 DEF order_filled
<1>2. ASSUME job \in GoodJobs, job # Idle, job.at \in {"partial", "breakeven"}, job.kind = "TP1",
             job.then = "exit", t \in Picks(Live \cap OfStrategy(job.by.strategy))
      PROVE  MayTouch(t)
  <2>1. job.by \in Owners /\ job.by.strategy # All /\ job.target \in Tickets
    BY <1>2 DEF GoodJobs, Owners
  <2>2. pos[t].owner.strategy = job.by.strategy
    BY <1>2, <2>1 DEF Picks, OfStrategy
  <2>3. ASSUME settings.positions, t # job.target PROVE ~pos[job.target].live
    <3>1. pos[job.target].owner = job.by
      BY <1>2, <2>3 DEF Reach
    <3>2. job.target \notin Live \cap OfStrategy(job.by.strategy)
      BY <1>2, <2>3 DEF Picks
    <3> QED
      BY <2>1, <3>1, <3>2 DEF Live, OfStrategy
  <2>4. settings.positions /\ t = job.target => pos[t].owner = job.by
    BY <1>2 DEF Reach
  <2> QED
    BY <1>0, <1>2, <2>2, <2>3, <2>4 DEF MayTouch
<1>3. CASE partial_close
  <2>1. PICK u \in Picks(Live \cap OfStrategy(job.by.strategy)) :
          pos' = [pos EXCEPT ![u] = Shrunk(pos[u])]
    BY <1>3 DEF partial_close
  <2>2. t = u
    BY <1>0, <2>1
  <2> QED
    BY <1>0, <1>2, <1>3, <2>1, <2>2, ReducesPosition DEF Goes, partial_close, At
<1>4. CASE update_position_sl
  <2>1. PICK u \in Picks(Live \cap OfStrategy(job.by.strategy)) :
          pos' = [pos EXCEPT ![u].stop = "breakeven"]
    BY <1>4 DEF update_position_sl
  <2>2. t = u
    BY <1>0, <2>1
  <2> QED
    BY <1>0, <1>2, <1>4, <2>1, <2>2, MovesStop DEF Goes, update_position_sl, At
<1>5. CASE close_position
  <2>1. PICK u \in job.todo :
          /\ u \in Tickets /\ job.at = "close" /\ Goes
          /\ pos' = pos \/ pos' = [pos EXCEPT ![u].live = FALSE]
    BY <1>0, <1>5, Closes
  <2>2. t = u
    BY <1>0, <2>1
  <2>3. job # Idle
    BY <1>5 DEF close_position, At
  <2>4. MayClose(t) /\ Control(job) /\ (job.then = "retry" => ~settings.strategies /\ ~settings.positions)
    BY <2>1, <2>2, <2>3 DEF Reach, Goes, GoodJobs
  <2>5. job.then = "failsafe" => job.kind = "TP1"
    BY <2>4 DEF Control
  <2>6. job.kind = "TP1" => job.then # "retry" /\ (job.at = "close" => job.then = "failsafe")
    BY <2>4 DEF Control
  <2> QED
    BY <1>0, <2>1, <2>4, <2>5, <2>6 DEF MayTouch, MayClose
<1>6. CASE terminal_closes
  <2>1. PICK u \in Live : pos' = [pos EXCEPT ![u].live = FALSE] /\ reports' = reports \cup {u}
    BY <1>6 DEF terminal_closes
  <2>2. u \in reports /\ pos[u].live
    BY <2>1 DEF Live
  <2> QED
    BY <2>2 DEF Opened
<1> QED
  BY <1>1, <1>3, <1>4, <1>5, <1>6
     DEF Next, vars, Reading, receive, symbol_open_rejection, max_open_orders_rejection,
         other_holders, db_stale, find_stale, mark_stale, order_refused, insert_position,
         insert_conflicts, insert_fails, get_db_position, live_guard, tp1_list,
         partial_close_fails, update_position_sl_fails, list_positions, all_closed,
         flat_lookup, persist, admin_sync, on_terminal_close, Crash

\* Whatever the signals, the settings and the order of the terminal's closes, a
\* running message closes, reduces or re-stops only positions it may reach
\* (SignalHandler._execute_exit, _handle_entry, _handle_flat; ForexExecutor._pick).
THEOREM TouchesOwnOnly == Spec => OwnTicketOnly
<1>1. Typed /\ Opened /\ OwnRows /\ Reach /\ [Next]_vars
        => [\A t \in Live : pos'[t] # pos[t] /\ reports' = reports => MayTouch(t)]_vars
  BY TouchStep
<1>2. Init => Typed /\ Opened /\ OwnRows /\ Reach
  BY TypedStart, OpenedStart, ReachStart
<1>3. Typed /\ Opened /\ OwnRows /\ Reach /\ [Next]_vars => (Typed /\ Opened /\ OwnRows /\ Reach)'
  BY TypedStep, OpenedStep, OwnRowsStep, ReachStep
<1> QED
  BY <1>1, <1>2, <1>3, PTL DEF Spec, OwnTicketOnly

-----------------------------------------------------------------------------
(* ADMIN FLAT tells the truth *)

\* What an ADMIN FLAT closed is gone, and what it did not list was not there.
AdminKnows ==
    job # Idle /\ job.kind = "ADMIN" /\ job.at \in {"close", "admin_sync"} =>
        /\ \A t \in job.closed : ~pos[t].live
        /\ ~job.blind => Live \cap OfStrategy(job.by.strategy) \subseteq job.listed

LEMMA AdminKnowsStep ==
    Typed /\ Opened /\ OwnRows /\ AdminKnows /\ [Next]_vars => AdminKnows'
<1> SUFFICES ASSUME Typed, Opened, OwnRows, AdminKnows, [Next]_vars,
                    job' # Idle, job'.kind = "ADMIN", job'.at \in {"close", "admin_sync"}
             PROVE  /\ \A t \in job'.closed : ~pos'[t].live
                    /\ ~job'.blind =>
                         (Live \cap OfStrategy(job.by.strategy))' \subseteq job'.listed
  BY DEF AdminKnows
<1> USE ForexAssumption
<1>0. /\ used \in 0..MaxTicket /\ job \in GoodJobs \cup {Idle}
  BY DEF Typed
<1>1. ASSUME NEW t \in Tickets, ~order_filled
      PROVE  pos'[t].owner = pos[t].owner /\ (pos'[t].live => pos[t].live)
  BY <1>1, PositionsKept
<1>2. order_filled => FALSE
  BY <1>0, FillsOrder DEF Goes
<1>3. ASSUME job'.by = job.by
      PROVE  (Live \cap OfStrategy(job.by.strategy))' \subseteq Live \cap OfStrategy(job.by.strategy)
  BY <1>1, <1>2, <1>3 DEF Live, OfStrategy
<1>4. CASE list_positions
  <2>1. PICK found \in SUBSET Tickets :
          /\ Goes /\ job'.listed = found /\ job'.closed = {}
          /\ job'.blind <=> found # Reachable
    BY <1>0, <1>4, Lists
  <2>2. job.kind = "ADMIN" /\ job.then = "admin"
    BY <2>1 DEF Goes, GoodJobs, Control
  <2>3. Reachable = Live \cap OfStrategy(job.by.strategy)
    BY <2>2 DEF Reachable, Live
  <2> QED
    BY <1>3, <2>1, <2>3 DEF Goes
<1>5. CASE close_position
  <2>1. PICK t \in job.todo :
          /\ t \in Tickets /\ job.at = "close" /\ Goes
          /\ job'.listed = job.listed /\ job'.blind = job.blind
          /\ \/ pos' = [pos EXCEPT ![t].live = FALSE] /\ job'.closed = job.closed \cup {t}
             \/ job'.closed = job.closed
    BY <1>0, <1>5, Closes
  <2>2. job # Idle /\ job.kind = "ADMIN" /\ job.closed \subseteq Tickets
    BY <1>5, <2>1 DEF close_position, At, Goes, GoodJobs, Jobs
  <2>3. \A u \in job.closed : ~pos'[u].live
    BY <1>1, <1>2, <2>1, <2>2 DEF AdminKnows
  <2>4. t \in job'.closed \ job.closed => ~pos'[t].live
    BY <2>1 DEF Typed, OpenPositions, Positions
  <2>5. ~job'.blind => Live \cap OfStrategy(job.by.strategy) \subseteq job'.listed
    BY <2>1, <2>2 DEF AdminKnows
  <2>6. \A u \in job'.closed : u \in job.closed \/ u = t
    BY <2>1
  <2> QED
    BY <1>3, <2>1, <2>3, <2>4, <2>5, <2>6 DEF Goes
<1>6. CASE all_closed
  <2>1. /\ Goes /\ job.at = "close" /\ job'.closed = job.closed
        /\ job'.listed = job.listed /\ job'.blind = job.blind
    BY <1>0, <1>6, FinishesClosing
  <2>2. job # Idle /\ job.kind = "ADMIN" /\ pos' = pos
    BY <1>6, <2>1 DEF all_closed, At, Goes, Reading
  <2> QED
    BY <1>3, <2>1, <2>2 DEF AdminKnows, Goes
<1>7. CASE job' = job
  <2>1. job \in Jobs /\ job.closed \subseteq Tickets
    BY <1>0, <1>7 DEF GoodJobs, Jobs
  <2> QED
    BY <1>1, <1>2, <1>3, <1>7, <2>1 DEF AdminKnows
\* Every other step leads elsewhere, or is not an operator's.
<1>8. CASE receive
  BY <1>8, Receives
<1>9. CASE symbol_open_rejection \/ max_open_orders_rejection \/ other_holders
  <2>1. \E from \in {"guard", "cap", "netting"},
           to \in {"cap", "netting", "db_stale"} : At(from) /\ Goto(to)
    BY <1>9 DEF symbol_open_rejection, max_open_orders_rejection, other_holders, Done
  <2> QED
    BY <1>0, <2>1, GuardPasses
<1>10. CASE db_stale \/ find_stale \/ mark_stale
  BY <1>0, <1>10, ReadsStale, FindsStale, MarksStale DEF Goes
<1>11. CASE get_db_position \/ live_guard \/ tp1_list
  BY <1>0, <1>11, LooksUp, GuardsLive, ListsForTP1 DEF Goes
<1>12. CASE partial_close \/ update_position_sl \/ update_position_sl_fails
  BY <1>0, <1>12, ReducesPosition, MovesStop, FallsBack DEF Goes
<1>13. CASE flat_lookup
  BY <1>0, <1>13, LooksUpAgain DEF Goes
<1> QED
  BY <1>2, <1>4, <1>5, <1>6, <1>7, <1>8, <1>9, <1>10, <1>11, <1>12, <1>13
     DEF Next, vars, Done, order_refused, insert_position, insert_conflicts, insert_fails,
         partial_close_fails, persist, admin_sync, terminal_closes, on_terminal_close, Crash

LEMMA FlattedIsGone ==
    ASSUME Typed, Opened, AdminKnows, [Next]_vars, NEW t \in Tickets,
           At("admin_sync"), row'[t] # row[t]
    PROVE  ~pos[t].live \/ job.blind
<1>0. /\ job \in GoodJobs \cup {Idle} /\ row \in [Tickets -> Statuses]
  BY DEF Typed
<1>1. job # Idle /\ job.at = "admin_sync" /\ job.kind = "ADMIN"
  BY <1>0 DEF At, GoodJobs, Control
<1>2. CASE admin_sync
  <2>1. PICK rows \in SUBSET Tickets :
          /\ Got(Active \cap OfStrategy(job.by.strategy), rows)
          /\ row' = [u \in Tickets |-> IF u \in Flatted(rows) THEN "FLATTED" ELSE row[u]]
    BY <1>2 DEF admin_sync
  <2>2. t \in rows /\ (t \in job.closed \/ t \notin job.listed)
    BY <2>1 DEF Flatted
  <2>3. t \in OfStrategy(job.by.strategy)
    BY <2>1, <2>2 DEF Got
  <2> QED
    BY <1>1, <2>2, <2>3 DEF AdminKnows, Live
<1>3. CASE on_terminal_close
  <2>1. t \in reports
    BY <1>0, <1>3 DEF on_terminal_close
  <2> QED
    BY <2>1 DEF Opened
<1> QED
  BY <1>1, <1>2, <1>3
     DEF Next, vars, At, Reading, receive, symbol_open_rejection, max_open_orders_rejection,
         other_holders, db_stale, find_stale, mark_stale, order_filled, order_refused,
         insert_position, insert_conflicts, insert_fails, get_db_position, live_guard, tp1_list,
         partial_close, partial_close_fails, update_position_sl, update_position_sl_fails,
         list_positions, close_position, all_closed, flat_lookup, persist, terminal_closes, Crash

\* An ADMIN FLAT marks no position flat that is open, whatever closes failed and
\* whatever the terminal did meanwhile, unless it could not read the positions
\* (_handle_admin_flat, _reconcile_flat_db).
THEOREM AdminFlatIsTrue == Spec => AdminFlatTellsTruth
<1> DEFINE Inv == Typed /\ Opened /\ OwnRows /\ AdminKnows
<1>1. Inv /\ [Next]_vars
        => [\A t \in Tickets :
              At("admin_sync") /\ row'[t] # row[t] => ~pos[t].live \/ job.blind]_vars
  BY FlattedIsGone
<1>2. Init => Inv
  BY TypedStart, OpenedStart DEF Init, AdminKnows
<1>3. Inv /\ [Next]_vars => Inv'
  BY TypedStep, OpenedStep, OwnRowsStep, AdminKnowsStep
<1> QED
  BY <1>1, <1>2, <1>3, PTL DEF Spec, AdminFlatTellsTruth

-----------------------------------------------------------------------------
(* Rows and positions agree while no call fails *)

LEMMA FaultsGrow == Typed /\ [Next]_vars => faults <= faults'
<1> SUFFICES ASSUME Typed, [Next]_vars PROVE faults <= faults'
  OBVIOUS
<1>1. faults \in 0..MaxFaults /\ MaxFaults \in Nat
  BY ForexAssumption DEF Typed
<1>2. ASSUME Fault PROVE faults <= faults'
  BY <1>1, <1>2 DEF Fault
<1>3. ASSUME NEW S, NEW answer, Got(S, answer) PROVE faults <= faults'
  BY <1>1, <1>2, <1>3 DEF Got
<1>4. CASE UNCHANGED faults
  BY <1>1, <1>4
<1>5. CASE close_position
  BY <1>2, <1>4, <1>5, Closes DEF Typed
<1> QED
  BY <1>2, <1>3, <1>4, <1>5
     DEF Next, vars, receive, symbol_open_rejection, max_open_orders_rejection,
         other_holders, db_stale, find_stale, mark_stale, order_filled, order_refused,
         insert_position, insert_conflicts, insert_fails, get_db_position, live_guard, tp1_list,
         partial_close, partial_close_fails, update_position_sl, update_position_sl_fails,
         list_positions, all_closed, flat_lookup, persist, admin_sync,
         terminal_closes, on_terminal_close, Crash

\* While a message is being handled no row becomes active.
LEMMA ActiveShrinks ==
    ASSUME Typed, [Next]_vars, NEW t \in Tickets, row'[t] \in ACTIVE
    PROVE  \/ row[t] \in ACTIVE
           \/ insert_position /\ t = job.target
           \/ persist /\ t \in job.rows /\ job.status \in ACTIVE
<1>1. row \in [Tickets -> Statuses] /\ job \in GoodJobs \cup {Idle}
      /\ "FORCED_CLOSED" \notin ACTIVE /\ "FLATTED" \notin ACTIVE
      /\ "TERMINAL_CLOSED" \notin ACTIVE
  BY DEF Typed, ACTIVE
<1>2. CASE UNCHANGED row
  BY <1>2
<1>3. CASE mark_stale
  BY <1>1, <1>3 DEF mark_stale
<1>4. CASE insert_position
  BY <1>1, <1>4 DEF insert_position
<1>5. CASE get_db_position
  BY <1>1, <1>5, LooksUp
<1>6. CASE flat_lookup
  BY <1>1, <1>6, LooksUpAgain
<1>7. CASE persist
  BY <1>1, <1>7 DEF persist, Persisted
<1>8. CASE admin_sync
  <2>1. PICK S : row' = [u \in Tickets |-> IF u \in S THEN "FLATTED" ELSE row[u]]
    BY <1>8 DEF admin_sync
  <2> QED
    BY <1>1, <2>1
<1>9. CASE on_terminal_close
  BY <1>1, <1>9 DEF on_terminal_close
<1> QED
  BY <1>2, <1>3, <1>4, <1>5, <1>6, <1>7, <1>8, <1>9
     DEF Next, vars, Reading, receive, symbol_open_rejection, max_open_orders_rejection,
         other_holders, db_stale, find_stale, order_filled, order_refused,
         insert_conflicts, insert_fails, live_guard, tp1_list,
         partial_close, partial_close_fails, update_position_sl, update_position_sl_fails,
         list_positions, close_position, all_closed, terminal_closes, Crash

\* The active rows a message works for only become fewer.
LEMMA KeyShrinks ==
    ASSUME Typed, Opened, [Next]_vars, Goes, job' # Idle
    PROVE  (Active \cap OfKey(job.by))' \subseteq Active \cap OfKey(job.by)
<1> SUFFICES ASSUME NEW t \in Tickets, row'[t] \in ACTIVE, t \in OfKey(job.by)'
             PROVE  row[t] \in ACTIVE /\ t \in OfKey(job.by)
  BY DEF Active
<1>1. row[t] \in ACTIVE
  BY ActiveShrinks DEF insert_position, persist, Done
<1>2. t <= used
  BY <1>1, ForexAssumption DEF Opened, ACTIVE, Tickets, Typed
<1>3. pos'[t].owner = pos[t].owner /\ settings' = settings
  BY <1>2, TicketsKept, SettingsKept
<1> QED
  BY <1>1, <1>3 DEF OfKey, OfStrategy, Goes

RowsTrue == \A t \in Tickets : row[t] \in CLOSED => ~pos[t].live

SameKey(t, u) ==
    /\ pos[t].owner.strategy = pos[u].owner.strategy
    /\ settings.positions => pos[t].owner.uxid = pos[u].owner.uxid

\* One active row per key.
OneRowPerKey == \A t, u \in Active : SameKey(t, u) => t = u

\* Past its first read, a message knows every active row of its key.
KnowsRows(j) ==
    /\ j.kind # "ADMIN" /\ j.at \notin {"guard", "cap", "netting", "db_stale", "lookup"}
    /\ j.kind = "FLAT" => j.at # "persist"

JobCalm ==
    /\ KnowsRows(job) => Active \cap OfKey(job.by) \subseteq job.rows
    /\ job.at \in {"order", "insert", "flat_lookup"} => Active \cap OfKey(job.by) = {}
    /\ job.at = "insert" => pos[job.target].owner = job.by
    /\ job.kind = "TP1" =>
         /\ \A r, s \in job.rows : r = s
         /\ \A r \in job.rows : HasKey(pos[r].owner, job.by, settings.positions)
    /\ job.at \in {"close", "admin_sync"} => ~job.blind
    /\ job.at = "close" => job.listed \cap Live \subseteq job.todo
    /\ job.at = "close" /\ job.kind # "ADMIN" => job.rows \cap Live \subseteq job.todo
    /\ job.at = "mark_stale" => job.rows \cap Live = {}
    /\ job.at = "flat_lookup" => job.listed \cap Live = {}
    /\ job.at = "persist" /\ job.status \in CLOSED => job.rows \cap Live = {}
    /\ job.at = "persist" /\ job.status \in ACTIVE => job.kind = "TP1"
    /\ job.at = "breakeven" => job.status = "TP1"

Calm == faults = 0 => RowsTrue /\ OneRowPerKey /\ (job # Idle => JobCalm)

LEMMA CalmStart == Init => Calm
BY DEF Init, Calm, RowsTrue, OneRowPerKey, Active, ACTIVE, CLOSED

\* What JobCalm says of a message that goes on with the rows it had.
LEMMA GoesOnCalmly ==
    ASSUME Typed, Opened, OwnRows, [Next]_vars, Goes, job # Idle, job' # Idle, JobCalm,
           job'.rows = job.rows, KnowsRows(job') => KnowsRows(job),
           job'.at \notin {"order", "insert", "close", "mark_stale", "flat_lookup", "admin_sync"},
           job'.at = "persist" => job'.status \notin CLOSED /\ job'.kind = "TP1",
           job'.at = "breakeven" => job'.status = "TP1"
    PROVE  JobCalm'
<1>1. (Active \cap OfKey(job.by))' \subseteq Active \cap OfKey(job.by) /\ settings' = settings
  BY KeyShrinks, SettingsKept
<1>2. KnowsRows(job') => Active' \cap (OfKey(job.by))' \subseteq job'.rows
  BY <1>1 DEF JobCalm
<1>3. \A r \in job.rows : r \in Tickets /\ r <= used
  BY DEF OwnRows, Goes, GoodJobs, Jobs
<1>4. \A r \in job.rows : pos'[r].owner = pos[r].owner
  BY <1>3, TicketsKept
<1>5. job'.kind = "TP1" =>
        /\ \A r, s \in job'.rows : r = s
        /\ \A r \in job'.rows : HasKey(pos'[r].owner, job'.by, settings'.positions)
  BY <1>1, <1>4 DEF JobCalm, Goes
<1> QED
  BY <1>2, <1>5 DEF JobCalm, KnowsRows

LEMMA JobCalmStep ==
    ASSUME Typed, Opened, OwnRows, [Next]_vars, OneRowPerKey, job # Idle => JobCalm,
           faults' = 0, job' # Idle
    PROVE  JobCalm'
<1> USE ForexAssumption
<1>0. /\ used \in 0..MaxTicket /\ job \in GoodJobs \cup {Idle} /\ settings' = settings
      /\ faults \in 0..MaxFaults /\ row \in [Tickets -> Statuses] /\ ~Fault
  BY SettingsKept, FaultTypes DEF Typed
<1>1. ASSUME NEW S, NEW answer, Got(S, answer) PROVE answer = S
  BY <1>0, <1>1, GotTypes
<1>2. ASSUME NEW t \in Tickets, t <= used, pos'[t].live PROVE pos[t].live
  BY <1>2, TicketsKept
<1>3. CASE receive
  BY <1>3, Receives DEF JobCalm, KnowsRows
<1>4. CASE symbol_open_rejection \/ max_open_orders_rejection \/ other_holders
  <2>1. \E from \in {"guard", "cap", "netting"},
           to \in {"cap", "netting", "db_stale"} : At(from) /\ Goto(to)
    BY <1>4 DEF symbol_open_rejection, max_open_orders_rejection, other_holders, Done
  <2>2. /\ job'.at \in {"cap", "netting", "db_stale"} /\ job'.kind = "ENTRY"
    BY <1>0, <2>1, GuardPasses DEF Goes
  <2> QED
    BY <2>2 DEF JobCalm, KnowsRows
<1>5. CASE db_stale
  <2>1. PICK rows \in SUBSET Tickets :
          /\ Got(Active \cap OfKey(job.by), rows)
          /\ Goes /\ job.kind = "ENTRY" /\ job.at = "db_stale"
          /\ job'.at = "find_stale" /\ job'.rows = rows
    BY <1>0, <1>5, ReadsStale
  <2>2. rows = Active \cap OfKey(job.by)
    BY <1>1, <2>1
  <2>3. (Active \cap OfKey(job.by))' \subseteq job'.rows
    BY <2>1, <2>2, KeyShrinks
  <2>4. Active' \cap OfKey(job.by)' \subseteq job'.rows
    BY <2>3
  <2> QED
    BY <2>1, <2>4 DEF JobCalm, Goes
<1>6. CASE find_stale
  <2>1. PICK stale \in SUBSET Tickets :
          /\ Got(Live \cap OfStrategy(job.by.strategy)
                   \cap (IF settings.positions THEN job.rows ELSE Tickets), stale)
          /\ Goes /\ job.kind = "ENTRY" /\ job.at = "find_stale" /\ job'.rows = job.rows
          /\ IF stale = {} THEN job'.at = "mark_stale" ELSE job'.at = "list"
    BY <1>0, <1>6, FindsStale
  <2>2. job # Idle /\ JobCalm /\ KnowsRows(job) /\ pos' = pos /\ job.rows \subseteq Tickets
    BY <1>6, <2>1 DEF find_stale, At, KnowsRows, Reading, Goes, GoodJobs, Jobs
  <2>3. CASE stale = {}
    <3>1. Live \cap OfStrategy(job.by.strategy)
             \cap (IF settings.positions THEN job.rows ELSE Tickets) = {}
      BY <1>1, <2>1, <2>3
    <3>2. ASSUME NEW r \in job.rows PROVE r \in OfStrategy(job.by.strategy)
      <4>1. HasKey(pos[r].owner, job.by, settings.positions)
        BY <2>1, <2>2 DEF OwnRows
      <4> QED
        BY <2>2, <4>1 DEF HasKey, OfStrategy
    <3>3. job.rows \cap Live = {}
      BY <2>2, <3>1, <3>2
    <3>4. Active' \cap OfKey(job.by)' \subseteq job'.rows
      BY <2>1, <2>2, KeyShrinks DEF JobCalm
    <3>5. job'.rows \cap Live' = {}
      BY <2>1, <2>2, <3>3 DEF Live
    <3> QED
      BY <2>1, <2>3, <3>4, <3>5 DEF JobCalm, Goes
  <2>4. CASE stale # {}
    BY <2>1, <2>2, <2>4, GoesOnCalmly DEF KnowsRows
  <2> QED
    BY <2>3, <2>4
<1>7. CASE mark_stale
  <2>1. /\ Goes /\ job.kind = "ENTRY" /\ job.at = "mark_stale" /\ job'.at = "order"
    BY <1>0, <1>7, MarksStale
  <2>2. job # Idle /\ JobCalm /\ KnowsRows(job)
    BY <1>7, <2>1 DEF mark_stale, At, KnowsRows
  <2>3. row' = [t \in Tickets |-> IF t \in job.rows THEN "FORCED_CLOSED" ELSE row[t]]
    BY <1>0, <1>7 DEF mark_stale
  <2>4. Active' \cap OfKey(job.by)' \subseteq Active \cap OfKey(job.by)
    BY <2>1, KeyShrinks
  <2>5. \A t \in Active' : t \notin job.rows
    BY <2>3 DEF Active, ACTIVE
  <2>6. Active' \cap OfKey(job.by)' = {}
    BY <2>2, <2>4, <2>5 DEF JobCalm
  <2> QED
    BY <2>1, <2>6 DEF JobCalm, Goes
<1>8. CASE order_filled
  <2>1. /\ Goes /\ job.at = "order" /\ job.kind = "ENTRY" /\ job'.at = "insert"
        /\ job'.target = used' /\ used' \in Tickets
    BY <1>0, <1>8, FillsOrder
  <2>2. job # Idle /\ JobCalm
    BY <1>8 DEF order_filled, At
  <2>3. Active' \cap OfKey(job.by)' = {}
    BY <2>1, <2>2, KeyShrinks DEF JobCalm
  <2>4. pos'[used'].owner = job.by
    BY <1>8, <2>1 DEF order_filled, Typed
  <2> QED
    BY <2>1, <2>3, <2>4 DEF JobCalm, Goes
<1>9. CASE get_db_position
  <2>1. PICK rows \in SUBSET Tickets :
          /\ Got(Active \cap OfKey(job.by), rows)
          /\ job.at = "lookup" /\ job.kind \in {"TP1", "CLOSE", "FLAT"}
          /\ Goes /\ job'.rows = Oldest(rows) /\ job'.at \in {"list", "live_guard"}
    BY <1>0, <1>9, LooksUp
  <2>2. rows = Active \cap OfKey(job.by) /\ job.by \in Owners
    BY <1>1, <2>1 DEF Goes, GoodJobs
  <2>3. \A r, s \in rows : r = s
    BY <2>2 DEF OneRowPerKey, SameKey, OfKey, OfStrategy, Owners
  <2>4. Oldest(rows) = rows
    <3>1. \A r \in rows : r <= r
      BY DEF Tickets
    <3> QED
      BY <2>3, <3>1 DEF Oldest
  <2>5. Active' \cap OfKey(job.by)' \subseteq job'.rows
    BY <2>1, <2>2, <2>4, KeyShrinks
  <2>6. \A r \in rows : r <= used /\ HasKey(pos[r].owner, job.by, settings.positions)
    BY <2>1, <2>2, OldestOfKey, KeyHolders
  <2>7. \A r \in rows : pos'[r].owner = pos[r].owner
    BY <2>6, TicketsKept
  <2> QED
    BY <1>0, <2>1, <2>3, <2>4, <2>5, <2>6, <2>7 DEF JobCalm, Goes
<1>10. CASE live_guard \/ tp1_list \/ partial_close \/ update_position_sl
            \/ update_position_sl_fails
  <2>1. /\ Goes /\ job.kind \in {"TP1", "CLOSE"} /\ job'.rows = job.rows
        /\ job.at \in {"live_guard", "tp1_list", "partial", "breakeven"}
    BY <1>0, <1>10, GuardsLive, ListsForTP1, ReducesPosition, MovesStop, FallsBack
  <2>2. job # Idle /\ JobCalm /\ KnowsRows(job)
    BY <1>10, <2>1 DEF KnowsRows, live_guard, tp1_list, partial_close, update_position_sl,
                       update_position_sl_fails, At
  <2>3. /\ job'.at \in {"tp1_list", "list", "partial", "breakeven", "persist"}
        /\ job'.at \in {"breakeven", "persist"} => job'.status = "TP1" /\ job.kind = "TP1"
    BY <1>0, <1>10, <2>2, GuardsLive, ListsForTP1, ReducesPosition, MovesStop, FallsBack
       DEF JobCalm
  <2> QED
    BY <2>1, <2>2, <2>3, GoesOnCalmly DEF CLOSED, Goes
<1>11. CASE list_positions
  <2>1. PICK found \in SUBSET Tickets :
          /\ Got(Reachable, found)
          /\ Goes /\ job.at = "list" /\ job'.at = "close" /\ job'.then = job.then
          /\ job'.rows = job.rows /\ job'.todo = found /\ job'.listed = found
          /\ (job'.blind <=> found # Reachable)
    BY <1>0, <1>11, Lists
  <2>2. job # Idle /\ JobCalm /\ pos' = pos /\ job.rows \subseteq Tickets
    BY <1>11, <2>1 DEF list_positions, At, Reading, Goes, GoodJobs, Jobs
  <2>3. ~job'.blind /\ found = Reachable
    BY <1>1, <2>1
  <2>4. KnowsRows(job') => Active' \cap OfKey(job.by)' \subseteq job'.rows
    BY <2>1, <2>2, KeyShrinks DEF JobCalm, KnowsRows, Goes
  <2>5. ASSUME job.kind # "ADMIN" PROVE job.rows \cap Live \subseteq found
    <3>1. ASSUME NEW r \in job.rows
          PROVE  r \in OfStrategy(job.by.strategy) \cap OfStrategy(All)
      <4>1. HasKey(pos[r].owner, job.by, settings.positions)
        BY <2>1, <2>2, <2>5 DEF OwnRows
      <4> QED
        BY <2>2, <4>1 DEF HasKey, OfStrategy
    <3>2. job.rows \subseteq Scope
      BY <2>2 DEF Scope
    <3> QED
      BY <2>3, <2>5, <3>1, <3>2 DEF Reachable
  <2>6. Live' = Live
    BY <2>2 DEF Live
  <2>7. job'.kind = "TP1" =>
          /\ \A r, s \in job'.rows : r = s
          /\ \A r \in job'.rows : HasKey(pos'[r].owner, job'.by, settings'.positions)
    BY <1>0, <2>1, <2>2 DEF JobCalm, Goes
  <2> QED
    BY <2>1, <2>3, <2>4, <2>5, <2>6, <2>7 DEF JobCalm, Goes
<1>12. CASE close_position
  <2>1. PICK t \in job.todo :
          /\ t \in Tickets /\ job.at = "close" /\ job'.at = "close" /\ Goes
          /\ job'.rows = job.rows /\ job'.listed = job.listed
          /\ job'.blind = job.blind /\ job'.todo = job.todo \ {t}
          /\ pos' = [pos EXCEPT ![t].live = FALSE] \/ (pos' = pos /\ ~pos[t].live)
    BY <1>0, <1>12, Closes
  <2>2. job # Idle /\ JobCalm /\ job.rows \subseteq Tickets /\ job.listed \subseteq Tickets
    BY <1>12, <2>1 DEF close_position, At, Goes, GoodJobs, Jobs
  <2>3. KnowsRows(job') => Active' \cap OfKey(job.by)' \subseteq job'.rows
    BY <2>1, <2>2, KeyShrinks DEF JobCalm, KnowsRows, Goes
  <2>4. Live' \subseteq Live \ {t}
    BY <2>1 DEF Live, Typed, OpenPositions, Positions
  <2>5. job'.kind = "TP1" =>
          /\ \A r, s \in job'.rows : r = s
          /\ \A r \in job'.rows : HasKey(pos'[r].owner, job'.by, settings'.positions)
    <3>1. \A r \in Tickets : pos'[r].owner = pos[r].owner
      BY <2>1 DEF Typed, OpenPositions, Positions
    <3> QED
      BY <1>0, <2>1, <2>2, <3>1 DEF JobCalm, Goes
  <2>6. /\ ~job'.blind /\ job'.listed \cap Live' \subseteq job'.todo
        /\ job.kind # "ADMIN" => job'.rows \cap Live' \subseteq job'.todo
    BY <2>1, <2>2, <2>4 DEF JobCalm
  <2> QED
    BY <2>1, <2>3, <2>5, <2>6 DEF JobCalm, Goes
<1>13. CASE all_closed
  <2>1. /\ Goes /\ job.at = "close" /\ job.todo = {} /\ job'.rows = job.rows
        /\ job'.listed = job.listed /\ job'.blind = job.blind
        /\ job'.at \in {"mark_stale", "persist", "list", "flat_lookup", "admin_sync"}
        /\ job'.at = "flat_lookup" => job.rows = {}
    BY <1>0, <1>13, FinishesClosing
  <2>2. job # Idle /\ JobCalm /\ pos' = pos
    BY <1>13, <2>1 DEF all_closed, At, Reading
  <2>3. KnowsRows(job') => Active' \cap OfKey(job.by)' \subseteq job'.rows
    BY <2>1, <2>2, KeyShrinks DEF JobCalm, KnowsRows, Goes
  <2>4. Live' = Live /\ job'.listed \cap Live' = {}
        /\ (job.kind # "ADMIN" => job'.rows \cap Live' = {})
    BY <2>1, <2>2 DEF JobCalm, Live
  <2>5. job'.kind = "TP1" =>
          /\ \A r, s \in job'.rows : r = s
          /\ \A r \in job'.rows : HasKey(pos'[r].owner, job'.by, settings'.positions)
    BY <1>0, <2>1, <2>2 DEF JobCalm, Goes
  <2>6. job'.at \in {"mark_stale", "persist", "flat_lookup"} => job'.kind # "ADMIN"
    BY <2>1 DEF Goes, GoodJobs, Control
  <2>7. job'.at = "flat_lookup" => Active' \cap OfKey(job.by)' = {}
    BY <2>1, <2>3, <2>6 DEF KnowsRows
  <2>8. ~job.blind
    BY <2>1, <2>2 DEF JobCalm
  <2>9. job'.at = "persist" /\ job'.status \in ACTIVE => job'.kind = "TP1"
    BY <1>0, <1>13, <2>1, FinishesClosing DEF ACTIVE, Goes, GoodJobs, Control
  <2> QED
    BY <2>1, <2>3, <2>4, <2>5, <2>6, <2>7, <2>8, <2>9 DEF JobCalm, Goes
<1>14. CASE flat_lookup
  <2>1. PICK rows \in SUBSET Tickets :
          /\ Got(Active \cap OfKey(job.by), rows)
          /\ job.at = "flat_lookup" /\ job.kind = "FLAT" /\ Goes /\ job'.at = "persist"
          /\ job'.status = "FLATTED"
          /\ job'.rows = Oldest(IF rows # {} THEN rows ELSE job.listed)
    BY <1>0, <1>14, LooksUpAgain
  <2>2. job # Idle /\ JobCalm /\ pos' = pos
    BY <1>14 DEF flat_lookup, At
  <2>3. rows = {}
    BY <1>1, <2>1, <2>2 DEF JobCalm
  <2>4. job'.rows \cap Live' = {}
    BY <2>1, <2>2, <2>3, OldestIsARow DEF JobCalm, Live
  <2> QED
    BY <2>1, <2>4 DEF JobCalm, KnowsRows, Goes, ACTIVE
<1>15. CASE job' = job
  <2>1. job \in GoodJobs /\ Goes /\ job # Idle /\ JobCalm
    BY <1>0, <1>15 DEF Goes
  <2>2. /\ job.rows \subseteq Tickets /\ job.listed \subseteq Tickets
        /\ \A r \in job.rows : r <= used
        /\ job.at \in {"close", "flat_lookup"} => \A r \in job.listed : r <= used
        /\ job.at = "insert" => job.target \in Tickets /\ job.target <= used
    BY <2>1 DEF GoodJobs, Jobs, OwnRows
  <2>3. Active' \cap OfKey(job.by)' \subseteq Active \cap OfKey(job.by)
    BY <1>15, <2>1, KeyShrinks
  <2>4. job.rows \cap Live' \subseteq Live
        /\ (job.at \in {"close", "flat_lookup"} => job.listed \cap Live' \subseteq Live)
    BY <1>2, <2>2 DEF Live
  <2>5. \A r \in job.rows : pos'[r].owner = pos[r].owner
    BY <2>2, TicketsKept
  <2>6. job.at = "insert" => pos'[job.target].owner = pos[job.target].owner
    BY <2>2, TicketsKept
  <2> QED
    BY <1>0, <1>15, <2>1, <2>3, <2>4, <2>5, <2>6 DEF JobCalm
<1> QED
  BY <1>3, <1>4, <1>5, <1>6, <1>7, <1>8, <1>9, <1>10, <1>11, <1>12, <1>13, <1>14, <1>15
     DEF Next, vars, Done, order_refused, insert_position, insert_conflicts, insert_fails,
         partial_close_fails, persist, admin_sync, terminal_closes, on_terminal_close, Crash

LEMMA RowsTrueStep ==
    ASSUME Typed, Opened, OwnRows, AdminKnows, [Next]_vars, RowsTrue, OneRowPerKey,
           job # Idle => JobCalm, faults' = 0
    PROVE  RowsTrue'
<1> SUFFICES ASSUME NEW t \in Tickets, row'[t] \in CLOSED PROVE ~pos'[t].live
  BY DEF RowsTrue
<1>0. /\ used \in 0..MaxTicket /\ job \in GoodJobs \cup {Idle} /\ ~Fault
      /\ faults \in 0..MaxFaults /\ row \in [Tickets -> Statuses]
  BY FaultTypes DEF Typed
<1>1. ASSUME NEW S, NEW answer, Got(S, answer) PROVE answer = S
  BY <1>0, <1>1, GotTypes
<1>2. ASSUME row[t] # "none", ~pos[t].live PROVE ~pos'[t].live
  <2>1. t <= used
    BY <1>0, <1>2, ForexAssumption DEF Opened, Tickets
  <2> QED
    BY <1>2, <2>1, TicketsKept
<1>3. CASE row[t] \in CLOSED
  BY <1>2, <1>3 DEF RowsTrue, CLOSED
<1>4. CASE mark_stale
  <2>1. job # Idle /\ job.at = "mark_stale" /\ (t \in job.rows \/ row'[t] = row[t])
    BY <1>0, <1>4 DEF mark_stale, At
  <2>2. t \in job.rows => t <= used /\ ~pos[t].live
    BY <1>4, <2>1 DEF JobCalm, OwnRows, Live, mark_stale, At
  <2> QED
    BY <1>3, <2>1, <2>2, TicketsKept
<1>5. CASE insert_position
  BY <1>0, <1>3, <1>5 DEF insert_position, CLOSED
<1>6. CASE get_db_position
  <2>1. PICK rows \in SUBSET Tickets :
          /\ Got(Active \cap OfKey(job.by), rows)
          /\ row' = [u \in Tickets |-> IF u \in rows \ Oldest(rows) THEN "FORCED_CLOSED"
                                        ELSE row[u]]
          /\ job \in GoodJobs /\ job.kind \in {"TP1", "CLOSE", "FLAT"}
    BY <1>0, <1>6, LooksUp
  <2>2. rows = Active \cap OfKey(job.by) /\ job.by \in Owners /\ job.by.strategy # All
    BY <1>1, <2>1, ForexAssumption DEF GoodJobs, Owners
  <2>3. \A r, s \in rows : r = s
    BY <2>2 DEF OneRowPerKey, SameKey, OfKey, OfStrategy
  <2>4. rows \ Oldest(rows) = {}
    <3>1. \A r \in rows : r <= r
      BY ForexAssumption DEF Tickets
    <3> QED
      BY <2>3, <3>1 DEF Oldest
  <2>5. row'[t] = row[t]
    BY <2>1, <2>4
  <2> QED
    BY <1>3, <2>5
<1>7. CASE flat_lookup
  <2>1. PICK rows \in SUBSET Tickets :
          /\ Got(Active \cap OfKey(job.by), rows)
          /\ row' = [u \in Tickets |-> IF u \in rows \ Oldest(rows) THEN "FORCED_CLOSED"
                                        ELSE row[u]]
          /\ job.at = "flat_lookup"
    BY <1>0, <1>7, LooksUpAgain
  <2>2. rows = {}
    BY <1>1, <1>7, <2>1 DEF JobCalm, flat_lookup, At
  <2> QED
    BY <1>3, <2>1, <2>2
<1>8. CASE persist
  <2>1. job # Idle /\ job.at = "persist" /\ job \in GoodJobs
    BY <1>0, <1>8 DEF persist, At
  <2>2. row'[t] = row[t] \/ (t \in job.rows /\ job.status \in CLOSED)
    BY <1>0, <1>8 DEF persist, Persisted
  <2>3. t \in job.rows /\ job.status \in CLOSED => t <= used /\ ~pos[t].live
    BY <2>1 DEF JobCalm, OwnRows, Live
  <2> QED
    BY <1>3, <2>2, <2>3, TicketsKept
<1>9. CASE admin_sync
  <2>1. At("admin_sync") /\ pos' = pos
    BY <1>9 DEF admin_sync
  <2>2. ~job.blind
    BY <2>1 DEF JobCalm, At
  <2>3. row'[t] # row[t] => ~pos[t].live
    BY <2>1, <2>2, FlattedIsGone
  <2> QED
    BY <1>3, <2>1, <2>3
<1>10. CASE on_terminal_close
  <2>1. row'[t] # row[t] => t \in reports
    BY <1>0, <1>10 DEF on_terminal_close
  <2> QED
    BY <1>3, <1>10, <2>1 DEF Opened, on_terminal_close
<1> QED
  BY <1>3, <1>4, <1>5, <1>6, <1>7, <1>8, <1>9, <1>10
     DEF Next, vars, Reading, receive, symbol_open_rejection, max_open_orders_rejection,
         other_holders, db_stale, find_stale, order_filled, order_refused,
         insert_conflicts, insert_fails, live_guard, tp1_list,
         partial_close, partial_close_fails, update_position_sl, update_position_sl_fails,
         list_positions, close_position, all_closed, terminal_closes, Crash

LEMMA OneRowStep ==
    ASSUME Typed, Opened, OwnRows, [Next]_vars, OneRowPerKey, job # Idle => JobCalm
    PROVE  OneRowPerKey'
<1> SUFFICES ASSUME NEW t \in Tickets, NEW u \in Tickets, row'[t] \in ACTIVE,
                    row'[u] \in ACTIVE, SameKey(t, u)', t # u
             PROVE  FALSE
  BY DEF OneRowPerKey, Active
<1>0. /\ used \in 0..MaxTicket /\ job \in GoodJobs \cup {Idle} /\ settings' = settings
      /\ row \in [Tickets -> Statuses]
  BY SettingsKept DEF Typed
<1>1. ASSUME NEW v \in Tickets, v <= used PROVE pos'[v].owner = pos[v].owner
  BY <1>1, TicketsKept
<1>2. ASSUME NEW v \in Tickets, row[v] \in ACTIVE PROVE v <= used
  BY <1>0, <1>2, ForexAssumption DEF Opened, ACTIVE, Tickets
<1>3. ASSUME t <= used, u <= used PROVE SameKey(t, u)
  BY <1>0, <1>1, <1>3 DEF SameKey
<1>4. ASSUME NEW v \in Tickets, NEW w \in Tickets, SameKey(v, w),
             HasKey(pos[v].owner, job.by, settings.positions), job.by.strategy # All
      PROVE  w \in OfKey(job.by)
  BY <1>4 DEF SameKey, HasKey, OfKey, OfStrategy
<1>5. CASE row[t] \in ACTIVE /\ row[u] \in ACTIVE
  BY <1>2, <1>3, <1>5 DEF OneRowPerKey, Active
<1>6. CASE insert_position
  <2>1. /\ job # Idle /\ job \in GoodJobs /\ job.at = "insert" /\ job.by \in Owners
        /\ job.target \in Tickets /\ job.target <= used
    BY <1>0, <1>6 DEF insert_position, At, GoodJobs, Control, OwnRows
  <2>2. HasKey(pos[job.target].owner, job.by, settings.positions) /\ job.by.strategy # All
    BY <2>1, ForexAssumption DEF JobCalm, HasKey, Owners
  <2>3. Active \cap OfKey(job.by) = {}
    BY <2>1 DEF JobCalm
  <2>4. \A v \in Tickets : row'[v] \in ACTIVE => v = job.target \/ row[v] \in ACTIVE
    BY <1>0, <1>6 DEF insert_position
  <2>5. t <= used /\ u <= used
    BY <1>2, <2>1, <2>4
  <2>6. SameKey(t, u) /\ SameKey(u, t)
    BY <1>3, <2>5 DEF SameKey
  <2> QED
    BY <1>4, <1>5, <2>2, <2>3, <2>4, <2>6 DEF Active
<1>7. CASE persist
  <2>1. job # Idle /\ job \in GoodJobs /\ job.at = "persist"
    BY <1>0, <1>7 DEF persist, At
  <2>2. \A v \in Tickets : row'[v] \in ACTIVE =>
          row[v] \in ACTIVE \/ (v \in job.rows /\ job.kind = "TP1")
    BY <1>0, <1>7, <2>1 DEF persist, Persisted, JobCalm
  <2>3. ASSUME job.kind = "TP1" PROVE FALSE
    <3>1. /\ job.by \in Owners /\ job.by.strategy # All
          /\ \A r, s \in job.rows : r = s
          /\ \A r \in job.rows : r <= used /\ HasKey(pos[r].owner, job.by, settings.positions)
          /\ Active \cap OfKey(job.by) \subseteq job.rows
      BY <2>1, <2>3, ForexAssumption DEF JobCalm, KnowsRows, GoodJobs, Owners, OwnRows
    <3>2. t <= used /\ u <= used
      BY <1>2, <2>2, <3>1
    <3>3. SameKey(t, u) /\ SameKey(u, t)
      BY <1>3, <3>2 DEF SameKey
    <3>4. CASE t \in job.rows /\ row[u] \in ACTIVE
      BY <1>4, <3>1, <3>3, <3>4 DEF Active
    <3>5. CASE u \in job.rows /\ row[t] \in ACTIVE
      BY <1>4, <3>1, <3>3, <3>5 DEF Active
    <3> QED
      BY <1>5, <2>2, <3>1, <3>4, <3>5
  <2> QED
    BY <1>5, <2>2, <2>3
<1> QED
  BY <1>5, <1>6, <1>7, ActiveShrinks

LEMMA CalmStep ==
    Typed /\ Opened /\ OwnRows /\ AdminKnows /\ Calm /\ [Next]_vars => Calm'
<1> SUFFICES ASSUME Typed, Opened, OwnRows, AdminKnows, Calm, [Next]_vars, faults' = 0
             PROVE  (RowsTrue /\ OneRowPerKey /\ (job # Idle => JobCalm))'
  BY DEF Calm
<1>1. faults = 0
  BY FaultsGrow, ForexAssumption DEF Typed
<1>2. RowsTrue /\ OneRowPerKey /\ (job # Idle => JobCalm)
  BY <1>1 DEF Calm
<1> QED
  BY <1>2, RowsTrueStep, OneRowStep, JobCalmStep

\* However the terminal's closes fall between a signal's reads, closes and
\* writes, no row is marked closed under an open position as long as every call
\* succeeds (_persist_success, _force_close_stale, _heal_duplicate_rows,
\* _reconcile_flat_db, MT5EventJob._handle).
THEOREM RowsStayTrue == Spec => []RacesAloneKeepRowsTrue
<1> DEFINE Inv == Typed /\ Opened /\ OwnRows /\ AdminKnows /\ Calm
<1>1. Init => Inv
  BY TypedStart, OpenedStart, CalmStart DEF Init, AdminKnows
<1>2. Inv /\ [Next]_vars => Inv'
  BY TypedStep, OpenedStep, OwnRowsStep, AdminKnowsStep, CalmStep
<1>3. Inv => RacesAloneKeepRowsTrue
  BY DEF Calm, RowsTrue, RacesAloneKeepRowsTrue
<1> QED
  BY <1>1, <1>2, <1>3, PTL DEF Spec

-----------------------------------------------------------------------------
(* No entry runs untracked but the one whose own call failed *)

\* The active rows the unique index holds against the entry's own.
Twins == {u \in Active : pos[u].owner = job.by}

\* Each read or write that lets a twin live on has failed.
TwinsCost ==
    job # Idle /\ job.kind = "ENTRY" =>
        /\ job.at # "guard" => \A u \in Twins : faults >= 1
        /\ job.at \in {"find_stale", "list", "close", "mark_stale"} =>
             \A u \in Twins : u \in job.rows \/ faults >= 2
        /\ job.at \in {"order", "insert"} => \A u \in Twins : faults >= 2
        /\ job.at = "insert" => pos[job.target].owner = job.by

Tracked ==
    \A t \in Live : row[t] = "none" =>
        t \in lost \/ faults >= 2 \/ (job # Idle /\ job.at = "insert" /\ job.target = t)

LEMMA TwinsCostStep ==
    Typed /\ Opened /\ OwnRows /\ TwinsCost /\ [Next]_vars => TwinsCost'
<1> SUFFICES ASSUME Typed, Opened, OwnRows, TwinsCost, [Next]_vars, job' # Idle,
                    job'.kind = "ENTRY"
             PROVE  TwinsCost'
  BY DEF TwinsCost
<1> USE ForexAssumption
<1>0. /\ used \in 0..MaxTicket /\ job \in GoodJobs \cup {Idle} /\ row \in [Tickets -> Statuses]
      /\ faults \in 0..MaxFaults /\ faults' \in 0..MaxFaults /\ faults <= faults'
  BY FaultsStep, FaultsGrow DEF Typed
<1>1. ASSUME Goes PROVE Twins' \subseteq Twins
  <2> SUFFICES ASSUME NEW u \in Tickets, row'[u] \in ACTIVE, pos'[u].owner = job'.by
               PROVE  row[u] \in ACTIVE /\ pos[u].owner = job.by
    BY DEF Twins, Active
  <2>1. row[u] \in ACTIVE
    BY ActiveShrinks DEF insert_position, persist, Done
  <2>2. u <= used
    BY <1>0, <2>1 DEF Opened, ACTIVE, Tickets
  <2> QED
    BY <1>1, <2>1, <2>2, TicketsKept DEF Goes
\* The entry goes on with the rows it had.
<1>2. ASSUME Goes, job # Idle, job'.rows = job.rows, job.at # "guard",
             job'.at \notin {"order", "insert"},
             job'.at \in {"find_stale", "list", "close", "mark_stale"} =>
               job.at \in {"find_stale", "list", "close", "mark_stale"}
      PROVE  TwinsCost'
  <2>1. \A u \in Twins' : u \in Twins /\ faults' >= 1
    BY <1>0, <1>1, <1>2 DEF TwinsCost, Goes
  <2>2. job'.at \in {"find_stale", "list", "close", "mark_stale"} =>
          \A u \in Twins' : u \in job'.rows \/ faults' >= 2
    BY <1>0, <1>2, <2>1 DEF TwinsCost, Goes
  <2> QED
    BY <1>2, <2>1, <2>2 DEF TwinsCost
<1>3. CASE receive
  BY <1>3, Receives DEF TwinsCost, GoodJobs, Control
<1>4. CASE symbol_open_rejection
  <2>1. PICK rows \in SUBSET Tickets :
          Got(Active, rows) /\ ~(\E r \in rows : Blocking(r))
    BY <1>4 DEF symbol_open_rejection, Done
  <2>2. At("guard") /\ Goto("cap")
    BY <1>4 DEF symbol_open_rejection, Done
  <2>3. Goes /\ job'.at = "cap"
    BY <1>0, <2>2, GuardPasses
  <2>4. \A u \in Twins : Blocking(u) /\ u \in Active
    BY DEF Twins, Blocking
  <2>5. ASSUME NEW u \in Twins PROVE faults' >= 1
    <3>1. rows # Active
      BY <2>1, <2>4, <2>5
    <3> QED
      BY <1>0, <2>1, <3>1 DEF Got, Fault
  <2> QED
    BY <1>1, <2>3, <2>5 DEF TwinsCost
<1>5. CASE max_open_orders_rejection \/ other_holders
  <2>1. \E from \in {"cap", "netting"}, to \in {"netting", "db_stale"} : At(from) /\ Goto(to)
    BY <1>5 DEF max_open_orders_rejection, other_holders, Done
  <2>2. /\ Goes /\ job'.rows = job.rows /\ job.at # "guard" /\ job # Idle
        /\ job'.at \in {"netting", "db_stale"}
    BY <1>0, <2>1, GuardPasses DEF At
  <2> QED
    BY <1>2, <2>2
<1>6. CASE db_stale
  <2>1. PICK rows \in SUBSET Tickets :
          /\ Got(Active \cap OfKey(job.by), rows)
          /\ Goes /\ job.kind = "ENTRY" /\ job.at = "db_stale"
          /\ job'.at = "find_stale" /\ job'.rows = rows
    BY <1>0, <1>6, ReadsStale
  <2>2. \A u \in Twins : u \in Active \cap OfKey(job.by) /\ faults >= 1
    BY <1>6, <2>1 DEF TwinsCost, Twins, Active, OfKey, OfStrategy, db_stale, At
  <2>3. \A u \in Twins : u \in rows \/ faults' >= 2
    BY <1>0, <2>1, <2>2 DEF Got, Fault
  <2>4. \A u \in Twins' : u \in Twins /\ faults' >= 1
    BY <1>0, <1>1, <2>1, <2>2
  <2> QED
    BY <2>1, <2>3, <2>4 DEF TwinsCost
<1>7. CASE find_stale
  <2>1. /\ Goes /\ job.at = "find_stale" /\ job'.rows = job.rows
        /\ job'.at \in {"mark_stale", "list"}
    BY <1>0, <1>7, FindsStale
  <2> QED
    BY <1>2, <1>7, <2>1 DEF find_stale, At
<1>8. CASE mark_stale
  <2>1. /\ Goes /\ job.kind = "ENTRY" /\ job.at = "mark_stale" /\ job'.at = "order"
    BY <1>0, <1>8, MarksStale
  <2>2. job # Idle
    BY <1>8 DEF mark_stale, At
  <2>3. \A u \in Twins : faults >= 1 /\ (u \in job.rows \/ faults >= 2)
    BY <2>1, <2>2 DEF TwinsCost
  <2>4. CASE Fault
    BY <1>0, <1>1, <2>1, <2>3, <2>4 DEF TwinsCost, Fault
  <2>5. CASE row' = [t \in Tickets |-> IF t \in job.rows THEN "FORCED_CLOSED" ELSE row[t]]
    <3>1. \A u \in Twins' : u \notin job.rows
      BY <2>5 DEF Twins, Active, ACTIVE
    <3> QED
      BY <1>0, <1>1, <2>1, <2>3, <3>1 DEF TwinsCost
  <2> QED
    BY <1>8, <2>4, <2>5 DEF mark_stale
<1>9. CASE order_filled
  <2>1. /\ Goes /\ job.at = "order" /\ job.kind = "ENTRY" /\ job'.at = "insert"
        /\ job'.target = used' /\ used' \in Tickets
    BY <1>0, <1>9, FillsOrder
  <2>2. \A u \in Twins : faults >= 2
    BY <1>9, <2>1 DEF TwinsCost, order_filled, At
  <2>3. pos'[used'].owner = job.by
    BY <1>9, <2>1 DEF order_filled, Typed
  <2> QED
    BY <1>0, <1>1, <2>1, <2>2, <2>3 DEF TwinsCost, Goes
<1>10. CASE list_positions
  BY <1>0, <1>2, <1>10, Lists DEF list_positions, At
<1>11. CASE close_position
  BY <1>0, <1>2, <1>11, Closes DEF close_position, At
<1>12. CASE all_closed
  <2>1. Goes /\ job'.rows = job.rows /\ job.at = "close" /\ job'.at \notin {"order", "insert", "find_stale"}
    BY <1>0, <1>12, FinishesClosing
  <2> QED
    BY <1>2, <1>12, <2>1 DEF all_closed, At
<1>13. CASE get_db_position \/ live_guard \/ tp1_list \/ partial_close \/ update_position_sl
            \/ update_position_sl_fails \/ flat_lookup
  BY <1>0, <1>13, LooksUp, GuardsLive, ListsForTP1, ReducesPosition, MovesStop, FallsBack,
     LooksUpAgain DEF Goes
<1>14. CASE job' = job
  <2>1. Goes /\ job # Idle
    BY <1>0, <1>14 DEF Goes
  <2>2. job.at = "insert" => job.target \in Tickets /\ job.target <= used
    BY <2>1 DEF Goes, GoodJobs, OwnRows
  <2>3. job.at = "insert" => pos'[job.target].owner = pos[job.target].owner
    BY <2>2, TicketsKept
  <2>4. Twins' \subseteq Twins
    BY <1>1, <2>1
  <2> QED
    BY <1>0, <1>14, <2>1, <2>3, <2>4 DEF TwinsCost
<1> QED
  BY <1>3, <1>4, <1>5, <1>6, <1>7, <1>8, <1>9, <1>10, <1>11, <1>12, <1>13, <1>14
     DEF Next, vars, Done, order_refused, insert_position, insert_conflicts, insert_fails,
         partial_close_fails, persist, admin_sync, terminal_closes, on_terminal_close, Crash

\* A row is never taken away.
LEMMA RowsStay ==
    ASSUME Typed, [Next]_vars, NEW t \in Tickets, row'[t] = "none"
    PROVE  row[t] = "none" /\ ~(insert_position /\ t = job.target)
<1>1. row \in [Tickets -> Statuses] /\ job \in GoodJobs \cup {Idle}
  BY DEF Typed
<1>2. CASE UNCHANGED row /\ ~insert_position
  BY <1>2
<1>3. CASE insert_position
  BY <1>1, <1>3 DEF insert_position
<1>4. CASE get_db_position
  BY <1>1, <1>4, LooksUp DEF insert_position, At
<1>5. CASE flat_lookup
  BY <1>1, <1>5, LooksUpAgain DEF insert_position, At
<1>6. CASE mark_stale
  BY <1>1, <1>6 DEF mark_stale, insert_position, At
<1>7. CASE persist
  <2>1. job \in Jobs /\ job.at = "persist"
    BY <1>1, <1>7 DEF persist, At, GoodJobs
  <2>2. job.status # "none"
    BY <2>1 DEF Jobs, ACTIVE, CLOSED
  <2> QED
    BY <1>1, <1>7, <2>1, <2>2 DEF persist, Persisted, insert_position, At
<1>8. CASE admin_sync
  BY <1>1, <1>8 DEF admin_sync, insert_position, At
<1>9. CASE on_terminal_close
  BY <1>1, <1>9, <1>3 DEF on_terminal_close
<1> QED
  BY <1>2, <1>3, <1>4, <1>5, <1>6, <1>7, <1>8, <1>9
     DEF Next, vars, Reading, receive, symbol_open_rejection, max_open_orders_rejection,
         other_holders, db_stale, find_stale, order_filled, order_refused,
         insert_conflicts, insert_fails, live_guard, tp1_list,
         partial_close, partial_close_fails, update_position_sl, update_position_sl_fails,
         list_positions, close_position, all_closed, terminal_closes, Crash

LEMMA TrackedStep ==
    Typed /\ Opened /\ OwnRows /\ TwinsCost /\ Tracked /\ [Next]_vars => Tracked'
<1> SUFFICES ASSUME Typed, Opened, OwnRows, TwinsCost, Tracked, [Next]_vars,
                    NEW t \in Tickets, pos'[t].live, row'[t] = "none"
             PROVE  \/ t \in lost' \/ faults' >= 2
                    \/ job' # Idle /\ job'.at = "insert" /\ job'.target = t
  BY DEF Tracked, Live
<1> USE ForexAssumption
<1>0. /\ used \in 0..MaxTicket /\ job \in GoodJobs \cup {Idle}
      /\ faults \in 0..MaxFaults /\ faults' \in 0..MaxFaults /\ faults <= faults'
      /\ row[t] = "none" /\ ~(insert_position /\ t = job.target)
  BY FaultsStep, FaultsGrow, RowsStay DEF Typed
<1>1. CASE order_filled /\ t = used'
  <2>1. \/ job' # Idle /\ job'.at = "insert" /\ job'.target = used'
        \/ used' \in lost'
    <3>1. used' = used + 1 /\ used' \in Tickets /\ job # Idle /\ job \in Jobs
      BY <1>0, <1>1 DEF order_filled, At, GoodJobs, Tickets
    <3>2. CASE job' = [job EXCEPT !.at = "insert", !.target = used']
      <4>1. job' \in Jobs
        <5>1. used' \in 0..MaxTicket
          BY <3>1 DEF Tickets
        <5> QED
          BY <3>1, <3>2, <5>1 DEF Jobs, Steps
      <4> QED
        BY <3>1, <3>2, <4>1, IdleAssumption DEF Jobs
    <3> QED
      BY <1>1, <3>2 DEF order_filled
  <2> QED
    BY <1>1, <2>1
<1>2. ASSUME ~(order_filled /\ t = used')
      PROVE  \/ t \in lost \/ faults >= 2
             \/ job # Idle /\ job.at = "insert" /\ job.target = t
  <2>1. pos[t].live
    BY <1>2, PositionsKept
  <2> QED
    BY <1>0, <2>1 DEF Tracked, Live
<1>3. lost \subseteq lost'
  BY DEF Next, vars, Reading, receive, symbol_open_rejection, max_open_orders_rejection,
         other_holders, db_stale, find_stale, mark_stale, order_filled, order_refused,
         insert_position, insert_conflicts, insert_fails, get_db_position, live_guard, tp1_list,
         partial_close, partial_close_fails, update_position_sl, update_position_sl_fails,
         list_positions, close_position, all_closed, flat_lookup, persist, admin_sync,
         terminal_closes, on_terminal_close, Crash
<1>4. ASSUME job # Idle, job.at = "insert", job.target = t, ~order_filled
      PROVE  \/ t \in lost' \/ faults' >= 2
             \/ job' # Idle /\ job'.at = "insert" /\ job'.target = t
  <2>1. CASE insert_fails \/ Crash
    BY <1>4, <2>1 DEF insert_fails, Crash, At
  <2>2. CASE insert_conflicts
    <3>1. PICK u \in Active : pos[u].owner = pos[job.target].owner
      BY <2>2 DEF insert_conflicts, Conflicts
    <3>2. job.kind = "ENTRY"
      BY <1>0, <1>4 DEF GoodJobs, Control
    <3>3. u \in Twins
      BY <1>4, <3>1, <3>2 DEF TwinsCost, Twins
    <3> QED
      BY <1>0, <1>4, <3>2, <3>3 DEF TwinsCost
  <2>3. CASE insert_position
    BY <1>0, <1>4, <2>3
  <2>4. CASE job' = job
    BY <1>4, <2>4
  <2> QED
    BY <1>4, <2>1, <2>2, <2>3, <2>4
       DEF Next, vars, At, receive, symbol_open_rejection, max_open_orders_rejection,
           other_holders, db_stale, find_stale, mark_stale, order_refused, get_db_position,
           live_guard, tp1_list, partial_close, partial_close_fails, update_position_sl,
           update_position_sl_fails, list_positions, close_position, all_closed, flat_lookup,
           persist, admin_sync, terminal_closes, on_terminal_close
<1>5. CASE order_filled /\ t # used'
  BY <1>0, <1>2, <1>3, <1>5 DEF order_filled, At
<1> QED
  BY <1>0, <1>1, <1>2, <1>3, <1>4, <1>5

\* An open position without a row has been let down by its own order or INSERT,
\* or by two failing calls: no other single failure and no restart leaves an
\* entry untracked (SignalHandler._handle_entry, _force_close_stale,
\* PositionRepository.insert_position).
THEOREM EntriesAreTracked == Spec => []TrackedUnlessLost
<1> DEFINE Inv == Typed /\ Opened /\ OwnRows /\ TwinsCost /\ Tracked
<1>1. Init => Inv
  BY TypedStart, OpenedStart DEF Init, TwinsCost, Tracked, Live
<1>2. Inv /\ [Next]_vars => Inv'
  BY TypedStep, OpenedStep, OwnRowsStep, TwinsCostStep, TrackedStep
<1>3. Inv => TrackedUnlessLost
  BY DEF Tracked, TrackedUnlessLost
<1> QED
  BY <1>1, <1>2, <1>3, PTL DEF Spec

-----------------------------------------------------------------------------
(* The cap *)

\* What an entry does not replace, and what a TP1 does not bring back, leaves
\* room for one more active row.
CapCalm ==
    faults = 0 /\ settings.max_open_orders > 0 =>
        /\ Cardinality(Active) <= settings.max_open_orders
        /\ job # Idle /\ job.kind = "ENTRY" /\ job.at \notin {"guard", "cap"} =>
             Cardinality(Active \ OfKey(job.by)) < settings.max_open_orders
        /\ job # Idle /\ job.kind = "TP1" /\ job.rows # {} =>
             Cardinality(Active \ job.rows) < settings.max_open_orders

LEMMA FewerTickets ==
    ASSUME NEW S \in SUBSET Tickets, NEW T \in SUBSET S
    PROVE  /\ IsFiniteSet(S) /\ Cardinality(S) \in Nat /\ Cardinality(T) \in Nat
           /\ Cardinality(T) <= Cardinality(S)
           /\ T # S => Cardinality(T) < Cardinality(S)
<1>1. IsFiniteSet(Tickets)
  BY FS_Interval, ForexAssumption DEF Tickets
<1>2. IsFiniteSet(S)
  BY <1>1, FS_Subset
<1>3. IsFiniteSet(T) /\ Cardinality(T) <= Cardinality(S) /\ (Cardinality(S) = Cardinality(T) => S = T)
  BY <1>2, FS_Subset
<1>4. Cardinality(S) \in Nat /\ Cardinality(T) \in Nat
  BY <1>2, <1>3, FS_CardinalityType
<1> QED
  BY <1>2, <1>3, <1>4

LEMMA OneMoreTicket ==
    ASSUME NEW S \in SUBSET Tickets, NEW T \in SUBSET Tickets, NEW t \in Tickets,
           S \subseteq T \cup {t}
    PROVE  Cardinality(S) <= Cardinality(T) + 1 /\ Cardinality(T) \in Nat /\ Cardinality(S) \in Nat
<1>1. IsFiniteSet(T) /\ Cardinality(T) \in Nat /\ Cardinality(S) \in Nat
  BY FewerTickets
<1>2. Cardinality(T \cup {t}) <= Cardinality(T) + 1
  BY <1>1, FS_AddElement
<1>3. Cardinality(S) <= Cardinality(T \cup {t}) /\ Cardinality(T \cup {t}) \in Nat
  BY FewerTickets
<1> QED
  BY <1>1, <1>2, <1>3

LEMMA CapStart == Init => CapCalm
<1> SUFFICES ASSUME Init PROVE CapCalm
  OBVIOUS
<1>1. Active = {}
  BY DEF Init, Active, ACTIVE
<1>2. Cardinality(Active) = 0
  BY <1>1, FS_EmptySet
<1>3. settings.max_open_orders \in Nat
  BY ForexAssumption DEF Init, Settings
<1> QED
  BY <1>2, <1>3 DEF Init, CapCalm

LEMMA CapStep ==
    Typed /\ Opened /\ OwnRows /\ Calm /\ CapCalm /\ [Next]_vars => CapCalm'
<1> SUFFICES ASSUME Typed, Opened, OwnRows, Calm, CapCalm, [Next]_vars, faults' = 0,
                    settings.max_open_orders > 0
             PROVE  /\ Cardinality(Active') <= settings.max_open_orders
                    /\ job' # Idle /\ job'.kind = "ENTRY" /\ job'.at \notin {"guard", "cap"} =>
                         Cardinality(Active' \ OfKey(job.by)') < settings.max_open_orders
                    /\ job' # Idle /\ job'.kind = "TP1" /\ job'.rows # {} =>
                         Cardinality(Active' \ job'.rows) < settings.max_open_orders
  BY SettingsKept DEF CapCalm
<1> DEFINE max == settings.max_open_orders
<1>0. /\ used \in 0..MaxTicket /\ job \in GoodJobs \cup {Idle} /\ settings' = settings
      /\ faults = 0 /\ ~Fault /\ row \in [Tickets -> Statuses] /\ max \in Nat
      /\ Active \subseteq Tickets /\ Active' \subseteq Tickets
  BY SettingsKept, FaultsGrow, FaultTypes, ForexAssumption DEF Typed, Settings, Active
<1>1. /\ OneRowPerKey /\ (job # Idle => JobCalm) /\ Cardinality(Active) <= max
      /\ job # Idle /\ job.kind = "ENTRY" /\ job.at \notin {"guard", "cap"} =>
           Cardinality(Active \ OfKey(job.by)) < max
      /\ job # Idle /\ job.kind = "TP1" /\ job.rows # {} =>
           Cardinality(Active \ job.rows) < max
  BY <1>0 DEF Calm, CapCalm
<1>2. ASSUME NEW S, NEW answer, Got(S, answer) PROVE answer = S
  BY <1>0, <1>2, GotTypes DEF Typed
<1>3. ASSUME job' # Idle \/ ~(insert_position \/ persist) PROVE Active' \subseteq Active
  <2>1. insert_position \/ persist => job' = Idle
    BY DEF insert_position, persist, Done
  <2> QED
    BY <1>3, <2>1, ActiveShrinks DEF Active
\* No more rows are active than before: the entry and the TP1 keep their room.
<1>4. ASSUME Goes PROVE Active' \ OfKey(job.by)' \subseteq Active \ OfKey(job.by) \/ job' = Idle
  <2> SUFFICES ASSUME job' # Idle, NEW t \in Active', t \notin OfKey(job.by)'
               PROVE  t \in Active /\ t \notin OfKey(job.by)
    OBVIOUS
  <2>1. t \in Active /\ t \in Tickets
    BY <1>0, <1>3
  <2>2. t <= used
    BY <1>0, <2>1, ForexAssumption DEF Opened, Active, ACTIVE, Tickets
  <2>3. pos'[t].owner = pos[t].owner
    BY <2>1, <2>2, TicketsKept
  <2> QED
    BY <1>0, <1>4, <2>1, <2>3 DEF Goes, OfKey, OfStrategy
<1>5. ASSUME Goes, job # Idle, job' # Idle,
             job'.kind = "ENTRY" => job.at \notin {"guard", "cap"} \/ job'.at \in {"guard", "cap"},
             job'.kind = "TP1" => job'.rows = job.rows
      PROVE  /\ Cardinality(Active') <= max
             /\ job'.kind = "ENTRY" /\ job'.at \notin {"guard", "cap"} =>
                  Cardinality(Active' \ OfKey(job.by)') < max
             /\ job'.kind = "TP1" /\ job'.rows # {} => Cardinality(Active' \ job'.rows) < max
  <2>1. Active' \subseteq Active
    BY <1>3, <1>5
  <2>2. Cardinality(Active') <= Cardinality(Active) /\ Cardinality(Active') \in Nat
        /\ Cardinality(Active) \in Nat
    BY <1>0, <2>1, FewerTickets
  <2>3. /\ Cardinality(Active' \ OfKey(job.by)') <= Cardinality(Active \ OfKey(job.by))
        /\ Cardinality(Active' \ OfKey(job.by)') \in Nat
        /\ Cardinality(Active \ OfKey(job.by)) \in Nat
    BY <1>0, <1>4, <1>5, FewerTickets
  <2>4. ASSUME job'.kind = "TP1"
        PROVE  /\ Cardinality(Active' \ job'.rows) <= Cardinality(Active \ job.rows)
               /\ Cardinality(Active' \ job'.rows) \in Nat
               /\ Cardinality(Active \ job.rows) \in Nat
    BY <1>0, <1>5, <2>1, <2>4, FewerTickets
  <2>5. /\ job'.kind = "ENTRY" /\ job'.at \notin {"guard", "cap"} =>
             Cardinality(Active \ OfKey(job.by)) < max
        /\ job'.kind = "TP1" /\ job'.rows # {} => Cardinality(Active \ job.rows) < max
    BY <1>1, <1>5 DEF Goes
  <2> QED
    BY <1>0, <1>1, <2>2, <2>3, <2>4, <2>5
<1>6. ASSUME Active' \subseteq Active PROVE Cardinality(Active') <= max
  <2>1. Cardinality(Active') <= Cardinality(Active) /\ Cardinality(Active') \in Nat
        /\ Cardinality(Active) \in Nat
    BY <1>0, <1>6, FewerTickets
  <2> QED
    BY <1>0, <1>1, <2>1
<1>7. CASE receive
  BY <1>3, <1>6, <1>7, Receives DEF receive, GoodJobs, Control, insert_position, persist, At
<1>8. CASE max_open_orders_rejection /\ job' # Idle
  <2>1. PICK rows \in SUBSET Tickets : Got(Active, rows) /\ (Full(rows) => Done)
    BY <1>8 DEF max_open_orders_rejection
  <2>2. ~Full(Active)
    BY <1>2, <1>8, <2>1 DEF Done
  <2>3. At("cap") /\ Goto("netting")
    BY <1>8 DEF max_open_orders_rejection, Done
  <2>4. Goes /\ job'.at = "netting" /\ job.kind = "ENTRY" /\ job # Idle
    BY <1>0, <2>3, GuardPasses DEF At
  <2>5. Cardinality(Active \ OfKey(job.by)) < max
    <3>1. Cardinality(Active) \in Nat /\ Cardinality(Active \ OfKey(job.by)) \in Nat
          /\ Cardinality(Active \ OfKey(job.by)) <= Cardinality(Active)
      BY <1>0, FewerTickets
    <3>2. CASE Active \cap OfKey(job.by) # {}
      <4>1. Active \ OfKey(job.by) # Active
        BY <3>2
      <4>2. Cardinality(Active \ OfKey(job.by)) < Cardinality(Active)
        BY <1>0, <4>1, FewerTickets
      <4> QED
        BY <1>0, <1>1, <3>1, <4>2
    <3>3. CASE Active \cap OfKey(job.by) = {}
      <4>1. ~(Cardinality(Active) >= max)
        BY <2>2, <3>3 DEF Full
      <4> QED
        BY <1>0, <3>1, <4>1
    <3> QED
      BY <3>2, <3>3
  <2>6. Cardinality(Active' \ OfKey(job.by)') <= Cardinality(Active \ OfKey(job.by))
        /\ Cardinality(Active' \ OfKey(job.by)') \in Nat
        /\ Cardinality(Active \ OfKey(job.by)) \in Nat
    BY <1>0, <1>4, <1>8, <2>4, FewerTickets
  <2>7. Cardinality(Active' \ OfKey(job.by)') < max
    BY <1>0, <2>5, <2>6
  <2> QED
    BY <1>3, <1>6, <1>8, <2>4, <2>7 DEF Goes
<1>9. CASE (symbol_open_rejection \/ other_holders) /\ job' # Idle
  <2>1. \E from \in {"guard", "netting"}, to \in {"cap", "db_stale"} :
          At(from) /\ Goto(to) /\ (from = "guard" => to = "cap")
    BY <1>9 DEF symbol_open_rejection, other_holders, Done
  <2>2. Goes /\ job.kind = "ENTRY" /\ job # Idle /\ (job.at = "guard" => job'.at = "cap")
        /\ job.at # "cap"
    BY <1>0, <2>1, GuardPasses DEF At
  <2> QED
    BY <1>5, <1>9, <2>2 DEF Goes
<1>10. CASE (db_stale \/ find_stale \/ mark_stale \/ order_filled) /\ job' # Idle
  <2>1. Goes /\ job.kind = "ENTRY" /\ job.at \in {"db_stale", "find_stale", "mark_stale", "order"}
    BY <1>0, <1>10, ReadsStale, FindsStale, MarksStale, FillsOrder
  <2>2. job # Idle
    BY <1>10 DEF db_stale, find_stale, mark_stale, order_filled, At
  <2> QED
    BY <1>5, <1>10, <2>1, <2>2 DEF Goes
<1>11. CASE get_db_position /\ job' # Idle
  <2>1. PICK rows \in SUBSET Tickets :
          /\ Got(Active \cap OfKey(job.by), rows)
          /\ Goes /\ job'.rows = Oldest(rows) /\ job.kind \in {"TP1", "CLOSE", "FLAT"}
    BY <1>0, <1>11, LooksUp
  <2>2. Active' \subseteq Active /\ job'.rows \subseteq Active
    BY <1>2, <1>3, <1>11, <2>1, OldestIsARow
  <2>3. job'.rows # {} => Cardinality(Active' \ job'.rows) < max
    <3>1. SUFFICES ASSUME job'.rows # {} PROVE Cardinality(Active' \ job'.rows) < max
      OBVIOUS
    <3>2. Active' \ job'.rows # Active
      BY <2>2, <3>1
    <3>3. Cardinality(Active' \ job'.rows) < Cardinality(Active)
          /\ Cardinality(Active' \ job'.rows) \in Nat /\ Cardinality(Active) \in Nat
      <4>1. Active' \ job'.rows \in SUBSET Active
        BY <2>2
      <4> QED
        BY <1>0, <3>2, <4>1, FewerTickets
    <3> QED
      BY <1>0, <1>1, <3>3
  <2> QED
    BY <1>6, <2>1, <2>2, <2>3 DEF Goes
<1>12. CASE (live_guard \/ tp1_list \/ partial_close \/ update_position_sl
             \/ update_position_sl_fails) /\ job' # Idle
  <2>1. Goes /\ job.kind \in {"TP1", "CLOSE"} /\ job'.rows = job.rows
    BY <1>0, <1>12, GuardsLive, ListsForTP1, ReducesPosition, MovesStop, FallsBack
  <2>2. job # Idle
    BY <1>12 DEF live_guard, tp1_list, partial_close, update_position_sl,
                 update_position_sl_fails, At
  <2> QED
    BY <1>5, <1>12, <2>1, <2>2 DEF Goes
<1>13. CASE (list_positions \/ close_position \/ all_closed) /\ job' # Idle
  <2>1. Goes /\ job'.rows = job.rows /\ job.at \in {"list", "close"}
    BY <1>0, <1>13, Lists, Closes, FinishesClosing
  <2>2. job # Idle
    BY <1>13 DEF list_positions, close_position, all_closed, At
  <2> QED
    BY <1>5, <1>13, <2>1, <2>2
<1>14. CASE flat_lookup /\ job' # Idle
  <2>1. Goes /\ job.kind = "FLAT"
    BY <1>0, <1>14, LooksUpAgain
  <2> QED
    BY <1>3, <1>6, <1>14, <2>1 DEF Goes
<1>15. CASE insert_position
  <2>1. /\ job # Idle /\ job \in GoodJobs /\ job.at = "insert" /\ job.target \in Tickets
        /\ job.kind = "ENTRY" /\ job' = Idle
    BY <1>0, <1>15 DEF insert_position, At, GoodJobs, Control, Done
  <2>2. Active \cap OfKey(job.by) = {} /\ Cardinality(Active \ OfKey(job.by)) < max
    BY <1>1, <2>1 DEF JobCalm
  <2>3. Active \ OfKey(job.by) = Active
    BY <2>2
  <2>4. Active' \subseteq Active \cup {job.target}
    BY <1>0, <1>15 DEF insert_position, Active
  <2>5. Cardinality(Active') <= Cardinality(Active) + 1 /\ Cardinality(Active) \in Nat
        /\ Cardinality(Active') \in Nat
    BY <1>0, <2>1, <2>4, OneMoreTicket
  <2> QED
    BY <1>0, <2>1, <2>2, <2>3, <2>5
<1>16. CASE persist
  <2>1. job # Idle /\ job \in GoodJobs /\ job.at = "persist" /\ job' = Idle /\ job.rows \subseteq Tickets
    BY <1>0, <1>16 DEF persist, At, Done, GoodJobs, Jobs
  <2>2. \A v \in Tickets : row'[v] \in ACTIVE =>
          row[v] \in ACTIVE \/ (v \in job.rows /\ job.kind = "TP1")
    BY <1>0, <1>1, <1>16, <2>1 DEF persist, Persisted, JobCalm
  <2>3. CASE job.kind # "TP1" \/ job.rows = {}
    BY <1>6, <2>1, <2>2, <2>3 DEF Active
  <2>4. ASSUME job.kind = "TP1", NEW r \in job.rows PROVE Cardinality(Active') <= max
    <3>1. job.rows = {r} /\ r \in Tickets
      BY <1>1, <2>1, <2>4 DEF JobCalm
    <3>2. Active' \subseteq (Active \ job.rows) \cup {r}
      BY <2>2, <3>1 DEF Active
    <3>3. Cardinality(Active') <= Cardinality(Active \ job.rows) + 1
          /\ Cardinality(Active \ job.rows) \in Nat /\ Cardinality(Active') \in Nat
      <4>1. Active \ job.rows \in SUBSET Tickets
        BY <1>0
      <4> QED
        BY <1>0, <3>1, <3>2, <4>1, OneMoreTicket
    <3>4. Cardinality(Active \ job.rows) < max
      BY <1>1, <2>1, <2>4
    <3> QED
      BY <1>0, <3>3, <3>4
  <2> QED
    BY <2>1, <2>3, <2>4
<1>17. CASE job' = job
  <2>1. ~(insert_position \/ persist) \/ job' = Idle
    BY DEF insert_position, persist, Done
  <2>2. CASE job' = Idle
    BY <1>3, <1>6, <1>15, <1>16, <2>2
  <2>3. CASE job' # Idle
    <3>1. Goes
      BY <1>0, <1>17, <2>3 DEF Goes
    <3> QED
      BY <1>5, <1>17, <2>3, <3>1
  <2> QED
    BY <2>2, <2>3
<1>18. CASE job' = Idle
  BY <1>3, <1>6, <1>15, <1>16, <1>18
<1> QED
  BY <1>7, <1>8, <1>9, <1>10, <1>11, <1>12, <1>13, <1>14, <1>15, <1>16, <1>17, <1>18
     DEF Next, vars, Done, order_refused, insert_conflicts, insert_fails,
         partial_close_fails, admin_sync, terminal_closes, on_terminal_close, Crash

\* However many strategies and signals share the symbol, as long as every call
\* succeeds no more rows are active than MAX_OPEN_ORDERS, a TP1 that brings its
\* row back included (max_open_orders_rejection, _force_close_stale,
\* _persist_success).
THEOREM CapIsKept == Spec => []CapHolds
<1> DEFINE Inv == Typed /\ Opened /\ OwnRows /\ AdminKnows /\ Calm /\ CapCalm
<1>1. Init => Inv
  BY TypedStart, OpenedStart, CalmStart, CapStart DEF Init, AdminKnows
<1>2. Inv /\ [Next]_vars => Inv'
  BY TypedStep, OpenedStep, OwnRowsStep, AdminKnowsStep, CalmStep, CapStep
<1>3. Inv => CapHolds
  BY DEF CapCalm, CapHolds
<1> QED
  BY <1>1, <1>2, <1>3, PTL DEF Spec

-----------------------------------------------------------------------------
(* The sizing of an entry: arithmetic *)

LEMMA Division ==
    ASSUME NEW a \in Nat, NEW b \in Nat \ {0}
    PROVE  /\ a \div b \in Nat /\ a % b \in 0..(b - 1)
           /\ a = (a \div b) * b + (a % b)
OBVIOUS

LEMMA Multiple == ASSUME NEW q \in Int, NEW b \in Nat \ {0} PROVE (q * b) % b = 0
OBVIOUS

LEMMA Quotient ==
    ASSUME NEW a \in Nat, NEW b \in Nat \ {0}, NEW v \in Nat, b * v <= a
    PROVE  v <= a \div b
OBVIOUS

LEMMA TimesLarger ==
    ASSUME NEW a \in Nat, NEW b \in Nat, NEW c \in Nat, a <= b
    PROVE  a * c <= b * c
OBVIOUS

-----------------------------------------------------------------------------
(* The volume grid *)

Tradable(v) == v \in VolumeMin..VolumeMax /\ v % VolumeStep = 0

LEMMA ClampedIsTradable ==
    ASSUME NEW v \in Int, v % VolumeStep = 0
    PROVE  Tradable(Clamp(v))
BY SizingAssumption DEF Tradable, Clamp

LEMMA FlooredIsOnGrid ==
    ASSUME NEW v \in Int
    PROVE  Floored(v) \in Int /\ Floored(v) % VolumeStep = 0
<1>1. v \div VolumeStep \in Int
  BY SizingAssumption
<1> QED
  BY <1>1, Multiple, SizingAssumption DEF Floored

LEMMA TradableIsVolume ==
    ASSUME NEW v, Tradable(v)
    PROVE  v \in Volumes \ {0}
BY SizingAssumption DEF Tradable, Volumes

\* Rounding to the nearest step is off by half a step at most.
LEMMA NearestIsNear ==
    ASSUME NEW cash \in Nat, NEW dist \in Nat \ {0}
    PROVE  /\ NearestSteps(cash, dist) \in Nat
           /\ 2 * (NearestSteps(cash, dist) * VolumeStep) * dist
                <= 2 * cash + VolumeStep * dist
<1> DEFINE unit == dist * VolumeStep
           q == cash \div unit
           r == cash % unit
           n == NearestSteps(cash, dist)
<1>1. unit \in Nat \ {0}
  BY SizingAssumption
<1>2. q \in Nat /\ r \in 0..(unit - 1) /\ cash = q * unit + r
  BY <1>1, Division
<1>3. n = IF 2 * r > unit \/ (2 * r = unit /\ q % 2 = 1) THEN q + 1 ELSE q
  BY DEF NearestSteps
<1> HIDE DEF q, r, n
<1>4. 2 * (n * unit) <= 2 * cash + unit
  <2>1. CASE n = q
    BY <2>1, <1>1, <1>2
  <2>2. CASE n = q + 1 /\ 2 * r >= unit
    <3>1. n * unit = q * unit + unit
      BY <2>2, <1>1, <1>2
    <3>2. q * unit \in Nat
      BY <1>1, <1>2
    <3> QED
      BY <2>2, <3>1, <3>2, <1>1, <1>2
  <2> QED
    BY <1>1, <1>2, <1>3, <2>1, <2>2
<1>5. n \in Nat
  BY <1>2, <1>3
<1>6. n * unit = (n * VolumeStep) * dist /\ unit = VolumeStep * dist
  BY <1>5, SizingAssumption
<1>7. 2 * (n * unit) = 2 * (n * VolumeStep) * dist
  BY <1>5, SizingAssumption
<1> QED
  BY <1>4, <1>5, <1>6, <1>7 DEF n

-----------------------------------------------------------------------------
(* The rules *)

\* What a stop-out costs, against the risk, doubled.
WithinRisk(v) ==
    2 * v * Distance(tick, sl) <= 2 * signal.cash + VolumeStep * Distance(tick, sl)

LEMMA SignalFields ==
    ASSUME signal \in Signals
    PROVE  /\ signal.side \in {"LONG", "SHORT"}
           /\ signal.price \in Prices /\ signal.sl \in Levels /\ signal.tp2 \in Levels
           /\ signal.quantity \in Nat /\ signal.cash \in Nat \ {0}
<1>1. /\ signal.side \in {"LONG", "SHORT"} /\ signal.price \in Prices
      /\ signal.sl \in Levels /\ signal.tp2 \in Levels
      /\ signal.quantity \in Quantities /\ signal.cash \in RiskCash
  BY DEF Signals
<1> QED
  BY <1>1, SizingAssumption

LEMMA CalculatedLot ==
    ASSUME SizingTypeOK, tick \in Prices
    PROVE  LET v == calculate_lot_size(tick, sl)
           IN  Tradable(v) /\ (v <= VolumeMin \/ WithinRisk(v))
<1> DEFINE v == calculate_lot_size(tick, sl)
           dist == Distance(tick, sl)
           n == NearestSteps(signal.cash, dist)
<1>1. CASE tick = sl
  BY <1>1, SizingAssumption DEF calculate_lot_size, Tradable
<1>2. CASE tick # sl
  <2>1. dist \in Nat \ {0} /\ signal.cash \in Nat
    BY <1>2, SignalFields, SizingAssumption DEF SizingTypeOK, Distance, Prices, Placed
  <2>2. n \in Nat /\ 2 * (n * VolumeStep) * dist <= 2 * signal.cash + VolumeStep * dist
    BY <2>1, NearestIsNear
  <2>3. v = Clamp(n * VolumeStep)
    BY <1>2 DEF calculate_lot_size
  <2> HIDE DEF v, n, dist
  <2>4. n * VolumeStep \in Nat /\ (n * VolumeStep) % VolumeStep = 0
    BY <2>2, SizingAssumption, Multiple
  <2>5. Tradable(v)
    BY <2>3, <2>4, ClampedIsTradable
  <2>6. v <= VolumeMin \/ v <= n * VolumeStep
    BY <2>3, <2>4, SizingAssumption DEF Clamp
  <2>7. CASE v <= n * VolumeStep
    <3>1. v * dist <= (n * VolumeStep) * dist
      BY <2>1, <2>4, <2>5, <2>7, TimesLarger, TradableIsVolume, SizingAssumption
         DEF Tradable
    <3>2. 2 * v * dist <= 2 * (n * VolumeStep) * dist
      BY <3>1, <2>1, <2>4, <2>5, SizingAssumption DEF Tradable
    <3>3. 2 * v * dist <= 2 * signal.cash + VolumeStep * dist
      BY <3>2, <2>1, <2>2, <2>5, SizingAssumption DEF Tradable
    <3> QED
      BY <3>3, <2>5 DEF WithinRisk, dist, v
  <2> QED
    BY <2>5, <2>6, <2>7 DEF v
<1> QED
  BY <1>1, <1>2

\* Whatever rule applies: the broker takes the lot and it is within the risk,
\* or it is one of the two that do not depend on the stop.
LEMMA LotOfEachRule ==
    ASSUME SizingTypeOK, tick \in Prices, NEW equity \in BOOLEAN
    PROVE  LET v == Lot(equity)
           IN  /\ v \in Volumes \ {0}
               /\ Tradable(v) \/ (signal.sizing = "equity" /\ v = FixedLot)
               /\ signal.sizing # "quantity" =>
                    \/ v <= VolumeMin \/ WithinRisk(v)
                    \/ signal.sizing = "equity" /\ v = FixedLot
<1> DEFINE v == Lot(equity)
<1>1. CASE signal.sizing = "quantity"
  <2>1. signal.quantity \in Int
    BY SignalFields DEF SizingTypeOK
  <2>2. Tradable(Clamp(Floored(signal.quantity)))
    BY <2>1, FlooredIsOnGrid, ClampedIsTradable
  <2>3. v = Clamp(Floored(signal.quantity))
    BY <1>1 DEF Lot
  <2> QED
    BY <1>1, <2>2, <2>3, TradableIsVolume
<1>2. CASE signal.sizing # "quantity" /\ sl = 0
  <2>1. v = VolumeMin
    BY <1>2 DEF Lot
  <2>2. Tradable(VolumeMin)
    BY SizingAssumption DEF Tradable
  <2> QED
    BY <2>1, <2>2, TradableIsVolume, SizingAssumption
<1>3. CASE signal.sizing = "equity" /\ sl # 0 /\ ~equity
  <2>1. v = FixedLot
    BY <1>3 DEF Lot
  <2> QED
    BY <1>3, <2>1, SizingAssumption DEF Volumes
<1>4. CASE signal.sizing # "quantity" /\ sl # 0 /\ ~(signal.sizing = "equity" /\ ~equity)
  <2>1. v = calculate_lot_size(tick, sl)
    BY <1>4 DEF Lot
  <2> QED
    BY <2>1, CalculatedLot, TradableIsVolume
<1> QED
  BY <1>1, <1>2, <1>3, <1>4

-----------------------------------------------------------------------------
(* The pipeline *)

\* What the guard let through ...
Guarded ==
    stage \in {"guarded", "ticked", "sized", "sent"} /\ judged # None =>
        ~PassedStop(judged)

\* ... is priced, ...
Priced ==
    stage \in {"ticked", "sized", "sent"} =>
        /\ tick \in Prices /\ Bid(tick) > 0
        /\ sl = ValidStop(tick) /\ tp = ValidTarget(tick)

\* ... sized ...
Sized ==
    stage \in {"sized", "sent"} => \E equity \in BOOLEAN : asked = Lot(equity)

\* ... and fitted: the lot stays as it was, or it is a smaller one on the grid.
Fitted ==
    stage = "sent" =>
        /\ volume = asked \/ (volume < asked /\ Tradable(volume))
        /\ budget # None => volume <= budget

SizingInv == SizingTypeOK /\ Guarded /\ Priced /\ Sized /\ Fitted

LEMMA SizingStart == SizingInit => SizingInv
BY SizingAssumption
   DEF SizingInit, SizingInv, SizingTypeOK, Guarded, Priced, Sized, Fitted, Placed, Volumes

\* The levels of an order are prices.
LEMMA StopsArePlaced ==
    ASSUME SizingTypeOK, NEW price \in Prices, Bid(price) > 0
    PROVE  ValidStop(price) \in Placed /\ ValidTarget(price) \in Placed
<1>1. signal.side \in {"LONG", "SHORT"} /\ signal.sl \in Levels /\ signal.tp2 \in Levels
  BY SignalFields DEF SizingTypeOK
<1>2. Bid(price) \in Int /\ Ask(price) \in Int /\ Bid(price) <= price /\ Ask(price) >= price
      /\ Ask(price) <= price + Spread
  BY SizingAssumption DEF Bid, Ask, Prices
<1> QED
  BY <1>1, <1>2, SizingAssumption DEF ValidStop, ValidTarget, Resolved, Placed, Levels, Prices, IsLong

\* Fitting the margin to the account, for a lot it cannot carry as it is.
LEMMA AffordableLot ==
    ASSUME SizingTypeOK, asked # 0, NEW rate \in MarginRates, NEW free \in FreeMargins
    PROVE  LET v == Affordable(rate, free)
           IN  /\ v \in Volumes /\ v <= asked
               /\ v = asked \/ (v < asked /\ Tradable(v))
               /\ Usable(free) \div rate \in Nat
               /\ Margin(rate, v) <= Usable(free) => v <= Usable(free) \div rate
               /\ Margin(rate, asked) <= Usable(free) => asked <= Usable(free) \div rate
<1>1. rate \in Nat \ {0} /\ free \in Nat /\ asked \in Nat \ {0}
  BY SizingAssumption DEF SizingTypeOK, Volumes
<1>2. Usable(free) \in Nat /\ Margin(rate, asked) \in Nat \ {0}
  BY <1>1 DEF Usable, Margin
<1> DEFINE q == (asked * Usable(free)) \div Margin(rate, asked)
           fit == Clamp(Floored(q))
<1>0. asked * Usable(free) \in Nat
  BY <1>1, <1>2
<1>3. q \in Nat
  BY <1>0, <1>2, Division
<1>4. Tradable(fit)
  BY <1>3, FlooredIsOnGrid, ClampedIsTradable
<1>5. Affordable(rate, free) = IF fit < asked THEN fit ELSE asked
  BY DEF Affordable
<1> HIDE DEF fit, q
<1>6. fit \in Volumes
  BY <1>4, TradableIsVolume
<1>7. Usable(free) \div rate \in Nat
  BY <1>1, <1>2, Division
<1>8. \A v \in Volumes : Margin(rate, v) <= Usable(free) => v <= Usable(free) \div rate
  BY <1>1, <1>2, Quotient, SizingAssumption DEF Margin, Volumes
<1> QED
  BY <1>1, <1>4, <1>5, <1>6, <1>7, <1>8, SizingAssumption DEF SizingTypeOK, Volumes

LEMMA SizingStep == SizingInv /\ [SizingNext]_sizing_vars => SizingInv'
<1> SUFFICES ASSUME SizingInv, [SizingNext]_sizing_vars PROVE SizingInv'
  OBVIOUS
<1> USE DEF SizingInv
<1>1. CASE stale_signal_rejection
  BY <1>1 DEF stale_signal_rejection, SizingTypeOK, Guarded, Priced, Sized, Fitted, PassedStop,
              IsLong
<1>2. CASE no_tick
  BY <1>2 DEF no_tick, SizingTypeOK, Guarded, Priced, Sized, Fitted
<1>3. CASE validate_stops
  <2>1. PICK price \in Prices : /\ Bid(price) > 0 /\ tick' = price
                                /\ sl' = ValidStop(price) /\ tp' = ValidTarget(price)
    BY <1>3 DEF validate_stops
  <2>2. /\ stage = "guarded" /\ stage' = "ticked"
        /\ UNCHANGED <<signal, judged, asked, volume, budget>>
    BY <1>3 DEF validate_stops
  <2>3. SizingTypeOK'
    BY <2>1, <2>2, StopsArePlaced DEF SizingTypeOK
  <2>4. Priced'
    BY <2>1, <2>2 DEF Priced, Bid, Ask, ValidStop, ValidTarget, Resolved, IsLong
  <2> QED
    BY <2>2, <2>3, <2>4 DEF Guarded, Sized, Fitted, PassedStop, IsLong
<1>4. CASE _resolve_entry_volume
  <2>1. PICK equity \in BOOLEAN : asked' = Lot(equity)
    BY <1>4 DEF _resolve_entry_volume
  <2>2. /\ stage = "ticked" /\ stage' = "sized"
        /\ UNCHANGED <<signal, judged, tick, sl, tp, volume, budget>>
    BY <1>4 DEF _resolve_entry_volume
  <2>3. tick \in Prices
    BY <2>2 DEF Priced
  <2>4. SizingTypeOK'
    BY <2>1, <2>2, <2>3, LotOfEachRule DEF SizingTypeOK
  <2>5. Priced'
    BY <2>2 DEF Priced, Bid, ValidStop, ValidTarget, Ask, Resolved, IsLong
  <2>6. Sized'
    BY <2>1, <2>2 DEF Sized, Lot, calculate_lot_size, NearestSteps
  <2> QED
    BY <2>2, <2>4, <2>5, <2>6 DEF Guarded, Fitted, PassedStop, IsLong
<1>5. CASE _fit_volume_to_margin
  <2>1. stage = "sized" /\ UNCHANGED <<signal, judged, tick, sl, tp, asked>>
    BY <1>5 DEF _fit_volume_to_margin
  <2>2. asked \in Volumes \ {0}
    BY <2>1, LotOfEachRule DEF Sized, Priced
  <2>3. \/ stage' = "refused" /\ UNCHANGED <<volume, budget>>
        \/ /\ stage' = "sent" /\ volume' \in Volumes /\ budget' \in Nat \cup {None}
           /\ volume' = asked \/ (volume' < asked /\ Tradable(volume'))
           /\ budget' # None => volume' <= budget'
    <3>1. PICK rate \in MarginRates \cup {None}, free \in FreeMargins \cup {None},
               again \in BOOLEAN :
            IF rate = None \/ free = None THEN Send(asked, None)
            ELSE IF Margin(rate, asked) <= Usable(free)
                 THEN Send(asked, Usable(free) \div rate)
            ELSE IF again /\ Margin(rate, Affordable(rate, free)) > Usable(free)
                 THEN Refuse
            ELSE Send(Affordable(rate, free), IF again THEN Usable(free) \div rate ELSE None)
      BY <1>5 DEF _fit_volume_to_margin
    <3>2. CASE rate = None \/ free = None
      BY <3>1, <3>2, <2>2 DEF Send
    <3>3. CASE rate \in MarginRates /\ free \in FreeMargins /\ rate # None /\ free # None
      <4>1. /\ Affordable(rate, free) \in Volumes
            /\ \/ Affordable(rate, free) = asked
               \/ Affordable(rate, free) < asked /\ Tradable(Affordable(rate, free))
            /\ Usable(free) \div rate \in Nat
            /\ Margin(rate, Affordable(rate, free)) <= Usable(free)
                 => Affordable(rate, free) <= Usable(free) \div rate
            /\ Margin(rate, asked) <= Usable(free) => asked <= Usable(free) \div rate
        BY <3>3, <2>2, AffordableLot
      <4>2. Margin(rate, Affordable(rate, free)) \in Int /\ Usable(free) \in Int
        BY <3>3, <4>1, SizingAssumption DEF Margin, Usable, Volumes
      <4>3. CASE Margin(rate, asked) <= Usable(free)
        BY <3>1, <3>3, <4>1, <4>3, <2>2 DEF Send
      <4>4. CASE /\ ~(Margin(rate, asked) <= Usable(free))
                 /\ again /\ Margin(rate, Affordable(rate, free)) > Usable(free)
        BY <3>1, <3>3, <4>4 DEF Refuse
      <4>5. CASE /\ ~(Margin(rate, asked) <= Usable(free))
                 /\ ~(again /\ Margin(rate, Affordable(rate, free)) > Usable(free))
        <5>1. Send(Affordable(rate, free), IF again THEN Usable(free) \div rate ELSE None)
          BY <3>1, <3>3, <4>5
        <5>2. again => Affordable(rate, free) <= Usable(free) \div rate
          BY <4>1, <4>2, <4>5
        <5> QED
          BY <4>1, <5>1, <5>2 DEF Send
      <4> QED
        BY <4>3, <4>4, <4>5
    <3> QED
      BY <3>2, <3>3
  <2>4. SizingTypeOK'
    BY <2>1, <2>3 DEF SizingTypeOK
  <2>5. Priced'
    BY <2>1, <2>3 DEF Priced, Bid, ValidStop, ValidTarget, Ask, Resolved, IsLong
  <2>6. Sized'
    BY <2>1, <2>3 DEF Sized, Lot, calculate_lot_size, NearestSteps
  <2>7. Fitted' /\ Guarded'
    BY <2>1, <2>3 DEF Fitted, Guarded, PassedStop, IsLong
  <2> QED
    BY <2>4, <2>5, <2>6, <2>7
<1>6. CASE UNCHANGED sizing_vars
  BY <1>6 DEF sizing_vars, SizingTypeOK, Guarded, Priced, Sized, Fitted, PassedStop, IsLong, Bid,
              ValidStop, ValidTarget, Ask, Resolved, Lot, calculate_lot_size, NearestSteps
<1> QED
  BY <1>1, <1>2, <1>3, <1>4, <1>5, <1>6 DEF SizingNext

\* Every stage hands on prices, levels and lots of the right kind: a lot is never
\* larger than the broker's largest plus the fixed one, a level never negative.
THEOREM SizingTypeCorrect == SizingSpec => []SizingTypeOK
<1>1. SizingInv => SizingTypeOK
  BY DEF SizingInv
<1> QED
  BY SizingStart, SizingStep, <1>1, PTL DEF SizingSpec

\* No order starts beyond its own stop or target, wherever the quote has moved
\* between the guard and the order, for any spread and any stop distance.
THEOREM LevelsAreRight == SizingSpec => []LevelsAroundThePrice
<1>1. SizingInv => LevelsAroundThePrice
  <2> SUFFICES ASSUME SizingInv, stage = "sent" PROVE LevelsAroundThePrice
    BY DEF LevelsAroundThePrice
  <2>1. signal.side \in {"LONG", "SHORT"} /\ signal.sl \in Levels /\ signal.tp2 \in Levels
    BY SignalFields DEF SizingInv, SizingTypeOK
  <2>2. /\ tick \in Prices /\ Bid(tick) > 0
        /\ sl = ValidStop(tick) /\ tp = ValidTarget(tick)
    BY DEF SizingInv, Priced
  <2>3. Bid(tick) \in Int /\ Ask(tick) \in Int
    BY <2>2, SizingAssumption DEF Bid, Ask, Prices
  <2>4. judged # None /\ signal.sl # 0 =>
          IF IsLong THEN judged > signal.sl ELSE judged < signal.sl
    BY <2>1 DEF SizingInv, SizingTypeOK, Guarded, PassedStop, Prices, Levels
  <2>5. sl # 0 =>
          IF IsLong THEN sl < Bid(tick) - StopsLevel \/ Bid(tick) - StopsLevel <= 1
          ELSE sl > Ask(tick) + StopsLevel
    BY <2>1, <2>2, <2>3, SizingAssumption DEF ValidStop, Resolved, Levels
  <2>6. tp # 0 =>
          IF IsLong THEN tp > Ask(tick) + StopsLevel
          ELSE tp < Bid(tick) - StopsLevel \/ Bid(tick) - StopsLevel <= 1
    BY <2>1, <2>2, <2>3, SizingAssumption DEF ValidTarget, Resolved, Levels
  <2> QED
    BY <2>4, <2>5, <2>6 DEF LevelsAroundThePrice
<1> QED
  BY SizingStart, SizingStep, <1>1, PTL DEF SizingSpec

\* A stop-out costs the configured risk and at most half a volume step more,
\* unless the smallest or the fixed lot is already too much.
THEOREM RiskStaysBounded == SizingSpec => []RiskIsBounded
<1>1. SizingInv => RiskIsBounded
  <2> SUFFICES ASSUME SizingInv, stage = "sent", signal.sizing # "quantity"
               PROVE  \/ volume <= VolumeMin
                      \/ signal.sizing = "equity" /\ volume <= FixedLot
                      \/ WithinRisk(volume)
    BY DEF RiskIsBounded, WithinRisk
  <2>1. PICK equity \in BOOLEAN : asked = Lot(equity)
    BY DEF SizingInv, Sized
  <2>2. tick \in Prices /\ SizingTypeOK
    BY DEF SizingInv, Priced
  <2>3. \/ asked <= VolumeMin \/ WithinRisk(asked)
        \/ signal.sizing = "equity" /\ asked = FixedLot
    BY <2>1, <2>2, LotOfEachRule
  <2>4. volume \in Nat /\ asked \in Nat /\ volume <= asked
    BY SizingAssumption DEF SizingInv, SizingTypeOK, Fitted, Volumes
  <2>5. ASSUME WithinRisk(asked) PROVE WithinRisk(volume)
    <3> DEFINE dist == Distance(tick, sl)
    <3>1. dist \in Nat /\ signal.cash \in Nat
      BY <2>2, SignalFields, SizingAssumption DEF SizingTypeOK, Distance, Prices, Placed
    <3>2. 2 * asked * dist <= 2 * signal.cash + VolumeStep * dist
      BY <2>5 DEF WithinRisk
    <3> HIDE DEF dist
    <3>3. volume * dist <= asked * dist
      BY <3>1, <2>4, TimesLarger
    <3>4. 2 * volume * dist <= 2 * signal.cash + VolumeStep * dist
      BY <3>1, <3>2, <3>3, <2>4, SizingAssumption
    <3> QED
      BY <3>4 DEF WithinRisk, dist
  <2> QED
    BY <2>3, <2>4, <2>5, SizingAssumption
<1> QED
  BY SizingStart, SizingStep, <1>1, PTL DEF SizingSpec

\* The broker accepts the lot of every order, the fixed lot excepted, and the
\* margin check never raises it, for any margin rate and any balance.
THEOREM LotsAreTradable == SizingSpec => []LotIsTradable
<1>1. SizingInv => LotIsTradable
  <2> SUFFICES ASSUME SizingInv, stage = "sent"
               PROVE  /\ Tradable(volume) \/ (signal.sizing = "equity" /\ volume = FixedLot)
                      /\ volume <= asked /\ (budget # None => volume <= budget)
    BY DEF LotIsTradable, Tradable
  <2>1. PICK equity \in BOOLEAN : asked = Lot(equity)
    BY DEF SizingInv, Sized
  <2>2. Tradable(asked) \/ (signal.sizing = "equity" /\ asked = FixedLot)
    BY <2>1, LotOfEachRule DEF SizingInv, Priced
  <2>3. volume <= asked /\ (budget # None => volume <= budget)
    BY SizingAssumption DEF SizingInv, SizingTypeOK, Fitted, Volumes
  <2> QED
    BY <2>2, <2>3 DEF SizingInv, Fitted
<1> QED
  BY SizingStart, SizingStep, <1>1, PTL DEF SizingSpec

=============================================================================
