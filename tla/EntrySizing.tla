----------------------------- MODULE EntrySizing -----------------------------
(***************************************************************************)
(* From an entry signal to the order a MetaTrader 5 worker sends: the      *)
(* staleness guard (worker/gateways/guard.py), ForexExecutor.open_position *)
(* (worker/gateways/forex/executor.py), StopValidator                      *)
(* (worker/gateways/forex/stop_validator.py), LotSizer                     *)
(* (worker/gateways/forex/lot_sizing.py) and the sizing mode               *)
(* (worker/gateways/config.py).                                            *)
(*                                                                         *)
(* The quote is read twice, once by the guard and once for the order, and  *)
(* moves in between.  Prices are whole points, volumes whole units of the  *)
(* volume grid, and 0 stands for a level the signal does not carry.        *)
(***************************************************************************)
EXTENDS Integers

CONSTANTS
    None,          \* no quote, no margin price, no account snapshot
    MaxPrice,      \* bound: prices are 1..MaxPrice
    Spread,        \* ask - bid
    StopsLevel,    \* the broker's minimum stop distance, in points
    VolumeMin, VolumeMax, VolumeStep,
    FixedLot,      \* the literal 0.01 lot
    DriftRPercent, \* MAX_ENTRY_DRIFT_R_PERCENT
    DriftPercent,  \* MAX_ENTRY_DRIFT_PERCENT
    Quantities,    \* lots the payload's quantity stands for
    RiskCash,      \* money at risk: capital times the risk percentage
    MarginRates,   \* margin of one unit of volume, in hundredths
    FreeMargins

ASSUME SizingAssumption ==
    /\ MaxPrice \in Nat \ {0} /\ Spread \in Nat /\ StopsLevel \in Nat
    /\ VolumeStep \in Nat \ {0}
    /\ VolumeMin \in Nat \ {0} /\ VolumeMin % VolumeStep = 0
    /\ VolumeMax \in Nat /\ VolumeMax % VolumeStep = 0 /\ VolumeMin <= VolumeMax
    /\ FixedLot \in Nat \ {0} /\ DriftRPercent \in Nat /\ DriftPercent \in Nat
    /\ Quantities \subseteq Nat /\ RiskCash \subseteq Nat \ {0}
    /\ MarginRates \subseteq Nat \ {0} /\ FreeMargins \subseteq Nat

VARIABLES
    stage,
    signal,    \* the entry
    judged,    \* the quote the guard read
    tick,      \* the quote the order is priced at
    sl, tp,    \* the levels of the order
    asked,     \* the lot of the sizing rule
    volume,    \* the lot of the order
    budget     \* money the account can still carry, None if it is not known

sizing_vars == <<stage, signal, judged, tick, sl, tp, asked, volume, budget>>

Prices == 1..MaxPrice
Levels == 0..MaxPrice
Placed == 0..(MaxPrice + Spread + StopsLevel + 1)
Volumes == 0..(VolumeMax + FixedLot)

\* sizing: the payload's quantity, the account's equity (which may be
\* unavailable), or the fixed capital.
Signals == [side: {"LONG", "SHORT"}, price: Prices, sl: Levels, tp2: Levels,
            sizing: {"quantity", "equity", "capital"}, quantity: Quantities, cash: RiskCash]

SizingTypeOK ==
    /\ stage \in {"new", "guarded", "ticked", "sized", "sent", "rejected", "refused"}
    /\ signal \in Signals
    /\ judged \in Prices \cup {None}
    /\ tick \in Prices \cup {None}
    /\ sl \in Placed /\ tp \in Placed
    /\ asked \in Volumes /\ volume \in Volumes
    /\ budget \in Nat \cup {None}

\* A signal as the broker computes it: its levels lie on the two sides of its
\* price.
WellFormed(s) ==
    /\ s.sl # 0 => IF s.side = "LONG" THEN s.sl < s.price ELSE s.sl > s.price
    /\ s.tp2 # 0 => IF s.side = "LONG" THEN s.tp2 > s.price ELSE s.tp2 < s.price

SizingInit ==
    /\ stage = "new"
    /\ signal \in {s \in Signals : WellFormed(s)}
    /\ judged = None /\ tick = None
    /\ sl = 0 /\ tp = 0 /\ asked = 0 /\ volume = 0 /\ budget = None

-----------------------------------------------------------------------------
(* The staleness guard *)

Distance(a, b) == IF a > b THEN a - b ELSE b - a

IsLong == signal.side = "LONG"

PassedTarget(quote) ==
    signal.tp2 # 0 /\ IF IsLong THEN quote >= signal.tp2 ELSE quote <= signal.tp2

PassedStop(quote) ==
    signal.sl # 0 /\ IF IsLong THEN quote <= signal.sl ELSE quote >= signal.sl

\* _drift_rejection: against the entry-to-stop risk, or the price where there is
\* no stop; a limit of 0 is no limit.
Drifted(quote) ==
    LET limit == IF signal.sl # 0 THEN DriftRPercent ELSE DriftPercent
        base == IF signal.sl # 0 THEN Distance(signal.price, signal.sl) ELSE signal.price
    IN limit > 0 /\ 100 * Distance(quote, signal.price) > limit * base

\* Without a quote the guard has nothing to judge on.
stale_signal_rejection ==
    /\ stage = "new"
    /\ \E quote \in Prices \cup {None} :
         /\ judged' = quote
         /\ stage' = IF quote # None
                        /\ (PassedTarget(quote) \/ PassedStop(quote) \/ Drifted(quote))
                     THEN "rejected" ELSE "guarded"
    /\ UNCHANGED <<signal, tick, sl, tp, asked, volume, budget>>

-----------------------------------------------------------------------------
(* Stops *)

\* tick is the price the order would fill at: the ask of a LONG, the bid of a
\* SHORT.
Bid(price) == IF IsLong THEN price - Spread ELSE price
Ask(price) == IF IsLong THEN price ELSE price + Spread

\* _resolve_stop: an adjustment that is no price keeps the signal's level.
Resolved(candidate, original) == IF candidate <= 0 THEN original ELSE candidate

\* Mutation: the stop is measured from the wrong side of the spread.
ValidStopWrongSide(price) ==
    IF signal.sl = 0 THEN 0
    ELSE IF IsLong /\ signal.sl >= Ask(price) - StopsLevel
         THEN Resolved(Ask(price) - StopsLevel - 1, signal.sl)
    ELSE IF ~IsLong /\ signal.sl <= Bid(price) + StopsLevel
         THEN Bid(price) + StopsLevel + 1
    ELSE signal.sl

ValidStop(price) ==
    IF signal.sl = 0 THEN 0
    ELSE IF IsLong /\ signal.sl >= Bid(price) - StopsLevel
         THEN Resolved(Bid(price) - StopsLevel - 1, signal.sl)
    ELSE IF ~IsLong /\ signal.sl <= Ask(price) + StopsLevel
         THEN Ask(price) + StopsLevel + 1
    ELSE signal.sl

ValidTarget(price) ==
    IF signal.tp2 = 0 THEN 0
    ELSE IF IsLong /\ signal.tp2 <= Ask(price) + StopsLevel
         THEN Ask(price) + StopsLevel + 1
    ELSE IF ~IsLong /\ signal.tp2 >= Bid(price) - StopsLevel
         THEN Resolved(Bid(price) - StopsLevel - 1, signal.tp2)
    ELSE signal.tp2

\* open_position: no usable quote, no order.
no_tick ==
    /\ stage = "guarded"
    /\ stage' = "refused"
    /\ UNCHANGED <<signal, judged, tick, sl, tp, asked, volume, budget>>

validate_stops ==
    /\ stage = "guarded"
    /\ \E price \in Prices :
         /\ Bid(price) > 0
         /\ tick' = price
         /\ sl' = ValidStop(price) /\ tp' = ValidTarget(price)
    /\ stage' = "ticked"
    /\ UNCHANGED <<signal, judged, asked, volume, budget>>

-----------------------------------------------------------------------------
(* The lot *)

\* Mutation: the broker's largest lot is not looked at.
ClampBelow(v) == IF v < VolumeMin THEN VolumeMin ELSE v

Clamp(v) == IF v > VolumeMax THEN VolumeMax ELSE IF v < VolumeMin THEN VolumeMin ELSE v

Floored(v) == (v \div VolumeStep) * VolumeStep

\* round(cash / dist / step): to the nearest, a tie to the even one.
NearestSteps(cash, dist) ==
    LET q == cash \div (dist * VolumeStep)
        r == cash % (dist * VolumeStep)
    IN IF 2 * r > dist * VolumeStep \/ (2 * r = dist * VolumeStep /\ q % 2 = 1)
       THEN q + 1 ELSE q

\* calculate_lot_size; a point is worth one unit of money per unit of volume.
calculate_lot_size(price, stop) ==
    IF price = stop THEN VolumeMin
    ELSE Clamp(NearestSteps(signal.cash, Distance(price, stop)) * VolumeStep)

\* Mutation: the lot is sized on the stop of the signal.
LotOnSignalStop(equity) ==
    CASE signal.sizing = "quantity" -> Clamp(Floored(signal.quantity))
      [] signal.sizing # "quantity" /\ sl = 0 -> VolumeMin
      [] signal.sizing = "equity" /\ sl # 0 /\ ~equity -> FixedLot
      [] OTHER -> calculate_lot_size(tick, signal.sl)

\* _resolve_entry_volume: the payload's quantity in lots; the smallest lot
\* without a stop; a fixed lot when the equity cannot be read; else by the risk
\* on the stop the order will carry.
Lot(equity) ==
    CASE signal.sizing = "quantity" -> Clamp(Floored(signal.quantity))
      [] signal.sizing # "quantity" /\ sl = 0 -> VolumeMin
      [] signal.sizing = "equity" /\ sl # 0 /\ ~equity -> FixedLot
      [] OTHER -> calculate_lot_size(tick, sl)

_resolve_entry_volume ==
    /\ stage = "ticked"
    /\ \E equity \in BOOLEAN : asked' = Lot(equity)
    /\ stage' = "sized"
    /\ UNCHANGED <<signal, judged, tick, sl, tp, volume, budget>>

\* Margin of v, and 95% of what is free, both in hundredths.
Margin(rate, v) == rate * v
Usable(free) == 95 * free

\* normalize_volume never returns less than the smallest lot: hence the cap.
Affordable(rate, free) ==
    LET v == Clamp(Floored((asked * Usable(free)) \div Margin(rate, asked)))
    IN IF v < asked THEN v ELSE asked

Send(v, b) ==
    /\ stage' = "sent" /\ volume' = v /\ budget' = b

Refuse ==
    /\ stage' = "refused" /\ UNCHANGED <<volume, budget>>

\* _fit_volume_to_margin: skipped when the margin or the account cannot be
\* read; the reduced lot is priced again, and sent unpriced if that fails.
_fit_volume_to_margin ==
    /\ stage = "sized"
    /\ \E rate \in MarginRates \cup {None}, free \in FreeMargins \cup {None},
          again \in BOOLEAN :
         IF rate = None \/ free = None THEN Send(asked, None)
         ELSE IF Margin(rate, asked) <= Usable(free)
              THEN Send(asked, Usable(free) \div rate)
         ELSE IF again /\ Margin(rate, Affordable(rate, free)) > Usable(free)
              THEN Refuse
         ELSE Send(Affordable(rate, free), IF again THEN Usable(free) \div rate ELSE None)
    /\ UNCHANGED <<signal, judged, tick, sl, tp, asked>>

SizingNext ==
    \/ stale_signal_rejection \/ no_tick \/ validate_stops
    \/ _resolve_entry_volume \/ _fit_volume_to_margin

SizingSpec == SizingInit /\ [][SizingNext]_sizing_vars

-----------------------------------------------------------------------------
\* An order never starts beyond its own levels: at the price the guard judged
\* the signal's stop and target lie on the two sides of it, and where the quote
\* has moved since, the stops sent are at the broker's distance from the new one
\* on the right sides, as far as prices are positive
\* (stale_signal_rejection, StopValidator.validate_stops).
LevelsAroundThePrice ==
    stage = "sent" =>
        /\ judged # None /\ signal.sl # 0 =>
             IF IsLong THEN judged > signal.sl ELSE judged < signal.sl
        /\ sl # 0 =>
             IF IsLong THEN sl < Bid(tick) - StopsLevel \/ Bid(tick) - StopsLevel <= 1
             ELSE sl > Ask(tick) + StopsLevel
        /\ tp # 0 =>
             IF IsLong THEN tp > Ask(tick) + StopsLevel
             ELSE tp < Bid(tick) - StopsLevel \/ Bid(tick) - StopsLevel <= 1

\* What a stop-out costs at the stop the order carries is the configured risk,
\* up to half a volume step of rounding, or the lot is no larger than the
\* broker's smallest, or than the fixed one where the equity could be missing;
\* widening the stop and fitting the margin never add to it
\* (_resolve_entry_volume, calculate_lot_size).
RiskIsBounded ==
    stage = "sent" /\ signal.sizing # "quantity" =>
        \/ volume <= VolumeMin
        \/ signal.sizing = "equity" /\ volume <= FixedLot
        \/ 2 * volume * Distance(tick, sl)
             <= 2 * signal.cash + VolumeStep * Distance(tick, sl)

\* The broker accepts the lot: it lies on the grid between the smallest and the
\* largest, whichever rule sized it and whatever the margin check made of it;
\* the one exception is the fixed lot, which no rule puts on the grid.  The
\* margin check only ever lowers it, and what it has priced fits the account
\* (normalize_volume, _resolve_entry_volume, _fit_volume_to_margin).
LotIsTradable ==
    stage = "sent" =>
        /\ \/ volume \in VolumeMin..VolumeMax /\ volume % VolumeStep = 0
           \/ signal.sizing = "equity" /\ volume = FixedLot
        /\ volume <= asked
        /\ budget # None => volume <= budget

=============================================================================
