------------------------------ MODULE RiskEngine ------------------------------
(***************************************************************************)
(* crates/atomic-risk/src/limits.rs: the pre-trade gate.                   *)
(*                                                                         *)
(* The main loop calls it from three handlers: check_order (followed by    *)
(* on_order_opened when it passes), the fill accounting, and the midnight  *)
(* reset.  One action here is one of those calls with everything it        *)
(* changes.  All timestamps are readings of the node's wall clock.         *)
(***************************************************************************)
EXTENDS Integers, Sequences, FiniteSets

CONSTANTS
  MaxOrderQty, MaxPositionQty, MaxNotional, MaxTotalNotional,
  MaxOpenOrders,         \* max_open_orders
  MaxLoss,               \* max_loss: total PnL below it engages the kill switch
  MaxOrdersPerSecond,
  MaxSpread,             \* 0 disables the spread gate
  MaxConsecutiveLosses,  \* 0 disables it
  MaxDrawdownBps,        \* 0 disables it
  Second,                \* clock units in the rate window (1_000_000_000 ns)
  OrderQtys, Prices,     \* orders the strategy asks for
  Positions,             \* signed positions the caller holds
  PnlDeltas,             \* realised PnL of one fill
  Spreads,               \* spreads of the book
  MaxNow, PnlBound,      \* bounds: the clock and the PnL stop there
  MaxAccepted            \* bound: orders accepted in one behaviour

ASSUME RiskAssumption ==
  /\ {MaxOrderQty, MaxPositionQty, MaxOpenOrders, MaxOrdersPerSecond, MaxConsecutiveLosses,
      MaxDrawdownBps, Second, MaxNow, PnlBound, MaxAccepted} \subseteq Nat
  /\ {MaxNotional, MaxTotalNotional, MaxLoss, MaxSpread} \subseteq Int
  /\ OrderQtys \subseteq Nat /\ Prices \subseteq Int /\ Positions \subseteq Int
  /\ PnlDeltas \subseteq Int /\ Spreads \subseteq Int
  /\ Second > 0

VARIABLES
  kill_switch, circuit_breaker,
  open_order_count,
  total_pnl, peak_pnl, consecutive_losses,
  current_spread,
  order_timestamps,      \* accepted orders whose timestamp the rate limit keeps
  now,                   \* wall_clock.now_nanos()
  accepted,              \* timestamps of all orders accepted so far
  stepped                \* history: orders accepted before the last clock step

limitVars == <<kill_switch, circuit_breaker, open_order_count>>
pnlVars == <<total_pnl, peak_pnl, consecutive_losses>>
rateVars == <<order_timestamps, accepted, stepped>>
vars == <<limitVars, pnlVars, rateVars, current_spread, now>>

Abs(n) == IF n < 0 THEN -n ELSE n

-----------------------------------------------------------------------------
(* check_order, gate by gate.                                              *)

SpreadOk == MaxSpread > 0 => current_spread <= MaxSpread

(* Quantity held after the order, by side and size; position = 0 is the    *)
(* None the caller passes when it is flat, which skips the block.          *)
ResultingQty(position, side, qty) ==
  IF (position > 0) = (side = "Buy") THEN Abs(position) + qty ELSE Abs(qty - Abs(position))

PositionOk(position, side, qty, price) ==
  position # 0 =>
    LET new_qty == ResultingQty(position, side, qty)
    IN  /\ new_qty <= MaxPositionQty
        /\ new_qty * price <= MaxNotional
        /\ new_qty * price <= MaxTotalNotional

OpenOrdersOffByOne == open_order_count <= MaxOpenOrders       \* for mutation

OpenOrdersOk == open_order_count < MaxOpenOrders

(* Timestamps still inside the window.  The code computes current_ts - ts  *)
(* on u64: for a ts ahead of current_ts it wraps to a huge age (release    *)
(* build) and the timestamp is forgotten.  The Vec of timestamps, in which *)
(* order plays no role, is the set of the orders they belong to.           *)
Recent(ts) == ts <= now /\ now - ts < Second

RetainTooFew(kept) == { n \in kept : now - accepted[n] < Second - 1 }   \* for mutation

Retain(kept) == { n \in kept : Recent(accepted[n]) }

(* Every gate before the rate limit, in the code's order; none has effects.*)
EarlyGatesPass(side, qty, price, position) ==
  /\ ~kill_switch
  /\ ~circuit_breaker
  /\ SpreadOk
  /\ qty <= MaxOrderQty
  /\ PositionOk(position, side, qty, price)
  /\ OpenOrdersOk

RateOk == Cardinality(Retain(order_timestamps)) < MaxOrdersPerSecond

LossOk == total_pnl >= MaxLoss

(* An early gate refuses: nothing changes.                                 *)
RefuseEarly(side, qty, price, position) ==
  /\ ~EarlyGatesPass(side, qty, price, position)
  /\ UNCHANGED vars

(* The rate limit refuses: old timestamps are dropped all the same.        *)
RefuseRate(side, qty, price, position) ==
  /\ EarlyGatesPass(side, qty, price, position)
  /\ ~RateOk
  /\ order_timestamps' = Retain(order_timestamps)
  /\ UNCHANGED <<limitVars, pnlVars, accepted, stepped, current_spread, now>>

(* The loss limit refuses and engages the kill switch.                     *)
RefuseLoss(side, qty, price, position) ==
  /\ EarlyGatesPass(side, qty, price, position)
  /\ RateOk
  /\ ~LossOk
  /\ kill_switch' = TRUE
  /\ order_timestamps' = Retain(order_timestamps)
  /\ UNCHANGED <<circuit_breaker, open_order_count, pnlVars, accepted, stepped, current_spread, now>>

(* Accepted; the caller goes on to on_order_opened.                        *)
AcceptOrder(side, qty, price, position) ==
  /\ Len(accepted) < MaxAccepted
  /\ EarlyGatesPass(side, qty, price, position)
  /\ RateOk
  /\ LossOk
  /\ order_timestamps' = Retain(order_timestamps) \cup {Len(accepted) + 1}
  /\ open_order_count' = open_order_count + 1
  /\ accepted' = Append(accepted, now)
  /\ UNCHANGED <<kill_switch, circuit_breaker, pnlVars, stepped, current_spread, now>>

OrderClosed ==
  /\ open_order_count' = IF open_order_count > 0 THEN open_order_count - 1 ELSE 0
  /\ UNCHANGED <<kill_switch, circuit_breaker, pnlVars, rateVars, current_spread, now>>

-----------------------------------------------------------------------------
(* PnL, breaker, spread, resets.                                           *)

MaxOf(a, b) == IF a > b THEN a ELSE b

(* Drawdown from the peak beyond the limit, in integer basis points.       *)
DrawdownBreach(total, peak) ==
  /\ MaxDrawdownBps > 0
  /\ peak > 0
  /\ (peak - total) * 10000 > peak * MaxDrawdownBps

StreakBreach(losses) == MaxConsecutiveLosses > 0 /\ losses >= MaxConsecutiveLosses

UpdatePnlOldPeak(delta) ==               \* for mutation: breaker set, not latched
  /\ Abs(total_pnl + delta) <= PnlBound
  /\ total_pnl' = total_pnl + delta
  /\ peak_pnl' = MaxOf(peak_pnl, total_pnl')
  /\ circuit_breaker' = (circuit_breaker \/ DrawdownBreach(total_pnl, peak_pnl))
  /\ UNCHANGED <<kill_switch, open_order_count, consecutive_losses, rateVars, current_spread, now>>

UpdatePnl(delta) ==
  /\ Abs(total_pnl + delta) <= PnlBound
  /\ total_pnl' = total_pnl + delta
  /\ peak_pnl' = MaxOf(peak_pnl, total_pnl')
  /\ circuit_breaker' = (circuit_breaker \/ DrawdownBreach(total_pnl', peak_pnl'))
  /\ UNCHANGED <<kill_switch, open_order_count, consecutive_losses, rateVars, current_spread, now>>

RecordWin ==
  /\ consecutive_losses' = 0
  /\ UNCHANGED <<limitVars, total_pnl, peak_pnl, rateVars, current_spread, now>>

RecordLossUnlatched ==                   \* for mutation: > for >=
  /\ consecutive_losses < MaxConsecutiveLosses + 1
  /\ consecutive_losses' = consecutive_losses + 1
  /\ circuit_breaker' = (circuit_breaker \/ StreakBreach(consecutive_losses))
  /\ UNCHANGED <<kill_switch, open_order_count, total_pnl, peak_pnl, rateVars, current_spread, now>>

(* The streak is counted up to one past the limit (a bound).               *)
RecordLoss ==
  /\ consecutive_losses < MaxConsecutiveLosses + 1
  /\ consecutive_losses' = consecutive_losses + 1
  /\ circuit_breaker' = (circuit_breaker \/ StreakBreach(consecutive_losses'))
  /\ UNCHANGED <<kill_switch, open_order_count, total_pnl, peak_pnl, rateVars, current_spread, now>>

UpdateSpread(spread) ==
  /\ current_spread' = spread
  /\ UNCHANGED <<limitVars, pnlVars, rateVars, now>>

(* Midnight: breaker, streak, peak and PnL; not the kill switch, not the   *)
(* count of open orders.                                                   *)
DailyReset ==
  /\ circuit_breaker' = FALSE
  /\ consecutive_losses' = 0
  /\ peak_pnl' = 0
  /\ total_pnl' = 0
  /\ UNCHANGED <<kill_switch, open_order_count, rateVars, current_spread, now>>

ActivateKillSwitch ==
  /\ kill_switch' = TRUE
  /\ UNCHANGED <<circuit_breaker, open_order_count, pnlVars, rateVars, current_spread, now>>

(* Manual override.                                                        *)
ResetKillSwitch ==
  /\ kill_switch' = FALSE
  /\ UNCHANGED <<circuit_breaker, open_order_count, pnlVars, rateVars, current_spread, now>>

(* SystemTime: runs forward, and may be stepped back by the operating      *)
(* system.                                                                 *)
ClockTick ==
  /\ now < MaxNow
  /\ now' = now + 1
  /\ UNCHANGED <<limitVars, pnlVars, rateVars, current_spread>>

ClockStep ==
  /\ \E t \in 0 .. MaxNow : t < now /\ now' = t
  /\ stepped' = Len(accepted)
  /\ UNCHANGED <<limitVars, pnlVars, order_timestamps, accepted, current_spread>>

-----------------------------------------------------------------------------
Init ==
  /\ kill_switch = FALSE /\ circuit_breaker = FALSE
  /\ open_order_count = 0
  /\ total_pnl = 0 /\ peak_pnl = 0 /\ consecutive_losses = 0
  /\ current_spread = 0
  /\ order_timestamps = {} /\ accepted = <<>> /\ stepped = 0
  /\ now = 0

CheckOrder(side, qty, price, position) ==
  \/ RefuseEarly(side, qty, price, position)
  \/ RefuseRate(side, qty, price, position)
  \/ RefuseLoss(side, qty, price, position)
  \/ AcceptOrder(side, qty, price, position)

Next ==
  \/ \E s \in {"Buy", "Sell"}, q \in OrderQtys, p \in Prices, h \in Positions : CheckOrder(s, q, p, h)
  \/ OrderClosed
  \/ \E d \in PnlDeltas : UpdatePnl(d)
  \/ RecordWin \/ RecordLoss
  \/ \E x \in Spreads : UpdateSpread(x)
  \/ DailyReset
  \/ ActivateKillSwitch \/ ResetKillSwitch
  \/ ClockTick \/ ClockStep

Spec == Init /\ [][Next]_vars

-----------------------------------------------------------------------------
(* Properties.                                                             *)

(* Type invariant; an open count above the limit would be a type error.    *)
TypeOK ==
  /\ kill_switch \in BOOLEAN /\ circuit_breaker \in BOOLEAN
  /\ open_order_count \in 0 .. MaxOpenOrders
  /\ total_pnl \in Int /\ peak_pnl \in Nat /\ total_pnl <= peak_pnl
  /\ consecutive_losses \in Nat
  /\ current_spread \in Int
  /\ accepted \in Seq(Nat) /\ stepped \in 0 .. Len(accepted)
  /\ order_timestamps \subseteq 1 .. Len(accepted)
  /\ now \in Nat

(* Retain and push: whatever pauses lie between them, any                  *)
(* MaxOrdersPerSecond + 1 consecutive accepted orders span a second, as    *)
(* long as the clock is not set back between them.                         *)
RateLimited ==
  \A i \in stepped + 1 .. Len(accepted) - MaxOrdersPerSecond :
    accepted[i + MaxOrdersPerSecond] - accepted[i] >= Second

(* update_pnl, record_loss, daily_reset: while the drawdown or the losing  *)
(* streak is beyond its limit the breaker is on, in whatever order fills,  *)
(* wins, losses and resets arrive.                                         *)
BreakerCoversBreach ==
  DrawdownBreach(total_pnl, peak_pnl) \/ StreakBreach(consecutive_losses) => circuit_breaker

(* check_order: an order is accepted only while the figures themselves,    *)
(* not the flags derived from them, are within every limit.                *)
AcceptedWithinLimits ==
  [][accepted' # accepted =>
       /\ ~DrawdownBreach(total_pnl, peak_pnl) /\ ~StreakBreach(consecutive_losses)
       /\ total_pnl >= MaxLoss
       /\ open_order_count' <= MaxOpenOrders]_vars
=============================================================================
