--------------------------- MODULE RiskEngineProofs ---------------------------
(***************************************************************************)
(* RiskEngine.tla for every choice of limits, orders, prices and PnL: the  *)
(* types, the order rate, the breaker and what accepting an order implies. *)
(***************************************************************************)
EXTENDS RiskEngine, FiniteSetTheorems, TLAPS

(* The constants, one by one.                                              *)
LEMMA Consts ==
  /\ MaxOpenOrders \in Nat /\ MaxOrdersPerSecond \in Nat /\ MaxConsecutiveLosses \in Nat
  /\ MaxDrawdownBps \in Nat /\ PnlBound \in Nat /\ MaxNow \in Nat
  /\ Second \in Nat /\ Second > 0
  /\ MaxLoss \in Int /\ PnlDeltas \subseteq Int /\ Spreads \subseteq Int
BY RiskAssumption DEF RiskAssumption

(* Since the clock was last set back, acceptances are in time order, none  *)
(* lies in the future, and every order the rate limit has forgotten is a   *)
(* second old: it stays so while the clock runs forward.                   *)
Ordered ==
  \A i, j \in stepped + 1 .. Len(accepted) :
    i <= j => accepted[i] <= accepted[j] /\ accepted[j] <= now

Forgotten ==
  \A i \in stepped + 1 .. Len(accepted) : i \notin order_timestamps => now - accepted[i] >= Second

IInv == TypeOK /\ Ordered /\ Forgotten /\ RateLimited /\ BreakerCoversBreach

-----------------------------------------------------------------------------
(* update_pnl keeps the peak at or above the total.                        *)
LEMMA PeakAbove ==
  ASSUME NEW a \in Int, NEW b \in Nat
  PROVE  MaxOf(b, a) \in Nat /\ a <= MaxOf(b, a)
BY DEF MaxOf

(* No drawdown from a peak of zero, no losing streak of length zero.       *)
LEMMA NoBreachAtReset == ~DrawdownBreach(0, 0) /\ ~StreakBreach(0)
BY Consts DEF DrawdownBreach, StreakBreach

(* retain: whoever was accepted since the last clock step and is missing   *)
(* from what the rate limit keeps is a second old.                         *)
LEMMA RetainForgets ==
  ASSUME IInv, NEW i \in stepped + 1 .. Len(accepted), i \notin Retain(order_timestamps)
  PROVE  now - accepted[i] >= Second
<1>1. i \in Nat /\ i \in 1 .. Len(accepted) /\ accepted[i] \in Nat /\ now \in Nat /\ accepted[i] <= now
  BY DEF IInv, TypeOK, Ordered
<1>2. CASE i \in order_timestamps
  <2>1. ~Recent(accepted[i])
    BY <1>2 DEF Retain
  <2> QED BY <1>1, <2>1, Consts DEF Recent
<1>3. CASE i \notin order_timestamps
  BY <1>3 DEF IInv, Forgotten
<1> QED BY <1>2, <1>3

(* If the window has room, the order MaxOrdersPerSecond places back is a   *)
(* second old: otherwise it and all later ones would still be kept.        *)
LEMMA WindowHasRoom ==
  ASSUME IInv, RateOk, NEW i \in stepped + 1 .. Len(accepted),
         i + MaxOrdersPerSecond = Len(accepted) + 1
  PROVE  now - accepted[i] >= Second
<1> SUFFICES ASSUME ~(now - accepted[i] >= Second) PROVE FALSE
  OBVIOUS
<1>0. /\ stepped \in Nat /\ Len(accepted) \in Nat /\ now \in Nat /\ MaxOrdersPerSecond \in Nat
      /\ i \in Nat /\ \A k \in 1 .. Len(accepted) : accepted[k] \in Nat
  BY Consts DEF IInv, TypeOK
<1>1. ASSUME NEW k \in i .. Len(accepted) PROVE k \in Retain(order_timestamps)
  <2>1. k \in stepped + 1 .. Len(accepted) /\ accepted[i] <= accepted[k]
    <3>1. k \in stepped + 1 .. Len(accepted) /\ i <= k
      BY <1>0
    <3> QED BY <3>1 DEF IInv, Ordered
  <2>2. ~(now - accepted[k] >= Second)
    BY <1>0, <2>1, Consts
  <2> QED BY <2>1, <2>2, RetainForgets
<1>2. IsFiniteSet(Retain(order_timestamps))
  <2>1. IsFiniteSet(1 .. Len(accepted))
    BY <1>0, FS_Interval
  <2>2. Retain(order_timestamps) \subseteq 1 .. Len(accepted)
    BY DEF IInv, TypeOK, Retain
  <2> QED BY <2>1, <2>2, FS_Subset
<1>3. Cardinality(i .. Len(accepted)) <= Cardinality(Retain(order_timestamps))
  BY <1>1, <1>2, FS_Subset
<1>4. Cardinality(i .. Len(accepted)) = MaxOrdersPerSecond
  BY <1>0, FS_Interval
<1>5. Cardinality(Retain(order_timestamps)) \in Nat
  BY <1>2, FS_CardinalityType
<1> QED BY <1>0, <1>3, <1>4, <1>5 DEF RateOk

-----------------------------------------------------------------------------
(* The inductive invariant.                                                *)

LEMMA InitInv == Init => IInv
<1> SUFFICES ASSUME Init PROVE IInv
  OBVIOUS
<1>0. accepted = <<>> /\ accepted \in Seq(Nat) /\ Len(accepted) = 0 /\ stepped = 0
  BY DEF Init
<1>1. TypeOK
  <2>1. 0 \in 0 .. MaxOpenOrders /\ 0 \in 0 .. Len(accepted) /\ {} \subseteq 1 .. Len(accepted)
    BY <1>0, Consts
  <2>2. kill_switch \in BOOLEAN /\ circuit_breaker \in BOOLEAN
    BY Zenon DEF Init
  <2>3. /\ open_order_count = 0 /\ total_pnl = 0 /\ peak_pnl = 0 /\ consecutive_losses = 0
        /\ current_spread = 0 /\ order_timestamps = {} /\ now = 0
    BY DEF Init
  <2> QED BY <1>0, <2>1, <2>2, <2>3 DEF TypeOK
<1>2. Ordered /\ Forgotten /\ RateLimited
  BY <1>0, Consts DEF Ordered, Forgotten, RateLimited
<1>3. BreakerCoversBreach
  BY NoBreachAtReset DEF Init, BreakerCoversBreach
<1> QED BY <1>1, <1>2, <1>3 DEF IInv

(* Steps that touch neither clock nor history: only the figures and flags. *)
LEMMA RateUnchanged ==
  ASSUME IInv, UNCHANGED <<rateVars, now>>
  PROVE  Ordered' /\ Forgotten' /\ RateLimited'
BY DEF IInv, rateVars, Ordered, Forgotten, RateLimited

(* Refusals past the early gates drop old timestamps and accept nothing.   *)
LEMMA RetainStep ==
  ASSUME IInv, order_timestamps' = Retain(order_timestamps), UNCHANGED <<accepted, stepped, now>>
  PROVE  /\ order_timestamps' \subseteq 1 .. Len(accepted')
         /\ Ordered' /\ Forgotten' /\ RateLimited'
<1>1. order_timestamps' \subseteq 1 .. Len(accepted')
  BY DEF IInv, TypeOK, Retain
<1>2. Ordered' /\ RateLimited'
  BY DEF IInv, Ordered, RateLimited
<1>3. Forgotten'
  BY RetainForgets DEF Forgotten
<1> QED BY <1>1, <1>2, <1>3

(* An accepted order.                                                      *)
LEMMA AcceptStep ==
  ASSUME IInv, NEW side, NEW qty, NEW price, NEW position, AcceptOrder(side, qty, price, position)
  PROVE  IInv'
<1> DEFINE last == Len(accepted) + 1
<1>0. /\ accepted \in Seq(Nat) /\ Len(accepted) \in Nat /\ now \in Nat /\ stepped \in 0 .. Len(accepted)
      /\ \A k \in 1 .. Len(accepted) : accepted[k] \in Nat
      /\ order_timestamps \subseteq 1 .. Len(accepted)
  BY DEF IInv, TypeOK
<1>1. /\ accepted' = Append(accepted, now) /\ now' = now /\ stepped' = stepped
      /\ order_timestamps' = Retain(order_timestamps) \cup {last}
      /\ RateOk
  BY DEF AcceptOrder
<1>2. /\ accepted' \in Seq(Nat) /\ Len(accepted') = last /\ accepted'[last] = now
      /\ \A k \in 1 .. Len(accepted) : accepted'[k] = accepted[k]
  BY <1>0, <1>1
<1> HIDE DEF last
<1>3. last = Len(accepted) + 1
  BY DEF last
<1>4. TypeOK'
  <2>1. order_timestamps' \subseteq 1 .. Len(accepted')
    <3>1. \A k \in Retain(order_timestamps) : k \in 1 .. last
      BY <1>0, <1>3 DEF Retain
    <3>2. last \in 1 .. last
      BY <1>0, <1>3
    <3> QED BY <1>1, <1>2, <3>1, <3>2
  <2>2. open_order_count' \in 0 .. MaxOpenOrders
    BY Consts DEF IInv, TypeOK, AcceptOrder, EarlyGatesPass, OpenOrdersOk
  <2>3. stepped' \in 0 .. Len(accepted')
    BY <1>0, <1>1, <1>2, <1>3
  <2> QED BY <1>1, <1>2, <2>1, <2>2, <2>3 DEF IInv, TypeOK, AcceptOrder, pnlVars
<1>5. Ordered'
  BY <1>0, <1>1, <1>2, <1>3 DEF IInv, Ordered
<1>6. Forgotten'
  <2> SUFFICES ASSUME NEW i \in stepped' + 1 .. Len(accepted'), i \notin order_timestamps'
               PROVE  now' - accepted'[i] >= Second
    BY DEF Forgotten
  <2>1. i \in stepped + 1 .. Len(accepted) /\ i \notin Retain(order_timestamps)
    BY <1>0, <1>1, <1>2, <1>3
  <2>2. accepted'[i] = accepted[i]
    BY <1>0, <1>2, <2>1
  <2> QED BY <1>1, <2>1, <2>2, RetainForgets
<1>7. RateLimited'
  <2> SUFFICES ASSUME NEW i \in stepped' + 1 .. Len(accepted') - MaxOrdersPerSecond
               PROVE  accepted'[i + MaxOrdersPerSecond] - accepted'[i] >= Second
    BY DEF RateLimited
  <2>0. MaxOrdersPerSecond \in Nat /\ i \in Nat /\ i + MaxOrdersPerSecond \in Nat
    BY <1>0, <1>1, <1>2, <1>3, Consts
  <2>1. CASE i + MaxOrdersPerSecond <= Len(accepted)
    <3>1. i \in stepped + 1 .. Len(accepted) - MaxOrdersPerSecond
      BY <1>0, <1>1, <2>0, <2>1
    <3>2. accepted[i + MaxOrdersPerSecond] - accepted[i] >= Second
      BY <3>1 DEF IInv, RateLimited
    <3>3. i \in 1 .. Len(accepted) /\ i + MaxOrdersPerSecond \in 1 .. Len(accepted)
      BY <1>0, <2>0, <2>1, <3>1
    <3> QED BY <1>2, <3>2, <3>3
  <2>2. CASE i + MaxOrdersPerSecond > Len(accepted)
    <3>1. i + MaxOrdersPerSecond = last
      BY <1>0, <1>1, <1>2, <1>3, <2>0, <2>2
    <3>2. MaxOrdersPerSecond # 0
      <4>1. IsFiniteSet(Retain(order_timestamps))
        <5>1. IsFiniteSet(1 .. Len(accepted))
          BY <1>0, FS_Interval
        <5>2. Retain(order_timestamps) \subseteq 1 .. Len(accepted)
          BY <1>0 DEF Retain
        <5> QED BY <5>1, <5>2, FS_Subset
      <4>2. Cardinality(Retain(order_timestamps)) \in Nat
        BY <4>1, FS_CardinalityType
      <4> QED BY <1>1, <2>0, <4>2 DEF RateOk
    <3>3. i \in stepped + 1 .. Len(accepted)
      BY <1>0, <1>1, <1>3, <2>0, <3>1, <3>2
    <3>4. now - accepted[i] >= Second
      BY <1>1, <1>3, <3>1, <3>3, WindowHasRoom
    <3> QED BY <1>0, <1>2, <3>1, <3>3, <3>4
  <2> QED BY <1>0, <2>0, <2>1, <2>2
<1>8. BreakerCoversBreach'
  BY DEF IInv, BreakerCoversBreach, AcceptOrder, pnlVars, DrawdownBreach, StreakBreach
<1> QED BY <1>4, <1>5, <1>6, <1>7, <1>8 DEF IInv

(* A clock step forward, or back: after it no order has been accepted.     *)
LEMMA ClockSteps == IInv /\ (ClockTick \/ ClockStep) => IInv'
<1> SUFFICES ASSUME IInv, ClockTick \/ ClockStep PROVE IInv'
  OBVIOUS
<1>0. /\ now \in Nat /\ stepped \in 0 .. Len(accepted) /\ Len(accepted) \in Nat
      /\ UNCHANGED <<limitVars, pnlVars, order_timestamps, accepted, current_spread>>
      /\ \A k \in 1 .. Len(accepted) : accepted[k] \in Nat
  BY DEF IInv, TypeOK, ClockTick, ClockStep, rateVars
<1>1. now' \in Nat /\ stepped' \in 0 .. Len(accepted)
  BY <1>0, Consts DEF ClockTick, ClockStep, rateVars
<1>2. TypeOK'
  BY <1>0, <1>1 DEF IInv, TypeOK, limitVars, pnlVars
<1>3. BreakerCoversBreach'
  BY <1>0 DEF IInv, BreakerCoversBreach, limitVars, pnlVars, DrawdownBreach, StreakBreach
<1>4. CASE ClockTick
  <2>1. UNCHANGED rateVars /\ now' = now + 1
    BY <1>4 DEF ClockTick
  <2>2. Ordered'
    BY <1>0, <2>1 DEF IInv, Ordered, rateVars
  <2>3. Forgotten'
    BY <1>0, <2>1, Consts DEF IInv, Forgotten, rateVars
  <2>4. RateLimited'
    BY <2>1 DEF IInv, RateLimited, rateVars
  <2> QED BY <1>2, <1>3, <2>2, <2>3, <2>4 DEF IInv
<1>5. CASE ClockStep
  <2>1. stepped' = Len(accepted')
    BY <1>0, <1>5 DEF ClockStep
  <2>2. Ordered' /\ Forgotten' /\ RateLimited'
    BY <1>0, <2>1, Consts DEF Ordered, Forgotten, RateLimited
  <2> QED BY <1>2, <1>3, <2>2 DEF IInv
<1> QED BY <1>4, <1>5

(* update_pnl, record_win, record_loss, daily_reset: figures and breaker.  *)
LEMMA FigureSteps ==
  ASSUME IInv,
         \/ \E d \in PnlDeltas : UpdatePnl(d)
         \/ RecordWin \/ RecordLoss \/ DailyReset
  PROVE  IInv'
<1>1. Ordered' /\ Forgotten' /\ RateLimited'
  BY RateUnchanged DEF UpdatePnl, RecordWin, RecordLoss, DailyReset
<1>2. /\ UNCHANGED <<kill_switch, open_order_count, current_spread, rateVars, now>>
  BY DEF UpdatePnl, RecordWin, RecordLoss, DailyReset, limitVars
<1>3. ASSUME /\ circuit_breaker' \in BOOLEAN
             /\ total_pnl' \in Int /\ peak_pnl' \in Nat /\ total_pnl' <= peak_pnl'
             /\ consecutive_losses' \in Nat
      PROVE  TypeOK'
  BY <1>2, <1>3 DEF IInv, TypeOK, rateVars
<1>4. ASSUME NEW d \in PnlDeltas, UpdatePnl(d) PROVE IInv'
  <2>1. total_pnl' \in Int /\ peak_pnl' = MaxOf(peak_pnl, total_pnl')
    BY <1>4, Consts DEF IInv, TypeOK, UpdatePnl
  <2>2. peak_pnl' \in Nat /\ total_pnl' <= peak_pnl'
    BY <2>1, PeakAbove DEF IInv, TypeOK
  <2>3. circuit_breaker' \in BOOLEAN /\ consecutive_losses' \in Nat
    BY <1>4 DEF IInv, TypeOK, UpdatePnl
  <2>4. BreakerCoversBreach'
    <3>1. /\ circuit_breaker' = (circuit_breaker \/ DrawdownBreach(total_pnl', peak_pnl'))
          /\ consecutive_losses' = consecutive_losses
      BY <1>4 DEF UpdatePnl
    <3>2. StreakBreach(consecutive_losses) => circuit_breaker
      BY DEF IInv, BreakerCoversBreach
    <3> QED BY <3>1, <3>2 DEF BreakerCoversBreach
  <2> QED BY <1>1, <1>3, <2>1, <2>2, <2>3, <2>4 DEF IInv
<1>5. CASE RecordWin
  <2>1. TypeOK'
    BY <1>3, <1>5 DEF IInv, TypeOK, RecordWin, limitVars
  <2>2. BreakerCoversBreach'
    BY <1>5, Consts DEF IInv, BreakerCoversBreach, RecordWin, limitVars, DrawdownBreach, StreakBreach
  <2> QED BY <1>1, <2>1, <2>2 DEF IInv
<1>6. CASE RecordLoss
  <2>1. TypeOK'
    BY <1>3, <1>6 DEF IInv, TypeOK, RecordLoss
  <2>2. BreakerCoversBreach'
    <3>1. /\ circuit_breaker' = (circuit_breaker \/ StreakBreach(consecutive_losses'))
          /\ total_pnl' = total_pnl /\ peak_pnl' = peak_pnl
      BY <1>6 DEF RecordLoss
    <3>2. DrawdownBreach(total_pnl, peak_pnl) => circuit_breaker
      BY DEF IInv, BreakerCoversBreach
    <3> QED BY <3>1, <3>2 DEF BreakerCoversBreach
  <2> QED BY <1>1, <2>1, <2>2 DEF IInv
<1>7. CASE DailyReset
  <2>1. TypeOK'
    <3>1. /\ circuit_breaker' = FALSE /\ total_pnl' = 0 /\ peak_pnl' = 0
          /\ consecutive_losses' = 0
      BY <1>7 DEF DailyReset
    <3>2. circuit_breaker' \in BOOLEAN
      BY <3>1, Zenon
    <3>3. total_pnl' \in Int /\ peak_pnl' \in Nat /\ total_pnl' <= peak_pnl' /\ consecutive_losses' \in Nat
      BY <3>1, SMT
    <3> QED BY <1>3, <3>2, <3>3
  <2>2. BreakerCoversBreach'
    BY <1>7, NoBreachAtReset DEF BreakerCoversBreach, DailyReset, DrawdownBreach, StreakBreach
  <2> QED BY <1>1, <2>1, <2>2 DEF IInv
<1> QED BY <1>4, <1>5, <1>6, <1>7

(* The calls that change the flags, the count or the spread only.          *)
LEMMA FlagSteps ==
  ASSUME IInv,
         \/ OrderClosed \/ ActivateKillSwitch \/ ResetKillSwitch
         \/ \E x \in Spreads : UpdateSpread(x)
  PROVE  IInv'
<1>1. Ordered' /\ Forgotten' /\ RateLimited'
  BY RateUnchanged DEF OrderClosed, ActivateKillSwitch, ResetKillSwitch, UpdateSpread
<1>2. TypeOK'
  <2>1. CASE OrderClosed
    <3>1. open_order_count' \in 0 .. MaxOpenOrders
      BY <2>1, Consts DEF IInv, TypeOK, OrderClosed
    <3> QED BY <2>1, <3>1 DEF IInv, TypeOK, OrderClosed, pnlVars, rateVars
  <2>2. CASE ActivateKillSwitch
    BY <2>2 DEF IInv, TypeOK, ActivateKillSwitch, pnlVars, rateVars
  <2>3. CASE ResetKillSwitch
    BY <2>3 DEF IInv, TypeOK, ResetKillSwitch, pnlVars, rateVars
  <2>4. ASSUME NEW x \in Spreads, UpdateSpread(x) PROVE TypeOK'
    BY <2>4, Consts DEF IInv, TypeOK, UpdateSpread, limitVars, pnlVars, rateVars
  <2> QED BY <2>1, <2>2, <2>3, <2>4
<1>3. BreakerCoversBreach'
  BY DEF IInv, BreakerCoversBreach, OrderClosed, ActivateKillSwitch, ResetKillSwitch, UpdateSpread,
         limitVars, pnlVars, DrawdownBreach, StreakBreach
<1> QED BY <1>1, <1>2, <1>3 DEF IInv

(* check_order refuses.                                                    *)
LEMMA RefuseSteps ==
  ASSUME IInv, NEW side, NEW qty, NEW price, NEW position,
         RefuseRate(side, qty, price, position) \/ RefuseLoss(side, qty, price, position)
  PROVE  IInv'
<1>0. /\ order_timestamps' = Retain(order_timestamps) /\ UNCHANGED <<accepted, stepped, now>>
      /\ UNCHANGED <<circuit_breaker, open_order_count, pnlVars, current_spread>>
      /\ kill_switch' \in BOOLEAN
  BY DEF RefuseRate, RefuseLoss, limitVars, IInv, TypeOK
<1>1. order_timestamps' \subseteq 1 .. Len(accepted') /\ Ordered' /\ Forgotten' /\ RateLimited'
  BY <1>0, RetainStep
<1>2. TypeOK'
  BY <1>0, <1>1 DEF IInv, TypeOK, pnlVars
<1>3. BreakerCoversBreach'
  BY <1>0 DEF IInv, BreakerCoversBreach, pnlVars, DrawdownBreach, StreakBreach
<1> QED BY <1>1, <1>2, <1>3 DEF IInv

LEMMA NextInv == IInv /\ [Next]_vars => IInv'
<1> SUFFICES ASSUME IInv, [Next]_vars PROVE IInv'
  OBVIOUS
<1>1. CASE UNCHANGED vars
  <2>1. Ordered' /\ Forgotten' /\ RateLimited'
    BY <1>1, RateUnchanged DEF vars
  <2>2. TypeOK' /\ BreakerCoversBreach'
    BY <1>1 DEF IInv, TypeOK, BreakerCoversBreach, DrawdownBreach, StreakBreach,
                vars, limitVars, pnlVars, rateVars
  <2> QED BY <2>1, <2>2 DEF IInv
<1>2. ASSUME NEW s \in {"Buy", "Sell"}, NEW q \in OrderQtys, NEW p \in Prices, NEW h \in Positions,
             CheckOrder(s, q, p, h)
      PROVE  IInv'
  BY <1>1, <1>2, RefuseSteps, AcceptStep DEF CheckOrder, RefuseEarly
<1> QED BY <1>1, <1>2, ClockSteps, FigureSteps, FlagSteps DEF Next

LEMMA Invariance == Spec => []IInv
BY InitInv, NextInv, PTL DEF Spec

(* Every reachable state of the gate is of the declared types; the count   *)
(* of open orders never exceeds its limit.                                 *)
THEOREM TypeCorrect == Spec => []TypeOK
<1>1. IInv => TypeOK
  BY DEF IInv
<1> QED BY <1>1, Invariance, PTL

(* The rate limit: as long as the clock is not set back, any               *)
(* MaxOrdersPerSecond + 1 consecutive accepted orders span a second.       *)
THEOREM RateLimitHolds == Spec => []RateLimited
<1>1. IInv => RateLimited
  BY DEF IInv
<1> QED BY <1>1, Invariance, PTL

(* The breaker is on while the drawdown or the streak is beyond its limit. *)
THEOREM BreakerHolds == Spec => []BreakerCoversBreach
<1>1. IInv => BreakerCoversBreach
  BY DEF IInv
<1> QED BY <1>1, Invariance, PTL

(* No order is accepted while the figures exceed a limit.                  *)
THEOREM AcceptanceHolds == Spec => AcceptedWithinLimits
<1> DEFINE Within ==
      accepted' # accepted =>
        /\ ~DrawdownBreach(total_pnl, peak_pnl) /\ ~StreakBreach(consecutive_losses)
        /\ total_pnl >= MaxLoss
        /\ open_order_count' <= MaxOpenOrders
<1>1. IInv /\ IInv' /\ [Next]_vars => [Within]_vars
  <2> SUFFICES ASSUME IInv, IInv', [Next]_vars, accepted' # accepted
               PROVE  Within
    OBVIOUS
  <2>1. PICK s \in {"Buy", "Sell"}, q \in OrderQtys, p \in Prices, h \in Positions :
           AcceptOrder(s, q, p, h)
    BY DEF Next, CheckOrder, RefuseEarly, RefuseRate, RefuseLoss, OrderClosed, UpdatePnl, RecordWin,
           RecordLoss, UpdateSpread, DailyReset, ActivateKillSwitch, ResetKillSwitch, ClockTick,
           ClockStep, vars, rateVars
  <2>2. ~circuit_breaker /\ total_pnl >= MaxLoss
    BY <2>1 DEF AcceptOrder, EarlyGatesPass, LossOk
  <2>3. open_order_count' <= MaxOpenOrders
    BY Consts DEF IInv, TypeOK
  <2> QED BY <2>2, <2>3 DEF IInv, BreakerCoversBreach
<1> QED BY <1>1, Invariance, PTL DEF Spec, AcceptedWithinLimits
=============================================================================
