-------------------------------- MODULE Ledger --------------------------------
(***************************************************************************)
(* The fill accounting of crates/atomic-node/src/main.rs: position, cost   *)
(* basis and realized PnL by average cost, once in the live loop and once  *)
(* in the backtest, which was written apart.                               *)
(*                                                                         *)
(* The code divides in f64 where Quot divides.  At the sizes of the model  *)
(* checked the truncated results agree (the smallest difference: cost 61,  *)
(* position and closed quantity 7, where f64 yields 60).  The backtest     *)
(* keeps money as f64; here money has the unit price * quantity, where all *)
(* but the division by the position is exact.                              *)
(***************************************************************************)
EXTENDS Levels

CONSTANT QtyDivisor        \* 10 ^ qty_decimals

(* last_flat_pnl: realized_pnl when the position was last flat; losses:    *)
(* the risk engine's count of losing round trips in a row.                 *)
Books == [position_qty: Int, cost_basis: Int, realized_pnl: Int, last_flat_pnl: Int, losses: Nat]

NewLedger == [position_qty |-> 0, cost_basis |-> 0, realized_pnl |-> 0, last_flat_pnl |-> 0,
              losses |-> 0]

(* A fill: f = [side, price, qty, fee].                                    *)

(* What a quantity is worth at a price, in the unit of the books: live the *)
(* product is divided by 10 ^ qty_decimals, in the backtest it is not.     *)
Value(unit, price, qty) == (price * qty) \div unit

LiveUnit == QtyDivisor
BacktestUnit == 1

(* The part of the cost basis the closed quantity was entered at.          *)
EntryValue(l, qty) == Quot(l.cost_basis * qty, l.position_qty)

(* Does the fill enlarge the position, or open one?                        *)
Opens(l, side) == IF side = "Buy" THEN l.position_qty >= 0 ELSE l.position_qty <= 0

Move(l, f) == [l EXCEPT !.position_qty = @ + Sign(f.side) * f.qty]

OpenPosition(l, f, unit) ==
  [Move(l, f) EXCEPT !.cost_basis = @ + Sign(f.side) * Value(unit, f.price, f.qty)]

(* For mutation: the mistake of the short side (see CloseShort) here too.  *)
CloseLongAtExit(l, f, unit) ==
  LET closed == Min({f.qty, l.position_qty})
      opened == f.qty - closed
  IN  [Move(l, f) EXCEPT
         !.realized_pnl = @ + Value(unit, f.price, closed) - EntryValue(l, closed),
         !.cost_basis = IF opened > 0 THEN -Value(unit, f.price, opened)
                        ELSE @ - Value(unit, f.price, closed)]

(* A sell against a long position, up to all of it; the rest opens short.  *)
CloseLong(l, f, unit) ==
  LET closed == Min({f.qty, l.position_qty})
      opened == f.qty - closed
  IN  [Move(l, f) EXCEPT
         !.realized_pnl = @ + Value(unit, f.price, closed) - EntryValue(l, closed),
         !.cost_basis = IF opened > 0 THEN -Value(unit, f.price, opened)
                        ELSE @ - EntryValue(l, closed)]

(* A buy against a short position.  The live loop adds the exit value to   *)
(* the (negative) cost basis.                                              *)
CloseShort(l, f) ==
  LET closed == Min({f.qty, -l.position_qty})
      opened == f.qty - closed
  IN  [Move(l, f) EXCEPT
         !.realized_pnl = @ + EntryValue(l, closed) - Value(LiveUnit, f.price, closed),
         !.cost_basis = IF opened > 0 THEN Value(LiveUnit, f.price, opened)
                        ELSE @ + Value(LiveUnit, f.price, closed)]

(* For mutation: the mistake of CloseShort in the backtest too.            *)
CloseShortAtExit(l, f) ==
  LET closed == Min({f.qty, -l.position_qty})
      opened == f.qty - closed
  IN  [Move(l, f) EXCEPT
         !.realized_pnl = @ + EntryValue(l, closed) - Value(BacktestUnit, f.price, closed),
         !.cost_basis = IF opened > 0 THEN Value(BacktestUnit, f.price, opened)
                        ELSE @ + Value(BacktestUnit, f.price, closed)]

(* The backtest removes the entry value: cost_basis * closed / -position   *)
(* is negative for a short.                                                *)
CloseShortBacktest(l, f) ==
  LET closed == Min({f.qty, -l.position_qty})
      opened == f.qty - closed
      cost == -EntryValue(l, closed)
  IN  [Move(l, f) EXCEPT
         !.realized_pnl = @ + Magnitude(cost) - Value(BacktestUnit, f.price, closed),
         !.cost_basis = IF opened > 0 THEN Value(BacktestUnit, f.price, opened)
                        ELSE @ - cost]

PayFee(l, fee) == [l EXCEPT !.realized_pnl = @ - fee]

(* A round trip ends when the position is flat: won or lost by what the    *)
(* realized PnL gained since it was flat before.                           *)
JudgeNoSnapshot(l) ==                             \* for mutation: PnL of the day, not of the trip
  IF l.position_qty # 0 THEN l
  ELSE [l EXCEPT !.losses = IF l.realized_pnl >= 0 THEN 0 ELSE @ + 1,
                 !.last_flat_pnl = l.realized_pnl]

Judge(l) ==
  IF l.position_qty # 0 THEN l
  ELSE [l EXCEPT !.losses = IF l.realized_pnl - l.last_flat_pnl >= 0 THEN 0 ELSE @ + 1,
                 !.last_flat_pnl = l.realized_pnl]

TradeLive(l, f) ==
  IF Opens(l, f.side) THEN OpenPosition(l, f, LiveUnit)
  ELSE IF f.side = "Sell" THEN CloseLong(l, f, LiveUnit)
  ELSE CloseShort(l, f)

(* A fill in the live loop.                                                *)
LiveFill(l, f) == Judge(PayFee(TradeLive(l, f), f.fee))

TradeBacktest(l, f) ==
  IF Opens(l, f.side) THEN OpenPosition(l, f, BacktestUnit)
  ELSE IF f.side = "Sell" THEN CloseLong(l, f, BacktestUnit)
  ELSE CloseShortBacktest(l, f)

(* Flat: the backtest zeroes what is left of the cost basis and does not   *)
(* count losses.                                                           *)
Flatten(l) == IF l.position_qty = 0
              THEN [l EXCEPT !.cost_basis = 0, !.last_flat_pnl = l.realized_pnl]
              ELSE l

BacktestFill(l, f) == Flatten(PayFee(TradeBacktest(l, f), f.fee))

(* Midnight, UTC: the loop forgets position and PnL, the risk engine its   *)
(* losses.                                                                 *)
DailyReset(l) == NewLedger
=============================================================================
