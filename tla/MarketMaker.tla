----------------------------- MODULE MarketMaker -----------------------------
(***************************************************************************)
(* crates/atomic-strategy: the Rust market maker with its inventory, its   *)
(* toxicity tracker and its microprice.  The live loop feeds it every      *)
(* event and executes none of its commands ("state tracking only"); so     *)
(* does the replay.  Only the state is modelled: what its commands would   *)
(* have been is last_bid_price and last_ask_price.                         *)
(*                                                                         *)
(* book_updates_seen and tick_count count the same updates: one variable.  *)
(***************************************************************************)
EXTENDS Levels

CONSTANTS
  MmWindow, MmVolAlpha, MmToxicThreshold,
  MmMaxInventory, MmHalfSpread, MmGamma,
  MmRequoteThreshold, MmMinQuoteInterval, MmWarmupTicks

MmDepth == 5

NewMaker ==
  [ position_qty |-> 0, window |-> <<>>, buy_volume |-> 0, sell_volume |-> 0,
    volatility_ema |-> 0, last_price |-> 0,
    last_fair_value |-> 0, last_bid_price |-> 0, last_ask_price |-> 0,
    has_active_quotes |-> FALSE, tick_count |-> 0, last_quote_tick |-> 0 ]

MinusOrZero(a, b) == Max({a - b, 0})              \* saturating_sub

-----------------------------------------------------------------------------
(* InventoryManager: spot, the position is never negative.                 *)

AddFillShort(m, side, qty) ==                     \* for mutation: may go short
  [m EXCEPT !.position_qty = @ + Sign(side) * qty]

AddFillWhole(m, side, qty) ==                     \* for mutation: refused instead of saturated
  IF side = "Sell" /\ qty > m.position_qty THEN m
  ELSE [m EXCEPT !.position_qty = @ + Sign(side) * qty]

AddFill(m, side, qty) == [m EXCEPT !.position_qty = Max({@ + Sign(side) * qty, 0})]

Skew(m, half_spread) ==
  IF MmMaxInventory = 0 THEN 0
  ELSE LET ratio == (m.position_qty * 10000) \div MmMaxInventory
       IN  (((ratio * MmGamma) \div 10000) * half_spread) \div 10000

-----------------------------------------------------------------------------
(* ToxicityTracker.                                                        *)

UpdateVolatility(m, price) ==
  LET delta == Magnitude(price - m.last_price)
  IN  [m EXCEPT !.last_price = price,
                !.volatility_ema =
                   IF m.last_price > 0
                   THEN (delta * MmVolAlpha + @ * (10000 - MmVolAlpha)) \div 10000
                   ELSE @]

InsertTrade(m, t) ==
  [m EXCEPT !.window = Append(@, [side |-> t.side, qty |-> t.qty]),
            !.buy_volume = @ + (IF t.side = "Buy" THEN t.qty ELSE 0),
            !.sell_volume = @ + (IF t.side = "Sell" THEN t.qty ELSE 0)]

(* The window grew by one: at most one trade leaves it.                    *)
EvictOld(m) ==
  IF Len(m.window) <= MmWindow THEN m
  ELSE LET t == Head(m.window)
       IN  [m EXCEPT !.window = Tail(@),
                     !.buy_volume = IF t.side = "Buy" THEN MinusOrZero(@, t.qty) ELSE @,
                     !.sell_volume = IF t.side = "Sell" THEN MinusOrZero(@, t.qty) ELSE @]

MakerVpin(m) == Vpin(m.buy_volume, m.sell_volume, m.buy_volume + m.sell_volume)

MakerMultiplier(m) ==
  Min({10000 + MakerVpin(m) + Min({m.volatility_ema * 50, 10000}), 30000})

-----------------------------------------------------------------------------
(* The strategy.                                                           *)

MakerRequotes(m, fair_value) ==
  \/ m.last_fair_value = 0
  \/ /\ m.tick_count - m.last_quote_tick >= MmMinQuoteInterval
     /\ Magnitude(fair_value - m.last_fair_value) >= MmRequoteThreshold

MakerQuotes(m, fair_value) ==
  LET half == (Max({MmHalfSpread, 1}) * MakerMultiplier(m)) \div 10000
      skew == Skew(m, half)
  IN  [m EXCEPT !.last_fair_value = fair_value,
                !.last_bid_price = fair_value - half - skew,
                !.last_ask_price = fair_value + half - skew,
                !.has_active_quotes = TRUE,
                !.last_quote_tick = m.tick_count]

(* The fair value is computed from the levels of the event, of a delta as  *)
(* of a snapshot, and not from a book.                                     *)
OnBook(m, u) ==
  LET ticked == [m EXCEPT !.tick_count = @ + 1]
      fair_value == WeightedPrice(u.bids, u.asks, MmDepth)
  IN  IF /\ ticked.tick_count >= MmWarmupTicks
         /\ u.bids # <<>> /\ u.asks # <<>>
         /\ fair_value > 0
         /\ MakerRequotes(ticked, fair_value)
      THEN MakerQuotes(ticked, fair_value)
      ELSE ticked

OnTrade(m, t) ==
  LET heard == EvictOld(InsertTrade(UpdateVolatility(m, t.price), t))
  IN  IF MakerVpin(heard) > MmToxicThreshold
      THEN [heard EXCEPT !.has_active_quotes = FALSE]
      ELSE heard

(* A fill ends the cooldown.                                               *)
OnFill(m, side, qty) ==
  [AddFill(m, side, qty) EXCEPT !.last_quote_tick = MinusOrZero(m.tick_count, MmMinQuoteInterval)]
=============================================================================
