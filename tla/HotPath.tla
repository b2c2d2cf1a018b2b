------------------------------- MODULE HotPath -------------------------------
(***************************************************************************)
(* src/cpp: the market-making engine behind the FFI of atomic-hotpath.     *)
(* A call on the engine is an operator from the engine to the engine and   *)
(* the commands it returns; the trading module owns the engine.            *)
(*                                                                         *)
(* Left out: vol_ema, last_price, cost_basis and realized_pnl of the C++   *)
(* state, which are written or initialised and never read, and the timing. *)
(***************************************************************************)
EXTENDS Levels, SequencesExt

CONSTANTS
  MaxLevels,         \* HP_MAX_LEVELS: levels a side of the flat book holds
  VpinWindow,        \* trades the toxicity tracker remembers
  MaxInventory, HalfSpread, Gamma,
  WarmupTicks, CooldownTicks, RequoteThreshold

MicropriceDepth == 5
ToxicThreshold == 8000

(* hp_engine_create.                                                       *)
NewEngine(vpin_enabled) ==
  [ bids |-> <<>>, asks |-> <<>>,
    window |-> <<>>, buy_volume |-> 0, sell_volume |-> 0, total_volume |-> 0,
    position_qty |-> 0,
    last_fair_value |-> 0, last_bid_price |-> 0, last_ask_price |-> 0,
    tick_count |-> 0, ticks_since_quote |-> 0,
    has_active_quotes |-> FALSE, vpin_enabled |-> vpin_enabled ]

-----------------------------------------------------------------------------
(* The flat book: two sorted arrays of at most MaxLevels levels.           *)

FirstLevels(levels) == SubSeq(levels, 1, Min({Len(levels), MaxLevels}))

UpsertUnsorted(levels, side, l) ==                \* for mutation: appended, not inserted
  IF \E i \in DOMAIN levels : levels[i].price = l.price
  THEN SelectSeq([i \in DOMAIN levels |-> IF levels[i].price = l.price THEN l ELSE levels[i]],
                 LAMBDA x : x.qty > 0)
  ELSE IF l.qty > 0 /\ Len(levels) < MaxLevels THEN Append(levels, l) ELSE levels

(* One level of a delta: removed, changed or inserted at its place; a new  *)
(* level is dropped, however good, when the array is full.                 *)
Upsert(levels, side, l) ==
  LET better == Cardinality({ i \in DOMAIN levels : Better(side, levels[i].price, l.price) })
      exists == \E i \in DOMAIN levels : levels[i].price = l.price
  IN  IF exists /\ l.qty = 0 THEN RemoveAt(levels, better + 1)
      ELSE IF exists THEN [levels EXCEPT ![better + 1].qty = l.qty]
      ELSE IF l.qty > 0 /\ Len(levels) < MaxLevels THEN InsertAt(levels, better + 1, l)
      ELSE levels

ApplyDeltaSide(levels, side, news) ==
  FoldLeft(LAMBDA ls, l : Upsert(ls, side, l), levels, news)

(* The FFI truncates either list to MaxLevels before the engine sees it.   *)
ApplyBook(e, u) ==
  LET bids == FirstLevels(u.bids)
      asks == FirstLevels(u.asks)
  IN  IF u.is_snapshot
      THEN [e EXCEPT !.bids = bids, !.asks = asks]
      ELSE [e EXCEPT !.bids = ApplyDeltaSide(@, "Buy", bids),
                     !.asks = ApplyDeltaSide(@, "Sell", asks)]

-----------------------------------------------------------------------------
(* Toxicity: running volumes over a window of trades.                      *)

CountTrade(e, t, n) ==
  [e EXCEPT !.buy_volume = @ + (IF t.side = "Buy" THEN n * t.qty ELSE 0),
            !.sell_volume = @ + (IF t.side = "Buy" THEN 0 ELSE n * t.qty),
            !.total_volume = @ + n * t.qty]

EvictTradeLate(e) ==                              \* for mutation: one trade too many is kept
  IF Len(e.window) <= VpinWindow THEN e
  ELSE [CountTrade(e, Head(e.window), -1) EXCEPT !.window = Tail(@)]

EvictTrade(e) ==
  IF Len(e.window) < VpinWindow THEN e
  ELSE [CountTrade(e, Head(e.window), -1) EXCEPT !.window = Tail(@)]

RecordTrade(e, t) ==
  [CountTrade(EvictTrade(e), t, 1) EXCEPT !.window = Append(@, [side |-> t.side, qty |-> t.qty])]

VpinOf(e) == Vpin(e.buy_volume, e.sell_volume, e.total_volume)

IsToxic(e) == e.vpin_enabled /\ VpinOf(e) > ToxicThreshold

SpreadMultiplier(e) ==
  IF IsToxic(e)
  THEN 10000 + ((VpinOf(e) - ToxicThreshold) * 10000) \div (10000 - ToxicThreshold)
  ELSE 10000

-----------------------------------------------------------------------------
(* Inventory.                                                              *)

OnFillUnclamped(e, side, qty) ==                  \* for mutation: the short side is not clamped
  [e EXCEPT !.position_qty = Min({@ + Sign(side) * qty, MaxInventory})]

OnFillSpot(e, side, qty) ==                       \* for mutation: never short
  [e EXCEPT !.position_qty = Clamp(@ + Sign(side) * qty, 0, MaxInventory)]

OnFill(e, side, qty) ==
  [e EXCEPT !.position_qty = Clamp(@ + Sign(side) * qty, -MaxInventory, MaxInventory)]

ComputeSkew(e, half_spread) ==
  IF MaxInventory = 0 THEN 0
  ELSE Quot(Gamma * e.position_qty * half_spread, 10000 * MaxInventory)

AtMaxLong(e) == e.position_qty >= MaxInventory
AtMaxShort(e) == e.position_qty <= -MaxInventory

-----------------------------------------------------------------------------
(* Quoting.                                                                *)

(* The first quote ever is not subject to the warmup.                      *)
ShouldRequote(e, fair_value) ==
  \/ e.last_fair_value = 0
  \/ /\ e.tick_count >= WarmupTicks
     /\ e.ticks_since_quote >= CooldownTicks
     /\ Magnitude(fair_value - e.last_fair_value) >= RequoteThreshold

CancelAll == [tag |-> "CANCEL_ALL"]
Place(side, price) == [tag |-> "PLACE", side |-> side, price |-> price]

(* Half spread and skew a quote is made with.                              *)
Half(e) == (Max({HalfSpread, 1}) * SpreadMultiplier(e)) \div 10000

QuoteCommandsNoCancel(e, bid, ask) ==             \* for mutation: the old pair is left
  (IF AtMaxLong(e) THEN <<>> ELSE <<Place("Buy", bid)>>)
    \o (IF AtMaxShort(e) THEN <<>> ELSE <<Place("Sell", ask)>>)

QuoteCommands(e, bid, ask) ==
  (IF e.has_active_quotes THEN <<CancelAll>> ELSE <<>>)
    \o (IF AtMaxLong(e) THEN <<>> ELSE <<Place("Buy", bid)>>)
    \o (IF AtMaxShort(e) THEN <<>> ELSE <<Place("Sell", ask)>>)

GenerateQuotes(e, fair_value) ==
  LET half == Half(e)
      skew == ComputeSkew(e, half)
      bid == fair_value - half - skew
      ask == fair_value + half - skew
  IN  [ engine |-> [e EXCEPT !.last_fair_value = fair_value, !.last_bid_price = bid,
                             !.last_ask_price = ask, !.ticks_since_quote = 0,
                             !.has_active_quotes = TRUE],
        commands |-> QuoteCommands(e, bid, ask) ]

FairValue(e) == WeightedPrice(e.bids, e.asks, MicropriceDepth)

OnBookUpdate(e, u) ==
  LET ticked == [ApplyBook(e, u) EXCEPT !.tick_count = @ + 1, !.ticks_since_quote = @ + 1]
      fair_value == FairValue(ticked)
  IN  IF fair_value # 0 /\ ShouldRequote(ticked, fair_value)
      THEN GenerateQuotes(ticked, fair_value)
      ELSE [engine |-> ticked, commands |-> <<>>]

(* Flow that has become toxic pulls the quotes.                            *)
OnTrade(e, t) ==
  LET heard == RecordTrade(e, t)
  IN  IF IsToxic(heard) /\ heard.has_active_quotes
      THEN [engine |-> [heard EXCEPT !.has_active_quotes = FALSE], commands |-> <<CancelAll>>]
      ELSE [engine |-> heard, commands |-> <<>>]
=============================================================================
