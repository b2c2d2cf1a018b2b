------------------------------- MODULE Trading -------------------------------
(***************************************************************************)
(* Market data in, quotes out, fills back: the hot path, the Rust market   *)
(* maker, the order books, the router, the simulated exchange and the fill *)
(* accounting as crates/atomic-node/src/main.rs puts them together.        *)
(*                                                                         *)
(*   mode = "live"      the select! loop of the node                       *)
(*   mode = "backtest"  run_backtest: the simulated exchange answers       *)
(*   mode = "harness"   the simulated exchange as its tests drive it, with *)
(*                      orders of every kind, into the order tracker       *)
(*                                                                         *)
(* Simplifications.                                                        *)
(*  - Live, the exchange may fill any quote ever placed, also one canceled *)
(*    or already filled (races and repeated reports: LiveNode.tla), and    *)
(*    the risk engine may refuse any order (RiskEngine.tla).               *)
(*  - One pair.  Several feeds may carry it: every venue's updates go into *)
(*    the one book of the pair, and the router gets a copy as that         *)
(*    venue's book.                                                        *)
(***************************************************************************)
EXTENDS Levels, SequencesExt

CONSTANTS
  Venues, PrimaryVenue,                 \* feeds; the one the market maker is for
  OrderQty, VpinEnabled,
  MaxLevels, VpinWindow, MaxInventory, HalfSpread, Gamma,
  WarmupTicks, CooldownTicks, RequoteThreshold,
  MmWindow, MmVolAlpha, MmToxicThreshold, MmMaxInventory, MmHalfSpread, MmGamma,
  MmRequoteThreshold, MmMinQuoteInterval, MmWarmupTicks,
  MakerFeeBps, TakerFeeBps, QtyDivisor,
  Modes,                                \* subset of {"live", "backtest", "harness"}
  LiveUpdates,                          \* [venue, update] records the feeds may bring
  BacktestUpdates, HarnessUpdates,      \* book updates
  Trades,                               \* trades the feed may report
  FillPrices, FillQtys, Fees,           \* what the gateway's fills may carry
  HarnessOrders,                        \* orders the harness submits
  MaxOrders,                            \* bound: orders the harness submits
  Budgets                               \* bound: Budgets[mode], how often each input may come

(* The windows of signal.cpp and market_maker.rs are both 200; the         *)
(* backtest's order size and inventory limit are the same number.          *)
ASSUME TradingAssumption ==
  /\ PrimaryVenue \in Venues
  /\ OrderQty \in Nat \ {0}
  /\ VpinEnabled \in BOOLEAN
  /\ MaxLevels \in Nat
  /\ VpinWindow \in Nat \ {0} /\ MmWindow = VpinWindow
  /\ MaxInventory \in Nat
  /\ "backtest" \in Modes => OrderQty <= MaxInventory
  /\ {HalfSpread, WarmupTicks, CooldownTicks, RequoteThreshold} \subseteq Int
  /\ Gamma \in 0 .. 10000
  /\ MmMinQuoteInterval \in Nat
  /\ {MakerFeeBps, TakerFeeBps} \subseteq Int
  /\ QtyDivisor \in Nat \ {0}
  /\ Modes \subseteq {"live", "backtest", "harness"}
  /\ FillPrices \subseteq Nat
  /\ FillQtys \subseteq Nat
  /\ Fees \subseteq Int

(* A feed's snapshot comes sorted and without empty levels, its delta fits *)
(* the flat book (the feeds subscribe depth20, a side holds 40 levels).    *)
FromFeed(u) ==
  /\ u \in Updates
  /\ u.is_snapshot =>
       /\ \A i, j \in DOMAIN u.bids : i < j => Better("Buy", u.bids[i].price, u.bids[j].price)
       /\ \A i, j \in DOMAIN u.asks : i < j => Better("Sell", u.asks[i].price, u.asks[j].price)
       /\ \A i \in DOMAIN u.bids : u.bids[i].qty > 0
       /\ \A i \in DOMAIN u.asks : u.asks[i].qty > 0
  /\ ~u.is_snapshot => Len(u.bids) <= MaxLevels /\ Len(u.asks) <= MaxLevels

ASSUME InputAssumption ==
  /\ \A l \in LiveUpdates : l.venue \in Venues /\ FromFeed(l.update)
  /\ BacktestUpdates \cup HarnessUpdates \subseteq Updates
  /\ Trades \subseteq [side: Sides, price: Nat, qty: Nat]

VARIABLES
  mode,
  hp, mm,                      \* the hot path; the Rust market maker
  book, router,                \* the pair's book; the router's books per venue
  ledger,                      \* position, cost basis, realized PnL
  orders, next_local_id,       \* the order tracker
  quotes,                      \* live: order id -> the quote it was placed for
  sim,                         \* the simulated exchange
  hist,                        \* history: what really happened (see NoHistory)
  budget                       \* bound: how often each input may still come

vars == <<mode, hp, mm, book, router, ledger, orders, next_local_id, quotes, sim, hist, budget>>

HP == INSTANCE HotPath
Maker == INSTANCE MarketMaker
Book == INSTANCE OrderBook
Route == INSTANCE Router
Sim == INSTANCE SimulatedExchange
ASSUME HarnessAssumption == HarnessOrders \subseteq Sim!Orders

Acc == INSTANCE Ledger
Eng == INSTANCE ExecutionEngine
         WITH Venues <- {"Simulated"}, ForeignIds <- {}, OrderQtys <- {OrderQty}, Times <- {0},
              MaxLocalId <- MaxOrders

-----------------------------------------------------------------------------
(* History variables: the program keeps none of this.                      *)
(*   cash, flat_cash, streak  money the fills moved, fees paid; its value  *)
(*                            when last flat; losing round trips in a row  *)
(*   net, lowest, highest     sum of all fills ever, and its extremes      *)
(*   short_closed             a buy met a short position since midnight    *)
(*   fits                     no book ever grew past the flat book         *)
(*   requests, prices         orders as submitted; the prices they traded  *)
NoHistory == [cash |-> 0, flat_cash |-> 0, streak |-> 0, net |-> 0, lowest |-> 0, highest |-> 0,
              short_closed |-> FALSE, fits |-> TRUE,
              requests |-> [id \in {} |-> 0], prices |-> [id \in {} |-> {}]]

(* What a fill moves, valued as the books value it: the part that closes   *)
(* and the part that opens each for itself.                                *)
FillCash(l, f, unit) ==
  LET closed == IF Acc!Opens(l, f.side) THEN 0 ELSE Min({f.qty, Magnitude(l.position_qty)})
      opened == f.qty - closed
  IN  -Sign(f.side) * (Acc!Value(unit, f.price, closed) + Acc!Value(unit, f.price, opened)) - f.fee

CountCash(h, l, f, unit) ==
  LET cash == h.cash + FillCash(l, f, unit)
      flat == l.position_qty + Sign(f.side) * f.qty = 0
  IN  [h EXCEPT !.cash = cash,
                !.flat_cash = IF flat THEN cash ELSE @,
                !.streak = IF ~flat THEN @ ELSE IF cash - h.flat_cash >= 0 THEN 0 ELSE @ + 1,
                !.short_closed = @ \/ (f.side = "Buy" /\ l.position_qty < 0)]

CountNet(h, f) ==
  LET net == h.net + Sign(f.side) * f.qty
  IN  [h EXCEPT !.net = net, !.lowest = Min({@, net}), !.highest = Max({@, net})]

(* Midnight starts the day's money afresh.                                 *)
CountMidnight(h) == [h EXCEPT !.cash = 0, !.flat_cash = 0, !.streak = 0, !.short_closed = FALSE]

Fits(h, b, u) ==
  /\ u.is_snapshot \/ h.fits
  /\ \A side \in Sides :
       LET news == IF side = "Buy" THEN u.bids ELSE u.asks
           held == IF u.is_snapshot THEN 0 ELSE Cardinality(DOMAIN Book!LevelsOf(b, side))
       IN  held + Len(news) <= MaxLevels

-----------------------------------------------------------------------------
Init ==
  /\ mode \in Modes
  /\ hp = HP!NewEngine(VpinEnabled /\ mode = "live")
  /\ mm = Maker!NewMaker
  /\ book = Book!EmptyBook
  /\ router = [v \in {} |-> Book!EmptyBook]
  /\ ledger = Acc!NewLedger
  /\ orders = [id \in {} |-> 0]
  /\ next_local_id = 1
  /\ quotes = [id \in {} |-> 0]
  /\ sim = Sim!NewExchange
  /\ hist = NoHistory
  /\ budget \in Budgets[mode]

Spend(what) == /\ budget[what] > 0
               /\ budget' = [budget EXCEPT ![what] = @ - 1]

-----------------------------------------------------------------------------
(* The live loop.                                                          *)

(* One command of the hot path: q = [quotes, next].  A quote whose side    *)
(* the risk engine refuses is dropped.                                     *)
ExecuteCommand(q, c, refused) ==
  IF c.tag = "CANCEL_ALL"
  THEN [q EXCEPT !.quotes = [id \in DOMAIN @ |-> [@[id] EXCEPT !.canceled = TRUE]]]
  ELSE IF c.side \in refused THEN q
  ELSE [ next |-> q.next + 1,
         quotes |-> [id \in DOMAIN q.quotes \cup {q.next} |->
                       IF id = q.next THEN [side |-> c.side, price |-> c.price, canceled |-> FALSE]
                       ELSE q.quotes[id]] ]

ExecuteCommands(commands, refused) ==
  LET done == FoldLeft(LAMBDA q, c : ExecuteCommand(q, c, refused),
                       [quotes |-> quotes, next |-> next_local_id], commands)
  IN  /\ quotes' = done.quotes
      /\ next_local_id' = done.next

(* A book update from a venue's feed.                                      *)
LiveBookUpdate(venue, u) ==
  /\ mode = "live"
  /\ Spend("updates")
  /\ book' = Book!Apply(book, u)
  /\ router' = [v \in DOMAIN router \cup {venue} |-> IF v = venue THEN book' ELSE router[v]]
  /\ LET r == HP!OnBookUpdate(hp, u)
     IN  /\ hp' = r.engine
         /\ \E refused \in SUBSET { r.commands[i].side : i \in {j \in DOMAIN r.commands :
                                                             r.commands[j].tag = "PLACE"} } :
              ExecuteCommands(r.commands, refused)
  /\ mm' = IF venue = PrimaryVenue THEN Maker!OnBook(mm, u) ELSE mm
  /\ hist' = [hist EXCEPT !.fits = Fits(hist, book, u)]
  /\ UNCHANGED <<mode, ledger, orders, sim>>

(* A trade from the feed of the primary venue.                             *)
LiveTrade(t) ==
  /\ mode = "live"
  /\ Spend("trades")
  /\ LET r == HP!OnTrade(hp, t)
     IN  hp' = r.engine /\ ExecuteCommands(r.commands, {})
  /\ mm' = Maker!OnTrade(mm, t)
  /\ UNCHANGED <<mode, book, router, ledger, orders, sim, hist>>

(* A fill from the gateway: inventory of both engines, books, streak.      *)
GatewayFill(f) ==
  /\ mode = "live"
  /\ Spend("fills")
  /\ mm' = Maker!OnFill(mm, f.side, f.qty)
  /\ hp' = HP!OnFill(hp, f.side, f.qty)
  /\ ledger' = Acc!LiveFill(ledger, f)
  /\ hist' = CountNet(CountCash(hist, ledger, f, Acc!LiveUnit), f)
  /\ UNCHANGED <<mode, book, router, orders, next_local_id, quotes, sim>>

(* The exchange fills a quote at its price or a better one.                *)
QuoteFill(f) ==
  /\ \E id \in DOMAIN quotes :
       quotes[id].side = f.side /\ Accepts(f.side, quotes[id].price, f.price)
  /\ GatewayFill(f)

Fills == [side: Sides, price: FillPrices, qty: FillQtys, fee: Fees]

(* The heartbeat after midnight: the hot path and the market maker keep    *)
(* their inventory.                                                        *)
Midnight ==
  /\ mode = "live"
  /\ Spend("midnights")
  /\ ledger' = Acc!DailyReset(ledger)
  /\ hist' = CountMidnight(hist)
  /\ UNCHANGED <<mode, hp, mm, book, router, orders, next_local_id, quotes, sim>>

-----------------------------------------------------------------------------
(* The backtest.                                                           *)

QuoteOrder(id, c) == [id |-> id, side |-> c.side, type |-> "Limit", tif |-> "GTC",
                      price |-> c.price, qty |-> OrderQty]

(* The tracker and the exchange get a new order: x = [sim, orders, next,   *)
(* requests].                                                              *)
Submit(x, o) ==
  [ sim |-> Sim!SubmitOrder(x.sim, o),
    orders |-> Eng!ProcessEvent(x.orders, [kind |-> "OrderNew", id |-> o.id, side |-> o.side,
                                           qty |-> o.qty, ts |-> 0]),
    next |-> x.next + 1,
    requests |-> [id \in DOMAIN x.requests \cup {o.id} |->
                    IF id = o.id THEN o ELSE x.requests[id]] ]

BacktestCommand(x, c) ==
  IF c.tag = "CANCEL_ALL"
  THEN [x EXCEPT !.sim = FoldLeft(Sim!CancelOrder, @, SetToSeq(Eng!OpenOrderIds(x.orders)))]
  ELSE Submit(x, QuoteOrder(Eng!LocalOrderId("Simulated", x.next), c))

Traded(h, e) ==
  [h EXCEPT !.prices = [id \in DOMAIN @ \cup {e.id} |->
     (IF id \in DOMAIN @ THEN @[id] ELSE {}) \cup (IF id = e.id THEN {e.price} ELSE {})]]

TradedIn(h, e) == IF e.kind = "OrderFill" THEN Traded(h, e) ELSE h

(* One event of the exchange: d = [orders, hp, ledger, hist].              *)
BacktestEvent(d, e) ==
  LET tracked == Eng!ProcessEvent(d.orders, e)
  IN  IF e.kind # "OrderFill" THEN [d EXCEPT !.orders = tracked]
      ELSE [ orders |-> tracked,
             hp |-> HP!OnFill(d.hp, e.side, e.qty),
             ledger |-> Acc!BacktestFill(d.ledger, e),
             hist |-> Traded(CountCash(d.hist, d.ledger, e, Acc!BacktestUnit), e) ]

ExecutesAlways(l) == TRUE                        \* for mutation: quotes while positioned

(* The hot path's commands are executed when the position is flat.         *)
Executes(l) == l.position_qty = 0

(* One event of the recording: the exchange sees the update and may fill   *)
(* resting orders, the hot path answers, its commands are executed if the  *)
(* position was flat before those fills are counted, and only then the     *)
(* exchange's events are drained.                                          *)
BacktestStep(fed, r) ==
  LET before == [sim |-> fed, orders |-> orders, next |-> next_local_id,
                 requests |-> hist.requests]
      after == IF Executes(ledger) THEN FoldLeft(BacktestCommand, before, r.commands)
               ELSE before
      drained == FoldLeft(BacktestEvent,
                          [orders |-> after.orders, hp |-> r.engine, ledger |-> ledger,
                           hist |-> [hist EXCEPT !.requests = after.requests]],
                          after.sim.pending)
  IN  /\ sim' = Sim!DrainEvents(after.sim)
      /\ next_local_id' = after.next
      /\ orders' = drained.orders
      /\ hp' = drained.hp
      /\ ledger' = drained.ledger
      /\ hist' = drained.hist
      /\ UNCHANGED <<mode, mm, book, router, quotes>>

BacktestBookUpdate(u) ==
  /\ mode = "backtest"
  /\ Spend("updates")
  /\ \E order \in SetToSeqs(DOMAIN sim.resting) :
       BacktestStep(Sim!OnBookUpdate(sim, u, order), HP!OnBookUpdate(hp, u))

BacktestTrade(t) ==
  /\ mode = "backtest"
  /\ Spend("trades")
  /\ BacktestStep(sim, HP!OnTrade(hp, t))

-----------------------------------------------------------------------------
(* The simulated exchange driven directly.                                 *)

(* The events of x.sim go to the tracker.                                  *)
HarnessStep(x) ==
  /\ sim' = Sim!DrainEvents(x.sim)
  /\ next_local_id' = x.next
  /\ orders' = FoldLeft(Eng!ProcessEvent, x.orders, x.sim.pending)
  /\ hist' = FoldLeft(TradedIn, [hist EXCEPT !.requests = x.requests], x.sim.pending)
  /\ UNCHANGED <<mode, hp, mm, book, router, ledger, quotes>>

HarnessState(s) ==
  [sim |-> s, orders |-> orders, next |-> next_local_id, requests |-> hist.requests]

HarnessBookUpdate(u) ==
  /\ mode = "harness"
  /\ Spend("updates")
  /\ \E order \in SetToSeqs(DOMAIN sim.resting) :
       HarnessStep(HarnessState(Sim!OnBookUpdate(sim, u, order)))

HarnessSubmit(o) ==
  /\ mode = "harness"
  /\ next_local_id <= MaxOrders
  /\ HarnessStep(Submit(HarnessState(sim),
                        [o EXCEPT !.id = Eng!LocalOrderId("Simulated", next_local_id)]))
  /\ UNCHANGED budget

HarnessCancel(id) ==
  /\ mode = "harness"
  /\ HarnessStep(HarnessState(Sim!CancelOrder(sim, id)))
  /\ UNCHANGED budget

-----------------------------------------------------------------------------
Next ==
  \/ \E l \in LiveUpdates : LiveBookUpdate(l.venue, l.update)
  \/ \E t \in Trades : LiveTrade(t)
  \/ \E f \in Fills : QuoteFill(f)
  \/ Midnight
  \/ \E u \in BacktestUpdates : BacktestBookUpdate(u)
  \/ \E t \in Trades : BacktestTrade(t)
  \/ \E u \in HarnessUpdates : HarnessBookUpdate(u)
  \/ \E o \in HarnessOrders : HarnessSubmit(o)
  \/ \E id \in Eng!OpenOrderIds(orders) : HarnessCancel(id)

Spec == Init /\ [][Next]_vars

-----------------------------------------------------------------------------
(* Properties.                                                             *)

Live == mode = "live"
Backtest == mode = "backtest"

(* Type invariant.                                                         *)
TypeOK ==
  /\ mode \in Modes
  /\ hp.position_qty \in -MaxInventory .. MaxInventory
  /\ {hp.buy_volume, hp.sell_volume, hp.total_volume} \subseteq Nat
  /\ Len(hp.bids) <= MaxLevels /\ Len(hp.asks) <= MaxLevels
  /\ mm.position_qty \in Nat
  /\ mm.last_quote_tick \in 0 .. mm.tick_count
  /\ DOMAIN router \subseteq Venues
  /\ ledger \in Acc!Books
  /\ next_local_id \in Nat \ {0}
  /\ sim.pending = <<>>
  /\ \A id \in DOMAIN sim.resting : sim.resting[id].remaining > 0

(* The flat array of one side against the map of the same side.            *)
SideAgrees(flat, side, levels) ==
  /\ \A i, j \in DOMAIN flat : i < j => Better(side, flat[i].price, flat[j].price)
  /\ \A i \in DOMAIN flat : flat[i].price \in DOMAIN levels /\ flat[i].qty = levels[flat[i].price]
  /\ hist.fits => Len(flat) = Cardinality(DOMAIN levels)

(* orderbook.cpp against book.rs: over any snapshots and deltas the hot    *)
(* path's arrays stay strictly sorted and hold levels of the pair's book   *)
(* with their quantities, all of them as long as they fit.                 *)
BooksAgree == Live => /\ SideAgrees(hp.bids, "Buy", book.bids)
                      /\ SideAgrees(hp.asks, "Sell", book.asks)

WindowVolume(window, side) ==
  MapThenSumSet(LAMBDA i : IF window[i].side = side THEN window[i].qty ELSE 0, DOMAIN window)

(* signal.cpp and toxicity.rs evict from their windows in different orders *)
(* (before and after inserting): the running volumes of both stay the sums *)
(* of one and the same window.                                             *)
FlowAgrees ==
  /\ hp.buy_volume = WindowVolume(hp.window, "Buy")
  /\ hp.sell_volume = WindowVolume(hp.window, "Sell")
  /\ hp.total_volume = hp.buy_volume + hp.sell_volume
  /\ Live => /\ mm.window = hp.window
             /\ mm.buy_volume = hp.buy_volume
             /\ mm.sell_volume = hp.sell_volume

(* generate_quotes, "passive quotes outside the fair value": whatever the  *)
(* inventory, the skew never takes a quote across the fair value.          *)
QuotesPassive ==
  /\ hp.last_bid_price <= hp.last_fair_value
  /\ hp.last_fair_value <= hp.last_ask_price

(* has_active_quotes and CANCEL_ALL: quotes never pile up, at most one bid *)
(* and one ask are left in the market, over refused orders, toxic pulls,   *)
(* fills, and backtest ticks whose commands are not executed.              *)
NoStackedQuotes ==
  \A side \in Sides :
    /\ Cardinality({ id \in DOMAIN quotes : quotes[id].side = side /\ ~quotes[id].canceled }) <= 1
    /\ Backtest => Cardinality({ id \in DOMAIN sim.resting : sim.resting[id].side = side }) <= 1

(* InventoryState::on_fill: as long as the fills of all days never added   *)
(* up to more than max_inventory, the hot path's inventory is their sum,   *)
(* also after midnight, when the loop's own position is forgotten.         *)
InventoryTracks ==
  (Live /\ hist.lowest >= -MaxInventory /\ hist.highest <= MaxInventory)
    => hp.position_qty = hist.net

(* InventoryManager::on_fill ("position never goes negative"): the mirror  *)
(* runs above the fills by the deepest short the node ever was in, for     *)
(* good; it is right exactly as long as the node was never short.          *)
MirrorReflects == Live => mm.position_qty = hist.net - hist.lowest

(* The fill accounting of the live loop: the realized PnL is the money the *)
(* fills moved plus what the open position cost, to the pipette, over      *)
(* partial closes, flips and fees, until a short is closed (FlatPnlIsCash).*)
LiveBooksBalance ==
  (Live /\ ~hist.short_closed) => ledger.realized_pnl = hist.cash + ledger.cost_basis

(* The same of the backtest, which was written apart: here shorts may be   *)
(* closed as well.                                                         *)
BacktestBooksBalance == Backtest => ledger.realized_pnl = hist.cash + ledger.cost_basis

(* record_win, record_loss: the losing streak that trips the breaker is    *)
(* the streak of round trips that really lost money, fees paid, until a    *)
(* short is closed.                                                        *)
JudgedByCash == (Live /\ ~hist.short_closed) => ledger.losses = hist.streak

(* The backtest executes commands when its position is flat: then the hot  *)
(* path holds no inventory either and neither side of its quotes is        *)
(* suppressed or skewed, although its inventory is clamped.                *)
FlatMeansNoInventory == (Backtest /\ ledger.position_qty = 0) => hp.position_qty = 0

(* The flat check of the backtest is older than the fills of its tick: a   *)
(* new pair of quotes may be placed when one of the old pair was just      *)
(* filled.  The position still never exceeds two orders.                   *)
PositionBounded == Backtest => Magnitude(ledger.position_qty) <= 2 * OrderQty

SlicesQty(slices) == MapThenSumSet(LAMBDA i : slices[i].qty, DOMAIN slices)

(* What a sweep of qty can find.                                           *)
Reachable(side) ==
  MapThenSumSet(LAMBDA v : Book!Depth(Route!Across(router[v], side)), DOMAIN router)

(* route: whatever the books and the order of the venues, no algorithm     *)
(* sends out more than the order asks for, a VWAP split excepted, which    *)
(* rounding may push over or under by half a unit per venue; a sweep takes *)
(* all there is, best prices first; best venue and VWAP route whenever a   *)
(* venue quotes.                                                           *)
RouterConserves ==
  Live => \A side \in Sides, qty \in 1 .. 2 * OrderQty, order \in SetToSeqs(DOMAIN router) :
    LET best == Route!RouteBestVenue(router, side, qty, order)
        vwap == Route!RouteVwap(router, side, qty, order)
        twap == Route!RouteTwap(router, side, qty, 2, order)
        sweep == Route!RouteSweep(router, side, qty, order)
        found == Reachable(side)
    IN  /\ SlicesQty(best) = (IF found = 0 THEN 0 ELSE qty)
        /\ found > 0 => 2 * Magnitude(SlicesQty(vwap) - qty) <= Cardinality(DOMAIN router)
        /\ SlicesQty(twap) \in qty - 1 .. qty \/ (twap = <<>> /\ (qty < 2 \/ found = 0))
        /\ SlicesQty(sweep) = Min({qty, found})
        /\ \A i, j \in DOMAIN sweep :
             i < j => ~Better(Opposite(side), sweep[j].price, sweep[i].price)

(* The tracker fed with the simulator's events knows its orders: what      *)
(* rests is open with the same remaining quantity, and what is open and    *)
(* does not rest is the leftover of an order that is neither limit nor     *)
(* immediate, which the simulator drops without an event.                  *)
TrackerMirrorsVenue ==
  \A id \in DOMAIN orders :
    LET rests == id \in DOMAIN sim.resting
        o == hist.requests[id]
    IN  /\ rests => /\ orders[id].state \in {"Ack", "PartialFill"}
                    /\ orders[id].remaining_qty = sim.resting[id].remaining
        /\ (id \in Eng!OpenOrderIds(orders) /\ ~rests) => /\ o.type # "Limit"
                                                          /\ o.tif \in {"GTC", "GTD"}

(* submit_order and check_resting_orders: a fill-or-kill order fills whole *)
(* or not at all, immediate orders are over at once, and no order trades   *)
(* through its limit, however deep it sweeps the book.                     *)
OrderTermsKept ==
  \A id \in DOMAIN orders :
    LET o == hist.requests[id]
        traded == IF id \in DOMAIN hist.prices THEN hist.prices[id] ELSE {}
    IN  /\ o.tif = "FOK" => orders[id].filled_qty \in {0, o.qty}
        /\ o.tif \in {"IOC", "FOK"} => orders[id].state \in Eng!Terminal
        /\ o.type \in {"Limit", "StopLimit"} => \A p \in traded : Accepts(o.side, o.price, p)

(* "Position tracker for accurate PnL" (main.rs): when the position is     *)
(* flat, the realized PnL is the money the fills moved.                    *)
FlatPnlIsCash == (Live /\ ledger.position_qty = 0) => ledger.realized_pnl = hist.cash
=============================================================================
