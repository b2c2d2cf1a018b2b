------------------------------- MODULE MCTrading -------------------------------
(* Books of two levels a side around three mid prices, far enough apart    *)
(* that a move fills a resting quote, one-sided and overfull books and     *)
(* deltas; orders of size 2, so that fills may be partial.                 *)
EXTENDS Trading

V1 == PrimaryVenue
V2 == CHOOSE v \in Venues : v # PrimaryVenue

Lv(p, q) == [price |-> p, qty |-> q]

Snapshot(bids, asks) == [bids |-> bids, asks |-> asks, is_snapshot |-> TRUE]
Delta(bids, asks) == [bids |-> bids, asks |-> asks, is_snapshot |-> FALSE]

Around(mid) == Snapshot(<<Lv(mid - 1, 2), Lv(mid - 2, 1)>>, <<Lv(mid + 1, 1), Lv(mid + 2, 2)>>)

MCLiveUpdates ==
  { [venue |-> V1, update |-> Around(10)],
    [venue |-> V1, update |-> Delta(<<Lv(8, 3)>>, <<Lv(11, 0)>>)],
    [venue |-> V2, update |-> Around(15)],
    [venue |-> V2, update |-> Delta(<<Lv(10, 1)>>, <<Lv(13, 1)>>)] }

MCBacktestUpdates ==
  { Around(10), Around(15), Around(20),
    Snapshot(<<Lv(9, 2)>>, <<>>),
    Delta(<<Lv(9, 0)>>, <<Lv(6, 1)>>) }

MCHarnessUpdates ==
  { Around(10),
    Snapshot(<<>>, <<Lv(9, 1), Lv(10, 1)>>),
    Delta(<<Lv(11, 3)>>, <<Lv(11, 0)>>) }

MCTrades == { [side |-> "Buy", price |-> 10, qty |-> 2],
              [side |-> "Buy", price |-> 12, qty |-> 1],
              [side |-> "Sell", price |-> 10, qty |-> 1] }

Budget(updates, trades, fills, midnights) ==
  [updates |-> updates, trades |-> trades, fills |-> fills, midnights |-> midnights]

MCBudgets ==
  [ live |-> { Budget(3, 0, 1, 0), Budget(2, 3, 0, 0), Budget(2, 0, 5, 0), Budget(1, 1, 3, 1) },
    backtest |-> { Budget(6, 1, 0, 0) },
    harness |-> { Budget(2, 0, 0, 0) } ]

ShortBudgets == [live |-> {Budget(1, 0, 4, 0)}, backtest |-> {}, harness |-> {}]

HarnessOrder(side, type, tif, price, qty) ==
  [id |-> 0, side |-> side, type |-> type, tif |-> tif, price |-> price, qty |-> qty]

MCOrders ==
  { HarnessOrder("Buy", type, tif, 11, 2) : type \in {"Market", "Limit"},
                                           tif \in {"GTC", "IOC", "FOK"} }
    \cup { HarnessOrder("Sell", "Limit", "GTC", 11, 2), HarnessOrder("Buy", "Limit", "GTD", 9, 1),
           HarnessOrder("Sell", "Limit", "FOK", 8, 4), HarnessOrder("Sell", "StopLimit", "GTC", 9, 3),
           HarnessOrder("Sell", "StopMarket", "GTC", 9, 4) }
=============================================================================
