-------------------------- MODULE SimulatedExchange --------------------------
(***************************************************************************)
(* crates/atomic-execution/src/simulator.rs: the exchange of the backtest, *)
(* for one symbol.  A call is an operator from the exchange to the         *)
(* exchange; the trading module owns it.  Its events are those the order   *)
(* tracker processes, with the price and the fee of a fill.                *)
(*                                                                         *)
(* Left out: latencies (they only date the events), exchange order ids.    *)
(***************************************************************************)
EXTENDS OrderBook

CONSTANTS MakerFeeBps, TakerFeeBps

OrderTypes == {"Market", "Limit", "StopLimit", "StopMarket"}
TimesInForce == {"GTC", "GTD", "IOC", "FOK"}

(* Orders as submitted; the caller gives them their id.                    *)
Orders == [id: {0}, side: Sides, type: OrderTypes, tif: TimesInForce, price: Nat, qty: Nat \ {0}]

NoOrders == [id \in {} |-> 0]

NewExchange == [bids |-> NoLevels, asks |-> NoLevels, resting |-> NoOrders, pending |-> <<>>]

Fee(price, qty, bps) == Quot(price * qty * bps, 10000)

(* An event about order o.                                                 *)
SimEvent(kind, id, side, price, qty, fee) ==
  [kind |-> kind, id |-> id, side |-> side, price |-> price, qty |-> qty, fee |-> fee, ts |-> 0]

Emit(sim, kind, id, side) ==
  [sim EXCEPT !.pending = Append(@, SimEvent(kind, id, side, 0, 0, 0))]

(* The side of the book an order trades against.                           *)
Liquidity(sim, side) == IF side = "Buy" THEN sim.asks ELSE sim.bids

Without(f, x) == [y \in DOMAIN f \ {x} |-> f[y]]

-----------------------------------------------------------------------------
(* Resting orders.                                                         *)

(* Does the market cross a resting order?                                  *)
Crossed(sim, id) ==
  LET o == sim.resting[id]
      levels == Liquidity(sim, o.side)
  IN  DOMAIN levels # {} /\ Accepts(o.side, o.price, Best(levels, Opposite(o.side)))

MakerFillStays(sim, id) ==                        \* for mutation: the filled order stays
  LET o == sim.resting[id]
  IN  IF ~Crossed(sim, id) THEN sim
      ELSE [sim EXCEPT !.pending = Append(@, SimEvent("OrderFill", id, o.side, o.price,
                                             o.remaining, Fee(o.price, o.remaining, MakerFeeBps)))]

(* A crossed order fills whole at its own price, whatever the level holds; *)
(* the book is not consumed.                                               *)
MakerFill(sim, id) ==
  LET o == sim.resting[id]
  IN  IF ~Crossed(sim, id) THEN sim
      ELSE [sim EXCEPT !.resting = Without(@, id),
                       !.pending = Append(@, SimEvent("OrderFill", id, o.side, o.price,
                                             o.remaining, Fee(o.price, o.remaining, MakerFeeBps)))]

(* "order": the sequence in which the HashMap of resting orders is walked. *)
CheckRestingOrders(sim, order) == FoldLeft(MakerFill, sim, order)

SetBook(sim, u) ==
  [sim EXCEPT !.bids = SetLevels(IF u.is_snapshot THEN NoLevels ELSE @, u.bids),
              !.asks = SetLevels(IF u.is_snapshot THEN NoLevels ELSE @, u.asks)]

OnBookUpdate(sim, u, order) == CheckRestingOrders(SetBook(sim, u), order)

CancelOrder(sim, id) ==
  IF id \in DOMAIN sim.resting
  THEN Emit([sim EXCEPT !.resting = Without(@, id)], "OrderCancel", id, sim.resting[id].side)
  ELSE sim

-----------------------------------------------------------------------------
(* A new order o = [id, side, type, tif, price, qty].                      *)

HasLimit(o) == o.type \in {"Limit", "StopLimit"}

(* The levels o may trade with, best first.                                *)
Matching(sim, o) ==
  LET levels == Liquidity(sim, o.side)
      prices == { p \in DOMAIN levels : HasLimit(o) => Accepts(o.side, o.price, p) }
      ordered == BestFirst(prices, Opposite(o.side))
  IN  [i \in DOMAIN ordered |-> [price |-> ordered[i], qty |-> levels[ordered[i]]]]

Available(sim, o) == FoldLeft(LAMBDA s, l : s + l.qty, 0, Matching(sim, o))

NotFillable(sim, o) == FALSE                      \* for mutation: FOK not checked

(* Fill-or-kill without the liquidity, or a market order with none at all. *)
Unfillable(sim, o) ==
  \/ o.tif = "FOK" /\ Available(sim, o) < o.qty
  \/ o.type = "Market" /\ DOMAIN Liquidity(sim, o.side) = {}

(* The taker fills of o, best level first: m = [sim, remaining].           *)
TakerFill(m, o, l) ==
  LET qty == Min({m.remaining, l.qty})
      left == [price |-> l.price, qty |-> l.qty - qty]
      taken == IF o.side = "Buy"
               THEN [m.sim EXCEPT !.asks = SetLevel(@, left)]
               ELSE [m.sim EXCEPT !.bids = SetLevel(@, left)]
  IN  IF qty = 0 THEN m
      ELSE [ sim |-> [taken EXCEPT !.pending =
                        Append(@, SimEvent("OrderFill", o.id, o.side, l.price, qty,
                                           Fee(l.price, qty, TakerFeeBps)))],
             remaining |-> m.remaining - qty ]

MatchOrder(sim, o) ==
  FoldLeft(LAMBDA m, l : TakerFill(m, o, l), [sim |-> sim, remaining |-> o.qty], Matching(sim, o))

RestFull(sim, o, remaining) ==                    \* for mutation: the whole size rests
  [sim EXCEPT !.resting = [id \in DOMAIN @ \cup {o.id} |->
     IF id = o.id THEN [side |-> o.side, price |-> o.price, remaining |-> o.qty] ELSE @[id]]]

Rest(sim, o, remaining) ==
  [sim EXCEPT !.resting = [id \in DOMAIN @ \cup {o.id} |->
     IF id = o.id THEN [side |-> o.side, price |-> o.price, remaining |-> remaining] ELSE @[id]]]

(* Does what is left of o wait in the book?                                *)
Rests(o) == o.tif \in {"GTC", "GTD"} /\ o.type = "Limit"

(* What is left of an order that neither rests nor is immediate is dropped *)
(* without an event.                                                       *)
SubmitOrder(sim, o) ==
  LET m == MatchOrder(Emit(sim, "OrderAck", o.id, o.side), o)
  IN  IF Unfillable(sim, o) THEN Emit(sim, "OrderReject", o.id, o.side)
      ELSE IF m.remaining > 0 /\ o.tif = "IOC" THEN Emit(m.sim, "OrderCancel", o.id, o.side)
      ELSE IF m.remaining > 0 /\ Rests(o) THEN Rest(m.sim, o, m.remaining)
      ELSE m.sim

DrainEvents(sim) == [sim EXCEPT !.pending = <<>>]
=============================================================================
