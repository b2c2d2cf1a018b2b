--------------------------- MODULE ExecutionEngine ---------------------------
(***************************************************************************)
(* crates/atomic-execution/src/state_machine.rs: the order tracker.        *)
(*                                                                         *)
(* A handler that returns Err leaves the tracker as it was, and every      *)
(* caller drops the error ("let _ = ..."), so a handler is written as an   *)
(* operator from the order map to the order map; the recovery and node     *)
(* modules reuse these operators.  Fields the tracker stores and never     *)
(* reads (symbol, price, venue, exchange id, created_at) are left out.     *)
(***************************************************************************)
EXTENDS Naturals, FiniteSets

CONSTANTS
  Venues,       \* venues next_order_id is asked for
  ForeignIds,   \* client ids the tracker never mints: "seed-buy-1", "reseed-<n>"
  Sides,        \* "Buy", "Sell"
  OrderQtys,    \* sizes orders are placed with
  FillQtys,     \* quantities fills report (0: an unparsable quantity)
  Times,        \* event timestamps
  MaxLocalId    \* bound: next_local_id stops here

ASSUME EngineAssumption ==
  /\ OrderQtys \subseteq Nat \ {0}
  /\ FillQtys \subseteq Nat
  /\ Times \subseteq Nat
  /\ MaxLocalId \in Nat \ {0}
  /\ ForeignIds \cap (Venues \X Nat) = {}

VARIABLES orders,          \* order id -> LiveOrder, a partial function
          next_local_id

vars == <<orders, next_local_id>>

OrderState == {"New", "Ack", "PartialFill", "Filled", "Canceled", "Rejected"}

Terminal == {"Filled", "Canceled", "Rejected"}

TransitionFromAny(from, to) ==                    \* for mutation: terminal forgotten
  \/ <<from, to>> \in {<<"New", "Ack">>, <<"New", "Rejected">>}
  \/ from # "New" /\ to \in {"PartialFill", "Filled", "Canceled"}

CanTransitionTo(from, to) ==
  <<from, to>> \in { <<"New", "Ack">>, <<"New", "Rejected">>,
                     <<"Ack", "PartialFill">>, <<"Ack", "Filled">>, <<"Ack", "Canceled">>,
                     <<"PartialFill", "PartialFill">>, <<"PartialFill", "Filled">>,
                     <<"PartialFill", "Canceled">> }

(* Ids the node mints and ids only the gateway knows.                      *)
OrderId == (Venues \X (1 .. MaxLocalId)) \cup ForeignIds

LiveOrder == [side: Sides, original_qty: Nat, filled_qty: Nat, remaining_qty: Nat,
              state: OrderState, updated_at: Nat]

(* Ids are the text "<venue>-<n>": one per venue and counter value.        *)
LocalOrderId(venue, n) == <<venue, n>>

NewOrder(side, qty, ts) ==
  [side |-> side, original_qty |-> qty, filled_qty |-> 0, remaining_qty |-> qty,
   state |-> "New", updated_at |-> ts]

MinusWraps(a, b) == a - b                         \* for mutation: plain subtraction

Minus(a, b) == IF a >= b THEN a - b ELSE 0        \* u64::saturating_sub

-----------------------------------------------------------------------------
(* Handlers, from the order map to the order map.                          *)

May(os, id, to) == id \in DOMAIN os /\ CanTransitionTo(os[id].state, to)

RegisterOrder(os, id, o) ==
  IF id \in DOMAIN os
  THEN os
  ELSE [x \in DOMAIN os \cup {id} |-> IF x = id THEN o ELSE os[x]]

OnAck(os, id, ts) ==
  IF May(os, id, "Ack")
  THEN [os EXCEPT ![id].state = "Ack", ![id].updated_at = ts]
  ELSE os

FillOffByOne(o, qty) ==                           \* for mutation: > for >=
  IF o.filled_qty + qty > o.original_qty THEN "Filled" ELSE "PartialFill"

(* The state a fill of qty leads to: complete or not.                      *)
FillTarget(o, qty) ==
  IF o.filled_qty + qty >= o.original_qty THEN "Filled" ELSE "PartialFill"

FillOrder(o, qty, ts) ==
  LET filled == o.filled_qty + qty
  IN  [o EXCEPT !.filled_qty = filled, !.remaining_qty = Minus(o.original_qty, filled),
                !.state = FillTarget(o, qty), !.updated_at = ts]

OnFill(os, id, qty, ts) ==
  IF id \in DOMAIN os /\ CanTransitionTo(os[id].state, FillTarget(os[id], qty))
  THEN [os EXCEPT ![id] = FillOrder(os[id], qty, ts)]
  ELSE os

OnCancel(os, id, ts) ==
  IF May(os, id, "Canceled")
  THEN [os EXCEPT ![id].state = "Canceled", ![id].updated_at = ts]
  ELSE os

OnReject(os, id, ts) ==
  IF May(os, id, "Rejected")
  THEN [os EXCEPT ![id].state = "Rejected", ![id].updated_at = ts]
  ELSE os

EventKind == {"OrderNew", "OrderAck", "OrderFill", "OrderPartialFill", "OrderCancel",
              "OrderReject", "Other"}

Event == [kind: EventKind, id: OrderId, side: Sides, qty: Nat, ts: Nat]

(* OrderFill and OrderPartialFill are handled alike; OrderNew registers    *)
(* the order and does not advance next_local_id.                           *)
ProcessEvent(os, e) ==
  CASE e.kind = "OrderNew" -> RegisterOrder(os, e.id, NewOrder(e.side, e.qty, e.ts))
    [] e.kind = "OrderAck" -> OnAck(os, e.id, e.ts)
    [] e.kind \in {"OrderFill", "OrderPartialFill"} -> OnFill(os, e.id, e.qty, e.ts)
    [] e.kind = "OrderCancel" -> OnCancel(os, e.id, e.ts)
    [] e.kind = "OrderReject" -> OnReject(os, e.id, e.ts)
    [] e.kind = "Other" -> os

OpenOrderIds(os) == { id \in DOMAIN os : os[id].state \notin Terminal }

(* Orders the stale sweep considers: New ones are not among them.          *)
WorkingOrderIds(os) == { id \in OpenOrderIds(os) : os[id].state # "New" }

StaleOrderIds(os, now, timeout) ==
  { id \in WorkingOrderIds(os) : Minus(now, os[id].updated_at) > timeout }

GcTerminal(os) == [id \in OpenOrderIds(os) |-> os[id]]

-----------------------------------------------------------------------------
(* The tracker on its own: any caller, any events.                         *)

Init == /\ orders = [id \in {} |-> 0]
        /\ next_local_id = 1

(* The node's local path: next_order_id, LiveOrder::new, register_order.   *)
PlaceOrder(venue, side, qty, ts) ==
  /\ next_local_id <= MaxLocalId
  /\ next_local_id' = next_local_id + 1
  /\ orders' = RegisterOrder(orders, LocalOrderId(venue, next_local_id), NewOrder(side, qty, ts))

HandleEvent(e) == /\ orders' = ProcessEvent(orders, e)
                  /\ UNCHANGED next_local_id

Collect == /\ orders' = GcTerminal(orders)
           /\ UNCHANGED next_local_id

(* Any event of the exchange, a peer or the log, about any order.          *)
InputEvents ==
  [kind: {"OrderNew"}, id: OrderId, side: Sides, qty: OrderQtys, ts: Times]
    \cup [kind: EventKind \ {"OrderNew"}, id: OrderId, side: Sides, qty: FillQtys, ts: Times]

Next ==
  \/ \E v \in Venues, s \in Sides, q \in OrderQtys, t \in Times : PlaceOrder(v, s, q, t)
  \/ \E e \in InputEvents : HandleEvent(e)
  \/ Collect

Spec == Init /\ [][Next]_vars

-----------------------------------------------------------------------------
(* Properties.                                                             *)

(* Type invariant.                                                         *)
TypeOK == /\ DOMAIN orders \subseteq OrderId
          /\ orders \in [DOMAIN orders -> LiveOrder]
          /\ next_local_id \in 1 .. MaxLocalId + 1

(* The three quantities and the state of an order agree: nothing is        *)
(* executed before the acknowledgement, an order is Filled exactly when    *)
(* its fills reach its size, and what remains is what is left.             *)
OrderConsistent(o) ==
  /\ o.remaining_qty = Minus(o.original_qty, o.filled_qty)
  /\ o.state \in {"New", "Ack", "Rejected"} => o.filled_qty = 0
  /\ o.state \in {"PartialFill", "Canceled"} => o.filled_qty < o.original_qty
  /\ o.state = "Filled" => o.filled_qty >= o.original_qty

(* on_fill, on_cancel, on_reject: in every order the executed, remaining   *)
(* and original quantities agree with the state, over any sequence of      *)
(* events, late and duplicate ones included.                               *)
FillAccounting == \A id \in DOMAIN orders : OrderConsistent(orders[id])

(* The abstract order life this tracker implements (refinement mapping).   *)
StatusOf(id) == IF id \in DOMAIN orders THEN orders[id].state ELSE "Unknown"
FilledOf(id) == IF id \in DOMAIN orders THEN orders[id].filled_qty ELSE 0

Life == INSTANCE OrderLifecycle
          WITH Ids <- OrderId,
               status <- [id \in OrderId |-> StatusOf(id)],
               filled <- [id \in OrderId |-> FilledOf(id)]

(* The tracker implements the order life of OrderLifecycle.tla: every      *)
(* handler call is one of its moves on one order, or changes nothing.      *)
ImplementsLife == Life!Spec
=============================================================================
