------------------------- MODULE ExecutionEngineProofs -------------------------
(***************************************************************************)
(* ExecutionEngine.tla for every set of venues, ids, quantities and times: *)
(* types, the fill accounting, and that the tracker implements the order   *)
(* life of OrderLifecycle.tla.                                             *)
(***************************************************************************)
EXTENDS ExecutionEngine, TLAPS

(* An order map of the right type whose orders are consistent; sizes are   *)
(* positive, without which an acknowledged order could not be canceled     *)
(* with less executed than its size.                                       *)
GoodOrder(o) == o \in LiveOrder /\ OrderConsistent(o) /\ o.original_qty > 0

Good(os) == /\ DOMAIN os \subseteq OrderId
            /\ os \in [DOMAIN os -> LiveOrder]
            /\ \A id \in DOMAIN os : GoodOrder(os[id])

IInv == Good(orders) /\ next_local_id \in 1 .. MaxLocalId + 1

-----------------------------------------------------------------------------
(* Operators.                                                              *)

(* A new order of positive size is consistent.                             *)
LEMMA NewOrderGood ==
  ASSUME NEW side \in Sides, NEW qty \in Nat \ {0}, NEW ts \in Nat
  PROVE  GoodOrder(NewOrder(side, qty, ts))
BY DEF GoodOrder, NewOrder, LiveOrder, OrderState, OrderConsistent, Minus

(* register_order keeps a good map good.                                   *)
LEMMA RegisterGood ==
  ASSUME NEW os, Good(os), NEW id \in OrderId, NEW o, GoodOrder(o)
  PROVE  Good(RegisterOrder(os, id, o))
BY DEF Good, GoodOrder, RegisterOrder

(* Replacing one order by a good one keeps a good map good.                *)
LEMMA ReplaceGood ==
  ASSUME NEW os, Good(os), NEW id \in DOMAIN os, NEW o, GoodOrder(o)
  PROVE  Good([os EXCEPT ![id] = o])
BY DEF Good, GoodOrder

(* on_ack, on_cancel, on_reject change the state and the timestamp only.   *)
LEMMA MovedGood ==
  ASSUME NEW o, GoodOrder(o), NEW to \in {"Ack", "Canceled", "Rejected"}, NEW ts \in Nat,
         CanTransitionTo(o.state, to)
  PROVE  GoodOrder([o EXCEPT !.state = to, !.updated_at = ts])
BY DEF GoodOrder, LiveOrder, OrderState, OrderConsistent, CanTransitionTo, Minus

(* A fill leaves an order consistent, whatever its quantity.               *)
LEMMA FilledGood ==
  ASSUME NEW o, GoodOrder(o), NEW qty \in Nat, NEW ts \in Nat
  PROVE  GoodOrder(FillOrder(o, qty, ts))
<1> DEFINE filled == o.filled_qty + qty
<1>1. /\ o \in LiveOrder /\ filled \in Nat /\ o.original_qty \in Nat
      /\ Minus(o.original_qty, filled) \in Nat
      /\ FillTarget(o, qty) \in OrderState
  BY DEF GoodOrder, LiveOrder, Minus, FillTarget, OrderState
<1>2. FillOrder(o, qty, ts) \in LiveOrder
  BY <1>1 DEF FillOrder, LiveOrder
<1>3. OrderConsistent(FillOrder(o, qty, ts))
  BY <1>1 DEF FillOrder, FillTarget, GoodOrder, LiveOrder, OrderConsistent, Minus
<1> QED BY <1>2, <1>3 DEF GoodOrder, FillOrder, LiveOrder

(* process_event keeps a good map good.                                    *)
LEMMA ProcessGood ==
  ASSUME NEW os, Good(os), NEW e \in Event, e.kind = "OrderNew" => e.qty > 0
  PROVE  Good(ProcessEvent(os, e))
<1>0. /\ e.kind \in EventKind /\ e.id \in OrderId /\ e.side \in Sides
      /\ e.qty \in Nat /\ e.ts \in Nat
  BY DEF Event
<1>1. CASE e.kind = "OrderNew"
  <2>1. GoodOrder(NewOrder(e.side, e.qty, e.ts))
    BY <1>0, <1>1, NewOrderGood
  <2> QED BY <1>0, <1>1, <2>1, RegisterGood DEF ProcessEvent
<1>2. CASE e.kind = "OrderAck"
  <2>1. CASE May(os, e.id, "Ack")
    <3>1. OnAck(os, e.id, e.ts)
            = [os EXCEPT ![e.id] = [os[e.id] EXCEPT !.state = "Ack", !.updated_at = e.ts]]
      BY <2>1 DEF OnAck, May
    <3>2. GoodOrder([os[e.id] EXCEPT !.state = "Ack", !.updated_at = e.ts])
      BY <1>0, <2>1, MovedGood DEF May, Good
    <3> QED BY <1>2, <2>1, <3>1, <3>2, ReplaceGood DEF ProcessEvent, May
  <2>2. CASE ~May(os, e.id, "Ack")
    BY <1>2, <2>2 DEF ProcessEvent, OnAck
  <2> QED BY <2>1, <2>2
<1>3. CASE e.kind \in {"OrderFill", "OrderPartialFill"}
  <2> DEFINE fills == e.id \in DOMAIN os
                        /\ CanTransitionTo(os[e.id].state, FillTarget(os[e.id], e.qty))
  <2>1. CASE fills
    <3>1. GoodOrder(FillOrder(os[e.id], e.qty, e.ts))
      BY <1>0, <2>1, FilledGood DEF Good
    <3> QED BY <1>3, <2>1, <3>1, ReplaceGood DEF ProcessEvent, OnFill
  <2>2. CASE ~fills
    BY <1>3, <2>2 DEF ProcessEvent, OnFill
  <2> QED BY <2>1, <2>2
<1>4. CASE e.kind = "OrderCancel"
  <2>1. CASE May(os, e.id, "Canceled")
    <3>1. OnCancel(os, e.id, e.ts)
            = [os EXCEPT ![e.id] = [os[e.id] EXCEPT !.state = "Canceled", !.updated_at = e.ts]]
      BY <2>1 DEF OnCancel, May
    <3>2. GoodOrder([os[e.id] EXCEPT !.state = "Canceled", !.updated_at = e.ts])
      BY <1>0, <2>1, MovedGood DEF May, Good
    <3> QED BY <1>4, <2>1, <3>1, <3>2, ReplaceGood DEF ProcessEvent, May
  <2>2. CASE ~May(os, e.id, "Canceled")
    BY <1>4, <2>2 DEF ProcessEvent, OnCancel
  <2> QED BY <2>1, <2>2
<1>5. CASE e.kind = "OrderReject"
  <2>1. CASE May(os, e.id, "Rejected")
    <3>1. OnReject(os, e.id, e.ts)
            = [os EXCEPT ![e.id] = [os[e.id] EXCEPT !.state = "Rejected", !.updated_at = e.ts]]
      BY <2>1 DEF OnReject, May
    <3>2. GoodOrder([os[e.id] EXCEPT !.state = "Rejected", !.updated_at = e.ts])
      BY <1>0, <2>1, MovedGood DEF May, Good
    <3> QED BY <1>5, <2>1, <3>1, <3>2, ReplaceGood DEF ProcessEvent, May
  <2>2. CASE ~May(os, e.id, "Rejected")
    BY <1>5, <2>2 DEF ProcessEvent, OnReject
  <2> QED BY <2>1, <2>2
<1>6. CASE e.kind = "Other"
  BY <1>6 DEF ProcessEvent
<1> QED BY <1>0, <1>1, <1>2, <1>3, <1>4, <1>5, <1>6 DEF EventKind

(* gc_terminal keeps a good map good.                                      *)
LEMMA GcGood ==
  ASSUME NEW os, Good(os)
  PROVE  Good(GcTerminal(os))
BY DEF Good, GcTerminal, OpenOrderIds

(* The events the tracker is fed are events, new orders with a size.       *)
LEMMA InputsAreEvents ==
  ASSUME NEW e \in InputEvents
  PROVE  e \in Event /\ (e.kind = "OrderNew" => e.qty > 0)
<1>1. OrderQtys \subseteq Nat \ {0} /\ FillQtys \subseteq Nat /\ Times \subseteq Nat
  BY EngineAssumption DEF EngineAssumption
<1>2. CASE e \in [kind: {"OrderNew"}, id: OrderId, side: Sides, qty: OrderQtys, ts: Times]
  <2>1. e \in [kind: EventKind, id: OrderId, side: Sides, qty: Nat \ {0}, ts: Nat]
    BY <1>1, <1>2 DEF EventKind
  <2> QED BY <2>1 DEF Event
<1>3. CASE e \in [kind: EventKind \ {"OrderNew"}, id: OrderId, side: Sides, qty: FillQtys, ts: Times]
  BY <1>1, <1>3 DEF Event
<1> QED BY <1>2, <1>3 DEF InputEvents

-----------------------------------------------------------------------------
(* The inductive invariant.                                                *)

LEMMA InitInv == Init => IInv
BY EngineAssumption DEF EngineAssumption, Init, IInv, Good

LEMMA NextInv == IInv /\ [Next]_vars => IInv'
<1> SUFFICES ASSUME IInv, [Next]_vars PROVE IInv'
  OBVIOUS
<1> USE EngineAssumption DEF EngineAssumption
<1>1. ASSUME NEW v \in Venues, NEW s \in Sides, NEW q \in OrderQtys, NEW t \in Times,
             PlaceOrder(v, s, q, t)
      PROVE  IInv'
  <2>1. LocalOrderId(v, next_local_id) \in OrderId
    BY <1>1 DEF IInv, PlaceOrder, LocalOrderId, OrderId
  <2>2. GoodOrder(NewOrder(s, q, t))
    BY NewOrderGood
  <2>3. Good(orders')
    BY <1>1, <2>1, <2>2, RegisterGood DEF IInv, PlaceOrder
  <2>4. next_local_id' \in 1 .. MaxLocalId + 1
    BY <1>1 DEF IInv, PlaceOrder
  <2> QED BY <2>3, <2>4 DEF IInv, Good
<1>2. ASSUME NEW e \in InputEvents, HandleEvent(e) PROVE IInv'
  <2>1. Good(orders')
    BY <1>2, InputsAreEvents, ProcessGood DEF IInv, HandleEvent
  <2> QED BY <1>2, <2>1 DEF IInv, HandleEvent, Good
<1>3. CASE Collect
  <2>1. Good(orders')
    BY <1>3, GcGood DEF IInv, Collect
  <2> QED BY <1>3, <2>1 DEF IInv, Collect, Good
<1>4. CASE UNCHANGED vars
  BY <1>4 DEF IInv, Good, vars
<1> QED BY <1>1, <1>2, <1>3, <1>4 DEF Next

LEMMA Invariance == Spec => []IInv
BY InitInv, NextInv, PTL DEF Spec

(* Every reachable state of the tracker is of the declared types.          *)
THEOREM TypeCorrect == Spec => []TypeOK
<1>1. IInv => TypeOK
  BY DEF IInv, Good, TypeOK
<1> QED BY <1>1, Invariance, PTL

(* Executed, remaining and original quantities and the state of every      *)
(* order agree, whatever events arrive in whatever order.                  *)
THEOREM FillAccountingHolds == Spec => []FillAccounting
<1>1. IInv => FillAccounting
  BY DEF IInv, Good, GoodOrder, FillAccounting
<1> QED BY <1>1, Invariance, PTL

-----------------------------------------------------------------------------
(* Refinement of OrderLifecycle.tla.                                       *)

Statuses == [id \in OrderId |-> StatusOf(id)]
Fills == [id \in OrderId |-> FilledOf(id)]

(* Replacing one order moves one status and one executed quantity.         *)
LEMMA ReplaceMaps ==
  ASSUME IInv, NEW id \in DOMAIN orders, NEW o, orders' = [orders EXCEPT ![id] = o]
  PROVE  /\ id \in OrderId
         /\ Statuses[id] = orders[id].state /\ Fills[id] = orders[id].filled_qty
         /\ Statuses' = [Statuses EXCEPT ![id] = o.state]
         /\ Fills' = [Fills EXCEPT ![id] = o.filled_qty]
<1>1. DOMAIN orders' = DOMAIN orders /\ DOMAIN orders \subseteq OrderId
  BY DEF IInv, Good
<1>2. \A x \in OrderId : StatusOf(x)' = IF x = id THEN o.state ELSE StatusOf(x)
  BY <1>1 DEF StatusOf
<1>3. \A x \in OrderId : FilledOf(x)' = IF x = id THEN o.filled_qty ELSE FilledOf(x)
  BY <1>1 DEF FilledOf
<1> QED BY <1>1, <1>2, <1>3 DEF Statuses, Fills, StatusOf, FilledOf

(* A state change without a fill is a move of the abstract life.           *)
LEMMA MoveMaps ==
  ASSUME IInv, NEW id \in OrderId, NEW to \in {"Ack", "Canceled", "Rejected"}, NEW ts \in Nat,
         May(orders, id, to),
         orders' = [orders EXCEPT ![id].state = to, ![id].updated_at = ts]
  PROVE  Life!Step(id)
<1> DEFINE o == [orders[id] EXCEPT !.state = to, !.updated_at = ts]
<1>1. id \in DOMAIN orders /\ orders[id] \in LiveOrder
  BY DEF May, IInv, Good
<1>2. orders' = [orders EXCEPT ![id] = o]
  BY <1>1
<1>3. o.state = to /\ o.filled_qty = orders[id].filled_qty
  BY <1>1 DEF LiveOrder
<1> HIDE DEF o
<1>4. /\ Statuses[id] = orders[id].state /\ Fills[id] = orders[id].filled_qty
      /\ Statuses' = [Statuses EXCEPT ![id] = to]
      /\ Fills' = [Fills EXCEPT ![id] = orders[id].filled_qty]
  <2>1. /\ Statuses[id] = orders[id].state /\ Fills[id] = orders[id].filled_qty
        /\ Statuses' = [Statuses EXCEPT ![id] = o.state]
        /\ Fills' = [Fills EXCEPT ![id] = o.filled_qty]
    BY <1>1, <1>2, ReplaceMaps, Zenon
  <2> QED BY <1>3, <2>1
<1>5. Fills' = Fills
  BY <1>4 DEF Fills
<1>6. CanTransitionTo(orders[id].state, to)
  BY DEF May
<1> QED BY <1>4, <1>5, <1>6
     DEF CanTransitionTo, Life!Step, Life!Acknowledge, Life!Cancel, Life!Reject, Life!Move,
         Life!Working, Statuses, Fills

(* A fill the tracker takes is a fill of the abstract life.                *)
LEMMA FillMaps ==
  ASSUME IInv, NEW id \in DOMAIN orders, NEW qty \in Nat, NEW ts \in Nat,
         CanTransitionTo(orders[id].state, FillTarget(orders[id], qty)),
         orders' = [orders EXCEPT ![id] = FillOrder(orders[id], qty, ts)]
  PROVE  Life!Step(id)
<1> DEFINE o == FillOrder(orders[id], qty, ts)
<1>1. orders[id] \in LiveOrder /\ orders[id].filled_qty \in Nat /\ id \in OrderId
  BY DEF IInv, Good, LiveOrder
<1>2. /\ o.state = FillTarget(orders[id], qty)
      /\ o.filled_qty = orders[id].filled_qty + qty
  BY <1>1 DEF FillOrder, LiveOrder
<1>3. o.state \in {"PartialFill", "Filled"}
  BY <1>2 DEF FillTarget
<1>4. orders[id].state \in {"Ack", "PartialFill"}
  BY <1>2, <1>3 DEF CanTransitionTo
<1>5. /\ Statuses[id] = orders[id].state /\ Fills[id] = orders[id].filled_qty
      /\ Statuses' = [Statuses EXCEPT ![id] = o.state]
      /\ Fills' = [Fills EXCEPT ![id] = o.filled_qty]
  BY ReplaceMaps
<1>6. Life!Move(id, Life!Working, o.state)
  BY <1>4, <1>5 DEF Life!Move, Life!Working, Statuses
<1> HIDE DEF o
<1>7. Fills'[id] >= Fills[id] /\ \A j \in OrderId \ {id} : Fills'[j] = Fills[j]
  <2>1. Fills'[id] = o.filled_qty
    BY <1>1, <1>5 DEF Fills
  <2>2. o.filled_qty >= orders[id].filled_qty
    BY <1>1, <1>2
  <2> QED BY <1>5, <2>1, <2>2 DEF Fills
<1>8. Life!Fill(id)
  BY <1>3, <1>6, <1>7 DEF Life!Fill, Fills
<1> QED BY <1>8 DEF Life!Step

(* A registration creates an order or, for a known id, changes nothing.    *)
LEMMA RegisterMaps ==
  ASSUME IInv, NEW id \in OrderId, NEW side, NEW qty, NEW ts,
         orders' = RegisterOrder(orders, id, NewOrder(side, qty, ts))
  PROVE  Life!Step(id) \/ UNCHANGED orders
<1>1. CASE id \in DOMAIN orders
  BY <1>1 DEF RegisterOrder
<1>2. CASE id \notin DOMAIN orders
  <2>1. /\ DOMAIN orders' = DOMAIN orders \cup {id}
        /\ orders'[id] = NewOrder(side, qty, ts)
        /\ \A x \in DOMAIN orders : orders'[x] = orders[x]
    BY <1>2 DEF RegisterOrder
  <2>2. \A x \in OrderId : StatusOf(x)' = IF x = id THEN "New" ELSE StatusOf(x)
    BY <1>2, <2>1 DEF StatusOf, NewOrder
  <2>3. \A x \in OrderId : FilledOf(x)' = FilledOf(x)
    BY <1>2, <2>1 DEF FilledOf, NewOrder
  <2>4. Statuses[id] = "Unknown" /\ Statuses' = [Statuses EXCEPT ![id] = "New"]
    BY <1>2, <2>2 DEF Statuses, StatusOf
  <2>5. Fills' = Fills
    BY <2>3 DEF Fills
  <2>6. Life!Create(id)
    BY <2>4, <2>5 DEF Life!Create, Life!Move, Statuses, Fills
  <2> QED BY <2>6 DEF Life!Step
<1> QED BY <1>1, <1>2

(* process_event is one move of one order, or changes nothing.             *)
LEMMA ProcessMaps ==
  ASSUME IInv, NEW e \in Event, orders' = ProcessEvent(orders, e)
  PROVE  Life!Step(e.id) \/ UNCHANGED orders
<1>0. e.kind \in EventKind /\ e.id \in OrderId /\ e.qty \in Nat /\ e.ts \in Nat
  BY DEF Event
<1>1. CASE e.kind = "OrderNew"
  BY <1>0, <1>1, RegisterMaps DEF ProcessEvent
<1>2. CASE e.kind = "OrderAck"
  BY <1>0, <1>2, MoveMaps DEF ProcessEvent, OnAck
<1>3. CASE e.kind \in {"OrderFill", "OrderPartialFill"}
  BY <1>0, <1>3, FillMaps DEF ProcessEvent, OnFill
<1>4. CASE e.kind = "OrderCancel"
  BY <1>0, <1>4, MoveMaps DEF ProcessEvent, OnCancel
<1>5. CASE e.kind = "OrderReject"
  BY <1>0, <1>5, MoveMaps DEF ProcessEvent, OnReject
<1>6. CASE e.kind = "Other"
  BY <1>6 DEF ProcessEvent
<1> QED BY <1>0, <1>1, <1>2, <1>3, <1>4, <1>5, <1>6 DEF EventKind

(* gc_terminal forgets the terminal orders.                                *)
LEMMA CollectMaps == IInv /\ Collect => Life!Forget
<1> SUFFICES ASSUME IInv, Collect PROVE Life!Forget
  OBVIOUS
<1>1. /\ DOMAIN orders' = OpenOrderIds(orders)
      /\ \A x \in OpenOrderIds(orders) : orders'[x] = orders[x]
  BY DEF Collect, GcTerminal
<1>2. \A x \in DOMAIN orders : orders[x].state # "Unknown" /\ orders[x].state \in OrderState
  BY DEF IInv, Good, LiveOrder, OrderState
<1>3. \A x \in OrderId :
        StatusOf(x)' = IF StatusOf(x) \in Life!Terminal THEN "Unknown" ELSE StatusOf(x)
  BY <1>1, <1>2 DEF StatusOf, OpenOrderIds, Terminal, Life!Terminal
<1>4. \A x \in OrderId :
        FilledOf(x)' = IF StatusOf(x) \in Life!Terminal THEN 0 ELSE FilledOf(x)
  BY <1>1, <1>2 DEF FilledOf, StatusOf, OpenOrderIds, Terminal, Life!Terminal
<1> QED BY <1>3, <1>4 DEF Life!Forget

(* Initial states map to initial states.                                   *)
LEMMA InitMaps == Init => Life!Init
BY DEF Init, Life!Init, StatusOf, FilledOf

(* Every step maps to a step or a stutter.                                 *)
LEMMA StepMaps == IInv /\ [Next]_vars => [Life!Next]_(Life!lifeVars)
<1> SUFFICES ASSUME IInv, [Next]_vars PROVE [Life!Next]_(Life!lifeVars)
  OBVIOUS
<1>0. ASSUME UNCHANGED orders PROVE UNCHANGED Life!lifeVars
  BY <1>0 DEF Life!lifeVars, StatusOf, FilledOf
<1>1. ASSUME NEW v \in Venues, NEW s \in Sides, NEW q \in OrderQtys, NEW t \in Times,
             PlaceOrder(v, s, q, t)
      PROVE  [Life!Next]_(Life!lifeVars)
  <2>1. PICK id \in OrderId : id = LocalOrderId(v, next_local_id)
    BY <1>1, EngineAssumption DEF EngineAssumption, IInv, PlaceOrder, LocalOrderId, OrderId
  <2>2. Life!Step(id) \/ UNCHANGED orders
    BY <1>1, <2>1, RegisterMaps DEF PlaceOrder
  <2> QED BY <1>0, <2>1, <2>2 DEF Life!Next
<1>2. ASSUME NEW e \in InputEvents, HandleEvent(e) PROVE [Life!Next]_(Life!lifeVars)
  <2>1. e \in Event /\ e.id \in OrderId
    BY InputsAreEvents DEF Event
  <2>2. Life!Step(e.id) \/ UNCHANGED orders
    BY <1>2, <2>1, ProcessMaps DEF HandleEvent
  <2> QED BY <1>0, <2>1, <2>2 DEF Life!Next
<1>3. CASE Collect
  BY <1>3, CollectMaps DEF Life!Next
<1>4. CASE UNCHANGED vars
  BY <1>0, <1>4 DEF vars
<1> QED BY <1>1, <1>2, <1>3, <1>4 DEF Next

(* The tracker implements the order life.                                  *)
THEOREM TrackerImplementsLife == Spec => ImplementsLife
BY Invariance, InitMaps, StepMaps, PTL DEF Spec, ImplementsLife, Life!Spec
=============================================================================
