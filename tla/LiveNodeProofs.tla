----------------------------- MODULE LiveNodeProofs ---------------------------
(***************************************************************************)
(* LiveNode.tla for every order size, limit, set of gateways and number of *)
(* orders, with and without faults: types, what is known before it is      *)
(* sent, the count of open orders, and that over REST alone the tracker    *)
(* never runs ahead of the exchange.                                       *)
(***************************************************************************)
EXTENDS LiveNode, FiniteSetTheorems, TLAPS

-----------------------------------------------------------------------------
(* The invariants and their strengthenings.                                *)

(* Every order has the configured size, nothing is executed before the     *)
(* acknowledgement.                                                        *)
SoundOrder(o) == /\ o.original_qty = OrderQty
                 /\ o.state = "New" => o.filled_qty = 0

SoundOrders == \A id \in DOMAIN orders : SoundOrder(orders[id])

(* A submit under way has had no answer and no effect.                     *)
RestRequests ==
  \A id \in Ids : Submit(id) \in requests =>
    /\ id \notin DOMAIN exchange /\ id \notin cancel_reply
    /\ submit_reply[id] = <<>>
    /\ orders[id].state = "New"

(* A reply is about its own order.  The fill in it comes last, was         *)
(* executed, and is the first the tracker hears of.                        *)
RestReply(id, i, e) ==
  /\ e.id = id /\ e.kind \in {"OrderAck", "OrderFill", "OrderReject"}
  /\ e.kind = "OrderFill" =>
       /\ i = Len(submit_reply[id])
       /\ id \in DOMAIN exchange /\ e.qty <= exchange[id].executed
       /\ orders[id].filled_qty = 0

RestReplies ==
  \A id \in Ids : \A i \in 1 .. Len(submit_reply[id]) : RestReply(id, i, submit_reply[id][i])

(* A successful cancel closed its order.                                   *)
RestCancels == \A id \in cancel_reply : id \in DOMAIN exchange /\ ~exchange[id].open

(* An order open at the exchange is not completely executed.               *)
RestExchange == \A id \in DOMAIN exchange : exchange[id].open => exchange[id].executed < OrderQty

RestInv ==
  gateway = "rest" => /\ stream = <<>>
                      /\ RestRequests /\ RestReplies /\ RestCancels /\ RestExchange

(* What is inductive beside the types: KnownInv by itself, and RestSound   *)
(* where KnownInv holds.                                                   *)
KnownInv == ExchangeOrdersKnown /\ SoundOrders

RestSound == RestInv /\ RestNeverAhead

-----------------------------------------------------------------------------
(* Constants, ids, events.                                                 *)

(* What the proofs use of the assumption on the constants.                 *)
LEMMA Constants ==
  /\ OrderQty \in Nat /\ OrderQty > 0
  /\ MaxOpenOrders \in Nat
  /\ MaxLocalId \in Nat
  BY LiveAssumption DEF LiveAssumption

(* There are finitely many ids.                                            *)
LEMMA IdsFinite == IsFiniteSet(Ids)
<1>1. IsFiniteSet(1 .. MaxLocalId)
  BY Constants, FS_Interval
<1>2. IsFiniteSet({Venue} \X (1 .. MaxLocalId))
  BY <1>1, FS_Singleton, FS_Product
<1>3. Ids = {Venue} \X (1 .. MaxLocalId)
  BY DEF Ids, Id, Eng!LocalOrderId
<1> QED
  BY <1>2, <1>3

(* The tracker's ids are these ids.                                        *)
LEMMA IdsAreOrderIds == Eng!OrderId = Ids
  BY DEF Eng!OrderId, Ids, Id, Eng!LocalOrderId

(* Different numbers make different ids.                                   *)
LEMMA IdInjective ==
  ASSUME NEW m, NEW n
  PROVE  Id(m) = Id(n) => m = n
  BY DEF Id, Eng!LocalOrderId

(* The events that travel are about an order, and a fill is of something.  *)
LEMMA EventFields ==
  ASSUME NEW e \in Events
  PROVE  /\ e.kind \in {"OrderAck", "OrderFill", "OrderCancel", "OrderReject"}
         /\ e.id \in Ids /\ e.ts = 0
         /\ e.qty \in Nat
  BY Constants DEF Events, Event

(* The three kinds of event.                                               *)
LEMMA EventsMade ==
  ASSUME NEW id \in Ids
  PROVE  /\ \A k \in {"OrderAck", "OrderCancel", "OrderReject"} : Event(k, id, 0) \in Events
         /\ \A q \in 1 .. OrderQty : Event("OrderFill", id, q) \in Events
  BY DEF Events

(* Requests are told apart.                                                *)
LEMMA RequestsDiffer ==
  ASSUME NEW id, NEW other
  PROVE  /\ Submit(id) # Cancel(other) /\ Submit(id) # CancelAll /\ Cancel(id) # CancelAll
         /\ Submit(id) = Submit(other) => id = other
         /\ Cancel(id) = Cancel(other) => id = other
  BY DEF Submit, Cancel, CancelAll

-----------------------------------------------------------------------------
(* What process_event does to the order map.                               *)

Tracked(os) == os \in [DOMAIN os -> Eng!LiveOrder]

(* What may become of the order an event is about.                         *)
Moved(o, e, m) ==
  /\ m \in Eng!LiveOrder
  /\ m.original_qty = o.original_qty
  /\ \/ m = o
     \/ /\ e.kind = "OrderAck" /\ o.state = "New"
        /\ m.state = "Ack" /\ m.filled_qty = o.filled_qty
     \/ /\ e.kind = "OrderReject" /\ o.state = "New"
        /\ m.state = "Rejected" /\ m.filled_qty = o.filled_qty
     \/ /\ e.kind = "OrderCancel" /\ o.state \in {"Ack", "PartialFill"}
        /\ m.state = "Canceled" /\ m.filled_qty = o.filled_qty
     \/ /\ e.kind = "OrderFill" /\ o.state \in {"Ack", "PartialFill"}
        /\ m.filled_qty = o.filled_qty + e.qty
        /\ m.state = IF m.filled_qty >= o.original_qty THEN "Filled" ELSE "PartialFill"

(* A change of state and time moves an order to that state.                *)
LEMMA StateSet ==
  ASSUME NEW o \in Eng!LiveOrder, NEW to \in Eng!OrderState
  PROVE  LET m == [o EXCEPT !.state = to, !.updated_at = 0]
         IN  /\ m \in Eng!LiveOrder
             /\ m.original_qty = o.original_qty /\ m.filled_qty = o.filled_qty
             /\ m.state = to
  BY DEF Eng!LiveOrder

(* A fill adds to what is filled.                                          *)
LEMMA FillAdds ==
  ASSUME NEW o \in Eng!LiveOrder, NEW qty \in Nat
  PROVE  LET m == Eng!FillOrder(o, qty, 0)
         IN  /\ m \in Eng!LiveOrder
             /\ m.original_qty = o.original_qty /\ m.filled_qty = o.filled_qty + qty
             /\ m.state = Eng!FillTarget(o, qty)
<1> DEFINE filled == o.filled_qty + qty
           left == Eng!Minus(o.original_qty, filled)
           to == Eng!FillTarget(o, qty)
           m == [o EXCEPT !.filled_qty = filled, !.remaining_qty = left, !.state = to, !.updated_at = 0]
<1>1. filled \in Nat /\ left \in Nat /\ to \in Eng!OrderState
  BY DEF Eng!LiveOrder, Eng!Minus, Eng!FillTarget, Eng!OrderState
<1>2. Eng!FillOrder(o, qty, 0) = m
  BY DEF Eng!FillOrder
<1> HIDE DEF filled, left, to
<1>3. /\ m \in Eng!LiveOrder
      /\ m.original_qty = o.original_qty /\ m.filled_qty = filled /\ m.state = to
  BY <1>1 DEF Eng!LiveOrder
<1> QED
  BY <1>2, <1>3 DEF filled, to

(* process_event touches the order the event is about, if it is there.     *)
Handled(os, e, n) ==
  /\ DOMAIN n = DOMAIN os /\ Tracked(n)
  /\ \A id \in DOMAIN os : id # e.id => n[id] = os[id]
  /\ e.id \in DOMAIN os => Moved(os[e.id], e, n[e.id])

(* Leaving the map alone, or replacing the one order by a moved one.       *)
LEMMA HandledSame ==
  ASSUME NEW os, Tracked(os), NEW e
  PROVE  Handled(os, e, os)
  BY DEF Handled, Tracked, Moved

LEMMA HandledOne ==
  ASSUME NEW os, Tracked(os), NEW e, e.id \in DOMAIN os, NEW m, Moved(os[e.id], e, m)
  PROVE  Handled(os, e, [os EXCEPT ![e.id] = m])
  BY DEF Handled, Tracked, Moved

LEMMA ProcessHandles ==
  ASSUME NEW os, Tracked(os), NEW e \in Events
  PROVE  Handled(os, e, Eng!ProcessEvent(os, e))
<1> DEFINE o == os[e.id]
<1>1. e.kind \in {"OrderAck", "OrderFill", "OrderCancel", "OrderReject"} /\ e.ts = 0 /\ e.qty \in Nat
  BY EventFields
<1>2. CASE e.kind = "OrderAck"
  <2>1. Eng!ProcessEvent(os, e) = Eng!OnAck(os, e.id, 0)
    BY <1>1, <1>2 DEF Eng!ProcessEvent
  <2>2. CASE Eng!May(os, e.id, "Ack")
    <3> DEFINE m == [o EXCEPT !.state = "Ack", !.updated_at = 0]
    <3>1. Eng!OnAck(os, e.id, 0) = [os EXCEPT ![e.id] = m]
      BY <2>2 DEF Eng!OnAck, Eng!May
    <3>2. e.id \in DOMAIN os /\ o \in Eng!LiveOrder /\ o.state = "New"
      BY <2>2 DEF Eng!May, Eng!CanTransitionTo, Tracked
    <3>3. Moved(o, e, m)
      BY <1>2, <3>2, StateSet DEF Moved, Eng!OrderState
    <3> HIDE DEF m, o
    <3> QED
      BY <2>1, <3>1, <3>2, <3>3, HandledOne DEF o
  <2>3. CASE ~Eng!May(os, e.id, "Ack")
    BY <2>1, <2>3, HandledSame DEF Eng!OnAck
  <2> QED
    BY <2>2, <2>3
<1>3. CASE e.kind = "OrderReject"
  <2>1. Eng!ProcessEvent(os, e) = Eng!OnReject(os, e.id, 0)
    BY <1>1, <1>3 DEF Eng!ProcessEvent
  <2>2. CASE Eng!May(os, e.id, "Rejected")
    <3> DEFINE m == [o EXCEPT !.state = "Rejected", !.updated_at = 0]
    <3>1. Eng!OnReject(os, e.id, 0) = [os EXCEPT ![e.id] = m]
      BY <2>2 DEF Eng!OnReject, Eng!May
    <3>2. e.id \in DOMAIN os /\ o \in Eng!LiveOrder /\ o.state = "New"
      BY <2>2 DEF Eng!May, Eng!CanTransitionTo, Tracked
    <3>3. Moved(o, e, m)
      BY <1>3, <3>2, StateSet DEF Moved, Eng!OrderState
    <3> HIDE DEF m, o
    <3> QED
      BY <2>1, <3>1, <3>2, <3>3, HandledOne DEF o
  <2>3. CASE ~Eng!May(os, e.id, "Rejected")
    BY <2>1, <2>3, HandledSame DEF Eng!OnReject
  <2> QED
    BY <2>2, <2>3
<1>4. CASE e.kind = "OrderCancel"
  <2>1. Eng!ProcessEvent(os, e) = Eng!OnCancel(os, e.id, 0)
    BY <1>1, <1>4 DEF Eng!ProcessEvent
  <2>2. CASE Eng!May(os, e.id, "Canceled")
    <3> DEFINE m == [o EXCEPT !.state = "Canceled", !.updated_at = 0]
    <3>1. Eng!OnCancel(os, e.id, 0) = [os EXCEPT ![e.id] = m]
      BY <2>2 DEF Eng!OnCancel, Eng!May
    <3>2. e.id \in DOMAIN os /\ o \in Eng!LiveOrder /\ o.state \in {"Ack", "PartialFill"}
      BY <2>2 DEF Eng!May, Eng!CanTransitionTo, Tracked
    <3>3. Moved(o, e, m)
      BY <1>4, <3>2, StateSet DEF Moved, Eng!OrderState
    <3> HIDE DEF m, o
    <3> QED
      BY <2>1, <3>1, <3>2, <3>3, HandledOne DEF o
  <2>3. CASE ~Eng!May(os, e.id, "Canceled")
    BY <2>1, <2>3, HandledSame DEF Eng!OnCancel
  <2> QED
    BY <2>2, <2>3
<1>5. CASE e.kind = "OrderFill"
  <2>1. Eng!ProcessEvent(os, e) = Eng!OnFill(os, e.id, e.qty, 0)
    BY <1>1, <1>5 DEF Eng!ProcessEvent
  <2> DEFINE fills == e.id \in DOMAIN os /\ Eng!CanTransitionTo(o.state, Eng!FillTarget(o, e.qty))
  <2>2. CASE fills
    <3> DEFINE m == Eng!FillOrder(o, e.qty, 0)
    <3>1. Eng!OnFill(os, e.id, e.qty, 0) = [os EXCEPT ![e.id] = m]
      BY <2>2 DEF Eng!OnFill
    <3>2. e.id \in DOMAIN os /\ o \in Eng!LiveOrder
      BY <2>2 DEF Tracked
    <3>3. o.state \in {"Ack", "PartialFill"}
      BY <2>2 DEF Eng!CanTransitionTo, Eng!FillTarget
    <3>4. /\ m \in Eng!LiveOrder
          /\ m.original_qty = o.original_qty /\ m.filled_qty = o.filled_qty + e.qty
          /\ m.state = Eng!FillTarget(o, e.qty)
      BY <1>1, <3>2, FillAdds
    <3>5. m.state = IF m.filled_qty >= o.original_qty THEN "Filled" ELSE "PartialFill"
      BY <3>4 DEF Eng!FillTarget
    <3> HIDE DEF m, o
    <3>6. Moved(o, e, m)
      BY <1>5, <3>3, <3>4, <3>5 DEF Moved
    <3> QED
      BY <2>1, <3>1, <3>2, <3>6, HandledOne DEF o
  <2>3. CASE ~fills
    BY <2>1, <2>3, HandledSame DEF Eng!OnFill
  <2> QED
    BY <2>2, <2>3
<1> QED
  BY <1>1, <1>2, <1>3, <1>4, <1>5

-----------------------------------------------------------------------------
(* Types.                                                                  *)

Requests == { Submit(id) : id \in Ids } \cup { Cancel(id) : id \in Ids } \cup {CancelAll}

ExchangeTyped == /\ DOMAIN exchange \subseteq Ids
                 /\ exchange \in [DOMAIN exchange -> [executed: 0 .. OrderQty, open: BOOLEAN]]

RepliesTyped == submit_reply \in [Ids -> Seq(Events)] /\ cancel_reply \subseteq Ids
                  /\ stream \in Seq(Events)

(* The parts of the type invariant.                                        *)
LEMMA TypeParts ==
  TypeOK <=> /\ Eng!TypeOK
             /\ open_order_count \in Nat /\ kill_switch \in BOOLEAN
             /\ commands \in Seq({"place", "cancel_all"})
             /\ phase \in {"running", "draining", "stopped"} /\ drain \subseteq Ids
             /\ kill_action \in {"none"} \cup KillActions
             /\ gateway \in Gateways
             /\ requests \subseteq Requests
             /\ RepliesTyped
             /\ ExchangeTyped
             /\ unreadable \subseteq Ids
  BY DEF TypeOK, Requests, RepliesTyped, ExchangeTyped

(* There are finitely many open orders.                                    *)
LEMMA OpenFinite ==
  ASSUME TypeOK
  PROVE  Open \subseteq Ids /\ IsFiniteSet(Open) /\ Cardinality(Open) \in Nat
<1>1. Open \subseteq DOMAIN orders
  BY DEF Open, Eng!OpenOrderIds
<1>2. DOMAIN orders \subseteq Ids
  BY IdsAreOrderIds DEF TypeOK, Eng!TypeOK
<1> QED
  BY <1>1, <1>2, IdsFinite, FS_Subset, FS_CardinalityType

(* Saturating subtraction stays a number and does not grow.                *)
LEMMA MinusBelow ==
  ASSUME NEW a \in Nat, NEW b \in Nat
  PROVE  /\ Eng!Minus(a, b) \in Nat /\ Eng!Minus(a, b) <= a
         /\ Eng!Minus(a, 1) \in Nat /\ (a > 0 => Eng!Minus(a, 1) = a - 1) /\ (a = 0 => Eng!Minus(a, 1) = 0)
  BY DEF Eng!Minus

(* A cancel of everything asks for one request or lowers the count.        *)
LEMMA CancelEverythingEffect ==
  ASSUME TypeOK, CancelEverything
  PROVE  /\ open_order_count' \in Nat /\ open_order_count' <= open_order_count
         /\ requests' = requests \/ requests' = requests \cup {CancelAll}
<1>1. open_order_count \in Nat
  BY DEF TypeOK
<1>2. CASE gateway # "paper"
  BY <1>1, <1>2 DEF CancelEverything
<1>3. CASE gateway = "paper"
  BY <1>1, <1>3, OpenFinite, MinusBelow DEF CancelEverything
<1> QED
  BY <1>2, <1>3

(* Registering a fresh order.                                              *)
LEMMA PlaceEffect ==
  ASSUME TypeOK, ExecutePlace
  PROVE  /\ next_local_id \in Nat /\ next_local_id' = next_local_id + 1
         /\ Id(next_local_id) \in Ids
         /\ Tracked(orders) /\ Eng!TypeOK'
         /\ Id(next_local_id) \notin DOMAIN orders =>
              /\ DOMAIN orders' = DOMAIN orders \cup {Id(next_local_id)}
              /\ \A id \in DOMAIN orders : orders'[id] = orders[id]
              /\ LET o == orders'[Id(next_local_id)]
                 IN  o.state = "New" /\ o.original_qty = OrderQty /\ o.filled_qty = 0
<1> DEFINE n == Id(next_local_id)
           o == Eng!NewOrder("Any", OrderQty, 0)
<1>1. /\ next_local_id \in 1 .. MaxLocalId + 1 /\ next_local_id <= MaxLocalId
      /\ next_local_id' = next_local_id + 1
      /\ orders' = Eng!RegisterOrder(orders, n, o)
  BY DEF TypeOK, Eng!TypeOK, ExecutePlace, Eng!PlaceOrder, Id
<1>2. next_local_id \in Nat /\ next_local_id' \in 1 .. MaxLocalId + 1 /\ n \in Ids
  BY <1>1, Constants DEF Ids
<1>3. DOMAIN orders \subseteq Ids /\ Tracked(orders)
  BY IdsAreOrderIds DEF TypeOK, Eng!TypeOK, Tracked
<1>4. /\ o \in Eng!LiveOrder
      /\ o.state = "New" /\ o.original_qty = OrderQty /\ o.filled_qty = 0
  BY Constants DEF Eng!NewOrder, Eng!LiveOrder, Eng!OrderState
<1> HIDE DEF n, o
<1>5. CASE n \in DOMAIN orders
  <2>1. orders' = orders
    BY <1>1, <1>5 DEF Eng!RegisterOrder
  <2>2. Eng!TypeOK'
    BY <1>2, <1>3, <2>1, IdsAreOrderIds DEF Eng!TypeOK, Tracked
  <2> QED
    BY <1>1, <1>2, <1>3, <1>5, <2>2 DEF n
<1>6. CASE n \notin DOMAIN orders
  <2>1. orders' = [x \in DOMAIN orders \cup {n} |-> IF x = n THEN o ELSE orders[x]]
    BY <1>1, <1>6 DEF Eng!RegisterOrder
  <2>2. /\ DOMAIN orders' = DOMAIN orders \cup {n} /\ orders'[n] = o
        /\ \A id \in DOMAIN orders : orders'[id] = orders[id]
    BY <1>6, <2>1
  <2>3. orders' \in [DOMAIN orders' -> Eng!LiveOrder]
    BY <1>3, <1>4, <2>1 DEF Tracked
  <2>4. Eng!TypeOK'
    BY <1>2, <1>3, <2>2, <2>3, IdsAreOrderIds DEF Eng!TypeOK
  <2> QED
    BY <1>1, <1>2, <1>3, <1>4, <2>2, <2>4 DEF n
<1> QED
  BY <1>5, <1>6

(* A handled event changes one order by process_event, and the count.      *)
LEMMA HandleEffect ==
  ASSUME TypeOK, NEW e \in Events, HandleGatewayEvent(e)
  PROVE  /\ Handled(orders, e, orders') /\ Tracked(orders) /\ Eng!TypeOK'
         /\ open_order_count' \in Nat
<1>1. Tracked(orders) /\ DOMAIN orders \subseteq Ids /\ open_order_count \in Nat
      /\ next_local_id \in 1 .. MaxLocalId + 1
  BY IdsAreOrderIds DEF TypeOK, Eng!TypeOK, Tracked
<1>2. orders' = Eng!ProcessEvent(orders, e) /\ next_local_id' = next_local_id
      /\ open_order_count' \in {open_order_count, Eng!Minus(open_order_count, 1)}
  BY DEF HandleGatewayEvent
<1>3. Handled(orders, e, orders')
  BY <1>1, <1>2, ProcessHandles
<1>4. Eng!TypeOK'
  BY <1>1, <1>2, <1>3, IdsAreOrderIds DEF Handled, Tracked, Eng!TypeOK
<1> QED
  BY <1>1, <1>2, <1>3, <1>4, MinusBelow

(* The sequences of events that replies and reports are made of.           *)
LEMMA SeqOfOne ==
  ASSUME NEW S, NEW a \in S
  PROVE  <<a>> \in Seq(S)
  OBVIOUS

LEMMA RepliesAreEvents ==
  ASSUME NEW id \in Ids, NEW k \in 0 .. OrderQty
  PROVE  /\ AckReply(id, k) \in Seq(Events) /\ RejectReply(id) \in Seq(Events)
         /\ (IF k > 0 THEN <<Event("OrderFill", id, k)>> ELSE <<>>) \in Seq(Events)
         /\ <<Event("OrderCancel", id, 0)>> \in Seq(Events)
<1> DEFINE ack == Event("OrderAck", id, 0)
           fill == Event("OrderFill", id, k)
<1>1. /\ ack \in Events /\ Event("OrderReject", id, 0) \in Events /\ Event("OrderCancel", id, 0) \in Events
      /\ k > 0 => fill \in Events
  BY EventsMade, Constants
<1>2. <<ack>> \in Seq(Events) /\ RejectReply(id) \in Seq(Events)
      /\ <<Event("OrderCancel", id, 0)>> \in Seq(Events)
  BY <1>1, SeqOfOne DEF RejectReply
<1>3. (IF k > 0 THEN <<fill>> ELSE <<>>) \in Seq(Events)
  BY <1>1, SeqOfOne
<1> DEFINE rest == IF k > 0 THEN <<fill>> ELSE <<>>
<1>4. AckReply(id, k) = <<ack>> \o rest
  BY DEF AckReply
<1> HIDE DEF ack, fill, rest
<1>5. AckReply(id, k) \in Seq(Events)
  BY <1>2, <1>3, <1>4 DEF rest
<1> QED
  BY <1>2, <1>3, <1>5 DEF fill

(* Reports and replies go where they belong, if somebody reads them.       *)
LEMMA EmitTyped ==
  ASSUME TypeOK, NEW events \in Seq(Events), Emit(events)
  PROVE  stream' \in Seq(Events)
<1>1. stream \in Seq(Events)
  BY DEF TypeOK
<1>2. CASE stream' = stream
  BY <1>1, <1>2
<1>3. CASE stream' = stream \o events
  BY <1>1, <1>3
<1> QED
  BY <1>2, <1>3 DEF Emit

LEMMA AnswerTyped ==
  ASSUME TypeOK, NEW id \in Ids, NEW events \in Seq(Events), Answer(id, events)
  PROVE  submit_reply' \in [Ids -> Seq(Events)]
<1>1. submit_reply \in [Ids -> Seq(Events)]
  BY DEF TypeOK
<1>2. submit_reply' = [submit_reply EXCEPT ![id] = events] \/ submit_reply' = submit_reply
  BY DEF Answer
<1> QED
  BY <1>1, <1>2

(* Closing orders changes nothing else of them.                            *)
LEMMA CloseEffect ==
  ASSUME ExchangeTyped, NEW ids, exchange' = Close(ids)
  PROVE  /\ ExchangeTyped'
         /\ DOMAIN exchange' = DOMAIN exchange
         /\ \A id \in DOMAIN exchange :
              /\ exchange'[id].executed = exchange[id].executed
              /\ exchange'[id].open => exchange[id].open /\ id \notin ids
<1>1. exchange' = [x \in DOMAIN exchange |->
                     IF x \in ids THEN [exchange[x] EXCEPT !.open = FALSE] ELSE exchange[x]]
  BY DEF Close
<1>2. \A x \in DOMAIN exchange :
        /\ exchange[x] \in [executed: 0 .. OrderQty, open: BOOLEAN]
        /\ [exchange[x] EXCEPT !.open = FALSE] \in [executed: 0 .. OrderQty, open: BOOLEAN]
        /\ [exchange[x] EXCEPT !.open = FALSE].executed = exchange[x].executed
        /\ ~[exchange[x] EXCEPT !.open = FALSE].open
  BY DEF ExchangeTyped
<1>3. DOMAIN exchange' = DOMAIN exchange
  BY <1>1
<1>4. \A x \in DOMAIN exchange :
        exchange'[x] = IF x \in ids THEN [exchange[x] EXCEPT !.open = FALSE] ELSE exchange[x]
  BY <1>1
<1>5. \A x \in DOMAIN exchange : exchange'[x] \in [executed: 0 .. OrderQty, open: BOOLEAN]
  BY <1>2, <1>4
<1>6. ExchangeTyped'
  BY <1>1, <1>3, <1>5 DEF ExchangeTyped
<1> QED
  BY <1>2, <1>3, <1>4, <1>6

(* What the exchange knows of an order.                                    *)
LEMMA OrderRecord ==
  ASSUME NEW n \in 0 .. OrderQty, NEW b \in BOOLEAN
  PROVE  LET r == [executed |-> n, open |-> b]
         IN  r \in [executed: 0 .. OrderQty, open: BOOLEAN] /\ r.executed = n /\ r.open = b
  OBVIOUS

(* An accepted order is at the exchange, the others as they were.          *)
LEMMA AcceptEffect ==
  ASSUME TypeOK, NEW id \in Ids, NEW k \in 0 .. OrderQty, Accept(id, k)
  PROVE  /\ requests' = requests \ {Submit(id)} /\ cancel_reply' = cancel_reply
         /\ stream' \in Seq(Events)
         /\ ExchangeTyped'
         /\ DOMAIN exchange' = DOMAIN exchange \cup {id}
         /\ exchange'[id].executed = k /\ (exchange'[id].open => k < OrderQty)
         /\ \A x \in DOMAIN exchange : x # id => exchange'[x] = exchange[x]
<1> DEFINE new == [executed |-> k, open |-> k < OrderQty]
<1>1. /\ requests' = requests \ {Submit(id)} /\ cancel_reply' = cancel_reply
      /\ exchange' = [x \in DOMAIN exchange \cup {id} |-> IF x = id THEN new ELSE exchange[x]]
      /\ Emit(IF k > 0 THEN <<Event("OrderFill", id, k)>> ELSE <<>>)
  BY DEF Accept
<1>2. stream' \in Seq(Events)
  BY <1>1, RepliesAreEvents, EmitTyped
<1>3. /\ new \in [executed: 0 .. OrderQty, open: BOOLEAN]
      /\ new.executed = k /\ (new.open => k < OrderQty)
  <2> DEFINE b == k < OrderQty
  <2>1. b \in BOOLEAN
    OBVIOUS
  <2> HIDE DEF b
  <2>2. LET r == [executed |-> k, open |-> b]
        IN  r \in [executed: 0 .. OrderQty, open: BOOLEAN] /\ r.executed = k /\ r.open = b
    BY <2>1, OrderRecord
  <2> QED
    BY <2>2 DEF b
<1> HIDE DEF new
<1>4. /\ DOMAIN exchange \subseteq Ids
      /\ exchange \in [DOMAIN exchange -> [executed: 0 .. OrderQty, open: BOOLEAN]]
  BY DEF TypeOK
<1>5. /\ DOMAIN exchange' = DOMAIN exchange \cup {id}
      /\ exchange'[id] = new
      /\ \A x \in DOMAIN exchange : x # id => exchange'[x] = exchange[x]
  BY <1>1
<1>6. ExchangeTyped'
  BY <1>1, <1>3, <1>4, <1>5 DEF ExchangeTyped
<1> QED
  BY <1>1, <1>2, <1>3, <1>5, <1>6

(* A resting order trades: it stays open while something is left.          *)
LEMMA XFillEffect ==
  ASSUME TypeOK, NEW id \in Ids, NEW k \in 1 .. OrderQty, XFill(id, k)
  PROVE  /\ ExchangeTyped' /\ stream' \in Seq(Events)
         /\ DOMAIN exchange' = DOMAIN exchange /\ id \in DOMAIN exchange /\ exchange[id].open
         /\ exchange'[id].executed = exchange[id].executed + k
         /\ exchange[id].executed \in Nat
         /\ exchange'[id].open => exchange'[id].executed < OrderQty
         /\ \A x \in DOMAIN exchange : x # id => exchange'[x] = exchange[x]
<1> DEFINE n == exchange[id].executed + k
           new == [executed |-> n, open |-> n < OrderQty]
<1>1. /\ id \in OpenAtExchange /\ n <= OrderQty
      /\ exchange' = [exchange EXCEPT ![id] = new]
      /\ Emit(<<Event("OrderFill", id, k)>>)
  BY DEF XFill
<1>2. <<Event("OrderFill", id, k)>> \in Seq(Events)
  BY EventsMade, SeqOfOne
<1>3. stream' \in Seq(Events)
  BY <1>1, <1>2, EmitTyped
<1>4. /\ DOMAIN exchange \subseteq Ids
      /\ exchange \in [DOMAIN exchange -> [executed: 0 .. OrderQty, open: BOOLEAN]]
  BY DEF TypeOK
<1>5. id \in DOMAIN exchange /\ exchange[id].open
  BY <1>1 DEF OpenAtExchange
<1>6. exchange[id].executed \in Nat
  BY <1>4, <1>5
<1>7. n \in 0 .. OrderQty
  BY <1>1, <1>6, Constants
<1>8. /\ new \in [executed: 0 .. OrderQty, open: BOOLEAN]
      /\ new.executed = n /\ (new.open => n < OrderQty)
  <2> DEFINE b == n < OrderQty
  <2>1. b \in BOOLEAN
    OBVIOUS
  <2> HIDE DEF b, n
  <2>2. LET r == [executed |-> n, open |-> b]
        IN  r \in [executed: 0 .. OrderQty, open: BOOLEAN] /\ r.executed = n /\ r.open = b
    BY <1>7, <2>1, OrderRecord
  <2> QED
    BY <2>2 DEF b
<1> HIDE DEF new
<1>9. /\ DOMAIN exchange' = DOMAIN exchange
      /\ exchange'[id] = new
      /\ \A x \in DOMAIN exchange : x # id => exchange'[x] = exchange[x]
  BY <1>1, <1>5
<1>10. ExchangeTyped'
  BY <1>1, <1>4, <1>5, <1>8, <1>9 DEF ExchangeTyped
<1> HIDE DEF n
<1>11. /\ exchange'[id].executed = n
       /\ exchange'[id].open => exchange'[id].executed < OrderQty
  BY <1>8, <1>9
<1> QED
  BY <1>3, <1>5, <1>6, <1>9, <1>10, <1>11 DEF n

(* The batches of commands are sequences of commands.                      *)
LEMMA SeqsOfFew ==
  ASSUME NEW S, NEW a \in S, NEW b \in S, NEW c \in S
  PROVE  <<>> \in Seq(S) /\ <<a, b>> \in Seq(S) /\ <<a, b, c>> \in Seq(S)
  OBVIOUS

LEMMA BatchesAreCommands ==
  ASSUME NEW b \in Batches
  PROVE  b \in Seq({"place", "cancel_all"})
<1> DEFINE C == {"place", "cancel_all"}
<1>1. "place" \in C /\ "cancel_all" \in C
  OBVIOUS
<1> HIDE DEF C
<1>2. <<>> \in Seq(C) /\ <<"cancel_all">> \in Seq(C) /\ <<"place">> \in Seq(C)
  BY <1>1, SeqOfOne, SeqsOfFew
<1>3. <<"place", "place">> \in Seq(C) /\ <<"cancel_all", "place">> \in Seq(C)
  BY <1>1, SeqsOfFew
<1>4. <<"cancel_all", "place", "place">> \in Seq(C)
  BY <1>1, SeqsOfFew
<1> QED
  BY <1>2, <1>3, <1>4 DEF Batches, C

(* The main loop keeps the types ...                                       *)
LEMMA FeedTypes ==
  ASSUME TypeOK, NEW b \in Batches, FeedEvent(b)
  PROVE  TypeOK'
<1>1. /\ kill_action' = "none" /\ commands' = b
      /\ kill_switch' = (kill_switch \/ kill_action = "stop_all")
      /\ CancelEverything \/ (requests' = requests /\ open_order_count' = open_order_count)
  BY DEF FeedEvent
<1>2. UNCHANGED <<engineVars, phase, drain, gateway, replyVars, outsideVars>>
  BY DEF FeedEvent
<1>3. b \in Seq({"place", "cancel_all"})
  BY BatchesAreCommands
<1>4. kill_switch' \in BOOLEAN
  BY <1>1
<1>5. open_order_count' \in Nat /\ requests' \subseteq Requests
  BY <1>1, CancelEverythingEffect, TypeParts DEF Requests
<1> QED
  BY <1>1, <1>2, <1>3, <1>4, <1>5, TypeParts DEF TypeOK, Requests, Eng!TypeOK, engineVars, replyVars, outsideVars

LEMMA CancelAllTypes ==
  ASSUME TypeOK, ExecuteCancelAll
  PROVE  TypeOK'
<1>1. commands' = Tail(commands) /\ commands # <<>> /\ CancelEverything
  BY DEF ExecuteCancelAll, Take
<1>2. UNCHANGED <<engineVars, kill_switch, phase, drain, kill_action, gateway, replyVars, outsideVars>>
  BY DEF ExecuteCancelAll
<1>3. commands' \in Seq({"place", "cancel_all"})
  BY <1>1 DEF TypeOK
<1>4. open_order_count' \in Nat /\ requests' \subseteq Requests
  BY <1>1, CancelEverythingEffect, TypeParts DEF Requests
<1> QED
  BY <1>2, <1>3, <1>4, TypeParts DEF TypeOK, Requests, Eng!TypeOK, engineVars, replyVars, outsideVars

LEMMA PlaceTypes ==
  ASSUME TypeOK, ExecutePlace
  PROVE  TypeOK'
<1>1. /\ commands' = Tail(commands) /\ commands # <<>>
      /\ open_order_count' = open_order_count + 1
      /\ requests' = requests \/ requests' = requests \cup {Submit(Id(next_local_id))}
  BY DEF ExecutePlace, Take
<1>2. UNCHANGED <<kill_switch, phase, drain, kill_action, gateway, replyVars, outsideVars>>
  BY DEF ExecutePlace
<1>3. commands' \in Seq({"place", "cancel_all"})
  BY <1>1 DEF TypeOK
<1>4. Id(next_local_id) \in Ids /\ Eng!TypeOK'
  BY PlaceEffect
<1>5. open_order_count' \in Nat /\ requests' \subseteq Requests
  BY <1>1, <1>4, TypeParts DEF Requests
<1> QED
  BY <1>2, <1>3, <1>4, <1>5 DEF TypeOK, Requests, replyVars, outsideVars

LEMMA RefuseTypes ==
  ASSUME TypeOK, RefusePlace
  PROVE  TypeOK'
<1>1. commands' = Tail(commands) /\ commands # <<>>
  BY DEF RefusePlace, Take
<1>2. UNCHANGED <<engineVars, riskVars, phase, drain, kill_action, gateway, requests, replyVars, outsideVars>>
  BY DEF RefusePlace
<1>3. commands' \in Seq({"place", "cancel_all"})
  BY <1>1 DEF TypeOK
<1> QED
  BY <1>2, <1>3 DEF TypeOK, Eng!TypeOK, engineVars, riskVars, replyVars, outsideVars

(* ... when it handles events,                                             *)
LEMMA HandleTypes ==
  ASSUME TypeOK, NEW e \in Events, HandleGatewayEvent(e), RepliesTyped'
  PROVE  TypeOK'
<1>1. UNCHANGED <<next_local_id, kill_switch, loopVars, kill_action, gateway, requests, outsideVars>>
  BY DEF HandleGatewayEvent
<1>2. Eng!TypeOK' /\ open_order_count' \in Nat
  BY HandleEffect
<1> QED
  BY <1>1, <1>2 DEF TypeOK, RepliesTyped, loopVars, outsideVars

(* The events handled are events, and what waits behind them stays.        *)
LEMMA FromSubmitEvent ==
  ASSUME TypeOK, NEW id \in Ids, FromSubmit(id)
  PROVE  /\ Head(submit_reply[id]) \in Events /\ HandleGatewayEvent(Head(submit_reply[id]))
         /\ RepliesTyped'
<1>1. submit_reply \in [Ids -> Seq(Events)] /\ cancel_reply \subseteq Ids /\ stream \in Seq(Events)
  BY DEF TypeOK
<1>2. /\ submit_reply[id] # <<>> /\ HandleGatewayEvent(Head(submit_reply[id]))
      /\ submit_reply' = [submit_reply EXCEPT ![id] = Tail(submit_reply[id])]
      /\ cancel_reply' = cancel_reply /\ stream' = stream
  BY DEF FromSubmit
<1>3. submit_reply[id] \in Seq(Events)
  BY <1>1
<1>4. Head(submit_reply[id]) \in Events /\ Tail(submit_reply[id]) \in Seq(Events)
  BY <1>2, <1>3
<1> QED
  BY <1>1, <1>2, <1>4 DEF RepliesTyped

LEMMA FromCancelEvent ==
  ASSUME TypeOK, NEW id \in Ids, FromCancel(id)
  PROVE  /\ Event("OrderCancel", id, 0) \in Events /\ HandleGatewayEvent(Event("OrderCancel", id, 0))
         /\ RepliesTyped'
  BY EventsMade DEF FromCancel, TypeOK, RepliesTyped

LEMMA FromStreamEvent ==
  ASSUME TypeOK, FromStream
  PROVE  /\ Head(stream) \in Events /\ HandleGatewayEvent(Head(stream))
         /\ RepliesTyped'
<1>1. submit_reply \in [Ids -> Seq(Events)] /\ cancel_reply \subseteq Ids /\ stream \in Seq(Events)
  BY DEF TypeOK
<1>2. /\ stream # <<>> /\ HandleGatewayEvent(Head(stream)) /\ stream' = Tail(stream)
      /\ submit_reply' = submit_reply /\ cancel_reply' = cancel_reply
  BY DEF FromStream
<1>3. Head(stream) \in Events /\ Tail(stream) \in Seq(Events)
  BY <1>1, <1>2
<1> QED
  BY <1>1, <1>2, <1>3 DEF RepliesTyped

(* ... at a heartbeat,                                                     *)
LEMMA HeartbeatTypes ==
  ASSUME TypeOK, NEW late \in SUBSET Ids, Heartbeat(late)
  PROVE  /\ TypeOK'
         /\ open_order_count' <= open_order_count
         /\ requests' = requests \/ requests' = requests \cup { Cancel(id) : id \in late }
<1>1. UNCHANGED <<engineVars, kill_switch, loopVars, kill_action, gateway, replyVars, outsideVars>>
  BY DEF Heartbeat
<1>2. open_order_count \in Nat /\ Cardinality(late) \in Nat
  BY IdsFinite, FS_Subset, FS_CardinalityType DEF TypeOK
<1>3. \/ requests' = requests \cup { Cancel(id) : id \in late } /\ open_order_count' = open_order_count
      \/ requests' = requests /\ open_order_count' = Eng!Minus(open_order_count, Cardinality(late))
  BY DEF Heartbeat
<1>4. open_order_count' \in Nat /\ open_order_count' <= open_order_count
  <2>1. CASE open_order_count' = open_order_count
    BY <1>2, <2>1
  <2>2. CASE open_order_count' = Eng!Minus(open_order_count, Cardinality(late))
    BY <1>2, <2>2, MinusBelow
  <2> QED
    BY <1>3, <2>1, <2>2
<1>5. requests' \subseteq Requests
  BY <1>3, TypeParts DEF Requests
<1> QED
  BY <1>1, <1>3, <1>4, <1>5, TypeParts
  DEF TypeOK, Requests, Eng!TypeOK, engineVars, loopVars, replyVars, outsideVars

(* ... and through the shutdown.                                           *)
LEMMA ShutdownTypes ==
  ASSUME TypeOK, Shutdown
  PROVE  TypeOK'
<1>1. /\ phase' = "draining" /\ drain' \in {{}, Open} /\ kill_action' = "none"
      /\ submit_reply' = [id \in Ids |-> <<>>] /\ cancel_reply' = {} /\ stream' = <<>>
  BY DEF Shutdown
<1>2. UNCHANGED <<engineVars, riskVars, commands, gateway, requests, outsideVars>>
  BY DEF Shutdown
<1>3. drain' \subseteq Ids
  BY <1>1, OpenFinite
<1>4. <<>> \in Seq(Events)
  OBVIOUS
<1>5. submit_reply' \in [Ids -> Seq(Events)] /\ cancel_reply' \subseteq Ids /\ stream' \in Seq(Events)
  BY <1>1, <1>4
<1> QED
  BY <1>1, <1>2, <1>3, <1>5 DEF TypeOK, Eng!TypeOK, engineVars, riskVars, outsideVars

LEMMA DrainTypes ==
  ASSUME TypeOK, NEW id \in Ids, DrainOne(id) \/ DrainFails(id)
  PROVE  TypeOK'
<1>1. /\ drain' = drain \ {id}
      /\ exchange' = Close({id}) \/ exchange' = exchange
  BY DEF DrainOne, DrainFails, outsideVars
<1>2. UNCHANGED <<engineVars, riskVars, commands, phase, kill_action, gateway, requests, replyVars,
                 unreadable>>
  BY DEF DrainOne, DrainFails, outsideVars
<1>3. ExchangeTyped
  BY TypeParts
<1>4. ExchangeTyped'
  BY <1>1, <1>3, CloseEffect DEF ExchangeTyped
<1> QED
  BY <1>1, <1>2, <1>4 DEF TypeOK, ExchangeTyped, Eng!TypeOK, engineVars, riskVars, replyVars

LEMMA StopTypes ==
  ASSUME TypeOK, Stop
  PROVE  TypeOK'
<1>1. phase' = "stopped" /\ requests' \subseteq requests
  BY DEF Stop
<1>2. UNCHANGED <<engineVars, riskVars, commands, drain, kill_action, gateway, replyVars, outsideVars>>
  BY DEF Stop
<1> QED
  BY <1>1, <1>2 DEF TypeOK, Eng!TypeOK, engineVars, riskVars, replyVars, outsideVars

(* The dashboard, the exchange and the gateway tasks keep the types.       *)
LEMMA DashboardTypes ==
  ASSUME TypeOK, NEW a \in KillActions, Dashboard(a)
  PROVE  TypeOK'
<1>1. kill_action' = a
  BY DEF Dashboard
<1>2. UNCHANGED <<engineVars, riskVars, loopVars, gateway, requests, replyVars, outsideVars>>
  BY DEF Dashboard
<1> QED
  BY <1>1, <1>2 DEF TypeOK, Eng!TypeOK, engineVars, riskVars, loopVars, replyVars, outsideVars

LEMMA OutsideTypes ==
  ASSUME TypeOK, Unchanged, requests' \subseteq Requests, RepliesTyped', ExchangeTyped',
         unreadable' \subseteq Ids
  PROVE  TypeOK'
  BY DEF TypeOK, Requests, RepliesTyped, ExchangeTyped, Unchanged, Eng!TypeOK, engineVars, riskVars,
         loopVars

(* The three ways a submit is accepted.                                    *)
Submitted(id, k) == XSubmit(id, k) \/ XSubmitReplyLost(id, k) \/ XSubmitUnreadable(id, k)

LEMMA SubmittedEffect ==
  ASSUME TypeOK, NEW id \in Ids, NEW k \in 0 .. OrderQty, Submitted(id, k)
  PROVE  /\ Submit(id) \in requests /\ Accept(id, k) /\ Unchanged
         /\ unreadable' \subseteq Ids
         /\ \/ Answer(id, AckReply(id, k))
            \/ Answer(id, RejectReply(id))
            \/ submit_reply' = submit_reply
<1>1. CASE XSubmit(id, k)
  BY <1>1 DEF XSubmit, TypeOK
<1>2. CASE XSubmitReplyLost(id, k)
  BY <1>2 DEF XSubmitReplyLost, TypeOK
<1>3. CASE XSubmitUnreadable(id, k)
  BY <1>3 DEF XSubmitUnreadable, TypeOK
<1> QED
  BY <1>1, <1>2, <1>3 DEF Submitted

LEMMA SubmittedTypes ==
  ASSUME TypeOK, NEW id \in Ids, NEW k \in 0 .. OrderQty, Submitted(id, k)
  PROVE  TypeOK'
<1>1. submit_reply' \in [Ids -> Seq(Events)]
  <2>1. submit_reply \in [Ids -> Seq(Events)]
    BY DEF TypeOK
  <2> QED
    BY <2>1, SubmittedEffect, RepliesAreEvents, AnswerTyped
<1>2. /\ requests' \subseteq requests /\ cancel_reply' = cancel_reply
      /\ stream' \in Seq(Events) /\ ExchangeTyped'
  BY SubmittedEffect, AcceptEffect
<1>3. RepliesTyped'
  BY <1>1, <1>2 DEF RepliesTyped, TypeOK
<1> QED
  BY <1>2, <1>3, SubmittedEffect, TypeParts, OutsideTypes

LEMMA SubmitFailsTypes ==
  ASSUME TypeOK, NEW id \in Ids, SubmitFails(id)
  PROVE  TypeOK'
<1>1. /\ requests' = requests \ {Submit(id)} /\ Answer(id, RejectReply(id)) /\ Unchanged
      /\ UNCHANGED <<cancel_reply, stream, exchange, unreadable>>
  BY DEF SubmitFails, outsideVars
<1>2. RejectReply(id) \in Seq(Events)
  <2>1. 0 \in 0 .. OrderQty
    BY Constants
  <2> QED
    BY <2>1, RepliesAreEvents
<1>3. submit_reply' \in [Ids -> Seq(Events)]
  BY <1>1, <1>2, AnswerTyped
<1>4. RepliesTyped'
  BY <1>1, <1>3 DEF RepliesTyped, TypeOK
<1>5. ExchangeTyped' /\ unreadable' \subseteq Ids
  BY <1>1 DEF ExchangeTyped, TypeOK
<1> QED
  BY <1>1, <1>4, <1>5, TypeParts, OutsideTypes

LEMMA XCancelTypes ==
  ASSUME TypeOK, NEW id \in Ids, NEW lost \in BOOLEAN, XCancel(id, lost)
  PROVE  TypeOK'
<1>1. /\ requests' = requests \ {Cancel(id)} /\ exchange' = Close({id})
      /\ Emit(<<Event("OrderCancel", id, 0)>>)
      /\ cancel_reply' \subseteq cancel_reply \cup {id}
      /\ submit_reply' = submit_reply /\ unreadable' = unreadable /\ Unchanged
  BY DEF XCancel
<1>2. <<Event("OrderCancel", id, 0)>> \in Seq(Events)
  BY EventsMade, SeqOfOne
<1>3. stream' \in Seq(Events)
  BY <1>1, <1>2, EmitTyped
<1>4. RepliesTyped' /\ unreadable' \subseteq Ids
  BY <1>1, <1>3 DEF RepliesTyped, TypeOK
<1>5. ExchangeTyped'
  BY <1>1, TypeParts, CloseEffect
<1> QED
  BY <1>1, <1>4, <1>5, TypeParts, OutsideTypes

(* The reports of a cancel of everything are a sequence of cancels.        *)
LEMMA CancelsAreEvents ==
  ASSUME NEW n \in Nat, NEW order \in [1 .. n -> Ids]
  PROVE  [i \in DOMAIN order |-> Event("OrderCancel", order[i], 0)] \in Seq(Events)
<1> DEFINE s == [i \in 1 .. n |-> Event("OrderCancel", order[i], 0)]
<1>1. s \in [1 .. n -> Events]
  BY EventsMade
<1> HIDE DEF s
<1>2. s \in Seq(Events)
  BY <1>1
<1> QED
  BY <1>2 DEF s

LEMMA XCancelAllTypes ==
  ASSUME TypeOK, XCancelAll
  PROVE  TypeOK'
<1>1. /\ requests' = requests \ {CancelAll} /\ exchange' = Close(OpenAtExchange)
      /\ UNCHANGED <<submit_reply, cancel_reply, unreadable>> /\ Unchanged
  BY DEF XCancelAll
<1>2. PICK order \in [1 .. Cardinality(OpenAtExchange) -> OpenAtExchange] :
        Emit([i \in DOMAIN order |-> Event("OrderCancel", order[i], 0)])
  BY DEF XCancelAll
<1>3. OpenAtExchange \subseteq Ids
  BY DEF OpenAtExchange, TypeOK
<1>4. Cardinality(OpenAtExchange) \in Nat
  BY <1>3, IdsFinite, FS_Subset, FS_CardinalityType
<1>5. [i \in DOMAIN order |-> Event("OrderCancel", order[i], 0)] \in Seq(Events)
  <2>1. order \in [1 .. Cardinality(OpenAtExchange) -> Ids]
    BY <1>3
  <2> QED
    BY <1>4, <2>1, CancelsAreEvents
<1>6. stream' \in Seq(Events)
  BY <1>2, <1>5, EmitTyped
<1>7. RepliesTyped' /\ unreadable' \subseteq Ids
  BY <1>1, <1>6 DEF RepliesTyped, TypeOK
<1>8. ExchangeTyped'
  BY <1>1, TypeParts, CloseEffect
<1> QED
  BY <1>1, <1>7, <1>8, TypeParts, OutsideTypes

LEMMA RequestFailsTypes ==
  ASSUME TypeOK, (\E id \in Ids : CancelFails(id)) \/ CancelAllFails
  PROVE  TypeOK'
<1>1. requests' \subseteq requests /\ UNCHANGED <<replyVars, outsideVars>> /\ Unchanged
  BY DEF CancelFails, CancelAllFails
<1>2. RepliesTyped' /\ ExchangeTyped' /\ unreadable' \subseteq Ids
  BY <1>1 DEF TypeOK, RepliesTyped, ExchangeTyped, replyVars, outsideVars
<1> QED
  BY <1>1, <1>2, TypeParts, OutsideTypes

LEMMA XFillTypes ==
  ASSUME TypeOK, NEW id \in Ids, NEW k \in 1 .. OrderQty, XFill(id, k)
  PROVE  TypeOK'
<1>1. UNCHANGED <<requests, submit_reply, cancel_reply, unreadable>> /\ Unchanged
  BY DEF XFill
<1>2. ExchangeTyped' /\ stream' \in Seq(Events)
  BY XFillEffect
<1>3. RepliesTyped' /\ unreadable' \subseteq Ids
  BY <1>1, <1>2 DEF RepliesTyped, TypeOK
<1> QED
  BY <1>1, <1>2, <1>3, TypeParts, OutsideTypes

LEMMA LoseReportTypes ==
  ASSUME TypeOK, LoseReport
  PROVE  TypeOK'
<1>1. /\ stream # <<>> /\ stream' = Tail(stream)
      /\ UNCHANGED <<requests, submit_reply, cancel_reply, exchange, unreadable>> /\ Unchanged
  BY DEF LoseReport, outsideVars
<1>2. stream' \in Seq(Events)
  BY <1>1 DEF TypeOK
<1>3. RepliesTyped' /\ ExchangeTyped' /\ unreadable' \subseteq Ids
  BY <1>1, <1>2 DEF RepliesTyped, ExchangeTyped, TypeOK
<1> QED
  BY <1>1, <1>3, TypeParts, OutsideTypes

(* Types at the start, and through every step.                             *)
LEMMA TypeInit ==
  ASSUME Init
  PROVE  TypeOK
<1>1. Eng!TypeOK
  <2>1. orders = [id \in {} |-> 0] /\ next_local_id = 1
    BY DEF Init, Eng!Init
  <2>2. DOMAIN orders = {} /\ orders \in [DOMAIN orders -> Eng!LiveOrder]
    BY <2>1
  <2>3. next_local_id \in 1 .. MaxLocalId + 1
    BY <2>1, Constants
  <2> QED
    BY <2>2, <2>3 DEF Eng!TypeOK
<1>2. DOMAIN exchange = {} /\ exchange \in [DOMAIN exchange -> [executed: 0 .. OrderQty, open: BOOLEAN]]
  BY DEF Init
<1>3. <<>> \in Seq(Events) /\ <<>> \in Seq({"place", "cancel_all"})
  OBVIOUS
<1>4. submit_reply \in [Ids -> Seq(Events)] /\ cancel_reply \subseteq Ids /\ stream \in Seq(Events)
  BY <1>3 DEF Init
<1>5. /\ open_order_count = 0 /\ kill_switch = FALSE /\ commands = <<>> /\ phase = "running"
      /\ drain = {} /\ kill_action = "none" /\ gateway \in Gateways /\ requests = {}
      /\ unreadable = {}
  BY DEF Init
<1> QED
  BY <1>1, <1>2, <1>3, <1>4, <1>5 DEF TypeOK

LEMMA TypeNext ==
  ASSUME TypeOK, [Next]_vars
  PROVE  TypeOK'
<1>1. CASE \E b \in Batches : FeedEvent(b)
  BY <1>1, FeedTypes
<1>2. CASE ExecuteCancelAll \/ ExecutePlace \/ RefusePlace
  BY <1>2, CancelAllTypes, PlaceTypes, RefuseTypes
<1>3. CASE \E id \in Ids : FromSubmit(id)
  BY <1>3, FromSubmitEvent, HandleTypes
<1>4. CASE \E id \in Ids : FromCancel(id)
  BY <1>4, FromCancelEvent, HandleTypes
<1>5. CASE FromStream
  BY <1>5, FromStreamEvent, HandleTypes
<1>6. CASE \E late \in SUBSET Ids : Heartbeat(late)
  BY <1>6, HeartbeatTypes
<1>7. CASE Shutdown \/ Stop
  BY <1>7, ShutdownTypes, StopTypes
<1>8. CASE \E id \in Ids : DrainOne(id) \/ DrainFails(id)
  BY <1>8, DrainTypes
<1>9. CASE \E a \in KillActions : Dashboard(a)
  BY <1>9, DashboardTypes
<1>10. CASE \E id \in Ids, k \in 0 .. OrderQty :
              XSubmit(id, k) \/ XSubmitReplyLost(id, k) \/ XSubmitUnreadable(id, k)
  <2>1. PICK id \in Ids, k \in 0 .. OrderQty : Submitted(id, k)
    BY <1>10 DEF Submitted
  <2> QED
    BY <2>1, SubmittedTypes
<1>11. CASE \E id \in Ids : SubmitFails(id)
  BY <1>11, SubmitFailsTypes
<1>12. CASE (\E id \in Ids : CancelFails(id)) \/ CancelAllFails
  BY <1>12, RequestFailsTypes
<1>13. CASE \E id \in Ids, lost \in BOOLEAN : XCancel(id, lost)
  BY <1>13, XCancelTypes
<1>14. CASE XCancelAll
  BY <1>14, XCancelAllTypes
<1>15. CASE \E id \in Ids, k \in 1 .. OrderQty : XFill(id, k)
  BY <1>15, XFillTypes
<1>16. CASE LoseReport
  BY <1>16, LoseReportTypes
<1>17. CASE UNCHANGED vars
  BY <1>17 DEF vars, TypeOK, Eng!TypeOK, engineVars, riskVars, loopVars, replyVars, outsideVars
<1> QED
  BY <1>1, <1>2, <1>3, <1>4, <1>5, <1>6, <1>7, <1>8, <1>9, <1>10, <1>11, <1>12, <1>13, <1>14, <1>15,
     <1>16, <1>17 DEF Next, MainLoop, Outside

(* TypeOK: whatever the gateway, the faults and the order of answers, the  *)
(* variables keep their types.                                             *)
THEOREM TypeCorrect == Spec => []TypeOK
<1>1. Init => TypeOK
  BY TypeInit
<1>2. TypeOK /\ [Next]_vars => TypeOK'
  BY TypeNext
<1> QED
  BY <1>1, <1>2, PTL DEF Spec

-----------------------------------------------------------------------------
(* The kinds of steps.                                                     *)

(* Neither tracker nor exchange moves; the count may fall.  What is asked  *)
(* for is a cancel of something registered.                                *)
Quiet ==
  /\ UNCHANGED <<orders, next_local_id, gateway, exchange>>
  /\ open_order_count' <= open_order_count
  /\ stream = <<>> => stream' = <<>>
  /\ UNCHANGED <<submit_reply, cancel_reply>>
       \/ (submit_reply' = [id \in Ids |-> <<>>] /\ cancel_reply' = {})
  /\ \A id \in Ids : Submit(id) \in requests' => Submit(id) \in requests
  /\ \A id \in Ids : Cancel(id) \in requests' => Cancel(id) \in requests \/ id \in DOMAIN orders

(* The exchange closes orders, which a cancel may report.                  *)
Closing(ids) ==
  /\ UNCHANGED <<orders, next_local_id, open_order_count, gateway, submit_reply>>
  /\ exchange' = Close(ids)
  /\ cancel_reply' \subseteq cancel_reply \cup (ids \cap DOMAIN exchange)
  /\ gateway # "stream" => stream' = stream
  /\ requests' \subseteq requests

(* The exchange answers a submit.                                          *)
Answered(id) == (\E k \in 0 .. OrderQty : Submitted(id, k)) \/ SubmitFails(id)

(* Every step is of one of these kinds.                                    *)
LEMMA QuietLoop ==
  ASSUME TypeOK,
         \/ (\E b \in Batches : FeedEvent(b)) \/ ExecuteCancelAll \/ RefusePlace
         \/ (\E late \in SUBSET Ids : Heartbeat(late))
  PROVE  Quiet
<1>1. CASE \E b \in Batches : FeedEvent(b)
  <2>1. PICK b \in Batches : FeedEvent(b)
    BY <1>1
  <2>2. /\ UNCHANGED <<engineVars, phase, drain, gateway, replyVars, outsideVars>>
        /\ CancelEverything \/ (requests' = requests /\ open_order_count' = open_order_count)
    BY <2>1 DEF FeedEvent
  <2>3. /\ open_order_count' <= open_order_count
        /\ requests' = requests \/ requests' = requests \cup {CancelAll}
    BY <2>2, CancelEverythingEffect DEF TypeOK
  <2> QED
    BY <2>2, <2>3, RequestsDiffer DEF Quiet, engineVars, replyVars, outsideVars
<1>2. CASE ExecuteCancelAll
  <2>1. /\ UNCHANGED <<engineVars, kill_switch, phase, drain, kill_action, gateway, replyVars, outsideVars>>
        /\ CancelEverything
    BY <1>2 DEF ExecuteCancelAll
  <2> QED
    BY <2>1, CancelEverythingEffect, RequestsDiffer DEF Quiet, engineVars, replyVars, outsideVars
<1>3. CASE RefusePlace
  BY <1>3 DEF RefusePlace, Quiet, TypeOK, engineVars, riskVars, replyVars, outsideVars
<1>4. CASE \E late \in SUBSET Ids : Heartbeat(late)
  <2>1. PICK late \in SUBSET Ids : Heartbeat(late)
    BY <1>4
  <2>2. UNCHANGED <<engineVars, kill_switch, loopVars, kill_action, gateway, replyVars, outsideVars>>
    BY <2>1 DEF Heartbeat
  <2>3. /\ open_order_count' <= open_order_count
        /\ requests' = requests \/ requests' = requests \cup { Cancel(id) : id \in late }
    BY <2>1, HeartbeatTypes
  <2>4. late \subseteq DOMAIN orders
    BY <2>1 DEF Heartbeat, Eng!WorkingOrderIds, Eng!OpenOrderIds
  <2> QED
    BY <2>2, <2>3, <2>4, RequestsDiffer DEF Quiet, engineVars, replyVars, outsideVars
<1> QED
  BY <1>1, <1>2, <1>3, <1>4

LEMMA QuietRest ==
  ASSUME TypeOK,
         \/ Shutdown \/ Stop \/ (\E id \in Ids : DrainFails(id))
         \/ (\E a \in KillActions : Dashboard(a))
         \/ (\E id \in Ids : CancelFails(id)) \/ CancelAllFails \/ LoseReport
         \/ UNCHANGED vars
  PROVE  Quiet
<1>1. open_order_count <= open_order_count
  BY DEF TypeOK
<1>2. CASE Shutdown
  BY <1>1, <1>2 DEF Shutdown, Quiet, engineVars, riskVars, outsideVars
<1>3. CASE Stop
  BY <1>1, <1>3 DEF Stop, Quiet, engineVars, riskVars, replyVars, outsideVars
<1>4. CASE \E id \in Ids : DrainFails(id)
  BY <1>1, <1>4 DEF DrainFails, Quiet, engineVars, riskVars, replyVars, outsideVars
<1>5. CASE \E a \in KillActions : Dashboard(a)
  BY <1>1, <1>5 DEF Dashboard, Quiet, engineVars, riskVars, replyVars, outsideVars
<1>6. CASE (\E id \in Ids : CancelFails(id)) \/ CancelAllFails
  BY <1>1, <1>6
  DEF CancelFails, CancelAllFails, Quiet, Unchanged, engineVars, riskVars, replyVars, outsideVars
<1>7. CASE LoseReport
  BY <1>1, <1>7 DEF LoseReport, Quiet, Unchanged, engineVars, riskVars, outsideVars
<1>8. CASE UNCHANGED vars
  BY <1>1, <1>8 DEF vars, Quiet, engineVars, riskVars, loopVars, replyVars, outsideVars
<1> QED
  BY <1>2, <1>3, <1>4, <1>5, <1>6, <1>7, <1>8

LEMMA ClosingSteps ==
  ASSUME TypeOK,
         \/ (\E id \in Ids, lost \in BOOLEAN : XCancel(id, lost)) \/ XCancelAll
         \/ (\E id \in Ids : DrainOne(id))
  PROVE  Quiet \/ (\E ids : Closing(ids))
<1>1. CASE \E id \in Ids, lost \in BOOLEAN : XCancel(id, lost)
  <2>1. PICK id \in Ids, lost \in BOOLEAN : XCancel(id, lost)
    BY <1>1
  <2>2. /\ id \in DOMAIN exchange
        /\ requests' = requests \ {Cancel(id)} /\ exchange' = Close({id})
        /\ cancel_reply' \subseteq cancel_reply \cup {id}
        /\ submit_reply' = submit_reply /\ Unchanged
    BY <2>1 DEF XCancel, OpenAtExchange
  <2>3. gateway # "stream" => stream' = stream
    BY <2>1 DEF XCancel, Emit
  <2>4. Closing({id})
    BY <2>2, <2>3 DEF Closing, Unchanged, engineVars, riskVars
  <2> QED
    BY <2>4
<1>2. CASE XCancelAll
  <2>1. /\ requests' = requests \ {CancelAll} /\ exchange' = Close(OpenAtExchange)
        /\ UNCHANGED <<submit_reply, cancel_reply>> /\ Unchanged
    BY <1>2 DEF XCancelAll
  <2>2. gateway # "stream" => stream' = stream
    BY <1>2 DEF XCancelAll, Emit
  <2>3. Closing(OpenAtExchange)
    BY <2>1, <2>2 DEF Closing, Unchanged, engineVars, riskVars
  <2> QED
    BY <2>3
<1>3. CASE \E id \in Ids : DrainOne(id)
  <2>1. PICK id \in Ids : DrainOne(id)
    BY <1>3
  <2>2. UNCHANGED <<engineVars, riskVars, commands, phase, kill_action, gateway, requests, replyVars,
                    unreadable>>
    BY <2>1 DEF DrainOne
  <2>3. CASE AtExchange(id)
    <3>1. exchange' = Close({id})
      BY <2>1, <2>3 DEF DrainOne
    <3>2. Closing({id})
      BY <2>2, <3>1 DEF Closing, engineVars, riskVars, replyVars
    <3> QED
      BY <3>2
  <2>4. CASE ~AtExchange(id)
    <3>1. exchange' = exchange /\ open_order_count <= open_order_count
      BY <2>1, <2>4 DEF DrainOne, TypeOK
    <3> QED
      BY <2>2, <3>1 DEF Quiet, engineVars, riskVars, replyVars
  <2> QED
    BY <2>3, <2>4
<1> QED
  BY <1>1, <1>2, <1>3

LEMMA Kinds ==
  ASSUME TypeOK, [Next]_vars
  PROVE  \/ Quiet \/ (\E ids : Closing(ids)) \/ ExecutePlace
         \/ \E id \in Ids : FromSubmit(id) \/ FromCancel(id) \/ Answered(id)
         \/ FromStream
         \/ \E id \in Ids, k \in 1 .. OrderQty : XFill(id, k)
<1>1. CASE \E id \in Ids, k \in 0 .. OrderQty :
              XSubmit(id, k) \/ XSubmitReplyLost(id, k) \/ XSubmitUnreadable(id, k)
  BY <1>1 DEF Answered, Submitted
<1>2. CASE \E id \in Ids : SubmitFails(id)
  BY <1>2 DEF Answered
<1>3. CASE MainLoop
  BY <1>3, QuietLoop, QuietRest, ClosingSteps DEF MainLoop
<1>4. CASE UNCHANGED vars
  BY <1>4, QuietRest
<1>5. CASE Outside
  BY <1>1, <1>2, <1>5, QuietRest, ClosingSteps DEF Outside
<1> QED
  BY <1>3, <1>4, <1>5 DEF Next

-----------------------------------------------------------------------------
(* What is under way is registered.                                        *)

(* The next id is fresh, and registering it extends what is registered.    *)
LEMMA NextIdFresh ==
  ASSUME TypeOK, ExchangeOrdersKnown, ExecutePlace
  PROVE  /\ Id(next_local_id) \notin DOMAIN orders
         /\ Registered' = Registered \cup {Id(next_local_id)}
<1>1. next_local_id \in Nat /\ next_local_id' = next_local_id + 1
  BY PlaceEffect
<1>2. next_local_id >= 1
  BY DEF TypeOK, Eng!TypeOK
<1>3. Id(next_local_id) \notin Registered
  <2> SUFFICES ASSUME NEW n \in 1 .. next_local_id - 1, Id(next_local_id) = Id(n)
               PROVE  FALSE
    BY DEF Registered
  <2>1. next_local_id = n
    BY IdInjective
  <2> QED
    BY <1>1, <2>1
<1>4. 1 .. next_local_id' - 1 = (1 .. next_local_id - 1) \cup {next_local_id}
  BY <1>1, <1>2
<1>5. Registered' = { Id(n) : n \in 1 .. next_local_id' - 1 }
  BY DEF Registered
<1> QED
  BY <1>3, <1>4, <1>5 DEF Registered, ExchangeOrdersKnown

(* Registered follows the counter alone.                                   *)
LEMMA RegisteredSame ==
  ASSUME next_local_id' = next_local_id
  PROVE  Registered' = Registered
  BY DEF Registered

LEMMA KnownQuiet ==
  ASSUME TypeOK, KnownInv, Quiet
  PROVE  KnownInv'
<1>1. Registered' = Registered
  BY RegisteredSame DEF Quiet
<1>2. /\ orders' = orders /\ exchange' = exchange
      /\ \A id \in Ids : Submit(id) \in requests' => Submit(id) \in requests
      /\ \A id \in Ids : Cancel(id) \in requests' => Cancel(id) \in requests \/ id \in DOMAIN orders
      /\ \A id \in Ids : submit_reply'[id] # <<>> => submit_reply[id] # <<>>
  BY DEF Quiet
<1>3. ExchangeOrdersKnown'
  BY <1>1, <1>2 DEF KnownInv, ExchangeOrdersKnown
<1> QED
  BY <1>2, <1>3 DEF KnownInv, SoundOrders

LEMMA KnownClosing ==
  ASSUME TypeOK, KnownInv, NEW ids, Closing(ids)
  PROVE  KnownInv'
<1>1. Registered' = Registered
  BY RegisteredSame DEF Closing
<1>2. /\ orders' = orders /\ submit_reply' = submit_reply /\ requests' \subseteq requests
      /\ exchange' = Close(ids)
  BY DEF Closing
<1>3. DOMAIN exchange' = DOMAIN exchange
  BY <1>2, TypeParts, CloseEffect
<1>4. ExchangeOrdersKnown'
  BY <1>1, <1>2, <1>3 DEF KnownInv, ExchangeOrdersKnown
<1> QED
  BY <1>2, <1>4 DEF KnownInv, SoundOrders

LEMMA KnownPlace ==
  ASSUME TypeOK, KnownInv, ExecutePlace
  PROVE  KnownInv'
<1> DEFINE n == Id(next_local_id)
<1>1. n \notin DOMAIN orders /\ Registered' = Registered \cup {n}
  BY NextIdFresh DEF KnownInv
<1>2. /\ DOMAIN orders' = DOMAIN orders \cup {n}
      /\ \A id \in DOMAIN orders : orders'[id] = orders[id]
      /\ orders'[n].state = "New" /\ orders'[n].original_qty = OrderQty /\ orders'[n].filled_qty = 0
  BY <1>1, PlaceEffect
<1>3. /\ requests' \subseteq requests \cup {Submit(n)}
      /\ exchange' = exchange /\ submit_reply' = submit_reply
  BY DEF ExecutePlace, replyVars, outsideVars
<1> HIDE DEF n
<1>4. ExchangeOrdersKnown'
  BY <1>1, <1>2, <1>3, RequestsDiffer DEF KnownInv, ExchangeOrdersKnown
<1>5. SoundOrders'
  BY <1>2 DEF KnownInv, SoundOrders, SoundOrder
<1> QED
  BY <1>4, <1>5 DEF KnownInv

LEMMA KnownHandled ==
  ASSUME TypeOK, KnownInv, NEW e \in Events, HandleGatewayEvent(e),
         \A id \in Ids : submit_reply'[id] # <<>> => submit_reply[id] # <<>>
  PROVE  KnownInv'
<1>1. /\ next_local_id' = next_local_id /\ requests' = requests /\ exchange' = exchange
  BY DEF HandleGatewayEvent, outsideVars
<1>2. Registered' = Registered
  BY <1>1, RegisteredSame
<1>3. Handled(orders, e, orders')
  BY HandleEffect
<1>4. ExchangeOrdersKnown'
  BY <1>1, <1>2, <1>3 DEF KnownInv, ExchangeOrdersKnown, Handled
<1>5. SoundOrders'
  <2> SUFFICES ASSUME NEW id \in DOMAIN orders
               PROVE  SoundOrder(orders'[id])
    BY <1>3 DEF SoundOrders, Handled
  <2>1. SoundOrder(orders[id])
    BY DEF KnownInv, SoundOrders
  <2>2. CASE id # e.id
    BY <1>3, <2>1, <2>2 DEF Handled
  <2>3. CASE id = e.id
    <3>1. Moved(orders[id], e, orders'[id])
      BY <1>3, <2>3 DEF Handled
    <3> QED
      BY <2>1, <3>1 DEF Moved, SoundOrder
  <2> QED
    BY <2>2, <2>3
<1> QED
  BY <1>4, <1>5 DEF KnownInv

(* A reply is taken from the front of its queue.                           *)
LEMMA RepliesShrink ==
  ASSUME TypeOK, NEW id \in Ids, FromSubmit(id)
  PROVE  /\ \A x \in Ids : submit_reply'[x] # <<>> => submit_reply[x] # <<>>
         /\ \A x \in Ids : x # id => submit_reply'[x] = submit_reply[x]
         /\ submit_reply'[id] = Tail(submit_reply[id]) /\ submit_reply[id] # <<>>
         /\ submit_reply[id] \in Seq(Events)
<1>1. submit_reply \in [Ids -> Seq(Events)]
  BY DEF TypeOK
<1>2. /\ submit_reply[id] # <<>>
      /\ submit_reply' = [submit_reply EXCEPT ![id] = Tail(submit_reply[id])]
  BY DEF FromSubmit
<1> QED
  BY <1>1, <1>2

LEMMA KnownAnswered ==
  ASSUME TypeOK, KnownInv, NEW id \in Ids, Answered(id)
  PROVE  KnownInv'
<1>1. /\ Submit(id) \in requests /\ requests' \subseteq requests /\ Unchanged
      /\ DOMAIN exchange' \subseteq DOMAIN exchange \cup {id}
      /\ \/ \E events : Answer(id, events)
         \/ submit_reply' = submit_reply
  <2>1. CASE SubmitFails(id)
    BY <2>1 DEF SubmitFails, outsideVars
  <2>2. CASE \E k \in 0 .. OrderQty : Submitted(id, k)
    BY <2>2, SubmittedEffect, AcceptEffect
  <2> QED
    BY <2>1, <2>2 DEF Answered
<1>2. submit_reply \in [Ids -> Seq(Events)]
  BY DEF TypeOK
<1>3. \A x \in Ids : x # id => submit_reply'[x] = submit_reply[x]
  BY <1>1, <1>2 DEF Answer
<1>4. orders' = orders /\ next_local_id' = next_local_id
  BY <1>1 DEF Unchanged, engineVars
<1>5. Registered' = Registered
  BY <1>4, RegisteredSame
<1>6. id \in Registered
  BY <1>1 DEF KnownInv, ExchangeOrdersKnown
<1>7. ExchangeOrdersKnown'
  BY <1>1, <1>3, <1>4, <1>5, <1>6 DEF KnownInv, ExchangeOrdersKnown
<1> QED
  BY <1>4, <1>7 DEF KnownInv, SoundOrders

LEMMA KnownXFill ==
  ASSUME TypeOK, KnownInv, NEW id \in Ids, NEW k \in 1 .. OrderQty, XFill(id, k)
  PROVE  KnownInv'
<1>1. UNCHANGED <<requests, submit_reply, cancel_reply, unreadable>> /\ Unchanged
  BY DEF XFill
<1>2. orders' = orders /\ next_local_id' = next_local_id
  BY <1>1 DEF Unchanged, engineVars
<1>3. Registered' = Registered
  BY <1>2, RegisteredSame
<1>4. DOMAIN exchange' = DOMAIN exchange
  BY XFillEffect
<1>5. ExchangeOrdersKnown'
  BY <1>1, <1>2, <1>3, <1>4 DEF KnownInv, ExchangeOrdersKnown
<1> QED
  BY <1>2, <1>5 DEF KnownInv, SoundOrders

LEMMA KnownNext ==
  ASSUME TypeOK, KnownInv, [Next]_vars
  PROVE  KnownInv'
<1>1. CASE \E id \in Ids : FromSubmit(id)
  BY <1>1, FromSubmitEvent, RepliesShrink, KnownHandled
<1>2. CASE \E id \in Ids : FromCancel(id)
  <2>1. PICK id \in Ids : FromCancel(id)
    BY <1>2
  <2>2. submit_reply' = submit_reply
    BY <2>1 DEF FromCancel
  <2> QED
    BY <2>1, <2>2, FromCancelEvent, KnownHandled
<1>3. CASE FromStream
  <2>1. submit_reply' = submit_reply
    BY <1>3 DEF FromStream
  <2> QED
    BY <1>3, <2>1, FromStreamEvent, KnownHandled
<1> QED
  BY <1>1, <1>2, <1>3, Kinds, KnownQuiet, KnownClosing, KnownPlace, KnownAnswered, KnownXFill

LEMMA KnownInvariant == Spec => []KnownInv
<1>1. Init => KnownInv
  <2> SUFFICES ASSUME Init
               PROVE  KnownInv
    OBVIOUS
  <2>1. DOMAIN orders = {} /\ next_local_id = 1 /\ DOMAIN exchange = {} /\ requests = {}
        /\ \A id \in Ids : submit_reply[id] = <<>>
    BY DEF Init, Eng!Init
  <2>2. Registered = {}
    BY <2>1 DEF Registered
  <2> QED
    BY <2>1, <2>2 DEF KnownInv, ExchangeOrdersKnown, SoundOrders
<1>2. TypeOK /\ KnownInv /\ [Next]_vars => KnownInv'
  BY KnownNext
<1> QED
  BY <1>1, <1>2, TypeCorrect, PTL DEF Spec

(* ExchangeOrdersKnown: nothing about an order - a request, a reply, an    *)
(* order at the exchange - precedes register_order.                        *)
THEOREM RegisteredFirst == Spec => []ExchangeOrdersKnown
<1>1. KnownInv => ExchangeOrdersKnown
  BY DEF KnownInv
<1> QED
  BY <1>1, KnownInvariant, PTL

-----------------------------------------------------------------------------
(* The count of open orders.                                               *)

(* One order more that is open.                                            *)
LEMMA CountPlace ==
  ASSUME TypeOK, KnownInv, CountUnderOpen, ExecutePlace
  PROVE  CountUnderOpen'
<1> DEFINE n == Id(next_local_id)
<1>1. n \notin DOMAIN orders
  BY NextIdFresh DEF KnownInv
<1>2. /\ DOMAIN orders' = DOMAIN orders \cup {n}
      /\ \A id \in DOMAIN orders : orders'[id] = orders[id]
      /\ orders'[n].state = "New"
  BY <1>1, PlaceEffect
<1>3. open_order_count' = open_order_count + 1 /\ open_order_count \in Nat
  BY DEF ExecutePlace, TypeOK
<1> HIDE DEF n
<1>4. Open' = Open \cup {n} /\ n \notin Open
  BY <1>1, <1>2 DEF Open, Eng!OpenOrderIds, Eng!Terminal
<1>5. Cardinality(Open \cup {n}) = Cardinality(Open) + 1
  BY <1>4, OpenFinite, FS_AddElement
<1>6. Cardinality(Open') = Cardinality(Open) + 1
  BY <1>4, <1>5
<1> QED
  BY <1>3, <1>6, OpenFinite DEF CountUnderOpen

(* An event ends one order at most, and not without lowering the count.    *)
LEMMA CountHandled ==
  ASSUME TypeOK, KnownInv, CountUnderOpen, NEW e \in Events, HandleGatewayEvent(e)
  PROVE  CountUnderOpen'
<1>1. Handled(orders, e, orders') /\ open_order_count \in Nat
  BY HandleEffect DEF TypeOK
<1>2. Open \ {e.id} \subseteq Open' /\ Open' \subseteq Open
  <2>1. \A id \in DOMAIN orders : id # e.id => orders'[id] = orders[id]
    BY <1>1 DEF Handled
  <2>2. e.id \in DOMAIN orders /\ orders[e.id].state \in Eng!Terminal => orders'[e.id] = orders[e.id]
    BY <1>1 DEF Handled, Moved, Eng!Terminal
  <2> QED
    BY <1>1, <2>1, <2>2 DEF Open, Eng!OpenOrderIds, Handled
<1>3. IsFiniteSet(Open) /\ Cardinality(Open) \in Nat
  BY OpenFinite
<1>4. CASE e.kind = "OrderAck"
  <2>1. open_order_count' = open_order_count
    BY <1>4 DEF HandleGatewayEvent
  <2>2. e.id \in Open => e.id \in Open'
    <3> SUFFICES ASSUME e.id \in DOMAIN orders, orders[e.id].state \notin Eng!Terminal
                 PROVE  orders'[e.id].state \notin Eng!Terminal
      BY <1>1 DEF Open, Eng!OpenOrderIds, Handled
    <3>1. Moved(orders[e.id], e, orders'[e.id])
      BY <1>1 DEF Handled
    <3> QED
      BY <1>4, <3>1 DEF Moved, Eng!Terminal
  <2>3. Open' = Open
    BY <1>2, <2>2
  <2> QED
    BY <2>1, <2>3 DEF CountUnderOpen
<1>5. CASE e.kind # "OrderAck"
  <2>1. open_order_count' = Eng!Minus(open_order_count, 1)
    BY <1>5, EventFields DEF HandleGatewayEvent
  <2>2. /\ IsFiniteSet(Open \ {e.id}) /\ Cardinality(Open \ {e.id}) \in Nat
        /\ Cardinality(Open \ {e.id}) >= Cardinality(Open) - 1
    <3>1. /\ IsFiniteSet(Open \ {e.id})
          /\ Cardinality(Open \ {e.id}) =
               IF e.id \in Open THEN Cardinality(Open) - 1 ELSE Cardinality(Open)
      BY <1>3, FS_RemoveElement
    <3>2. Cardinality(Open \ {e.id}) \in Nat
      BY <3>1, FS_CardinalityType
    <3> QED
      BY <1>3, <3>1, <3>2
  <2>3. IsFiniteSet(Open') /\ Cardinality(Open') \in Nat
    BY <1>2, <1>3, FS_Subset, FS_CardinalityType
  <2>4. Cardinality(Open \ {e.id}) <= Cardinality(Open')
    BY <1>2, <2>3, FS_Subset
  <2>5. open_order_count <= Cardinality(Open)
    BY DEF CountUnderOpen
  <2>6. open_order_count' <= Cardinality(Open')
    BY <1>1, <1>3, <2>1, <2>2, <2>3, <2>4, <2>5, MinusBelow
  <2> QED
    BY <2>6 DEF CountUnderOpen
<1> QED
  BY <1>4, <1>5

(* The other steps leave the orders alone and never raise the count.       *)
LEMMA CountRest ==
  ASSUME TypeOK, CountUnderOpen, orders' = orders, open_order_count' \in Nat,
         open_order_count' <= open_order_count
  PROVE  CountUnderOpen'
<1>1. Open' = Open
  BY DEF Open
<1> QED
  BY <1>1, OpenFinite DEF CountUnderOpen, TypeOK

LEMMA CountNext ==
  ASSUME TypeOK, TypeOK', KnownInv, CountUnderOpen, [Next]_vars
  PROVE  CountUnderOpen'
<1>0. open_order_count \in Nat /\ open_order_count' \in Nat
  BY DEF TypeOK
<1>1. CASE Quiet
  BY <1>0, <1>1, CountRest DEF Quiet
<1>2. CASE \E ids : Closing(ids)
  <2>1. orders' = orders /\ open_order_count' = open_order_count
    BY <1>2 DEF Closing
  <2> QED
    BY <1>0, <2>1, CountRest
<1>3. CASE \E id \in Ids : FromSubmit(id) \/ FromCancel(id)
  BY <1>3, FromSubmitEvent, FromCancelEvent, CountHandled
<1>4. CASE FromStream
  BY <1>4, FromStreamEvent, CountHandled
<1>5. CASE (\E id \in Ids : Answered(id)) \/ (\E id \in Ids, k \in 1 .. OrderQty : XFill(id, k))
  <2>1. Unchanged
    BY <1>5, SubmittedEffect DEF Answered, SubmitFails, XFill
  <2>2. orders' = orders /\ open_order_count' = open_order_count
    BY <2>1 DEF Unchanged, engineVars, riskVars
  <2> QED
    BY <1>0, <2>2, CountRest
<1> QED
  BY <1>1, <1>2, <1>3, <1>4, <1>5, Kinds, CountPlace

(* CountUnderOpen: on_order_opened and on_order_closed, however often and  *)
(* in whatever order they are called, never count more than is open.       *)
THEOREM CountHolds == Spec => []CountUnderOpen
<1>1. Init => CountUnderOpen
  <2> SUFFICES ASSUME Init
               PROVE  CountUnderOpen
    OBVIOUS
  <2>1. TypeOK /\ open_order_count = 0
    BY TypeInit DEF Init
  <2> QED
    BY <2>1, OpenFinite DEF CountUnderOpen
<1>2. TypeOK /\ TypeOK' /\ KnownInv /\ CountUnderOpen /\ [Next]_vars => CountUnderOpen'
  BY CountNext
<1> QED
  BY <1>1, <1>2, TypeCorrect, KnownInvariant, PTL DEF Spec

-----------------------------------------------------------------------------
(* Over REST alone.                                                        *)

(* Every order of the map, seen from the exchange.                         *)
NotAhead(id) ==
  /\ orders[id].filled_qty > 0 =>
       id \in DOMAIN exchange /\ orders[id].filled_qty <= exchange[id].executed
  /\ orders[id].state \in {"Filled", "Canceled"} /\ id \in DOMAIN exchange => ~exchange[id].open

(* RestNeverAhead is that of every order.                                  *)
LEMMA NeverAheadEach ==
  RestNeverAhead <=> (gateway = "rest" => \A id \in DOMAIN orders : NotAhead(id))
  BY DEF RestNeverAhead, NotAhead, AtExchange, OpenAtExchange

(* What holds before a step of a node that trades over REST alone.         *)
RestState == TypeOK /\ KnownInv /\ RestSound /\ gateway = "rest"

LEMMA RestFacts ==
  ASSUME RestState
  PROVE  /\ stream = <<>> /\ RestRequests /\ RestReplies /\ RestCancels /\ RestExchange
         /\ \A id \in DOMAIN orders : NotAhead(id)
         /\ ExchangeTyped /\ SoundOrders
         /\ DOMAIN orders = Registered /\ DOMAIN exchange \subseteq DOMAIN orders
         /\ \A id \in Ids : Submit(id) \in requests => id \in DOMAIN orders
         /\ \A id \in Ids : submit_reply[id] # <<>> => id \in DOMAIN orders
         /\ submit_reply \in [Ids -> Seq(Events)] /\ cancel_reply \subseteq Ids
         /\ DOMAIN orders \subseteq Ids
<1>1. stream = <<>> /\ RestRequests /\ RestReplies /\ RestCancels /\ RestExchange
  BY DEF RestState, RestSound, RestInv
<1>2. \A id \in DOMAIN orders : NotAhead(id)
  BY NeverAheadEach DEF RestState, RestSound
<1>3. ExchangeTyped /\ DOMAIN orders \subseteq Ids
      /\ submit_reply \in [Ids -> Seq(Events)] /\ cancel_reply \subseteq Ids
  BY IdsAreOrderIds DEF RestState, TypeOK, Eng!TypeOK, ExchangeTyped
<1> QED
  BY <1>1, <1>2, <1>3 DEF RestState, KnownInv, ExchangeOrdersKnown

(* What has to hold after it.                                              *)
LEMMA RestAfter ==
  ASSUME gateway' = "rest" =>
           /\ stream' = <<>> /\ RestRequests' /\ RestReplies' /\ RestCancels' /\ RestExchange'
           /\ \A id \in DOMAIN orders' : NotAhead(id)'
  PROVE  RestSound'
  BY DEF RestSound, RestInv, RestNeverAhead, NotAhead, AtExchange, OpenAtExchange

LEMMA RestQuiet ==
  ASSUME RestState, Quiet
  PROVE  RestSound'
<1>1. /\ orders' = orders /\ exchange' = exchange /\ stream' = <<>>
      /\ cancel_reply' \subseteq cancel_reply
      /\ \A id \in Ids : submit_reply'[id] = submit_reply[id] \/ submit_reply'[id] = <<>>
      /\ \A id \in Ids : Submit(id) \in requests' => Submit(id) \in requests
  BY RestFacts DEF Quiet
<1>2. RestRequests'
  BY <1>1, RestFacts DEF RestRequests
<1>3. RestReplies'
  <2> SUFFICES ASSUME NEW id \in Ids, NEW i \in 1 .. Len(submit_reply'[id])
               PROVE  RestReply(id, i, submit_reply[id][i])'
    BY DEF RestReplies
  <2>1. submit_reply'[id] = submit_reply[id]
    BY <1>1
  <2>2. RestReply(id, i, submit_reply[id][i])
    BY <2>1, RestFacts DEF RestReplies
  <2> QED
    BY <1>1, <2>1, <2>2 DEF RestReply
<1>4. RestCancels' /\ RestExchange'
  BY <1>1, RestFacts DEF RestCancels, RestExchange
<1>5. \A id \in DOMAIN orders' : NotAhead(id)'
  BY <1>1, RestFacts DEF NotAhead
<1> QED
  BY <1>1, <1>2, <1>3, <1>4, <1>5, RestAfter

LEMMA RestClosing ==
  ASSUME RestState, NEW ids, Closing(ids)
  PROVE  RestSound'
<1>1. /\ orders' = orders /\ submit_reply' = submit_reply /\ stream' = <<>>
      /\ cancel_reply' \subseteq cancel_reply \cup (ids \cap DOMAIN exchange)
      /\ requests' \subseteq requests /\ exchange' = Close(ids)
  BY RestFacts DEF Closing, RestState
<1>2. /\ DOMAIN exchange' = DOMAIN exchange
      /\ \A id \in DOMAIN exchange :
              /\ exchange'[id].executed = exchange[id].executed
              /\ exchange'[id].open => exchange[id].open /\ id \notin ids
  BY <1>1, RestFacts, CloseEffect
<1>3. RestRequests'
  BY <1>1, <1>2, RestFacts DEF RestRequests
<1>4. RestReplies'
  BY <1>1, <1>2, RestFacts DEF RestReplies, RestReply
<1>5. RestCancels' /\ RestExchange'
  BY <1>1, <1>2, RestFacts DEF RestCancels, RestExchange
<1>6. \A id \in DOMAIN orders' : NotAhead(id)'
  BY <1>1, <1>2, RestFacts DEF NotAhead
<1> QED
  BY <1>1, <1>3, <1>4, <1>5, <1>6, RestAfter

LEMMA RestPlace ==
  ASSUME RestState, ExecutePlace
  PROVE  RestSound'
<1> DEFINE n == Id(next_local_id)
<1>1. n \notin DOMAIN orders /\ n \in Ids
  BY NextIdFresh, PlaceEffect DEF KnownInv, RestState
<1>2. /\ DOMAIN orders' = DOMAIN orders \cup {n}
      /\ \A id \in DOMAIN orders : orders'[id] = orders[id]
      /\ orders'[n].state = "New" /\ orders'[n].filled_qty = 0
  BY <1>1, PlaceEffect DEF RestState
<1>3. /\ requests' \subseteq requests \cup {Submit(n)}
      /\ exchange' = exchange /\ submit_reply' = submit_reply /\ cancel_reply' = cancel_reply
      /\ stream' = stream
  BY DEF ExecutePlace, replyVars, outsideVars
<1> HIDE DEF n
<1>4. n \notin DOMAIN exchange /\ n \notin cancel_reply /\ submit_reply[n] = <<>>
  BY <1>1, RestFacts DEF RestCancels
<1>5. RestRequests'
  <2> SUFFICES ASSUME NEW id \in Ids, Submit(id) \in requests'
               PROVE  /\ id \notin DOMAIN exchange /\ id \notin cancel_reply
                      /\ submit_reply[id] = <<>>
                      /\ orders'[id].state = "New"
    BY <1>3 DEF RestRequests
  <2>1. CASE Submit(id) \in requests
    BY <1>2, <2>1, RestFacts DEF RestRequests
  <2>2. CASE id = n
    BY <1>2, <1>4, <2>2
  <2> QED
    BY <1>3, <2>1, <2>2, RequestsDiffer
<1>6. RestReplies'
  <2> SUFFICES ASSUME NEW id \in Ids, NEW i \in 1 .. Len(submit_reply[id])
               PROVE  RestReply(id, i, submit_reply[id][i])'
    BY <1>3 DEF RestReplies
  <2>1. RestReply(id, i, submit_reply[id][i]) /\ submit_reply[id] # <<>>
    BY RestFacts DEF RestReplies
  <2>2. orders'[id] = orders[id]
    BY <1>2, <2>1, RestFacts
  <2> QED
    BY <1>3, <2>1, <2>2 DEF RestReply
<1>7. RestCancels' /\ RestExchange'
  BY <1>3, RestFacts DEF RestCancels, RestExchange
<1>8. \A id \in DOMAIN orders' : NotAhead(id)'
  BY <1>2, <1>3, RestFacts DEF NotAhead
<1> QED
  BY <1>3, <1>5, <1>6, <1>7, <1>8, RestFacts, RestAfter

(* Handling an event leaves all orders but its own.                        *)
LEMMA RestHandled ==
  ASSUME RestState, NEW e \in Events, HandleGatewayEvent(e)
  PROVE  /\ exchange' = exchange /\ requests' = requests
         /\ DOMAIN orders' = DOMAIN orders
         /\ \A id \in DOMAIN orders : id # e.id => orders'[id] = orders[id]
         /\ e.id \in DOMAIN orders => Moved(orders[e.id], e, orders'[e.id])
<1>1. Handled(orders, e, orders')
  BY HandleEffect DEF RestState
<1>2. exchange' = exchange /\ requests' = requests
  BY DEF HandleGatewayEvent, outsideVars
<1> QED
  BY <1>1, <1>2 DEF Handled

LEMMA RestFromCancel ==
  ASSUME RestState, NEW id \in Ids, FromCancel(id)
  PROVE  RestSound'
<1> DEFINE e == Event("OrderCancel", id, 0)
<1>1. /\ id \in cancel_reply /\ cancel_reply' \subseteq cancel_reply
      /\ submit_reply' = submit_reply /\ stream' = stream
      /\ e \in Events /\ HandleGatewayEvent(e)
  BY FromCancelEvent DEF FromCancel, RestState
<1>2. e.id = id /\ e.kind = "OrderCancel"
  BY DEF Event
<1> HIDE DEF e
<1>3. /\ exchange' = exchange /\ requests' = requests
      /\ DOMAIN orders' = DOMAIN orders
      /\ \A x \in DOMAIN orders : x # id => orders'[x] = orders[x]
      /\ id \in DOMAIN orders => Moved(orders[id], e, orders'[id])
  BY <1>1, <1>2, RestHandled
<1>4. id \in DOMAIN exchange /\ ~exchange[id].open /\ Submit(id) \notin requests
  BY <1>1, RestFacts DEF RestCancels, RestRequests
<1>5. \A x \in DOMAIN orders : orders'[x].filled_qty = orders[x].filled_qty
  BY <1>2, <1>3 DEF Moved
<1>6. RestRequests'
  BY <1>1, <1>3, <1>4, RestFacts DEF RestRequests
<1>7. RestReplies'
  <2> SUFFICES ASSUME NEW x \in Ids, NEW i \in 1 .. Len(submit_reply[x])
               PROVE  RestReply(x, i, submit_reply[x][i])'
    BY <1>1 DEF RestReplies
  <2>1. RestReply(x, i, submit_reply[x][i]) /\ submit_reply[x] # <<>>
    BY RestFacts DEF RestReplies
  <2>2. orders'[x].filled_qty = orders[x].filled_qty
    BY <1>5, <2>1, RestFacts
  <2> QED
    BY <1>1, <1>3, <2>1, <2>2 DEF RestReply
<1>8. RestCancels' /\ RestExchange'
  BY <1>1, <1>3, RestFacts DEF RestCancels, RestExchange
<1>9. \A x \in DOMAIN orders' : NotAhead(x)'
  <2> SUFFICES ASSUME NEW x \in DOMAIN orders
               PROVE  NotAhead(x)'
    BY <1>3
  <2>1. CASE x = id
    BY <1>3, <1>4, <1>5, <2>1, RestFacts DEF NotAhead
  <2>2. CASE x # id
    BY <1>3, <2>2, RestFacts DEF NotAhead
  <2> QED
    BY <2>1, <2>2
<1> QED
  BY <1>1, <1>6, <1>7, <1>8, <1>9, RestFacts, RestAfter

(* The rest of a sequence.                                                 *)
LEMMA TailIndex ==
  ASSUME NEW S, NEW s \in Seq(S), s # <<>>
  PROVE  /\ 1 \in 1 .. Len(s) /\ Head(s) = s[1] /\ Len(Tail(s)) = Len(s) - 1
         /\ Len(s) \in Nat
         /\ \A i \in 1 .. Len(Tail(s)) : i \in Nat /\ i + 1 \in 1 .. Len(s) /\ Tail(s)[i] = s[i + 1]
  OBVIOUS

LEMMA RestFromSubmit ==
  ASSUME RestState, NEW id \in Ids, FromSubmit(id)
  PROVE  RestSound'
<1> DEFINE s == submit_reply[id]
           e == Head(s)
<1>1. /\ cancel_reply' = cancel_reply /\ stream' = stream
      /\ s \in Seq(Events) /\ s # <<>>
      /\ submit_reply'[id] = Tail(s)
      /\ \A x \in Ids : x # id => submit_reply'[x] = submit_reply[x]
      /\ e \in Events /\ HandleGatewayEvent(e)
  BY FromSubmitEvent, RepliesShrink DEF FromSubmit, RestState
<1>2. 1 \in 1 .. Len(s) /\ e = s[1]
  BY <1>1, TailIndex
<1>3. RestReply(id, 1, e)
  BY <1>2, RestFacts DEF RestReplies
<1>4. id \in DOMAIN orders /\ Submit(id) \notin requests
  BY <1>1, RestFacts DEF RestRequests
<1>5. e.qty \in Nat /\ orders[id].filled_qty \in Nat
  BY <1>1, <1>4, EventFields DEF RestState, TypeOK, Eng!TypeOK, Eng!LiveOrder
<1> HIDE DEF s, e
<1>6. /\ exchange' = exchange /\ requests' = requests
      /\ DOMAIN orders' = DOMAIN orders
      /\ \A x \in DOMAIN orders : x # id => orders'[x] = orders[x]
      /\ Moved(orders[id], e, orders'[id])
  BY <1>1, <1>3, <1>4, RestHandled DEF RestReply
<1>7. RestRequests'
  BY <1>1, <1>4, <1>6, RestFacts DEF RestRequests
<1>8. RestReplies'
  <2> SUFFICES ASSUME NEW x \in Ids, NEW i \in 1 .. Len(submit_reply'[x])
               PROVE  RestReply(x, i, submit_reply[x][i])'
    BY DEF RestReplies
  <2>1. CASE x # id
    <3>1. submit_reply'[x] = submit_reply[x]
      BY <1>1, <2>1
    <3>2. RestReply(x, i, submit_reply[x][i]) /\ submit_reply[x] # <<>>
      BY <3>1, RestFacts DEF RestReplies
    <3>3. orders'[x] = orders[x]
      BY <1>6, <2>1, <3>2, RestFacts
    <3> QED
      BY <1>6, <3>1, <3>2, <3>3 DEF RestReply
  <2>2. CASE x = id
    <3>1. /\ i \in Nat /\ Len(s) \in Nat
          /\ i + 1 \in 1 .. Len(s) /\ submit_reply'[id][i] = s[i + 1]
          /\ Len(submit_reply'[id]) = Len(s) - 1
      BY <1>1, <2>2, TailIndex
    <3>2. RestReply(id, i + 1, s[i + 1])
      BY <3>1, RestFacts DEF RestReplies, s
    <3>3. e.kind # "OrderFill"
      BY <1>3, <3>1 DEF RestReply, s
    <3>4. orders'[id].filled_qty = orders[id].filled_qty
      BY <1>6, <3>3 DEF Moved
    <3>5. s[i + 1].kind = "OrderFill" => i = Len(submit_reply'[id])
      BY <3>1, <3>2 DEF RestReply, s
    <3> QED
      BY <1>6, <2>2, <3>1, <3>2, <3>4, <3>5 DEF RestReply
  <2> QED
    BY <2>1, <2>2
<1>9. RestCancels' /\ RestExchange'
  BY <1>1, <1>6, RestFacts DEF RestCancels, RestExchange
<1>10. \A x \in DOMAIN orders' : NotAhead(x)'
  <2> SUFFICES ASSUME NEW x \in DOMAIN orders
               PROVE  NotAhead(x)'
    BY <1>6
  <2>1. CASE x # id
    BY <1>6, <2>1, RestFacts DEF NotAhead
  <2>2. CASE x = id /\ e.kind # "OrderFill"
    <3>1. /\ orders'[id].filled_qty = orders[id].filled_qty
          /\ orders'[id].state \in {"Filled", "Canceled"} => orders[id].state = orders'[id].state
      BY <1>3, <1>6, <2>2 DEF Moved, RestReply
    <3> QED
      BY <1>4, <1>6, <2>2, <3>1, RestFacts DEF NotAhead
  <2>3. CASE x = id /\ e.kind = "OrderFill" /\ orders'[id] = orders[id]
    BY <1>6, <2>3, RestFacts DEF NotAhead
  <2>4. CASE x = id /\ e.kind = "OrderFill" /\ orders'[id] # orders[id]
    <3>1. /\ id \in DOMAIN exchange /\ e.qty <= exchange[id].executed /\ orders[id].filled_qty = 0
      BY <1>3, <2>4 DEF RestReply
    <3>2. /\ orders'[id].filled_qty = orders[id].filled_qty + e.qty
          /\ orders'[id].state =
               IF orders'[id].filled_qty >= orders[id].original_qty THEN "Filled" ELSE "PartialFill"
      BY <1>6, <2>4 DEF Moved
    <3>3. orders'[id].filled_qty = e.qty
      BY <1>5, <3>1, <3>2
    <3>4. orders[id].original_qty = OrderQty /\ exchange[id].executed \in Nat
          /\ (exchange[id].open => exchange[id].executed < OrderQty)
      BY <1>4, <3>1, RestFacts DEF SoundOrders, SoundOrder, ExchangeTyped, RestExchange
    <3>5. orders'[id].state \in {"Filled", "Canceled"} => ~exchange[id].open
      BY <1>5, <3>1, <3>2, <3>3, <3>4, Constants
    <3> QED
      BY <1>6, <2>4, <3>1, <3>3, <3>5 DEF NotAhead
  <2> QED
    BY <2>1, <2>2, <2>3, <2>4
<1> QED
  BY <1>1, <1>7, <1>8, <1>9, <1>10, RestFacts, RestAfter

(* Sequences of one and two.                                               *)
LEMMA ShortSeqs ==
  ASSUME NEW S, NEW a \in S, NEW b \in S
  PROVE  /\ \A i \in 1 .. Len(<<a>>) : <<a>>[i] = a
         /\ \A i \in 1 .. Len(<<a>> \o <<b>>) :
              \/ (<<a>> \o <<b>>)[i] = a
              \/ (<<a>> \o <<b>>)[i] = b /\ i = Len(<<a>> \o <<b>>)
<1> DEFINE one == <<a>>
           two == <<a>> \o <<b>>
<1>1. Len(one) = 1 /\ one[1] = a
  OBVIOUS
<1>2. Len(two) = 2 /\ two[1] = a /\ two[2] = b
  OBVIOUS
<1> HIDE DEF one, two
<1>3. \A i \in 1 .. Len(one) : i = 1
  BY <1>1
<1>4. \A i \in 1 .. Len(two) : i = 1 \/ i = 2
  BY <1>2
<1>5. /\ \A i \in 1 .. Len(one) : one[i] = a
      /\ \A i \in 1 .. Len(two) : two[i] = a \/ (two[i] = b /\ i = Len(two))
  BY <1>1, <1>2, <1>3, <1>4
<1> QED
  BY <1>5 DEF one, two

(* The events of a reply, one by one.                                      *)
LEMMA ReplyShape ==
  ASSUME NEW id \in Ids, NEW k \in 0 .. OrderQty
  PROVE  /\ \A i \in 1 .. Len(RejectReply(id)) : RejectReply(id)[i].kind = "OrderReject"
                                                  /\ RejectReply(id)[i].id = id
         /\ \A i \in 1 .. Len(AckReply(id, k)) :
              /\ AckReply(id, k)[i].id = id
              /\ \/ AckReply(id, k)[i].kind = "OrderAck"
                 \/ /\ AckReply(id, k)[i].kind = "OrderFill" /\ AckReply(id, k)[i].qty = k
                    /\ i = Len(AckReply(id, k))
<1> DEFINE ack == Event("OrderAck", id, 0)
           fill == Event("OrderFill", id, k)
           reject == Event("OrderReject", id, 0)
<1>1. /\ ack.id = id /\ ack.kind = "OrderAck" /\ fill.id = id /\ fill.kind = "OrderFill" /\ fill.qty = k
      /\ reject.id = id /\ reject.kind = "OrderReject"
  BY DEF Event
<1> DEFINE S == {ack, fill, reject}
<1>0. ack \in S /\ fill \in S /\ reject \in S
  OBVIOUS
<1>2. RejectReply(id) = <<reject>>
  BY DEF RejectReply
<1>3. k > 0 => AckReply(id, k) = <<ack>> \o <<fill>>
  BY DEF AckReply
<1>4. ~(k > 0) => AckReply(id, k) = <<ack>>
  BY DEF AckReply
<1> HIDE DEF ack, fill, reject, S
<1>5. \A i \in 1 .. Len(RejectReply(id)) : RejectReply(id)[i] = reject
  BY <1>0, <1>2, ShortSeqs
<1>6. \A i \in 1 .. Len(AckReply(id, k)) :
        \/ AckReply(id, k)[i] = ack
        \/ AckReply(id, k)[i] = fill /\ i = Len(AckReply(id, k))
  <2>1. CASE k > 0
    <3> DEFINE two == <<ack>> \o <<fill>>
    <3>1. \A i \in 1 .. Len(two) : two[i] = ack \/ (two[i] = fill /\ i = Len(two))
      BY <1>0, ShortSeqs
    <3>2. AckReply(id, k) = two
      BY <1>3, <2>1
    <3> HIDE DEF two
    <3> QED
      BY <3>1, <3>2
  <2>2. CASE ~(k > 0)
    BY <1>0, <1>4, <2>2, ShortSeqs
  <2> QED
    BY <2>1, <2>2
<1> QED
  BY <1>1, <1>5, <1>6

(* A reply replaces the empty one, while somebody reads it.                *)
LEMMA AnswerEffect ==
  ASSUME RestState, NEW id \in Ids, submit_reply[id] = <<>>, NEW events, Answer(id, events)
  PROVE  /\ submit_reply'[id] \in {<<>>, events}
         /\ \A x \in Ids : x # id => submit_reply'[x] = submit_reply[x]
<1>1. submit_reply \in [Ids -> Seq(Events)]
  BY RestFacts
<1> QED
  BY <1>1 DEF Answer

(* What the answer to a submit changes.                                    *)
LEMMA AnsweredEffect ==
  ASSUME RestState, NEW id \in Ids, Answered(id)
  PROVE  /\ Submit(id) \in requests /\ requests' = requests \ {Submit(id)}
         /\ orders' = orders /\ cancel_reply' = cancel_reply /\ stream' = stream
         /\ \A x \in Ids : x # id => submit_reply'[x] = submit_reply[x]
         /\ ExchangeTyped'
         /\ DOMAIN exchange' \in {DOMAIN exchange, DOMAIN exchange \cup {id}}
         /\ \A x \in DOMAIN exchange : exchange'[x] = exchange[x]
         /\ id \in DOMAIN exchange' /\ exchange'[id].open => exchange'[id].executed < OrderQty
         /\ \A i \in 1 .. Len(submit_reply'[id]) :
              /\ submit_reply'[id][i].id = id
              /\ \/ submit_reply'[id][i].kind \in {"OrderAck", "OrderReject"}
                 \/ /\ submit_reply'[id][i].kind = "OrderFill" /\ i = Len(submit_reply'[id])
                    /\ id \in DOMAIN exchange'
                    /\ submit_reply'[id][i].qty <= exchange'[id].executed
<1>1. CASE SubmitFails(id)
  <2>1. /\ Submit(id) \in requests /\ requests' = requests \ {Submit(id)}
        /\ orders' = orders /\ cancel_reply' = cancel_reply /\ stream' = stream /\ exchange' = exchange
        /\ Answer(id, RejectReply(id))
    BY <1>1 DEF SubmitFails, outsideVars, Unchanged, engineVars
  <2>2. submit_reply[id] = <<>> /\ id \notin DOMAIN exchange
    BY <2>1, RestFacts DEF RestRequests
  <2>3. /\ submit_reply'[id] \in {<<>>, RejectReply(id)}
        /\ \A x \in Ids : x # id => submit_reply'[x] = submit_reply[x]
    BY <2>1, <2>2, AnswerEffect
  <2>4. \A i \in 1 .. Len(RejectReply(id)) : RejectReply(id)[i].kind = "OrderReject"
                                              /\ RejectReply(id)[i].id = id
    BY Constants, ReplyShape
  <2>5. \A i \in 1 .. Len(submit_reply'[id]) :
          submit_reply'[id][i].id = id /\ submit_reply'[id][i].kind = "OrderReject"
    <3>1. CASE submit_reply'[id] = <<>>
      BY <3>1
    <3>2. CASE submit_reply'[id] = RejectReply(id)
      BY <2>4, <3>2
    <3> QED
      BY <2>3, <3>1, <3>2
  <2> QED
    BY <2>1, <2>2, <2>3, <2>5, RestFacts DEF ExchangeTyped
<1>2. CASE \E k \in 0 .. OrderQty : Submitted(id, k)
  <2>1. PICK k \in 0 .. OrderQty : Submitted(id, k)
    BY <1>2
  <2>2. /\ Submit(id) \in requests /\ Accept(id, k) /\ orders' = orders
        /\ \/ Answer(id, AckReply(id, k))
           \/ Answer(id, RejectReply(id))
           \/ submit_reply' = submit_reply
    BY <2>1, SubmittedEffect DEF RestState, Unchanged, engineVars
  <2>3. /\ requests' = requests \ {Submit(id)} /\ cancel_reply' = cancel_reply
        /\ ExchangeTyped'
        /\ DOMAIN exchange' = DOMAIN exchange \cup {id}
        /\ exchange'[id].executed = k /\ (exchange'[id].open => k < OrderQty)
        /\ \A x \in DOMAIN exchange : x # id => exchange'[x] = exchange[x]
    BY <2>2, AcceptEffect DEF RestState
  <2>4. stream' = stream
    BY <2>2 DEF Accept, Emit, RestState
  <2>5. submit_reply[id] = <<>> /\ id \notin DOMAIN exchange
    BY <2>2, RestFacts DEF RestRequests
  <2>6. /\ submit_reply'[id] \in {<<>>, AckReply(id, k), RejectReply(id)}
        /\ \A x \in Ids : x # id => submit_reply'[x] = submit_reply[x]
    BY <2>2, <2>5, AnswerEffect
  <2>7. \A i \in 1 .. Len(submit_reply'[id]) :
          /\ submit_reply'[id][i].id = id
          /\ \/ submit_reply'[id][i].kind \in {"OrderAck", "OrderReject"}
             \/ /\ submit_reply'[id][i].kind = "OrderFill" /\ i = Len(submit_reply'[id])
                /\ submit_reply'[id][i].qty = k
    <3>1. CASE submit_reply'[id] = <<>>
      BY <3>1
    <3>2. CASE submit_reply'[id] = RejectReply(id)
      BY <3>2, ReplyShape
    <3>3. CASE submit_reply'[id] = AckReply(id, k)
      BY <3>3, ReplyShape
    <3> QED
      BY <2>6, <3>1, <3>2, <3>3
  <2>8. \A i \in 1 .. Len(submit_reply'[id]) :
          submit_reply'[id][i].qty = k => submit_reply'[id][i].qty <= exchange'[id].executed
    BY <2>3
  <2> QED
    BY <2>2, <2>3, <2>4, <2>5, <2>6, <2>7, <2>8
<1> QED
  BY <1>1, <1>2 DEF Answered

LEMMA RestAnswered ==
  ASSUME RestState, NEW id \in Ids, Answered(id)
  PROVE  RestSound'
<1>1. /\ Submit(id) \in requests /\ requests' = requests \ {Submit(id)}
      /\ orders' = orders /\ cancel_reply' = cancel_reply /\ stream' = stream
      /\ \A x \in Ids : x # id => submit_reply'[x] = submit_reply[x]
      /\ DOMAIN exchange' \in {DOMAIN exchange, DOMAIN exchange \cup {id}}
      /\ \A x \in DOMAIN exchange : exchange'[x] = exchange[x]
      /\ id \in DOMAIN exchange' /\ exchange'[id].open => exchange'[id].executed < OrderQty
  BY AnsweredEffect
<1>2. \A i \in 1 .. Len(submit_reply'[id]) :
        /\ submit_reply'[id][i].id = id
        /\ \/ submit_reply'[id][i].kind \in {"OrderAck", "OrderReject"}
           \/ /\ submit_reply'[id][i].kind = "OrderFill" /\ i = Len(submit_reply'[id])
              /\ id \in DOMAIN exchange'
              /\ submit_reply'[id][i].qty <= exchange'[id].executed
  BY AnsweredEffect
<1>3. /\ id \notin DOMAIN exchange /\ id \notin cancel_reply
      /\ orders[id].state = "New" /\ orders[id].filled_qty = 0
  BY <1>1, RestFacts DEF RestRequests, SoundOrders, SoundOrder
<1>4. RestRequests'
  <2> SUFFICES ASSUME NEW x \in Ids, Submit(x) \in requests'
               PROVE  /\ x \notin DOMAIN exchange' /\ x \notin cancel_reply'
                      /\ submit_reply'[x] = <<>>
                      /\ orders'[x].state = "New"
    BY DEF RestRequests
  <2>1. x # id /\ Submit(x) \in requests
    BY <1>1
  <2> QED
    BY <1>1, <2>1, RestFacts DEF RestRequests
<1>5. RestReplies'
  <2> SUFFICES ASSUME NEW x \in Ids, NEW i \in 1 .. Len(submit_reply'[x])
               PROVE  RestReply(x, i, submit_reply[x][i])'
    BY DEF RestReplies
  <2>1. CASE x = id
    BY <1>1, <1>2, <1>3, <2>1 DEF RestReply
  <2>2. CASE x # id
    <3>1. submit_reply'[x] = submit_reply[x]
      BY <1>1, <2>2
    <3>2. RestReply(x, i, submit_reply[x][i])
      BY <3>1, RestFacts DEF RestReplies
    <3> QED
      BY <1>1, <3>1, <3>2 DEF RestReply
  <2> QED
    BY <2>1, <2>2
<1>6. RestCancels' /\ RestExchange'
  BY <1>1, <1>3, RestFacts DEF RestCancels, RestExchange
<1>7. \A x \in DOMAIN orders' : NotAhead(x)'
  <2> SUFFICES ASSUME NEW x \in DOMAIN orders
               PROVE  NotAhead(x)'
    BY <1>1
  <2>1. CASE x = id
    BY <1>1, <1>3, <2>1 DEF NotAhead
  <2>2. CASE x # id
    BY <1>1, <2>2, RestFacts DEF NotAhead
  <2> QED
    BY <2>1, <2>2
<1> QED
  BY <1>1, <1>4, <1>5, <1>6, <1>7, RestFacts, RestAfter

LEMMA RestXFill ==
  ASSUME RestState, NEW id \in Ids, NEW k \in 1 .. OrderQty, XFill(id, k)
  PROVE  RestSound'
<1>1. /\ orders' = orders /\ requests' = requests /\ submit_reply' = submit_reply
      /\ cancel_reply' = cancel_reply
  BY DEF XFill, Unchanged, engineVars
<1>2. stream' = stream
  BY DEF XFill, Emit, RestState
<1>3. /\ DOMAIN exchange' = DOMAIN exchange /\ id \in DOMAIN exchange /\ exchange[id].open
      /\ exchange'[id].executed = exchange[id].executed + k /\ exchange[id].executed \in Nat
      /\ exchange'[id].open => exchange'[id].executed < OrderQty
      /\ \A x \in DOMAIN exchange : x # id => exchange'[x] = exchange[x]
  BY XFillEffect DEF RestState
<1>4. \A n \in Nat : n <= exchange[id].executed => n <= exchange'[id].executed
  BY <1>3
<1>5. RestRequests'
  BY <1>1, <1>3, RestFacts DEF RestRequests
<1>6. RestReplies'
  <2> SUFFICES ASSUME NEW x \in Ids, NEW i \in 1 .. Len(submit_reply[x])
               PROVE  RestReply(x, i, submit_reply[x][i])'
    BY <1>1 DEF RestReplies
  <2>1. RestReply(x, i, submit_reply[x][i])
    BY RestFacts DEF RestReplies
  <2>2. submit_reply[x][i].qty \in Nat
    <3>1. submit_reply[x][i] \in Events
      BY RestFacts
    <3> QED
      BY <3>1, EventFields
  <2> QED
    BY <1>1, <1>3, <1>4, <2>1, <2>2 DEF RestReply
<1>7. RestCancels' /\ RestExchange'
  BY <1>1, <1>3, RestFacts DEF RestCancels, RestExchange
<1>8. \A x \in DOMAIN orders' : NotAhead(x)'
  <2> SUFFICES ASSUME NEW x \in DOMAIN orders
               PROVE  NotAhead(x)'
    BY <1>1
  <2>1. CASE x = id
    <3>1. orders[id].filled_qty \in Nat
      BY <2>1 DEF RestState, TypeOK, Eng!TypeOK, Eng!LiveOrder
    <3> QED
      BY <1>1, <1>3, <1>4, <2>1, <3>1, RestFacts DEF NotAhead
  <2>2. CASE x # id
    BY <1>1, <1>3, <2>2, RestFacts DEF NotAhead
  <2> QED
    BY <2>1, <2>2
<1> QED
  BY <1>1, <1>2, <1>5, <1>6, <1>7, <1>8, RestFacts, RestAfter

(* The gateway is chosen once.                                             *)
LEMMA GatewayKept ==
  ASSUME TypeOK, [Next]_vars
  PROVE  gateway' = gateway
<1>1. CASE Quiet \/ (\E ids : Closing(ids))
  BY <1>1 DEF Quiet, Closing
<1>2. CASE ExecutePlace
  BY <1>2 DEF ExecutePlace
<1>3. CASE FromStream \/ \E id \in Ids : FromSubmit(id) \/ FromCancel(id)
  BY <1>3 DEF FromStream, FromSubmit, FromCancel, HandleGatewayEvent
<1>4. CASE \E id \in Ids : Answered(id)
  BY <1>4, SubmittedEffect DEF Answered, SubmitFails, Unchanged
<1>5. CASE \E id \in Ids, k \in 1 .. OrderQty : XFill(id, k)
  BY <1>5 DEF XFill, Unchanged
<1> QED
  BY <1>1, <1>2, <1>3, <1>4, <1>5, Kinds

LEMMA RestNext ==
  ASSUME TypeOK, KnownInv, RestSound, [Next]_vars
  PROVE  RestSound'
<1>1. gateway' = gateway
  BY GatewayKept
<1>2. CASE gateway # "rest"
  BY <1>1, <1>2, RestAfter
<1>3. CASE gateway = "rest"
  <2>1. RestState
    BY <1>3 DEF RestState
  <2>2. ~FromStream
    BY <2>1, RestFacts DEF FromStream
  <2> QED
    BY <2>1, <2>2, Kinds, RestQuiet, RestClosing, RestPlace, RestFromSubmit, RestFromCancel,
       RestAnswered, RestXFill
<1> QED
  BY <1>2, <1>3

(* RestNeverAhead: while the fills come with the REST replies alone, the   *)
(* tracker never believes more executed than was, and what it holds for    *)
(* Filled or Canceled is closed at the exchange.                           *)
THEOREM RestHolds == Spec => []RestNeverAhead
<1>1. Init => RestSound
  <2> SUFFICES ASSUME Init
               PROVE  RestSound
    OBVIOUS
  <2>1. /\ DOMAIN orders = {} /\ DOMAIN exchange = {} /\ requests = {} /\ stream = <<>>
        /\ cancel_reply = {} /\ \A id \in Ids : submit_reply[id] = <<>>
    BY DEF Init, Eng!Init
  <2>2. RestRequests /\ RestReplies /\ RestCancels /\ RestExchange
    BY <2>1 DEF RestRequests, RestReplies, RestCancels, RestExchange
  <2> QED
    BY <2>1, <2>2 DEF RestSound, RestInv, RestNeverAhead
<1>2. TypeOK /\ KnownInv /\ RestSound /\ [Next]_vars => RestSound'
  BY RestNext
<1>3. RestSound => RestNeverAhead
  BY DEF RestSound
<1> QED
  BY <1>1, <1>2, <1>3, TypeCorrect, KnownInvariant, PTL DEF Spec
=============================================================================
