------------------------------- MODULE LiveNode -------------------------------
(***************************************************************************)
(* One live node: the select! loop of crates/atomic-node/src/main.rs with  *)
(* the order tracker, the open-order count and kill switch of the risk     *)
(* engine, the gateway tasks it spawns, the exchange and the exchange's    *)
(* user data stream, the dashboard's kill button and the shutdown.         *)
(*                                                                         *)
(* Simplifications.                                                        *)
(*  - The gateway channel is folded into its senders: it is FIFO for each  *)
(*    sender and arbitrary between them, and so is taking the next event   *)
(*    straight from a pending REST reply or from the stream.               *)
(*  - Time is abstracted: which acknowledged orders look stale at a        *)
(*    heartbeat is left open.  So are the risk gates on price, position,   *)
(*    spread, rate and PnL (RiskEngine.tla): they may refuse any order.    *)
(*  - Several fills in one REST reply are one fill.                        *)
(*  - The mainnet gateway: no seed and reseed orders.                      *)
(***************************************************************************)
EXTENDS Naturals, Sequences, FiniteSets

CONSTANTS
  Venue,
  OrderQty,        \* configured order size
  MaxOpenOrders,   \* risk.max_open_orders
  Gateways,        \* subset of {"paper", "rest", "stream"}
  Faults,          \* may requests, replies and reports be lost or unreadable?
  KillActions,     \* subset of {"stop_all", "cancel_all", "disconnect"}
  MaxLocalId       \* bound: orders placed in one behaviour

ASSUME LiveAssumption ==
  /\ OrderQty \in Nat \ {0}
  /\ MaxOpenOrders \in Nat
  /\ MaxLocalId \in Nat \ {0}
  /\ Gateways \subseteq {"paper", "rest", "stream"}
  /\ Faults \in BOOLEAN
  /\ KillActions \subseteq {"stop_all", "cancel_all", "disconnect"}

VARIABLES
  orders, next_local_id,            \* the order tracker
  open_order_count, kill_switch,    \* the risk engine
  commands,        \* strategy commands the feed handler still has to execute
  phase,           \* "running", "draining" or "stopped"
  drain,           \* orders the shutdown still has to cancel
  kill_action,     \* what the dashboard asked for last
  gateway,         \* "paper": none; "rest": no user stream; "stream": both
  requests,        \* spawned gateway tasks whose request is on its way
  submit_reply,    \* submit_reply[id]: events of id's REST reply not yet handled
  cancel_reply,    \* orders whose cancel succeeded, event not yet handled
  stream,          \* user data stream, reports not yet handled
  exchange,        \* order id -> what the exchange knows of it
  unreadable       \* history: orders whose reply could not be parsed

engineVars == <<orders, next_local_id>>
riskVars == <<open_order_count, kill_switch>>
loopVars == <<commands, phase, drain>>
replyVars == <<submit_reply, cancel_reply, stream>>
outsideVars == <<exchange, unreadable>>
vars == <<engineVars, riskVars, loopVars, kill_action, gateway, requests, replyVars, outsideVars>>

Eng == INSTANCE ExecutionEngine
         WITH Venues <- {Venue}, ForeignIds <- {}, Sides <- {"Any"},
              OrderQtys <- {OrderQty}, FillQtys <- 1 .. OrderQty, Times <- {0}

Id(n) == Eng!LocalOrderId(Venue, n)
Ids == { Id(n) : n \in 1 .. MaxLocalId }

Event(kind, id, qty) == [kind |-> kind, id |-> id, side |-> "Any", qty |-> qty, ts |-> 0]

Events == { Event(k, id, 0) : k \in {"OrderAck", "OrderCancel", "OrderReject"}, id \in Ids }
            \cup { Event("OrderFill", id, q) : id \in Ids, q \in 1 .. OrderQty }

Submit(id) == <<"submit", id>>
Cancel(id) == <<"cancel", id>>
CancelAll == <<"cancel_all", 0>>

Open == Eng!OpenOrderIds(orders)

Running == phase = "running"
Selecting == Running /\ commands = <<>>      \* the loop waits in select!

-----------------------------------------------------------------------------
(* Main loop.                                                              *)

CancelEverythingWraps ==                          \* for mutation: count wraps
  IF gateway # "paper"
  THEN requests' = requests \cup {CancelAll} /\ UNCHANGED open_order_count
  ELSE open_order_count' = Eng!MinusWraps(open_order_count, Cardinality(Open)) /\ UNCHANGED requests

(* cancel_all_open_orders in a task of its own or, without a gateway, one  *)
(* on_order_closed for each open order.                                    *)
CancelEverything ==
  IF gateway # "paper"
  THEN requests' = requests \cup {CancelAll} /\ UNCHANGED open_order_count
  ELSE open_order_count' = Eng!Minus(open_order_count, Cardinality(Open)) /\ UNCHANGED requests

(* What the hot path answers an event with: nothing, a cancel of all, or   *)
(* one or two quotes, after such a cancel unless they are the first.       *)
Batches == { <<>>, <<"cancel_all">>, <<"place">>, <<"place", "place">>,
             <<"cancel_all", "place">>, <<"cancel_all", "place", "place">> }

Places(batch) == Cardinality({ i \in DOMAIN batch : batch[i] = "place" })

(* A market data event: take the dashboard's action, then quote.           *)
FeedEvent(batch) ==
  /\ Selecting
  /\ next_local_id + Places(batch) <= MaxLocalId + 1
  /\ kill_action' = "none"
  /\ kill_switch' = (kill_switch \/ kill_action = "stop_all")
  /\ IF kill_action = "none" THEN UNCHANGED <<requests, open_order_count>> ELSE CancelEverything
  /\ commands' = batch
  /\ UNCHANGED <<engineVars, phase, drain, gateway, replyVars, outsideVars>>

Take(cmd) == /\ Running
             /\ commands # <<>> /\ Head(commands) = cmd
             /\ commands' = Tail(commands)

ExecuteCancelAll ==
  /\ Take("cancel_all")
  /\ CancelEverything
  /\ UNCHANGED <<engineVars, kill_switch, phase, drain, kill_action, gateway, replyVars, outsideVars>>

ExecutePlaceLateMint ==                           \* for mutation: id read after ++
  /\ Take("place")
  /\ ~kill_switch
  /\ open_order_count < MaxOpenOrders
  /\ Eng!PlaceOrder(Venue, "Any", OrderQty, 0)
  /\ open_order_count' = open_order_count + 1
  /\ requests' = IF gateway = "paper" THEN requests ELSE requests \cup {Submit(Id(next_local_id'))}
  /\ UNCHANGED <<kill_switch, phase, drain, kill_action, gateway, replyVars, outsideVars>>

(* check_order passes: mint an id, register, count, log, spawn the submit. *)
ExecutePlace ==
  /\ Take("place")
  /\ ~kill_switch
  /\ open_order_count < MaxOpenOrders
  /\ Eng!PlaceOrder(Venue, "Any", OrderQty, 0)
  /\ open_order_count' = open_order_count + 1
  /\ requests' = IF gateway = "paper" THEN requests ELSE requests \cup {Submit(Id(next_local_id))}
  /\ UNCHANGED <<kill_switch, phase, drain, kill_action, gateway, replyVars, outsideVars>>

(* check_order refuses, for one of these reasons or another gate's.        *)
RefusePlace ==
  /\ Take("place")
  /\ UNCHANGED <<engineVars, riskVars, phase, drain, kill_action, gateway, requests, replyVars, outsideVars>>

HandleGatewayEventNoCancel(e) ==                  \* for mutation: cancels not counted
  /\ Selecting
  /\ orders' = Eng!ProcessEvent(orders, e)
  /\ open_order_count' =
       IF e.kind \in {"OrderFill", "OrderPartialFill", "OrderReject"}
       THEN Eng!Minus(open_order_count, 1) ELSE open_order_count
  /\ UNCHANGED <<next_local_id, kill_switch, loopVars, kill_action, gateway, requests, outsideVars>>

(* The gateway branch: the tracker takes the event or drops it; the count  *)
(* of open orders falls on every fill, reject and cancel alike.            *)
HandleGatewayEvent(e) ==
  /\ Selecting
  /\ orders' = Eng!ProcessEvent(orders, e)
  /\ open_order_count' =
       IF e.kind \in {"OrderFill", "OrderPartialFill", "OrderReject", "OrderCancel"}
       THEN Eng!Minus(open_order_count, 1) ELSE open_order_count
  /\ UNCHANGED <<next_local_id, kill_switch, loopVars, kill_action, gateway, requests, outsideVars>>

FromSubmit(id) ==
  /\ submit_reply[id] # <<>>
  /\ HandleGatewayEvent(Head(submit_reply[id]))
  /\ submit_reply' = [submit_reply EXCEPT ![id] = Tail(@)]
  /\ UNCHANGED <<cancel_reply, stream>>

FromCancel(id) ==
  /\ id \in cancel_reply
  /\ HandleGatewayEvent(Event("OrderCancel", id, 0))
  /\ cancel_reply' = cancel_reply \ {id}
  /\ UNCHANGED <<submit_reply, stream>>

FromStream ==
  /\ stream # <<>>
  /\ HandleGatewayEvent(Head(stream))
  /\ stream' = Tail(stream)
  /\ UNCHANGED <<submit_reply, cancel_reply>>

(* Heartbeat: cancel the acknowledged orders not updated for too long.     *)
Heartbeat(late) ==
  /\ Selecting
  /\ late # {} /\ late \subseteq Eng!WorkingOrderIds(orders)
  /\ IF gateway # "paper"
     THEN requests' = requests \cup { Cancel(id) : id \in late } /\ UNCHANGED open_order_count
     ELSE open_order_count' = Eng!Minus(open_order_count, Cardinality(late)) /\ UNCHANGED requests
  /\ UNCHANGED <<engineVars, kill_switch, loopVars, kill_action, gateway, replyVars, outsideVars>>

(* Ctrl-C: leave the loop; open orders are cancelled one after the other,  *)
(* in the order of a HashMap.  Gateway events and kill actions are never   *)
(* handled again: the model forgets those that wait.                       *)
Shutdown ==
  /\ Selecting
  /\ phase' = "draining"
  /\ drain' = IF gateway = "paper" THEN {} ELSE Open
  /\ kill_action' = "none"
  /\ submit_reply' = [id \in Ids |-> <<>>] /\ cancel_reply' = {} /\ stream' = <<>>
  /\ UNCHANGED <<engineVars, riskVars, commands, gateway, requests, outsideVars>>

-----------------------------------------------------------------------------
(* The dashboard's task: one atomic cell, the last action wins.            *)

Dashboard(action) ==
  /\ Running
  /\ kill_action' = action
  /\ UNCHANGED <<engineVars, riskVars, loopVars, gateway, requests, replyVars, outsideVars>>

-----------------------------------------------------------------------------
(* The exchange and the gateway tasks waiting for its answers.             *)

AtExchange(id) == id \in DOMAIN exchange
OpenAtExchange == { id \in DOMAIN exchange : exchange[id].open }

Unchanged == UNCHANGED <<engineVars, riskVars, loopVars, kill_action, gateway>>

(* What the user data stream and a REST reply put into the channel, as     *)
(* long as somebody reads it.                                              *)
Emit(events) ==
  stream' = IF Running /\ gateway = "stream" THEN stream \o events ELSE stream

Answer(id, events) ==
  submit_reply' = IF Running THEN [submit_reply EXCEPT ![id] = events] ELSE submit_reply

AckReply(id, k) ==
  <<Event("OrderAck", id, 0)>> \o (IF k > 0 THEN <<Event("OrderFill", id, k)>> ELSE <<>>)

RejectReply(id) == <<Event("OrderReject", id, 0)>>

(* The order is accepted and k of it executes at once.                     *)
Accept(id, k) ==
  /\ requests' = requests \ {Submit(id)}
  /\ exchange' = [x \in DOMAIN exchange \cup {id} |->
                    IF x = id THEN [executed |-> k, open |-> k < OrderQty] ELSE exchange[x]]
  /\ Emit(IF k > 0 THEN <<Event("OrderFill", id, k)>> ELSE <<>>)
  /\ UNCHANGED cancel_reply

XSubmit(id, k) ==
  /\ Submit(id) \in requests
  /\ Accept(id, k)
  /\ Answer(id, AckReply(id, k))
  /\ UNCHANGED unreadable
  /\ Unchanged

(* Accepted, and the reply lost on the way: send_reject "network error".   *)
XSubmitReplyLost(id, k) ==
  /\ Faults
  /\ Submit(id) \in requests
  /\ Accept(id, k)
  /\ Answer(id, RejectReply(id))
  /\ UNCHANGED unreadable
  /\ Unchanged

(* Accepted, and the reply does not parse: a warning, no event.            *)
XSubmitUnreadable(id, k) ==
  /\ Faults
  /\ Submit(id) \in requests
  /\ Accept(id, k)
  /\ unreadable' = unreadable \cup {id}
  /\ UNCHANGED submit_reply
  /\ Unchanged

SubmitDropped(id) ==                              \* for mutation: no send_reject
  /\ Submit(id) \in requests
  /\ requests' = requests \ {Submit(id)}
  /\ UNCHANGED <<replyVars, outsideVars>>
  /\ Unchanged

(* Refused by the exchange, or the request never got there.                *)
SubmitFails(id) ==
  /\ Submit(id) \in requests
  /\ requests' = requests \ {Submit(id)}
  /\ Answer(id, RejectReply(id))
  /\ UNCHANGED <<cancel_reply, stream, outsideVars>>
  /\ Unchanged

Close(ids) == [x \in DOMAIN exchange |->
                 IF x \in ids THEN [exchange[x] EXCEPT !.open = FALSE] ELSE exchange[x]]

(* A cancel finds the order open; its reply is lost if a fault happens.    *)
XCancel(id, lost) ==
  /\ Cancel(id) \in requests
  /\ id \in OpenAtExchange
  /\ lost => Faults
  /\ requests' = requests \ {Cancel(id)}
  /\ exchange' = Close({id})
  /\ Emit(<<Event("OrderCancel", id, 0)>>)
  /\ cancel_reply' = IF lost \/ ~Running THEN cancel_reply ELSE cancel_reply \cup {id}
  /\ UNCHANGED <<submit_reply, unreadable>>
  /\ Unchanged

CancelFailsReported(id) ==                        \* for mutation: status ignored
  /\ Cancel(id) \in requests
  /\ Faults \/ id \notin OpenAtExchange
  /\ requests' = requests \ {Cancel(id)}
  /\ cancel_reply' = IF Running THEN cancel_reply \cup {id} ELSE cancel_reply
  /\ UNCHANGED <<submit_reply, stream, outsideVars>>
  /\ Unchanged

(* Not open (any more), or lost: a log line and no event.                  *)
CancelFails(id) ==
  /\ Cancel(id) \in requests
  /\ Faults \/ id \notin OpenAtExchange
  /\ requests' = requests \ {Cancel(id)}
  /\ UNCHANGED <<replyVars, outsideVars>>
  /\ Unchanged

(* DELETE openOrders: its reply is only counted, never turned into events. *)
XCancelAll ==
  /\ CancelAll \in requests
  /\ requests' = requests \ {CancelAll}
  /\ exchange' = Close(OpenAtExchange)
  /\ \E order \in { f \in [1 .. Cardinality(OpenAtExchange) -> OpenAtExchange] :
                     \A i, j \in DOMAIN f : f[i] = f[j] => i = j } :
       Emit([i \in DOMAIN order |-> Event("OrderCancel", order[i], 0)])
  /\ UNCHANGED <<submit_reply, cancel_reply, unreadable>>
  /\ Unchanged

CancelAllFails ==
  /\ Faults
  /\ CancelAll \in requests
  /\ requests' = requests \ {CancelAll}
  /\ UNCHANGED <<replyVars, outsideVars>>
  /\ Unchanged

(* A resting order trades.                                                 *)
XFill(id, k) ==
  /\ id \in OpenAtExchange
  /\ exchange[id].executed + k <= OrderQty
  /\ exchange' = [exchange EXCEPT ![id] = [executed |-> @.executed + k,
                                           open |-> @.executed + k < OrderQty]]
  /\ Emit(<<Event("OrderFill", id, k)>>)
  /\ UNCHANGED <<requests, submit_reply, cancel_reply, unreadable>>
  /\ Unchanged

(* The stream's socket reconnects: reports of the gap never arrive.        *)
LoseReport ==
  /\ Faults
  /\ stream # <<>>
  /\ stream' = Tail(stream)
  /\ UNCHANGED <<requests, submit_reply, cancel_reply, outsideVars>>
  /\ Unchanged

-----------------------------------------------------------------------------
(* The rest of the shutdown.                                               *)

(* cancel_order awaited for one order; a failure is only logged.           *)
DrainOne(id) ==
  /\ phase = "draining" /\ id \in drain
  /\ drain' = drain \ {id}
  /\ exchange' = IF AtExchange(id) THEN Close({id}) ELSE exchange
  /\ UNCHANGED <<engineVars, riskVars, commands, phase, kill_action, gateway, requests, replyVars,
                 unreadable>>

DrainFails(id) ==
  /\ Faults
  /\ phase = "draining" /\ id \in drain
  /\ drain' = drain \ {id}
  /\ UNCHANGED <<engineVars, riskVars, commands, phase, kill_action, gateway, requests, replyVars,
                 outsideVars>>

(* The process ends and its tasks with it: requests already sent may still *)
(* reach the exchange, the others never do.                                *)
Stop ==
  /\ phase = "draining" /\ drain = {}
  /\ phase' = "stopped"
  /\ \E sent \in SUBSET requests : requests' = sent
  /\ UNCHANGED <<engineVars, riskVars, commands, drain, kill_action, gateway, replyVars, outsideVars>>

-----------------------------------------------------------------------------
Init ==
  /\ Eng!Init
  /\ open_order_count = 0 /\ kill_switch = FALSE
  /\ commands = <<>> /\ phase = "running" /\ drain = {}
  /\ kill_action = "none"
  /\ gateway \in Gateways
  /\ requests = {}
  /\ submit_reply = [id \in Ids |-> <<>>] /\ cancel_reply = {} /\ stream = <<>>
  /\ exchange = [id \in {} |-> 0]
  /\ unreadable = {}

MainLoop ==
  \/ \E b \in Batches : FeedEvent(b)
  \/ ExecuteCancelAll \/ ExecutePlace \/ RefusePlace
  \/ \E id \in Ids : FromSubmit(id) \/ FromCancel(id)
  \/ FromStream
  \/ \E late \in SUBSET Ids : Heartbeat(late)
  \/ Shutdown
  \/ \E id \in Ids : DrainOne(id) \/ DrainFails(id)
  \/ Stop

Outside ==
  \/ \E a \in KillActions : Dashboard(a)
  \/ \E id \in Ids, k \in 0 .. OrderQty :
       XSubmit(id, k) \/ XSubmitReplyLost(id, k) \/ XSubmitUnreadable(id, k)
  \/ \E id \in Ids : SubmitFails(id) \/ CancelFails(id)
  \/ \E id \in Ids, lost \in BOOLEAN : XCancel(id, lost)
  \/ XCancelAll \/ CancelAllFails
  \/ \E id \in Ids, k \in 1 .. OrderQty : XFill(id, k)
  \/ LoseReport

Next == MainLoop \/ Outside

Spec == Init /\ [][Next]_vars

(* select! polls its branches in random order, so a branch that is ready   *)
(* again and again is taken; commands run to the end inside one branch.    *)
(* Nothing is assumed of the network: a request may stay unanswered.       *)
Fairness ==
  /\ WF_vars(ExecuteCancelAll) /\ WF_vars(ExecutePlace \/ RefusePlace)
  /\ \A id \in Ids : SF_vars(FromSubmit(id))

FairSpec == Spec /\ Fairness

-----------------------------------------------------------------------------
(* Properties.                                                             *)

(* Type invariant.                                                         *)
TypeOK ==
  /\ Eng!TypeOK
  /\ open_order_count \in Nat /\ kill_switch \in BOOLEAN
  /\ commands \in Seq({"place", "cancel_all"})
  /\ phase \in {"running", "draining", "stopped"} /\ drain \subseteq Ids
  /\ kill_action \in {"none"} \cup KillActions
  /\ gateway \in Gateways
  /\ requests \subseteq { Submit(id) : id \in Ids } \cup { Cancel(id) : id \in Ids } \cup {CancelAll}
  /\ submit_reply \in [Ids -> Seq(Events)] /\ cancel_reply \subseteq Ids /\ stream \in Seq(Events)
  /\ DOMAIN exchange \subseteq Ids
  /\ exchange \in [DOMAIN exchange -> [executed: 0 .. OrderQty, open: BOOLEAN]]
  /\ unreadable \subseteq Ids

(* on_order_opened / on_order_closed: the count the risk gate compares     *)
(* with the limit never exceeds the number of orders that are open, so the *)
(* gate cannot block for good on orders that have long ended.              *)
CountUnderOpen == open_order_count <= Cardinality(Open)

(* Whatever is under way about an order - a request, a reply, a report,    *)
(* an order at the exchange - the tracker registered it first: the spawned *)
(* submit can never overtake register_order.                               *)
Registered == { Id(n) : n \in 1 .. next_local_id - 1 }

ExchangeOrdersKnown ==
  /\ DOMAIN orders = Registered
  /\ DOMAIN exchange \subseteq Registered
  /\ \A id \in Ids : Submit(id) \in requests \/ Cancel(id) \in requests => id \in Registered
  /\ \A id \in Ids : submit_reply[id] # <<>> => id \in Registered

(* Without the user data stream ("fills via REST only") the tracker never  *)
(* runs ahead of the exchange: it never believes more executed than was,   *)
(* and an order it holds for Filled or Canceled is closed there.           *)
RestNeverAhead ==
  gateway = "rest" =>
    \A id \in DOMAIN orders :
      /\ orders[id].filled_qty > 0 =>
           AtExchange(id) /\ orders[id].filled_qty <= exchange[id].executed
      /\ orders[id].state \in {"Filled", "Canceled"} => id \notin OpenAtExchange

(* submit_order, send_reject: once its submit has ended, however it ended, *)
(* every order of a running node leaves New - acknowledged or rejected -   *)
(* unless the reply could not be parsed.                                   *)
SubmittedSettles ==
  \A id \in Ids :
    (/\ gateway # "paper"
     /\ id \in Open /\ orders[id].state = "New" /\ Submit(id) \notin requests) ~>
      (id \notin Open \/ orders[id].state # "New" \/ id \in unreadable \/ phase # "running")

(* limits.rs: "Maximum number of open orders."                             *)
OpenOrdersBounded == Cardinality(Open) <= MaxOpenOrders

(* README: "open orders are cancelled before exit".                        *)
ShutdownLeavesNothing == phase = "stopped" /\ requests = {} => OpenAtExchange = {}
=============================================================================
