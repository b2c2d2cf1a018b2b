---------------------------- MODULE RecoveryProofs ----------------------------
(***************************************************************************)
(* Recovery.tla for every number of orders, sequence number and start, any *)
(* flush, snapshot and prune interval: types, what the deduplicator of the *)
(* replay promises, that no execution is counted twice, and, for a node    *)
(* without a gateway, that sequence numbers are given out once and a       *)
(* recovery brings every order back.                                       *)
(***************************************************************************)
EXTENDS Recovery, FiniteSetTheorems, SequenceTheorems, WellFoundedInduction, TLAPS

-----------------------------------------------------------------------------
(* The invariants and their strengthenings.                                *)

(* A number applied is remembered, or one higher by Keep was applied; the  *)
(* highest number is the snapshot's until one is applied.                  *)
Remembered(n) == n \in seen_seqs \/ \E k \in DOMAIN applied : applied[k] >= n + Keep

DedupInv ==
  /\ phase # "replaying" => todo = {}
  /\ \A i \in DOMAIN applied : applied[i] <= max_seen /\ Remembered(applied[i])
  /\ IF applied = <<>> THEN \A i \in todo : file[i].seq > max_seen
                       ELSE \E k \in DOMAIN applied : applied[k] = max_seen
  /\ NoDoubleReplay

(* Without a gateway nothing is ever sent; the log ascends, and while the  *)
(* node is up neither its last record nor the snapshot is ahead of it.     *)
Ascending(s) == \A i, j \in DOMAIN s : i < j => s[i].seq < s[j].seq

NumbersInv ==
  /\ phase # "live" => buffered = <<>>
  /\ gateway = "paper" => \A id \in Ids : exchange[id] = "none"
  /\ gateway = "paper" /\ ~torn =>
       /\ Ascending(Logged)
       /\ phase # "down" => /\ \A i \in DOMAIN Logged : Logged[i].seq <= last_seq
                            /\ snapshot.seq <= last_seq

(* What a log of a node without a gateway holds, and the orders it has:    *)
(* never acknowledged.                                                     *)
Fresh == Eng!NewOrder("Any", OrderQty, 0)
FreshOrders(os) == \A id \in DOMAIN os : os[id] = Fresh

Registers(r) == r.kind = "OrderNew"
PaperRecord(r) == r.kind = "Other" \/ (Registers(r) /\ r.qty = OrderQty)

(* The orders registered by the records of s numbered above seq.           *)
RegisteredBy(s, places, seq) == { s[i].id : i \in { j \in places : Registers(s[j]) /\ s[j].seq > seq } }

(* Whatever such a node has, had or logged is of that kind.                *)
AllFresh ==
  /\ \A i \in DOMAIN Logged : PaperRecord(Logged[i])
  /\ FreshOrders(orders) /\ FreshOrders(snapshot.orders) /\ before \in [DOMAIN before -> {Fresh}]

(* The snapshot and the records after it give the orders of the node that  *)
(* stopped, of the node that runs, and of the replay so far.               *)
StoppedOrders ==
  intact => /\ ~torn /\ phase # "live"
            /\ DOMAIN before = DOMAIN snapshot.orders
                                 \cup RegisteredBy(file, DOMAIN file, snapshot.seq)

LiveOrders ==
  ~torn /\ phase = "live" =>
    DOMAIN orders = DOMAIN snapshot.orders \cup RegisteredBy(Logged, DOMAIN Logged, snapshot.seq)

ReplayedOrders ==
  ~torn /\ phase = "replaying" =>
    /\ DOMAIN orders = DOMAIN snapshot.orders
                         \cup RegisteredBy(file, DOMAIN file \ todo, snapshot.seq)
    /\ todo \subseteq ToReplay /\ \A i \in todo : file[i].seq > max_seen

OrdersInv == gateway = "paper" => AllFresh /\ StoppedOrders /\ LiveOrders /\ ReplayedOrders

(* What an order map says was executed of an order, and what a record adds *)
(* to it; what it adds to a snapshot under seq.                            *)
FilledIn(os, id) == IF id \in DOMAIN os THEN os[id].filled_qty ELSE 0
Adds(r, id) == IF r.kind = "OrderFill" /\ r.id = id THEN r.qty ELSE 0
Counts(r, id, seq) == IF r.seq > seq THEN Adds(r, id) ELSE 0

(* f[i] is what a snapshot with "from" executed, and the first i records   *)
(* of the log, say of the order.                                           *)
RunningTotal(f, log, id, from, seq) ==
  /\ f \in [0 .. Len(log) -> Nat] /\ f[0] = from
  /\ \A i \in DOMAIN log : f[i] = f[i - 1] + Counts(log[i], id, seq)
  /\ \A i, j \in 0 .. Len(log) : i <= j => f[i] <= f[j]

(* Snapshot and log together say no more than what was executed; a replay  *)
(* has got no further than the records it has passed.                      *)
Accounted(f, id) ==
  /\ RunningTotal(f, Logged, id, FilledIn(snapshot.orders, id), snapshot.seq)
  /\ f[Len(Logged)] <= executed[id]
  /\ phase = "live" => FilledIn(orders, id) <= executed[id]
  /\ phase = "replaying" =>
       \E p \in 0 .. Len(Logged) : (\A i \in todo : p < i) /\ FilledIn(orders, id) <= f[p]

FillsInv ==
  /\ phase = "down" => orders = NoOrders
  /\ phase = "replaying" => todo \subseteq ToReplay
  /\ ~ahead => \A id \in Ids : \E f : Accounted(f, id)

-----------------------------------------------------------------------------
(* Constants, numbers, records.                                            *)

(* What the proofs use of the assumption on the constants.                 *)
LEMMA Constants ==
  /\ OrderQty \in Nat /\ OrderQty > 0 /\ MaxLocalId \in Nat /\ MaxLocalId > 0
  /\ StreamBase \in Nat /\ PruneAt \in Nat /\ Keep \in Nat
  BY RecoveryAssumption DEF RecoveryAssumption

(* A set of numbers has a least one, a set of places a greatest.           *)
LEMMA LeastOne ==
  ASSUME NEW T \in SUBSET Nat, T # {}
  PROVE  \E x \in T : \A y \in T : x <= y
<1> DEFINE R == { p \in Nat \X Nat : p[1] < p[2] }
<1>1. IsWellFoundedOn(R, Nat)
  BY NatLessThanWellFounded DEF OpToRel
<1> HIDE DEF R
<1>2. PICK x \in T : \A y \in T : <<y, x>> \notin R
  BY <1>1, WFMin
<1>3. \A y \in T : ~(y < x)
  BY <1>2 DEF R
<1> QED
  BY <1>3

LEMMA MinIs ==
  ASSUME NEW T \in SUBSET Nat, T # {}
  PROVE  Min(T) \in T /\ \A y \in T : Min(T) <= y
  BY LeastOne DEF Min

LEMMA MaxIs ==
  ASSUME NEW n \in Nat, NEW T \in SUBSET (1 .. n), T # {}
  PROVE  Max(T) \in T /\ \A y \in T : y <= Max(T)
<1> DEFINE rest == { n - i : i \in T }
<1>1. rest \in SUBSET Nat /\ rest # {}
  OBVIOUS
<1>2. PICK m \in rest : \A y \in rest : m <= y
  BY <1>1, LeastOne
<1>3. PICK x \in T : m = n - x
  OBVIOUS
<1>4. \A y \in T : n - y \in rest
  OBVIOUS
<1>5. \A y \in T : n - x <= n - y
  BY <1>2, <1>3, <1>4
<1> HIDE DEF rest
<1>6. \A y \in T : x >= y
  BY <1>5
<1>7. Max(T) \in T /\ \A y \in T : Max(T) >= y
  BY <1>6 DEF Max
<1> QED
  BY <1>7

(* A record of the log and its fields.                                     *)
LEMMA RecordFields ==
  ASSUME NEW seq, NEW kind, NEW id, NEW qty
  PROVE  LET r == Record(seq, kind, id, qty)
         IN  r.seq = seq /\ r.kind = kind /\ r.id = id /\ r.qty = qty /\ r.side = "Any" /\ r.ts = 0
  BY DEF Record

LEMMA RecordTyped ==
  ASSUME NEW seq \in Nat, NEW id \in Ids, NEW qty \in 0 .. OrderQty,
         NEW kind \in {"OrderNew", "OrderAck", "OrderFill", "OrderCancel", "OrderReject", "Other"}
  PROVE  Record(seq, kind, id, qty) \in LogRecord
  BY DEF Record, LogRecord, Eng!EventKind

LEMMA LogRecordFields ==
  ASSUME NEW r \in LogRecord
  PROVE  /\ r.seq \in Nat /\ r.id \in Ids /\ r.side = "Any" /\ r.qty \in Nat /\ r.qty <= OrderQty
         /\ r.ts = 0
         /\ r.kind \in {"OrderNew", "OrderAck", "OrderFill", "OrderCancel", "OrderReject", "Other"}
  BY Constants DEF LogRecord, Eng!EventKind

(* The ids the counter gives out next.                                     *)
NextIds(n) == { Id(next_local_id + i - 1) : i \in 1 .. n }

LEMMA NextIdsTyped ==
  ASSUME TypeOK, NEW n \in Nat, next_local_id + n <= MaxLocalId + 1
  PROVE  /\ NextIds(n) \subseteq Ids
         /\ \A i \in 1 .. n : Id(next_local_id + i - 1) \in Ids
         /\ next_local_id + n \in 1 .. MaxLocalId + 1
<1>1. next_local_id \in 1 .. MaxLocalId + 1
  BY DEF TypeOK
<1>2. \A i \in 1 .. n : next_local_id + i - 1 \in 1 .. MaxLocalId
  BY <1>1, Constants
<1> QED
  BY <1>1, <1>2, Constants DEF NextIds, Ids

(* The records of n new orders.                                            *)
LEMMA NewRecordsTyped ==
  ASSUME TypeOK, NEW n \in Nat, next_local_id + n <= MaxLocalId + 1, NEW seq \in Nat
  PROVE  /\ NewRecords(seq, n) \in Seq(LogRecord) /\ Len(NewRecords(seq, n)) = n
         /\ \A i \in 1 .. n :
              NewRecords(seq, n)[i] = Record(seq + i, "OrderNew", Id(next_local_id + i - 1), OrderQty)
<1> DEFINE s == NewRecords(seq, n)
<1>1. \A i \in 1 .. n : Record(seq + i, "OrderNew", Id(next_local_id + i - 1), OrderQty) \in LogRecord
  BY NextIdsTyped, RecordTyped, Constants
<1>2. /\ DOMAIN s = 1 .. n
      /\ \A i \in 1 .. n : s[i] = Record(seq + i, "OrderNew", Id(next_local_id + i - 1), OrderQty)
      /\ s = [i \in 1 .. n |-> s[i]]
  BY DEF NewRecords
<1> HIDE DEF s
<1>3. s \in [1 .. n -> LogRecord]
  BY <1>1, <1>2
<1>4. s \in Seq(LogRecord) /\ Len(s) = n
  BY <1>3
<1> QED
  BY <1>2, <1>4 DEF s

(* The tracker after n new orders.                                         *)
LEMMA FreshIs ==
  /\ Fresh \in Eng!LiveOrder /\ Fresh.filled_qty = 0
  /\ Eng!NewOrder("Any", OrderQty, 0) = Fresh
  BY Constants DEF Fresh, Eng!NewOrder, Eng!LiveOrder, Eng!OrderState

LEMMA WithOrdersEffect ==
  ASSUME TypeOK, NEW n \in Nat, next_local_id + n <= MaxLocalId + 1
  PROVE  /\ OrderMap(WithOrders(n))
         /\ DOMAIN WithOrders(n) = DOMAIN orders \cup NextIds(n)
         /\ \A id \in DOMAIN orders : WithOrders(n)[id] = orders[id]
         /\ \A id \in DOMAIN WithOrders(n) : id \notin DOMAIN orders => WithOrders(n)[id] = Fresh
<1>1. WithOrders(n) = [id \in DOMAIN orders \cup NextIds(n) |->
                         IF id \in DOMAIN orders THEN orders[id] ELSE Fresh]
  BY DEF WithOrders, NextIds, Fresh
<1>2. DOMAIN orders \subseteq Ids /\ orders \in [DOMAIN orders -> Eng!LiveOrder]
  BY DEF TypeOK, OrderMap
<1>3. NextIds(n) \subseteq Ids
  BY NextIdsTyped
<1> QED
  BY <1>1, <1>2, <1>3, FreshIs DEF OrderMap

-----------------------------------------------------------------------------
(* What process_event does to the order map.                               *)

(* A moved order is an order, and has at most qty more executed.           *)
LEMMA FillAdds ==
  ASSUME NEW o \in Eng!LiveOrder, NEW qty \in Nat
  PROVE  LET m == Eng!FillOrder(o, qty, 0)
         IN  m \in Eng!LiveOrder /\ m.filled_qty = o.filled_qty + qty
<1> DEFINE filled == o.filled_qty + qty
           left == Eng!Minus(o.original_qty, filled)
           to == Eng!FillTarget(o, qty)
           m == [o EXCEPT !.filled_qty = filled, !.remaining_qty = left, !.state = to, !.updated_at = 0]
<1>1. filled \in Nat /\ left \in Nat /\ to \in Eng!OrderState
  BY DEF Eng!LiveOrder, Eng!Minus, Eng!FillTarget, Eng!OrderState
<1>2. Eng!FillOrder(o, qty, 0) = m
  BY DEF Eng!FillOrder
<1> HIDE DEF filled, left, to
<1>3. m \in Eng!LiveOrder /\ m.filled_qty = filled
  BY <1>1 DEF Eng!LiveOrder
<1> QED
  BY <1>2, <1>3 DEF filled

(* Orders keep, and no order gains more than the event reports.            *)
Processed(os, r, n) ==
  /\ OrderMap(n) /\ DOMAIN os \subseteq DOMAIN n
  /\ \A id \in Ids : FilledIn(n, id) <= FilledIn(os, id) + Adds(r, id)
  /\ \A id \in Ids : FilledIn(os, id) \in Nat /\ FilledIn(n, id) \in Nat /\ Adds(r, id) \in Nat

LEMMA ProcessedSame ==
  ASSUME NEW os, OrderMap(os), NEW r \in LogRecord
  PROVE  Processed(os, r, os)
<1>1. \A id \in Ids : Adds(r, id) \in Nat
  BY LogRecordFields DEF Adds
<1>2. \A id \in Ids : FilledIn(os, id) \in Nat
  BY DEF OrderMap, FilledIn, Eng!LiveOrder
<1> QED
  BY <1>1, <1>2 DEF Processed

LEMMA ProcessedOne ==
  ASSUME NEW os, OrderMap(os), NEW r \in LogRecord, r.id \in DOMAIN os,
         NEW m \in Eng!LiveOrder, m.filled_qty <= os[r.id].filled_qty + Adds(r, r.id)
  PROVE  Processed(os, r, [os EXCEPT ![r.id] = m])
<1> DEFINE n == [os EXCEPT ![r.id] = m]
<1>1. /\ DOMAIN n = DOMAIN os /\ OrderMap(n) /\ n[r.id] = m
      /\ \A id \in DOMAIN os : id # r.id => n[id] = os[id]
  BY DEF OrderMap
<1>2. /\ \A id \in Ids : FilledIn(os, id) \in Nat /\ Adds(r, id) \in Nat
      /\ \A id \in Ids : FilledIn(os, id) <= FilledIn(os, id) + Adds(r, id)
  BY ProcessedSame DEF Processed
<1> HIDE DEF n
<1>3. \A id \in Ids : FilledIn(n, id) \in Nat
  BY <1>1 DEF OrderMap, FilledIn, Eng!LiveOrder
<1>4. \A id \in Ids : FilledIn(n, id) <= FilledIn(os, id) + Adds(r, id)
  <2> SUFFICES ASSUME NEW id \in Ids
               PROVE  FilledIn(n, id) <= FilledIn(os, id) + Adds(r, id)
    OBVIOUS
  <2>1. CASE id = r.id
    <3>1. FilledIn(n, id) = m.filled_qty /\ FilledIn(os, id) = os[r.id].filled_qty
      BY <1>1, <2>1 DEF FilledIn
    <3> QED
      BY <2>1, <3>1
  <2>2. CASE id # r.id
    <3>1. FilledIn(n, id) = FilledIn(os, id)
      BY <1>1, <2>2 DEF FilledIn
    <3> QED
      BY <1>2, <3>1
  <2> QED
    BY <2>1, <2>2
<1>5. Processed(os, r, n)
  BY <1>1, <1>2, <1>3, <1>4 DEF Processed
<1> QED
  BY <1>5 DEF n

(* An acknowledgement, cancel or reject.                                   *)
Moved(os, id, to) == [os EXCEPT ![id].state = to, ![id].updated_at = 0]

LEMMA StateChange ==
  ASSUME NEW os, OrderMap(os), NEW r \in LogRecord, NEW to \in Eng!OrderState, r.id \in DOMAIN os
  PROVE  Processed(os, r, Moved(os, r.id, to))
<1>1. PICK o : o = os[r.id]
  OBVIOUS
<1> DEFINE m == [o EXCEPT !.state = to, !.updated_at = 0]
<1>2. o \in Eng!LiveOrder
  BY <1>1 DEF OrderMap
<1>3. m \in Eng!LiveOrder /\ m.filled_qty = o.filled_qty
  BY <1>2 DEF Eng!LiveOrder
<1>4. o.filled_qty \in Nat /\ Adds(r, r.id) \in Nat
  BY <1>2, LogRecordFields DEF Adds, Eng!LiveOrder
<1>5. Moved(os, r.id, to) = [os EXCEPT ![r.id] = m]
  BY <1>1 DEF Moved
<1> HIDE DEF m
<1>6. m.filled_qty <= os[r.id].filled_qty + Adds(r, r.id)
  BY <1>1, <1>3, <1>4
<1> QED
  BY <1>3, <1>5, <1>6, ProcessedOne

(* Registering adds an order with nothing executed.                        *)
LEMMA RegisterEffect ==
  ASSUME NEW os, OrderMap(os), NEW r \in LogRecord
  PROVE  LET n == Eng!RegisterOrder(os, r.id, Eng!NewOrder(r.side, r.qty, r.ts))
         IN  /\ Processed(os, r, n)
             /\ DOMAIN n = DOMAIN os \cup {r.id}
             /\ \A id \in DOMAIN os : n[id] = os[id]
             /\ r.id \notin DOMAIN os => n[r.id] = Eng!NewOrder("Any", r.qty, 0)
<1> DEFINE o == Eng!NewOrder("Any", r.qty, 0)
           n == Eng!RegisterOrder(os, r.id, Eng!NewOrder(r.side, r.qty, r.ts))
<1>1. r.side = "Any" /\ r.ts = 0 /\ r.id \in Ids /\ r.qty \in Nat
  BY LogRecordFields
<1>2. o \in Eng!LiveOrder /\ o.filled_qty = 0
  BY <1>1 DEF Eng!NewOrder, Eng!LiveOrder, Eng!OrderState
<1>3. n = Eng!RegisterOrder(os, r.id, o)
  BY <1>1
<1> HIDE DEF o, n
<1>4. CASE r.id \in DOMAIN os
  <2>1. n = os
    BY <1>3, <1>4 DEF Eng!RegisterOrder
  <2>2. Processed(os, r, n)
    BY <2>1, ProcessedSame
  <2>3. DOMAIN n = DOMAIN os \cup {r.id} /\ \A id \in DOMAIN os : n[id] = os[id]
    BY <1>4, <2>1
  <2> QED
    BY <1>4, <2>2, <2>3 DEF n
<1>5. CASE r.id \notin DOMAIN os
  <2>1. n = [x \in DOMAIN os \cup {r.id} |-> IF x = r.id THEN o ELSE os[x]]
    BY <1>3, <1>5 DEF Eng!RegisterOrder
  <2>2. /\ DOMAIN n = DOMAIN os \cup {r.id} /\ n[r.id] = o
        /\ \A id \in DOMAIN os : n[id] = os[id]
    BY <1>5, <2>1
  <2>3. OrderMap(n)
    BY <1>1, <1>2, <2>1 DEF OrderMap
  <2>4. /\ \A id \in Ids : FilledIn(os, id) \in Nat /\ Adds(r, id) \in Nat
        /\ \A id \in Ids : FilledIn(os, id) <= FilledIn(os, id) + Adds(r, id)
    BY ProcessedSame DEF Processed
  <2>5. \A id \in Ids : FilledIn(n, id) = FilledIn(os, id)
    BY <1>2, <1>5, <2>2 DEF FilledIn
  <2>6. Processed(os, r, n)
    BY <2>2, <2>3, <2>4, <2>5 DEF Processed
  <2> QED
    BY <1>5, <2>2, <2>6 DEF n, o
<1> QED
  BY <1>4, <1>5

LEMMA ProcessEffect ==
  ASSUME NEW os, OrderMap(os), NEW r \in LogRecord
  PROVE  Processed(os, r, Eng!ProcessEvent(os, r))
<1> DEFINE o == os[r.id]
<1>1. r.kind \in {"OrderNew", "OrderAck", "OrderFill", "OrderCancel", "OrderReject", "Other"}
      /\ r.ts = 0 /\ r.qty \in Nat
  BY LogRecordFields
<1>2. r.id \in DOMAIN os => o \in Eng!LiveOrder
  BY DEF OrderMap
<1>3. CASE r.kind = "OrderNew"
  BY <1>3, RegisterEffect DEF Eng!ProcessEvent
<1>4. CASE r.kind = "Other"
  <2>1. Eng!ProcessEvent(os, r) = os
    BY <1>4 DEF Eng!ProcessEvent
  <2> QED
    BY <2>1, ProcessedSame
<1>5. CASE r.kind \in {"OrderAck", "OrderCancel", "OrderReject"}
  <2>1. Eng!ProcessEvent(os, r) = os
        \/ \E to \in Eng!OrderState :
             /\ r.id \in DOMAIN os
             /\ Eng!ProcessEvent(os, r) = Moved(os, r.id, to)
    <3>1. CASE r.kind = "OrderAck"
      BY <1>1, <3>1 DEF Eng!ProcessEvent, Eng!OnAck, Eng!May, Eng!OrderState, Moved
    <3>2. CASE r.kind = "OrderCancel"
      BY <1>1, <3>2 DEF Eng!ProcessEvent, Eng!OnCancel, Eng!May, Eng!OrderState, Moved
    <3>3. CASE r.kind = "OrderReject"
      BY <1>1, <3>3 DEF Eng!ProcessEvent, Eng!OnReject, Eng!May, Eng!OrderState, Moved
    <3> QED
      BY <1>5, <3>1, <3>2, <3>3
  <2> QED
    BY <2>1, StateChange, ProcessedSame
<1>6. CASE r.kind = "OrderFill"
  <2> DEFINE fills == r.id \in DOMAIN os /\ Eng!CanTransitionTo(o.state, Eng!FillTarget(o, r.qty))
             m == Eng!FillOrder(o, r.qty, 0)
  <2>1. Eng!ProcessEvent(os, r) = Eng!OnFill(os, r.id, r.qty, 0)
    BY <1>1, <1>6 DEF Eng!ProcessEvent
  <2>2. CASE fills
    <3>1. Eng!OnFill(os, r.id, r.qty, 0) = [os EXCEPT ![r.id] = m]
      BY <2>2 DEF Eng!OnFill
    <3>2. m \in Eng!LiveOrder /\ m.filled_qty = o.filled_qty + r.qty
      BY <1>1, <1>2, <2>2, FillAdds
    <3>3. r.id \in DOMAIN os /\ Adds(r, r.id) = r.qty /\ o.filled_qty \in Nat
      BY <1>2, <1>6, <2>2 DEF Adds, Eng!LiveOrder
    <3> HIDE DEF m, o
    <3>4. m.filled_qty <= o.filled_qty + Adds(r, r.id)
      BY <1>1, <3>2, <3>3
    <3> QED
      BY <2>1, <3>1, <3>2, <3>3, <3>4, ProcessedOne DEF o
  <2>3. CASE ~fills
    BY <2>1, <2>3, ProcessedSame DEF Eng!OnFill
  <2> QED
    BY <2>2, <2>3
<1> QED
  BY <1>1, <1>3, <1>4, <1>5, <1>6

-----------------------------------------------------------------------------
(* What the actions do to the log and the exchange.                        *)

(* A sequence with something appended begins with the sequence.            *)
LEMMA ConcatKeeps ==
  ASSUME NEW S, NEW s \in Seq(S), NEW t \in Seq(S)
  PROVE  /\ s \o t \in Seq(S) /\ DOMAIN s \subseteq DOMAIN (s \o t)
         /\ Len(s \o t) = Len(s) + Len(t) /\ Len(s) \in Nat /\ Len(t) \in Nat
         /\ DOMAIN (s \o t) = 1 .. Len(s) + Len(t) /\ DOMAIN s = 1 .. Len(s) /\ DOMAIN t = 1 .. Len(t)
         /\ \A i \in DOMAIN s : (s \o t)[i] = s[i]
         /\ \A i \in DOMAIN t : Len(s) + i \in DOMAIN (s \o t) /\ (s \o t)[Len(s) + i] = t[i]
<1>1. Len(s) \in Nat /\ Len(t) \in Nat /\ DOMAIN s = 1 .. Len(s) /\ DOMAIN t = 1 .. Len(t)
  OBVIOUS
<1>2. /\ s \o t \in Seq(S)
      /\ Len(s \o t) = Len(s) + Len(t)
      /\ \A i \in 1 .. Len(s) + Len(t) : (s \o t)[i] = IF i <= Len(s) THEN s[i] ELSE t[i - Len(s)]
  BY ConcatProperties
<1>3. DOMAIN (s \o t) = 1 .. Len(s) + Len(t)
  BY <1>2
<1>4. \A i \in DOMAIN s : i \in 1 .. Len(s) + Len(t) /\ i <= Len(s)
  BY <1>1
<1>5. \A i \in DOMAIN t : /\ Len(s) + i \in 1 .. Len(s) + Len(t) /\ ~(Len(s) + i <= Len(s))
                          /\ (Len(s) + i) - Len(s) = i
  BY <1>1
<1>6. \A i \in DOMAIN s : (s \o t)[i] = s[i]
  BY <1>2, <1>4
<1>7. \A i \in DOMAIN t : (s \o t)[Len(s) + i] = t[i]
  BY <1>2, <1>5
<1> QED
  BY <1>1, <1>2, <1>3, <1>4, <1>5, <1>6, <1>7

LEMMA EmptyKeeps ==
  ASSUME NEW s \in Seq(LogRecord)
  PROVE  s \o <<>> = s /\ <<>> \in Seq(LogRecord)
  BY ConcatEmptySeq

LEMMA Regrouped ==
  ASSUME NEW s \in Seq(LogRecord), NEW t \in Seq(LogRecord), NEW u \in Seq(LogRecord)
  PROVE  s \o (t \o u) = (s \o t) \o u
  BY ConcatAssociative

(* The log, written and not.                                               *)
LEMMA LoggedTyped ==
  ASSUME TypeOK
  PROVE  /\ Logged \in Seq(LogRecord) /\ file \in Seq(LogRecord) /\ buffered \in Seq(LogRecord)
         /\ DOMAIN file \subseteq DOMAIN Logged /\ \A i \in DOMAIN file : Logged[i] = file[i]
         /\ Len(file) \in Nat /\ DOMAIN file = 1 .. Len(file)
         /\ Len(Logged) \in Nat /\ DOMAIN Logged = 1 .. Len(Logged)
         /\ \A i \in DOMAIN Logged : Logged[i] \in LogRecord /\ Logged[i].seq \in Nat
         /\ \A i \in DOMAIN file : file[i] \in LogRecord /\ file[i].seq \in Nat
<1>1. file \in Seq(LogRecord) /\ buffered \in Seq(LogRecord)
  BY DEF TypeOK
<1>2. /\ Logged \in Seq(LogRecord)
      /\ DOMAIN file \subseteq DOMAIN Logged /\ \A i \in DOMAIN file : Logged[i] = file[i]
  BY <1>1, ConcatKeeps DEF Logged
<1>3. /\ Len(file) \in Nat /\ DOMAIN file = 1 .. Len(file)
      /\ Len(Logged) \in Nat /\ DOMAIN Logged = 1 .. Len(Logged)
  BY <1>1, <1>2
<1>4. /\ \A i \in DOMAIN Logged : Logged[i] \in LogRecord
      /\ \A i \in DOMAIN file : file[i] \in LogRecord
  BY <1>1, <1>2
<1> QED
  BY <1>1, <1>2, <1>3, <1>4, LogRecordFields

(* A write appends the event and the new orders to the log, and never      *)
(* takes anything back from the file.                                      *)
LEMMA WriteEffect ==
  ASSUME TypeOK, NEW seq, NEW event \in Seq(LogRecord), NEW news \in Seq(LogRecord),
         Write(seq, event, news)
  PROVE  /\ file' \in Seq(LogRecord) /\ buffered' \in Seq(LogRecord)
         /\ Logged' = (Logged \o event) \o news
         /\ DOMAIN file \subseteq DOMAIN file'
<1> DEFINE early == seq % FlushEvery = 0
           late == (seq + Len(news)) % FlushLong = 0
<1>1. \/ file' = (Logged \o event) \o news /\ buffered' = <<>>
      \/ file' = Logged \o event /\ buffered' = news
      \/ file' = file /\ buffered' = (buffered \o event) \o news
  <2>1. CASE late
    BY <2>1 DEF Write
  <2>2. CASE early /\ ~late
    BY <2>2 DEF Write
  <2>3. CASE ~early /\ ~late
    BY <2>3 DEF Write
  <2> QED
    BY <2>1, <2>2, <2>3
<1> HIDE DEF early, late
<1>2. file \in Seq(LogRecord) /\ buffered \in Seq(LogRecord) /\ Logged \in Seq(LogRecord)
      /\ DOMAIN file \subseteq DOMAIN Logged
  BY LoggedTyped
<1>3. Logged \o event \in Seq(LogRecord) /\ DOMAIN Logged \subseteq DOMAIN (Logged \o event)
  BY <1>2, ConcatKeeps
<1>4. /\ (Logged \o event) \o news \in Seq(LogRecord)
      /\ DOMAIN (Logged \o event) \subseteq DOMAIN ((Logged \o event) \o news)
  BY <1>3, ConcatKeeps
<1>5. buffered \o event \in Seq(LogRecord)
  BY <1>2, ConcatKeeps
<1>6. (buffered \o event) \o news \in Seq(LogRecord)
  BY <1>5, ConcatKeeps
<1>7. Logged' = file' \o buffered'
  BY DEF Logged
<1>8. CASE file' = (Logged \o event) \o news /\ buffered' = <<>>
  <2> DEFINE all == (Logged \o event) \o news
  <2>1. all \in Seq(LogRecord) /\ file' = all /\ buffered' = <<>> /\ Logged' = all \o <<>>
    BY <1>4, <1>7, <1>8
  <2> HIDE DEF all
  <2>2. all \o <<>> = all /\ <<>> \in Seq(LogRecord)
    BY <2>1, EmptyKeeps
  <2> QED
    BY <1>2, <1>3, <1>4, <2>1, <2>2 DEF all
<1>9. CASE file' = Logged \o event /\ buffered' = news
  BY <1>2, <1>3, <1>7, <1>9
<1>10. CASE file' = file /\ buffered' = (buffered \o event) \o news
  <2>1. file \o ((buffered \o event) \o news) = (file \o (buffered \o event)) \o news
    <3> DEFINE more == buffered \o event
    <3>1. file \in Seq(LogRecord) /\ more \in Seq(LogRecord)
      BY <1>2, <1>5
    <3> HIDE DEF more
    <3>2. file \o (more \o news) = (file \o more) \o news
      BY <3>1, Regrouped
    <3> QED
      BY <3>2 DEF more
  <2>2. file \o (buffered \o event) = (file \o buffered) \o event
    <3>1. file \in Seq(LogRecord) /\ buffered \in Seq(LogRecord)
      BY <1>2
    <3> QED
      BY <3>1, Regrouped
  <2>3. Logged' = (Logged \o event) \o news
    BY <1>7, <1>10, <2>1, <2>2 DEF Logged
  <2> QED
    BY <1>2, <1>6, <1>10, <2>3
<1> QED
  BY <1>1, <1>8, <1>9, <1>10

(* A report is handled and logged; a fill in it was executed.              *)
ExchangeTyped ==
  /\ exchange \in [Ids -> {"none", "sent", "duplicate", "acked", "done"}]
  /\ executed \in [Ids -> 0 .. OrderQty] /\ closed \subseteq Ids
  /\ stream_seq \in Nat

Reported(r) ==
  /\ r \in LogRecord /\ Handle(r)
  /\ exchange[r.id] # "none"
  /\ ExchangeTyped'
  /\ \A id \in Ids : executed'[id] = executed[id] + Adds(r, id)

LEMMA NothingExecuted ==
  ASSUME TypeOK, NEW r \in LogRecord, r.kind # "OrderFill", executed' = executed
  PROVE  /\ executed' \in [Ids -> 0 .. OrderQty]
         /\ \A id \in Ids : executed'[id] = executed[id] + Adds(r, id)
<1>1. executed \in [Ids -> 0 .. OrderQty]
  BY DEF TypeOK
<1>2. \A id \in Ids : executed[id] \in Nat /\ Adds(r, id) = 0
  BY <1>1, Constants DEF Adds
<1> QED
  BY <1>1, <1>2

LEMMA SomethingExecuted ==
  ASSUME TypeOK, NEW r \in LogRecord, r.kind = "OrderFill", Executes(r.id, r.qty)
  PROVE  /\ executed' \in [Ids -> 0 .. OrderQty]
         /\ \A id \in Ids : executed'[id] = executed[id] + Adds(r, id)
<1>1. executed \in [Ids -> 0 .. OrderQty]
  BY DEF TypeOK
<1>2. r.id \in Ids /\ r.qty \in Nat
  BY LogRecordFields
<1>3. /\ executed[r.id] + r.qty <= OrderQty
      /\ executed' = [executed EXCEPT ![r.id] = executed[r.id] + r.qty]
  BY DEF Executes
<1>4. executed[r.id] + r.qty \in 0 .. OrderQty
  BY <1>1, <1>2, <1>3, Constants
<1>5. \A id \in Ids : executed[id] \in Nat /\ (id # r.id => Adds(r, id) = 0) /\ Adds(r, r.id) = r.qty
  BY <1>1, Constants DEF Adds
<1>6. executed' \in [Ids -> 0 .. OrderQty]
  BY <1>1, <1>3, <1>4
<1>7. \A id \in Ids : executed'[id] = executed[id] + Adds(r, id)
  BY <1>1, <1>2, <1>3, <1>5
<1> QED
  BY <1>6, <1>7

(* Each report of the gateway.                                             *)
LEMMA AckReported ==
  ASSUME TypeOK, NEW id \in Ids, RestAck(id)
  PROVE  \E r : Reported(r)
<1> DEFINE r == Record(seq_base[id], "OrderAck", id, 0)
<1>1. /\ exchange[id] = "sent" /\ exchange' = [exchange EXCEPT ![id] = "acked"]
      /\ Handle(r) /\ UNCHANGED <<stream_seq, executed, closed>>
  BY DEF RestAck
<1>2. r \in LogRecord /\ r.id = id /\ r.kind = "OrderAck"
  <2>1. seq_base[id] \in Nat /\ 0 \in 0 .. OrderQty
    BY Constants DEF TypeOK
  <2> QED
    BY <2>1, RecordTyped, RecordFields
<1> HIDE DEF r
<1>3. ExchangeTyped' /\ \A x \in Ids : executed'[x] = executed[x] + Adds(r, x)
  BY <1>1, <1>2, NothingExecuted DEF TypeOK, ExchangeTyped
<1>4. Reported(r)
  BY <1>1, <1>2, <1>3 DEF Reported
<1> QED
  BY <1>4

LEMMA RejectReported ==
  ASSUME TypeOK, NEW id \in Ids, RestReject(id)
  PROVE  \E r : Reported(r)
<1> DEFINE r == Record(seq_base[id], "OrderReject", id, 0)
<1>1. /\ exchange[id] \in {"sent", "duplicate"} /\ exchange' = [exchange EXCEPT ![id] = "done"]
      /\ closed' \subseteq closed \cup {id}
      /\ Handle(r) /\ UNCHANGED <<stream_seq, executed>>
  BY DEF RestReject
<1>2. r \in LogRecord /\ r.id = id /\ r.kind = "OrderReject"
  <2>1. seq_base[id] \in Nat /\ 0 \in 0 .. OrderQty
    BY Constants DEF TypeOK
  <2> QED
    BY <2>1, RecordTyped, RecordFields
<1> HIDE DEF r
<1>3. ExchangeTyped' /\ \A x \in Ids : executed'[x] = executed[x] + Adds(r, x)
  BY <1>1, <1>2, NothingExecuted DEF TypeOK, ExchangeTyped
<1>4. Reported(r)
  BY <1>1, <1>2, <1>3 DEF Reported
<1> QED
  BY <1>4

LEMMA CancelReported ==
  ASSUME TypeOK, NEW id \in Ids, NEW seq, RestCancel(id, seq)
  PROVE  \E r : Reported(r)
<1> DEFINE r == Record(seq, "OrderCancel", id, 0)
<1>1. /\ exchange[id] \in {"sent", "acked", "done"}
      /\ closed' = closed \cup {id}
      /\ Handle(r) /\ UNCHANGED <<stream_seq, exchange, executed>>
  BY DEF RestCancel
<1>2. r \in LogRecord /\ r.id = id /\ r.kind = "OrderCancel"
  <2>1. seq \in Nat /\ 0 \in 0 .. OrderQty
    <3>1. seq_base[id] \in Nat /\ last_seq \in Nat /\ seq \in seq_base[id] .. last_seq
      BY DEF TypeOK, RestCancel
    <3> QED
      BY <3>1, Constants
  <2> QED
    BY <2>1, RecordTyped, RecordFields
<1> HIDE DEF r
<1>3. ExchangeTyped' /\ \A x \in Ids : executed'[x] = executed[x] + Adds(r, x)
  BY <1>1, <1>2, NothingExecuted DEF TypeOK, ExchangeTyped
<1>4. Reported(r)
  BY <1>1, <1>2, <1>3 DEF Reported
<1> QED
  BY <1>4

LEMMA RestFillReported ==
  ASSUME TypeOK, NEW id \in Ids, NEW k \in 1 .. OrderQty, RestFill(id, k)
  PROVE  \E r : Reported(r)
<1> DEFINE r == Record(seq_base[id] + 1, "OrderFill", id, k)
<1>1. /\ exchange[id] = "acked" /\ exchange' = [exchange EXCEPT ![id] = "done"]
      /\ Executes(id, k)
      /\ Handle(r) /\ UNCHANGED <<stream_seq, closed>>
  BY DEF RestFill
<1>2. r \in LogRecord /\ r.id = id /\ r.kind = "OrderFill" /\ r.qty = k
  <2>1. seq_base[id] + 1 \in Nat /\ k \in 0 .. OrderQty
    BY Constants DEF TypeOK
  <2> QED
    BY <2>1, RecordTyped, RecordFields
<1> HIDE DEF r
<1>3. ExchangeTyped' /\ \A x \in Ids : executed'[x] = executed[x] + Adds(r, x)
  BY <1>1, <1>2, SomethingExecuted DEF TypeOK, ExchangeTyped
<1>4. Reported(r)
  BY <1>1, <1>2, <1>3 DEF Reported
<1> QED
  BY <1>4

LEMMA StreamFillReported ==
  ASSUME TypeOK, NEW id \in Ids, NEW k \in 1 .. OrderQty, StreamFill(id, k)
  PROVE  \E r : Reported(r)
<1> DEFINE r == Record(stream_seq', "OrderFill", id, k)
<1>1. /\ exchange[id] # "none" /\ stream_seq' = stream_seq + 1
      /\ Executes(id, k)
      /\ Handle(r) /\ UNCHANGED <<exchange, closed>>
  BY DEF StreamFill
<1>2. stream_seq' \in Nat
  BY <1>1 DEF TypeOK
<1>3. r \in LogRecord /\ r.id = id /\ r.kind = "OrderFill" /\ r.qty = k
  <2>1. k \in 0 .. OrderQty
    BY Constants
  <2> QED
    BY <1>2, <2>1, RecordTyped, RecordFields
<1> HIDE DEF r
<1>4. ExchangeTyped' /\ \A x \in Ids : executed'[x] = executed[x] + Adds(r, x)
  BY <1>1, <1>2, <1>3, SomethingExecuted DEF TypeOK, ExchangeTyped
<1>5. Reported(r)
  BY <1>1, <1>3, <1>4 DEF Reported
<1> QED
  BY <1>5

LEMMA GatewayReports ==
  ASSUME TypeOK, Gateway
  PROVE  \E r : Reported(r)
<1>1. CASE \E id \in Ids : RestAck(id) \/ RestReject(id)
  BY <1>1, AckReported, RejectReported
<1>2. CASE \E id \in Ids, k \in 1 .. OrderQty : RestFill(id, k) \/ StreamFill(id, k)
  BY <1>2, RestFillReported, StreamFillReported
<1>3. CASE \E id \in Ids, seq \in 1 .. MaxSeq[gateway] : RestCancel(id, seq)
  BY <1>3, CancelReported
<1> QED
  BY <1>1, <1>2, <1>3 DEF Gateway


-----------------------------------------------------------------------------
(* Types.                                                                  *)

(* Market data and the orders answering it: what is logged, and who knows. *)
LEMMA FeedEffect ==
  ASSUME TypeOK, NEW n \in 0 .. 2, FeedEvent(n)
  PROVE  /\ n \in Nat /\ next_local_id + n <= MaxLocalId + 1
         /\ last_seq + 1 \in Nat /\ last_seq' = last_seq + 1 + n /\ last_seq' \in Nat
         /\ <<Market(last_seq + 1)>> \in Seq(LogRecord)
         /\ NewRecords(last_seq + 1, n) \in Seq(LogRecord)
         /\ file' \in Seq(LogRecord) /\ buffered' \in Seq(LogRecord)
         /\ Logged' = (Logged \o <<Market(last_seq + 1)>>) \o NewRecords(last_seq + 1, n)
         /\ DOMAIN file \subseteq DOMAIN file'
         /\ orders' = WithOrders(n) /\ next_local_id' = next_local_id + n
         /\ gateway = "paper" => UNCHANGED <<exchange, seq_base>>
<1> DEFINE market == Market(last_seq + 1)
           news == NewRecords(last_seq + 1, n)
<1>1. n \in Nat /\ next_local_id + n <= MaxLocalId + 1 /\ last_seq + 1 \in Nat
  <2>1. next_local_id + n <= MaxLocalId + 1
    BY DEF FeedEvent
  <2>2. last_seq \in Nat
    BY DEF TypeOK
  <2> QED
    BY <2>1, <2>2
<1>2. market \in LogRecord
  <2>1. 1 \in 1 .. MaxLocalId /\ 0 \in 0 .. OrderQty
    BY Constants
  <2> QED
    BY <1>1, <2>1, RecordTyped DEF Market, Ids
<1>3. news \in Seq(LogRecord)
  BY <1>1, NewRecordsTyped
<1>4. /\ Write(last_seq + 1, <<market>>, news) /\ last_seq' = last_seq + 1 + n
      /\ orders' = WithOrders(n) /\ next_local_id' = next_local_id + n
      /\ gateway = "paper" => UNCHANGED <<exchange, seq_base>>
  BY DEF FeedEvent
<1> HIDE DEF market, news
<1>5. <<market>> \in Seq(LogRecord)
  BY <1>2
<1>6. /\ file' \in Seq(LogRecord) /\ buffered' \in Seq(LogRecord)
      /\ Logged' = (Logged \o <<market>>) \o news
      /\ DOMAIN file \subseteq DOMAIN file'
  BY <1>3, <1>4, <1>5, WriteEffect
<1>7. last_seq' \in Nat
  BY <1>1, <1>4
<1> QED
  BY <1>1, <1>3, <1>4, <1>5, <1>6, <1>7 DEF market, news

LEMMA FeedTyped ==
  ASSUME TypeOK, NEW n \in 0 .. 2, FeedEvent(n)
  PROVE  TypeOK'
<1> DEFINE seq == last_seq + 1
           new == NextIds(n)
           place(id) == CHOOSE i \in 1 .. n : id = Id(next_local_id + i - 1)
<1>1. n \in Nat /\ next_local_id + n <= MaxLocalId + 1 /\ seq \in Nat
  BY FeedEffect
<1>2. /\ OrderMap(orders') /\ next_local_id' \in 1 .. MaxLocalId + 1
      /\ last_seq' \in Nat /\ file' \in Seq(LogRecord) /\ buffered' \in Seq(LogRecord)
      /\ DOMAIN file \subseteq DOMAIN file'
  BY <1>1, FeedEffect, WithOrdersEffect, NextIdsTyped
<1>3. exchange' \in [Ids -> {"none", "sent", "duplicate", "acked", "done"}]
  <2>1. exchange \in [Ids -> {"none", "sent", "duplicate", "acked", "done"}]
    BY DEF TypeOK
  <2>2. \/ exchange' = exchange
        \/ exchange' = [id \in Ids |-> IF id \notin new THEN exchange[id]
                                       ELSE IF exchange[id] = "none" THEN "sent" ELSE "duplicate"]
    BY DEF FeedEvent, NextIds
  <2> HIDE DEF new
  <2> QED
    BY <2>1, <2>2
<1>4. seq_base' \in [Ids -> Nat]
  <2>1. seq_base \in [Ids -> Nat]
    BY DEF TypeOK
  <2>2. \/ seq_base' = seq_base
        \/ seq_base' = [id \in Ids |-> IF \E i \in 1 .. n : id = Id(next_local_id + i - 1)
                                       THEN seq + place(id) ELSE seq_base[id]]
    BY DEF FeedEvent
  <2>3. \A id \in Ids : (\E i \in 1 .. n : id = Id(next_local_id + i - 1)) => place(id) \in 1 .. n
    OBVIOUS
  <2> HIDE DEF place, seq
  <2>4. \A id \in Ids : (\E i \in 1 .. n : id = Id(next_local_id + i - 1)) => seq + place(id) \in Nat
    BY <1>1, <2>3
  <2> QED
    BY <2>1, <2>2, <2>4
<1>5. UNCHANGED <<stream_seq, torn, snapshot, phase, todo, seen_seqs, max_seen, applied, gateway,
                  executed, closed>>
  BY DEF FeedEvent, replayVars
<1>6. TypeOK
  OBVIOUS
<1> QED
  BY <1>2, <1>3, <1>4, <1>5, <1>6 DEF TypeOK

(* A report of the gateway.                                                *)
LEMMA ReportEffect ==
  ASSUME TypeOK, NEW r, Reported(r)
  PROVE  /\ Processed(orders, r, orders') /\ OrderMap(orders')
         /\ orders' = Eng!ProcessEvent(orders, r)
         /\ buffered' \in Seq(LogRecord) /\ Logged' = Append(Logged, r)
         /\ buffered' = Append(buffered, r)
         /\ Live /\ ExchangeTyped'
         /\ UNCHANGED <<next_local_id, last_seq, file, torn, snapshot, phase, todo, seen_seqs, max_seen,
                        applied, gateway, seq_base, before, intact, starts, ahead>>
<1>1. /\ r \in LogRecord /\ Live
      /\ orders' = Eng!ProcessEvent(orders, r) /\ buffered' = Append(buffered, r)
      /\ ExchangeTyped'
      /\ UNCHANGED <<next_local_id, last_seq, file, torn, snapshot, phase, todo, seen_seqs, max_seen,
                     applied, gateway, seq_base, before, intact, starts, ahead>>
  BY DEF Reported, Handle, diskVars, replayVars, stopVars
<1>2. OrderMap(orders)
  BY DEF TypeOK
<1>3. Processed(orders, r, orders')
  BY <1>1, <1>2, ProcessEffect
<1>4. buffered' \in Seq(LogRecord) /\ Logged' = Append(Logged, r)
  <2>1. file \in Seq(LogRecord) /\ buffered \in Seq(LogRecord)
    BY LoggedTyped
  <2>2. file \o Append(buffered, r) = Append(file \o buffered, r)
    BY <1>1, <2>1
  <2> QED
    BY <1>1, <2>1, <2>2 DEF Logged
<1> QED
  BY <1>1, <1>3, <1>4 DEF Processed

LEMMA ReportTyped ==
  ASSUME TypeOK, NEW r, Reported(r)
  PROVE  TypeOK'
<1>1. TypeOK
  OBVIOUS
<1>2. /\ OrderMap(orders') /\ buffered' \in Seq(LogRecord) /\ ExchangeTyped'
      /\ UNCHANGED <<next_local_id, last_seq, file, torn, snapshot, phase, todo, seen_seqs, max_seen,
                     applied, gateway, seq_base>>
  BY ReportEffect
<1> QED
  BY <1>1, <1>2 DEF TypeOK, ExchangeTyped

(* A snapshot holds what the node has.                                     *)
LEMMA SnapshotEffect ==
  ASSUME TypeOK, TakeSnapshot
  PROVE  /\ snapshot'.seq = last_seq /\ snapshot'.orders = orders
         /\ snapshot'.next_local_id = next_local_id
         /\ snapshot'.seq \in Nat /\ OrderMap(snapshot'.orders)
         /\ snapshot'.next_local_id \in 1 .. MaxLocalId + 1
<1>1. /\ snapshot'.seq = last_seq /\ snapshot'.orders = orders
      /\ snapshot'.next_local_id = next_local_id
  BY DEF TakeSnapshot
<1>2. last_seq \in Nat /\ OrderMap(orders) /\ next_local_id \in 1 .. MaxLocalId + 1
  BY DEF TypeOK
<1> QED
  BY <1>1, <1>2

LEMMA HeartbeatTyped ==
  ASSUME TypeOK, Heartbeat
  PROVE  TypeOK'
<1>1. TypeOK
  OBVIOUS
<1>2. /\ snapshot'.seq \in Nat /\ OrderMap(snapshot'.orders)
      /\ snapshot'.next_local_id \in 1 .. MaxLocalId + 1
  BY SnapshotEffect DEF Heartbeat
<1>3. UNCHANGED <<orders, next_local_id, last_seq, stream_seq, file, torn, buffered, phase, todo,
                  seen_seqs, max_seen, applied, gateway, exchange, seq_base, executed, closed>>
  BY DEF Heartbeat, trackerVars, replayVars, exchangeVars
<1> QED
  BY <1>1, <1>2, <1>3 DEF TypeOK

(* A stop leaves the files.                                                *)
LEMMA NoOrdersTyped == OrderMap(NoOrders) /\ DOMAIN NoOrders = {}
  BY DEF OrderMap, NoOrders

LEMMA StopTyped ==
  ASSUME TypeOK, Down, file' \in Seq(LogRecord), buffered' = <<>>, torn' \in BOOLEAN,
         snapshot'.seq \in Nat, OrderMap(snapshot'.orders),
         snapshot'.next_local_id \in 1 .. MaxLocalId + 1
  PROVE  TypeOK'
<1>1. /\ phase' = "down" /\ orders' = NoOrders /\ next_local_id' = 1 /\ last_seq' = 0
      /\ todo' = {} /\ max_seen' = 0 /\ seen_seqs' = {} /\ applied' = <<>> /\ stream_seq' = StreamBase
      /\ UNCHANGED <<gateway, executed, closed>>
  BY DEF Down, NewDeduplicator
<1>2. exchange' \in [Ids -> {"none", "sent", "duplicate", "acked", "done"}]
      /\ seq_base' \in [Ids -> Nat]
  BY DEF TypeOK, Down
<1>3. 1 \in 1 .. MaxLocalId + 1 /\ StreamBase \in Nat
  BY Constants
<1>4. gateway \in Gateways /\ executed \in [Ids -> 0 .. OrderQty] /\ closed \subseteq Ids
  BY DEF TypeOK
<1>5. OrderMap(orders')
  BY <1>1, NoOrdersTyped
<1>6. buffered' \in Seq(LogRecord) /\ applied' \in Seq(Nat)
  BY <1>1
<1> QED
  BY <1>1, <1>2, <1>3, <1>4, <1>5, <1>6 DEF TypeOK

LEMMA ShutdownTyped ==
  ASSUME TypeOK, Shutdown
  PROVE  TypeOK'
<1>1. /\ file' = Logged /\ buffered' = <<>> /\ TakeSnapshot /\ Down /\ torn' = torn
  BY DEF Shutdown
<1>2. file' \in Seq(LogRecord) /\ torn' \in BOOLEAN
  BY <1>1, LoggedTyped DEF TypeOK
<1> QED
  BY <1>1, <1>2, SnapshotEffect, StopTyped

(* What a crash leaves in the file is the beginning of what was logged.    *)
LEMMA CrashEffect ==
  ASSUME TypeOK, Crash
  PROVE  \E k \in 0 .. Len(buffered) :
           /\ file' \in Seq(LogRecord)
           /\ DOMAIN file \subseteq DOMAIN file' /\ DOMAIN file' \subseteq DOMAIN Logged
           /\ \A i \in DOMAIN file' : file'[i] = Logged[i]
           /\ torn' \in BOOLEAN /\ (torn => torn') /\ (k < Len(buffered) \/ torn' = torn)
           /\ intact' = (Live /\ k = Len(buffered) /\ ~torn)
           /\ k = Len(buffered) => file' = Logged
<1>1. PICK k \in 0 .. Len(buffered) :
        /\ file' = file \o SubSeq(buffered, 1, k)
        /\ torn' \in {torn} \cup (IF k < Len(buffered) THEN {TRUE} ELSE {})
        /\ intact' = (Live /\ k = Len(buffered) /\ ~torn)
  BY DEF Crash
<1>2. file \in Seq(LogRecord) /\ buffered \in Seq(LogRecord) /\ torn \in BOOLEAN
  BY DEF TypeOK
<1> DEFINE kept == SubSeq(buffered, 1, k)
<1>3. /\ Len(buffered) \in Nat /\ k \in Nat /\ k <= Len(buffered)
      /\ DOMAIN buffered = 1 .. Len(buffered)
  BY <1>2
<1>4. kept \in Seq(LogRecord) /\ Len(kept) = k /\ \A i \in 1 .. k : kept[i] = buffered[i]
  BY <1>2, <1>3, SubSeqProperties
<1>5. k = Len(buffered) => kept = buffered
  BY <1>2, <1>3, <1>4
<1> HIDE DEF kept
<1>6. /\ file \o kept \in Seq(LogRecord) /\ DOMAIN file \subseteq DOMAIN (file \o kept)
      /\ DOMAIN (file \o kept) = 1 .. Len(file) + k /\ Len(file) \in Nat
      /\ \A i \in DOMAIN file : (file \o kept)[i] = file[i]
      /\ \A i \in DOMAIN kept : (file \o kept)[Len(file) + i] = kept[i]
      /\ DOMAIN kept = 1 .. k /\ DOMAIN file = 1 .. Len(file)
  <2>1. file \in Seq(LogRecord) /\ kept \in Seq(LogRecord)
    BY <1>2, <1>4
  <2>2. /\ file \o kept \in Seq(LogRecord) /\ DOMAIN file \subseteq DOMAIN (file \o kept)
        /\ Len(file) \in Nat
        /\ DOMAIN (file \o kept) = 1 .. Len(file) + Len(kept)
        /\ \A i \in DOMAIN file : (file \o kept)[i] = file[i]
        /\ \A i \in DOMAIN kept : (file \o kept)[Len(file) + i] = kept[i]
        /\ DOMAIN kept = 1 .. Len(kept) /\ DOMAIN file = 1 .. Len(file)
    BY <2>1, ConcatKeeps
  <2> QED
    BY <1>4, <2>2
<1>7. /\ DOMAIN Logged = 1 .. Len(file) + Len(buffered)
      /\ \A i \in DOMAIN file : Logged[i] = file[i]
      /\ \A i \in DOMAIN buffered : Logged[Len(file) + i] = buffered[i]
  BY <1>2, ConcatKeeps DEF Logged
<1>8. DOMAIN (file \o kept) \subseteq DOMAIN Logged
  BY <1>3, <1>6, <1>7
<1>9. \A i \in DOMAIN (file \o kept) : (file \o kept)[i] = Logged[i]
  <2> SUFFICES ASSUME NEW i \in DOMAIN (file \o kept)
               PROVE  (file \o kept)[i] = Logged[i]
    OBVIOUS
  <2>1. CASE i \in DOMAIN file
    BY <1>6, <1>7, <2>1
  <2>2. CASE i \notin DOMAIN file
    <3>1. PICK j \in 1 .. k : i = Len(file) + j
      <4>1. i - Len(file) \in 1 .. k /\ i = Len(file) + (i - Len(file))
        BY <1>3, <1>6, <2>2
      <4> QED
        BY <4>1
    <3>2. j \in DOMAIN buffered /\ j \in DOMAIN kept
      BY <1>3, <1>6
    <3> QED
      BY <1>4, <1>6, <1>7, <3>1, <3>2
  <2> QED
    BY <2>1, <2>2
<1>10. /\ file' = file \o kept
       /\ torn' \in BOOLEAN /\ (torn => torn') /\ (k < Len(buffered) \/ torn' = torn)
  BY <1>1, <1>2 DEF kept
<1>11. k = Len(buffered) => file' = Logged
  BY <1>5, <1>10 DEF Logged
<1> QED
  BY <1>1, <1>6, <1>8, <1>9, <1>10, <1>11

LEMMA CrashTyped ==
  ASSUME TypeOK, Crash
  PROVE  TypeOK'
<1>1. buffered' = <<>> /\ Down /\ snapshot' = snapshot
  BY DEF Crash
<1>2. file' \in Seq(LogRecord) /\ torn' \in BOOLEAN
  BY CrashEffect
<1>3. /\ snapshot.seq \in Nat /\ OrderMap(snapshot.orders)
      /\ snapshot.next_local_id \in 1 .. MaxLocalId + 1
  BY DEF TypeOK
<1>4. /\ snapshot'.seq \in Nat /\ OrderMap(snapshot'.orders)
      /\ snapshot'.next_local_id \in 1 .. MaxLocalId + 1
  BY <1>1, <1>3
<1> QED
  BY <1>1, <1>2, <1>4, StopTyped

(* The records after the snapshot, and the number after the last of them.  *)
LEMMA PlanEffect ==
  ASSUME TypeOK
  PROVE  /\ ToReplay \subseteq DOMAIN file /\ ExpectedNextSeq \in Nat
         /\ ToReplay = {} => ExpectedNextSeq = snapshot.seq + 1
         /\ ToReplay # {} => \E m \in ToReplay : /\ ExpectedNextSeq = file[m].seq + 1
                                                 /\ \A i \in ToReplay : i <= m
<1>1. ToReplay \subseteq DOMAIN file /\ snapshot.seq \in Nat
  BY DEF ToReplay, TypeOK
<1>2. CASE ToReplay = {}
  <2>1. ExpectedNextSeq = snapshot.seq + 1
    BY <1>2 DEF ExpectedNextSeq
  <2> QED
    BY <1>1, <1>2, <2>1
<1>3. CASE ToReplay # {}
  <2>1. Len(file) \in Nat /\ DOMAIN file = 1 .. Len(file) /\ \A i \in DOMAIN file : file[i].seq \in Nat
    BY LoggedTyped
  <2>2. Max(ToReplay) \in ToReplay /\ \A i \in ToReplay : i <= Max(ToReplay)
    BY <1>1, <1>3, <2>1, MaxIs
  <2>3. ExpectedNextSeq = file[Max(ToReplay)].seq + 1
    BY <1>3 DEF ExpectedNextSeq
  <2>4. file[Max(ToReplay)].seq \in Nat
    BY <1>1, <2>1, <2>2
  <2> QED
    BY <1>1, <1>3, <2>2, <2>3, <2>4
<1> QED
  BY <1>2, <1>3

LEMMA StartEffect ==
  ASSUME TypeOK, Start
  PROVE  /\ phase = "down" /\ ~torn /\ phase' = "replaying"
         /\ orders' = snapshot.orders /\ next_local_id' = snapshot.next_local_id
         /\ todo' = ToReplay /\ last_seq' = ExpectedNextSeq
         /\ max_seen' = snapshot.seq /\ seen_seqs' = {} /\ applied' = <<>> /\ stream_seq' = StreamBase
         /\ seq_base' = [id \in Ids |-> last_seq']
         /\ UNCHANGED <<file, torn, snapshot, buffered, gateway, exchange, executed, closed, before,
                        intact, ahead>>
  BY DEF Start, NewDeduplicator, diskVars

LEMMA StartTyped ==
  ASSUME TypeOK, Start
  PROVE  TypeOK'
<1>1. TypeOK
  OBVIOUS
<1>2. /\ phase' = "replaying" /\ orders' = snapshot.orders /\ next_local_id' = snapshot.next_local_id
      /\ todo' = ToReplay /\ last_seq' = ExpectedNextSeq
      /\ max_seen' = snapshot.seq /\ seen_seqs' = {} /\ applied' = <<>> /\ stream_seq' = StreamBase
      /\ seq_base' = [id \in Ids |-> last_seq']
      /\ UNCHANGED <<file, torn, snapshot, buffered, gateway, exchange, executed, closed>>
  BY StartEffect
<1>3. last_seq' \in Nat /\ todo' \subseteq DOMAIN file
  BY <1>2, PlanEffect
<1>4. OrderMap(snapshot.orders) /\ StreamBase \in Nat
  BY Constants DEF TypeOK
<1>5. seq_base' \in [Ids -> Nat] /\ applied' \in Seq(Nat)
  BY <1>2, <1>3
<1>6. OrderMap(orders')
  BY <1>2, <1>4
<1> QED
  BY <1>1, <1>2, <1>3, <1>4, <1>5, <1>6 DEF TypeOK

LEMMA ColdStartEffect ==
  ASSUME TypeOK, ColdStart
  PROVE  /\ phase = "down" /\ torn /\ phase' = "replaying"
         /\ orders' = NoOrders /\ next_local_id' = 1 /\ todo' = {} /\ last_seq' = 1
         /\ max_seen' = 0 /\ seen_seqs' = {} /\ applied' = <<>> /\ stream_seq' = StreamBase
         /\ seq_base' = [id \in Ids |-> 1]
         /\ UNCHANGED <<file, torn, snapshot, buffered, gateway, exchange, executed, closed, before,
                        intact, ahead>>
  BY DEF ColdStart, NewDeduplicator, diskVars

LEMMA ColdStartTyped ==
  ASSUME TypeOK, ColdStart
  PROVE  TypeOK'
<1>1. TypeOK
  OBVIOUS
<1>2. /\ phase' = "replaying" /\ orders' = NoOrders /\ next_local_id' = 1
      /\ todo' = {} /\ last_seq' = 1
      /\ max_seen' = 0 /\ seen_seqs' = {} /\ applied' = <<>> /\ stream_seq' = StreamBase
      /\ seq_base' = [id \in Ids |-> 1]
      /\ UNCHANGED <<file, torn, snapshot, buffered, gateway, exchange, executed, closed>>
  BY ColdStartEffect
<1>3. 1 \in 1 .. MaxLocalId + 1 /\ StreamBase \in Nat
  BY Constants
<1>4. seq_base' \in [Ids -> Nat] /\ applied' \in Seq(Nat)
  BY <1>2
<1>5. OrderMap(orders')
  BY <1>2, NoOrdersTyped
<1> QED
  BY <1>1, <1>2, <1>3, <1>4, <1>5 DEF TypeOK

(* The next record to replay.                                              *)
LEMMA UpcomingIs ==
  ASSUME TypeOK, todo # {}
  PROVE  \E m \in todo : /\ m = Min(todo) /\ \A i \in todo : m <= i
                         /\ m \in DOMAIN file /\ Upcoming = file[m]
                         /\ Upcoming \in LogRecord /\ Upcoming.seq \in Nat
<1>1. /\ todo \subseteq DOMAIN file /\ DOMAIN file = 1 .. Len(file) /\ Len(file) \in Nat
      /\ \A i \in DOMAIN file : file[i] \in LogRecord /\ file[i].seq \in Nat
  BY LoggedTyped DEF TypeOK
<1>2. todo \in SUBSET Nat
  BY <1>1
<1>3. Min(todo) \in todo /\ \A i \in todo : Min(todo) <= i
  BY <1>2, MinIs
<1>4. Upcoming = file[Min(todo)]
  BY DEF Upcoming
<1> QED
  BY <1>1, <1>3, <1>4

LEMMA ReplayEffect ==
  ASSUME TypeOK, ReplayEvent
  PROVE  /\ phase = "replaying" /\ todo # {} /\ ~Duplicate
         /\ todo' = todo \ {Min(todo)}
         /\ max_seen' = MaxOf(max_seen, Upcoming.seq) /\ max_seen' \in Nat
         /\ seen_seqs' = Pruned(seen_seqs \cup {Upcoming.seq}, max_seen')
         /\ seen_seqs' \subseteq seen_seqs \cup {Upcoming.seq}
         /\ applied' = Append(applied, Upcoming.seq) /\ Upcoming.seq \in Nat
         /\ orders' = Eng!ProcessEvent(orders, Upcoming)
         /\ Processed(orders, Upcoming, orders') /\ OrderMap(orders')
         /\ UNCHANGED <<next_local_id, last_seq, stream_seq, file, torn, snapshot, buffered, phase,
                        gateway, exchange, seq_base, executed, closed, before, intact, starts, ahead>>
<1>1. /\ phase = "replaying" /\ todo # {} /\ ~Duplicate
      /\ todo' = todo \ {Min(todo)}
      /\ max_seen' = MaxOf(max_seen, Upcoming.seq)
      /\ seen_seqs' = Pruned(seen_seqs \cup {Upcoming.seq}, max_seen')
      /\ applied' = Append(applied, Upcoming.seq)
      /\ orders' = Eng!ProcessEvent(orders, Upcoming)
      /\ UNCHANGED <<next_local_id, last_seq, stream_seq, file, torn, snapshot, buffered, phase,
                     gateway, exchange, seq_base, executed, closed, before, intact, starts, ahead>>
  BY DEF ReplayEvent, diskVars, exchangeVars, stopVars
<1>2. Upcoming \in LogRecord /\ Upcoming.seq \in Nat
  BY <1>1, UpcomingIs
<1>3. OrderMap(orders) /\ max_seen \in Nat
  BY DEF TypeOK
<1>4. Processed(orders, Upcoming, orders') /\ OrderMap(orders')
  BY <1>1, <1>2, <1>3, ProcessEffect DEF Processed
<1>5. max_seen' \in Nat
  BY <1>1, <1>2, <1>3 DEF MaxOf
<1>6. seen_seqs' \subseteq seen_seqs \cup {Upcoming.seq}
  BY <1>1 DEF Pruned
<1> QED
  BY <1>1, <1>2, <1>4, <1>5, <1>6

LEMMA ReplayTyped ==
  ASSUME TypeOK, ReplayEvent
  PROVE  TypeOK'
<1>1. TypeOK
  OBVIOUS
<1>2. /\ OrderMap(orders') /\ max_seen' \in Nat /\ todo' \subseteq todo
      /\ seen_seqs' \subseteq seen_seqs \cup {Upcoming.seq} /\ Upcoming.seq \in Nat
      /\ applied' = Append(applied, Upcoming.seq)
      /\ UNCHANGED <<next_local_id, last_seq, stream_seq, file, torn, snapshot, buffered, phase,
                     gateway, exchange, seq_base, executed, closed>>
  BY ReplayEffect
<1>3. seen_seqs' \subseteq Nat /\ applied' \in Seq(Nat)
  BY <1>2 DEF TypeOK
<1> QED
  BY <1>1, <1>2, <1>3 DEF TypeOK

LEMMA ReplayDuplicateTyped ==
  ASSUME TypeOK, ReplayDuplicate
  PROVE  TypeOK'
<1>1. TypeOK
  OBVIOUS
<1>2. /\ todo' \subseteq todo
      /\ UNCHANGED <<orders, next_local_id, last_seq, stream_seq, file, torn, snapshot, buffered, phase,
                     seen_seqs, max_seen, applied, gateway, exchange, seq_base, executed, closed>>
  BY DEF ReplayDuplicate, trackerVars, diskVars, exchangeVars
<1> QED
  BY <1>1, <1>2 DEF TypeOK

LEMMA ReadyEffect ==
  ASSUME TypeOK, Ready
  PROVE  /\ phase = "replaying" /\ todo = {} /\ phase' = "live"
         /\ max_seen' = 0 /\ seen_seqs' = {} /\ applied' = <<>> /\ stream_seq' = StreamBase
         /\ before' = NoOrders /\ intact' = FALSE
         /\ UNCHANGED <<orders, next_local_id, last_seq, file, torn, snapshot, buffered, todo, gateway,
                        exchange, seq_base, executed, closed, starts, ahead>>
  BY DEF Ready, Replayed, NewDeduplicator, trackerVars, diskVars, exchangeVars

LEMMA ReadyTyped ==
  ASSUME TypeOK, Ready
  PROVE  TypeOK'
<1>1. TypeOK
  OBVIOUS
<1>2. /\ phase' = "live"
      /\ max_seen' = 0 /\ seen_seqs' = {} /\ applied' = <<>> /\ stream_seq' = StreamBase
      /\ UNCHANGED <<orders, next_local_id, last_seq, file, torn, snapshot, buffered, todo, gateway,
                     exchange, seq_base, executed, closed>>
  BY ReadyEffect
<1>3. StreamBase \in Nat /\ applied' \in Seq(Nat)
  BY <1>2, Constants
<1> QED
  BY <1>1, <1>2, <1>3 DEF TypeOK

LEMMA StutterTyped ==
  ASSUME TypeOK, UNCHANGED vars
  PROVE  TypeOK'
<1>1. TypeOK
  OBVIOUS
<1>2. UNCHANGED <<orders, next_local_id, last_seq, stream_seq, file, torn, snapshot, buffered, phase,
                  todo, seen_seqs, max_seen, applied, gateway, exchange, seq_base, executed, closed>>
  BY DEF vars, trackerVars, diskVars, replayVars, exchangeVars
<1> QED
  BY <1>1, <1>2 DEF TypeOK

(* The steps of the node.                                                  *)
LEMMA Steps ==
  ASSUME TypeOK, [Next]_vars
  PROVE  \/ \E n \in 0 .. 2 : FeedEvent(n)
         \/ \E r : Reported(r)
         \/ Heartbeat \/ Shutdown \/ Crash
         \/ Start \/ ColdStart \/ ReplayDuplicate \/ ReplayEvent \/ Ready
         \/ UNCHANGED vars
  BY GatewayReports DEF Next

LEMMA StepTyped ==
  ASSUME TypeOK, [Next]_vars
  PROVE  TypeOK'
  BY Steps, FeedTyped, ReportTyped, HeartbeatTyped, ShutdownTyped, CrashTyped, StartTyped,
     ColdStartTyped, ReplayTyped, ReplayDuplicateTyped, ReadyTyped, StutterTyped

LEMMA InitTyped ==
  ASSUME Init
  PROVE  TypeOK
<1>1. /\ orders = NoOrders /\ next_local_id = 1
      /\ last_seq = 1 /\ stream_seq = StreamBase
      /\ file = <<>> /\ torn = FALSE /\ buffered = <<>> /\ snapshot = NoSnapshot
      /\ phase = "live" /\ todo = {} /\ seen_seqs = {} /\ max_seen = 0 /\ applied = <<>>
      /\ gateway \in Gateways
      /\ exchange = [id \in Ids |-> "none"] /\ seq_base = [id \in Ids |-> 0]
      /\ executed = [id \in Ids |-> 0] /\ closed = {}
  BY DEF Init, Eng!Init, NoOrders
<1>2. 1 \in 1 .. MaxLocalId + 1 /\ StreamBase \in Nat /\ 0 \in 0 .. OrderQty
  BY Constants
<1>3. OrderMap(orders)
  BY <1>1, NoOrdersTyped
<1>4. snapshot.seq = 0 /\ snapshot.orders = NoOrders /\ snapshot.next_local_id = 1
  BY <1>1 DEF NoSnapshot
<1>5. OrderMap(snapshot.orders)
  BY <1>4, NoOrdersTyped
<1>6. /\ file \in Seq(LogRecord) /\ buffered \in Seq(LogRecord) /\ applied \in Seq(Nat)
      /\ exchange \in [Ids -> {"none", "sent", "duplicate", "acked", "done"}]
      /\ seq_base \in [Ids -> Nat] /\ executed \in [Ids -> 0 .. OrderQty]
  BY <1>1, <1>2
<1>7. {last_seq, stream_seq, max_seen, snapshot.seq} \subseteq Nat
  BY <1>1, <1>2, <1>4
<1> QED
  BY <1>1, <1>2, <1>3, <1>4, <1>5, <1>6, <1>7 DEF TypeOK

(***************************************************************************)
(* The tracker, the log, the snapshot, the deduplicator and the exchange   *)
(* hold values of their types through every crash and restart: ids of the  *)
(* tracker, orders with numbers that do not go below zero, whole records.  *)
(***************************************************************************)
THEOREM TypeCorrect == Spec => []TypeOK
<1>1. Init => TypeOK
  BY InitTyped
<1>2. TypeOK /\ [Next]_vars => TypeOK'
  BY StepTyped
<1> QED
  BY <1>1, <1>2, PTL DEF Spec

-----------------------------------------------------------------------------
(* What the replay's deduplicator promises.                                *)

(* Nothing applied, nothing to apply that is not new.                      *)
LEMMA DedupReset ==
  ASSUME applied' = <<>>, phase' # "replaying" => todo' = {},
         \A i \in todo' : file'[i].seq > max_seen'
  PROVE  DedupInv'
<1>1. DOMAIN applied' = {}
  OBVIOUS
<1>2. NoDoubleReplay'
  BY <1>1 DEF NoDoubleReplay
<1> QED
  BY <1>1, <1>2 DEF DedupInv

(* Nothing applied by this step.                                           *)
LEMMA DedupKept ==
  ASSUME DedupInv, UNCHANGED <<phase, seen_seqs, max_seen, applied>>,
         todo' \subseteq todo, todo' = {} \/ file' = file
  PROVE  DedupInv'
<1>1. NoDoubleReplay'
  BY DEF NoDoubleReplay, DedupInv
<1>2. phase # "replaying" => todo' = {}
  BY DEF DedupInv
<1>3. (\A i \in DOMAIN applied : applied[i] <= max_seen /\ Remembered(applied[i]))'
  BY DEF DedupInv, Remembered
<1>4. IF applied = <<>> THEN \A i \in todo' : file'[i].seq > max_seen
                        ELSE \E k \in DOMAIN applied : applied[k] = max_seen
  BY DEF DedupInv
<1> QED
  BY <1>1, <1>2, <1>3, <1>4 DEF DedupInv

(* A record is applied: it was not seen, or was forgotten.                 *)
LEMMA DedupApplied ==
  ASSUME TypeOK, DedupInv, ReplayEvent
  PROVE  DedupInv'
<1> DEFINE s == Upcoming.seq
           n == Len(applied)
<1>1. /\ phase' = "replaying" /\ todo # {} /\ ~Duplicate
      /\ max_seen' = MaxOf(max_seen, s) /\ max_seen' \in Nat /\ s \in Nat
      /\ seen_seqs' = Pruned(seen_seqs \cup {s}, max_seen')
      /\ applied' = Append(applied, s)
  BY ReplayEffect
<1>2. max_seen \in Nat /\ applied \in Seq(Nat) /\ Keep \in Nat /\ seen_seqs \subseteq Nat
  BY Constants DEF TypeOK
<1>3. s > max_seen \/ s \notin seen_seqs
  BY <1>1, <1>2 DEF Duplicate
<1>4. applied = <<>> => s > max_seen
  <2>1. PICK m \in todo : Upcoming = file[m]
    BY <1>1, UpcomingIs
  <2> QED
    BY <2>1 DEF DedupInv
<1> HIDE DEF s
<1>5. max_seen' >= max_seen /\ max_seen' >= s /\ (max_seen' = s \/ (max_seen' = max_seen /\ ~(s > max_seen)))
  BY <1>1, <1>2 DEF MaxOf
<1>6. /\ n \in Nat /\ DOMAIN applied = 1 .. n
      /\ DOMAIN applied' = 1 .. n + 1 /\ applied'[n + 1] = s
      /\ \A i \in 1 .. n : applied'[i] = applied[i] /\ applied[i] \in Nat
  <2>1. n \in Nat /\ DOMAIN applied = 1 .. n /\ \A i \in 1 .. n : applied[i] \in Nat
    BY <1>2
  <2>2. applied' = Append(applied, s) /\ s \in Nat /\ applied \in Seq(Nat)
    BY <1>1, <1>2
  <2>3. /\ Len(Append(applied, s)) = n + 1 /\ Append(applied, s)[n + 1] = s
        /\ DOMAIN Append(applied, s) = 1 .. n + 1
        /\ \A i \in 1 .. n : Append(applied, s)[i] = applied[i]
    BY <2>2
  <2> QED
    BY <2>1, <2>2, <2>3
<1> HIDE DEF n
<1>7. \E k \in DOMAIN applied' : applied'[k] = max_seen'
  <2>1. CASE max_seen' = s
    <3>1. n + 1 \in DOMAIN applied'
      BY <1>6
    <3> QED
      BY <1>6, <2>1, <3>1
  <2>2. CASE max_seen' = max_seen /\ ~(s > max_seen)
    <3>1. PICK k \in DOMAIN applied : applied[k] = max_seen
      BY <1>4, <2>2 DEF DedupInv
    <3>2. k \in DOMAIN applied' /\ applied'[k] = applied[k]
      BY <1>6
    <3> QED
      BY <2>2, <3>1, <3>2
  <2> QED
    BY <1>5, <2>1, <2>2
<1>8. ASSUME NEW i \in DOMAIN applied'
      PROVE  /\ applied'[i] <= max_seen'
             /\ \/ applied'[i] \in seen_seqs'
                \/ \E k \in DOMAIN applied' : applied'[k] >= applied'[i] + Keep
  <2>1. i \in 1 .. n \/ i = n + 1
    BY <1>6
  <2>2. applied'[i] \in Nat /\ applied'[i] <= max_seen'
    <3>1. CASE i \in 1 .. n
      <4>1. applied[i] <= max_seen /\ applied'[i] = applied[i] /\ applied[i] \in Nat
        BY <1>6, <3>1 DEF DedupInv
      <4> QED
        BY <1>1, <1>2, <1>5, <4>1
    <3>2. CASE i = n + 1
      BY <1>1, <1>5, <1>6, <3>2
    <3> QED
      BY <2>1, <3>1, <3>2
  <2>3. applied'[i] \in seen_seqs \cup {s} \/ \E k \in DOMAIN applied' : applied'[k] >= applied'[i] + Keep
    <3>1. CASE i \in 1 .. n
      <4>1. Remembered(applied[i]) /\ applied'[i] = applied[i]
        BY <1>6, <3>1 DEF DedupInv
      <4>2. CASE applied[i] \in seen_seqs
        BY <4>1, <4>2
      <4>3. CASE \E k \in DOMAIN applied : applied[k] >= applied[i] + Keep
        <5>1. PICK k \in DOMAIN applied : applied[k] >= applied[i] + Keep
          BY <4>3
        <5>2. k \in DOMAIN applied' /\ applied'[k] = applied[k]
          BY <1>6
        <5> QED
          BY <4>1, <5>1, <5>2
      <4> QED
        BY <4>1, <4>2, <4>3 DEF Remembered
    <3>2. CASE i = n + 1
      BY <1>6, <3>2
    <3> QED
      BY <2>1, <3>1, <3>2
  <2>4. applied'[i] \in seen_seqs \cup {s} =>
          applied'[i] \in seen_seqs' \/ applied'[i] + Keep <= max_seen'
    <3>1. \A q \in seen_seqs \cup {s} : q + Keep > max_seen' => q \in seen_seqs'
      <4>1. CASE Cardinality(seen_seqs \cup {s}) > PruneAt
        BY <1>1, <4>1 DEF Pruned
      <4>2. CASE ~(Cardinality(seen_seqs \cup {s}) > PruneAt)
        BY <1>1, <4>2 DEF Pruned
      <4> QED
        BY <4>1, <4>2
    <3>2. ~(applied'[i] + Keep > max_seen') => applied'[i] + Keep <= max_seen'
      BY <1>1, <1>2, <2>2
    <3> QED
      BY <3>1, <3>2
  <2>5. applied'[i] + Keep <= max_seen' => \E k \in DOMAIN applied' : applied'[k] >= applied'[i] + Keep
    <3>1. PICK k \in DOMAIN applied' : applied'[k] = max_seen'
      BY <1>7
    <3> QED
      BY <1>1, <1>2, <2>2, <3>1
  <2> QED
    BY <2>2, <2>3, <2>4, <2>5
<1>9. NoDoubleReplay'
  <2> SUFFICES ASSUME NEW i \in DOMAIN applied', NEW j \in DOMAIN applied',
                      i < j, applied'[i] = applied'[j]
               PROVE  \E k \in 1 .. j - 1 : applied'[k] >= applied'[j] + Keep
    BY DEF NoDoubleReplay
  <2>1. i \in 1 .. n /\ applied'[i] = applied[i] /\ (j \in 1 .. n \/ j = n + 1)
    BY <1>6
  <2>2. CASE j \in 1 .. n
    <3>1. applied'[j] = applied[j] /\ applied[i] = applied[j]
      BY <1>6, <2>1, <2>2
    <3>2. PICK k \in 1 .. j - 1 : applied[k] >= applied[j] + Keep
      BY <1>6, <2>1, <2>2, <3>1 DEF DedupInv, NoDoubleReplay
    <3>3. k \in 1 .. n
      BY <1>6, <2>2
    <3> QED
      BY <1>6, <3>1, <3>2, <3>3
  <2>3. CASE j = n + 1
    <3>1. applied[i] = s /\ applied'[j] = s
      BY <1>6, <2>1, <2>3
    <3>2. applied[i] <= max_seen /\ Remembered(applied[i])
      BY <1>6, <2>1 DEF DedupInv
    <3>3. s \notin seen_seqs
      BY <1>1, <1>2, <1>3, <3>1, <3>2
    <3>4. PICK k \in DOMAIN applied : applied[k] >= s + Keep
      BY <3>1, <3>2, <3>3 DEF Remembered
    <3>5. k \in 1 .. j - 1 /\ applied'[k] = applied[k]
      BY <1>6, <2>3
    <3> QED
      BY <3>1, <3>4, <3>5
  <2> QED
    BY <2>1, <2>2, <2>3
<1>10. applied' # <<>>
  BY <1>6
<1>11. (\A i \in DOMAIN applied : applied[i] <= max_seen /\ Remembered(applied[i]))'
  BY <1>8 DEF Remembered
<1> QED
  BY <1>1, <1>7, <1>9, <1>10, <1>11 DEF DedupInv

LEMMA DedupStep ==
  ASSUME TypeOK, DedupInv, [Next]_vars
  PROVE  DedupInv'
<1>1. Live => todo = {}
  BY DEF DedupInv, Live
<1>2. CASE \E n \in 0 .. 2 : FeedEvent(n)
  <2>1. Live /\ UNCHANGED <<phase, todo, seen_seqs, max_seen, applied>>
    BY <1>2 DEF FeedEvent, replayVars
  <2> QED
    BY <1>1, <2>1, DedupKept
<1>3. CASE \E r : Reported(r)
  <2>1. Live /\ UNCHANGED <<phase, todo, seen_seqs, max_seen, applied>>
    BY <1>3, ReportEffect
  <2> QED
    BY <1>1, <2>1, DedupKept
<1>4. CASE Heartbeat
  <2>1. Live /\ UNCHANGED <<phase, todo, seen_seqs, max_seen, applied>>
    BY <1>4 DEF Heartbeat, replayVars
  <2> QED
    BY <1>1, <2>1, DedupKept
<1>5. CASE Shutdown \/ Crash
  <2>1. applied' = <<>> /\ todo' = {}
    BY <1>5 DEF Shutdown, Crash, Down, NewDeduplicator
  <2> QED
    BY <2>1, DedupReset
<1>6. CASE Start
  <2>1. /\ applied' = <<>> /\ phase' = "replaying" /\ todo' = ToReplay
        /\ max_seen' = snapshot.seq /\ file' = file
    BY <1>6, StartEffect
  <2>2. \A i \in todo' : file'[i].seq > max_seen'
    BY <2>1 DEF ToReplay
  <2> QED
    BY <2>1, <2>2, DedupReset
<1>7. CASE ColdStart
  <2>1. applied' = <<>> /\ todo' = {}
    BY <1>7, ColdStartEffect
  <2> QED
    BY <2>1, DedupReset
<1>8. CASE ReplayDuplicate
  <2>1. todo' \subseteq todo /\ UNCHANGED <<phase, file, seen_seqs, max_seen, applied>>
    BY <1>8 DEF ReplayDuplicate, diskVars
  <2> QED
    BY <2>1, DedupKept
<1>9. CASE ReplayEvent
  BY <1>9, DedupApplied
<1>10. CASE Ready
  <2>1. applied' = <<>> /\ todo' = {}
    BY <1>10, ReadyEffect
  <2> QED
    BY <2>1, DedupReset
<1>11. CASE UNCHANGED vars
  <2>1. UNCHANGED <<phase, todo, file, seen_seqs, max_seen, applied>>
    BY <1>11 DEF vars, diskVars, replayVars
  <2> QED
    BY <2>1, DedupKept
<1> QED
  BY Steps, <1>2, <1>3, <1>4, <1>5, <1>6, <1>7, <1>8, <1>9, <1>10, <1>11

LEMMA DedupInvariant == Spec => []DedupInv
<1>1. Init => DedupInv
  <2> SUFFICES ASSUME Init PROVE DedupInv
    OBVIOUS
  <2>1. applied = <<>> /\ todo = {} /\ DOMAIN applied = {}
    BY DEF Init
  <2> QED
    BY <2>1 DEF DedupInv, NoDoubleReplay
<1>2. TypeOK /\ DedupInv /\ [Next]_vars => DedupInv'
  BY DedupStep
<1> QED
  BY <1>1, <1>2, TypeCorrect, PTL DEF Spec

(***************************************************************************)
(* EventDeduplicator::check: whatever log, snapshot and prune interval a   *)
(* replay meets, it applies a sequence number twice only after a number    *)
(* higher by Keep or more was applied in between.  It rests on DedupInv:   *)
(* each number applied is remembered or far below one applied.             *)
(***************************************************************************)
THEOREM ReplayedOnce == Spec => []NoDoubleReplay
<1>1. DedupInv => NoDoubleReplay
  BY DEF DedupInv
<1> QED
  BY <1>1, DedupInvariant, PTL

-----------------------------------------------------------------------------
(* Sequence numbers without a gateway.                                     *)

(* Every record of a concatenation is one of the one or of the other.      *)
LEMMA ConcatSplits ==
  ASSUME NEW s \in Seq(LogRecord), NEW t \in Seq(LogRecord), NEW k \in DOMAIN (s \o t)
  PROVE  \/ k \in DOMAIN s /\ (s \o t)[k] = s[k]
         \/ \E j \in DOMAIN t : k = Len(s) + j /\ (s \o t)[k] = t[j]
<1>1. /\ Len(s) \in Nat /\ Len(t) \in Nat
      /\ DOMAIN (s \o t) = 1 .. Len(s) + Len(t) /\ DOMAIN s = 1 .. Len(s) /\ DOMAIN t = 1 .. Len(t)
      /\ \A i \in DOMAIN s : (s \o t)[i] = s[i]
      /\ \A i \in DOMAIN t : (s \o t)[Len(s) + i] = t[i]
  BY ConcatKeeps
<1>2. CASE k \in DOMAIN s
  BY <1>1, <1>2
<1>3. CASE k \notin DOMAIN s
  <2>1. k - Len(s) \in DOMAIN t /\ k = Len(s) + (k - Len(s))
    BY <1>1, <1>3
  <2> QED
    BY <1>1, <2>1
<1> QED
  BY <1>2, <1>3

LEMMA AscendingConcat ==
  ASSUME NEW s \in Seq(LogRecord), NEW t \in Seq(LogRecord), Ascending(s), Ascending(t),
         \A i \in DOMAIN s, j \in DOMAIN t : s[i].seq < t[j].seq
  PROVE  Ascending(s \o t)
<1> SUFFICES ASSUME NEW i \in DOMAIN (s \o t), NEW j \in DOMAIN (s \o t), i < j
             PROVE  (s \o t)[i].seq < (s \o t)[j].seq
  BY DEF Ascending
<1>1. /\ Len(s) \in Nat /\ DOMAIN s = 1 .. Len(s) /\ DOMAIN t = 1 .. Len(t) /\ Len(t) \in Nat
  OBVIOUS
<1>2. CASE i \in DOMAIN s /\ (s \o t)[i] = s[i]
  <2>1. CASE j \in DOMAIN s /\ (s \o t)[j] = s[j]
    BY <1>2, <2>1 DEF Ascending
  <2>2. CASE \E k \in DOMAIN t : j = Len(s) + k /\ (s \o t)[j] = t[k]
    BY <1>2, <2>2
  <2> QED
    BY <2>1, <2>2, ConcatSplits
<1>3. CASE \E k \in DOMAIN t : i = Len(s) + k /\ (s \o t)[i] = t[k]
  <2>1. PICK k \in DOMAIN t : i = Len(s) + k /\ (s \o t)[i] = t[k]
    BY <1>3
  <2>2. PICK m \in DOMAIN t : j = Len(s) + m /\ (s \o t)[j] = t[m]
    <3>1. j \notin DOMAIN s
      <4>1. k \in 1 .. Len(t) /\ k >= 1
        BY <1>1
      <4>2. j > Len(s)
        <5>1. j \in Nat
          BY <1>1, ConcatKeeps
        <5> QED
          BY <1>1, <2>1, <4>1, <5>1
      <4> QED
        BY <1>1, <4>2
    <3> QED
      BY <3>1, ConcatSplits
  <2>3. k < m
    BY <1>1, <2>1, <2>2
  <2> QED
    BY <2>1, <2>2, <2>3 DEF Ascending
<1> QED
  BY <1>2, <1>3, ConcatSplits

(* The records a feed event adds, numbered up from last_seq.               *)
Added(n) == <<Market(last_seq + 1)>> \o NewRecords(last_seq + 1, n)

LEMMA AddedIs ==
  ASSUME TypeOK, NEW n \in 0 .. 2, FeedEvent(n)
  PROVE  /\ Added(n) \in Seq(LogRecord) /\ Logged' = Logged \o Added(n)
         /\ DOMAIN Added(n) = 1 .. n + 1
         /\ Added(n)[1] = Market(last_seq + 1)
         /\ \A i \in 1 .. n :
              Added(n)[i + 1] = Record(last_seq + 1 + i, "OrderNew", Id(next_local_id + i - 1), OrderQty)
<1> DEFINE market == <<Market(last_seq + 1)>>
           news == NewRecords(last_seq + 1, n)
<1>1. /\ n \in Nat /\ next_local_id + n <= MaxLocalId + 1 /\ last_seq + 1 \in Nat
      /\ market \in Seq(LogRecord) /\ news \in Seq(LogRecord)
      /\ Logged' = (Logged \o market) \o news
  BY FeedEffect
<1>2. /\ Len(news) = n
      /\ \A i \in 1 .. n :
           news[i] = Record(last_seq + 1 + i, "OrderNew", Id(next_local_id + i - 1), OrderQty)
  BY <1>1, NewRecordsTyped
<1>3. Len(market) = 1 /\ market[1] = Market(last_seq + 1)
  OBVIOUS
<1> HIDE DEF market, news
<1>4. /\ market \o news \in Seq(LogRecord)
      /\ DOMAIN (market \o news) = 1 .. Len(market) + Len(news)
      /\ DOMAIN market = 1 .. Len(market) /\ DOMAIN news = 1 .. Len(news)
      /\ \A i \in DOMAIN market : (market \o news)[i] = market[i]
      /\ \A i \in DOMAIN news : (market \o news)[Len(market) + i] = news[i]
  BY <1>1, ConcatKeeps
<1>5. Logged \in Seq(LogRecord)
  BY LoggedTyped
<1>6. Logged' = Logged \o (market \o news)
  BY <1>1, <1>5, Regrouped
<1>7. DOMAIN (market \o news) = 1 .. n + 1 /\ (market \o news)[1] = Market(last_seq + 1)
  <2>1. 1 \in DOMAIN market /\ 1 + n = n + 1
    BY <1>1, <1>3, <1>4
  <2> QED
    BY <1>2, <1>3, <1>4, <2>1
<1>8. \A i \in 1 .. n : (market \o news)[i + 1]
        = Record(last_seq + 1 + i, "OrderNew", Id(next_local_id + i - 1), OrderQty)
  <2>1. \A i \in 1 .. n : 1 + i = i + 1 /\ (market \o news)[1 + i] = news[i]
    BY <1>1, <1>2, <1>3, <1>4
  <2> QED
    BY <1>2, <2>1
<1> QED
  BY <1>4, <1>6, <1>7, <1>8 DEF Added, market, news

LEMMA AddedNumbers ==
  ASSUME TypeOK, NEW n \in 0 .. 2, FeedEvent(n)
  PROVE  \A i \in DOMAIN Added(n) : Added(n)[i].seq = last_seq + i
<1>1. /\ DOMAIN Added(n) = 1 .. n + 1
      /\ Added(n)[1] = Market(last_seq + 1)
      /\ \A i \in 1 .. n :
           Added(n)[i + 1] = Record(last_seq + 1 + i, "OrderNew", Id(next_local_id + i - 1), OrderQty)
  BY AddedIs
<1>2. last_seq \in Nat /\ n \in Nat
  BY DEF TypeOK
<1> SUFFICES ASSUME NEW i \in 1 .. n + 1
             PROVE  Added(n)[i].seq = last_seq + i
  BY <1>1
<1>3. CASE i = 1
  BY <1>1, <1>3, RecordFields DEF Market
<1>4. CASE i # 1
  <2>1. i - 1 \in 1 .. n /\ (i - 1) + 1 = i /\ last_seq + 1 + (i - 1) = last_seq + i
    BY <1>2, <1>4
  <2>2. Added(n)[i] = Record(last_seq + i, "OrderNew", Id(next_local_id + (i - 1) - 1), OrderQty)
    <3>1. Added(n)[(i - 1) + 1]
            = Record(last_seq + 1 + (i - 1), "OrderNew", Id(next_local_id + (i - 1) - 1), OrderQty)
      BY <1>1, <2>1
    <3> QED
      BY <2>1, <3>1
  <2> QED
    BY <2>2, RecordFields
<1> QED
  BY <1>3, <1>4

(* Nothing was reported to a node without a gateway.                       *)
LEMMA PaperSilent ==
  ASSUME TypeOK, NumbersInv, gateway = "paper", NEW r
  PROVE  ~Reported(r)
<1>1. ASSUME Reported(r) PROVE FALSE
  <2>1. r \in LogRecord /\ exchange[r.id] # "none"
    BY <1>1 DEF Reported
  <2>2. r.id \in Ids
    BY <2>1, LogRecordFields
  <2> QED
    BY <2>1, <2>2 DEF NumbersInv
<1> QED
  BY <1>1

(* Steps that leave the log alone.                                         *)
LEMMA NumbersKept ==
  ASSUME NumbersInv, UNCHANGED <<file, buffered, torn, gateway, exchange, last_seq>>,
         phase' = phase \/ (phase # "down" /\ phase' = "live") , snapshot' = snapshot \/ snapshot'.seq = last_seq,
         last_seq \in Nat
  PROVE  NumbersInv'
<1>1. Logged' = Logged
  BY DEF Logged
<1>2. phase' # "live" => buffered' = <<>>
  BY DEF NumbersInv
<1>3. gateway' = "paper" => \A id \in Ids : exchange'[id] = "none"
  BY DEF NumbersInv
<1>4. ASSUME gateway = "paper", ~torn
      PROVE  /\ Ascending(Logged)
             /\ phase' # "down" => /\ \A i \in DOMAIN Logged : Logged[i].seq <= last_seq
                                   /\ snapshot'.seq <= last_seq
  BY <1>4 DEF NumbersInv
<1> QED
  BY <1>1, <1>2, <1>3, <1>4 DEF NumbersInv, Ascending

LEMMA NumbersFeed ==
  ASSUME TypeOK, NumbersInv, NEW n \in 0 .. 2, FeedEvent(n)
  PROVE  NumbersInv'
<1>1. /\ UNCHANGED <<torn, snapshot, phase, gateway>> /\ phase = "live"
  BY DEF FeedEvent, Live
<1>2. gateway = "paper" => exchange' = exchange
  BY FeedEffect
<1>3. gateway' = "paper" => \A id \in Ids : exchange'[id] = "none"
  BY <1>1, <1>2 DEF NumbersInv
<1>4. /\ last_seq \in Nat /\ n \in Nat /\ last_seq' = last_seq + 1 + n /\ snapshot.seq \in Nat
  BY FeedEffect DEF TypeOK
<1>5. /\ Logged \in Seq(LogRecord) /\ Added(n) \in Seq(LogRecord) /\ Logged' = Logged \o Added(n)
      /\ DOMAIN Added(n) = 1 .. n + 1
      /\ \A i \in DOMAIN Added(n) : Added(n)[i].seq = last_seq + i
      /\ \A i \in DOMAIN Logged : Logged[i].seq \in Nat
  BY LoggedTyped, AddedIs, AddedNumbers
<1>6. ASSUME gateway = "paper", ~torn
      PROVE  /\ Ascending(Logged') /\ snapshot.seq <= last_seq'
             /\ \A i \in DOMAIN Logged' : Logged'[i].seq <= last_seq'
  <2>1. /\ Ascending(Logged) /\ snapshot.seq <= last_seq
        /\ \A i \in DOMAIN Logged : Logged[i].seq <= last_seq
    BY <1>1, <1>6 DEF NumbersInv
  <2>2. Ascending(Added(n))
    BY <1>4, <1>5 DEF Ascending
  <2>3. \A i \in DOMAIN Logged, j \in DOMAIN Added(n) : Logged[i].seq < Added(n)[j].seq
    <3> SUFFICES ASSUME NEW i \in DOMAIN Logged, NEW j \in DOMAIN Added(n)
                 PROVE  Logged[i].seq < Added(n)[j].seq
      OBVIOUS
    <3>1. Logged[i].seq \in Nat /\ Logged[i].seq <= last_seq /\ Added(n)[j].seq = last_seq + j
          /\ j \in Nat /\ j >= 1
      BY <1>4, <1>5, <2>1
    <3> QED
      BY <1>4, <3>1
  <2>4. Ascending(Logged')
    BY <1>5, <2>1, <2>2, <2>3, AscendingConcat
  <2>5. \A i \in DOMAIN Logged : Logged[i].seq <= last_seq'
    BY <1>4, <1>5, <2>1
  <2>6. \A j \in DOMAIN Added(n) : Added(n)[j].seq <= last_seq'
    BY <1>4, <1>5
  <2>7. \A i \in DOMAIN Logged' : Logged'[i].seq <= last_seq'
    BY <1>5, <2>5, <2>6, ConcatSplits
  <2> QED
    BY <1>4, <2>1, <2>4, <2>7
<1> QED
  BY <1>1, <1>3, <1>6 DEF NumbersInv, Ascending

(* A stop leaves the log or its beginning, and nothing in the buffer.      *)
LEMMA NumbersStop ==
  ASSUME TypeOK, NumbersInv, Down, buffered' = <<>>, torn => torn', file' \in Seq(LogRecord),
         DOMAIN file' \subseteq DOMAIN Logged, \A i \in DOMAIN file' : file'[i] = Logged[i]
  PROVE  NumbersInv'
<1>1. /\ phase' = "down" /\ gateway' = gateway
      /\ exchange' = [id \in Ids |-> IF exchange[id] = "none" THEN "none" ELSE "done"]
  BY DEF Down
<1>2. Logged' = file'
  BY EmptyKeeps DEF Logged
<1>3. gateway' = "paper" => \A id \in Ids : exchange'[id] = "none"
  BY <1>1 DEF NumbersInv
<1>4. gateway' = "paper" /\ ~torn' => Ascending(Logged')
  BY <1>1, <1>2 DEF NumbersInv, Ascending
<1> QED
  BY <1>1, <1>3, <1>4 DEF NumbersInv, Ascending

(* A start goes on above the snapshot and above the last record.           *)
LEMMA NumbersStart ==
  ASSUME TypeOK, NumbersInv, Start
  PROVE  NumbersInv'
<1>1. /\ phase = "down" /\ ~torn /\ phase' = "replaying" /\ last_seq' = ExpectedNextSeq
      /\ UNCHANGED <<file, torn, snapshot, buffered, gateway, exchange>>
  BY StartEffect
<1>2. Logged' = Logged /\ Logged = file
  <2>1. buffered = <<>> /\ file \in Seq(LogRecord)
    BY <1>1 DEF NumbersInv, TypeOK
  <2> QED
    BY <1>1, <2>1, EmptyKeeps DEF Logged
<1>3. /\ snapshot.seq \in Nat /\ last_seq' \in Nat /\ ToReplay \subseteq DOMAIN file
      /\ \A i \in DOMAIN file : file[i].seq \in Nat
      /\ DOMAIN file = 1 .. Len(file) /\ Len(file) \in Nat
  BY <1>1, PlanEffect, LoggedTyped DEF TypeOK
<1>4. ASSUME gateway = "paper"
      PROVE  snapshot.seq <= last_seq' /\ \A i \in DOMAIN file : file[i].seq <= last_seq'
  <2>1. Ascending(file)
    BY <1>1, <1>2, <1>4 DEF NumbersInv
  <2>2. \A i \in DOMAIN file : i \notin ToReplay => file[i].seq <= snapshot.seq
    BY <1>3 DEF ToReplay
  <2>3. CASE ToReplay = {}
    <3>1. last_seq' = snapshot.seq + 1
      BY <1>1, <2>3, PlanEffect
    <3> QED
      BY <1>3, <2>2, <2>3, <3>1
  <2>4. CASE ToReplay # {}
    <3>1. PICK m \in ToReplay : last_seq' = file[m].seq + 1 /\ \A i \in ToReplay : i <= m
      BY <1>1, <2>4, PlanEffect
    <3>2. file[m].seq > snapshot.seq /\ m \in DOMAIN file
      BY DEF ToReplay
    <3>3. snapshot.seq <= last_seq' /\ file[m].seq <= last_seq'
      BY <1>3, <3>1, <3>2
    <3>4. \A i \in ToReplay : file[i].seq <= file[m].seq
      <4> SUFFICES ASSUME NEW i \in ToReplay
                   PROVE  file[i].seq <= file[m].seq
        OBVIOUS
      <4>1. i = m \/ i < m
        BY <1>3, <3>1, <3>2
      <4> QED
        BY <1>3, <2>1, <3>2, <4>1 DEF Ascending
    <3>5. \A i \in DOMAIN file : file[i].seq <= last_seq'
      <4> SUFFICES ASSUME NEW i \in DOMAIN file
                   PROVE  file[i].seq <= last_seq'
        OBVIOUS
      <4>1. CASE i \in ToReplay
        BY <1>3, <3>1, <3>2, <3>4, <4>1
      <4>2. CASE i \notin ToReplay
        BY <1>3, <2>2, <3>3, <4>2
      <4> QED
        BY <4>1, <4>2
    <3> QED
      BY <3>3, <3>5
  <2> QED
    BY <2>3, <2>4
<1>5. buffered = <<>> /\ (gateway = "paper" => \A id \in Ids : exchange[id] = "none")
      /\ (gateway = "paper" => Ascending(Logged))
  BY <1>1 DEF NumbersInv
<1> QED
  BY <1>1, <1>2, <1>4, <1>5 DEF NumbersInv, Ascending

LEMMA NumbersStep ==
  ASSUME TypeOK, NumbersInv, [Next]_vars
  PROVE  NumbersInv'
<1>1. last_seq \in Nat
  BY DEF TypeOK
<1>2. CASE \E n \in 0 .. 2 : FeedEvent(n)
  BY <1>2, NumbersFeed
<1>3. CASE \E r : Reported(r)
  <2>1. PICK r : Reported(r)
    BY <1>3
  <2>2. gateway # "paper" /\ gateway' = gateway /\ phase' = "live"
    BY <2>1, PaperSilent, ReportEffect DEF Live
  <2> QED
    BY <2>2 DEF NumbersInv
<1>4. CASE Heartbeat
  <2>1. /\ UNCHANGED <<file, buffered, torn, gateway, exchange, last_seq, phase>>
        /\ snapshot'.seq = last_seq
    BY <1>4, SnapshotEffect DEF Heartbeat, exchangeVars
  <2> QED
    BY <1>1, <2>1, NumbersKept
<1>5. CASE Shutdown
  <2>1. file' = Logged /\ buffered' = <<>> /\ Down /\ torn' = torn
    BY <1>5 DEF Shutdown
  <2> QED
    BY <2>1, LoggedTyped, NumbersStop
<1>6. CASE Crash
  <2>1. Down /\ buffered' = <<>>
    BY <1>6 DEF Crash
  <2>2. /\ file' \in Seq(LogRecord) /\ (torn => torn') /\ DOMAIN file' \subseteq DOMAIN Logged
        /\ \A i \in DOMAIN file' : file'[i] = Logged[i]
    BY <1>6, CrashEffect
  <2> QED
    BY <2>1, <2>2, NumbersStop
<1>7. CASE Start
  BY <1>7, NumbersStart
<1>8. CASE ColdStart
  <2>1. /\ phase = "down" /\ torn /\ phase' = "replaying"
        /\ UNCHANGED <<torn, buffered, gateway, exchange>>
    BY <1>8, ColdStartEffect
  <2> QED
    BY <2>1 DEF NumbersInv
<1>9. CASE ReplayDuplicate
  <2>1. UNCHANGED <<file, buffered, torn, gateway, exchange, last_seq, phase, snapshot>>
    BY <1>9 DEF ReplayDuplicate, exchangeVars, diskVars
  <2> QED
    BY <1>1, <2>1, NumbersKept
<1>10. CASE ReplayEvent
  <2>1. UNCHANGED <<file, buffered, torn, gateway, exchange, last_seq, phase, snapshot>>
    BY <1>10, ReplayEffect
  <2> QED
    BY <1>1, <2>1, NumbersKept
<1>11. CASE Ready
  <2>1. /\ UNCHANGED <<file, buffered, torn, gateway, exchange, last_seq, snapshot>>
        /\ phase # "down" /\ phase' = "live"
    BY <1>11, ReadyEffect
  <2> QED
    BY <1>1, <2>1, NumbersKept
<1>12. CASE UNCHANGED vars
  <2>1. UNCHANGED <<file, buffered, torn, gateway, exchange, last_seq, phase, snapshot>>
    BY <1>12 DEF vars, diskVars, exchangeVars
  <2> QED
    BY <1>1, <2>1, NumbersKept
<1> QED
  BY Steps, <1>2, <1>3, <1>4, <1>5, <1>6, <1>7, <1>8, <1>9, <1>10, <1>11, <1>12

LEMMA NumbersInvariant == Spec => []NumbersInv
<1>1. Init => NumbersInv
  <2> SUFFICES ASSUME Init PROVE NumbersInv
    OBVIOUS
  <2>1. /\ phase = "live" /\ exchange = [id \in Ids |-> "none"] /\ last_seq = 1
        /\ file = <<>> /\ buffered = <<>> /\ snapshot.seq = 0
    BY DEF Init, NoSnapshot
  <2>2. Logged = <<>> /\ DOMAIN Logged = {}
    <3>1. file \in Seq(LogRecord)
      BY <2>1
    <3> QED
      BY <2>1, <3>1, EmptyKeeps DEF Logged
  <2> QED
    BY <2>1, <2>2 DEF NumbersInv, Ascending
<1>2. TypeOK /\ NumbersInv /\ [Next]_vars => NumbersInv'
  BY NumbersStep
<1> QED
  BY <1>1, <1>2, TypeCorrect, PTL DEF Spec

(***************************************************************************)
(* expected_next_seq, plan_recovery and the loop's counter, without a      *)
(* gateway: over any crashes and restarts that leave a readable log, its   *)
(* numbers ascend and the node is never about to give one out again.  It   *)
(* rests on NumbersInv: from its start on, neither the log nor the         *)
(* snapshot is ahead of the counter.                                       *)
(***************************************************************************)
THEOREM NumbersFresh == Spec => []PaperSeqFresh
<1>1. NumbersInv => PaperSeqFresh
  BY DEF NumbersInv, PaperSeqFresh, Ascending, Live
<1> QED
  BY <1>1, NumbersInvariant, PTL

-----------------------------------------------------------------------------
(* The orders of a node without a gateway.                                 *)

(* What a concatenation registers.                                         *)
LEMMA RegisteredConcat ==
  ASSUME NEW s \in Seq(LogRecord), NEW t \in Seq(LogRecord), NEW q
  PROVE  RegisteredBy(s \o t, DOMAIN (s \o t), q)
           = RegisteredBy(s, DOMAIN s, q) \cup RegisteredBy(t, DOMAIN t, q)
<1>1. /\ \A i \in DOMAIN s : i \in DOMAIN (s \o t) /\ (s \o t)[i] = s[i]
      /\ \A i \in DOMAIN t : Len(s) + i \in DOMAIN (s \o t) /\ (s \o t)[Len(s) + i] = t[i]
  BY ConcatKeeps
<1>2. ASSUME NEW x \in RegisteredBy(s \o t, DOMAIN (s \o t), q)
      PROVE  x \in RegisteredBy(s, DOMAIN s, q) \cup RegisteredBy(t, DOMAIN t, q)
  <2>1. PICK k \in DOMAIN (s \o t) : /\ Registers((s \o t)[k]) /\ (s \o t)[k].seq > q
                                     /\ x = (s \o t)[k].id
    BY <1>2 DEF RegisteredBy
  <2>2. CASE k \in DOMAIN s /\ (s \o t)[k] = s[k]
    BY <2>1, <2>2 DEF RegisteredBy
  <2>3. CASE \E j \in DOMAIN t : k = Len(s) + j /\ (s \o t)[k] = t[j]
    BY <2>1, <2>3 DEF RegisteredBy
  <2> QED
    BY <2>2, <2>3, ConcatSplits
<1>3. ASSUME NEW x \in RegisteredBy(s, DOMAIN s, q)
      PROVE  x \in RegisteredBy(s \o t, DOMAIN (s \o t), q)
  <2>1. PICK i \in DOMAIN s : Registers(s[i]) /\ s[i].seq > q /\ x = s[i].id
    BY <1>3 DEF RegisteredBy
  <2> QED
    BY <1>1, <2>1 DEF RegisteredBy
<1>4. ASSUME NEW x \in RegisteredBy(t, DOMAIN t, q)
      PROVE  x \in RegisteredBy(s \o t, DOMAIN (s \o t), q)
  <2>1. PICK i \in DOMAIN t : Registers(t[i]) /\ t[i].seq > q /\ x = t[i].id
    BY <1>4 DEF RegisteredBy
  <2> QED
    BY <1>1, <2>1 DEF RegisteredBy
<1> QED
  BY <1>2, <1>3, <1>4

(* One more place.                                                         *)
LEMMA RegisteredOneMore ==
  ASSUME NEW s, NEW places, NEW m, NEW q
  PROVE  RegisteredBy(s, places \cup {m}, q)
           = RegisteredBy(s, places, q)
               \cup (IF Registers(s[m]) /\ s[m].seq > q THEN {s[m].id} ELSE {})
<1>1. ASSUME NEW x \in RegisteredBy(s, places \cup {m}, q)
      PROVE  \/ x \in RegisteredBy(s, places, q)
             \/ Registers(s[m]) /\ s[m].seq > q /\ x = s[m].id
  BY DEF RegisteredBy
<1>2. RegisteredBy(s, places, q) \subseteq RegisteredBy(s, places \cup {m}, q)
  BY DEF RegisteredBy
<1>3. Registers(s[m]) /\ s[m].seq > q => s[m].id \in RegisteredBy(s, places \cup {m}, q)
  BY DEF RegisteredBy
<1> QED
  BY <1>1, <1>2, <1>3

LEMMA RegisteredNone ==
  ASSUME NEW s, NEW places, NEW q, \A i \in places : ~(s[i].seq > q)
  PROVE  RegisteredBy(s, places, q) = {}
  BY DEF RegisteredBy

(* The records of a feed event register the ids the counter gave out.      *)
LEMMA AddedRegisters ==
  ASSUME TypeOK, NEW n \in 0 .. 2, FeedEvent(n), NEW q \in Nat, q <= last_seq
  PROVE  /\ RegisteredBy(Added(n), DOMAIN Added(n), q) = NextIds(n)
         /\ \A i \in DOMAIN Added(n) : PaperRecord(Added(n)[i])
<1>1. /\ DOMAIN Added(n) = 1 .. n + 1 /\ Added(n)[1] = Market(last_seq + 1)
      /\ \A i \in 1 .. n :
           Added(n)[i + 1] = Record(last_seq + 1 + i, "OrderNew", Id(next_local_id + i - 1), OrderQty)
  BY AddedIs
<1>2. last_seq \in Nat /\ n \in Nat
  BY DEF TypeOK
<1>3. \A i \in DOMAIN Added(n) : Added(n)[i].seq > q
  <2>1. \A i \in DOMAIN Added(n) : Added(n)[i].seq = last_seq + i
    BY AddedNumbers
  <2> QED
    BY <1>1, <1>2, <2>1
<1>4. Added(n)[1].kind = "Other"
  BY <1>1, RecordFields DEF Market
<1>5. \A i \in 1 .. n : /\ Added(n)[i + 1].kind = "OrderNew" /\ Added(n)[i + 1].qty = OrderQty
                        /\ Added(n)[i + 1].id = Id(next_local_id + i - 1)
  BY <1>1, RecordFields
<1>6. \A i \in DOMAIN Added(n) : i = 1 \/ (i - 1 \in 1 .. n /\ (i - 1) + 1 = i)
  BY <1>1, <1>2
<1>7. \A i \in 1 .. n : i + 1 \in DOMAIN Added(n)
  BY <1>1, <1>2
<1> DEFINE s == Added(n)
<1> HIDE DEF s
<1>8. \A i \in DOMAIN Added(n) : PaperRecord(Added(n)[i])
  BY <1>4, <1>5, <1>6 DEF PaperRecord, Registers
<1>9. ASSUME NEW x \in RegisteredBy(Added(n), DOMAIN Added(n), q)
      PROVE  x \in NextIds(n)
  <2>1. PICK i \in DOMAIN Added(n) : Added(n)[i].kind = "OrderNew" /\ x = Added(n)[i].id
    BY <1>9 DEF RegisteredBy, Registers
  <2>2. i - 1 \in 1 .. n /\ (i - 1) + 1 = i
    BY <1>4, <1>6, <2>1
  <2>3. x = Id(next_local_id + (i - 1) - 1)
    BY <1>5, <2>1, <2>2
  <2> QED
    BY <2>2, <2>3 DEF NextIds
<1>10. ASSUME NEW x \in NextIds(n)
       PROVE  x \in RegisteredBy(Added(n), DOMAIN Added(n), q)
  <2>1. PICK i \in 1 .. n : x = Id(next_local_id + i - 1)
    BY <1>10 DEF NextIds
  <2>2. i + 1 \in DOMAIN Added(n) /\ Added(n)[i + 1].kind = "OrderNew" /\ Added(n)[i + 1].id = x
    BY <1>5, <1>7, <2>1
  <2> QED
    BY <1>3, <2>2 DEF RegisteredBy, Registers
<1> QED
  BY <1>8, <1>9, <1>10

LEMMA FeedOrders ==
  ASSUME TypeOK, NumbersInv, OrdersInv, NEW n \in 0 .. 2, FeedEvent(n), gateway = "paper"
  PROVE  (AllFresh /\ StoppedOrders /\ LiveOrders /\ ReplayedOrders)'
<1>1. /\ phase = "live" /\ UNCHANGED <<torn, snapshot, phase, before, intact>>
  BY DEF FeedEvent, Live, stopVars
<1>2. /\ n \in Nat /\ next_local_id + n <= MaxLocalId + 1 /\ orders' = WithOrders(n)
      /\ Logged \in Seq(LogRecord) /\ Added(n) \in Seq(LogRecord) /\ Logged' = Logged \o Added(n)
      /\ snapshot.seq \in Nat /\ last_seq \in Nat
  BY FeedEffect, AddedIs, LoggedTyped DEF TypeOK
<1>3. AllFresh /\ ~intact /\ LiveOrders
  BY <1>1 DEF OrdersInv, StoppedOrders
<1>4. /\ DOMAIN orders' = DOMAIN orders \cup NextIds(n)
      /\ \A id \in DOMAIN orders : orders'[id] = orders[id]
      /\ \A id \in DOMAIN orders' : id \notin DOMAIN orders => orders'[id] = Fresh
  BY <1>2, WithOrdersEffect
<1>5. AllFresh'
  <2>1. \A i \in DOMAIN Added(n) : PaperRecord(Added(n)[i])
    <3>1. 0 \in Nat /\ 0 <= last_seq
      BY <1>2
    <3> QED
      BY <3>1, AddedRegisters
  <2>2. \A i \in DOMAIN Logged : PaperRecord(Logged[i])
    BY <1>3 DEF AllFresh
  <2>3. \A i \in DOMAIN Logged' : PaperRecord(Logged'[i])
    BY <1>2, <2>1, <2>2, ConcatSplits
  <2>4. FreshOrders(orders')
    BY <1>3, <1>4 DEF AllFresh, FreshOrders
  <2>5. FreshOrders(snapshot.orders) /\ before \in [DOMAIN before -> {Fresh}]
    BY <1>3 DEF AllFresh
  <2> QED
    BY <1>1, <2>3, <2>4, <2>5 DEF AllFresh, FreshOrders, PaperRecord, Registers, Fresh
<1>6. ASSUME ~torn
      PROVE  DOMAIN orders' = DOMAIN snapshot.orders
                                \cup RegisteredBy(Logged', DOMAIN Logged', snapshot.seq)
  <2>1. DOMAIN orders = DOMAIN snapshot.orders \cup RegisteredBy(Logged, DOMAIN Logged, snapshot.seq)
    BY <1>1, <1>3, <1>6 DEF LiveOrders
  <2>2. snapshot.seq <= last_seq
    BY <1>1, <1>6 DEF NumbersInv
  <2>3. RegisteredBy(Added(n), DOMAIN Added(n), snapshot.seq) = NextIds(n)
    BY <1>2, <2>2, AddedRegisters
  <2>4. RegisteredBy(Logged \o Added(n), DOMAIN (Logged \o Added(n)), snapshot.seq)
          = RegisteredBy(Logged, DOMAIN Logged, snapshot.seq)
              \cup RegisteredBy(Added(n), DOMAIN Added(n), snapshot.seq)
    BY <1>2, RegisteredConcat
  <2> QED
    BY <1>2, <1>4, <2>1, <2>3, <2>4
<1>7. LiveOrders'
  BY <1>1, <1>6 DEF LiveOrders, RegisteredBy, Registers
<1>8. StoppedOrders' /\ ReplayedOrders'
  BY <1>1, <1>3 DEF StoppedOrders, ReplayedOrders
<1> QED
  BY <1>5, <1>7, <1>8

(* A snapshot of a node that runs leaves nothing to replay.                *)
LEMMA SnapshotComplete ==
  ASSUME TypeOK, NumbersInv, gateway = "paper", phase = "live", ~torn
  PROVE  RegisteredBy(Logged, DOMAIN Logged, last_seq) = {}
<1>1. \A i \in DOMAIN Logged : Logged[i].seq <= last_seq
  BY DEF NumbersInv
<1>2. \A i \in DOMAIN Logged : Logged[i].seq \in Nat /\ last_seq \in Nat
  BY LoggedTyped DEF TypeOK
<1>3. \A i \in DOMAIN Logged : ~(Logged[i].seq > last_seq)
  BY <1>1, <1>2
<1> QED
  BY <1>3, RegisteredNone

LEMMA HeartbeatOrders ==
  ASSUME TypeOK, NumbersInv, OrdersInv, Heartbeat, gateway = "paper"
  PROVE  (AllFresh /\ StoppedOrders /\ LiveOrders /\ ReplayedOrders)'
<1>1. /\ phase = "live" /\ snapshot'.seq = last_seq /\ snapshot'.orders = orders
      /\ UNCHANGED <<orders, file, torn, buffered, phase, before, intact>>
  BY SnapshotEffect DEF Heartbeat, Live, trackerVars, stopVars
<1>2. AllFresh /\ ~intact /\ Logged' = Logged
  BY <1>1 DEF OrdersInv, StoppedOrders, Logged
<1>3. AllFresh'
  BY <1>1, <1>2 DEF AllFresh, FreshOrders, PaperRecord, Registers, Fresh
<1>4. ~torn => DOMAIN orders' = DOMAIN snapshot'.orders
                                  \cup RegisteredBy(Logged', DOMAIN Logged', snapshot'.seq)
  BY <1>1, <1>2, SnapshotComplete
<1>5. LiveOrders'
  BY <1>1, <1>4 DEF LiveOrders, RegisteredBy, Registers
<1>6. StoppedOrders' /\ ReplayedOrders'
  BY <1>1, <1>2 DEF StoppedOrders, ReplayedOrders
<1> QED
  BY <1>3, <1>5, <1>6

(* Fresh orders are known by their ids.                                    *)
LEMMA FreshMap ==
  ASSUME NEW os, OrderMap(os), FreshOrders(os)
  PROVE  os \in [DOMAIN os -> {Fresh}]
  BY DEF OrderMap, FreshOrders

(* A stop remembers the orders; the log is the same or shorter.            *)
LEMMA StopFresh ==
  ASSUME TypeOK, AllFresh, Down, buffered' = <<>>, file' \in Seq(LogRecord),
         DOMAIN file' \subseteq DOMAIN Logged, \A i \in DOMAIN file' : file'[i] = Logged[i],
         snapshot'.orders = snapshot.orders \/ snapshot'.orders = orders
  PROVE  AllFresh' /\ LiveOrders' /\ ReplayedOrders'
<1>1. phase' = "down" /\ orders' = NoOrders /\ before' = orders
  BY DEF Down
<1>2. Logged' = file'
  BY EmptyKeeps DEF Logged
<1>3. \A i \in DOMAIN Logged' : PaperRecord(Logged'[i])
  BY <1>2 DEF AllFresh
<1>4. before' \in [DOMAIN before' -> {Fresh}]
  <2>1. OrderMap(orders) /\ FreshOrders(orders)
    BY DEF TypeOK, AllFresh
  <2> QED
    BY <1>1, <2>1, FreshMap
<1>5. FreshOrders(orders') /\ FreshOrders(snapshot'.orders)
  BY <1>1, NoOrdersTyped DEF AllFresh, FreshOrders
<1>6. AllFresh'
  BY <1>3, <1>4, <1>5 DEF AllFresh, FreshOrders, PaperRecord, Registers, Fresh
<1>7. LiveOrders' /\ ReplayedOrders'
  BY <1>1 DEF LiveOrders, ReplayedOrders
<1> QED
  BY <1>6, <1>7

LEMMA ShutdownOrders ==
  ASSUME TypeOK, NumbersInv, OrdersInv, Shutdown, gateway = "paper"
  PROVE  (AllFresh /\ StoppedOrders /\ LiveOrders /\ ReplayedOrders)'
<1>1. /\ phase = "live" /\ file' = Logged /\ buffered' = <<>> /\ Down /\ torn' = torn
      /\ intact' = ~torn /\ snapshot'.seq = last_seq /\ snapshot'.orders = orders
  BY SnapshotEffect DEF Shutdown, Live
<1>2. AllFresh /\ Logged \in Seq(LogRecord)
  BY LoggedTyped DEF OrdersInv
<1>3. AllFresh' /\ LiveOrders' /\ ReplayedOrders'
  BY <1>1, <1>2, StopFresh
<1>4. phase' = "down" /\ before' = orders
  BY <1>1 DEF Down
<1>5. ~torn => DOMAIN before' = DOMAIN snapshot'.orders
                                  \cup RegisteredBy(file', DOMAIN file', snapshot'.seq)
  BY <1>1, <1>4, SnapshotComplete
<1>6. StoppedOrders'
  BY <1>1, <1>4, <1>5 DEF StoppedOrders, RegisteredBy, Registers
<1> QED
  BY <1>3, <1>6

LEMMA CrashOrders ==
  ASSUME TypeOK, NumbersInv, OrdersInv, Crash, gateway = "paper"
  PROVE  (AllFresh /\ StoppedOrders /\ LiveOrders /\ ReplayedOrders)'
<1>1. buffered' = <<>> /\ Down /\ snapshot' = snapshot
  BY DEF Crash
<1>2. PICK k \in 0 .. Len(buffered) :
        /\ file' \in Seq(LogRecord)
        /\ DOMAIN file' \subseteq DOMAIN Logged
        /\ \A i \in DOMAIN file' : file'[i] = Logged[i]
        /\ (k < Len(buffered) \/ torn' = torn)
        /\ intact' = (Live /\ k = Len(buffered) /\ ~torn)
        /\ k = Len(buffered) => file' = Logged
  BY CrashEffect
<1>3. AllFresh /\ LiveOrders
  BY DEF OrdersInv
<1>4. AllFresh' /\ LiveOrders' /\ ReplayedOrders'
  BY <1>1, <1>2, <1>3, StopFresh
<1>5. phase' = "down" /\ before' = orders
  BY <1>1 DEF Down
<1>6. ASSUME intact'
      PROVE  /\ ~torn'
             /\ DOMAIN before' = DOMAIN snapshot'.orders
                                   \cup RegisteredBy(file', DOMAIN file', snapshot'.seq)
  <2>1. Live /\ k = Len(buffered) /\ ~torn
    BY <1>2, <1>6
  <2>2. file' = Logged /\ torn' = torn
    <3>1. Len(buffered) \in Nat
      BY DEF TypeOK
    <3> QED
      BY <1>2, <2>1, <3>1
  <2>3. DOMAIN orders = DOMAIN snapshot.orders \cup RegisteredBy(Logged, DOMAIN Logged, snapshot.seq)
    BY <1>3, <2>1 DEF LiveOrders, Live
  <2> QED
    BY <1>1, <1>5, <2>1, <2>2, <2>3
<1>7. StoppedOrders'
  BY <1>5, <1>6 DEF StoppedOrders, RegisteredBy, Registers
<1> QED
  BY <1>4, <1>7

LEMMA StartOrders ==
  ASSUME TypeOK, NumbersInv, OrdersInv, Start, gateway = "paper"
  PROVE  (AllFresh /\ StoppedOrders /\ LiveOrders /\ ReplayedOrders)'
<1>1. /\ ~torn /\ phase = "down" /\ phase' = "replaying" /\ orders' = snapshot.orders
      /\ todo' = ToReplay /\ max_seen' = snapshot.seq
      /\ UNCHANGED <<file, torn, snapshot, buffered, before, intact>>
  BY StartEffect
<1>2. AllFresh /\ StoppedOrders /\ Logged' = Logged
  BY <1>1 DEF OrdersInv, Logged
<1>3. AllFresh'
  BY <1>1, <1>2 DEF AllFresh, FreshOrders, PaperRecord, Registers, Fresh
<1>4. StoppedOrders'
  BY <1>1, <1>2 DEF StoppedOrders, RegisteredBy, Registers
<1>5. RegisteredBy(file, DOMAIN file \ ToReplay, snapshot.seq) = {}
  <2>1. \A i \in DOMAIN file \ ToReplay : ~(file[i].seq > snapshot.seq)
    BY DEF ToReplay
  <2> QED
    BY <2>1, RegisteredNone
<1>6. ToReplay' = ToReplay /\ \A i \in todo' : file'[i].seq > max_seen'
  BY <1>1 DEF ToReplay
<1>7. DOMAIN orders' = DOMAIN snapshot'.orders
                         \cup RegisteredBy(file', DOMAIN file' \ todo', snapshot'.seq)
  BY <1>1, <1>5
<1>8. ReplayedOrders'
  BY <1>1, <1>6, <1>7 DEF ReplayedOrders, RegisteredBy, Registers
<1>9. LiveOrders'
  BY <1>1 DEF LiveOrders
<1> QED
  BY <1>3, <1>4, <1>8, <1>9

LEMMA ColdStartOrders ==
  ASSUME TypeOK, OrdersInv, ColdStart, gateway = "paper"
  PROVE  (AllFresh /\ StoppedOrders /\ LiveOrders /\ ReplayedOrders)'
<1>1. /\ torn /\ torn' /\ orders' = NoOrders
      /\ UNCHANGED <<file, snapshot, buffered, before, intact>>
  BY ColdStartEffect
<1>2. AllFresh /\ ~intact /\ Logged' = Logged
  BY <1>1 DEF OrdersInv, StoppedOrders, Logged
<1>3. FreshOrders(orders')
  BY <1>1, NoOrdersTyped DEF FreshOrders
<1>4. AllFresh'
  BY <1>1, <1>2, <1>3 DEF AllFresh, FreshOrders, PaperRecord, Registers, Fresh
<1>5. StoppedOrders' /\ LiveOrders' /\ ReplayedOrders'
  BY <1>1, <1>2 DEF StoppedOrders, LiveOrders, ReplayedOrders
<1> QED
  BY <1>4, <1>5

(* A record of such a log leaves the orders as they are, or registers one. *)
LEMMA PaperReplays ==
  ASSUME NEW os, OrderMap(os), FreshOrders(os), NEW r \in LogRecord, PaperRecord(r)
  PROVE  LET n == Eng!ProcessEvent(os, r)
         IN  /\ FreshOrders(n)
             /\ DOMAIN n = DOMAIN os \cup (IF Registers(r) THEN {r.id} ELSE {})
<1>1. CASE r.kind = "Other"
  <2>1. Eng!ProcessEvent(os, r) = os
    BY <1>1 DEF Eng!ProcessEvent
  <2> QED
    BY <1>1, <2>1 DEF Registers
<1>2. CASE Registers(r) /\ r.qty = OrderQty
  <2> DEFINE n == Eng!RegisterOrder(os, r.id, Eng!NewOrder(r.side, r.qty, r.ts))
  <2>1. Eng!ProcessEvent(os, r) = n
    BY <1>2 DEF Eng!ProcessEvent, Registers
  <2>2. /\ DOMAIN n = DOMAIN os \cup {r.id} /\ \A id \in DOMAIN os : n[id] = os[id]
        /\ r.id \notin DOMAIN os => n[r.id] = Eng!NewOrder("Any", r.qty, 0)
    BY RegisterEffect
  <2> HIDE DEF n
  <2>3. FreshOrders(n)
    BY <1>2, <2>2 DEF FreshOrders, Fresh
  <2> QED
    BY <1>2, <2>1, <2>2, <2>3
<1> QED
  BY <1>1, <1>2 DEF PaperRecord

LEMMA ReplayOrders ==
  ASSUME TypeOK, NumbersInv, OrdersInv, ReplayEvent, gateway = "paper"
  PROVE  (AllFresh /\ StoppedOrders /\ LiveOrders /\ ReplayedOrders)'
<1>1. /\ phase = "replaying" /\ todo # {} /\ todo' = todo \ {Min(todo)}
      /\ max_seen' = MaxOf(max_seen, Upcoming.seq)
      /\ orders' = Eng!ProcessEvent(orders, Upcoming)
      /\ UNCHANGED <<file, torn, snapshot, buffered, phase, before, intact>>
  BY ReplayEffect
<1>2. AllFresh /\ StoppedOrders /\ ReplayedOrders /\ Logged' = Logged
  BY <1>1 DEF OrdersInv, Logged
<1>3. PICK m \in todo : /\ m = Min(todo) /\ \A i \in todo : m <= i
                        /\ m \in DOMAIN file /\ Upcoming = file[m]
                        /\ Upcoming \in LogRecord /\ Upcoming.seq \in Nat
  BY <1>1, UpcomingIs
<1>4. /\ DOMAIN file \subseteq DOMAIN Logged /\ \A i \in DOMAIN file : Logged[i] = file[i]
      /\ DOMAIN file = 1 .. Len(file) /\ Len(file) \in Nat
      /\ \A i \in DOMAIN file : file[i].seq \in Nat
      /\ todo \subseteq DOMAIN file /\ max_seen \in Nat
  BY LoggedTyped DEF TypeOK
<1>5. PaperRecord(Upcoming) /\ OrderMap(orders) /\ FreshOrders(orders)
  BY <1>2, <1>3, <1>4 DEF AllFresh, TypeOK
<1>6. /\ FreshOrders(orders')
      /\ DOMAIN orders' = DOMAIN orders \cup (IF Registers(Upcoming) THEN {Upcoming.id} ELSE {})
  BY <1>1, <1>3, <1>5, PaperReplays
<1>7. AllFresh'
  BY <1>1, <1>2, <1>6 DEF AllFresh, FreshOrders, PaperRecord, Registers, Fresh
<1>8. StoppedOrders' /\ LiveOrders'
  BY <1>1, <1>2 DEF StoppedOrders, LiveOrders, RegisteredBy, Registers
<1>9. ASSUME ~torn
      PROVE  /\ DOMAIN orders' = DOMAIN snapshot.orders
                                   \cup RegisteredBy(file, DOMAIN file \ todo', snapshot.seq)
             /\ todo' \subseteq ToReplay /\ \A i \in todo' : file[i].seq > max_seen'
  <2>1. /\ DOMAIN orders = DOMAIN snapshot.orders
                             \cup RegisteredBy(file, DOMAIN file \ todo, snapshot.seq)
        /\ todo \subseteq ToReplay /\ \A i \in todo : file[i].seq > max_seen
    BY <1>1, <1>2, <1>9 DEF ReplayedOrders
  <2>2. DOMAIN file \ todo' = (DOMAIN file \ todo) \cup {m}
    BY <1>1, <1>3, <1>4
  <2>3. RegisteredBy(file, DOMAIN file \ todo', snapshot.seq)
          = RegisteredBy(file, DOMAIN file \ todo, snapshot.seq)
              \cup (IF Registers(file[m]) /\ file[m].seq > snapshot.seq THEN {file[m].id} ELSE {})
    <3> DEFINE places == DOMAIN file \ todo
    <3> HIDE DEF places
    <3>1. RegisteredBy(file, places \cup {m}, snapshot.seq)
            = RegisteredBy(file, places, snapshot.seq)
                \cup (IF Registers(file[m]) /\ file[m].seq > snapshot.seq THEN {file[m].id} ELSE {})
      BY RegisteredOneMore
    <3> QED
      BY <2>2, <3>1 DEF places
  <2>4. file[m].seq > snapshot.seq
    BY <1>3, <2>1 DEF ToReplay
  <2>5. DOMAIN orders' = DOMAIN snapshot.orders
                           \cup RegisteredBy(file, DOMAIN file \ todo', snapshot.seq)
    BY <1>3, <1>6, <2>1, <2>3, <2>4
  <2>6. \A i, j \in DOMAIN file : i < j => file[i].seq < file[j].seq
    <3>1. Ascending(Logged)
      BY <1>9 DEF NumbersInv
    <3> QED
      BY <1>4, <3>1 DEF Ascending
  <2>7. \A i \in todo' : file[i].seq > max_seen'
    <3> SUFFICES ASSUME NEW i \in todo'
                 PROVE  file[i].seq > max_seen'
      OBVIOUS
    <3>1. i \in todo /\ i # m /\ m <= i
      BY <1>1, <1>3
    <3>2. m < i /\ i \in DOMAIN file
      BY <1>3, <1>4, <3>1
    <3>3. file[m].seq < file[i].seq /\ file[i].seq > max_seen
      BY <1>3, <2>1, <2>6, <3>1, <3>2
    <3>4. max_seen' = max_seen \/ max_seen' = file[m].seq
      BY <1>1, <1>3 DEF MaxOf
    <3> QED
      BY <1>3, <1>4, <3>2, <3>3, <3>4
  <2> QED
    BY <1>1, <2>1, <2>5, <2>7
<1>10. ToReplay' = ToReplay
  BY <1>1 DEF ToReplay
<1>11. ReplayedOrders'
  BY <1>1, <1>9, <1>10 DEF ReplayedOrders, RegisteredBy, Registers
<1> QED
  BY <1>7, <1>8, <1>11

(* Without a gateway nothing is met twice.                                 *)
LEMMA DuplicateOrders ==
  ASSUME TypeOK, OrdersInv, ReplayDuplicate, gateway = "paper"
  PROVE  (AllFresh /\ StoppedOrders /\ LiveOrders /\ ReplayedOrders)'
<1>1. /\ phase = "replaying" /\ todo # {} /\ Duplicate
      /\ UNCHANGED <<orders, file, torn, snapshot, buffered, phase, before, intact>>
  BY DEF ReplayDuplicate, trackerVars, diskVars, stopVars
<1>2. AllFresh /\ StoppedOrders /\ ReplayedOrders /\ Logged' = Logged
  BY <1>1 DEF OrdersInv, Logged
<1>3. torn
  <2>1. PICK m \in todo : Upcoming = file[m] /\ Upcoming.seq \in Nat
    BY <1>1, UpcomingIs
  <2>2. Upcoming.seq <= max_seen /\ max_seen \in Nat
    BY <1>1 DEF Duplicate, TypeOK
  <2>3. ~torn => Upcoming.seq > max_seen
    BY <1>1, <1>2, <2>1 DEF ReplayedOrders
  <2> QED
    BY <2>1, <2>2, <2>3
<1>4. AllFresh'
  BY <1>1, <1>2 DEF AllFresh, FreshOrders, PaperRecord, Registers, Fresh
<1>5. StoppedOrders'
  BY <1>1, <1>2 DEF StoppedOrders, RegisteredBy, Registers
<1>6. LiveOrders' /\ ReplayedOrders'
  BY <1>1, <1>3 DEF LiveOrders, ReplayedOrders
<1> QED
  BY <1>4, <1>5, <1>6

LEMMA ReadyOrders ==
  ASSUME TypeOK, NumbersInv, OrdersInv, Ready, gateway = "paper"
  PROVE  (AllFresh /\ StoppedOrders /\ LiveOrders /\ ReplayedOrders)'
<1>1. /\ phase = "replaying" /\ todo = {} /\ phase' = "live" /\ before' = NoOrders /\ intact' = FALSE
      /\ UNCHANGED <<orders, file, torn, snapshot, buffered>>
  BY ReadyEffect
<1>2. AllFresh /\ ReplayedOrders /\ Logged' = Logged /\ Logged = file
  <2>1. buffered = <<>> /\ file \in Seq(LogRecord)
    BY <1>1 DEF NumbersInv, TypeOK
  <2> QED
    BY <1>1, <2>1, EmptyKeeps DEF OrdersInv, Logged
<1>3. before' \in [DOMAIN before' -> {Fresh}]
  BY <1>1 DEF NoOrders
<1>4. AllFresh'
  BY <1>1, <1>2, <1>3 DEF AllFresh, FreshOrders, PaperRecord, Registers, Fresh
<1>5. StoppedOrders' /\ ReplayedOrders'
  BY <1>1 DEF StoppedOrders, ReplayedOrders
<1>6. ~torn => DOMAIN orders = DOMAIN snapshot.orders
                                 \cup RegisteredBy(Logged, DOMAIN Logged, snapshot.seq)
  <2>1. DOMAIN file \ todo = DOMAIN file
    BY <1>1
  <2> QED
    BY <1>1, <1>2, <2>1 DEF ReplayedOrders
<1>7. LiveOrders'
  BY <1>1, <1>2, <1>6 DEF LiveOrders, RegisteredBy, Registers
<1> QED
  BY <1>4, <1>5, <1>7

LEMMA StutterOrders ==
  ASSUME OrdersInv, UNCHANGED vars
  PROVE  OrdersInv'
<1>1. OrdersInv
  OBVIOUS
<1>2. UNCHANGED <<orders, file, torn, snapshot, buffered, phase, todo, max_seen, gateway, before, intact>>
  BY DEF vars, trackerVars, diskVars, replayVars, stopVars
<1>3. Logged' = Logged /\ ToReplay' = ToReplay
  BY <1>2 DEF Logged, ToReplay
<1> QED
  BY <1>1, <1>2, <1>3 DEF OrdersInv, AllFresh, StoppedOrders, LiveOrders, ReplayedOrders, FreshOrders,
                          PaperRecord, Registers, Fresh, RegisteredBy

(* The gateway is chosen once.                                             *)
LEMMA GatewaySame ==
  ASSUME TypeOK, [Next]_vars
  PROVE  gateway' = gateway
<1>1. CASE \E n \in 0 .. 2 : FeedEvent(n)
  BY <1>1 DEF FeedEvent
<1>2. CASE \E r : Reported(r)
  BY <1>2, ReportEffect
<1>3. CASE Heartbeat \/ Shutdown \/ Crash
  BY <1>3 DEF Heartbeat, Shutdown, Crash, Down
<1>4. CASE Start \/ ColdStart \/ ReplayEvent \/ Ready
  BY <1>4, StartEffect, ColdStartEffect, ReplayEffect, ReadyEffect
<1>5. CASE ReplayDuplicate \/ UNCHANGED vars
  BY <1>5 DEF ReplayDuplicate, vars
<1> QED
  BY Steps, <1>1, <1>2, <1>3, <1>4, <1>5

LEMMA OrdersStep ==
  ASSUME TypeOK, NumbersInv, OrdersInv, [Next]_vars
  PROVE  OrdersInv'
<1>1. CASE UNCHANGED vars
  BY <1>1, StutterOrders
<1>2. CASE gateway # "paper" /\ ~UNCHANGED vars
  <2>1. gateway' = gateway
    BY <1>2, GatewaySame
  <2> QED
    BY <1>2, <2>1 DEF OrdersInv
<1>3. CASE gateway = "paper" /\ ~UNCHANGED vars
  <2>1. (AllFresh /\ StoppedOrders /\ LiveOrders /\ ReplayedOrders)'
    BY <1>3, Steps, PaperSilent, FeedOrders, HeartbeatOrders, ShutdownOrders, CrashOrders, StartOrders,
       ColdStartOrders, DuplicateOrders, ReplayOrders, ReadyOrders
  <2> QED
    BY <2>1 DEF OrdersInv
<1> QED
  BY <1>1, <1>2, <1>3

LEMMA OrdersInvariant == Spec => []OrdersInv
<1>1. Init => OrdersInv
  <2> SUFFICES ASSUME Init PROVE OrdersInv
    OBVIOUS
  <2>1. /\ phase = "live" /\ orders = NoOrders /\ before = NoOrders /\ intact = FALSE
        /\ file = <<>> /\ buffered = <<>> /\ snapshot.orders = NoOrders
    BY DEF Init, NoSnapshot, Eng!Init, NoOrders
  <2>2. Logged = <<>> /\ DOMAIN Logged = {}
    <3>1. file \in Seq(LogRecord)
      BY <2>1
    <3> QED
      BY <2>1, <3>1, EmptyKeeps DEF Logged
  <2>3. AllFresh
    <3>1. NoOrders \in [DOMAIN NoOrders -> {Fresh}]
      BY DEF NoOrders
    <3> QED
      BY <2>1, <2>2, <3>1, NoOrdersTyped DEF AllFresh, FreshOrders
  <2>4. RegisteredBy(Logged, DOMAIN Logged, snapshot.seq) = {}
    BY <2>2, RegisteredNone
  <2>5. StoppedOrders /\ LiveOrders /\ ReplayedOrders
    BY <2>1, <2>4 DEF StoppedOrders, LiveOrders, ReplayedOrders
  <2> QED
    BY <2>3, <2>5 DEF OrdersInv
<1>2. TypeOK /\ NumbersInv /\ OrdersInv /\ [Next]_vars => OrdersInv'
  BY OrdersStep
<1> QED
  BY <1>1, <1>2, TypeCorrect, NumbersInvariant, PTL DEF Spec

(***************************************************************************)
(* plan_recovery, main.rs 306-398: without a gateway, whatever snapshots   *)
(* were taken and wherever the log stands against them, a node that lost   *)
(* no record has every order back as it was when the replay ends.  It      *)
(* rests on OrdersInv, snapshot and later records give the orders, and on  *)
(* NumbersInv, by which "later" is the same by number and by place.        *)
(***************************************************************************)
THEOREM RecoveryExact == Spec => []PaperReplayIdentical
<1>1. TypeOK /\ OrdersInv => PaperReplayIdentical
  <2> SUFFICES ASSUME TypeOK, OrdersInv, gateway = "paper", intact, Replayed
               PROVE  orders = before
    BY DEF PaperReplayIdentical
  <2>1. phase = "replaying" /\ todo = {} /\ ~torn
    BY DEF Replayed, OrdersInv, StoppedOrders
  <2>2. DOMAIN file \ todo = DOMAIN file
    BY <2>1
  <2>3. DOMAIN orders = DOMAIN before
    BY <2>1, <2>2 DEF OrdersInv, StoppedOrders, ReplayedOrders
  <2>4. orders \in [DOMAIN orders -> {Fresh}] /\ before \in [DOMAIN before -> {Fresh}]
    <3>1. OrderMap(orders) /\ FreshOrders(orders) /\ before \in [DOMAIN before -> {Fresh}]
      BY DEF TypeOK, OrdersInv, AllFresh
    <3> QED
      BY <3>1, FreshMap
  <2> QED
    BY <2>3, <2>4
<1> QED
  BY <1>1, TypeCorrect, OrdersInvariant, PTL

-----------------------------------------------------------------------------
(* Executions.                                                             *)

LEMMA CountsTyped ==
  ASSUME NEW r \in LogRecord, NEW id \in Ids, NEW seq
  PROVE  /\ Counts(r, id, seq) \in Nat /\ Adds(r, id) \in Nat
         /\ Counts(r, id, seq) = Adds(r, id) \/ (Counts(r, id, seq) = 0 /\ ~(r.seq > seq))
  BY LogRecordFields DEF Counts, Adds

LEMMA FilledTyped ==
  ASSUME NEW os, OrderMap(os), NEW id \in Ids
  PROVE  FilledIn(os, id) \in Nat
  BY DEF OrderMap, FilledIn, Eng!LiveOrder

(* The running total over a log that grows by a record.                    *)
Grown(log, more, r) == more = Append(log, r)

LEMMA TotalAppended ==
  ASSUME NEW log \in Seq(LogRecord), NEW id \in Ids, NEW from, NEW seq, NEW r \in LogRecord,
         NEW more, Grown(log, more, r), NEW f, RunningTotal(f, log, id, from, seq),
         NEW bound, f[Len(log)] + Counts(r, id, seq) <= bound
  PROVE  \E g : RunningTotal(g, more, id, from, seq) /\ g[Len(more)] <= bound
<1> DEFINE n == Len(log)
           c == Counts(r, id, seq)
           g == [i \in 0 .. n + 1 |-> IF i = n + 1 THEN f[n] + c ELSE f[i]]
<1>1. n \in Nat /\ DOMAIN log = 1 .. n /\ c \in Nat
  BY CountsTyped
<1>2. Len(more) = n + 1 /\ DOMAIN more = 1 .. n + 1 /\ more[n + 1] = r
      /\ \A i \in 1 .. n : more[i] = log[i]
  BY DEF Grown
<1>3. /\ f \in [0 .. n -> Nat] /\ f[0] = from
      /\ \A i \in 1 .. n : f[i] = f[i - 1] + Counts(log[i], id, seq)
      /\ \A i, j \in 0 .. n : i <= j => f[i] <= f[j]
  BY <1>1 DEF RunningTotal
<1>4. DOMAIN g = 0 .. n + 1 /\ g = [i \in 0 .. n + 1 |-> g[i]]
      /\ g[n + 1] = f[n] + c /\ \A i \in 0 .. n : g[i] = f[i]
  BY <1>1
<1> HIDE DEF g, c, n
<1>5. f[n] \in Nat /\ \A i \in 0 .. n + 1 : i \in 0 .. n \/ i = n + 1
  BY <1>1, <1>3
<1>6. \A i \in 0 .. n + 1 : g[i] \in Nat
  BY <1>1, <1>3, <1>4, <1>5
<1>7. g \in [0 .. n + 1 -> Nat] /\ g[0] = from
  <2>1. g \in [0 .. n + 1 -> Nat]
    BY <1>4, <1>6
  <2>2. 0 \in 0 .. n
    BY <1>1
  <2> QED
    BY <1>3, <1>4, <2>1, <2>2
<1>8. \A i \in 1 .. n + 1 : g[i] = g[i - 1] + Counts(more[i], id, seq)
  <2> SUFFICES ASSUME NEW i \in 1 .. n + 1
               PROVE  g[i] = g[i - 1] + Counts(more[i], id, seq)
    OBVIOUS
  <2>1. CASE i \in 1 .. n
    <3>1. i \in 0 .. n /\ i - 1 \in 0 .. n
      BY <1>1, <2>1
    <3> QED
      BY <1>2, <1>3, <1>4, <2>1, <3>1
  <2>2. CASE i = n + 1
    <3>1. i - 1 = n /\ n \in 0 .. n
      BY <1>1, <2>2
    <3> QED
      BY <1>2, <1>4, <2>2, <3>1 DEF c
  <2> QED
    BY <1>1, <2>1, <2>2
<1>9. \A i, j \in 0 .. n + 1 : i <= j => g[i] <= g[j]
  <2> SUFFICES ASSUME NEW i \in 0 .. n + 1, NEW j \in 0 .. n + 1, i <= j
               PROVE  g[i] <= g[j]
    OBVIOUS
  <2>1. CASE j \in 0 .. n
    <3>1. i \in 0 .. n
      BY <1>1, <2>1
    <3> QED
      BY <1>3, <1>4, <2>1, <3>1
  <2>2. CASE i \in 0 .. n /\ j = n + 1
    <3>1. f[i] <= f[n] /\ f[i] \in Nat
      BY <1>1, <1>3, <2>2
    <3>2. g[i] = f[i] /\ g[j] = f[n] + c
      BY <1>4, <2>2
    <3>3. f[i] <= f[n] + c
      BY <1>1, <1>5, <3>1
    <3> QED
      BY <3>2, <3>3
  <2>3. CASE i = n + 1 /\ j = n + 1
    BY <1>6, <2>3
  <2> QED
    BY <1>1, <1>5, <2>1, <2>2, <2>3
<1>10. RunningTotal(g, more, id, from, seq)
  BY <1>2, <1>7, <1>8, <1>9 DEF RunningTotal
<1> QED
  BY <1>2, <1>4, <1>10 DEF n, c

(* Over the beginning of a log, it is no higher.                           *)
LEMMA TotalShortened ==
  ASSUME NEW log \in Seq(LogRecord), NEW id \in Ids, NEW from, NEW seq, NEW less \in Seq(LogRecord),
         DOMAIN less \subseteq DOMAIN log, \A i \in DOMAIN less : less[i] = log[i],
         NEW f, RunningTotal(f, log, id, from, seq)
  PROVE  \E g : /\ RunningTotal(g, less, id, from, seq)
                /\ g[Len(less)] \in Nat /\ f[Len(log)] \in Nat /\ g[Len(less)] <= f[Len(log)]
<1> DEFINE n == Len(log)
           m == Len(less)
           g == [i \in 0 .. m |-> f[i]]
<1>1. n \in Nat /\ m \in Nat /\ DOMAIN log = 1 .. n /\ DOMAIN less = 1 .. m
  OBVIOUS
<1>2. m <= n
  <2>1. m = 0 \/ m \in 1 .. m
    BY <1>1
  <2> QED
    BY <1>1, <2>1
<1>3. /\ f \in [0 .. n -> Nat] /\ f[0] = from
      /\ \A i \in 1 .. n : f[i] = f[i - 1] + Counts(log[i], id, seq)
      /\ \A i, j \in 0 .. n : i <= j => f[i] <= f[j]
  BY <1>1 DEF RunningTotal
<1>4. DOMAIN g = 0 .. m /\ g = [i \in 0 .. m |-> g[i]] /\ \A i \in 0 .. m : g[i] = f[i]
  OBVIOUS
<1> HIDE DEF g, n, m
<1>5. \A i \in 0 .. m : i \in 0 .. n
  BY <1>1, <1>2
<1>6. g \in [0 .. m -> Nat] /\ g[0] = from
  BY <1>1, <1>3, <1>4, <1>5
<1>7. \A i \in 1 .. m : g[i] = g[i - 1] + Counts(less[i], id, seq)
  <2> SUFFICES ASSUME NEW i \in 1 .. m
               PROVE  g[i] = g[i - 1] + Counts(less[i], id, seq)
    OBVIOUS
  <2>1. i \in 0 .. m /\ i - 1 \in 0 .. m /\ i \in 1 .. n
    BY <1>1, <1>2
  <2> QED
    BY <1>1, <1>3, <1>4, <2>1
<1>8. \A i, j \in 0 .. m : i <= j => g[i] <= g[j]
  BY <1>3, <1>4, <1>5
<1>9. RunningTotal(g, less, id, from, seq)
  BY <1>1, <1>6, <1>7, <1>8 DEF RunningTotal, m
<1>10. g[m] \in Nat /\ f[n] \in Nat /\ g[m] <= f[n]
  <2>1. m \in 0 .. m /\ m \in 0 .. n /\ n \in 0 .. n
    BY <1>1, <1>2
  <2> QED
    BY <1>2, <1>3, <1>4, <2>1
<1> QED
  BY <1>9, <1>10 DEF m, n

(* Over a log of which nothing counts, it stays what it was.               *)
LEMMA TotalFlat ==
  ASSUME NEW log \in Seq(LogRecord), NEW id \in Ids, NEW from \in Nat, NEW seq,
         \A i \in DOMAIN log : Counts(log[i], id, seq) = 0
  PROVE  \E g : RunningTotal(g, log, id, from, seq) /\ g[Len(log)] = from
<1> DEFINE n == Len(log)
           g == [i \in 0 .. n |-> from]
<1>1. n \in Nat /\ DOMAIN log = 1 .. n
  OBVIOUS
<1>2. g \in [0 .. n -> Nat] /\ \A i \in 0 .. n : g[i] = from
  OBVIOUS
<1> HIDE DEF g, n
<1>3. 0 \in 0 .. n /\ n \in 0 .. n /\ \A i \in 1 .. n : i \in 0 .. n /\ i - 1 \in 0 .. n
  BY <1>1
<1>4. \A i \in 1 .. n : g[i] = g[i - 1] + Counts(log[i], id, seq)
  BY <1>1, <1>2, <1>3
<1>5. \A i, j \in 0 .. n : i <= j => g[i] <= g[j]
  BY <1>2
<1>6. RunningTotal(g, log, id, from, seq)
  BY <1>1, <1>2, <1>3, <1>4, <1>5 DEF RunningTotal, n
<1> QED
  BY <1>2, <1>3, <1>6 DEF n

(* Over a log that grows by records that count nothing, it stays as high.  *)
LEMMA TotalUnmoved ==
  ASSUME NEW log \in Seq(LogRecord), NEW id \in Ids, NEW from, NEW seq, NEW news \in Seq(LogRecord),
         \A i \in DOMAIN news : Counts(news[i], id, seq) = 0,
         NEW f, RunningTotal(f, log, id, from, seq)
  PROVE  \E g : RunningTotal(g, log \o news, id, from, seq) /\ g[Len(log \o news)] = f[Len(log)]
<1> DEFINE n == Len(log)
           m == Len(news)
           more == log \o news
           g == [i \in 0 .. n + m |-> IF i <= n THEN f[i] ELSE f[n]]
<1>1. /\ n \in Nat /\ m \in Nat /\ DOMAIN log = 1 .. n /\ DOMAIN news = 1 .. m
      /\ Len(more) = n + m /\ DOMAIN more = 1 .. n + m
  BY ConcatKeeps
<1>2. \A i \in 1 .. n + m : (i \in 1 .. n /\ more[i] = log[i])
                            \/ (i > n /\ Counts(more[i], id, seq) = 0)
  <2> SUFFICES ASSUME NEW i \in 1 .. n + m
               PROVE  (i \in 1 .. n /\ more[i] = log[i]) \/ (i > n /\ Counts(more[i], id, seq) = 0)
    OBVIOUS
  <2>1. CASE i \in DOMAIN log /\ more[i] = log[i]
    BY <1>1, <2>1
  <2>2. CASE \E j \in DOMAIN news : i = n + j /\ more[i] = news[j]
    <3>1. PICK j \in DOMAIN news : i = n + j /\ more[i] = news[j]
      BY <2>2
    <3>2. i > n
      BY <1>1, <3>1
    <3> QED
      BY <3>1, <3>2
  <2>3. i \in DOMAIN (log \o news)
    BY <1>1
  <2>4. (i \in DOMAIN log /\ more[i] = log[i]) \/ (\E j \in DOMAIN news : i = n + j /\ more[i] = news[j])
    BY <2>3, ConcatSplits
  <2> QED
    BY <2>1, <2>2, <2>4
<1>3. /\ f \in [0 .. n -> Nat] /\ f[0] = from
      /\ \A i \in 1 .. n : f[i] = f[i - 1] + Counts(log[i], id, seq)
      /\ \A i, j \in 0 .. n : i <= j => f[i] <= f[j]
  BY <1>1 DEF RunningTotal
<1>4. DOMAIN g = 0 .. n + m /\ g = [i \in 0 .. n + m |-> g[i]]
      /\ \A i \in 0 .. n + m : g[i] = IF i <= n THEN f[i] ELSE f[n]
  OBVIOUS
<1> HIDE DEF g, more, n, m
<1>5. /\ n \in 0 .. n /\ f[n] \in Nat /\ 0 \in 0 .. n + m /\ 0 <= n
      /\ \A i \in 0 .. n + m : i <= n => i \in 0 .. n
  BY <1>1, <1>3
<1>6. \A i \in 0 .. n + m : g[i] \in Nat /\ g[i] <= f[n]
  BY <1>3, <1>4, <1>5
<1>7. g \in [0 .. n + m -> Nat] /\ g[0] = from
  <2>1. g \in [0 .. n + m -> Nat]
    BY <1>4, <1>6
  <2> QED
    BY <1>3, <1>4, <1>5, <2>1
<1>8. \A i \in 1 .. n + m : g[i] = g[i - 1] + Counts(more[i], id, seq)
  <2> SUFFICES ASSUME NEW i \in 1 .. n + m
               PROVE  g[i] = g[i - 1] + Counts(more[i], id, seq)
    OBVIOUS
  <2>1. i \in 0 .. n + m /\ i - 1 \in 0 .. n + m
    BY <1>1
  <2>2. CASE i \in 1 .. n /\ more[i] = log[i]
    <3>1. i <= n /\ i - 1 <= n
      BY <1>1, <2>2
    <3> QED
      BY <1>3, <1>4, <2>1, <2>2, <3>1
  <2>3. CASE i > n /\ Counts(more[i], id, seq) = 0
    <3>1. ~(i <= n) /\ (i - 1 <= n => i - 1 = n)
      BY <1>1, <2>3
    <3>2. g[i] = f[n] /\ g[i - 1] = f[n]
      BY <1>4, <2>1, <3>1
    <3> QED
      BY <1>5, <2>3, <3>2
  <2> QED
    BY <1>2, <2>2, <2>3
<1>9. \A i, j \in 0 .. n + m : i <= j => g[i] <= g[j]
  <2> SUFFICES ASSUME NEW i \in 0 .. n + m, NEW j \in 0 .. n + m, i <= j
               PROVE  g[i] <= g[j]
    OBVIOUS
  <2>1. CASE j <= n
    <3>1. i <= n
      BY <1>1, <2>1
    <3> QED
      BY <1>3, <1>4, <1>5, <2>1, <3>1
  <2>2. CASE ~(j <= n)
    BY <1>4, <1>6, <2>2
  <2> QED
    BY <2>1, <2>2
<1>10. RunningTotal(g, more, id, from, seq)
  BY <1>1, <1>7, <1>8, <1>9 DEF RunningTotal
<1>11. g[Len(more)] = f[n]
  <2>1. n + m \in 0 .. n + m /\ (n + m <= n => n + m = n)
    BY <1>1
  <2> QED
    BY <1>1, <1>4, <2>1
<1> QED
  BY <1>10, <1>11 DEF more, n

(* A step after which the log is a beginning of what it was, and no order  *)
(* has more than before or than the snapshot.                              *)
LEMMA AccountsKept ==
  ASSUME TypeOK, NEW id \in Ids, NEW f, Accounted(f, id),
         Logged' \in Seq(LogRecord),
         DOMAIN Logged' \subseteq DOMAIN Logged, \A i \in DOMAIN Logged' : Logged'[i] = Logged[i],
         UNCHANGED <<snapshot, executed>>,
         phase' = "live" => FilledIn(orders', id) <= executed[id],
         phase' = "replaying" =>
           /\ Logged' = Logged
           /\ \E p \in 0 .. Len(Logged) : (\A i \in todo' : p < i) /\ FilledIn(orders', id) <= f[p]
  PROVE  \E g : Accounted(g, id)'
<1> DEFINE from == FilledIn(snapshot.orders, id)
<1>1. Logged \in Seq(LogRecord) /\ executed[id] \in Nat
  BY LoggedTyped, Constants DEF TypeOK
<1>2. /\ RunningTotal(f, Logged, id, from, snapshot.seq) /\ f[Len(Logged)] <= executed[id]
  BY DEF Accounted
<1> HIDE DEF from
<1>3. CASE Logged' = Logged
  <2>1. /\ RunningTotal(f, Logged', id, from, snapshot.seq) /\ f[Len(Logged')] <= executed[id]
    BY <1>2, <1>3
  <2>2. Accounted(f, id)'
    BY <1>3, <2>1 DEF Accounted, from
  <2> QED
    BY <2>2
<1>4. CASE Logged' # Logged
  <2>1. PICK g : /\ RunningTotal(g, Logged', id, from, snapshot.seq)
                 /\ g[Len(Logged')] \in Nat /\ f[Len(Logged)] \in Nat
                 /\ g[Len(Logged')] <= f[Len(Logged)]
    BY <1>1, <1>2, TotalShortened
  <2>2. g[Len(Logged')] <= executed[id]
    BY <1>1, <1>2, <2>1
  <2>3. Accounted(g, id)'
    BY <1>4, <2>1, <2>2 DEF Accounted, from
  <2> QED
    BY <2>3
<1> QED
  BY <1>3, <1>4

(* A snapshot of a running node, not behind a fill in it, has them all.    *)
LEMMA SnapshotAccounts ==
  ASSUME TypeOK, FillsInv, Live, TakeSnapshot, ~ahead', Logged' = Logged, executed' = executed,
         phase' # "replaying", phase' = "live" => orders' = orders, NEW id \in Ids
  PROVE  \E g : Accounted(g, id)'
<1> DEFINE from == FilledIn(orders, id)
<1>1. /\ snapshot'.seq = last_seq /\ snapshot'.orders = orders
  BY SnapshotEffect
<1>2. ~ahead /\ \A i \in DOMAIN Logged : ~(Logged[i].kind = "OrderFill" /\ Logged[i].seq > last_seq)
  BY DEF TakeSnapshot
<1>3. \A i \in DOMAIN Logged : Counts(Logged[i], id, last_seq) = 0
  BY <1>2 DEF Counts, Adds
<1>4. from \in Nat /\ Logged \in Seq(LogRecord)
  BY LoggedTyped, FilledTyped DEF TypeOK
<1>5. from <= executed[id]
  BY <1>2 DEF FillsInv, Accounted, Live
<1> HIDE DEF from
<1>6. PICK g : RunningTotal(g, Logged, id, from, last_seq) /\ g[Len(Logged)] = from
  BY <1>3, <1>4, TotalFlat
<1>7. Accounted(g, id)'
  BY <1>1, <1>5, <1>6 DEF Accounted, from
<1> QED
  BY <1>7

LEMMA FeedAccounts ==
  ASSUME TypeOK, NEW n \in 0 .. 2, FeedEvent(n), NEW id \in Ids, NEW f, Accounted(f, id)
  PROVE  \E g : Accounted(g, id)'
<1> DEFINE from == FilledIn(snapshot.orders, id)
           now == FilledIn(orders, id)
<1>1. /\ phase = "live" /\ UNCHANGED <<snapshot, executed, phase>>
  BY DEF FeedEvent, Live
<1>2. /\ n \in Nat /\ next_local_id + n <= MaxLocalId + 1 /\ orders' = WithOrders(n)
      /\ Logged \in Seq(LogRecord) /\ Added(n) \in Seq(LogRecord) /\ Logged' = Logged \o Added(n)
      /\ executed[id] \in Nat
  <2>1. n \in Nat /\ next_local_id + n <= MaxLocalId + 1 /\ orders' = WithOrders(n)
    BY FeedEffect
  <2>2. Logged \in Seq(LogRecord) /\ Added(n) \in Seq(LogRecord) /\ Logged' = Logged \o Added(n)
    BY AddedIs, LoggedTyped
  <2>3. executed[id] \in Nat
    BY Constants DEF TypeOK
  <2> QED
    BY <2>1, <2>2, <2>3
<1>3. FilledIn(orders', id) = now \/ FilledIn(orders', id) = 0
  <2>1. /\ DOMAIN orders \subseteq DOMAIN orders'
        /\ \A x \in DOMAIN orders : orders'[x] = orders[x]
        /\ \A x \in DOMAIN orders' : x \notin DOMAIN orders => orders'[x] = Fresh
    BY <1>2, WithOrdersEffect
  <2> QED
    BY <2>1, FreshIs DEF FilledIn
<1>4. RunningTotal(f, Logged, id, from, snapshot.seq) /\ f[Len(Logged)] <= executed[id]
      /\ now <= executed[id]
  BY <1>1 DEF Accounted
<1> HIDE DEF from, now
<1>5. FilledIn(orders', id) <= executed[id]
  BY <1>2, <1>3, <1>4
<1>6. \A i \in DOMAIN Added(n) : Counts(Added(n)[i], id, snapshot.seq) = 0
  <2>1. 0 \in Nat /\ 0 <= last_seq
    BY DEF TypeOK
  <2>2. \A i \in DOMAIN Added(n) : PaperRecord(Added(n)[i])
    BY <2>1, AddedRegisters
  <2> QED
    BY <2>2 DEF PaperRecord, Registers, Counts, Adds
<1>7. PICK g : /\ RunningTotal(g, Logged \o Added(n), id, from, snapshot.seq)
               /\ g[Len(Logged \o Added(n))] = f[Len(Logged)]
  BY <1>2, <1>4, <1>6, TotalUnmoved
<1>8. Accounted(g, id)'
  BY <1>1, <1>2, <1>4, <1>5, <1>7 DEF Accounted, from
<1> QED
  BY <1>8

LEMMA ReportAccounts ==
  ASSUME TypeOK, NEW r, Reported(r), NEW id \in Ids, NEW f, Accounted(f, id)
  PROVE  \E g : Accounted(g, id)'
<1> DEFINE from == FilledIn(snapshot.orders, id)
           now == FilledIn(orders, id)
           then == FilledIn(orders', id)
           total == f[Len(Logged)]
<1>1. /\ phase = "live" /\ UNCHANGED <<snapshot, phase>> /\ Logged' = Append(Logged, r)
      /\ Processed(orders, r, orders')
  BY ReportEffect DEF Live
<1>2. r \in LogRecord /\ executed'[id] = executed[id] + Adds(r, id)
  BY DEF Reported
<1>3. /\ Logged \in Seq(LogRecord) /\ executed[id] \in Nat
  BY LoggedTyped, Constants DEF TypeOK
<1>4. RunningTotal(f, Logged, id, from, snapshot.seq) /\ total <= executed[id] /\ now <= executed[id]
  BY <1>1 DEF Accounted
<1>5. now \in Nat /\ then \in Nat /\ Adds(r, id) \in Nat /\ then <= now + Adds(r, id)
  BY <1>1 DEF Processed
<1>6. total \in Nat
  <2>1. Len(Logged) \in 0 .. Len(Logged)
    BY <1>3
  <2> QED
    BY <1>4, <2>1 DEF RunningTotal
<1>7. Counts(r, id, snapshot.seq) \in Nat /\ Counts(r, id, snapshot.seq) <= Adds(r, id)
  <2>1. /\ Counts(r, id, snapshot.seq) \in Nat
        /\ Counts(r, id, snapshot.seq) = Adds(r, id) \/ Counts(r, id, snapshot.seq) = 0
    BY <1>2, CountsTyped
  <2> QED
    BY <1>5, <2>1
<1> HIDE DEF from, now, then, total
<1>8. total + Counts(r, id, snapshot.seq) <= executed'[id]
  <2>1. total + Counts(r, id, snapshot.seq) <= executed[id] + Adds(r, id)
    BY <1>3, <1>4, <1>5, <1>6, <1>7
  <2> QED
    BY <1>2, <2>1
<1>9. PICK g : RunningTotal(g, Logged', id, from, snapshot.seq) /\ g[Len(Logged')] <= executed'[id]
  <2>1. r \in LogRecord /\ Logged \in Seq(LogRecord) /\ RunningTotal(f, Logged, id, from, snapshot.seq)
        /\ Grown(Logged, Logged', r)
    BY <1>1, <1>2, <1>3, <1>4 DEF Grown
  <2>2. f[Len(Logged)] + Counts(r, id, snapshot.seq) <= executed'[id]
    BY <1>8 DEF total
  <2> QED
    BY <2>1, <2>2, TotalAppended
<1>10. then <= executed'[id]
  BY <1>2, <1>3, <1>4, <1>5
<1>11. Accounted(g, id)'
  BY <1>1, <1>9, <1>10 DEF Accounted, from, then
<1> QED
  BY <1>11

LEMMA ReplayAccounts ==
  ASSUME TypeOK, NumbersInv, FillsInv, ReplayEvent, NEW id \in Ids, NEW f, Accounted(f, id)
  PROVE  \E g : Accounted(g, id)'
<1> DEFINE now == FilledIn(orders, id)
           then == FilledIn(orders', id)
<1>1. /\ phase = "replaying" /\ todo # {} /\ todo' = todo \ {Min(todo)} /\ phase' = "replaying"
      /\ Processed(orders, Upcoming, orders')
      /\ UNCHANGED <<file, snapshot, buffered, executed>>
  BY ReplayEffect
<1>2. Logged' = Logged /\ Logged \in Seq(LogRecord)
      /\ DOMAIN Logged = 1 .. Len(Logged) /\ Len(Logged) \in Nat
      /\ DOMAIN file \subseteq DOMAIN Logged /\ \A i \in DOMAIN file : Logged[i] = file[i]
  BY <1>1, LoggedTyped DEF Logged
<1>3. PICK m \in todo : /\ m = Min(todo) /\ \A i \in todo : m <= i
                        /\ m \in DOMAIN file /\ Upcoming = file[m] /\ Upcoming \in LogRecord
  BY <1>1, UpcomingIs
<1>4. /\ \A i, j \in 0 .. Len(Logged) : i <= j => f[i] <= f[j]
      /\ \A i \in DOMAIN Logged :
           f[i] = f[i - 1] + Counts(Logged[i], id, snapshot.seq)
      /\ f \in [0 .. Len(Logged) -> Nat]
  BY DEF Accounted, RunningTotal
<1>5. PICK p \in 0 .. Len(Logged) : (\A i \in todo : p < i) /\ now <= f[p]
  BY <1>1 DEF Accounted
<1>6. now \in Nat /\ then \in Nat /\ Adds(Upcoming, id) \in Nat /\ then <= now + Adds(Upcoming, id)
  BY <1>1 DEF Processed
<1> HIDE DEF now, then
<1>7. m \in 1 .. Len(Logged) /\ m - 1 \in 0 .. Len(Logged) /\ p <= m - 1 /\ m \in 0 .. Len(Logged)
  BY <1>2, <1>3, <1>5
<1>8. f[p] <= f[m - 1] /\ f[p] \in Nat /\ f[m - 1] \in Nat
  BY <1>4, <1>7
<1>9. f[m] = f[m - 1] + Adds(Upcoming, id)
  <2>1. Upcoming.seq > snapshot.seq
    BY <1>1, <1>3 DEF FillsInv, ToReplay
  <2>2. Counts(Upcoming, id, snapshot.seq) = Adds(Upcoming, id)
    BY <2>1 DEF Counts
  <2>3. Logged[m] = Upcoming
    BY <1>2, <1>3
  <2> QED
    BY <1>2, <1>3, <1>4, <2>2, <2>3
<1>10. then <= f[m]
  BY <1>5, <1>6, <1>8, <1>9
<1>11. \A i \in todo' : m < i
  <2> SUFFICES ASSUME NEW i \in todo'
               PROVE  m < i
    OBVIOUS
  <2>1. i \in todo /\ i # m /\ m <= i
    BY <1>1, <1>3
  <2>2. i \in Nat
    <3>1. todo \subseteq DOMAIN file
      BY DEF TypeOK
    <3>2. DOMAIN file = 1 .. Len(file)
      BY LoggedTyped
    <3> QED
      BY <2>1, <3>1, <3>2
  <2> QED
    BY <1>7, <2>1, <2>2
<1>12. \E q \in 0 .. Len(Logged) : (\A i \in todo' : q < i) /\ FilledIn(orders', id) <= f[q]
  BY <1>7, <1>10, <1>11 DEF then
<1> QED
  BY <1>1, <1>2, <1>12, AccountsKept

(* What a replay has was executed.                                         *)
LEMMA ReplayingFilled ==
  ASSUME TypeOK, phase = "replaying", NEW id \in Ids, NEW f, Accounted(f, id)
  PROVE  FilledIn(orders, id) <= executed[id]
<1> DEFINE n == Len(Logged)
<1>1. n \in Nat /\ executed[id] \in Nat /\ FilledIn(orders, id) \in Nat
  BY LoggedTyped, FilledTyped, Constants DEF TypeOK
<1>2. PICK p \in 0 .. n : FilledIn(orders, id) <= f[p]
  BY DEF Accounted
<1>3. /\ f \in [0 .. n -> Nat] /\ \A i, j \in 0 .. n : i <= j => f[i] <= f[j]
      /\ f[n] <= executed[id]
  BY DEF Accounted, RunningTotal
<1> HIDE DEF n
<1>4. f[p] \in Nat /\ f[n] \in Nat /\ f[p] <= f[n]
  BY <1>1, <1>3
<1> QED
  BY <1>1, <1>2, <1>3, <1>4

(* The steps of the node, one by one.                                      *)
LEMMA CrashAccounts ==
  ASSUME TypeOK, Crash, NEW id \in Ids, NEW f, Accounted(f, id)
  PROVE  \E g : Accounted(g, id)'
<1>1. /\ buffered' = <<>> /\ phase' = "down" /\ UNCHANGED <<snapshot, executed>>
  BY DEF Crash, Down
<1>2. /\ file' \in Seq(LogRecord) /\ DOMAIN file' \subseteq DOMAIN Logged
      /\ \A i \in DOMAIN file' : file'[i] = Logged[i]
  BY CrashEffect
<1>3. Logged' = file'
  BY <1>1, <1>2, EmptyKeeps DEF Logged
<1> QED
  BY <1>1, <1>2, <1>3, AccountsKept

(* A start has what the snapshot has, a cold one nothing.                  *)
LEMMA StartAccounts ==
  ASSUME TypeOK, Start \/ ColdStart, NEW id \in Ids, NEW f, Accounted(f, id)
  PROVE  \E g : Accounted(g, id)'
<1>1. /\ UNCHANGED <<file, buffered, snapshot, executed>> /\ phase' = "replaying"
      /\ orders' = snapshot.orders \/ orders' = NoOrders
      /\ todo' \subseteq DOMAIN file
  BY StartEffect, ColdStartEffect, PlanEffect
<1>2. Logged' = Logged /\ Logged \in Seq(LogRecord) /\ DOMAIN file = 1 .. Len(file) /\ Len(file) \in Nat
      /\ Len(Logged) \in Nat
  BY <1>1, LoggedTyped DEF Logged
<1>3. FilledIn(snapshot.orders, id) \in Nat /\ f[0] = FilledIn(snapshot.orders, id)
  BY FilledTyped DEF Accounted, RunningTotal, TypeOK
<1>4. FilledIn(NoOrders, id) = 0
  BY NoOrdersTyped DEF FilledIn
<1>5. FilledIn(orders', id) <= f[0]
  BY <1>1, <1>3, <1>4
<1>6. 0 \in 0 .. Len(Logged) /\ \A i \in todo' : 0 < i
  BY <1>1, <1>2
<1> QED
  BY <1>1, <1>2, <1>5, <1>6, AccountsKept

(* What has been replayed in the end was executed.                         *)
LEMMA ReadyAccounts ==
  ASSUME TypeOK, Ready, NEW id \in Ids, NEW f, Accounted(f, id)
  PROVE  \E g : Accounted(g, id)'
<1>1. /\ UNCHANGED <<orders, file, buffered, snapshot, executed>> /\ phase = "replaying"
      /\ phase' = "live"
  BY ReadyEffect
<1>2. Logged' = Logged /\ Logged \in Seq(LogRecord)
  BY <1>1, LoggedTyped DEF Logged
<1>3. FilledIn(orders, id) <= executed[id]
  BY <1>1, ReplayingFilled
<1> QED
  BY <1>1, <1>2, <1>3, AccountsKept

LEMMA AccountsStep ==
  ASSUME TypeOK, NumbersInv, FillsInv, [Next]_vars, ~ahead', NEW id \in Ids
  PROVE  \E g : Accounted(g, id)'
<1>1. CASE Heartbeat
  <2>1. /\ TakeSnapshot /\ Live /\ phase' # "replaying"
        /\ UNCHANGED <<orders, file, buffered, phase, executed>>
    BY <1>1 DEF Heartbeat, Live, trackerVars, exchangeVars
  <2>2. Logged' = Logged
    BY <2>1 DEF Logged
  <2> QED
    BY <2>1, <2>2, SnapshotAccounts
<1>2. CASE Shutdown
  <2>1. /\ TakeSnapshot /\ Live /\ phase' = "down" /\ executed' = executed
        /\ file' = Logged /\ buffered' = <<>>
    BY <1>2 DEF Shutdown, Down
  <2>2. Logged' = Logged
    BY <2>1, LoggedTyped, EmptyKeeps DEF Logged
  <2> QED
    BY <2>1, <2>2, SnapshotAccounts
<1>3. CASE ~Heartbeat /\ ~Shutdown
  <2>1. ahead' = ahead
    <3>1. CASE \E n \in 0 .. 2 : FeedEvent(n)
      BY <3>1 DEF FeedEvent
    <3>2. CASE \E r : Reported(r)
      BY <3>2, ReportEffect
    <3>3. CASE Crash \/ ReplayDuplicate \/ UNCHANGED vars
      BY <3>3 DEF Crash, ReplayDuplicate, vars
    <3>4. CASE Start \/ ColdStart \/ ReplayEvent \/ Ready
      BY <3>4, StartEffect, ColdStartEffect, ReplayEffect, ReadyEffect
    <3> QED
      BY <1>3, <3>1, <3>2, <3>3, <3>4, Steps
  <2>2. PICK f : Accounted(f, id)
    BY <2>1 DEF FillsInv
  <2>3. CASE \E n \in 0 .. 2 : FeedEvent(n)
    BY <2>2, <2>3, FeedAccounts
  <2>4. CASE \E r : Reported(r)
    BY <2>2, <2>4, ReportAccounts
  <2>5. CASE Crash
    BY <2>2, <2>5, CrashAccounts
  <2>6. CASE Start \/ ColdStart
    BY <2>2, <2>6, StartAccounts
  <2>7. CASE ReplayEvent
    BY <2>2, <2>7, ReplayAccounts
  <2>8. CASE Ready
    BY <2>2, <2>8, ReadyAccounts
  <2>9. CASE ReplayDuplicate \/ UNCHANGED vars
    <3>1. /\ UNCHANGED <<orders, file, buffered, snapshot, executed, phase>> /\ todo' \subseteq todo
      <4>1. CASE ReplayDuplicate
        BY <4>1 DEF ReplayDuplicate, trackerVars, diskVars, exchangeVars
      <4>2. CASE UNCHANGED vars
        BY <4>2 DEF vars, trackerVars, diskVars, exchangeVars, replayVars
      <4> QED
        BY <2>9, <4>1, <4>2
    <3>2. Logged' = Logged /\ Logged \in Seq(LogRecord)
      BY <3>1, LoggedTyped DEF Logged
    <3>3. phase = "live" => FilledIn(orders, id) <= executed[id]
      BY <2>2 DEF Accounted
    <3>4. phase = "replaying" =>
            \E p \in 0 .. Len(Logged) : (\A i \in todo' : p < i) /\ FilledIn(orders, id) <= f[p]
      BY <2>2, <3>1 DEF Accounted
    <3> QED
      BY <2>2, <3>1, <3>2, <3>3, <3>4, AccountsKept
  <2> QED
    BY <1>3, <2>3, <2>4, <2>5, <2>6, <2>7, <2>8, <2>9, Steps
<1> QED
  BY <1>1, <1>2, <1>3

LEMMA FillsStep ==
  ASSUME TypeOK, NumbersInv, DedupInv, FillsInv, [Next]_vars
  PROVE  FillsInv'
<1>1. phase' = "down" => orders' = NoOrders
  <2>1. CASE \E n \in 0 .. 2 : FeedEvent(n)
    BY <2>1 DEF FeedEvent, Live
  <2>2. CASE \E r : Reported(r)
    BY <2>2, ReportEffect DEF Live
  <2>3. CASE Heartbeat
    BY <2>3 DEF Heartbeat, Live
  <2>4. CASE Shutdown \/ Crash
    BY <2>4 DEF Shutdown, Crash, Down
  <2>5. CASE Start \/ ColdStart \/ ReplayEvent \/ Ready
    BY <2>5, StartEffect, ColdStartEffect, ReplayEffect, ReadyEffect
  <2>6. CASE ReplayDuplicate \/ UNCHANGED vars
    <3>1. phase' = phase /\ orders' = orders
      BY <2>6 DEF ReplayDuplicate, vars, trackerVars
    <3> QED
      BY <3>1 DEF FillsInv
  <2> QED
    BY Steps, <2>1, <2>2, <2>3, <2>4, <2>5, <2>6
<1>2. phase' = "replaying" => todo' \subseteq ToReplay'
  <2>1. CASE \E n \in 0 .. 2 : FeedEvent(n)
    BY <2>1 DEF FeedEvent, Live
  <2>2. CASE \E r : Reported(r)
    BY <2>2, ReportEffect DEF Live
  <2>3. CASE Heartbeat
    BY <2>3 DEF Heartbeat, Live
  <2>4. CASE Shutdown \/ Crash \/ Ready
    BY <2>4, ReadyEffect DEF Shutdown, Crash, Down
  <2>5. CASE Start \/ ColdStart
    <3>1. UNCHANGED <<file, snapshot>> /\ todo' \subseteq ToReplay
      BY <2>5, StartEffect, ColdStartEffect
    <3> QED
      BY <3>1 DEF ToReplay
  <2>6. CASE ReplayEvent
    <3>1. UNCHANGED <<file, snapshot, phase>> /\ todo' \subseteq todo
      BY <2>6, ReplayEffect
    <3> QED
      BY <3>1 DEF FillsInv, ToReplay
  <2>7. CASE ReplayDuplicate \/ UNCHANGED vars
    <3>1. UNCHANGED <<file, snapshot, phase>> /\ todo' \subseteq todo
      BY <2>7 DEF ReplayDuplicate, vars, diskVars, replayVars
    <3> QED
      BY <3>1 DEF FillsInv, ToReplay
  <2> QED
    BY Steps, <2>1, <2>2, <2>3, <2>4, <2>5, <2>6, <2>7
<1>3. ~ahead' => \A id \in Ids : \E g : Accounted(g, id)'
  BY AccountsStep
<1>4. FillsInv
  OBVIOUS
<1>5. (~ahead => \A id \in Ids : \E g : Accounted(g, id))'
  <2>1. Ids' = Ids
    BY DEF Ids, Id, Eng!LocalOrderId
  <2> QED
    BY <1>3, <2>1
<1> QED
  BY <1>1, <1>2, <1>5 DEF FillsInv

LEMMA FillsInvariant == Spec => []FillsInv
<1>1. Init => FillsInv
  <2> SUFFICES ASSUME Init PROVE FillsInv
    OBVIOUS
  <2>1. TypeOK
    BY InitTyped
  <2>2. /\ phase = "live" /\ orders = NoOrders /\ executed = [id \in Ids |-> 0]
        /\ file = <<>> /\ buffered = <<>> /\ snapshot.orders = NoOrders
    BY DEF Init, NoSnapshot, Eng!Init, NoOrders
  <2>3. Logged \in Seq(LogRecord) /\ DOMAIN Logged = {}
    <3>1. Logged = <<>>
      BY <2>1, <2>2, LoggedTyped, EmptyKeeps DEF Logged
    <3> QED
      BY <2>1, <3>1, LoggedTyped
  <2>4. ASSUME NEW id \in Ids
        PROVE  \E g : Accounted(g, id)
    <3>1. FilledIn(NoOrders, id) = 0
      BY NoOrdersTyped DEF FilledIn
    <3>2. \A i \in DOMAIN Logged : Counts(Logged[i], id, snapshot.seq) = 0
      BY <2>3
    <3> DEFINE from == FilledIn(snapshot.orders, id)
    <3>3. from = 0 /\ from \in Nat /\ Logged \in Seq(LogRecord)
      BY <2>2, <2>3, <3>1
    <3> HIDE DEF from
    <3>4. PICK g : RunningTotal(g, Logged, id, from, snapshot.seq) /\ g[Len(Logged)] = from
      BY <3>2, <3>3, TotalFlat
    <3>5. executed[id] = 0 /\ FilledIn(orders, id) = 0
      BY <2>2, <3>1
    <3>6. Accounted(g, id)
      BY <2>2, <3>3, <3>4, <3>5 DEF Accounted, from
    <3> QED
      BY <3>6
  <2> QED
    BY <2>2, <2>4 DEF FillsInv
<1>2. TypeOK /\ NumbersInv /\ DedupInv /\ FillsInv /\ [Next]_vars => FillsInv'
  BY FillsStep
<1> QED
  BY <1>1, <1>2, TypeCorrect, NumbersInvariant, DedupInvariant, PTL DEF Spec

(***************************************************************************)
(* save_snapshot, plan_recovery, replay: over any crashes and restarts,    *)
(* with reports of the REST replies and of the stream, no execution is     *)
(* counted twice as long as no snapshot was numbered below a fill in it.   *)
(* It rests on FillsInv: what the snapshot has of an order and what later  *)
(* records say of it was executed, and a replay has no more than that.     *)
(***************************************************************************)
THEOREM NothingCountedTwice == Spec => []FillsCountedOnce
<1>1. TypeOK /\ FillsInv => FillsCountedOnce
  <2> SUFFICES ASSUME TypeOK, FillsInv, ~ahead, NEW id \in DOMAIN orders
               PROVE  orders[id].filled_qty <= executed[id]
    BY DEF FillsCountedOnce
  <2>1. id \in Ids /\ FilledIn(orders, id) = orders[id].filled_qty
    BY DEF TypeOK, OrderMap, FilledIn
  <2>2. PICK f : Accounted(f, id)
    BY <2>1 DEF FillsInv
  <2>3. phase \in {"live", "replaying"}
    BY NoOrdersTyped DEF FillsInv, TypeOK
  <2>4. CASE phase = "live"
    BY <2>1, <2>2, <2>4 DEF Accounted
  <2>5. CASE phase = "replaying"
    BY <2>1, <2>2, <2>5, ReplayingFilled
  <2> QED
    BY <2>3, <2>4, <2>5
<1> QED
  BY <1>1, TypeCorrect, FillsInvariant, PTL
===============================================================================
