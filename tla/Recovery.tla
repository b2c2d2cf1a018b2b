------------------------------- MODULE Recovery -------------------------------
(***************************************************************************)
(* What survives a stop of the node: the event log (log.rs) with its write *)
(* buffer, the snapshots and the recovery plan (recovery.rs), the replay   *)
(* and its deduplicator (main.rs), and the sequence numbers all of them    *)
(* rely on.                                                                *)
(*                                                                         *)
(* Simplifications.                                                        *)
(*  - A crash is one of the process: what was written to the file stays.   *)
(*  - Each execution is reported once, by the REST reply or by the stream. *)
(*  - The exchange takes an order id once; a second order under the same   *)
(*    id is rejected as a duplicate.                                       *)
(*  - The risk gate may refuse any order: FeedEvent places as it likes.    *)
(*  - Times are left out: a replayed order has other ones.  So are cancels *)
(*    of all orders (they are logged nowhere), what peers replicate, and   *)
(*    the request to peers a gap in the log leads to.                      *)
(***************************************************************************)
EXTENDS Naturals, Sequences, FiniteSetsExt

CONSTANTS
  Venue, OrderQty,
  Gateways,              \* subset of {"paper", "rest", "stream"}
  FlushEvery, FlushLong, \* 100 and 1000 in main.rs
  SnapshotInterval,      \* config.snapshot_interval
  PruneAt, Keep,         \* 100_000 and 50_000 in EventDeduplicator::check
  StreamBase,            \* 900_000_000: sequence numbers of stream reports
  MaxLocalId,            \* bounds: orders, and, by gateway, numbers and starts
  MaxSeq, MaxStarts

ASSUME RecoveryAssumption ==
  /\ {FlushEvery, FlushLong, SnapshotInterval, OrderQty, MaxLocalId} \subseteq Nat \ {0}
  /\ {PruneAt, Keep, StreamBase} \subseteq Nat
  /\ MaxSeq \in [Gateways -> Nat] /\ MaxStarts \in [Gateways -> Nat]
  /\ Gateways \subseteq {"paper", "rest", "stream"}

VARIABLES
  orders, next_local_id,       \* the order tracker
  last_seq,                    \* the loop's sequence number
  stream_seq,                  \* seq_counter of the user data stream task
  file, torn,                  \* records in the log file; does it end inside one?
  buffered,                    \* records still in the BufWriter
  snapshot,                    \* snapshot_latest.bin
  phase,                       \* "down", "replaying" or "live"
  todo,                        \* events_to_replay not yet replayed: places in file
  seen_seqs, max_seen,         \* the replay's EventDeduplicator
  gateway,
  exchange, seq_base,          \* how far the submit of an order is; the lowest number
                               \* its reply can carry
  executed, closed,            \* what the exchange executed; orders it closed
  starts,
  applied,                     \* history: sequence numbers this replay applied
  ahead,                       \* history: a snapshot was older than a fill in it
  before, intact               \* history: orders at the last stop; was all of it logged?

trackerVars == <<orders, next_local_id>>
diskVars == <<file, torn, snapshot>>
replayVars == <<todo, seen_seqs, max_seen, applied>>
exchangeVars == <<exchange, seq_base, executed, closed>>
stopVars == <<before, intact, starts>>
vars == <<trackerVars, last_seq, stream_seq, diskVars, buffered, phase, replayVars, gateway,
          exchangeVars, stopVars, ahead>>

Eng == INSTANCE ExecutionEngine
         WITH Venues <- {Venue}, ForeignIds <- {}, Sides <- {"Any"},
              OrderQtys <- {OrderQty}, FillQtys <- 1 .. OrderQty, Times <- {0}

Id(n) == Eng!LocalOrderId(Venue, n)
Ids == { Id(n) : n \in 1 .. MaxLocalId }

(* A log record: an event with its sequence number.                        *)
Record(seq, kind, id, qty) ==
  [seq |-> seq, kind |-> kind, id |-> id, side |-> "Any", qty |-> qty, ts |-> 0]

Market(seq) == Record(seq, "Other", Id(1), 0)        \* market data: about no order

Logged == file \o buffered
Live == phase = "live"

NoOrders == [id \in {} |-> 0]

NoSnapshotZero ==                                  \* for mutation: ids from 0
  [seq |-> 0, orders |-> NoOrders, next_local_id |-> 0]

(* "No snapshot" is handled as one of an empty tracker at 0.               *)
NoSnapshot == [seq |-> 0, orders |-> NoOrders, next_local_id |-> 1]

-----------------------------------------------------------------------------
(* The live loop.                                                          *)

NewRecordsLateCount(seq, n) ==                     \* for mutation: logged, then counted
  [i \in 1 .. n |-> Record(seq + i - 1, "OrderNew", Id(next_local_id + i - 1), OrderQty)]

(* n orders are placed and logged under the numbers after seq.             *)
NewRecords(seq, n) ==
  [i \in 1 .. n |-> Record(seq + i, "OrderNew", Id(next_local_id + i - 1), OrderQty)]

WithOrders(n) ==
  LET new == { Id(next_local_id + i - 1) : i \in 1 .. n }
  IN  [id \in DOMAIN orders \cup new |->
         IF id \in DOMAIN orders THEN orders[id] ELSE Eng!NewOrder("Any", OrderQty, 0)]

(* EventLog::append and flush, once after the event was appended, once at  *)
(* the end of the branch.                                                  *)
Write(seq, event, news) ==
  LET early == seq % FlushEvery = 0
      late == (seq + Len(news)) % FlushLong = 0
  IN  CASE late -> file' = Logged \o event \o news /\ buffered' = <<>>
        [] early /\ ~late -> file' = Logged \o event /\ buffered' = news
        [] ~early /\ ~late -> UNCHANGED file /\ buffered' = buffered \o event \o news

(* A market event, and the orders the strategy answers it with.            *)
FeedEvent(n) ==
  LET seq == last_seq + 1
      new == { Id(next_local_id + i - 1) : i \in 1 .. n }
  IN  /\ Live
      /\ seq + n <= MaxSeq[gateway] /\ next_local_id + n <= MaxLocalId + 1
      /\ last_seq' = seq + n
      /\ Write(seq, <<Market(seq)>>, NewRecords(seq, n))
      /\ orders' = WithOrders(n)
      /\ next_local_id' = next_local_id + n
      /\ IF gateway = "paper"
         THEN UNCHANGED <<exchange, seq_base>>
         ELSE /\ exchange' = [id \in Ids |-> IF id \notin new THEN exchange[id]
                                             ELSE IF exchange[id] = "none" THEN "sent"
                                             ELSE "duplicate"]
              /\ seq_base' = [id \in Ids |->
                   IF \E i \in 1 .. n : id = Id(next_local_id + i - 1)
                   THEN seq + (CHOOSE i \in 1 .. n : id = Id(next_local_id + i - 1))
                   ELSE seq_base[id]]
      /\ UNCHANGED <<stream_seq, torn, snapshot, phase, replayVars, gateway, executed, closed,
                     stopVars, ahead>>

(* The gateway branch: process_event, append.                              *)
Handle(record) ==
  /\ Live
  /\ orders' = Eng!ProcessEvent(orders, record)
  /\ buffered' = Append(buffered, record)
  /\ UNCHANGED <<next_local_id, last_seq, diskVars, phase, replayVars, gateway, seq_base, stopVars,
                 ahead>>

RestAck(id) ==
  /\ exchange[id] = "sent"
  /\ exchange' = [exchange EXCEPT ![id] = "acked"]
  /\ Handle(Record(seq_base[id], "OrderAck", id, 0))
  /\ UNCHANGED <<stream_seq, executed, closed>>

RestReject(id) ==
  /\ exchange[id] \in {"sent", "duplicate"}
  /\ (executed[id] = 0 /\ id \notin closed) \/ exchange[id] = "duplicate"
  /\ exchange' = [exchange EXCEPT ![id] = "done"]
  /\ closed' = IF exchange[id] = "sent" THEN closed \cup {id} ELSE closed
  /\ Handle(Record(seq_base[id], "OrderReject", id, 0))
  /\ UNCHANGED <<stream_seq, executed>>

Executes(id, k) ==
  /\ id \notin closed /\ executed[id] + k <= OrderQty
  /\ executed' = [executed EXCEPT ![id] = @ + k]

(* The immediate fill of the reply: the number after the acknowledgement's.*)
RestFill(id, k) ==
  /\ exchange[id] = "acked"
  /\ Executes(id, k)
  /\ exchange' = [exchange EXCEPT ![id] = "done"]
  /\ Handle(Record(seq_base[id] + 1, "OrderFill", id, k))
  /\ UNCHANGED <<stream_seq, closed>>

(* A cancel carries last_seq as it was when the sweep asked for it.        *)
RestCancel(id, seq) ==
  /\ exchange[id] \in {"sent", "acked", "done"}
  /\ id \notin closed /\ executed[id] < OrderQty
  /\ seq \in seq_base[id] .. last_seq
  /\ closed' = closed \cup {id}
  /\ Handle(Record(seq, "OrderCancel", id, 0))
  /\ UNCHANGED <<stream_seq, exchange, executed>>

(* The user data stream numbers its reports on its own.                    *)
StreamFill(id, k) ==
  /\ gateway = "stream" /\ exchange[id] # "none"
  /\ Executes(id, k)
  /\ stream_seq' = stream_seq + 1
  /\ Handle(Record(stream_seq', "OrderFill", id, k))
  /\ UNCHANGED <<exchange, closed>>

(* Heartbeat: a snapshot when last_seq meets a multiple of the interval;   *)
(* the log is not flushed.                                                 *)
TakeSnapshot ==
  /\ snapshot' = [seq |-> last_seq, orders |-> orders, next_local_id |-> next_local_id]
  /\ ahead' = (ahead \/ \E i \in DOMAIN Logged :
                          Logged[i].kind = "OrderFill" /\ Logged[i].seq > last_seq)

Heartbeat ==
  /\ Live
  /\ last_seq > 0 /\ last_seq % SnapshotInterval = 0
  /\ TakeSnapshot
  /\ UNCHANGED <<trackerVars, last_seq, stream_seq, file, torn, buffered, phase, replayVars, gateway,
                 exchangeVars, stopVars>>

-----------------------------------------------------------------------------
(* EventDeduplicator::from_seq, and the stream task's counter.             *)
NewDeduplicator(seq) ==
  max_seen' = seq /\ seen_seqs' = {} /\ applied' = <<>> /\ stream_seq' = StreamBase

-----------------------------------------------------------------------------
(* Stops.                                                                  *)

(* The process is gone, its memory and its tasks: no REST reply of theirs  *)
(* is ever handled.                                                        *)
Down ==
  /\ phase' = "down"
  /\ orders' = NoOrders /\ next_local_id' = 1 /\ last_seq' = 0
  /\ todo' = {} /\ NewDeduplicator(0)
  /\ exchange' = [id \in Ids |-> IF exchange[id] = "none" THEN "none" ELSE "done"]
  /\ seq_base' = [id \in Ids |-> 0]
  /\ before' = orders
  /\ UNCHANGED <<gateway, executed, closed, starts>>

(* Ctrl-C, after the drain (LiveNode.tla): flush, final snapshot.          *)
Shutdown ==
  /\ Live /\ starts < MaxStarts[gateway]
  /\ file' = Logged /\ buffered' = <<>>
  /\ TakeSnapshot
  /\ intact' = ~torn
  /\ Down
  /\ UNCHANGED torn

(* The buffer reached the file up to some record, or to the length of the  *)
(* next one: BufWriter spills when it is full.                             *)
Crash ==
  /\ phase # "down" /\ starts < MaxStarts[gateway]
  /\ \E k \in 0 .. Len(buffered) :
       /\ file' = file \o SubSeq(buffered, 1, k)
       /\ torn' \in {torn} \cup (IF k < Len(buffered) THEN {TRUE} ELSE {})
       /\ intact' = (Live /\ k = Len(buffered) /\ ~torn)
  /\ buffered' = <<>>
  /\ Down
  /\ UNCHANGED <<snapshot, ahead>>

-----------------------------------------------------------------------------
(* Starts.                                                                 *)

ToReplayFromSnapshot ==                            \* for mutation: >= for >
  { i \in DOMAIN file : file[i].seq >= snapshot.seq }

(* plan_recovery: the events after the snapshot, in the order of the log.  *)
ToReplay == { i \in DOMAIN file : file[i].seq > snapshot.seq }

ExpectedNextSnapshot == snapshot.seq + 1           \* for mutation: log not looked at

ExpectedNextSeq ==
  IF ToReplay = {} THEN snapshot.seq + 1 ELSE file[Max(ToReplay)].seq + 1

(* A readable log: restore the snapshot, replay what follows.              *)
Start ==
  /\ phase = "down"
  /\ ~torn
  /\ orders' = snapshot.orders /\ next_local_id' = snapshot.next_local_id
  /\ todo' = ToReplay
  /\ NewDeduplicator(snapshot.seq)
  /\ last_seq' = ExpectedNextSeq /\ seq_base' = [id \in Ids |-> last_seq']
  /\ phase' = "replaying" /\ starts' = starts + 1
  /\ UNCHANGED <<diskVars, buffered, gateway, exchange, executed, closed, before, intact, ahead>>

(* read_all fails on the torn record: a cold start, snapshot and all.      *)
ColdStart ==
  /\ phase = "down"
  /\ torn
  /\ orders' = NoOrders /\ next_local_id' = 1
  /\ todo' = {}
  /\ NewDeduplicator(0)
  /\ last_seq' = 1 /\ seq_base' = [id \in Ids |-> 1]
  /\ phase' = "replaying" /\ starts' = starts + 1
  /\ UNCHANGED <<diskVars, buffered, gateway, exchange, executed, closed, before, intact, ahead>>

MaxOf(a, b) == IF a > b THEN a ELSE b

PrunedTooFar(seen, top) ==                         \* for mutation: nothing kept
  IF Cardinality(seen) > PruneAt THEN { s \in seen : s > top } ELSE seen

(* EventDeduplicator::check keeps the numbers within Keep of the highest   *)
(* once it holds more than PruneAt of them.                                *)
Pruned(seen, top) ==
  IF Cardinality(seen) > PruneAt THEN { s \in seen : s + Keep > top } ELSE seen

(* The next event, in the order of the log, and whether it was seen.       *)
Upcoming == file[Min(todo)]
Duplicate == Upcoming.seq <= max_seen /\ Upcoming.seq \in seen_seqs

ReplayDuplicate ==
  /\ phase = "replaying" /\ todo # {} /\ Duplicate
  /\ todo' = todo \ {Min(todo)}
  /\ UNCHANGED <<trackerVars, last_seq, stream_seq, diskVars, buffered, phase, seen_seqs, max_seen,
                 applied, gateway, exchangeVars, stopVars, ahead>>

ReplayEvent ==
  /\ phase = "replaying" /\ todo # {} /\ ~Duplicate
  /\ todo' = todo \ {Min(todo)}
  /\ max_seen' = MaxOf(max_seen, Upcoming.seq)
  /\ seen_seqs' = Pruned(seen_seqs \cup {Upcoming.seq}, max_seen')
  /\ applied' = Append(applied, Upcoming.seq)
  /\ orders' = Eng!ProcessEvent(orders, Upcoming)
  /\ UNCHANGED <<next_local_id, last_seq, stream_seq, diskVars, buffered, phase, gateway,
                 exchangeVars, stopVars, ahead>>

Replayed == phase = "replaying" /\ todo = {}

Ready ==
  /\ Replayed
  /\ phase' = "live"
  /\ NewDeduplicator(0)
  /\ before' = NoOrders /\ intact' = FALSE
  /\ UNCHANGED <<trackerVars, last_seq, diskVars, buffered, todo, gateway, exchangeVars, starts, ahead>>

-----------------------------------------------------------------------------
Init ==
  /\ Eng!Init
  /\ last_seq = 1 /\ stream_seq = StreamBase
  /\ file = <<>> /\ torn = FALSE /\ buffered = <<>> /\ snapshot = NoSnapshot
  /\ phase = "live"
  /\ todo = {} /\ seen_seqs = {} /\ max_seen = 0 /\ applied = <<>>
  /\ gateway \in Gateways
  /\ exchange = [id \in Ids |-> "none"] /\ seq_base = [id \in Ids |-> 0]
  /\ executed = [id \in Ids |-> 0] /\ closed = {}
  /\ starts = 1
  /\ ahead = FALSE /\ before = NoOrders /\ intact = FALSE

Gateway ==
  \/ \E id \in Ids : RestAck(id) \/ RestReject(id)
  \/ \E id \in Ids, k \in 1 .. OrderQty : RestFill(id, k) \/ StreamFill(id, k)
  \/ \E id \in Ids, seq \in 1 .. MaxSeq[gateway] : RestCancel(id, seq)

Next ==
  \/ \E n \in 0 .. 2 : FeedEvent(n)
  \/ Gateway
  \/ Heartbeat \/ Shutdown \/ Crash
  \/ Start \/ ColdStart \/ ReplayDuplicate \/ ReplayEvent \/ Ready

Spec == Init /\ [][Next]_vars

-----------------------------------------------------------------------------
(* Properties.                                                             *)

LogRecord == [seq: Nat, kind: Eng!EventKind \ {"OrderPartialFill"}, id: Ids, side: {"Any"},
              qty: 0 .. OrderQty, ts: {0}]

OrderMap(os) == DOMAIN os \subseteq Ids /\ os \in [DOMAIN os -> Eng!LiveOrder]

(* Type invariant.                                                         *)
TypeOK ==
  /\ OrderMap(orders) /\ next_local_id \in 1 .. MaxLocalId + 1
  /\ {last_seq, stream_seq, max_seen, snapshot.seq} \subseteq Nat
  /\ file \in Seq(LogRecord) /\ buffered \in Seq(LogRecord) /\ todo \subseteq DOMAIN file
  /\ torn \in BOOLEAN
  /\ OrderMap(snapshot.orders) /\ snapshot.next_local_id \in 1 .. MaxLocalId + 1
  /\ phase \in {"down", "replaying", "live"} /\ gateway \in Gateways
  /\ seen_seqs \subseteq Nat /\ applied \in Seq(Nat)
  /\ exchange \in [Ids -> {"none", "sent", "duplicate", "acked", "done"}]
  /\ seq_base \in [Ids -> Nat]
  /\ executed \in [Ids -> 0 .. OrderQty] /\ closed \subseteq Ids

(* EventDeduplicator::check, "prevents processing the same event twice":   *)
(* one replay applies a sequence number twice only if it met, in between,  *)
(* one higher by Keep or more, which is when the first was forgotten.      *)
NoDoubleReplay ==
  \A i, j \in DOMAIN applied :
    i < j /\ applied[i] = applied[j] =>
      \E k \in 1 .. j - 1 : applied[k] >= applied[j] + Keep

(* save_snapshot, plan_recovery, replay: over any crashes and restarts no  *)
(* execution is counted twice, as long as no snapshot was taken under a    *)
(* number below that of a fill it contains.                                *)
FillsCountedOnce ==
  ~ahead => \A id \in DOMAIN orders : orders[id].filled_qty <= executed[id]

(* Without a gateway only the loop numbers events: the log is ordered, and *)
(* the numbers given out after a recovery are new.                         *)
PaperSeqFresh ==
  gateway = "paper" /\ ~torn =>
    /\ \A i, j \in DOMAIN Logged : i < j => Logged[i].seq < Logged[j].seq
    /\ Live => \A i \in DOMAIN Logged : Logged[i].seq <= last_seq

(* Without a gateway a recovery from a complete log, with or without a     *)
(* snapshot, newer or older than the log, brings every order back.         *)
PaperReplayIdentical ==
  gateway = "paper" /\ intact /\ Replayed => orders = before

(* log.rs: "replay(events.log) must produce identical state".              *)
ReplayIdentical == intact /\ Replayed => orders = before
=============================================================================
