------------------------------- MODULE SpscRing -------------------------------
(***************************************************************************)
(* The two single-producer single-consumer rings, each access to shared    *)
(* memory a step: SpscRing (ring.rs), with indexes modulo the capacity and *)
(* one slot kept free, and hp_ring (ringbuf.cpp), with free-running 32-bit *)
(* indexes.                                                                *)
(*                                                                         *)
(* A thread's load of its own index reads what it stored last; the load of *)
(* the other's index and the test that follows are one step, as the test   *)
(* uses nothing else.  Release and acquire make each slot access visible   *)
(* to whoever has seen the index stored after it: memory is sequentially   *)
(* consistent here.                                                        *)
(***************************************************************************)
EXTENDS Naturals, Sequences

CONSTANTS
  Values, None,
  Impls,           \* subset of {"rust", "cpp"}
  Capacity,        \* number of slots
  CppModulus,      \* 2^32, the width of the C++ indexes
  MaxCppHead       \* bound: no push once the C++ head is here

ASSUME SpscAssumption ==
  /\ {Capacity, CppModulus, MaxCppHead} \subseteq Nat \ {0}
  /\ CppModulus % Capacity = 0 /\ Capacity < CppModulus
  /\ Impls \subseteq {"rust", "cpp"}
  /\ None \notin Values

VARIABLES
  impl,
  head, tail, slots,          \* shared
  producer, value,            \* the producer's next step, its argument
  consumer, taken,            \* the consumer's next step, what it took
  push_answer, pop_answer     \* what the last call returned

producerVars == <<producer, value, push_answer>>
consumerVars == <<consumer, taken, pop_answer>>
vars == <<impl, head, tail, slots, producerVars, consumerVars>>

Modulus == IF impl = "rust" THEN Capacity ELSE CppModulus

NextIndexUnmasked(i) == i + 1                      \* for mutation

NextIndex(i) == (i + 1) % Modulus

Slot(i) == i % Capacity

(* The unsigned difference h - t.                                          *)
Distance(h, t) == (h + Modulus - t) % Modulus

FullOneLate(h, t) ==                               \* for mutation: > for >=
  IF impl = "rust" THEN NextIndex(h) = t ELSE Distance(h, t) > Capacity

Full(h, t) ==
  IF impl = "rust" THEN NextIndex(h) = t ELSE Distance(h, t) >= Capacity

EmptyOneEarly(h, t) ==                             \* for mutation: the last one stays
  IF impl = "rust" THEN t = h \/ NextIndex(t) = h ELSE t + 1 >= h

Empty(h, t) == IF impl = "rust" THEN t = h ELSE t >= h

(* capacity(): the slots that can be in use.                               *)
Usable == IF impl = "rust" THEN Capacity - 1 ELSE Capacity

-----------------------------------------------------------------------------
(* try_push, hp_ring_push.                                                 *)

PushFull ==
  /\ producer = "idle"
  /\ Full(head, tail)
  /\ push_answer' = "full"
  /\ UNCHANGED <<impl, head, tail, slots, producer, value, consumerVars>>

PushRoom(v) ==
  /\ producer = "idle"
  /\ impl = "cpp" => head < MaxCppHead
  /\ ~Full(head, tail)
  /\ producer' = "write" /\ value' = v
  /\ UNCHANGED <<impl, head, tail, slots, push_answer, consumerVars>>

PushWrite ==
  /\ producer = "write"
  /\ slots' = [slots EXCEPT ![Slot(head)] = value]
  /\ producer' = "publish"
  /\ UNCHANGED <<impl, head, tail, value, push_answer, consumerVars>>

PushPublish ==
  /\ producer = "publish"
  /\ head' = NextIndex(head)
  /\ producer' = "idle" /\ value' = None /\ push_answer' = "ok"
  /\ UNCHANGED <<impl, tail, slots, consumerVars>>

-----------------------------------------------------------------------------
(* try_pop, hp_ring_pop.                                                   *)

PopEmpty ==
  /\ consumer = "idle"
  /\ Empty(head, tail)
  /\ pop_answer' = None
  /\ UNCHANGED <<impl, head, tail, slots, producerVars, consumer, taken>>

PopSome ==
  /\ consumer = "idle"
  /\ ~Empty(head, tail)
  /\ consumer' = "take"
  /\ UNCHANGED <<impl, head, tail, slots, producerVars, taken, pop_answer>>

(* Option::take leaves None behind, the C++ copy leaves the slot as it is. *)
PopTake ==
  /\ consumer = "take"
  /\ taken' = slots[Slot(tail)]
  /\ slots' = IF impl = "rust" THEN [slots EXCEPT ![Slot(tail)] = None] ELSE slots
  /\ consumer' = "publish"
  /\ UNCHANGED <<impl, head, tail, producerVars, pop_answer>>

PopPublish ==
  /\ consumer = "publish"
  /\ tail' = NextIndex(tail)
  /\ consumer' = "idle" /\ taken' = None /\ pop_answer' = taken
  /\ UNCHANGED <<impl, head, slots, producerVars>>

-----------------------------------------------------------------------------
Init ==
  /\ impl \in Impls
  /\ head = 0 /\ tail = 0
  /\ slots = [i \in 0 .. Capacity - 1 |-> None]
  /\ producer = "idle" /\ value = None /\ push_answer = None
  /\ consumer = "idle" /\ taken = None /\ pop_answer = None

Producer == PushFull \/ (\E v \in Values : PushRoom(v)) \/ PushWrite \/ PushPublish
Consumer == PopEmpty \/ PopSome \/ PopTake \/ PopPublish
Next == Producer \/ Consumer

Spec == Init /\ [][Next]_vars

-----------------------------------------------------------------------------
(* Properties.                                                             *)

(* Type invariant.                                                         *)
TypeOK ==
  /\ impl \in Impls
  /\ head \in 0 .. Modulus - 1 /\ tail \in 0 .. Modulus - 1
  /\ slots \in [0 .. Capacity - 1 -> Values \cup {None}]
  /\ producer \in {"idle", "write", "publish"} /\ value \in Values \cup {None}
  /\ consumer \in {"idle", "take", "publish"} /\ taken \in Values \cup {None}
  /\ push_answer \in {None, "ok", "full"} /\ pop_answer \in Values \cup {None}

(* unsafe impl Sync for SpscRing: producer and consumer are never about to *)
(* access the same slot.                                                   *)
NoDataRace == ~(producer = "write" /\ consumer = "take" /\ Slot(head) = Slot(tail))

(* The values between tail and head, the one being popped included.        *)
Queue ==
  [i \in 1 .. Distance(head, tail) |->
     IF i = 1 /\ consumer = "publish" THEN taken ELSE slots[Slot(tail + i - 1)]]

(* Either ring is a bounded FIFO under every interleaving of the two       *)
(* threads: nothing lost, repeated or reordered, no refusal without cause. *)
Fifo == INSTANCE BoundedFifo WITH usable <- Usable, queue <- Queue
ImplementsFifo == Fifo!Spec

(* hotpath.h: "Returns true if pop succeeded (not empty)".                 *)
PopRefusesOnlyEmpty == Empty(head, tail) => Queue = <<>>
=============================================================================
