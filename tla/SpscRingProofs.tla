---------------------------- MODULE SpscRingProofs ----------------------------
(***************************************************************************)
(* For any number of slots and any index width, and past their wrap: types *)
(* and the absence of data races in both rings; and, as long as the C++    *)
(* indexes do not wrap, that both implement BoundedFifo.                   *)
(***************************************************************************)
EXTENDS SpscRing, Integers, SequenceTheorems, TLAPS

(* A producer that saw room still has it, a consumer that saw a value      *)
(* still has it, whatever the other thread did in between.                 *)
Room == producer # "idle" => Distance(head, tail) < Usable
Something == consumer # "idle" => Distance(head, tail) > 0

Inv == TypeOK /\ Room /\ Something

-----------------------------------------------------------------------------
(* Arithmetic.                                                             *)

(* A number below the modulus is its own remainder.                        *)
LEMMA ModSmall == ASSUME NEW m \in Nat \ {0}, NEW x \in 0 .. m - 1 PROVE x % m = x
  BY SMT

(* One lap further, the modulus is subtracted once.                        *)
LEMMA ModOnce == ASSUME NEW m \in Nat \ {0}, NEW x \in m .. 2 * m - 1 PROVE x % m = x - m
  BY SMT

(* Quotient and remainder.                                                 *)
LEMMA ModDef ==
  ASSUME NEW m \in Nat \ {0}, NEW x \in Nat
  PROVE  x \div m \in Nat /\ x % m \in 0 .. m - 1 /\ x = (m * (x \div m)) + (x % m)
  BY SMT

(* No multiple of a number lies strictly between 0 and it.                 *)
LEMMA NoMultiple == ASSUME NEW c \in Nat \ {0}, NEW k \in Int, c * k > 0, c * k < c PROVE FALSE
  BY SMT

(* Products distribute over a sum and a difference.                        *)
LEMMA Distribute ==
  ASSUME NEW c \in Int, NEW a \in Int, NEW b \in Int
  PROVE  c * (a - b) = (c * a) - (c * b) /\ c * (a + b) = (c * a) + (c * b)
  BY SMT

(* A remainder is unique.                                                  *)
LEMMA OneRemainder ==
  ASSUME NEW c \in Nat \ {0}, NEW p \in Int, NEW q \in Int,
         NEW r \in 0 .. c - 1, NEW s \in 0 .. c - 1, (c * p) + r = (c * q) + s
  PROVE  r = s
  BY SMT

(* Adding a multiple of the modulus changes no remainder.                  *)
LEMMA ModPlusMultiple ==
  ASSUME NEW c \in Nat \ {0}, NEW k \in Nat, NEW x \in Nat
  PROVE  (x + (c * k)) % c = x % c
<1> DEFINE y == x + (c * k)
           p == x \div c
           q == y \div c
<1>1. c * k \in Nat  BY SMT
<1>2. y \in Nat  BY <1>1
<1>3. p \in Nat /\ x % c \in 0 .. c - 1 /\ x = (c * p) + (x % c)  BY ModDef
<1>4. q \in Nat /\ y % c \in 0 .. c - 1 /\ y = (c * q) + (y % c)  BY <1>2, ModDef
<1> HIDE DEF p, q
<1>5. c * (p + k) = (c * p) + (c * k)  BY <1>3, Distribute
<1>6. p + k \in Int /\ q \in Int /\ (c * (p + k)) + (x % c) = (c * q) + (y % c)
  BY <1>1, <1>3, <1>4, <1>5
<1>7. x % c = y % c  BY <1>3, <1>4, <1>6, OneRemainder
<1> QED  BY <1>7

(* Numbers less than the modulus apart have different remainders.          *)
LEMMA ModDiffers ==
  ASSUME NEW c \in Nat \ {0}, NEW x \in Nat, NEW y \in Nat, x < y, y - x < c
  PROVE  x % c # y % c
<1> DEFINE p == x \div c
           q == y \div c
<1>1. SUFFICES ASSUME x % c = y % c PROVE FALSE  OBVIOUS
<1>2. p \in Nat /\ x % c \in 0 .. c - 1 /\ x = (c * p) + (x % c)  BY ModDef
<1>3. q \in Nat /\ y = (c * q) + (y % c)  BY ModDef
<1> HIDE DEF p, q
<1>4. y - x = (c * q) - (c * p)  BY <1>1, <1>2, <1>3
<1>5. y - x = c * (q - p) /\ q - p \in Int  BY <1>2, <1>3, <1>4, Distribute
<1> QED  BY <1>5, NoMultiple

-----------------------------------------------------------------------------
(* The operators of the rings.                                             *)

(* The sizes, which indexes may have.                                      *)
LEMMA Constants ==
  ASSUME impl \in Impls
  PROVE  /\ impl \in {"rust", "cpp"}
         /\ Modulus \in Nat \ {0} /\ Capacity \in Nat \ {0} /\ Capacity <= Modulus
         /\ Usable \in Nat /\ Usable < Modulus /\ Usable <= Capacity
  BY SpscAssumption, SMT DEF Modulus, Usable

(* NextIndex without a remainder.                                          *)
LEMMA NextIndexIs ==
  ASSUME impl \in Impls, NEW i \in 0 .. Modulus - 1
  PROVE  NextIndex(i) = IF i + 1 = Modulus THEN 0 ELSE i + 1
<1>1. Modulus \in Nat \ {0}  BY Constants
<1>2. CASE i + 1 = Modulus
  <2>1. i + 1 \in Modulus .. 2 * Modulus - 1  BY <1>1, <1>2
  <2>2. (i + 1) % Modulus = i + 1 - Modulus  BY <1>1, <2>1, ModOnce
  <2> QED  BY <1>1, <1>2, <2>2 DEF NextIndex
<1>3. CASE i + 1 # Modulus
  <2>1. i + 1 \in 0 .. Modulus - 1  BY <1>1, <1>3
  <2>2. (i + 1) % Modulus = i + 1  BY <1>1, <2>1, ModSmall
  <2> QED  BY <1>3, <2>2 DEF NextIndex
<1> QED  BY <1>2, <1>3

(* Distance without a remainder.                                           *)
LEMMA DistanceIs ==
  ASSUME impl \in Impls, NEW h \in 0 .. Modulus - 1, NEW t \in 0 .. Modulus - 1
  PROVE  Distance(h, t) = IF h >= t THEN h - t ELSE h + Modulus - t
<1>1. Modulus \in Nat \ {0}  BY Constants
<1>2. CASE h >= t
  <2>1. h + Modulus - t \in Modulus .. 2 * Modulus - 1  BY <1>1, <1>2
  <2>2. (h + Modulus - t) % Modulus = h + Modulus - t - Modulus  BY <1>1, <2>1, ModOnce
  <2> QED  BY <1>1, <1>2, <2>2 DEF Distance
<1>3. CASE ~(h >= t)
  <2>1. h + Modulus - t \in 0 .. Modulus - 1  BY <1>1, <1>3
  <2>2. (h + Modulus - t) % Modulus = h + Modulus - t  BY <1>1, <2>1, ModSmall
  <2> QED  BY <1>3, <2>2 DEF Distance
<1> QED  BY <1>2, <1>3

(* An index and its slot.                                                  *)
LEMMA SlotIs ==
  ASSUME impl \in Impls, NEW i \in 0 .. Modulus - 1
  PROVE  Slot(i) \in 0 .. Capacity - 1
<1>1. i \in Nat /\ Capacity \in Nat \ {0}  BY Constants
<1> QED  BY <1>1, ModDef DEF Slot

(* The index range is a whole number of laps of the slots.                 *)
LEMMA Laps ==
  ASSUME impl \in Impls
  PROVE  \E k \in Nat : Modulus = Capacity * k
<1> DEFINE k == Modulus \div Capacity
<1>1. Capacity \in Nat \ {0} /\ Modulus \in Nat \ {0}  BY Constants
<1>2. Modulus % Capacity = 0
  <2>1. CASE impl = "rust"
    <3>1. Capacity \in Capacity .. 2 * Capacity - 1  BY <1>1
    <3>2. Capacity % Capacity = Capacity - Capacity  BY <1>1, <3>1, ModOnce
    <3> QED  BY <1>1, <2>1, <3>2 DEF Modulus
  <2>2. CASE impl # "rust"  BY <2>2, SpscAssumption DEF Modulus
  <2> QED  BY <2>1, <2>2
<1>3. k \in Nat /\ Modulus = (Capacity * k) + (Modulus % Capacity)  BY <1>1, ModDef
<1> HIDE DEF k
<1>4. Modulus = Capacity * k  BY <1>1, <1>2, <1>3
<1> QED  BY <1>3, <1>4

(* One wrap of the index leads to the same slot.                           *)
LEMMA SlotAfterWrap ==
  ASSUME impl \in Impls, NEW x \in Nat
  PROVE  Slot(x + Modulus) = Slot(x)
<1>1. Capacity \in Nat \ {0}  BY Constants
<1>2. PICK k \in Nat : Modulus = Capacity * k  BY Laps
<1> QED  BY <1>1, <1>2, ModPlusMultiple DEF Slot

(* The slot of the head is the one Distance places after the tail's.       *)
LEMMA SlotOfHead ==
  ASSUME impl \in Impls, NEW h \in 0 .. Modulus - 1, NEW t \in 0 .. Modulus - 1
  PROVE  Slot(t + Distance(h, t)) = Slot(h) /\ Distance(h, t) \in Nat
<1>1. Modulus \in Nat \ {0}  BY Constants
<1>2. Distance(h, t) = IF h >= t THEN h - t ELSE h + Modulus - t  BY DistanceIs
<1>3. t + Distance(h, t) = h \/ t + Distance(h, t) = h + Modulus  BY <1>1, <1>2
<1> QED  BY <1>1, <1>2, <1>3, SlotAfterWrap

(* Two indexes less than a lap apart, and not equal, have different slots. *)
LEMMA SlotsDiffer ==
  ASSUME impl \in Impls, NEW h \in 0 .. Modulus - 1, NEW t \in 0 .. Modulus - 1,
         Distance(h, t) > 0, Distance(h, t) < Capacity
  PROVE  Slot(h) # Slot(t)
<1>1. Modulus \in Nat \ {0} /\ Capacity \in Nat \ {0} /\ t \in Nat  BY Constants
<1>2. Slot(t + Distance(h, t)) = Slot(h) /\ Distance(h, t) \in Nat  BY SlotOfHead
<1>3. t + Distance(h, t) \in Nat /\ t < t + Distance(h, t) /\ (t + Distance(h, t)) - t < Capacity
  BY <1>1, <1>2
<1>4. t % Capacity # (t + Distance(h, t)) % Capacity  BY <1>1, <1>3, ModDiffers
<1> QED  BY <1>2, <1>4 DEF Slot

-----------------------------------------------------------------------------
(* The steps.                                                              *)

(* An empty ring: nobody is under way.                                     *)
LEMMA InitInv == Init => Inv
<1> SUFFICES ASSUME Init PROVE Inv  OBVIOUS
<1>1. impl \in Impls /\ Modulus \in Nat \ {0} /\ Capacity \in Nat \ {0}  BY Constants DEF Init
<1>2. TypeOK  BY <1>1 DEF Init, TypeOK
<1>3. Room /\ Something  BY DEF Init, Room, Something
<1> QED  BY <1>2, <1>3 DEF Inv

(* Each thread moves its own index by one, and only towards less room for  *)
(* itself and more for the other.                                          *)
LEMMA NextInv == Inv /\ [Next]_vars => Inv'
<1> SUFFICES ASSUME Inv, [Next]_vars PROVE Inv'  OBVIOUS
<1> USE DEF Inv
<1>1. /\ impl \in Impls /\ impl \in {"rust", "cpp"} /\ impl' = impl
      /\ Modulus \in Nat \ {0} /\ Capacity \in Nat \ {0}
      /\ Usable \in Nat /\ Usable < Modulus
  BY Constants DEF TypeOK, Next, Producer, Consumer, PushFull, PushRoom, PushWrite, PushPublish,
                   PopEmpty, PopSome, PopTake, PopPublish, vars
<1>2. Modulus' = Modulus /\ Usable' = Usable  BY <1>1 DEF Modulus, Usable
<1>3. /\ head \in 0 .. Modulus - 1 /\ tail \in 0 .. Modulus - 1
      /\ Slot(head) \in 0 .. Capacity - 1 /\ Slot(tail) \in 0 .. Capacity - 1
      /\ NextIndex(head) = IF head + 1 = Modulus THEN 0 ELSE head + 1
      /\ NextIndex(tail) = IF tail + 1 = Modulus THEN 0 ELSE tail + 1
  BY <1>1, SlotIs, NextIndexIs DEF TypeOK
<1>4. ASSUME NEW h \in 0 .. Modulus - 1, NEW t \in 0 .. Modulus - 1
      PROVE  Distance(h, t) = IF h >= t THEN h - t ELSE h + Modulus - t
  BY <1>1, DistanceIs
<1>5. Distance(head, tail)' = Distance(head', tail')  BY <1>2 DEF Distance
<1>6. CASE PushFull
  BY <1>2, <1>5, <1>6 DEF PushFull, TypeOK, Room, Something, consumerVars
<1>7. ASSUME NEW v \in Values, PushRoom(v) PROVE Inv'
  <2>1. TypeOK' /\ Something'
    BY <1>2, <1>5, <1>7 DEF PushRoom, TypeOK, Something, consumerVars
  <2>2. Distance(head, tail) < Usable
    <3>1. CASE impl = "rust"
      BY <1>1, <1>3, <1>4, <1>7, <3>1 DEF PushRoom, Full, Usable, Modulus
    <3>2. CASE impl = "cpp"
      BY <1>1, <1>3, <1>4, <1>7, <3>2 DEF PushRoom, Full, Usable
    <3> QED  BY <1>1, <3>1, <3>2
  <2> QED  BY <1>2, <1>5, <1>7, <2>1, <2>2 DEF PushRoom, Room
<1>8. CASE PushWrite
  <2>1. TypeOK'
    BY <1>1, <1>2, <1>3, <1>8 DEF PushWrite, TypeOK, consumerVars
  <2> QED  BY <1>2, <1>5, <1>8, <2>1 DEF PushWrite, Room, Something, consumerVars
<1>9. CASE PushPublish
  <2>1. head' \in 0 .. Modulus - 1 /\ tail' = tail  BY <1>1, <1>3, <1>9 DEF PushPublish
  <2>2. TypeOK'  BY <1>2, <1>9, <2>1 DEF PushPublish, TypeOK, consumerVars
  <2>3. Distance(head, tail) < Usable  BY <1>9 DEF PushPublish, Room
  <2>4. Distance(head', tail) > 0  BY <1>1, <1>3, <1>4, <1>9, <2>1, <2>3 DEF PushPublish
  <2> QED  BY <1>5, <1>9, <2>1, <2>2, <2>4 DEF PushPublish, Room, Something
<1>10. CASE PopEmpty
  BY <1>2, <1>5, <1>10 DEF PopEmpty, TypeOK, Room, Something, producerVars
<1>11. CASE PopSome
  <2>1. TypeOK' /\ Room'
    BY <1>2, <1>5, <1>11 DEF PopSome, TypeOK, Room, producerVars
  <2>2. Distance(head, tail) > 0
    BY <1>1, <1>3, <1>4, <1>11 DEF PopSome, Empty
  <2> QED  BY <1>2, <1>5, <1>11, <2>1, <2>2 DEF PopSome, Something
<1>12. CASE PopTake
  <2>1. TypeOK'
    BY <1>1, <1>2, <1>3, <1>12 DEF PopTake, TypeOK, producerVars
  <2> QED  BY <1>2, <1>5, <1>12, <2>1 DEF PopTake, Room, Something, producerVars
<1>13. CASE PopPublish
  <2>1. tail' \in 0 .. Modulus - 1 /\ head' = head  BY <1>1, <1>3, <1>13 DEF PopPublish
  <2>2. TypeOK'  BY <1>2, <1>13, <2>1 DEF PopPublish, TypeOK, producerVars
  <2>3. Distance(head, tail) > 0  BY <1>13 DEF PopPublish, Something
  <2>4. Distance(head, tail') < Distance(head, tail)
    BY <1>1, <1>3, <1>4, <1>13, <2>1, <2>3 DEF PopPublish
  <2>5. Distance(head, tail) \in Nat /\ Distance(head, tail') \in Nat  BY <1>1, <1>3, <1>4, <2>1
  <2>6. Room'  BY <1>1, <1>2, <1>5, <1>13, <2>1, <2>4, <2>5 DEF PopPublish, Room, producerVars
  <2>7. Something'  BY <1>13 DEF PopPublish, Something
  <2> QED  BY <2>2, <2>6, <2>7
<1>14. CASE UNCHANGED vars
  BY <1>2, <1>5, <1>14 DEF vars, producerVars, consumerVars, TypeOK, Room, Something
<1> QED
  BY <1>6, <1>7, <1>8, <1>9, <1>10, <1>11, <1>12, <1>13, <1>14 DEF Next, Producer, Consumer

(* The invariant holds in every reachable state.                           *)
LEMMA Invariance == Spec => []Inv
<1> QED  BY InitInv, NextInv, PTL DEF Spec

(* try_push, try_pop, hp_ring_push, hp_ring_pop: indexes stay in their     *)
(* range and slots hold values, whatever the capacity and the width.       *)
THEOREM TypeCorrect == Spec => []TypeOK
<1>1. Inv => TypeOK  BY DEF Inv
<1> QED  BY <1>1, Invariance, PTL

(* Safety of the unsafe slot accesses: producer and consumer are never     *)
(* about to access one slot, in either ring, past any index wrap.          *)
THEOREM RaceFree == Spec => []NoDataRace
<1>1. Inv => NoDataRace
  <2> SUFFICES ASSUME Inv, producer = "write", consumer = "take" PROVE Slot(head) # Slot(tail)
    BY DEF NoDataRace
  <2>1. impl \in Impls /\ head \in 0 .. Modulus - 1 /\ tail \in 0 .. Modulus - 1  BY DEF Inv, TypeOK
  <2>2. Distance(head, tail) > 0 /\ Distance(head, tail) < Usable  BY DEF Inv, Room, Something
  <2>3. Usable \in Nat /\ Capacity \in Nat /\ Usable <= Capacity  BY <2>1, Constants
  <2>4. Distance(head, tail) \in Int
    BY <2>1, DistanceIs, Constants
  <2>5. Distance(head, tail) < Capacity  BY <2>2, <2>3, <2>4
  <2> QED  BY <2>1, <2>2, <2>5, SlotsDiffer
<1> QED  BY <1>1, Invariance, PTL

-----------------------------------------------------------------------------
(* The FIFO: what the rings add to the queue and take from it.             *)

(* Never more values than usable slots.                                    *)
Bounded == Distance(head, tail) <= Usable

(* What the producer is about to publish is in the head's slot.            *)
Written ==
  /\ producer # "idle" => value \in Values
  /\ producer = "publish" => slots[Slot(head)] = value

(* Between tail and head there are only values, none already taken.        *)
Filled == \A i \in 1 .. Distance(head, tail) : Queue[i] \in Values

(* The C++ indexes are in order while pushes stop at MaxCppHead.           *)
NeverWraps ==
  impl = "cpp" =>
    /\ tail <= head /\ head <= MaxCppHead
    /\ producer # "idle" => head < MaxCppHead

FifoInv == Inv /\ Bounded /\ Written /\ Filled /\ NeverWraps

-----------------------------------------------------------------------------
(* An entry of the queue lies at or after the tail.                        *)
LEMMA Entry ==
  \A t, i \in Nat : i >= 1 => t + i - 1 \in Nat /\ t + (i + 1) - 1 \in Nat
  OBVIOUS

(* What every step starts from.                                            *)
LEMMA Facts ==
  ASSUME Inv
  PROVE  /\ impl \in Impls /\ impl \in {"rust", "cpp"}
         /\ Modulus \in Nat \ {0} /\ Capacity \in Nat \ {0}
         /\ Usable \in Nat /\ Usable < Modulus /\ Usable <= Capacity
         /\ head \in 0 .. Modulus - 1 /\ tail \in 0 .. Modulus - 1
         /\ Distance(head, tail) \in Nat
         /\ Distance(head, tail) = IF head >= tail THEN head - tail ELSE head + Modulus - tail
         /\ NextIndex(head) = IF head + 1 = Modulus THEN 0 ELSE head + 1
         /\ NextIndex(tail) = IF tail + 1 = Modulus THEN 0 ELSE tail + 1
         /\ Slot(tail + Distance(head, tail)) = Slot(head)
  BY Constants, DistanceIs, NextIndexIs, SlotOfHead DEF Inv, TypeOK

(* The queue as a sequence.                                                *)
LEMMA QueueIs ==
  ASSUME Inv, Filled
  PROVE  /\ Queue \in Seq(Values) /\ Len(Queue) = Distance(head, tail)
         /\ \A i \in 1 .. Distance(head, tail) :
              Queue[i] = IF i = 1 /\ consumer = "publish" THEN taken ELSE slots[Slot(tail + i - 1)]
<1>1. Distance(head, tail) \in Nat  BY Facts
<1>2. Queue \in [1 .. Distance(head, tail) -> Values]  BY DEF Queue, Filled
<1>3. Queue \in Seq(Values)  BY <1>1, <1>2, SeqDef
<1>4. DOMAIN Queue = 1 .. Len(Queue) /\ Len(Queue) \in Nat  BY <1>3, LenProperties
<1>5. DOMAIN Queue = 1 .. Distance(head, tail)  BY <1>2
<1>6. Len(Queue) = Distance(head, tail)  BY <1>1, <1>4, <1>5
<1> QED  BY <1>3, <1>6 DEF Queue

(* The slots of the queue differ from each other and, while there is room, *)
(* from the head's.                                                        *)
LEMMA SlotsOfQueue ==
  ASSUME Inv, Bounded
  PROVE  /\ \A i \in 2 .. Distance(head, tail) : Slot(tail + i - 1) # Slot(tail)
         /\ Distance(head, tail) < Usable =>
              \A i \in 1 .. Distance(head, tail) : Slot(tail + i - 1) # Slot(head)
<1> DEFINE D == Distance(head, tail)
<1>1. /\ Capacity \in Nat \ {0} /\ Usable \in Nat /\ Usable <= Capacity
      /\ tail \in Nat /\ D \in Nat /\ Slot(tail + D) = Slot(head)
  BY Facts
<1>2. D <= Usable  BY DEF Bounded
<1> HIDE DEF D
<1>3. ASSUME NEW i \in 2 .. D PROVE Slot(tail + i - 1) # Slot(tail)
  <2>1. tail + i - 1 \in Nat /\ tail < tail + i - 1 /\ (tail + i - 1) - tail < Capacity
    BY <1>1, <1>2
  <2> QED  BY <1>1, <2>1, ModDiffers DEF Slot
<1>4. ASSUME D < Usable, NEW i \in 1 .. D PROVE Slot(tail + i - 1) # Slot(head)
  <2>1. /\ tail + i - 1 \in Nat /\ tail + D \in Nat
        /\ tail + i - 1 < tail + D /\ (tail + D) - (tail + i - 1) < Capacity
    BY <1>1, <1>4
  <2> QED  BY <1>1, <2>1, ModDiffers DEF Slot
<1> QED  BY <1>3, <1>4 DEF D

-----------------------------------------------------------------------------
(* The queue after a step that moves neither index and changes none of its *)
(* entries.                                                                *)
LEMMA SameQueue ==
  ASSUME Distance(head, tail)' = Distance(head, tail), Filled, Bounded, Usable' = Usable,
         \A i \in 1 .. Distance(head, tail) :
           (IF i = 1 /\ consumer' = "publish" THEN taken' ELSE slots'[Slot(tail' + i - 1)])
             = IF i = 1 /\ consumer = "publish" THEN taken ELSE slots[Slot(tail + i - 1)]
  PROVE  Queue' = Queue /\ Filled' /\ Bounded'
<1>1. Queue' = Queue  BY DEF Queue, Slot
<1> QED  BY <1>1 DEF Filled, Bounded

(* Every step keeps the invariant and is one of the abstract queue, or a   *)
(* stutter of it.                                                          *)
LEMMA StepFifo ==
  ASSUME "cpp" \in Impls => MaxCppHead < CppModulus
  PROVE  FifoInv /\ [Next]_vars => FifoInv' /\ [Fifo!Next]_(Fifo!vars)
<1> SUFFICES ASSUME FifoInv, [Next]_vars PROVE FifoInv' /\ [Fifo!Next]_(Fifo!vars)  OBVIOUS
<1> DEFINE D == Distance(head, tail)
<1>1. Inv /\ Bounded /\ Written /\ Filled /\ NeverWraps /\ Inv'  BY NextInv DEF FifoInv
<1>2. /\ impl \in Impls /\ impl \in {"rust", "cpp"}
      /\ Modulus \in Nat \ {0} /\ Capacity \in Nat \ {0}
      /\ Usable \in Nat /\ Usable < Modulus /\ Usable <= Capacity
      /\ head \in 0 .. Modulus - 1 /\ tail \in 0 .. Modulus - 1
      /\ D \in Nat
      /\ D = IF head >= tail THEN head - tail ELSE head + Modulus - tail
      /\ NextIndex(head) = IF head + 1 = Modulus THEN 0 ELSE head + 1
      /\ NextIndex(tail) = IF tail + 1 = Modulus THEN 0 ELSE tail + 1
      /\ Slot(tail + D) = Slot(head)
  BY <1>1, Facts
<1>3. /\ Queue \in Seq(Values) /\ Len(Queue) = D
      /\ \A i \in 1 .. D :
           Queue[i] = IF i = 1 /\ consumer = "publish" THEN taken ELSE slots[Slot(tail + i - 1)]
  BY <1>1, QueueIs
<1>4. impl' = impl
  BY DEF Next, Producer, Consumer, PushFull, PushRoom, PushWrite, PushPublish,
         PopEmpty, PopSome, PopTake, PopPublish, vars
<1>5. Modulus' = Modulus /\ Usable' = Usable  BY <1>4 DEF Modulus, Usable
<1>6. Distance(head, tail)' = Distance(head', tail')  BY <1>5 DEF Distance
<1>7. ASSUME NEW h \in 0 .. Modulus - 1, NEW t \in 0 .. Modulus - 1
      PROVE  Distance(h, t) = IF h >= t THEN h - t ELSE h + Modulus - t
  BY <1>2, DistanceIs
<1>8. ASSUME head' = head, tail' = tail PROVE Distance(head, tail)' = D  BY <1>6, <1>8
<1>9. /\ Slot(head) \in 0 .. Capacity - 1 /\ Slot(tail) \in 0 .. Capacity - 1
      /\ slots \in [0 .. Capacity - 1 -> Values \cup {None}]
  BY <1>1, <1>2, SlotIs DEF Inv, TypeOK
<1>10. MaxCppHead \in Nat /\ (impl = "cpp" => MaxCppHead < Modulus)
  BY <1>2, SpscAssumption DEF Modulus
<1>11. /\ \A i \in 2 .. D : Slot(tail + i - 1) # Slot(tail)
       /\ D < Usable => \A i \in 1 .. D : Slot(tail + i - 1) # Slot(head)
  BY <1>1, SlotsOfQueue
<1>12. CASE PushFull
  <2>1. Queue' = Queue /\ Filled' /\ Bounded'
    BY <1>1, <1>5, <1>8, <1>12, SameQueue DEF PushFull, consumerVars
  <2>2. Written' /\ NeverWraps'
    BY <1>1, <1>4, <1>12 DEF PushFull, Written, NeverWraps, consumerVars, Slot
  <2>3. D = Usable
    <3>1. CASE impl = "rust"
      BY <1>1, <1>2, <1>12, <3>1 DEF PushFull, Full, Usable, Modulus, Bounded
    <3>2. CASE impl = "cpp"
      BY <1>1, <1>2, <1>12, <3>2 DEF PushFull, Full, Usable, Bounded
    <3> QED  BY <1>2, <3>1, <3>2
  <2>4. Fifo!PushRefused
    BY <1>3, <1>5, <1>12, <2>1, <2>3 DEF Fifo!PushRefused, PushFull, consumerVars
  <2> QED  BY <1>1, <2>1, <2>2, <2>4 DEF FifoInv, Fifo!Next
<1>13. ASSUME NEW v \in Values, PushRoom(v) PROVE FifoInv' /\ UNCHANGED Fifo!vars
  <2>1. Queue' = Queue /\ Filled' /\ Bounded'
    BY <1>1, <1>5, <1>8, <1>13, SameQueue DEF PushRoom, consumerVars
  <2>2. Written' /\ NeverWraps'
    BY <1>1, <1>4, <1>13 DEF PushRoom, Written, NeverWraps, consumerVars, Slot
  <2> QED  BY <1>1, <1>5, <1>13, <2>1, <2>2 DEF FifoInv, Fifo!vars, PushRoom, consumerVars
<1>14. CASE PushWrite
  <2>1. D < Usable  BY <1>1, <1>14 DEF PushWrite, Inv, Room
  <2>2. \A i \in 1 .. D : slots'[Slot(tail + i - 1)] = slots[Slot(tail + i - 1)]
    BY <1>9, <1>11, <1>14, <2>1 DEF PushWrite
  <2>3. Queue' = Queue /\ Filled' /\ Bounded'
    BY <1>1, <1>5, <1>8, <1>14, <2>2, SameQueue DEF PushWrite, consumerVars
  <2>4. slots'[Slot(head)] = value  BY <1>9, <1>14 DEF PushWrite
  <2>5. Written' /\ NeverWraps'
    BY <1>1, <1>4, <1>14, <2>4 DEF PushWrite, Written, NeverWraps, Slot
  <2> QED  BY <1>1, <1>5, <1>14, <2>3, <2>5 DEF FifoInv, Fifo!vars, PushWrite, consumerVars
<1>15. CASE PushPublish
  <2>1. /\ head' = NextIndex(head) /\ tail' = tail /\ slots' = slots
        /\ consumer' = consumer /\ taken' = taken /\ producer = "publish" /\ producer' = "idle"
    BY <1>15 DEF PushPublish, consumerVars
  <2>2. D < Usable /\ value \in Values /\ slots[Slot(head)] = value
    BY <1>1, <2>1 DEF Inv, Room, Written
  <2>3. head' \in 0 .. Modulus - 1  BY <1>2, <2>1
  <2>4. Distance(head, tail)' = D + 1
    BY <1>2, <1>6, <1>7, <2>1, <2>2, <2>3
  <2>5. D = 0 => consumer # "publish"  BY <1>1 DEF Inv, Something
  <2>6. ASSUME NEW i \in 1 .. D + 1
        PROVE  /\ Queue'[i] = IF i = D + 1 THEN value ELSE Queue[i]
               /\ Queue'[i] \in Values
    <3>1. Queue'[i] = IF i = 1 /\ consumer = "publish" THEN taken ELSE slots[Slot(tail + i - 1)]
      BY <2>1, <2>4 DEF Queue, Slot
    <3>2. CASE i \in 1 .. D  BY <1>1, <1>2, <1>3, <3>1, <3>2 DEF Filled
    <3>3. CASE i = D + 1
      <4>1. tail + i - 1 = tail + D  BY <1>2, <3>3
      <4>2. ~(i = 1 /\ consumer = "publish")  BY <1>2, <2>5, <3>3
      <4> QED  BY <1>2, <2>2, <3>1, <3>3, <4>1, <4>2
    <3> QED  BY <1>2, <3>2, <3>3
  <2>7. Filled' /\ Bounded'
    BY <1>2, <1>5, <2>2, <2>4, <2>6 DEF Filled, Bounded
  <2>8. Queue' \in Seq(Values) /\ Len(Queue') = D + 1
    <3>1. Queue' \in [1 .. D + 1 -> Values]  BY <2>4, <2>6 DEF Queue
    <3>2. D + 1 \in Nat  BY <1>2
    <3>3. Queue' \in Seq(Values)  BY <3>1, <3>2, SeqDef
    <3>4. DOMAIN Queue' = 1 .. Len(Queue') /\ Len(Queue') \in Nat  BY <3>3, LenProperties
    <3>5. DOMAIN Queue' = 1 .. D + 1  BY <3>1
    <3> QED  BY <3>2, <3>3, <3>4, <3>5
  <2>9. Queue' = Append(Queue, value)
    <3>1. /\ Append(Queue, value) \in Seq(Values) /\ Len(Append(Queue, value)) = D + 1
          /\ \A i \in 1 .. D : Append(Queue, value)[i] = Queue[i]
          /\ Append(Queue, value)[D + 1] = value
      BY <1>3, <2>2, AppendProperties
    <3>2. \A i \in 1 .. D + 1 : Queue'[i] = Append(Queue, value)[i]
      BY <1>2, <2>6, <3>1
    <3> QED  BY <2>8, <3>1, <3>2, SeqEqual
  <2>10. Fifo!Push(value)
    BY <1>3, <1>5, <1>15, <2>2, <2>9 DEF Fifo!Push, PushPublish, consumerVars
  <2>11. Written'  BY <2>1 DEF Written
  <2>12. NeverWraps'
    BY <1>1, <1>2, <1>4, <1>10, <2>1 DEF NeverWraps
  <2> QED  BY <1>1, <2>2, <2>7, <2>10, <2>11, <2>12 DEF FifoInv, Fifo!Next
<1>16. CASE PopEmpty
  <2>1. Queue' = Queue /\ Filled' /\ Bounded'
    BY <1>1, <1>5, <1>8, <1>16, SameQueue DEF PopEmpty, producerVars
  <2>2. Written' /\ NeverWraps'
    BY <1>1, <1>4, <1>16 DEF PopEmpty, Written, NeverWraps, producerVars, Slot
  <2>3. D = 0
    <3>1. CASE impl = "rust"  BY <1>2, <1>16, <3>1 DEF PopEmpty, Empty
    <3>2. CASE impl = "cpp"  BY <1>1, <1>2, <1>16, <3>2 DEF PopEmpty, Empty, NeverWraps
    <3> QED  BY <1>2, <3>1, <3>2
  <2>4. Queue = <<>>  BY <1>3, <2>3, EmptySeq
  <2>5. Fifo!PopRefused
    BY <1>5, <1>16, <2>1, <2>4 DEF Fifo!PopRefused, PopEmpty, producerVars
  <2> QED  BY <1>1, <2>1, <2>2, <2>5 DEF FifoInv, Fifo!Next
<1>17. CASE PopSome
  <2>1. Queue' = Queue /\ Filled' /\ Bounded'
    BY <1>1, <1>5, <1>8, <1>17, SameQueue DEF PopSome, producerVars
  <2>2. Written' /\ NeverWraps'
    BY <1>1, <1>4, <1>17 DEF PopSome, Written, NeverWraps, producerVars, Slot
  <2> QED  BY <1>1, <1>5, <1>17, <2>1, <2>2 DEF FifoInv, Fifo!vars, PopSome, producerVars
<1>18. CASE PopTake
  <2>1. /\ head' = head /\ tail' = tail /\ taken' = slots[Slot(tail)]
        /\ consumer = "take" /\ consumer' = "publish"
        /\ producer' = producer /\ value' = value
        /\ \A j \in 0 .. Capacity - 1 : j # Slot(tail) => slots'[j] = slots[j]
    BY <1>9, <1>18 DEF PopTake, producerVars
  <2>2. D > 0  BY <1>1, <2>1 DEF Inv, Something
  <2>3. \A i \in 2 .. D : slots'[Slot(tail + i - 1)] = slots[Slot(tail + i - 1)]
    <3> SUFFICES ASSUME NEW i \in 2 .. D
                 PROVE  slots'[Slot(tail + i - 1)] = slots[Slot(tail + i - 1)]
      OBVIOUS
    <3>1. tail + i - 1 \in Nat  BY <1>2
    <3>2. Slot(tail + i - 1) \in 0 .. Capacity - 1  BY <1>2, <3>1, ModDef DEF Slot
    <3> QED  BY <1>11, <2>1, <3>2
  <2>4. tail + 1 - 1 = tail  BY <1>2
  <2>5. Queue' = Queue /\ Filled' /\ Bounded'
    <3>1. \A i \in 1 .. D :
            (IF i = 1 /\ consumer' = "publish" THEN taken' ELSE slots'[Slot(tail' + i - 1)])
              = IF i = 1 /\ consumer = "publish" THEN taken ELSE slots[Slot(tail + i - 1)]
      BY <1>2, <2>1, <2>3, <2>4
    <3> QED  BY <1>1, <1>5, <1>8, <2>1, <3>1, SameQueue
  <2>6. producer # "idle" => Slot(head) # Slot(tail)
    <3> SUFFICES ASSUME producer # "idle" PROVE Slot(head) # Slot(tail)  OBVIOUS
    <3>1. D < Usable  BY <1>1 DEF Inv, Room
    <3>2. D < Capacity  BY <1>2, <3>1
    <3> QED  BY <1>2, <2>2, <3>2, SlotsDiffer
  <2>7. Written'  BY <1>1, <1>9, <2>1, <2>6 DEF Written, Slot
  <2>8. NeverWraps'  BY <1>1, <1>4, <2>1 DEF NeverWraps
  <2> QED  BY <1>1, <1>5, <1>18, <2>5, <2>7, <2>8 DEF FifoInv, Fifo!vars, PopTake, producerVars
<1>19. CASE PopPublish
  <2>1. /\ tail' = NextIndex(tail) /\ head' = head /\ slots' = slots
        /\ consumer = "publish" /\ consumer' = "idle"
        /\ producer' = producer /\ value' = value /\ push_answer' = push_answer
        /\ pop_answer' = taken
    BY <1>19 DEF PopPublish, producerVars
  <2>2. D > 0  BY <1>1, <2>1 DEF Inv, Something
  <2>3. tail' \in 0 .. Modulus - 1  BY <1>2, <2>1
  <2>4. Distance(head, tail)' = D - 1  BY <1>2, <1>6, <1>7, <2>1, <2>2, <2>3
  <2>5. ASSUME NEW i \in 1 .. D - 1
        PROVE  Queue'[i] = Queue[i + 1] /\ Queue'[i] \in Values
    <3>1. Queue'[i] = slots[Slot(tail' + i - 1)]  BY <2>1, <2>4 DEF Queue, Slot
    <3>2. i + 1 \in 1 .. D /\ i + 1 # 1  BY <1>2
    <3>3. Queue[i + 1] = slots[Slot(tail + (i + 1) - 1)]  BY <1>3, <3>2
    <3>4. tail' + i - 1 \in Nat /\ tail + (i + 1) - 1 \in Nat
      <4>1. i \in Nat /\ i >= 1 /\ tail \in Nat /\ tail' \in Nat  BY <1>2, <2>3
      <4> QED  BY <4>1, Entry
    <3>5. \/ tail + (i + 1) - 1 = tail' + i - 1
          \/ tail + (i + 1) - 1 = (tail' + i - 1) + Modulus
      BY <1>2, <2>1, <2>3
    <3>6. Slot(tail + (i + 1) - 1) = Slot(tail' + i - 1)  BY <1>2, <3>4, <3>5, SlotAfterWrap
    <3> QED  BY <1>1, <3>1, <3>2, <3>3, <3>6 DEF Filled
  <2>6. Filled' /\ Bounded'  BY <1>1, <1>2, <1>5, <2>4, <2>5 DEF Filled, Bounded
  <2>7. Queue' \in Seq(Values) /\ Len(Queue') = D - 1
    <3>1. Queue' \in [1 .. D - 1 -> Values]  BY <2>4, <2>5 DEF Queue
    <3>2. D - 1 \in Nat  BY <1>2, <2>2
    <3>3. Queue' \in Seq(Values)  BY <3>1, <3>2, SeqDef
    <3>4. DOMAIN Queue' = 1 .. Len(Queue') /\ Len(Queue') \in Nat  BY <3>3, LenProperties
    <3>5. DOMAIN Queue' = 1 .. D - 1  BY <3>1
    <3> QED  BY <3>2, <3>3, <3>4, <3>5
  <2>8. Queue # <<>>  BY <1>3, <2>2, EmptySeq
  <2>9. Queue' = Tail(Queue)
    <3>1. /\ Tail(Queue) \in Seq(Values) /\ Len(Tail(Queue)) = D - 1
          /\ \A i \in 1 .. D - 1 : Tail(Queue)[i] = Queue[i + 1]
      BY <1>3, <2>8, HeadTailProperties
    <3> QED  BY <2>5, <2>7, <3>1, SeqEqual
  <2>10. Head(Queue) = taken
    <3>1. Queue[1] = taken  BY <1>2, <1>3, <2>1, <2>2
    <3> QED  BY <1>3, <2>8, <3>1
  <2>11. Fifo!Pop  BY <1>5, <2>1, <2>8, <2>9, <2>10 DEF Fifo!Pop
  <2>12. Written'  BY <1>1, <2>1 DEF Written, Slot
  <2>13. NeverWraps'
    BY <1>1, <1>2, <1>4, <1>10, <2>1, <2>2 DEF NeverWraps
  <2> QED  BY <1>1, <2>6, <2>11, <2>12, <2>13 DEF FifoInv, Fifo!Next
<1>20. CASE UNCHANGED vars
  <2>1. Queue' = Queue /\ Filled' /\ Bounded'
    BY <1>1, <1>5, <1>8, <1>20, SameQueue DEF vars, producerVars, consumerVars
  <2>2. Written' /\ NeverWraps'
    BY <1>1, <1>20 DEF Written, NeverWraps, vars, producerVars, consumerVars, Slot
  <2> QED  BY <1>1, <1>5, <1>20, <2>1, <2>2 DEF FifoInv, Fifo!vars, vars, producerVars, consumerVars
<1> QED
  BY <1>12, <1>13, <1>14, <1>15, <1>16, <1>17, <1>18, <1>19, <1>20 DEF Next, Producer, Consumer

(* The empty ring is the empty queue.                                      *)
LEMMA InitFifo == Init => FifoInv /\ Fifo!Init
<1> SUFFICES ASSUME Init PROVE FifoInv /\ Fifo!Init  OBVIOUS
<1>1. Inv  BY InitInv
<1>2. Usable \in Nat /\ Distance(head, tail) = 0
  BY <1>1, Facts DEF Init
<1>3. Bounded /\ Written /\ Filled  BY <1>2 DEF Init, Bounded, Written, Filled
<1>4. NeverWraps  BY SpscAssumption DEF Init, NeverWraps
<1>5. Queue = <<>>
  <2>1. Queue \in Seq(Values) /\ Len(Queue) = 0  BY <1>1, <1>2, <1>3, QueueIs
  <2> QED  BY <2>1, EmptySeq
<1> QED  BY <1>1, <1>2, <1>3, <1>4, <1>5 DEF FifoInv, Fifo!Init, Init

(* try_push, try_pop, and hp_ring_push, hp_ring_pop until an index wraps:  *)
(* a bounded FIFO, for every capacity and every interleaving.              *)
THEOREM RingsImplementFifo ==
  ASSUME "cpp" \in Impls => MaxCppHead < CppModulus
  PROVE  Spec => ImplementsFifo
<1>1. Init => FifoInv /\ Fifo!Init  BY InitFifo
<1>2. FifoInv /\ [Next]_vars => FifoInv' /\ [Fifo!Next]_(Fifo!vars)  BY StepFifo
<1> QED  BY <1>1, <1>2, PTL DEF Spec, ImplementsFifo, Fifo!Spec
=============================================================================
