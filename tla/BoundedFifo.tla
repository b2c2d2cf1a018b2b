------------------------------ MODULE BoundedFifo ------------------------------
(***************************************************************************)
(* What a ring buffer promises: a queue of at most usable values.  A push  *)
(* appends or, only when the queue is full, answers "full"; a pop takes    *)
(* the oldest value or, only when the queue is empty, answers None.        *)
(***************************************************************************)
EXTENDS Naturals, Sequences

CONSTANTS Values, None

VARIABLES
  usable,              \* its size, fixed from the start
  queue, push_answer, pop_answer
vars == <<usable, queue, push_answer, pop_answer>>

Init == usable \in Nat /\ queue = <<>> /\ push_answer = None /\ pop_answer = None

Push(v) ==
  /\ Len(queue) < usable
  /\ queue' = Append(queue, v) /\ push_answer' = "ok"
  /\ UNCHANGED <<usable, pop_answer>>

PushRefused ==
  /\ Len(queue) = usable
  /\ push_answer' = "full"
  /\ UNCHANGED <<usable, queue, pop_answer>>

Pop ==
  /\ queue # <<>>
  /\ pop_answer' = Head(queue) /\ queue' = Tail(queue)
  /\ UNCHANGED <<usable, push_answer>>

PopRefused ==
  /\ queue = <<>>
  /\ pop_answer' = None
  /\ UNCHANGED <<usable, queue, push_answer>>

Next == (\E v \in Values : Push(v)) \/ PushRefused \/ Pop \/ PopRefused

Spec == Init /\ [][Next]_vars
=============================================================================
