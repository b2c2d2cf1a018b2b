--------------------------- MODULE OrderLifecycle ---------------------------
(***************************************************************************)
(* What an order tracker promises, whatever it stores: the life of one     *)
(* order as the header of state_machine.rs draws it, and the rule that     *)
(* fills only accumulate while the order works at the exchange.            *)
(*                                                                         *)
(*   Unknown -> New -> Ack -> PartialFill* -> Filled | Canceled            *)
(*              New -> Rejected                                            *)
(*                                                                         *)
(* ExecutionEngine.tla is shown to implement this specification.           *)
(***************************************************************************)
EXTENDS Naturals

CONSTANT Ids          \* identifiers an order may have

VARIABLES status,     \* status[i]: where order i is in its life
          filled      \* filled[i]: quantity executed so far

lifeVars == <<status, filled>>

Terminal == {"Filled", "Canceled", "Rejected"}
Working == {"Ack", "PartialFill"}
Status == {"Unknown", "New"} \cup Working \cup Terminal

Init == /\ status = [i \in Ids |-> "Unknown"]
        /\ filled = [i \in Ids |-> 0]

Move(i, from, to) == /\ status[i] \in from
                     /\ status' = [status EXCEPT ![i] = to]

(* An order becomes known, with nothing executed.                          *)
Create(i) == Move(i, {"Unknown"}, "New") /\ UNCHANGED filled

Acknowledge(i) == Move(i, {"New"}, "Ack") /\ UNCHANGED filled

Reject(i) == Move(i, {"New"}, "Rejected") /\ UNCHANGED filled

Cancel(i) == Move(i, Working, "Canceled") /\ UNCHANGED filled

(* Executed quantity grows; the order is then partly or completely filled. *)
Fill(i) == /\ \E to \in {"PartialFill", "Filled"} : Move(i, Working, to)
           /\ filled[i]' >= filled[i]
           /\ \A j \in Ids \ {i} : filled[j]' = filled[j]

(* Terminal orders may be dropped, all of them at once.                    *)
Forget ==
  /\ status' = [i \in Ids |-> IF status[i] \in Terminal THEN "Unknown" ELSE status[i]]
  /\ filled' = [i \in Ids |-> IF status[i] \in Terminal THEN 0 ELSE filled[i]]

Step(i) == Create(i) \/ Acknowledge(i) \/ Reject(i) \/ Cancel(i) \/ Fill(i)

Next == (\E i \in Ids : Step(i)) \/ Forget

Spec == Init /\ [][Next]_lifeVars
=============================================================================
