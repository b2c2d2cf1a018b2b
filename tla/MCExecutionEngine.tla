-------------------------- MODULE MCExecutionEngine --------------------------
(* Two local orders and one the tracker never minted, sizes 1 and 2, fills *)
(* of 0 to 2: partial, complete, excessive and empty fills all happen.     *)
EXTENDS ExecutionEngine, TLC
=============================================================================
