------------------------------ MODULE MCRecovery ------------------------------
(* Two orders of two units. A paper node, whose histories are few, goes    *)
(* through three lives, one with a gateway through two.                    *)
EXTENDS Recovery

Seqs == [paper |-> 6, rest |-> 4, stream |-> 4]
Starts == [paper |-> 3, rest |-> 2, stream |-> 2]

RestSeqs == [rest |-> 4]
RestStarts == [rest |-> 2]
=============================================================================
