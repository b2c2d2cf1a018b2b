------------------------------ MODULE MCLiveNode ------------------------------
(* Two orders of size 2, so that partial fills, fills before their         *)
(* acknowledgement and lost replies all fit.  The limit is two open orders *)
(* where it must not hide another refusal, one where it is the question    *)
(* (MCOpenOrders.cfg).                                                     *)
EXTENDS LiveNode
=============================================================================
