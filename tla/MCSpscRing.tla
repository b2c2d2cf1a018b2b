------------------------------ MODULE MCSpscRing ------------------------------
(* Four slots and two values; C++ indexes of four bits.                    *)
EXTENDS SpscRing
=============================================================================
