------------------------------ MODULE MCCarts ------------------------------
(* A small instance of Carts for TLC: three requests of one tab in flight.    *)
EXTENDS Carts

CONSTANTS t1, t2, p1, p2

Three == 1..3
Plenty == (p1 :> 2) @@ (p2 :> 2)
Twins == Permutations({p1, p2})
=============================================================================
