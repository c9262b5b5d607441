----------------------------- MODULE MCCheckout -----------------------------
(* Small instances of Checkout for TLC. *)
EXTENDS Checkout, TLC

CONSTANTS r1, r2, r3, u1, u2, i1, i2, p1, p2

\* Two customers with one coupon use between them; once one of them adds
\* the other's product, they also compete for the last unit of p1.
TwoUsers == r1 :> u1 @@ r2 :> u2
\* One customer, on two instances.
SameUser == r1 :> u1 @@ r2 :> u1 @@ r3 :> u1
TwoInstances == r1 :> i1 @@ r2 :> i2 @@ r3 :> i1
OneInstance == r1 :> i1 @@ r2 :> i1 @@ r3 :> i1

MCQuantity == p1 :> 1 @@ p2 :> 2
MCSupply == p1 :> 1 @@ p2 :> 4
RichSupply == p1 :> 2 @@ p2 :> 4
DisjointCarts == u1 :> {p1} @@ u2 :> {p2}
OneItemCart == [u \in Users |-> {p1}]

None == [e \in Events |-> 0]
Faults == [None EXCEPT !["throw"] = 1, !["undo"] = 1, !["crash"] = 2, !["add"] = 1]
Overlap == [None EXCEPT !["cancel"] = 1, !["ttl"] = 1, !["add"] = 1]
CancelAndThrow == [None EXCEPT !["cancel"] = 1, !["throw"] = 1]
=============================================================================
