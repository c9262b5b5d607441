-------------------------- MODULE MCOrderLifecycle --------------------------
(* Small instances of OrderLifecycle for TLC. *)
EXTENDS OrderLifecycle, TLC

CONSTANTS o1, o2, p1, p2, h1, h2, s1, s2

\* Two orders compete for the last units of p1.
MCOrders == {o1, o2}
MCProducts == {p1, p2}
MCItems == o1 :> (p1 :> 1 @@ p2 :> 2) @@ o2 :> (p1 :> 1 @@ p2 :> 0)
MCSupply == p1 :> 1 @@ p2 :> 2

\* One order with two products, and two messages of one kind for it.
OneOrder == {o1}
OneItems == o1 :> (p1 :> 1 @@ p2 :> 2)

\* Every outcome reported once per order; in the second set, some twice under two ids.
MCWebhooks == [id : {1}, order : Orders, to : {"paid", "failed", "refunded"}]
RepeatedWebhooks == [id : {1, 2}, order : {o1}, to : {"paid"}] \cup
                    [id : {1}, order : {o1}, to : {"failed", "refunded"}]
=============================================================================
