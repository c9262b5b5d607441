------------------------------ MODULE MCPages ------------------------------
(* A small instance of Pages for TLC: a behaviour types two texts, navigates  *)
(* twice, or handles one review across a navigation or two reviews on a page. *)
EXTENDS Pages

CONSTANTS p1, p2, me, other

SomeBudgets == {[types |-> 2, moves |-> 1, posts |-> 0], [types |-> 0, moves |-> 2, posts |-> 0],
                [types |-> 0, moves |-> 1, posts |-> 1], [types |-> 0, moves |-> 0, posts |-> 2]}
=============================================================================
