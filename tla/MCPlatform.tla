----------------------------- MODULE MCPlatform -----------------------------
(* A small instance of Platform for TLC: a behaviour has three audited        *)
(* requests, or one of them and a stream beside a fault of the database, or    *)
(* a change of an order beside one, or two streams.                            *)
EXTENDS Platform

CONSTANTS a, b, alice, bob

SomeBudgets ==
    {[requests |-> 3, changes |-> 0, streams |-> 0, faults |-> 0],
     [requests |-> 1, changes |-> 0, streams |-> 1, faults |-> 1],
     [requests |-> 0, changes |-> 1, streams |-> 0, faults |-> 1],
     [requests |-> 0, changes |-> 0, streams |-> 2, faults |-> 0]}
=============================================================================
