----------------------------- MODULE MCSessions -----------------------------
(* A small instance of Sessions for TLC: two tabs share four request slots.   *)
EXTENDS Sessions

CONSTANTS t1, t2

SomeCalls == 1..4
TwoRows == {1, 2}
Few == [signIn |-> 2, signOut |-> 1, reload |-> 2, expire |-> 1, lose |-> 1, delete |-> 1, any |-> 3]
=============================================================================
