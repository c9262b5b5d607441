------------------------------ MODULE AtomicCart ------------------------------
(***************************************************************************)
(* What the cart promises each request: it takes effect in one step,       *)
(* exactly once and on what the cart holds then, or it is refused and      *)
(* changes nothing.                                                        *)
(***************************************************************************)
EXTENDS Naturals

CONSTANTS Products, Requests, NoOp

Ops == [kind : {"add", "set", "remove", "clear"}, product : Products, n : Nat]

VARIABLES
    quantity,   \* units of each product in the cart
    op,         \* what each request asks for
    state       \* of each request: "none", "pending", "done" or "refused"

avars == <<quantity, op, state>>

AInit ==
    /\ quantity \in [Products -> Nat]
    /\ op = [r \in Requests |-> NoOp]
    /\ state = [r \in Requests |-> "none"]

Ask(r) ==
    /\ state[r] = "none"
    /\ op'[r] \in Ops
    /\ op' = [op EXCEPT ![r] = op'[r]]
    /\ state' = [state EXCEPT ![r] = "pending"]
    /\ UNCHANGED quantity

Refuse(r) ==
    /\ state[r] = "pending"
    /\ state' = [state EXCEPT ![r] = "refused"]
    /\ UNCHANGED <<quantity, op>>

\* A quantity is set only where the cart has the product already.
Effect(o) ==
    CASE o.kind = "add"    -> [quantity EXCEPT ![o.product] = @ + o.n]
      [] o.kind = "set"    -> [quantity EXCEPT ![o.product] = o.n]
      [] o.kind = "remove" -> [quantity EXCEPT ![o.product] = 0]
      [] o.kind = "clear"  -> [p \in Products |-> 0]

Apply(r) ==
    /\ state[r] = "pending"
    /\ op[r].kind = "set" => quantity[op[r].product] > 0
    /\ quantity' = Effect(op[r])
    /\ state' = [state EXCEPT ![r] = "done"]
    /\ UNCHANGED op

ANext == \E r \in Requests : Ask(r) \/ Refuse(r) \/ Apply(r)

ASpec == AInit /\ [][ANext]_avars
=============================================================================
