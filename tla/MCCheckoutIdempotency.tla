------------------------ MODULE MCCheckoutIdempotency ------------------------
(* Small instances of CheckoutIdempotency for TLC. *)
EXTENDS CheckoutIdempotency, TLC

CONSTANTS t1, t2

\* Each event once; no handler outlives the stale limit, which no property here covers.
Retries == [[e \in Events |-> 1] EXCEPT !["slow"] = 0]
=============================================================================
