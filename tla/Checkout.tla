------------------------------ MODULE Checkout ------------------------------
(***************************************************************************)
(* POST /orders/checkout without transactions (standalone MongoDB): every  *)
(* database call of executeCheckout is a step, a step may throw, and the   *)
(* undo actions registered so far then run in reverse.  Around it: the     *)
(* process-local lock of each backend instance, items added to the cart,   *)
(* the customer's cancel, crashes, and the sweeper's treatment of what a   *)
(* crash leaves behind.                                                    *)
(*                                                                         *)
(* The order of request r is also called r, and the reservation it made    *)
(* for product p is (r, p).  A reservation outlives any running checkout:  *)
(* INVENTORY_RESERVATION_MINUTES against the 30 s of the lock.             *)
(***************************************************************************)
EXTENDS Integers, FiniteSets, Sequences

CONSTANTS
  Requests,      \* Checkout requests.
  Users,         \* Customers.
  Instances,     \* Backend processes.
  Products,      \* Products of the catalogue.
  User,          \* User[r]: who sends r.
  Instance,      \* Instance[r]: which process serves r.
  WithCoupon,    \* The requests that name the coupon.
  Quantity,      \* Quantity[p]: quantity of p in a cart that holds it.
  Supply,        \* Supply[p]: initial stock.
  InitialCart,   \* InitialCart[u]: products first in the cart of u.
  UsageLimit,    \* usageLimit of the coupon.
  PerUserLimit,  \* perUserLimit of the coupon.
  Nobody,        \* The holder of a free lock.
  Budget         \* Bounds: how often each event of Events may happen.

\* A step throws; an undo action throws; a process dies; a lock outlives its
\* TTL; a product is put in a cart; an order is cancelled by its customer.
Events == {"throw", "undo", "crash", "ttl", "add", "cancel"}

ASSUME CheckoutAssumption ==
  /\ IsFiniteSet(Requests)
  /\ \A r \in Requests : User[r] \in Users /\ Instance[r] \in Instances
  /\ WithCoupon \subseteq Requests
  /\ \A p \in Products : Quantity[p] \in Nat \ {0} /\ Supply[p] \in Nat
  /\ \A u \in Users : InitialCart[u] \subseteq Products
  /\ UsageLimit \in Nat /\ PerUserLimit \in Nat
  /\ Nobody \notin Requests
  /\ Budget \in [Events -> Nat]

VARIABLES
  stock,        \* Product stock.
  reservation,  \* Status of the reservation (r, p).
  linked,       \* Requests whose reservations carry the order's id.
  order,        \* Status of order r, "none" if there is none.
  usedCount,    \* usedCount of the coupon.
  redemptions,  \* Orders with a CouponRedemption document.
  cart,         \* Cart of each user: products and __v.
  lock,         \* Holder of the checkout lock of a user, in each process.
  req,          \* Progress of each request, with its undo actions.
  closing,      \* Reservations of a cancelled order, as listed for release.
  returning,    \* Reservations taken by releaseReservation, stock not yet returned.
  budget        \* What is left of Budget.

vars == <<stock, reservation, linked, order, usedCount, redemptions, cart, lock,
          req, closing, returning, budget>>

Init ==
  /\ stock = [p \in Products |-> Supply[p]]
  /\ reservation = [r \in Requests |-> [p \in Products |-> "none"]]
  /\ linked = {}
  /\ order = [r \in Requests |-> "none"]
  /\ usedCount = 0
  /\ redemptions = {}
  /\ cart = [u \in Users |-> [items |-> InitialCart[u], v |-> 0]]
  /\ lock = [i \in Instances |-> [u \in Users |-> Nobody]]
  /\ req = [r \in Requests |-> [pc |-> "start", v |-> 0, todo |-> {}, undo |-> <<>>]]
  /\ closing = {}
  /\ returning = {}
  /\ budget = Budget

Spend(event) == budget[event] > 0 /\ budget' = [budget EXCEPT ![event] = @ - 1]

\* What a statement of executeCheckout leaves alone: the rest of the world.
Local == UNCHANGED <<lock, closing, returning, budget>>
Data == <<stock, reservation, linked, order, usedCount, redemptions, cart>>

At(r, pc) == req[r].pc = pc
Goto(r, pc) == req' = [req EXCEPT ![r].pc = pc]
\* The statement is done, and undoStep is pushed for the case a later one fails.
GotoWithUndo(r, pc, undoStep) ==
  req' = [req EXCEPT ![r].pc = pc, ![r].undo = Append(@, undoStep)]
Holder(r) == lock[Instance[r]][User[r]]

-----------------------------------------------------------------------------
(* withDistributedLock *)

\* A request that finds the lock held is answered 423.
AcquireLock(r) ==
  /\ At(r, "start")
  /\ IF Holder(r) = Nobody
     THEN lock' = [lock EXCEPT ![Instance[r]][User[r]] = r] /\ Goto(r, "cart")
     ELSE Goto(r, "refused") /\ UNCHANGED lock
  /\ UNCHANGED Data /\ UNCHANGED <<closing, returning, budget>>

\* Mutant: the token is not compared.
ReleaseLockUnowned(r, pc) ==
  /\ lock' = [lock EXCEPT ![Instance[r]][User[r]] = Nobody]
  /\ req' = [req EXCEPT ![r].pc = pc, ![r].undo = <<>>]

\* Only the owner's token frees the lock.
ReleaseLock(r, pc) ==
  /\ lock' = [lock EXCEPT ![Instance[r]][User[r]] = IF @ = r THEN Nobody ELSE @]
  /\ req' = [req EXCEPT ![r].pc = pc, ![r].undo = <<>>]

LockExpires(i, u) ==
  /\ lock[i][u] # Nobody
  /\ Spend("ttl")
  /\ lock' = [lock EXCEPT ![i][u] = Nobody]
  /\ UNCHANGED Data /\ UNCHANGED <<req, closing, returning>>

-----------------------------------------------------------------------------
(* executeCheckout, one database call per step *)

ReadCart(r) ==
  /\ At(r, "cart")
  /\ LET c == cart[User[r]]
     IN  req' = [req EXCEPT ![r].pc = IF c.items = {} THEN "undo" ELSE "items",
                            ![r].v = c.v, ![r].todo = c.items]
  /\ UNCHANGED Data /\ Local

TakeStock(r, p) ==
  /\ At(r, "items") /\ p \in req[r].todo
  /\ IF stock[p] >= Quantity[p]
     THEN /\ stock' = [stock EXCEPT ![p] = @ - Quantity[p]]
          /\ req' = [req EXCEPT ![r].pc = "reserve", ![r].todo = @ \ {p},
                                ![r].undo = Append(@, [does |-> "stock", of |-> p])]
     ELSE Goto(r, "undo") /\ UNCHANGED stock
  /\ UNCHANGED <<reservation, linked, order, usedCount, redemptions, cart>> /\ Local

\* The reservation of the product whose stock was taken last.
Reserve(r) ==
  /\ At(r, "reserve")
  /\ LET p == req[r].undo[Len(req[r].undo)].of
     IN  /\ reservation' = [reservation EXCEPT ![r][p] = "reserved"]
         /\ GotoWithUndo(r, "items", [does |-> "reservation", of |-> p])
  /\ UNCHANGED <<stock, linked, order, usedCount, redemptions, cart>> /\ Local

Redemptions(u) == Cardinality({q \in redemptions : User[q] = u})

\* validateCouponForUser: the limits as they are now; nothing is claimed yet.
ValidateCoupon(r) ==
  /\ At(r, "items") /\ req[r].todo = {}
  /\ Goto(r, IF r \notin WithCoupon THEN "create"
             ELSE IF usedCount < UsageLimit /\ Redemptions(User[r]) < PerUserLimit
                  THEN "claim" ELSE "undo")
  /\ UNCHANGED Data /\ Local

\* Mutant: the limit found when the coupon was validated is trusted.
ClaimCouponUnguarded(r) ==
  /\ At(r, "claim")
  /\ usedCount' = usedCount + 1
  /\ GotoWithUndo(r, "create", [does |-> "coupon"])
  /\ UNCHANGED <<stock, reservation, linked, order, redemptions, cart>> /\ Local

ClaimCoupon(r) ==
  /\ At(r, "claim")
  /\ IF usedCount < UsageLimit
     THEN usedCount' = usedCount + 1 /\ GotoWithUndo(r, "create", [does |-> "coupon"])
     ELSE Goto(r, "undo") /\ UNCHANGED usedCount
  /\ UNCHANGED <<stock, reservation, linked, order, redemptions, cart>> /\ Local

\* Mutant: no undo action is registered for the order.
CreateOrderForGood(r) ==
  /\ At(r, "create")
  /\ order' = [order EXCEPT ![r] = "pending"]
  /\ Goto(r, "link")
  /\ UNCHANGED <<stock, reservation, linked, usedCount, redemptions, cart>> /\ Local

CreateOrder(r) ==
  /\ At(r, "create")
  /\ order' = [order EXCEPT ![r] = "pending"]
  /\ GotoWithUndo(r, "link", [does |-> "order"])
  /\ UNCHANGED <<stock, reservation, linked, usedCount, redemptions, cart>> /\ Local

LinkReservations(r) ==
  /\ At(r, "link")
  /\ linked' = linked \cup {r}
  /\ Goto(r, IF r \in WithCoupon THEN "redeem" ELSE "save")
  /\ UNCHANGED <<stock, reservation, order, usedCount, redemptions, cart>> /\ Local

\* No undo action is registered for the redemption.
CreateRedemption(r) ==
  /\ At(r, "redeem")
  /\ redemptions' = redemptions \cup {r}
  /\ Goto(r, "save")
  /\ UNCHANGED <<stock, reservation, linked, order, usedCount, cart>> /\ Local

\* Mutant: the cart is emptied whatever its version.
SaveCartUnversioned(r) ==
  /\ At(r, "save")
  /\ cart' = [cart EXCEPT ![User[r]] = [items |-> {}, v |-> @.v + 1]]
  /\ ReleaseLock(r, "ordered")
  /\ UNCHANGED <<stock, reservation, linked, order, usedCount, redemptions, closing, returning, budget>>

\* cart.save() replaces an array, so Mongoose filters on the __v that was read
\* and increments it; a cart saved in between makes it throw a VersionError.
\* The updates of CartRepository leave __v alone.
SaveCart(r) ==
  /\ At(r, "save")
  /\ IF cart[User[r]].v = req[r].v
     THEN /\ cart' = [cart EXCEPT ![User[r]] = [items |-> {}, v |-> @.v + 1]]
          /\ ReleaseLock(r, "ordered")
     ELSE Goto(r, "undo") /\ UNCHANGED <<cart, lock>>
  /\ UNCHANGED <<stock, reservation, linked, order, usedCount, redemptions, closing, returning, budget>>

Throw(r) ==
  /\ req[r].pc \in {"cart", "items", "reserve", "claim", "create", "link", "redeem", "save"}
  /\ Spend("throw")
  /\ Goto(r, "undo")
  /\ UNCHANGED Data /\ UNCHANGED <<lock, closing, returning>>

-----------------------------------------------------------------------------
(* compensate *)

RunUndo(r, step) ==
  /\ IF step.does = "stock" THEN stock' = [stock EXCEPT ![step.of] = @ + Quantity[step.of]]
     ELSE UNCHANGED stock
  /\ IF step.does = "reservation"
     THEN reservation' = [reservation EXCEPT ![r][step.of] = "released"]
     ELSE UNCHANGED reservation
  /\ IF step.does = "coupon" /\ usedCount > 0 THEN usedCount' = usedCount - 1
     ELSE UNCHANGED usedCount
  /\ IF step.does = "order" THEN order' = [order EXCEPT ![r] = "none"]
     ELSE UNCHANGED order

\* Mutant: the undo actions run in the order they were pushed.
CompensateForward(r) ==
  /\ At(r, "undo") /\ req[r].undo # <<>>
  /\ RunUndo(r, Head(req[r].undo))
  /\ req' = [req EXCEPT ![r].undo = Tail(@)]
  /\ UNCHANGED <<linked, redemptions, cart>> /\ Local

\* The undo action pushed last runs first.
Compensate(r) ==
  /\ At(r, "undo") /\ req[r].undo # <<>>
  /\ RunUndo(r, req[r].undo[Len(req[r].undo)])
  /\ req' = [req EXCEPT ![r].undo = SubSeq(@, 1, Len(@) - 1)]
  /\ UNCHANGED <<linked, redemptions, cart>> /\ Local

\* An undo action that throws is reported and skipped.
CompensationFails(r) ==
  /\ At(r, "undo") /\ req[r].undo # <<>>
  /\ Spend("undo")
  /\ req' = [req EXCEPT ![r].undo = SubSeq(@, 1, Len(@) - 1)]
  /\ UNCHANGED Data /\ UNCHANGED <<lock, closing, returning>>

Compensated(r) ==
  /\ At(r, "undo") /\ req[r].undo = <<>>
  /\ ReleaseLock(r, "refused")
  /\ UNCHANGED Data /\ UNCHANGED <<closing, returning, budget>>

Running(r) == req[r].pc \notin {"start", "ordered", "refused", "crashed"}

\* A process dies with its requests, their undo actions and its locks.
Crash(i) ==
  /\ \E r \in Requests : Instance[r] = i /\ Running(r)
  /\ Spend("crash")
  /\ req' = [r \in Requests |-> IF Instance[r] = i /\ Running(r)
                                THEN [req[r] EXCEPT !.pc = "crashed", !.undo = <<>>] ELSE req[r]]
  /\ lock' = [lock EXCEPT ![i] = [u \in Users |-> Nobody]]
  /\ UNCHANGED Data /\ UNCHANGED <<closing, returning>>

-----------------------------------------------------------------------------
(* The customer, and the sweeper after a crash *)

AddToCart(u, p) ==
  /\ p \notin cart[u].items
  /\ Spend("add")
  /\ cart' = [cart EXCEPT ![u].items = @ \cup {p}]
  /\ UNCHANGED <<stock, reservation, linked, order, usedCount, redemptions>>
  /\ UNCHANGED <<lock, req, closing, returning>>

Elsewhere == UNCHANGED <<linked, usedCount, redemptions, cart, lock, req>>

\* OrderService.cancel; order.list shows an order as soon as it is created.
CancelOrder(r) ==
  /\ order[r] = "pending"
  /\ Spend("cancel")
  /\ order' = [order EXCEPT ![r] = "cancelled"]
  /\ closing' = closing \cup {r}
  /\ UNCHANGED <<stock, reservation, returning>> /\ Elsewhere

\* The sweeper cancels an order whose payment window passed. Payments are left out,
\* so this is every order; a running checkout is younger than its reservations' expiry.
ExpireOrder(r) ==
  /\ order[r] = "pending" /\ ~Running(r)
  /\ r \in linked
  /\ \E p \in Products : reservation[r][p] = "reserved"
  /\ order' = [order EXCEPT ![r] = "cancelled"]
  /\ closing' = closing \cup {r}
  /\ UNCHANGED <<stock, reservation, returning, budget>> /\ Elsewhere

\* releaseReservation's first call on one reservation of a cancelled order.
ReleaseReservation(r, p) ==
  /\ r \in closing /\ r \in linked
  /\ reservation[r][p] = "reserved"
  /\ reservation' = [reservation EXCEPT ![r][p] = "released"]
  /\ returning' = returning \cup {<<r, p>>}
  /\ UNCHANGED <<stock, order, closing, budget>> /\ Elsewhere

\* The cancel listed the reservations linked to its order, and has released those.
CloseOrder(r) ==
  /\ r \in closing
  /\ r \in linked => \A p \in Products : reservation[r][p] # "reserved"
  /\ closing' = closing \ {r}
  /\ UNCHANGED <<stock, reservation, order, returning, budget>> /\ Elsewhere

\* Mutant: only the reservations without an order are looked for.
SweepUnlinked(r, p) ==
  /\ reservation[r][p] = "reserved" /\ ~Running(r)
  /\ r \notin linked
  /\ reservation' = [reservation EXCEPT ![r][p] = "expired"]
  /\ returning' = returning \cup {<<r, p>>}
  /\ UNCHANGED <<stock, order, closing, budget>> /\ Elsewhere

\* A reservation no order claims, or whose order is gone, is expired.
SweepOrphan(r, p) ==
  /\ reservation[r][p] = "reserved" /\ ~Running(r)
  /\ r \notin linked \/ order[r] = "none"
  /\ reservation' = [reservation EXCEPT ![r][p] = "expired"]
  /\ returning' = returning \cup {<<r, p>>}
  /\ UNCHANGED <<stock, order, closing, budget>> /\ Elsewhere

ReturnStock(r, p) ==
  /\ <<r, p>> \in returning
  /\ stock' = [stock EXCEPT ![p] = @ + Quantity[p]]
  /\ returning' = returning \ {<<r, p>>}
  /\ UNCHANGED <<reservation, order, closing, budget>> /\ Elsewhere

-----------------------------------------------------------------------------
CheckoutStep(r) ==
  \/ AcquireLock(r) \/ ReadCart(r) \/ (\E p \in Products : TakeStock(r, p)) \/ Reserve(r)
  \/ ValidateCoupon(r) \/ ClaimCoupon(r) \/ CreateOrder(r) \/ LinkReservations(r)
  \/ CreateRedemption(r) \/ SaveCart(r) \/ Compensate(r) \/ Compensated(r)

SweepStep(r) ==
  \/ ExpireOrder(r) \/ CloseOrder(r)
  \/ \E p \in Products : ReleaseReservation(r, p) \/ SweepOrphan(r, p) \/ ReturnStock(r, p)

Next ==
  \/ \E r \in Requests :
       CheckoutStep(r) \/ Throw(r) \/ CompensationFails(r) \/ CancelOrder(r) \/ SweepStep(r)
  \/ \E i \in Instances : Crash(i) \/ \E u \in Users : LockExpires(i, u)
  \/ \E u \in Users, p \in Products : AddToCart(u, p)

Spec == Init /\ [][Next]_vars
FairSpec == Spec /\ \A r \in Requests : WF_vars(CheckoutStep(r)) /\ WF_vars(SweepStep(r))
-----------------------------------------------------------------------------
PCs == {"start", "cart", "items", "reserve", "claim", "create", "link", "redeem", "save",
        "undo", "ordered", "refused", "crashed"}
UndoSteps == [does : {"stock", "reservation"}, of : Products] \cup [does : {"coupon", "order"}]

\* Every document and request is in a state its schema or code admits; in particular
\* concurrent checkouts never take a product's stock below zero.
TypeOK ==
  /\ stock \in [Products -> Nat]
  /\ reservation \in [Requests -> [Products -> {"none", "reserved", "released", "expired"}]]
  /\ linked \subseteq Requests
  /\ order \in [Requests -> {"none", "pending", "cancelled"}]
  /\ usedCount \in Nat
  /\ redemptions \subseteq WithCoupon
  /\ cart \in [Users -> [items : SUBSET Products, v : Nat]]
  /\ lock \in [Instances -> [Users -> Requests \cup {Nobody}]]
  /\ req \in [Requests -> [pc : PCs, v : Nat, todo : SUBSET Products, undo : Seq(UndoSteps)]]
  /\ closing \subseteq Requests
  /\ returning \subseteq Requests \X Products
  /\ budget \in [Events -> Nat]

\* None of these events has happened.
Never(events) == \A e \in events : budget[e] = Budget[e]

WillUndo(r, step) == \E i \in DOMAIN req[r].undo : req[r].undo[i] = step
Held(r, p) ==
  \/ WillUndo(r, [does |-> "stock", of |-> p])
  \/ ~Running(r) /\ reservation[r][p] = "reserved"
  \/ <<r, p>> \in returning
HeldStock(p) == Quantity[p] * Cardinality({r \in Requests : Held(r, p)})

\* "So stock and coupon usage are never leaked" (executeCheckout): whichever step fails, every
\* unit taken is given back once. A crash may lose units, but never sells what is not there.
StockAccounted ==
  \A p \in Products :
    /\ Never({"undo", "cancel"}) => stock[p] + HeldStock(p) <= Supply[p]
    /\ Never({"undo", "cancel", "crash"}) => stock[p] + HeldStock(p) = Supply[p]

\* Orders with the coupon never exceed its usageLimit, however checkouts overlap between the
\* validation and the claim: each is counted at every moment, also while it is created or undone
\* and after a crash.
CouponOrdersCounted ==
  /\ usedCount <= UsageLimit
  /\ Never({"undo"}) => Cardinality({r \in WithCoupon : order[r] # "none"}) <= usedCount

\* A refused checkout left neither an order nor a reservation behind.
RefusedLeavesNothing ==
  Never({"undo"}) =>
    \A r \in Requests : req[r].pc = "refused" =>
      order[r] = "none" /\ \A p \in Products : reservation[r][p] # "reserved"

\* Two checkouts of a customer, on two instances or after the lock expired, never turn the same
\* cart into two orders.
OneOrderPerCart ==
  \A r, q \in Requests :
    (At(r, "ordered") /\ At(q, "ordered") /\ User[r] = User[q] /\ req[r].v = req[q].v) => r = q

\* The coupon's perUserLimit holds although it is only read, never claimed: a checkout that
\* overlaps another of the same customer loses its cart to it.
PerUserLimitHolds ==
  \A u \in Users :
    Cardinality({r \in WithCoupon : User[r] = u /\ At(r, "ordered")}) <= PerUserLimit

\* releaseLock: "a holder that outlived its TTL cannot free the next owner's lock". While a
\* checkout goes on, only the end of its own TTL takes its lock.
LockKeptUntilDone ==
  [][\A r \in Requests :
       (Holder(r) = r /\ Running(r) /\ Running(r)' /\ budget'["ttl"] = budget["ttl"])
         => Holder(r)' = r]_vars

\* What a crashed checkout reserved is found by the sweeper, wherever the crash hit.
CrashedReservationEnds ==
  \A r \in Requests, p \in Products :
    (At(r, "crashed") /\ reservation[r][p] = "reserved") ~> reservation[r][p] # "reserved"

\* OrderService.cancel: "returns its stock exactly once".
StockReturnedOnce == \A p \in Products : stock[p] <= Supply[p]
=============================================================================
