--------------------------- MODULE OrderLifecycle ---------------------------
(***************************************************************************)
(* Orders, their stock reservations and the product stock, under the       *)
(* concurrent operations of the backend on a replica set: checkout,        *)
(* cancel and refund requests (OrderService), provider webhooks            *)
(* (PaymentService), shipment updates (shipmentController) and the         *)
(* reservation sweeper (inventoryService), which never runs in a           *)
(* transaction and may be cut short by a crash or a database error.        *)
(*                                                                         *)
(* A transactional operation is one step: MongoDB aborts and               *)
(* withTransaction re-runs it when it conflicts.  What the code reads      *)
(* before its transaction (a webhook's order, a shipment's order) and      *)
(* every statement of the sweeper is a step of its own.                    *)
(***************************************************************************)
EXTENDS OrderMachine, FiniteSets, Sequences

CONSTANTS
  Products,     \* Products of the catalogue.
  Items,        \* Items[o][p]: quantity of p in the cart that becomes order o.
  Supply,       \* Supply[p]: initial stock.
  Webhooks,     \* Provider messages: records [id, order, to].
  Handlers,     \* Webhook requests being processed at once.
  Sweepers,     \* Backend instances, each with its reservation sweeper.
  MaxFaults     \* Bound on interrupted sweeps.

ASSUME ConstantsAssumption ==
  /\ IsFiniteSet(Orders)
  /\ Items \in [Orders -> [Products -> Nat]]
  /\ Supply \in [Products -> Nat]
  /\ \A m \in Webhooks : m.order \in Orders /\ m.to \in {"paid", "failed", "refunded"}
  /\ MaxFaults \in Nat

VARIABLES
  reservation,  \* Status of the reservation of (order, product), "none" if it has none.
  stock,        \* Product stock.
  expired,      \* Orders whose reservations are past expiresAt.
  history,      \* paymentStateHistory of each order.
  payments,     \* PaymentEvents recorded.
  handler,      \* Webhook requests: the message and the order as read.
  shipping,     \* Orders a shipment update has read as paid and shippable.
  sweeper,      \* Progress of each sweep.
  faults        \* Sweeps interrupted so far.

vars == <<order, reservation, stock, expired, history, payments, handler,
          shipping, sweeper, faults>>

Active == {"reserved", "committed"}
ReservationStatuses == {"none", "reserved", "committed", "released", "expired"}
NoSweep == [pc |-> "idle"]
NoWebhook == [pc |-> "idle"]

LInit ==
  /\ Init
  /\ reservation = [o \in Orders |-> [p \in Products |-> "none"]]
  /\ stock = Supply
  /\ expired = {}
  /\ history = [o \in Orders |-> <<>>]
  /\ payments = {}
  /\ handler = [h \in Handlers |-> NoWebhook]
  /\ shipping = {}
  /\ sweeper = [s \in Sweepers |-> NoSweep]
  /\ faults = 0

ActiveProducts(o) == {p \in Products : reservation[o][p] \in Active}

\* Mutant: the stock of every line is returned, released before or not.
ReleaseWithoutStatusGuard(o, to) ==
  /\ reservation' = [reservation EXCEPT ![o] =
       [p \in Products |-> IF p \in ActiveProducts(o) THEN to ELSE @[p]]]
  /\ stock' = [p \in Products |-> stock[p] + Items[o][p]]

\* releaseOrderReservations inside a transaction: every active reservation of o, with its stock.
ReleaseOrderReservations(o, to) ==
  /\ reservation' = [reservation EXCEPT ![o] =
       [p \in Products |-> IF p \in ActiveProducts(o) THEN to ELSE @[p]]]
  /\ stock' = [p \in Products |-> stock[p] + IF p \in ActiveProducts(o) THEN Items[o][p] ELSE 0]

CommitReservations(o) ==
  /\ reservation' = [reservation EXCEPT ![o] =
       [p \in Products |-> IF @[p] = "reserved" THEN "committed" ELSE @[p]]]
  /\ UNCHANGED stock

-----------------------------------------------------------------------------
(* OrderService *)

\* The cart becomes an order whole or, if any product lacks stock, not at all.
Checkout(o) ==
  /\ ~Placed(o)
  /\ \E p \in Products : Items[o][p] > 0
  /\ \A p \in Products : stock[p] >= Items[o][p]
  /\ stock' = [p \in Products |-> stock[p] - Items[o][p]]
  /\ reservation' = [reservation EXCEPT ![o] =
       [p \in Products |-> IF Items[o][p] > 0 THEN "reserved" ELSE "none"]]
  /\ SetOrder(o, "pending", "unpaid", "none")
  /\ UNCHANGED <<expired, history, payments, handler, shipping, sweeper, faults>>

CancelOrder(o) ==
  /\ Placed(o)
  /\ order[o].status \in CANCELLABLE_STATUSES
  /\ \/ /\ order[o].paymentStatus \in {"unpaid", "failed"}
        /\ SetStatus(o, "cancelled")
     \/ /\ order[o].paymentStatus \in {"paid", "authorized"}
        /\ order[o].refundStatus = "none"
        /\ SetOrder(o, "cancelled", order[o].paymentStatus, "requested")
  /\ ReleaseOrderReservations(o, "released")
  /\ UNCHANGED <<expired, history, payments, handler, shipping, sweeper, faults>>

\* The refund window only ever refuses a request, so it needs no clock here.
RequestRefundOf(o) ==
  /\ Placed(o)
  /\ order[o].paymentStatus = "paid"
  /\ order[o].refundStatus = "none"
  /\ order[o].status \in REFUNDABLE_STATUSES
  /\ SetOrder(o, order[o].status, order[o].paymentStatus, "requested")
  /\ UNCHANGED <<reservation, stock, expired, history, payments, handler, shipping, sweeper, faults>>

-----------------------------------------------------------------------------
(* PaymentService.processWebhook *)

\* A delivery arrives; one whose event is already recorded is answered as a replay.
FindEvent(h, m) ==
  /\ handler[h].pc = "idle"
  /\ Placed(m.order)
  /\ m \notin payments
  /\ handler' = [handler EXCEPT ![h] = [pc |-> "read", msg |-> m]]
  /\ UNCHANGED <<order, reservation, stock, expired, history, payments, shipping, sweeper, faults>>

\* Mutant: H7 reverted, money for a cancelled order is taken.
AcceptableOnCancelled(doc, to) ==
  /\ doc # Absent
  /\ doc.paymentStatus = to \/ to \in allowedTransitions[doc.paymentStatus]

\* An unknown order is refused (404), and so are money for a cancelled order (409)
\* and a transition the machine lacks (400).
Acceptable(doc, to) ==
  /\ doc # Absent
  /\ ~(doc.status = "cancelled" /\ to = "paid")
  /\ doc.paymentStatus = to \/ to \in allowedTransitions[doc.paymentStatus]

FindOrder(h) ==
  /\ handler[h].pc = "read"
  /\ handler' = [handler EXCEPT ![h] =
       LET doc == order[@.msg.order]
       IN  IF Acceptable(doc, @.msg.to)
           THEN [pc |-> "apply", msg |-> @.msg,
                 paymentStatus |-> doc.paymentStatus, status |-> doc.status]
           ELSE NoWebhook]
  /\ UNCHANGED <<order, reservation, stock, expired, history, payments, shipping, sweeper, faults>>

nextOrderStatus(status, to) == IF to = "paid" /\ status = "pending" THEN "confirmed" ELSE status

\* Mutant: the filter forgets the status of the order.
UnchangedPayment(read, doc) == doc.paymentStatus = read.paymentStatus
\* The filter of transitionOrder: the order is still as the handler read it.
Unchanged(read, doc) == doc.paymentStatus = read.paymentStatus /\ doc.status = read.status

\* Mutant: a transition that matched nothing is taken for done.
TransitionMissIgnored(o, read, to) ==
  IF read.paymentStatus = to \/ ~Unchanged(read, order[o])
  THEN UNCHANGED <<order, history>>
  ELSE /\ SetOrder(o, nextOrderStatus(read.status, to), to,
                   IF to = "refunded" THEN "processed" ELSE order[o].refundStatus)
       /\ history' = [history EXCEPT ![o] = @ \o <<[from |-> read.paymentStatus, to |-> to]>>]

\* A webhook that reports the state the order was read in moves nothing.
TransitionOrder(o, read, to) ==
  IF read.paymentStatus = to
  THEN UNCHANGED <<order, history>>
  ELSE /\ Unchanged(read, order[o])
       /\ SetOrder(o, nextOrderStatus(read.status, to), to,
                   IF to = "refunded" THEN "processed" ELSE order[o].refundStatus)
       /\ history' = [history EXCEPT ![o] = @ \o <<[from |-> read.paymentStatus, to |-> to]>>]

\* The transaction: order, reservations and PaymentEvent commit together.
ApplyWebhook(h) ==
  /\ handler[h].pc = "apply"
  /\ LET m == handler[h].msg
     IN  /\ m \notin payments
         /\ TransitionOrder(m.order, handler[h], m.to)
         /\ IF m.to = "paid" THEN CommitReservations(m.order)
                             ELSE ReleaseOrderReservations(m.order, "released")
         /\ payments' = payments \cup {m}
  /\ handler' = [handler EXCEPT ![h] = NoWebhook]
  /\ UNCHANGED <<expired, shipping, sweeper, faults>>

\* The transaction aborts: the order changed since the read (409), or the unique
\* index refuses the event because a duplicate delivery committed first (replay).
RejectWebhook(h) ==
  /\ handler[h].pc = "apply"
  /\ LET m == handler[h].msg
     IN  \/ m \in payments
         \/ handler[h].paymentStatus # m.to /\ ~Unchanged(handler[h], order[m.order])
  /\ handler' = [handler EXCEPT ![h] = NoWebhook]
  /\ UNCHANGED <<order, reservation, stock, expired, history, payments, shipping, sweeper, faults>>

-----------------------------------------------------------------------------
(* shipmentController.upsert: what it does to the order *)

ReadShippable(o) ==
  /\ order[o].paymentStatus = "paid"
  /\ order[o].status \in SHIPPABLE_STATUSES
  /\ o \notin shipping
  /\ shipping' = shipping \cup {o}
  /\ UNCHANGED <<order, reservation, stock, expired, history, payments, handler, sweeper, faults>>

\* Mutant: the status the shipments imply overwrites any other.
AdvanceBlindly(o) ==
  /\ o \in shipping
  /\ \E rank \in 1..4 : SetStatus(o, STATUS_FOR_RANK[rank])
  /\ shipping' = shipping \ {o}
  /\ UNCHANGED <<reservation, stock, expired, history, payments, handler, sweeper, faults>>

\* The status the shipments imply, written only over a lower one.
AdvanceOrder(o) ==
  /\ o \in shipping
  /\ \E rank \in 1..4 :
       IF order[o].status \in {STATUS_FOR_RANK[r] : r \in 1..(rank - 1)}
       THEN SetStatus(o, STATUS_FOR_RANK[rank])
       ELSE UNCHANGED order
  /\ shipping' = shipping \ {o}
  /\ UNCHANGED <<reservation, stock, expired, history, payments, handler, sweeper, faults>>

-----------------------------------------------------------------------------
(* inventoryService.releaseExpiredReservations, one database call per step *)

PaymentWindowPasses(o) ==
  /\ Placed(o)
  /\ o \notin expired
  /\ expired' = expired \cup {o}
  /\ UNCHANGED <<order, reservation, stock, history, payments, handler, shipping, sweeper, faults>>

ChangesOnlySweeper == UNCHANGED <<expired, history, payments, handler, shipping, faults>>

\* Mutant: the comparison with expiresAt is turned around.
FindUnexpired(s) ==
  /\ sweeper[s].pc = "idle"
  /\ sweeper' = [sweeper EXCEPT ![s] =
       [pc |-> "next",
        batch |-> {o \in Orders \ expired : \E p \in Products : reservation[o][p] = "reserved"}]]
  /\ UNCHANGED <<order, reservation, stock>> /\ ChangesOnlySweeper

\* The orders of the expired reservations, each handled once.
FindExpired(s) ==
  /\ sweeper[s].pc = "idle"
  /\ sweeper' = [sweeper EXCEPT ![s] =
       [pc |-> "next",
        batch |-> {o \in expired : \E p \in Products : reservation[o][p] = "reserved"}]]
  /\ UNCHANGED <<order, reservation, stock>> /\ ChangesOnlySweeper

\* Mutant: the order is cancelled and the release of its reservations forgotten.
CancelWithoutRelease(s, o) ==
  /\ sweeper[s].pc = "next"
  /\ o \in sweeper[s].batch
  /\ IF order[o].status = "pending" /\ order[o].paymentStatus = "unpaid"
     THEN SetStatus(o, "cancelled")
     ELSE UNCHANGED order
  /\ sweeper' = [sweeper EXCEPT ![s] = [pc |-> "next", batch |-> @.batch \ {o}]]
  /\ UNCHANGED <<reservation, stock>> /\ ChangesOnlySweeper

\* The cancellation goes first, and only on an order that is still pending and unpaid.
CancelExpired(s, o) ==
  /\ sweeper[s].pc = "next"
  /\ o \in sweeper[s].batch
  /\ LET rest == sweeper[s].batch \ {o}
     IN  IF order[o].status = "pending" /\ order[o].paymentStatus = "unpaid"
         THEN /\ SetStatus(o, "cancelled")
              /\ sweeper' = [sweeper EXCEPT ![s] = [pc |-> "list", batch |-> rest, order |-> o]]
         ELSE /\ UNCHANGED order
              /\ sweeper' = [sweeper EXCEPT ![s] = [pc |-> "look", batch |-> rest, order |-> o]]
  /\ UNCHANGED <<reservation, stock>> /\ ChangesOnlySweeper

\* An order that was paid first keeps its stock; any other state is left alone.
LookAtOrder(s) ==
  /\ sweeper[s].pc = "look"
  /\ sweeper' = [sweeper EXCEPT ![s] =
       IF order[@.order].paymentStatus \in {"paid", "authorized"}
       THEN [pc |-> "commit", batch |-> @.batch, order |-> @.order]
       ELSE [pc |-> "next", batch |-> @.batch]]
  /\ UNCHANGED <<order, reservation, stock>> /\ ChangesOnlySweeper

CommitExpired(s) ==
  /\ sweeper[s].pc = "commit"
  /\ CommitReservations(sweeper[s].order)
  /\ sweeper' = [sweeper EXCEPT ![s] = [pc |-> "next", batch |-> @.batch]]
  /\ UNCHANGED order /\ ChangesOnlySweeper

ListReservations(s) ==
  /\ sweeper[s].pc = "list"
  /\ sweeper' = [sweeper EXCEPT ![s] =
       [pc |-> "release", batch |-> @.batch, order |-> @.order, list |-> ActiveProducts(@.order)]]
  /\ UNCHANGED <<order, reservation, stock>> /\ ChangesOnlySweeper

\* releaseReservation, first call: the status guard decides who returns the stock.
ReleaseReservation(s, p) ==
  /\ sweeper[s].pc = "release"
  /\ p \in sweeper[s].list
  /\ LET o == sweeper[s].order
     IN  IF reservation[o][p] \in Active
         THEN /\ reservation' = [reservation EXCEPT ![o][p] = "expired"]
              /\ sweeper' = [sweeper EXCEPT ![s] =
                   [pc |-> "return", batch |-> @.batch, order |-> o, list |-> @.list \ {p}, item |-> p]]
         ELSE /\ UNCHANGED reservation
              /\ sweeper' = [sweeper EXCEPT ![s] =
                   [pc |-> "release", batch |-> @.batch, order |-> o, list |-> @.list \ {p}]]
  /\ UNCHANGED <<order, stock>> /\ ChangesOnlySweeper

\* releaseReservation, second call: the product gets its stock back.
ReturnStock(s) ==
  /\ sweeper[s].pc = "return"
  /\ stock' = [stock EXCEPT ![sweeper[s].item] = @ + Items[sweeper[s].order][sweeper[s].item]]
  /\ sweeper' = [sweeper EXCEPT ![s] =
       [pc |-> "release", batch |-> @.batch, order |-> @.order, list |-> @.list]]
  /\ UNCHANGED <<order, reservation>> /\ ChangesOnlySweeper

OrderSwept(s) ==
  /\ sweeper[s].pc = "release"
  /\ sweeper[s].list = {}
  /\ sweeper' = [sweeper EXCEPT ![s] = [pc |-> "next", batch |-> @.batch]]
  /\ UNCHANGED <<order, reservation, stock>> /\ ChangesOnlySweeper

SweepDone(s) ==
  /\ sweeper[s].pc = "next"
  /\ sweeper[s].batch = {}
  /\ sweeper' = [sweeper EXCEPT ![s] = NoSweep]
  /\ UNCHANGED <<order, reservation, stock>> /\ ChangesOnlySweeper

\* The process dies, or a call throws and the sweep's catch only logs it; the next tick starts over.
InterruptSweep(s) ==
  /\ sweeper[s].pc # "idle"
  /\ faults < MaxFaults
  /\ faults' = faults + 1
  /\ sweeper' = [sweeper EXCEPT ![s] = NoSweep]
  /\ UNCHANGED <<order, reservation, stock, expired, history, payments, handler, shipping>>

SweepStep(s) ==
  \/ FindExpired(s)
  \/ \E o \in Orders : CancelExpired(s, o)
  \/ LookAtOrder(s)
  \/ CommitExpired(s)
  \/ ListReservations(s)
  \/ \E p \in Products : ReleaseReservation(s, p)
  \/ ReturnStock(s)
  \/ OrderSwept(s)
  \/ SweepDone(s)

-----------------------------------------------------------------------------
OrderRequest(o) ==
  Checkout(o) \/ CancelOrder(o) \/ RequestRefundOf(o) \/ ReadShippable(o) \/ AdvanceOrder(o)

WebhookStep(h) ==
  (\E m \in Webhooks : FindEvent(h, m)) \/ FindOrder(h) \/ ApplyWebhook(h) \/ RejectWebhook(h)

LNext ==
  \/ \E o \in Orders : OrderRequest(o) \/ PaymentWindowPasses(o)
  \/ \E h \in Handlers : WebhookStep(h)
  \/ \E s \in Sweepers : SweepStep(s) \/ InterruptSweep(s)

LSpec == LInit /\ [][LNext]_vars

\* setInterval keeps every instance sweeping; nothing obliges users or providers to act.
FairSpec == LSpec /\ \A s \in Sweepers : WF_vars(SweepStep(s))
-----------------------------------------------------------------------------
\* The states of a sweep and of a webhook request, with what each remembers.
Sweeps ==
  {NoSweep}
  \cup [pc : {"next"}, batch : SUBSET Orders]
  \cup [pc : {"list", "look", "commit"}, batch : SUBSET Orders, order : Orders]
  \cup [pc : {"release"}, batch : SUBSET Orders, order : Orders, list : SUBSET Products]
  \cup [pc : {"return"}, batch : SUBSET Orders, order : Orders, list : SUBSET Products, item : Products]
WebhookRequests ==
  {NoWebhook}
  \cup [pc : {"read"}, msg : Webhooks]
  \cup [pc : {"apply"}, msg : Webhooks, paymentStatus : PaymentStatuses, status : Statuses]

\* Every document, request and sweep is in a state its schema or code admits;
\* in particular $inc never takes a product's stock below zero.
TypeOK ==
  /\ order \in [Orders -> OrderDocs \cup {Absent}]
  /\ reservation \in [Orders -> [Products -> ReservationStatuses]]
  /\ stock \in [Products -> Nat]
  /\ expired \subseteq Orders
  /\ shipping \subseteq Orders
  /\ payments \subseteq Webhooks
  /\ handler \in [Handlers -> WebhookRequests]
  /\ sweeper \in [Sweepers -> Sweeps]
  /\ faults \in 0..MaxFaults

\* Somebody owes the stock of (o, p): it is set aside for the order, or a sweep
\* has taken the reservation and not yet returned its stock.
BeingReturned(o, p) ==
  \E s \in Sweepers : sweeper[s].pc = "return" /\ sweeper[s].order = o /\ sweeper[s].item = p
Held(o, p) == reservation[o][p] \in Active \/ BeingReturned(o, p)


\* The units of p in the orders S, one element per unit.
Units(S, p) == UNION {{o} \X (1..Items[o][p]) : o \in S}
HeldUnits(p) == Units({o \in Orders : Held(o, p)}, p)

\* No interleaving of checkouts, cancels, webhooks and sweeps returns stock twice (which would
\* sell what is not there), and none loses stock unless a sweep is interrupted.
StockAccounted ==
  \A p \in Products :
    /\ stock[p] + Cardinality(HeldUnits(p)) <= Supply[p]
    /\ faults = 0 => stock[p] + Cardinality(HeldUnits(p)) = Supply[p]

\* Until it is cancelled, fails or is refunded, an order keeps every unit it
\* bought set aside: expiry and payment failure never take the stock of an order that goes on.
LiveOrderHoldsStock ==
  \A o \in Orders :
    (Placed(o) /\ order[o].status # "cancelled" /\ order[o].paymentStatus \in {"unpaid", "authorized", "paid"})
      => \A p \in Products : Items[o][p] > 0 => reservation[o][p] \in Active

\* SEC-05: captured money is never kept silently. However a payment and a cancellation (by the
\* customer or by the sweeper) interleave, a cancelled order that is paid has a refund open.
CancelledPaymentIsRefunded ==
  \A o \in Orders :
    order[o].status = "cancelled" /\ order[o].paymentStatus \in {"paid", "authorized"}
      => order[o].refundStatus \in {"requested", "processed"}

\* However often a provider message is delivered, a recorded one has taken effect: its order has
\* gone through the payment state it reports.
RecordedPaymentTookEffect ==
  \A m \in payments : \E i \in DOMAIN history[m.order] : history[m.order][i].to = m.to

\* The lifecycle implements the order machine.
ImplementsOrderMachine == Spec

\* An unpaid order does not outlive its payment window: it is cancelled, or its payment is settled.
ExpiredOrderIsSettled ==
  \A o \in Orders :
    (o \in expired /\ Placed(o)) ~> ~(order[o].status = "pending" /\ order[o].paymentStatus = "unpaid")

\* Everything a cancelled order held comes back to stock.
CancelledStockReturns ==
  \A o \in Orders, p \in Products : order[o].status = "cancelled" ~> ~Held(o, p)
=============================================================================
