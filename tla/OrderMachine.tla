---------------------------- MODULE OrderMachine ----------------------------
(***************************************************************************)
(* What the order subsystem promises about one order: the fulfilment,      *)
(* payment and refund machines (orderStateMachine.ts, paymentStateMachine  *)
(* .ts) and how they are coupled.  It has no stock, webhooks, sweeper or   *)
(* interleaving; OrderLifecycle implements it.                             *)
(***************************************************************************)
EXTENDS Naturals

CONSTANT Orders             \* Ids of the orders that may be placed.

VARIABLE order              \* Orders -> [status, paymentStatus, refundStatus]

Statuses == {"pending", "confirmed", "processing", "shipped", "delivered", "cancelled"}
PaymentStatuses == {"unpaid", "authorized", "paid", "failed", "refunded"}
RefundStatuses == {"none", "requested", "approved", "rejected", "processed"}

\* An order document that has not been created is "absent" in every field.
Absent == [status |-> "absent", paymentStatus |-> "absent", refundStatus |-> "absent"]
OrderDocs == [status : Statuses, paymentStatus : PaymentStatuses, refundStatus : RefundStatuses]

fulfilmentTransitions ==
  [s \in Statuses |->
     CASE s = "pending"    -> {"confirmed", "cancelled"}
       [] s = "confirmed"  -> {"processing", "shipped", "delivered", "cancelled"}
       [] s = "processing" -> {"shipped", "delivered"}
       [] s = "shipped"    -> {"delivered"}
       [] OTHER            -> {}]

allowedTransitions ==
  [s \in PaymentStatuses |->
     CASE s = "unpaid"     -> {"authorized", "paid", "failed"}
       [] s = "authorized" -> {"paid", "failed", "refunded"}
       [] s = "paid"       -> {"refunded"}
       [] OTHER            -> {}]

CANCELLABLE_STATUSES == {"pending", "confirmed"}
REFUNDABLE_STATUSES == {"delivered"}

\* What a shipment update may find, and the statuses in the order it moves through them.
SHIPPABLE_STATUSES == {"confirmed", "processing", "shipped"}
STATUS_FOR_RANK == <<"confirmed", "processing", "shipped", "delivered">>

Init == order = [o \in Orders |-> Absent]

\* A step rewrites the fulfilment, payment and refund state of one order.
SetOrder(o, status, paymentStatus, refundStatus) ==
  order' = [order EXCEPT ![o] =
    [status |-> status, paymentStatus |-> paymentStatus, refundStatus |-> refundStatus]]
SetStatus(o, status) == SetOrder(o, status, order[o].paymentStatus, order[o].refundStatus)

Place(o) == order[o] = Absent /\ SetOrder(o, "pending", "unpaid", "none")

\* A payment is only ever captured on an order that is still open.
Capture(o) ==
  /\ "paid" \in allowedTransitions[order[o].paymentStatus]
  /\ order[o].status # "cancelled"
  /\ SetOrder(o, IF order[o].status = "pending" THEN "confirmed" ELSE order[o].status,
              "paid", order[o].refundStatus)

Decline(o) ==
  /\ "failed" \in allowedTransitions[order[o].paymentStatus]
  /\ SetOrder(o, order[o].status, "failed", order[o].refundStatus)

\* A provider refund closes the refund request, or records one that never was requested.
Refund(o) ==
  /\ "refunded" \in allowedTransitions[order[o].paymentStatus]
  /\ SetOrder(o, order[o].status, "refunded", "processed")

\* Cancelling before shipment; captured money opens its refund in the same step.
Cancel(o) ==
  /\ order[o].status \in CANCELLABLE_STATUSES
  /\ \/ /\ order[o].paymentStatus \in {"unpaid", "failed"}
        /\ SetStatus(o, "cancelled")
     \/ /\ order[o].paymentStatus \in {"paid", "authorized"}
        /\ order[o].refundStatus = "none"
        /\ SetOrder(o, "cancelled", order[o].paymentStatus, "requested")

RequestRefund(o) ==
  /\ order[o].status \in REFUNDABLE_STATUSES
  /\ order[o].paymentStatus = "paid"
  /\ order[o].refundStatus = "none"
  /\ SetOrder(o, order[o].status, order[o].paymentStatus, "requested")

\* Fulfilment only moves forward, and never revives a cancelled order.
Fulfil(o) ==
  \E s \in fulfilmentTransitions[order[o].status] \ {"confirmed", "cancelled"} :
    SetStatus(o, s)

Placed(o) == order[o] # Absent

Next ==
  \E o \in Orders :
    \/ Place(o)
    \/ Placed(o) /\ (Capture(o) \/ Decline(o) \/ Refund(o) \/ Cancel(o) \/ RequestRefund(o) \/ Fulfil(o))

Spec == Init /\ [][Next]_order
=============================================================================
