----------------------------- MODULE OrderProofs -----------------------------
(***************************************************************************)
(* Proofs about the two modules that refine OrderMachine, for any values   *)
(* of their constants.                                                     *)
(*                                                                         *)
(* First OrderLifecycle, for any orders, products, webhooks and backend    *)
(* instances.  Its inductive invariant is IInv below.                      *)
(*                                                                         *)
(* Then Shipments, for any sellers, requests and first shipments.          *)
(* STypeOK is inductive: the ranks a request may carry bound every write.  *)
(* Of the shipments, CheckedWrites says what a write was checked against,  *)
(* and AllDelivered what a request that carries the last rank has seen.    *)
(* Of the order, KeepsUp says who still has to bring it up to date.        *)
(***************************************************************************)
EXTENDS OrderLifecycle, Shipments, FiniteSetTheorems, TLAPS

-----------------------------------------------------------------------------
(* OrderLifecycle *)

OrderType == order \in [Orders -> OrderDocs \cup {Absent}]
ReservationType == reservation \in [Orders -> [Products -> ReservationStatuses]]
StockType == stock \in [Products -> Nat]

(* What the operators shared by the actions do to the documents. *)

\* A placed order's fields are the ones its schema lists; the others are absent.
LEMMA OrderFields ==
  ASSUME OrderType, NEW o \in Orders
  PROVE  /\ Placed(o) => /\ order[o].status \in Statuses
                         /\ order[o].paymentStatus \in PaymentStatuses
                         /\ order[o].refundStatus \in RefundStatuses
                         /\ order[o] = [status |-> order[o].status,
                                        paymentStatus |-> order[o].paymentStatus,
                                        refundStatus |-> order[o].refundStatus]
         /\ ~Placed(o) => order[o] = Absent
         /\ Placed(o) <=> order[o].status # "absent"
  BY DEF OrderType, OrderDocs, Absent, Placed, Statuses

\* SetOrder rewrites one order and keeps the documents well typed.
LEMMA SetOrderEffect ==
  ASSUME OrderType, NEW o \in Orders, NEW st \in Statuses, NEW pay \in PaymentStatuses,
         NEW ref \in RefundStatuses, SetOrder(o, st, pay, ref)
  PROVE  /\ OrderType'
         /\ order'[o] = [status |-> st, paymentStatus |-> pay, refundStatus |-> ref]
         /\ order'[o].status = st /\ order'[o].paymentStatus = pay /\ order'[o].refundStatus = ref
         /\ \A q \in Orders \ {o} : order'[q] = order[q]
  BY DEF OrderType, OrderDocs, SetOrder

\* A release empties the active reservations of one order and returns exactly their stock.
LEMMA ReleaseEffect ==
  ASSUME ConstantsAssumption, ReservationType, StockType, NEW o \in Orders,
         NEW to \in {"released", "expired"}, ReleaseOrderReservations(o, to)
  PROVE  /\ ReservationType' /\ StockType'
         /\ \A p \in Products : reservation'[o][p] = IF reservation[o][p] \in Active THEN to ELSE reservation[o][p]
         /\ \A q \in Orders \ {o} : reservation'[q] = reservation[q]
         /\ \A p \in Products : stock'[p] = stock[p] + IF reservation[o][p] \in Active THEN Items[o][p] ELSE 0
<1>1. \A p \in Products : p \in ActiveProducts(o) <=> reservation[o][p] \in Active
  BY DEF ActiveProducts
<1>2. reservation[o] \in [Products -> ReservationStatuses] /\ to \in ReservationStatuses
  BY DEF ReservationType, ReservationStatuses
<1>3. reservation' = [reservation EXCEPT ![o] =
         [p \in Products |-> IF p \in ActiveProducts(o) THEN to ELSE reservation[o][p]]]
  BY DEF ReleaseOrderReservations
<1>4. [p \in Products |-> IF p \in ActiveProducts(o) THEN to ELSE reservation[o][p]] \in [Products -> ReservationStatuses]
  BY <1>2
<1>5. ReservationType'
  BY <1>3, <1>4 DEF ReservationType
<1>6. reservation'[o] = [p \in Products |-> IF p \in ActiveProducts(o) THEN to ELSE reservation[o][p]]
  BY <1>3 DEF ReservationType
<1>7. \A q \in Orders \ {o} : reservation'[q] = reservation[q]
  BY <1>3 DEF ReservationType
<1>8. \A p \in Products : stock'[p] = stock[p] + IF reservation[o][p] \in Active THEN Items[o][p] ELSE 0
  BY <1>1 DEF ReleaseOrderReservations
<1>9. StockType'
  BY DEF StockType, ReleaseOrderReservations, ConstantsAssumption
<1> QED
  BY <1>1, <1>5, <1>6, <1>7, <1>8, <1>9

\* A commit renames reserved to committed and moves no stock.
LEMMA CommitEffect ==
  ASSUME ReservationType, NEW o \in Orders, CommitReservations(o)
  PROVE  /\ ReservationType' /\ stock' = stock
         /\ \A q \in Orders, p \in Products : reservation'[q][p] \in Active <=> reservation[q][p] \in Active
         /\ \A q \in Orders, p \in Products : reservation'[q][p] = "none" <=> reservation[q][p] = "none"
<1> DEFINE new == [p \in Products |-> IF reservation[o][p] = "reserved" THEN "committed" ELSE reservation[o][p]]
<1>1. reservation' = [reservation EXCEPT ![o] = new] /\ stock' = stock
  BY DEF CommitReservations
<1>2. new \in [Products -> ReservationStatuses]
  BY DEF ReservationType, ReservationStatuses
<1>3. ReservationType' /\ reservation'[o] = new /\ \A q \in Orders \ {o} : reservation'[q] = reservation[q]
  BY <1>1, <1>2 DEF ReservationType
<1>4. \A p \in Products : (new[p] \in Active <=> reservation[o][p] \in Active) /\ (new[p] = "none" <=> reservation[o][p] = "none")
  BY DEF Active
<1> QED
  BY <1>1, <1>3, <1>4
-----------------------------------------------------------------------------
(* Type correctness. *)

LEMMA InitType == LInit => TypeOK
  BY ConstantsAssumption DEF LInit, Init, TypeOK, ReservationStatuses, WebhookRequests, Sweeps, NoSweep, NoWebhook

LEMMA SweepsOfList ==
  ASSUME NEW b \in SUBSET Orders, NEW o \in Orders, NEW l \in SUBSET Products, NEW p \in Products
  PROVE  /\ [pc |-> "release", batch |-> b, order |-> o, list |-> l] \in Sweeps
         /\ [pc |-> "return", batch |-> b, order |-> o, list |-> l, item |-> p] \in Sweeps
  BY DEF Sweeps

LEMMA SweepType ==
  ASSUME TypeOK, NEW s \in Sweepers, SweepStep(s)
  PROVE  TypeOK'
<1> USE ConstantsAssumption DEF TypeOK, Sweeps, ChangesOnlySweeper, NoSweep
<1>1. CASE FindExpired(s)
  BY <1>1 DEF FindExpired
<1>2. ASSUME NEW o \in Orders, CancelExpired(s, o)
      PROVE  TypeOK'
  <2>1. sweeper' \in [Sweepers -> Sweeps]
    BY <1>2 DEF CancelExpired
  <2>2. CASE UNCHANGED order
    BY <1>2, <2>1, <2>2 DEF CancelExpired
  <2>3. CASE order[o].status = "pending" /\ SetStatus(o, "cancelled")
    <3>1. Placed(o) /\ OrderType
      BY <2>3 DEF Placed, Absent, OrderType
    <3>2. OrderType'
      BY <2>3, <3>1, OrderFields, SetOrderEffect DEF SetStatus, Statuses
    <3> QED BY <1>2, <2>1, <3>2 DEF CancelExpired, OrderType
  <2> QED BY <1>2, <2>2, <2>3 DEF CancelExpired
<1>3. CASE LookAtOrder(s)
  BY <1>3 DEF LookAtOrder
<1>4. CASE CommitExpired(s)
  <2>1. ReservationType /\ sweeper[s].order \in Orders
    BY <1>4 DEF CommitExpired, ReservationType
  <2>2. ReservationType' /\ stock' = stock
    BY <1>4, <2>1, CommitEffect DEF CommitExpired
  <2> QED BY <1>4, <2>2 DEF CommitExpired, ReservationType
<1>5. CASE ListReservations(s)
  BY <1>5 DEF ListReservations, ActiveProducts
<1>6. ASSUME NEW p \in Products, ReleaseReservation(s, p)
      PROVE  TypeOK'
  <2> DEFINE o == sweeper[s].order
             rest == [pc |-> "release", batch |-> sweeper[s].batch, order |-> o, list |-> sweeper[s].list \ {p}]
             returning == [pc |-> "return", batch |-> sweeper[s].batch, order |-> o, list |-> sweeper[s].list \ {p}, item |-> p]
  <2> HIDE DEF TypeOK, Sweeps
  <2>1. o \in Orders /\ sweeper[s].batch \in SUBSET Orders /\ sweeper[s].list \in SUBSET Products
    <3>1. sweeper[s] \in Sweeps /\ sweeper[s].pc = "release"
      BY <1>6 DEF ReleaseReservation, TypeOK
    <3> QED BY <3>1 DEF Sweeps
  <2>2. rest \in Sweeps /\ returning \in Sweeps
    BY <2>1, SweepsOfList
  <2> HIDE DEF rest, returning
  <2>3. CASE reservation[o][p] \in Active
    <3>1. /\ reservation' = [reservation EXCEPT ![o][p] = "expired"]
          /\ sweeper' = [sweeper EXCEPT ![s] = returning]
      BY <1>6, <2>3 DEF ReleaseReservation, returning
    <3>2. sweeper' \in [Sweepers -> Sweeps]
      BY <2>2, <3>1 DEF TypeOK
    <3>3. reservation' \in [Orders -> [Products -> ReservationStatuses]]
      BY <2>1, <3>1 DEF TypeOK, ReservationStatuses
    <3> QED BY <1>6, <3>2, <3>3 DEF ReleaseReservation, TypeOK
  <2>4. CASE reservation[o][p] \notin Active
    <3>1. reservation' = reservation /\ sweeper' = [sweeper EXCEPT ![s] = rest]
      BY <1>6, <2>4 DEF ReleaseReservation, rest
    <3> QED BY <1>6, <2>2, <3>1 DEF ReleaseReservation, TypeOK
  <2> QED BY <2>3, <2>4
<1>7. CASE ReturnStock(s)
  BY <1>7 DEF ReturnStock
<1>8. CASE OrderSwept(s)
  BY <1>8 DEF OrderSwept
<1>9. CASE SweepDone(s)
  BY <1>9 DEF SweepDone
<1> QED
  BY <1>1, <1>2, <1>3, <1>4, <1>5, <1>6, <1>7, <1>8, <1>9 DEF SweepStep

LEMMA WebhookType ==
  ASSUME TypeOK, NEW h \in Handlers, WebhookStep(h)
  PROVE  TypeOK'
<1> USE ConstantsAssumption DEF TypeOK, WebhookRequests, NoWebhook
<1>1. ASSUME NEW m \in Webhooks, FindEvent(h, m)
      PROVE  TypeOK'
  BY <1>1 DEF FindEvent
<1>2. CASE FindOrder(h)
  <2> DEFINE o == handler[h].msg.order
  <2>1. handler[h].msg \in Webhooks /\ o \in Orders
    BY <1>2 DEF FindOrder
  <2>2. CASE ~Acceptable(order[o], handler[h].msg.to)
    BY <1>2, <2>2 DEF FindOrder
  <2>3. CASE Acceptable(order[o], handler[h].msg.to)
    <3>1. order[o].status \in Statuses /\ order[o].paymentStatus \in PaymentStatuses
      BY <2>1, <2>3, OrderFields DEF Acceptable, OrderType, Placed
    <3> QED BY <1>2, <2>1, <2>3, <3>1 DEF FindOrder
  <2> QED BY <2>2, <2>3
<1>3. CASE ApplyWebhook(h)
  <2> DEFINE m == handler[h].msg
             o == m.order
             read == handler[h]
  <2>1. /\ m \in Webhooks /\ o \in Orders /\ m.to \in {"paid", "failed", "refunded"}
        /\ read.status \in Statuses /\ read.paymentStatus \in PaymentStatuses
        /\ OrderType /\ ReservationType /\ StockType
    BY <1>3 DEF ApplyWebhook, OrderType, ReservationType, StockType
  <2>2. payments' \subseteq Webhooks /\ handler' \in [Handlers -> WebhookRequests]
    BY <1>3, <2>1 DEF ApplyWebhook
  <2>3. ReservationType' /\ StockType'
    BY <1>3, <2>1, CommitEffect, ReleaseEffect DEF ApplyWebhook, StockType
  <2>4. OrderType'
    <3>1. CASE read.paymentStatus = m.to
      BY <1>3, <2>1, <3>1 DEF ApplyWebhook, TransitionOrder, OrderType
    <3>2. CASE read.paymentStatus # m.to
      <4>1. /\ order[o].status \in Statuses
            /\ SetOrder(o, nextOrderStatus(read.status, m.to), m.to,
                        IF m.to = "refunded" THEN "processed" ELSE order[o].refundStatus)
        BY <1>3, <2>1, <3>2 DEF ApplyWebhook, TransitionOrder, Unchanged
      <4>2. order[o].refundStatus \in RefundStatuses
        BY <2>1, <4>1, OrderFields DEF Statuses
      <4>3. /\ nextOrderStatus(read.status, m.to) \in Statuses
            /\ m.to \in PaymentStatuses
            /\ (IF m.to = "refunded" THEN "processed" ELSE order[o].refundStatus) \in RefundStatuses
        BY <2>1, <4>2 DEF nextOrderStatus, Statuses, PaymentStatuses, RefundStatuses
      <4> HIDE DEF o, read
      <4> QED BY <2>1, <4>1, <4>3, SetOrderEffect
    <3> QED BY <3>1, <3>2
  <2> QED BY <1>3, <2>2, <2>3, <2>4 DEF ApplyWebhook, OrderType, ReservationType, StockType
<1>4. CASE RejectWebhook(h)
  BY <1>4 DEF RejectWebhook
<1> QED
  BY <1>1, <1>2, <1>3, <1>4 DEF WebhookStep

LEMMA RequestType ==
  ASSUME TypeOK, NEW o \in Orders, OrderRequest(o)
  PROVE  TypeOK'
<1>1. OrderType /\ ReservationType /\ StockType
  BY DEF TypeOK, OrderType, ReservationType, StockType
<1>2. CASE Checkout(o)
  <2>1. OrderType'
    BY <1>1, <1>2, SetOrderEffect DEF Checkout, Statuses, PaymentStatuses, RefundStatuses
  <2>2. ReservationType'
    <3>1. [p \in Products |-> IF Items[o][p] > 0 THEN "reserved" ELSE "none"] \in [Products -> ReservationStatuses]
      BY DEF ReservationStatuses
    <3> QED BY <1>1, <1>2, <3>1 DEF Checkout, ReservationType
  <2>3. StockType'
    BY <1>1, <1>2, ConstantsAssumption DEF Checkout, StockType
  <2> QED BY <1>2, <2>1, <2>2, <2>3 DEF Checkout, TypeOK, OrderType, ReservationType, StockType
<1>3. CASE CancelOrder(o)
  <2>1. order[o].paymentStatus \in PaymentStatuses /\ order[o].refundStatus \in RefundStatuses
    BY <1>1, <1>3, OrderFields DEF CancelOrder
  <2>2. OrderType'
    BY <1>1, <1>3, <2>1, SetOrderEffect DEF CancelOrder, SetStatus, Statuses, RefundStatuses
  <2>3. ReservationType' /\ StockType'
    BY <1>1, <1>3, ReleaseEffect, ConstantsAssumption DEF CancelOrder
  <2> QED BY <1>3, <2>2, <2>3 DEF CancelOrder, TypeOK, OrderType, ReservationType, StockType
<1>4. CASE RequestRefundOf(o)
  <2>1. OrderType'
    BY <1>1, <1>4, OrderFields, SetOrderEffect DEF RequestRefundOf, RefundStatuses
  <2> QED BY <1>4, <2>1 DEF RequestRefundOf, TypeOK, OrderType
<1>5. CASE ReadShippable(o)
  BY <1>5 DEF ReadShippable, TypeOK
<1>6. CASE AdvanceOrder(o)
  <2>1. ASSUME NEW rank \in 1..4, NEW r \in 1..(rank - 1), order[o].status = STATUS_FOR_RANK[r],
               SetStatus(o, STATUS_FOR_RANK[rank])
        PROVE  OrderType'
    <3>1. STATUS_FOR_RANK[rank] \in Statuses /\ STATUS_FOR_RANK[r] \in Statuses
      BY DEF STATUS_FOR_RANK, Statuses
    <3> QED BY <1>1, <2>1, <3>1, OrderFields, SetOrderEffect DEF SetStatus, Statuses
  <2>2. OrderType'
    BY <1>1, <1>6, <2>1 DEF AdvanceOrder, OrderType
  <2> QED BY <1>6, <2>2 DEF AdvanceOrder, TypeOK, OrderType
<1> QED
  BY <1>2, <1>3, <1>4, <1>5, <1>6 DEF OrderRequest

LEMMA NextType ==
  ASSUME TypeOK, [LNext]_vars
  PROVE  TypeOK'
<1>1. ASSUME NEW o \in Orders, PaymentWindowPasses(o) PROVE TypeOK'
  BY <1>1 DEF PaymentWindowPasses, TypeOK
<1>2. ASSUME NEW s \in Sweepers, InterruptSweep(s) PROVE TypeOK'
  BY <1>2, ConstantsAssumption DEF InterruptSweep, TypeOK, Sweeps
<1>3. CASE UNCHANGED vars
  BY <1>3 DEF vars, TypeOK
<1> QED
  BY <1>1, <1>2, <1>3, RequestType, WebhookType, SweepType DEF LNext

\* Every document keeps its schema's states, and no stock goes below zero.
THEOREM TypeCorrect == LSpec => []TypeOK
  BY InitType, NextType, PTL DEF LSpec
-----------------------------------------------------------------------------
(* The inductive invariant. *)

\* What a webhook read is acceptable, and a final payment state it read is still there.
ReadIsGood(read) ==
  /\ Placed(read.msg.order)
  /\ read.msg.to = "paid" => read.status # "cancelled"
  /\ read.paymentStatus = read.msg.to \/ read.msg.to \in allowedTransitions[read.paymentStatus]
  /\ read.paymentStatus \in {"failed", "refunded"} => order[read.msg.order].paymentStatus = read.paymentStatus
WebhookInv == \A h \in Handlers : handler[h].pc = "apply" => ReadIsGood(handler[h])

\* A sweep releases stock of cancelled orders only; what it has yet to return is no
\* longer reserved, and no two sweeps return the same reservation.
SweepInv ==
  \A s \in Sweepers :
    /\ sweeper[s].pc \in {"list", "release", "return"} => order[sweeper[s].order].status = "cancelled"
    /\ sweeper[s].pc = "return" =>
         /\ reservation[sweeper[s].order][sweeper[s].item] \notin Active
         /\ \A t \in Sweepers \ {s} :
              sweeper[t].pc = "return" =>
                sweeper[t].order # sweeper[s].order \/ sweeper[t].item # sweeper[s].item

UnplacedHoldsNothing ==
  \A o \in Orders : ~Placed(o) => \A p \in Products : reservation[o][p] = "none"

\* Every step of the system is a step of the order machine, or leaves the orders alone.
LEMMA StepImplements ==
  ASSUME TypeOK, WebhookInv, [LNext]_vars
  PROVE  [Next]_order
<1>1. OrderType
  BY DEF TypeOK, OrderType
<1>2. ASSUME NEW o \in Orders, Checkout(o) PROVE Next
  BY <1>1, <1>2, OrderFields DEF Checkout, Next, Place
<1>3. ASSUME NEW o \in Orders, CancelOrder(o) PROVE Next
  BY <1>3 DEF CancelOrder, Next, Cancel
<1>4. ASSUME NEW o \in Orders, RequestRefundOf(o) PROVE Next
  BY <1>4 DEF RequestRefundOf, Next, RequestRefund
<1>5. ASSUME NEW o \in Orders, AdvanceOrder(o) PROVE Next \/ UNCHANGED order
  <2>1. ASSUME NEW rank \in 1..4, NEW r \in 1..(rank - 1), order[o].status = STATUS_FOR_RANK[r],
               SetStatus(o, STATUS_FOR_RANK[rank])
        PROVE  Next
    <3>1. order[o].status \in Statuses
      BY <2>1 DEF STATUS_FOR_RANK, Statuses
    <3>2. STATUS_FOR_RANK[rank] \in fulfilmentTransitions[order[o].status] \ {"confirmed", "cancelled"}
      BY <2>1 DEF STATUS_FOR_RANK, fulfilmentTransitions, Statuses
    <3> QED BY <1>1, <2>1, <3>1, <3>2, OrderFields DEF Next, Fulfil, Statuses
  <2> QED BY <1>5, <2>1 DEF AdvanceOrder
<1>6. ASSUME NEW h \in Handlers, ApplyWebhook(h) PROVE Next \/ UNCHANGED order
  <2> DEFINE m == handler[h].msg
             o == m.order
             read == handler[h]
  <2>1. m \in Webhooks /\ o \in Orders /\ m.to \in {"paid", "failed", "refunded"}
    BY <1>6, ConstantsAssumption DEF ApplyWebhook, TypeOK, WebhookRequests, NoWebhook
  <2>2. /\ Placed(o)
        /\ m.to = "paid" => read.status # "cancelled"
        /\ read.paymentStatus = m.to \/ m.to \in allowedTransitions[read.paymentStatus]
    BY <1>6 DEF ApplyWebhook, WebhookInv, ReadIsGood
  <2>3. CASE read.paymentStatus # m.to
    <3>1. /\ order[o].paymentStatus = read.paymentStatus /\ order[o].status = read.status
          /\ SetOrder(o, nextOrderStatus(read.status, m.to), m.to,
                      IF m.to = "refunded" THEN "processed" ELSE order[o].refundStatus)
      BY <1>6, <2>3 DEF ApplyWebhook, TransitionOrder, Unchanged
    <3>2. CASE m.to = "paid"
      BY <2>1, <2>2, <2>3, <3>1, <3>2 DEF Next, Capture, nextOrderStatus
    <3>3. CASE m.to = "failed"
      BY <2>1, <2>2, <2>3, <3>1, <3>3 DEF Next, Decline, nextOrderStatus
    <3>4. CASE m.to = "refunded"
      BY <2>1, <2>2, <2>3, <3>1, <3>4 DEF Next, Refund, nextOrderStatus
    <3> QED BY <2>1, <3>2, <3>3, <3>4
  <2>4. CASE read.paymentStatus = m.to
    BY <1>6, <2>4 DEF ApplyWebhook, TransitionOrder
  <2> QED BY <2>3, <2>4
<1>7. ASSUME NEW s \in Sweepers, NEW o \in Orders, CancelExpired(s, o) PROVE Next \/ UNCHANGED order
  BY <1>1, <1>7, OrderFields DEF CancelExpired, Next, Cancel, CANCELLABLE_STATUSES
<1>8. CASE UNCHANGED order
  BY <1>8
<1>9. \/ \E o \in Orders : Checkout(o) \/ CancelOrder(o) \/ RequestRefundOf(o) \/ AdvanceOrder(o)
      \/ \E h \in Handlers : ApplyWebhook(h)
      \/ \E s \in Sweepers, o \in Orders : CancelExpired(s, o)
      \/ UNCHANGED order
  BY DEF LNext, OrderRequest, WebhookStep, SweepStep, ReadShippable, PaymentWindowPasses, FindEvent,
         FindOrder, RejectWebhook, FindExpired, LookAtOrder, CommitExpired, ListReservations,
         ReleaseReservation, ReturnStock, OrderSwept, SweepDone, InterruptSweep, vars
<1> QED
  BY <1>2, <1>3, <1>4, <1>5, <1>6, <1>7, <1>8, <1>9

\* What the machine never undoes: a cancellation, a failed or refunded payment, an order's existence.
LEMMA MachineIsFinal ==
  ASSUME OrderType, [Next]_order, NEW o \in Orders
  PROVE  /\ order[o].status = "cancelled" => order'[o].status = "cancelled"
         /\ order[o].paymentStatus \in {"failed", "refunded"} => order'[o].paymentStatus = order[o].paymentStatus
         /\ Placed(o) => Placed(o)'
<1>1. CASE UNCHANGED order
  BY <1>1 DEF Placed
<1>2. ASSUME NEW q \in Orders, Place(q) PROVE order'[o] = order[o] \/ order[o] = Absent
  BY <1>2 DEF Place, SetOrder, OrderType
<1>3. ASSUME NEW q \in Orders, Placed(q),
             Capture(q) \/ Decline(q) \/ Refund(q) \/ Cancel(q) \/ RequestRefund(q) \/ Fulfil(q)
      PROVE  order'[o] = order[o] \/
             /\ order'[o].status \in Statuses
             /\ order[o].status = "cancelled" => order'[o].status = "cancelled"
             /\ order[o].paymentStatus \in {"failed", "refunded"} => order'[o].paymentStatus = order[o].paymentStatus
  <2>1. CASE q # o
    BY <1>3, <2>1 DEF OrderType, SetOrder, SetStatus, Capture, Decline, Refund, Cancel, RequestRefund, Fulfil
  <2>2. CASE q = o
    <3> USE <1>3, <2>2, OrderFields DEF OrderType, SetOrder, SetStatus, allowedTransitions, PaymentStatuses
    <3>1. CASE Capture(o)
      BY <3>1 DEF Capture, Statuses
    <3>2. CASE Decline(o)
      BY <3>2 DEF Decline
    <3>3. CASE Refund(o)
      BY <3>3 DEF Refund
    <3>4. CASE Cancel(o)
      BY <3>4 DEF Cancel, Statuses
    <3>5. CASE RequestRefund(o)
      BY <3>5 DEF RequestRefund
    <3>6. CASE Fulfil(o)
      BY <3>6 DEF Fulfil, fulfilmentTransitions, Statuses
    <3> QED BY <3>1, <3>2, <3>3, <3>4, <3>5, <3>6
  <2> QED BY <2>1, <2>2
<1>4. order[o] = Absent => ~Placed(o) /\ order[o].status = "absent" /\ order[o].paymentStatus = "absent"
  BY DEF Placed, Absent
<1> QED
  BY <1>1, <1>2, <1>3, <1>4, OrderFields DEF Next, Placed, Absent, Statuses

LEMMA WebhookInvStep ==
  ASSUME TypeOK, WebhookInv, [LNext]_vars
  PROVE  WebhookInv'
<1> SUFFICES ASSUME NEW h \in Handlers, handler'[h].pc = "apply"
             PROVE  ReadIsGood(handler[h])'
  BY DEF WebhookInv
<1>1. OrderType /\ [Next]_order
  BY StepImplements DEF TypeOK, OrderType
<1>2. CASE handler'[h] = handler[h]
  <2> DEFINE o == handler[h].msg.order
  <2>1. handler[h].pc = "apply" /\ o \in Orders
    <3>1. handler[h].pc = "apply" /\ handler[h] \in WebhookRequests
      BY <1>2 DEF TypeOK
    <3>2. handler[h].msg \in Webhooks
      BY <3>1 DEF WebhookRequests, NoWebhook
    <3> QED BY <3>1, <3>2, ConstantsAssumption
  <2>2. /\ order[o].paymentStatus \in {"failed", "refunded"} => order'[o].paymentStatus = order[o].paymentStatus
        /\ order[o] # Absent => order'[o] # Absent
    <3>1. \A q \in Orders : /\ order[q].paymentStatus \in {"failed", "refunded"} => order'[q].paymentStatus = order[q].paymentStatus
                            /\ order[q] # Absent => order'[q] # Absent
      BY <1>1, MachineIsFinal DEF Placed
    <3> QED BY <2>1, <3>1
  <2>3. ReadIsGood(handler[h])
    BY <2>1 DEF WebhookInv
  <2> QED BY <1>2, <2>2, <2>3 DEF ReadIsGood, Placed
<1>3. CASE FindOrder(h)
  <2> DEFINE o == handler[h].msg.order
             read == [pc |-> "apply", msg |-> handler[h].msg,
                      paymentStatus |-> order[o].paymentStatus, status |-> order[o].status]
  <2>1. handler'[h] = IF Acceptable(order[o], handler[h].msg.to) THEN read ELSE NoWebhook
    BY <1>3 DEF FindOrder, TypeOK
  <2>2. Acceptable(order[o], handler[h].msg.to) /\ handler'[h] = read
    BY <2>1 DEF NoWebhook
  <2>3. order' = order
    BY <1>3 DEF FindOrder
  <2> QED BY <2>2, <2>3 DEF Acceptable, Placed, ReadIsGood
<1>4. ASSUME NEW g \in Handlers, WebhookStep(g) PROVE handler'[h] = handler[h] \/ FindOrder(h)
  <2>1. CASE g # h
    BY <1>4, <2>1 DEF WebhookStep, FindEvent, FindOrder, ApplyWebhook, RejectWebhook, TypeOK
  <2>2. CASE g = h
    BY <1>4, <2>2 DEF WebhookStep, FindEvent, ApplyWebhook, RejectWebhook, TypeOK, NoWebhook
  <2> QED BY <2>1, <2>2
<1>5. handler'[h] = handler[h] \/ FindOrder(h)
  BY <1>4 DEF LNext, OrderRequest, SweepStep, Checkout, CancelOrder, RequestRefundOf, ReadShippable,
         AdvanceOrder, PaymentWindowPasses,
         FindExpired, CancelExpired, LookAtOrder, CommitExpired, ListReservations, ReleaseReservation,
         ReturnStock, OrderSwept, SweepDone, InterruptSweep, ChangesOnlySweeper, vars
<1> QED
  BY <1>2, <1>3, <1>5

\* An order that no longer goes on: cancelled, declined or refunded.
GivenUp(o) == order[o].status = "cancelled" \/ order[o].paymentStatus \in {"failed", "refunded"}
ReleasedWith(o) == ReleaseOrderReservations(o, "released") /\ GivenUp(o)'

\* The steps that touch a reservation, one disjunct per kind of change. A
\* transaction releases the stock of an order only in giving the order up.
LEMMA ReservationMoves ==
  ASSUME TypeOK, WebhookInv, [LNext]_vars
  PROVE  \/ \E o \in Orders : \/ Checkout(o)
                             \/ ReleasedWith(o)
                             \/ CommitReservations(o)
         \/ \E s \in Sweepers, p \in Products : sweeper[s].order \in Orders /\ ReleaseReservation(s, p)
         \/ UNCHANGED reservation
<1>1. ASSUME NEW h \in Handlers, ApplyWebhook(h)
      PROVE  \E o \in Orders : ReleasedWith(o) \/ CommitReservations(o)
  <2> DEFINE m == handler[h].msg
             o == m.order
             read == handler[h]
  <2>1. m \in Webhooks /\ o \in Orders /\ m.to \in {"paid", "failed", "refunded"} /\ OrderType
    BY <1>1, ConstantsAssumption DEF ApplyWebhook, TypeOK, WebhookRequests, NoWebhook, OrderType
  <2>2. ReadIsGood(read)
    BY <1>1 DEF ApplyWebhook, WebhookInv
  <2>3. CASE m.to = "paid"
    BY <1>1, <2>1, <2>3 DEF ApplyWebhook
  <2>4. CASE m.to # "paid"
    <3>1. order'[o].paymentStatus = m.to
      <4>1. CASE read.paymentStatus = m.to
        BY <1>1, <2>1, <2>2, <2>4, <4>1 DEF ApplyWebhook, TransitionOrder, ReadIsGood
      <4>2. CASE read.paymentStatus # m.to
        BY <1>1, <2>1, <4>2 DEF ApplyWebhook, TransitionOrder, SetOrder, OrderType
      <4> QED BY <4>1, <4>2
    <3> QED BY <1>1, <2>1, <2>4, <3>1 DEF ApplyWebhook, GivenUp, ReleasedWith
  <2> QED BY <2>3, <2>4
<1>2. ASSUME NEW s \in Sweepers, CommitExpired(s) PROVE \E o \in Orders : CommitReservations(o)
  <2>1. sweeper[s].order \in Orders
    BY <1>2 DEF CommitExpired, TypeOK, Sweeps, NoSweep
  <2> QED BY <1>2, <2>1 DEF CommitExpired
<1>3. ASSUME NEW s \in Sweepers, NEW p \in Products, ReleaseReservation(s, p)
      PROVE  sweeper[s].order \in Orders
  BY <1>3 DEF ReleaseReservation, TypeOK, Sweeps, NoSweep
<1>4. ASSUME NEW o \in Orders, CancelOrder(o)
      PROVE  ReleasedWith(o)
  <2>1. order'[o].status = "cancelled"
    BY <1>4 DEF CancelOrder, SetOrder, SetStatus, TypeOK
  <2> QED BY <1>4, <2>1 DEF CancelOrder, GivenUp, ReleasedWith
<1>5. ASSUME NEW o \in Orders, OrderRequest(o) \/ PaymentWindowPasses(o), ~Checkout(o), ~CancelOrder(o)
      PROVE  UNCHANGED reservation
  BY <1>5 DEF OrderRequest, RequestRefundOf, ReadShippable, AdvanceOrder, PaymentWindowPasses
<1>6. ASSUME NEW h \in Handlers, WebhookStep(h), ~ApplyWebhook(h)
      PROVE  UNCHANGED reservation
  BY <1>6 DEF WebhookStep, FindEvent, FindOrder, RejectWebhook
<1>7. ASSUME NEW s \in Sweepers, SweepStep(s) \/ InterruptSweep(s), ~CommitExpired(s),
             ~\E p \in Products : ReleaseReservation(s, p)
      PROVE  UNCHANGED reservation
  BY <1>7 DEF SweepStep, FindExpired, CancelExpired, LookAtOrder, ListReservations, ReturnStock,
              OrderSwept, SweepDone, InterruptSweep
<1> QED
  BY <1>1, <1>2, <1>3, <1>4, <1>5, <1>6, <1>7 DEF LNext, vars

\* Only a checkout sets stock aside, so a reservation that was given up stays given up.
LEMMA NoRevival ==
  ASSUME TypeOK, WebhookInv, [LNext]_vars, NEW o \in Orders, NEW p \in Products,
         Placed(o), reservation[o][p] \notin Active
  PROVE  reservation'[o][p] \notin Active
<1>1. ReservationType /\ StockType
  BY DEF TypeOK, ReservationType, StockType
<1>2. ASSUME NEW q \in Orders, Checkout(q) PROVE reservation'[o][p] \notin Active
  BY <1>1, <1>2 DEF Checkout, ReservationType
<1>3. ASSUME NEW q \in Orders, ReleasedWith(q) PROVE reservation'[o][p] \notin Active
  BY <1>1, <1>3, ReleaseEffect, ConstantsAssumption DEF Active, ReleasedWith
<1>4. ASSUME NEW q \in Orders, CommitReservations(q) PROVE reservation'[o][p] \notin Active
  BY <1>1, <1>4, CommitEffect
<1>5. ASSUME NEW s \in Sweepers, NEW r \in Products, sweeper[s].order \in Orders, ReleaseReservation(s, r)
      PROVE  reservation'[o][p] \notin Active
  BY <1>1, <1>5 DEF ReleaseReservation, ReservationType, Active
<1> QED
  BY <1>2, <1>3, <1>4, <1>5, ReservationMoves

LEMMA UnplacedStep ==
  ASSUME TypeOK, UnplacedHoldsNothing, WebhookInv, [LNext]_vars
  PROVE  UnplacedHoldsNothing'
<1> SUFFICES ASSUME NEW o \in Orders, ~Placed(o)', NEW p \in Products PROVE reservation'[o][p] = "none"
  BY DEF UnplacedHoldsNothing
<1>1. ReservationType /\ StockType /\ OrderType /\ [Next]_order
  BY StepImplements DEF TypeOK, ReservationType, StockType, OrderType
<1>2. ~Placed(o) /\ reservation[o][p] = "none"
  BY <1>1, MachineIsFinal DEF UnplacedHoldsNothing
<1>3. ASSUME NEW q \in Orders, Checkout(q) PROVE reservation'[o][p] = "none"
  <2>1. Placed(q)'
    BY <1>1, <1>3 DEF Checkout, SetOrder, OrderType, Placed, Absent
  <2> QED BY <1>1, <1>2, <1>3, <2>1 DEF Checkout, ReservationType
<1>4. ASSUME NEW q \in Orders, ReleasedWith(q) PROVE reservation'[o][p] = "none"
  BY <1>1, <1>2, <1>4, ReleaseEffect, ConstantsAssumption DEF Active, ReleasedWith
<1>5. ASSUME NEW q \in Orders, CommitReservations(q) PROVE reservation'[o][p] = "none"
  BY <1>1, <1>2, <1>5, CommitEffect
<1>6. ASSUME NEW s \in Sweepers, NEW r \in Products, sweeper[s].order \in Orders, ReleaseReservation(s, r)
      PROVE  reservation'[o][p] = "none"
  BY <1>1, <1>2, <1>6 DEF ReleaseReservation, ReservationType, Active
<1> QED
  BY <1>2, <1>3, <1>4, <1>5, <1>6, ReservationMoves

LEMMA SweepInvStep ==
  ASSUME TypeOK, WebhookInv, SweepInv, [LNext]_vars
  PROVE  SweepInv'
<1>1. OrderType /\ ReservationType /\ [Next]_order
  BY StepImplements DEF TypeOK, OrderType, ReservationType
<1>2. ASSUME NEW s \in Sweepers
      PROVE  /\ sweeper[s].pc \in {"list", "release", "return"} => sweeper[s].order \in Orders
             /\ sweeper[s].pc = "return" => sweeper[s].item \in Products
  BY DEF TypeOK, Sweeps, NoSweep
\* A sweep that does not move keeps what it relies on.
<1>3. ASSUME NEW s \in Sweepers, sweeper'[s] = sweeper[s]
      PROVE  /\ sweeper'[s].pc \in {"list", "release", "return"} => order'[sweeper'[s].order].status = "cancelled"
             /\ sweeper'[s].pc = "return" => reservation'[sweeper'[s].order][sweeper'[s].item] \notin Active
  <2>1. CASE sweeper[s].pc \in {"list", "release", "return"}
    <3>1. sweeper[s].order \in Orders /\ order[sweeper[s].order].status = "cancelled"
      BY <1>2, <2>1 DEF SweepInv
    <3>2. order'[sweeper[s].order].status = "cancelled" /\ Placed(sweeper[s].order)
      BY <1>1, <3>1, MachineIsFinal, OrderFields
    <3>3. sweeper[s].pc = "return" => reservation'[sweeper[s].order][sweeper[s].item] \notin Active
      BY <1>2, <3>1, <3>2, NoRevival DEF SweepInv
    <3> QED BY <1>3, <3>2, <3>3
  <2> QED BY <1>3, <2>1
<1>4. CASE sweeper' = sweeper
  BY <1>3, <1>4 DEF SweepInv
\* A sweep that moves to any other state than "return" cannot clash with another.
<1>5. ASSUME NEW s \in Sweepers, \A t \in Sweepers \ {s} : sweeper'[t] = sweeper[t],
             sweeper'[s].pc # "return",
             sweeper'[s].pc \in {"list", "release"} => order'[sweeper'[s].order].status = "cancelled"
      PROVE  SweepInv'
  BY <1>3, <1>5 DEF SweepInv
<1>6. ASSUME NEW s \in Sweepers, SweepStep(s) \/ InterruptSweep(s),
             ~\E p \in Products : ReleaseReservation(s, p)
      PROVE  SweepInv'
  <2>1. \A t \in Sweepers \ {s} : sweeper'[t] = sweeper[t]
    BY <1>6 DEF SweepStep, FindExpired, CancelExpired, LookAtOrder, CommitExpired, ListReservations,
                ReturnStock, OrderSwept, SweepDone, InterruptSweep, TypeOK
  <2>2. ASSUME NEW o \in Orders, CancelExpired(s, o)
        PROVE  sweeper'[s].pc # "return" /\ (sweeper'[s].pc = "list" => order'[sweeper'[s].order].status = "cancelled")
               /\ sweeper'[s].pc # "release"
    BY <2>2 DEF CancelExpired, TypeOK, SetOrder, SetStatus
  <2>3. CASE ListReservations(s) \/ ReturnStock(s)
    <3>1. /\ sweeper'[s].pc = "release" /\ sweeper'[s].order = sweeper[s].order
          /\ order' = order /\ sweeper[s].pc \in {"list", "return"}
      BY <2>3 DEF ListReservations, ReturnStock, TypeOK
    <3> QED BY <1>5, <2>1, <3>1 DEF SweepInv
  <2>4. CASE FindExpired(s) \/ LookAtOrder(s) \/ CommitExpired(s) \/ OrderSwept(s) \/ SweepDone(s) \/ InterruptSweep(s)
    <3>1. sweeper'[s].pc \in {"idle", "next", "commit"}
      BY <2>4 DEF FindExpired, LookAtOrder, CommitExpired, OrderSwept, SweepDone, InterruptSweep, TypeOK, NoSweep
    <3> QED BY <1>5, <2>1, <3>1
  <2> QED BY <1>5, <1>6, <2>1, <2>2, <2>3, <2>4 DEF SweepStep
<1>7. ASSUME NEW s \in Sweepers, NEW p \in Products, ReleaseReservation(s, p)
      PROVE  SweepInv'
  <2> DEFINE o == sweeper[s].order
  <2>1. /\ o \in Orders /\ order[o].status = "cancelled" /\ order' = order
        /\ \A t \in Sweepers \ {s} : sweeper'[t] = sweeper[t]
    BY <1>2, <1>7 DEF ReleaseReservation, SweepInv, TypeOK
  <2>2. CASE reservation[o][p] \in Active
    <3>1. /\ reservation'[o][p] = "expired"
          /\ sweeper'[s].pc = "return" /\ sweeper'[s].order = o /\ sweeper'[s].item = p
      BY <1>1, <1>7, <2>1, <2>2 DEF ReleaseReservation, ReservationType, TypeOK
    <3>2. ASSUME NEW t \in Sweepers \ {s}, sweeper[t].pc = "return"
          PROVE  sweeper[t].order # o \/ sweeper[t].item # p
      BY <2>2, <3>2 DEF SweepInv
    <3> QED BY <1>3, <2>1, <3>1, <3>2 DEF SweepInv, Active
  <2>3. CASE reservation[o][p] \notin Active
    <3>1. sweeper'[s].pc = "release" /\ sweeper'[s].order = o
      BY <1>7, <2>3 DEF ReleaseReservation, TypeOK
    <3> QED BY <1>5, <2>1, <3>1
  <2> QED BY <2>2, <2>3
<1> QED
  BY <1>4, <1>6, <1>7 DEF LNext, OrderRequest, WebhookStep, Checkout, CancelOrder, RequestRefundOf,
     ReadShippable, AdvanceOrder, PaymentWindowPasses, FindEvent, FindOrder, ApplyWebhook, RejectWebhook, vars
-----------------------------------------------------------------------------
(* What orders hold, and what they owe. *)

LEMMA OnlyCheckoutPlaces ==
  ASSUME TypeOK, WebhookInv, [LNext]_vars, NEW o \in Orders, ~Placed(o), ~Checkout(o)
  PROVE  order'[o] = order[o]
<1>1. OrderType /\ order[o].status = "absent"
  BY OrderFields DEF TypeOK, OrderType
<1>2. ASSUME NEW q \in Orders, q # o, Checkout(q) \/ CancelOrder(q) \/ RequestRefundOf(q) \/ AdvanceOrder(q)
      PROVE  order'[o] = order[o]
  BY <1>1, <1>2 DEF Checkout, CancelOrder, RequestRefundOf, AdvanceOrder, SetOrder, SetStatus, OrderType
<1>3. ~CancelOrder(o) /\ ~RequestRefundOf(o) /\ (AdvanceOrder(o) => order' = order)
  BY <1>1 DEF CancelOrder, RequestRefundOf, AdvanceOrder, STATUS_FOR_RANK
<1>4. ASSUME NEW h \in Handlers, ApplyWebhook(h) PROVE order'[o] = order[o]
  BY <1>1, <1>4 DEF ApplyWebhook, TransitionOrder, WebhookInv, ReadIsGood, SetOrder, OrderType
<1>5. ASSUME NEW s \in Sweepers, NEW q \in Orders, CancelExpired(s, q) PROVE order'[o] = order[o]
  BY <1>1, <1>5 DEF CancelExpired, SetOrder, SetStatus, OrderType
<1> QED
  BY <1>2, <1>3, <1>4, <1>5
  DEF LNext, OrderRequest, WebhookStep, SweepStep, ReadShippable, PaymentWindowPasses, FindEvent,
      FindOrder, RejectWebhook, FindExpired, LookAtOrder, CommitExpired, ListReservations,
      ReleaseReservation, ReturnStock, OrderSwept, SweepDone, InterruptSweep, vars

LEMMA LiveStep ==
  ASSUME TypeOK, WebhookInv, SweepInv, LiveOrderHoldsStock, [LNext]_vars
  PROVE  LiveOrderHoldsStock'
<1> SUFFICES ASSUME NEW o \in Orders, Placed(o)', ~GivenUp(o)', NEW p \in Products, Items[o][p] > 0
             PROVE  reservation'[o][p] \in Active
  BY DEF LiveOrderHoldsStock, GivenUp
<1>1. OrderType /\ ReservationType /\ StockType /\ [Next]_order
  BY StepImplements DEF TypeOK, OrderType, ReservationType, StockType
<1>2. CASE Checkout(o)
  BY <1>1, <1>2 DEF Checkout, ReservationType, Active
<1>3. CASE ~Checkout(o)
  <2>1. Placed(o)
    BY <1>3, OnlyCheckoutPlaces DEF Placed
  <2>2. ~GivenUp(o)
    BY <1>1, MachineIsFinal DEF GivenUp
  <2>3. reservation[o][p] \in Active
    BY <1>1, <2>1, <2>2, OrderFields DEF LiveOrderHoldsStock, GivenUp, PaymentStatuses
  <2>4. ASSUME NEW q \in Orders, Checkout(q) PROVE reservation'[o][p] \in Active
    BY <1>1, <1>3, <2>3, <2>4 DEF Checkout, ReservationType
  <2>5. ASSUME NEW q \in Orders, ReleasedWith(q)
        PROVE  reservation'[o][p] \in Active
    <3>1. q # o
      BY <2>5 DEF ReleasedWith
    <3> QED BY <1>1, <2>3, <2>5, <3>1, ReleaseEffect, ConstantsAssumption DEF ReleasedWith
  <2>6. ASSUME NEW q \in Orders, CommitReservations(q) PROVE reservation'[o][p] \in Active
    BY <1>1, <2>3, <2>6, CommitEffect
  <2>7. ASSUME NEW s \in Sweepers, NEW r \in Products, sweeper[s].order \in Orders, ReleaseReservation(s, r)
        PROVE  reservation'[o][p] \in Active
    <3>1. sweeper[s].order # o
      BY <2>2, <2>7 DEF ReleaseReservation, SweepInv, GivenUp
    <3> QED BY <1>1, <2>3, <2>7, <3>1 DEF ReleaseReservation, ReservationType
  <2> QED BY <2>3, <2>4, <2>5, <2>6, <2>7, ReservationMoves
<1> QED BY <1>2, <1>3

LEMMA CancelledStep ==
  ASSUME TypeOK, WebhookInv, CancelledPaymentIsRefunded, [LNext]_vars
  PROVE  CancelledPaymentIsRefunded'
<1> SUFFICES ASSUME NEW o \in Orders, order'[o].status = "cancelled", order'[o].paymentStatus \in {"paid", "authorized"}
             PROVE  order'[o].refundStatus \in {"requested", "processed"}
  BY DEF CancelledPaymentIsRefunded
<1>1. OrderType /\ [Next]_order
  BY StepImplements DEF TypeOK, OrderType
<1>2. CASE order'[o] = order[o]
  BY <1>2 DEF CancelledPaymentIsRefunded
<1>3. ASSUME NEW q \in Orders, Place(q) \/ Capture(q) \/ Decline(q) \/ Refund(q) \/ Cancel(q) \/ RequestRefund(q) \/ Fulfil(q),
             order'[o] # order[o]
      PROVE  q = o
  BY <1>1, <1>3 DEF OrderType, SetOrder, SetStatus, Place, Capture, Decline, Refund, Cancel, RequestRefund, Fulfil
<1>4. ~Place(o) /\ ~Capture(o) /\ ~Decline(o) /\ ~Refund(o) /\ (RequestRefund(o) => order'[o].refundStatus = "requested")
  BY <1>1 DEF OrderType, SetOrder, Place, Capture, Decline, Refund, RequestRefund
<1>5. CASE Cancel(o)
  BY <1>1, <1>5 DEF OrderType, SetOrder, SetStatus, Cancel
<1>6. ASSUME Fulfil(o), Placed(o) PROVE FALSE
  BY <1>1, <1>6, OrderFields DEF OrderType, SetOrder, SetStatus, Fulfil
<1> QED
  BY <1>1, <1>2, <1>3, <1>4, <1>5, <1>6 DEF Next
-----------------------------------------------------------------------------
(* Stock is accounted for, unit by unit. *)

HeldOrders(p) == {o \in Orders : Held(o, p)}

LEMMA UnitsMembers ==
  ASSUME NEW p, NEW S, NEW x
  PROVE  x \in Units(S, p) <=> \E q \in S : x \in {q} \X (1..Items[q][p])
  BY SMT DEF Units

LEMMA LineUnits ==
  ASSUME NEW o, NEW n \in Nat
  PROVE  IsFiniteSet({o} \X (1..n)) /\ Cardinality({o} \X (1..n)) = n
<1>1. IsFiniteSet({o}) /\ Cardinality({o}) = 1
  BY FS_Singleton
<1>2. IsFiniteSet(1..n) /\ Cardinality(1..n) = n
  BY FS_Interval
<1>3. IsFiniteSet({o} \X (1..n)) /\ Cardinality({o} \X (1..n)) = Cardinality({o}) * Cardinality(1..n)
  BY <1>1, <1>2, FS_Product
<1> QED
  BY <1>1, <1>2, <1>3

\* One more or one less holding order changes the held units by its quantity.
LEMMA UnitsOfOneMore ==
  ASSUME ConstantsAssumption, NEW p \in Products, NEW S \in SUBSET Orders, NEW o \in Orders \ S,
         IsFiniteSet(Units(S, p))
  PROVE  /\ IsFiniteSet(Units(S \cup {o}, p))
         /\ Cardinality(Units(S \cup {o}, p)) = Cardinality(Units(S, p)) + Items[o][p]
<1> DEFINE new == {o} \X (1..Items[o][p])
<1>1. Items[o][p] \in Nat
  BY DEF ConstantsAssumption
<1>2. IsFiniteSet(new) /\ Cardinality(new) = Items[o][p]
  BY <1>1, LineUnits
<1>3. Units(S \cup {o}, p) = Units(S, p) \cup new
  <2>1. ASSUME NEW x PROVE x \in Units(S \cup {o}, p) <=> x \in Units(S, p) \/ x \in new
    <3>1. (\E q \in S \cup {o} : x \in {q} \X (1..Items[q][p]))
            <=> (\E q \in S : x \in {q} \X (1..Items[q][p])) \/ x \in {o} \X (1..Items[o][p])
      BY Zenon
    <3> QED BY <3>1, UnitsMembers
  <2> HIDE DEF new
  <2> QED BY <2>1
<1>4. Units(S, p) \cap new = {}
  <2>1. ASSUME NEW x \in new, x \in Units(S, p) PROVE FALSE
    <3>1. PICK q \in S : x \in {q} \X (1..Items[q][p])
      BY <2>1, UnitsMembers
    <3>2. x[1] = q /\ x[1] = o
      BY <2>1, <3>1
    <3> QED BY <3>2
  <2> HIDE DEF new
  <2> QED BY <2>1
<1>5. Cardinality(Units(S, p)) \in Nat
  BY FS_CardinalityType
<1>6. Cardinality(Units(S, p) \cap new) = 0
  BY <1>4, FS_EmptySet
<1> HIDE DEF new
<1>7. /\ IsFiniteSet(Units(S, p) \cup new)
      /\ Cardinality(Units(S, p) \cup new)
           = Cardinality(Units(S, p)) + Cardinality(new) - Cardinality(Units(S, p) \cap new)
  BY <1>2, FS_Union
<1>8. Cardinality(Units(S, p) \cup new) = Cardinality(Units(S, p)) + Items[o][p]
  BY <1>1, <1>2, <1>5, <1>6, <1>7
<1> QED
  BY <1>3, <1>7, <1>8, Zenon

LEMMA UnitsOfOneLess ==
  ASSUME ConstantsAssumption, NEW p \in Products, NEW S \in SUBSET Orders, NEW o \in S,
         IsFiniteSet(Units(S, p))
  PROVE  /\ IsFiniteSet(Units(S \ {o}, p))
         /\ Cardinality(Units(S, p)) = Cardinality(Units(S \ {o}, p)) + Items[o][p]
<1>1. Units(S \ {o}, p) \subseteq Units(S, p)
  <2>1. ASSUME NEW x \in Units(S \ {o}, p) PROVE x \in Units(S, p)
    BY UnitsMembers
  <2> QED BY <2>1
<1>2. IsFiniteSet(Units(S \ {o}, p))
  BY <1>1, FS_Subset
<1>3. (S \ {o}) \cup {o} = S
  OBVIOUS
<1> QED
  BY <1>2, <1>3, UnitsOfOneMore

\* How a step moves the stock of p: with the holding orders, or not at all; an
\* interrupted sweep may drop what it had yet to return.
LEMMA HeldMoves ==
  ASSUME TypeOK, WebhookInv, SweepInv, UnplacedHoldsNothing, [LNext]_vars, NEW p \in Products
  PROVE  \/ HeldOrders(p)' = HeldOrders(p) /\ stock'[p] = stock[p] /\ (faults' = 0 => faults = 0)
         \/ \E o \in Orders \ HeldOrders(p) :
              HeldOrders(p)' = HeldOrders(p) \cup {o} /\ stock'[p] = stock[p] - Items[o][p] /\ faults' = faults
         \/ \E o \in HeldOrders(p) :
              HeldOrders(p)' = HeldOrders(p) \ {o} /\ stock'[p] = stock[p] + Items[o][p] /\ faults' = faults
         \/ \E o \in HeldOrders(p) :
              HeldOrders(p)' = HeldOrders(p) \ {o} /\ stock'[p] = stock[p] /\ faults' # 0
<1>1. OrderType /\ ReservationType /\ StockType
  BY DEF TypeOK, OrderType, ReservationType, StockType
\* Outside the sweeper, what a sweep has yet to return is untouched.
<1>2. ASSUME sweeper' = sweeper
      PROVE  \A o \in Orders : Held(o, p)' <=> reservation'[o][p] \in Active \/ BeingReturned(o, p)
  BY <1>2 DEF Held, BeingReturned
<1>3. ASSUME NEW o \in Orders, BeingReturned(o, p) PROVE reservation[o][p] \notin Active /\ Placed(o)
  BY <1>1, <1>3, OrderFields DEF BeingReturned, SweepInv
<1>4. ASSUME NEW o \in Orders, Checkout(o)
      PROVE  \/ HeldOrders(p)' = HeldOrders(p) /\ stock'[p] = stock[p] /\ faults' = faults
             \/ /\ o \in Orders \ HeldOrders(p) /\ HeldOrders(p)' = HeldOrders(p) \cup {o}
                /\ stock'[p] = stock[p] - Items[o][p] /\ faults' = faults
  <2>1. /\ sweeper' = sweeper /\ faults' = faults /\ stock'[p] = stock[p] - Items[o][p] /\ ~Placed(o)
        /\ reservation'[o][p] = IF Items[o][p] > 0 THEN "reserved" ELSE "none"
        /\ \A q \in Orders \ {o} : reservation'[q] = reservation[q]
    BY <1>1, <1>4 DEF Checkout, ReservationType
  <2>2. reservation[o][p] = "none" /\ ~BeingReturned(o, p)
    BY <1>3, <2>1 DEF UnplacedHoldsNothing
  <2>3. \A q \in Orders \ {o} : Held(q, p)' <=> Held(q, p)
    BY <1>2, <2>1 DEF Held
  <2>4. ~Held(o, p) /\ (Held(o, p)' <=> Items[o][p] > 0)
    BY <1>2, <2>1, <2>2 DEF Held, Active
  <2>5. Items[o][p] \in Nat /\ stock[p] \in Nat
    BY <1>1, ConstantsAssumption DEF ConstantsAssumption, StockType
  <2> QED BY <2>1, <2>3, <2>4, <2>5 DEF HeldOrders
<1>5. ASSUME NEW o \in Orders, ReleaseOrderReservations(o, "released"), sweeper' = sweeper, faults' = faults
      PROVE  \/ HeldOrders(p)' = HeldOrders(p) /\ stock'[p] = stock[p]
             \/ /\ o \in HeldOrders(p) /\ HeldOrders(p)' = HeldOrders(p) \ {o}
                /\ stock'[p] = stock[p] + Items[o][p]
  <2>1. /\ reservation'[o][p] = IF reservation[o][p] \in Active THEN "released" ELSE reservation[o][p]
        /\ \A q \in Orders \ {o} : reservation'[q] = reservation[q]
        /\ stock'[p] = stock[p] + IF reservation[o][p] \in Active THEN Items[o][p] ELSE 0
    BY <1>1, <1>5, ReleaseEffect, ConstantsAssumption
  <2>2. \A q \in Orders \ {o} : Held(q, p)' <=> Held(q, p)
    BY <1>2, <1>5, <2>1 DEF Held
  <2>3. stock[p] \in Nat
    BY <1>1 DEF StockType
  <2>4. CASE reservation[o][p] \in Active
    <3>1. Held(o, p) /\ ~Held(o, p)'
      BY <1>2, <1>3, <1>5, <2>1, <2>4 DEF Held, Active
    <3> QED BY <2>1, <2>2, <2>4, <3>1 DEF HeldOrders
  <2>5. CASE reservation[o][p] \notin Active
    <3>1. Held(o, p)' <=> Held(o, p)
      BY <1>2, <1>5, <2>1, <2>5 DEF Held
    <3> QED BY <2>1, <2>2, <2>3, <2>5, <3>1 DEF HeldOrders
  <2> QED BY <2>4, <2>5
<1>6. ASSUME NEW o \in Orders, CommitReservations(o), \A q \in Orders : BeingReturned(q, p)' <=> BeingReturned(q, p)
      PROVE  HeldOrders(p)' = HeldOrders(p) /\ stock'[p] = stock[p]
  BY <1>1, <1>6, CommitEffect DEF HeldOrders, Held
<1>7. ASSUME reservation' = reservation, stock' = stock, \A q \in Orders : BeingReturned(q, p)' <=> BeingReturned(q, p)
      PROVE  HeldOrders(p)' = HeldOrders(p) /\ stock'[p] = stock[p]
  BY <1>7 DEF HeldOrders, Held
<1>8. ASSUME NEW s \in Sweepers, NEW r \in Products, ReleaseReservation(s, r)
      PROVE  HeldOrders(p)' = HeldOrders(p) /\ stock'[p] = stock[p] /\ faults' = faults
  <2> DEFINE o == sweeper[s].order
  <2>1. /\ o \in Orders /\ stock' = stock /\ faults' = faults /\ sweeper[s].pc # "return"
        /\ \A t \in Sweepers \ {s} : sweeper'[t] = sweeper[t]
    BY <1>8 DEF ReleaseReservation, TypeOK, Sweeps, NoSweep, ChangesOnlySweeper
  <2>2. CASE reservation[o][r] \in Active
    <3>1. /\ sweeper'[s].pc = "return" /\ sweeper'[s].order = o /\ sweeper'[s].item = r
          /\ reservation'[o][r] = "expired"
          /\ \A q \in Orders, i \in Products : (q # o \/ i # r) => reservation'[q][i] = reservation[q][i]
      BY <1>1, <1>8, <2>1, <2>2 DEF ReleaseReservation, ReservationType, TypeOK
    <3>2. ASSUME NEW q \in Orders PROVE BeingReturned(q, p)' <=> BeingReturned(q, p) \/ (q = o /\ p = r)
      BY <2>1, <3>1 DEF BeingReturned
    <3>3. ASSUME NEW q \in Orders PROVE Held(q, p)' <=> Held(q, p)
      BY <2>2, <3>1, <3>2 DEF Held, Active
    <3> QED BY <2>1, <3>3 DEF HeldOrders
  <2>3. CASE reservation[o][r] \notin Active
    <3>1. reservation' = reservation /\ sweeper'[s].pc = "release"
      BY <1>8, <2>3 DEF ReleaseReservation, TypeOK
    <3>2. ASSUME NEW q \in Orders PROVE BeingReturned(q, p)' <=> BeingReturned(q, p)
      BY <2>1, <3>1 DEF BeingReturned
    <3> QED BY <1>7, <2>1, <3>1, <3>2
  <2> QED BY <2>2, <2>3
\* The sweep is alone in returning what it has in hand.
<1>9. ASSUME NEW s \in Sweepers, sweeper[s].pc = "return", sweeper'[s].pc # "return", reservation' = reservation,
             \A t \in Sweepers \ {s} : sweeper'[t] = sweeper[t]
      PROVE  /\ sweeper[s].item = p => /\ sweeper[s].order \in HeldOrders(p)
                                        /\ HeldOrders(p)' = HeldOrders(p) \ {sweeper[s].order}
             /\ sweeper[s].item # p => HeldOrders(p)' = HeldOrders(p)
  <2> DEFINE o == sweeper[s].order
  <2>1. o \in Orders /\ reservation[o][sweeper[s].item] \notin Active
    BY <1>9 DEF TypeOK, Sweeps, NoSweep, SweepInv
  <2>2. ASSUME NEW q \in Orders
        PROVE  BeingReturned(q, p)' <=> BeingReturned(q, p) /\ ~(q = o /\ p = sweeper[s].item)
    BY <1>9 DEF BeingReturned, SweepInv
  <2>3. p = sweeper[s].item => BeingReturned(o, p)
    BY <1>9 DEF BeingReturned
  <2>4. ASSUME NEW q \in Orders
        PROVE  Held(q, p)' <=> Held(q, p) /\ ~(q = o /\ p = sweeper[s].item)
    BY <1>9, <2>1, <2>2 DEF Held
  <2> QED BY <2>1, <2>3, <2>4 DEF HeldOrders, Held
<1>10. ASSUME NEW s \in Sweepers, ReturnStock(s)
       PROVE  \/ HeldOrders(p)' = HeldOrders(p) /\ stock'[p] = stock[p] /\ faults' = faults
              \/ /\ sweeper[s].order \in HeldOrders(p)
                 /\ HeldOrders(p)' = HeldOrders(p) \ {sweeper[s].order}
                 /\ stock'[p] = stock[p] + Items[sweeper[s].order][p] /\ faults' = faults
  <2>1. /\ sweeper[s].pc = "return" /\ sweeper'[s].pc # "return" /\ reservation' = reservation /\ faults' = faults
        /\ \A t \in Sweepers \ {s} : sweeper'[t] = sweeper[t]
        /\ stock'[p] = stock[p] + IF sweeper[s].item = p THEN Items[sweeper[s].order][p] ELSE 0
    BY <1>1, <1>10 DEF ReturnStock, TypeOK, StockType, ChangesOnlySweeper
  <2>2. stock[p] \in Nat
    BY <1>1 DEF StockType
  <2> QED BY <1>9, <2>1, <2>2
<1>11. ASSUME NEW s \in Sweepers, InterruptSweep(s)
       PROVE  /\ stock'[p] = stock[p] /\ faults' # 0
              /\ \/ HeldOrders(p)' = HeldOrders(p)
                 \/ /\ sweeper[s].order \in HeldOrders(p)
                    /\ HeldOrders(p)' = HeldOrders(p) \ {sweeper[s].order}
  <2>1. /\ sweeper'[s].pc # "return" /\ reservation' = reservation /\ stock' = stock /\ faults' # 0
        /\ \A t \in Sweepers \ {s} : sweeper'[t] = sweeper[t]
    BY <1>11, ConstantsAssumption DEF InterruptSweep, TypeOK, NoSweep, ConstantsAssumption
  <2>2. CASE sweeper[s].pc = "return"
    BY <1>9, <2>1, <2>2
  <2>3. CASE sweeper[s].pc # "return"
    <3>1. \A q \in Orders : BeingReturned(q, p)' <=> BeingReturned(q, p)
      BY <2>1, <2>3 DEF BeingReturned
    <3> QED BY <1>7, <2>1, <3>1
  <2> QED BY <2>2, <2>3
<1>12. ASSUME NEW s \in Sweepers, SweepStep(s), ~ReturnStock(s), ~\E r \in Products : ReleaseReservation(s, r)
       PROVE  HeldOrders(p)' = HeldOrders(p) /\ stock'[p] = stock[p] /\ faults' = faults
  <2>1. /\ sweeper[s].pc # "return" /\ sweeper'[s].pc # "return" /\ faults' = faults
        /\ \A t \in Sweepers \ {s} : sweeper'[t] = sweeper[t]
    BY <1>12 DEF SweepStep, FindExpired, CancelExpired, LookAtOrder, CommitExpired, ListReservations,
                 OrderSwept, SweepDone, ChangesOnlySweeper, TypeOK, NoSweep
  <2>2. \A q \in Orders : BeingReturned(q, p)' <=> BeingReturned(q, p)
    BY <2>1 DEF BeingReturned
  <2>3. CASE CommitExpired(s)
    <3>1. sweeper[s].order \in Orders
      BY <2>3 DEF CommitExpired, TypeOK, Sweeps, NoSweep
    <3> QED BY <1>6, <2>1, <2>2, <2>3, <3>1 DEF CommitExpired
  <2>4. CASE ~CommitExpired(s)
    <3>1. reservation' = reservation /\ stock' = stock
      BY <1>12, <2>4 DEF SweepStep, FindExpired, CancelExpired, LookAtOrder, ListReservations, OrderSwept, SweepDone
    <3> QED BY <1>7, <2>1, <2>2, <3>1
  <2> QED BY <2>3, <2>4
<1>13. ASSUME NEW h \in Handlers, WebhookStep(h)
       PROVE  \/ HeldOrders(p)' = HeldOrders(p) /\ stock'[p] = stock[p] /\ faults' = faults
              \/ \E o \in HeldOrders(p) :
                   HeldOrders(p)' = HeldOrders(p) \ {o} /\ stock'[p] = stock[p] + Items[o][p] /\ faults' = faults
  <2>1. sweeper' = sweeper /\ faults' = faults
    BY <1>13 DEF WebhookStep, FindEvent, FindOrder, ApplyWebhook, RejectWebhook
  <2>2. \A q \in Orders : BeingReturned(q, p)' <=> BeingReturned(q, p)
    BY <2>1 DEF BeingReturned
  <2>3. CASE ApplyWebhook(h)
    <3>1. handler[h].msg.order \in Orders
      BY <2>3, ConstantsAssumption DEF ApplyWebhook, TypeOK, WebhookRequests, NoWebhook, ConstantsAssumption
    <3> QED BY <1>5, <1>6, <2>1, <2>2, <2>3, <3>1 DEF ApplyWebhook
  <2>4. CASE ~ApplyWebhook(h)
    BY <1>7, <1>13, <2>1, <2>2, <2>4 DEF WebhookStep, FindEvent, FindOrder, RejectWebhook
  <2> QED BY <2>3, <2>4
<1>14. ASSUME NEW o \in Orders, OrderRequest(o) \/ PaymentWindowPasses(o), ~Checkout(o)
       PROVE  \/ HeldOrders(p)' = HeldOrders(p) /\ stock'[p] = stock[p] /\ faults' = faults
              \/ o \in HeldOrders(p) /\ HeldOrders(p)' = HeldOrders(p) \ {o}
                 /\ stock'[p] = stock[p] + Items[o][p] /\ faults' = faults
  <2>1. sweeper' = sweeper /\ faults' = faults
    BY <1>14 DEF OrderRequest, CancelOrder, RequestRefundOf, ReadShippable, AdvanceOrder, PaymentWindowPasses
  <2>2. \A q \in Orders : BeingReturned(q, p)' <=> BeingReturned(q, p)
    BY <2>1 DEF BeingReturned
  <2>3. CASE CancelOrder(o)
    BY <1>5, <2>1, <2>3 DEF CancelOrder
  <2>4. CASE ~CancelOrder(o)
    BY <1>7, <1>14, <2>1, <2>2, <2>4 DEF OrderRequest, RequestRefundOf, ReadShippable, AdvanceOrder, PaymentWindowPasses
  <2> QED BY <2>3, <2>4
<1>15. CASE UNCHANGED vars
  <2>1. \A q \in Orders : BeingReturned(q, p)' <=> BeingReturned(q, p)
    BY <1>15 DEF vars, BeingReturned
  <2> QED BY <1>7, <1>15, <2>1 DEF vars
<1> QED
  BY <1>4, <1>8, <1>10, <1>11, <1>12, <1>13, <1>14, <1>15 DEF LNext

\* The held units are finitely many and, with the stock, make up the supply.
StockInv ==
  \A p \in Products :
    /\ IsFiniteSet(HeldUnits(p))
    /\ stock[p] + Cardinality(HeldUnits(p)) <= Supply[p]
    /\ faults = 0 => stock[p] + Cardinality(HeldUnits(p)) = Supply[p]

LEMMA StockInvStep ==
  ASSUME TypeOK, TypeOK', WebhookInv, SweepInv, UnplacedHoldsNothing, StockInv, [LNext]_vars
  PROVE  StockInv'
<1> SUFFICES ASSUME NEW p \in Products
             PROVE  /\ IsFiniteSet(HeldUnits(p)')
                    /\ stock'[p] + Cardinality(HeldUnits(p)') <= Supply[p]
                    /\ faults' = 0 => stock'[p] + Cardinality(HeldUnits(p)') = Supply[p]
  BY DEF StockInv
<1> DEFINE H == HeldOrders(p)
<1>1. HeldUnits(p) = Units(H, p) /\ HeldUnits(p)' = Units(HeldOrders(p)', p) /\ H \in SUBSET Orders
  BY DEF HeldUnits, HeldOrders, Units
<1>2. /\ IsFiniteSet(Units(H, p)) /\ Cardinality(Units(H, p)) \in Nat
      /\ stock[p] + Cardinality(Units(H, p)) <= Supply[p]
      /\ faults = 0 => stock[p] + Cardinality(Units(H, p)) = Supply[p]
  BY <1>1, FS_CardinalityType DEF StockInv
<1>3. stock[p] \in Nat /\ stock'[p] \in Nat /\ Supply[p] \in Nat
  BY ConstantsAssumption DEF TypeOK, ConstantsAssumption
<1>4. \A o \in Orders : Items[o][p] \in Nat
  BY ConstantsAssumption DEF ConstantsAssumption
<1> HIDE DEF H
<1>5. CASE HeldOrders(p)' = H /\ stock'[p] = stock[p] /\ (faults' = 0 => faults = 0)
  BY <1>1, <1>2, <1>5
<1>6. ASSUME NEW o \in Orders \ H, HeldOrders(p)' = H \cup {o}, stock'[p] = stock[p] - Items[o][p], faults' = faults
      PROVE  /\ IsFiniteSet(HeldUnits(p)')
             /\ stock'[p] + Cardinality(HeldUnits(p)') <= Supply[p]
             /\ faults' = 0 => stock'[p] + Cardinality(HeldUnits(p)') = Supply[p]
  <2>1. IsFiniteSet(Units(H \cup {o}, p)) /\ Cardinality(Units(H \cup {o}, p)) = Cardinality(Units(H, p)) + Items[o][p]
    BY <1>1, <1>2, UnitsOfOneMore, ConstantsAssumption
  <2> QED BY <1>1, <1>2, <1>3, <1>4, <1>6, <2>1
<1>7. ASSUME NEW o \in H, HeldOrders(p)' = H \ {o},
             \/ stock'[p] = stock[p] + Items[o][p] /\ faults' = faults
             \/ stock'[p] = stock[p] /\ faults' # 0
      PROVE  /\ IsFiniteSet(HeldUnits(p)')
             /\ stock'[p] + Cardinality(HeldUnits(p)') <= Supply[p]
             /\ faults' = 0 => stock'[p] + Cardinality(HeldUnits(p)') = Supply[p]
  <2>1. /\ IsFiniteSet(Units(H \ {o}, p)) /\ Cardinality(Units(H \ {o}, p)) \in Nat
        /\ Cardinality(Units(H, p)) = Cardinality(Units(H \ {o}, p)) + Items[o][p]
    BY <1>1, <1>2, UnitsOfOneLess, FS_CardinalityType, ConstantsAssumption
  <2>2. Items[o][p] \in Nat
    BY <1>1, <1>4
  <2> QED BY <1>1, <1>2, <1>3, <1>7, <2>1, <2>2
<1> QED
  BY <1>5, <1>6, <1>7, HeldMoves DEF H
-----------------------------------------------------------------------------
(* The theorems. *)

IInv ==
  /\ TypeOK
  /\ WebhookInv
  /\ SweepInv
  /\ UnplacedHoldsNothing
  /\ StockInv
  /\ LiveOrderHoldsStock
  /\ CancelledPaymentIsRefunded

LEMMA InitIInv == LInit => IInv
<1> SUFFICES ASSUME LInit PROVE IInv
  OBVIOUS
<1>1. TypeOK
  BY InitType
<1>2. \A o \in Orders : ~Placed(o) /\ order[o].status = "absent"
  BY DEF LInit, Init, Placed, Absent
<1>3. WebhookInv /\ SweepInv
  BY DEF LInit, WebhookInv, SweepInv, NoWebhook, NoSweep
<1>4. UnplacedHoldsNothing
  BY DEF LInit, UnplacedHoldsNothing
<1>5. LiveOrderHoldsStock /\ CancelledPaymentIsRefunded
  BY <1>2 DEF LiveOrderHoldsStock, CancelledPaymentIsRefunded
<1>6. StockInv
  <2>1. ASSUME NEW p \in Products PROVE HeldUnits(p) = {}
    <3>1. \A o \in Orders : ~Held(o, p)
      BY DEF LInit, Held, BeingReturned, NoSweep, Active
    <3>2. HeldUnits(p) = Units({}, p)
      BY <3>1 DEF HeldUnits
    <3> QED BY <3>2, UnitsMembers
  <2>2. \A p \in Products : stock[p] = Supply[p] /\ Supply[p] \in Nat
    BY ConstantsAssumption DEF LInit, ConstantsAssumption
  <2> QED BY <2>1, <2>2, FS_EmptySet DEF StockInv
<1> QED
  BY <1>1, <1>3, <1>4, <1>5, <1>6 DEF IInv

LEMMA NextIInv == IInv /\ [LNext]_vars => IInv'
<1> SUFFICES ASSUME IInv, [LNext]_vars PROVE IInv'
  OBVIOUS
<1>1. TypeOK'
  BY NextType DEF IInv
<1> QED
  BY <1>1, WebhookInvStep, SweepInvStep, UnplacedStep, StockInvStep, LiveStep, CancelledStep DEF IInv

\* The inductive invariant holds: the theorems below are its parts.
THEOREM Invariance == LSpec => []IInv
  BY InitIInv, NextIInv, PTL DEF LSpec

\* No interleaving of checkouts, cancels, webhooks and sweeps returns stock twice, and only an
\* interrupted sweep loses any: stock and held units add up to the supply of every product.
THEOREM StockIsAccountedFor == LSpec => []StockAccounted
<1>1. IInv => StockAccounted
  BY DEF IInv, StockInv, StockAccounted
<1> QED
  BY <1>1, Invariance, PTL

\* The stock of an order that goes on is never given away by expiry or by another order's failure.
THEOREM LiveOrdersKeepTheirStock == LSpec => []LiveOrderHoldsStock
<1>1. IInv => LiveOrderHoldsStock
  BY DEF IInv
<1> QED
  BY <1>1, Invariance, PTL

\* SEC-05: a payment on a cancelled order always has its refund open.
THEOREM CancelledPaymentsAreRefunded == LSpec => []CancelledPaymentIsRefunded
<1>1. IInv => CancelledPaymentIsRefunded
  BY DEF IInv
<1> QED
  BY <1>1, Invariance, PTL

\* Every interleaving of the handlers moves every order as the order machine allows.
THEOREM LifecycleImplementsMachine == LSpec => ImplementsOrderMachine
<1>1. LInit => Init
  BY DEF LInit
<1>2. IInv /\ [LNext]_vars => [Next]_order
  BY StepImplements DEF IInv
<1> QED
  BY <1>1, <1>2, Invariance, PTL DEF LSpec, ImplementsOrderMachine, Spec

-----------------------------------------------------------------------------
(* What was recorded of the payments. *)

\* The history of o tells of the payment state st, unless an order starts in it.
Told(o, st) == st \in {"unpaid", "absent"} \/ \E i \in DOMAIN history[o] : history[o][i].to = st

\* The history tells of the state an order is in, and of the one a webhook read it in:
\* so a webhook that finds nothing to move has nothing to add.
HistoryInv ==
  /\ history \in [Orders -> Seq([from : PaymentStatuses, to : PaymentStatuses])]
  /\ \A o \in Orders : Told(o, order[o].paymentStatus)
  /\ \A h \in Handlers : handler[h].pc = "apply" => Told(handler[h].msg.order, handler[h].paymentStatus)
  /\ RecordedPaymentTookEffect

\* An entry added at the end hides none.
LEMMA OneMoreEntry ==
  ASSUME NEW S, NEW s \in Seq(S), NEW e \in S
  PROVE  /\ s \o <<e>> \in Seq(S)
         /\ \A i \in DOMAIN s : i \in DOMAIN (s \o <<e>>) /\ (s \o <<e>>)[i] = s[i]
         /\ \E i \in DOMAIN (s \o <<e>>) : (s \o <<e>>)[i] = e
<1> DEFINE t == s \o <<e>>
<1>1. t \in Seq(S) /\ Len(s) \in Nat /\ Len(t) = Len(s) + 1 /\ DOMAIN s = 1..Len(s) /\ DOMAIN t = 1..Len(t)
  OBVIOUS
<1>2. \A i \in 1..Len(s) : t[i] = s[i]
  OBVIOUS
<1>3. t[Len(s) + 1] = e
  OBVIOUS
<1> HIDE DEF t
<1>4. Len(s) + 1 \in DOMAIN t /\ \A i \in DOMAIN s : i \in DOMAIN t
  BY <1>1
<1>5. (\E i \in DOMAIN t : t[i] = e) /\ \A i \in DOMAIN s : i \in DOMAIN t /\ t[i] = s[i]
  BY <1>1, <1>2, <1>3, <1>4
<1> QED BY <1>1, <1>5 DEF t

\* No request, shipment or sweep settles a payment: only a webhook does.
LEMMA PaymentIsKept ==
  ASSUME TypeOK, [LNext]_vars, ~\E h \in Handlers : WebhookStep(h), NEW o \in Orders
  PROVE  order'[o].paymentStatus \in {order[o].paymentStatus, "unpaid"}
<1>1. OrderType
  BY DEF TypeOK, OrderType
<1>2. ASSUME NEW q \in Orders, Placed(q),
             \E st \in Statuses, ref \in RefundStatuses : SetOrder(q, st, order[q].paymentStatus, ref)
      PROVE  order'[o].paymentStatus = order[o].paymentStatus
  <2>1. PICK st \in Statuses, pay \in PaymentStatuses, ref \in RefundStatuses :
          pay = order[q].paymentStatus /\ SetOrder(q, st, pay, ref)
    BY <1>1, <1>2, OrderFields
  <2>2. order'[q].paymentStatus = pay /\ \A r \in Orders \ {q} : order'[r] = order[r]
    BY <1>1, <2>1, SetOrderEffect
  <2> QED BY <2>1, <2>2
<1>3. ASSUME NEW q \in Orders, Placed(q), NEW st \in Statuses, SetStatus(q, st)
      PROVE  order'[o].paymentStatus = order[o].paymentStatus
  <2>1. order[q].refundStatus \in RefundStatuses
    BY <1>1, <1>3, OrderFields
  <2> QED BY <1>2, <1>3, <2>1 DEF SetStatus
<1>4. ASSUME NEW q \in Orders, OrderRequest(q)
      PROVE  order'[o].paymentStatus \in {order[o].paymentStatus, "unpaid"}
  <2>1. CASE Checkout(q)
    BY <1>1, <2>1, SetOrderEffect DEF Checkout, Statuses, PaymentStatuses, RefundStatuses
  <2>2. CASE CancelOrder(q)
    BY <1>2, <1>3, <2>2 DEF CancelOrder, Statuses, RefundStatuses
  <2>3. CASE RequestRefundOf(q)
    <3>1. order[q].status \in Statuses
      BY <1>1, <2>3, OrderFields DEF RequestRefundOf
    <3> QED BY <1>2, <2>3, <3>1 DEF RequestRefundOf, RefundStatuses
  <2>4. CASE AdvanceOrder(q)
    <3>1. CASE UNCHANGED order
      BY <3>1
    <3>2. ASSUME NEW rank \in 1..4, NEW r \in 1..(rank - 1), order[q].status = STATUS_FOR_RANK[r],
                 SetStatus(q, STATUS_FOR_RANK[rank])
          PROVE  order'[o].paymentStatus = order[o].paymentStatus
      <4>1. STATUS_FOR_RANK[rank] \in Statuses /\ STATUS_FOR_RANK[r] # "absent"
        BY DEF STATUS_FOR_RANK, Statuses
      <4>2. Placed(q)
        BY <3>2, <4>1 DEF Placed, Absent
      <4> QED BY <1>3, <3>2, <4>1, <4>2
    <3> QED BY <2>4, <3>1, <3>2 DEF AdvanceOrder
  <2> QED BY <1>4, <2>1, <2>2, <2>3, <2>4 DEF OrderRequest, ReadShippable
<1>5. ASSUME NEW s \in Sweepers, NEW q \in Orders, CancelExpired(s, q)
      PROVE  order'[o].paymentStatus = order[o].paymentStatus
  <2>1. order[q].status = "pending" => Placed(q)
    BY DEF Placed, Absent
  <2> QED BY <1>3, <1>5, <2>1 DEF CancelExpired, Statuses
<1>6. CASE UNCHANGED order
  BY <1>6
<1> QED
  BY <1>4, <1>5, <1>6 DEF LNext, vars, PaymentWindowPasses, InterruptSweep, SweepStep, FindExpired, LookAtOrder,
     CommitExpired, ListReservations, ReleaseReservation, ReturnStock, OrderSwept, SweepDone

LEMMA HistoryKept ==
  ASSUME HistoryInv, UNCHANGED <<history, payments>>,
         \A o \in Orders : Told(o, order'[o].paymentStatus),
         \A h \in Handlers : handler'[h].pc = "apply" => Told(handler'[h].msg.order, handler'[h].paymentStatus)
  PROVE  HistoryInv'
  BY DEF HistoryInv, RecordedPaymentTookEffect, Told

LEMMA HistoryWebhookStep ==
  ASSUME TypeOK, HistoryInv, NEW h \in Handlers, WebhookStep(h)
  PROVE  HistoryInv'
<1>1. OrderType /\ handler \in [Handlers -> WebhookRequests]
  BY DEF TypeOK, OrderType
<1>2. CASE (\E m \in Webhooks : FindEvent(h, m)) \/ RejectWebhook(h)
  <2>1. UNCHANGED <<order, history, payments>>
    BY <1>2 DEF FindEvent, RejectWebhook
  <2>2. \A k \in Handlers : handler'[k].pc = "apply" => handler'[k] = handler[k]
    BY <1>1, <1>2 DEF FindEvent, RejectWebhook, NoWebhook
  <2> QED BY <2>1, <2>2, HistoryKept DEF HistoryInv
<1>3. CASE FindOrder(h)
  <2>1. UNCHANGED <<order, history, payments>> /\ handler[h].msg \in Webhooks /\ handler[h].msg.order \in Orders
    BY <1>1, <1>3, ConstantsAssumption DEF FindOrder, WebhookRequests, NoWebhook, ConstantsAssumption
  <2>2. \A k \in Handlers \ {h} : handler'[k] = handler[k]
    BY <1>1, <1>3 DEF FindOrder
  <2>3. handler'[h].pc = "apply" =>
          /\ handler'[h].msg = handler[h].msg
          /\ handler'[h].paymentStatus = order[handler[h].msg.order].paymentStatus
    BY <1>1, <1>3 DEF FindOrder, NoWebhook
  <2>4. \A k \in Handlers : handler'[k].pc = "apply" => Told(handler'[k].msg.order, handler'[k].paymentStatus)
    BY <2>1, <2>2, <2>3 DEF HistoryInv
  <2> QED BY <2>1, <2>4, HistoryKept DEF HistoryInv
<1>4. CASE ApplyWebhook(h)
  <2>1. PICK m \in Webhooks, o \in Orders, st \in PaymentStatuses :
          m = handler[h].msg /\ o = m.order /\ st = handler[h].paymentStatus /\ m.to \in {"paid", "failed", "refunded"}
    BY <1>1, <1>4, ConstantsAssumption DEF ApplyWebhook, WebhookRequests, NoWebhook, ConstantsAssumption
  <2>2. /\ payments' = payments \cup {m} /\ TransitionOrder(o, handler[h], m.to) /\ Told(o, st)
        /\ \A k \in Handlers : handler'[k].pc = "apply" => handler'[k] = handler[k]
    BY <1>1, <1>4, <2>1 DEF ApplyWebhook, HistoryInv, NoWebhook
  <2>3. CASE st = m.to
    <3>1. UNCHANGED <<order, history>> /\ \E i \in DOMAIN history[o] : history[o][i].to = m.to
      BY <2>1, <2>2, <2>3 DEF TransitionOrder, Told
    <3>2. RecordedPaymentTookEffect'
      BY <2>1, <2>2, <3>1 DEF HistoryInv, RecordedPaymentTookEffect
    <3>3. \A k \in Handlers : handler'[k].pc = "apply" => Told(handler'[k].msg.order, handler'[k].paymentStatus)
      BY <2>2 DEF HistoryInv
    <3> QED BY <3>1, <3>2, <3>3 DEF HistoryInv, Told
  <2>4. CASE st # m.to
    <3> DEFINE E == [from : PaymentStatuses, to : PaymentStatuses]
               Tells(q, s) == s \in {"unpaid", "absent"} \/ \E i \in DOMAIN history'[q] : history'[q][i].to = s
    <3>1. PICK e \in E : e = [from |-> st, to |-> m.to] /\ e.to = m.to
      <4>1. m.to \in PaymentStatuses
        BY <2>1 DEF PaymentStatuses
      <4>2. [from |-> st, to |-> m.to] \in E /\ [from |-> st, to |-> m.to].to = m.to
        BY <4>1
      <4> QED BY <4>2
    <3>2. history \in [Orders -> Seq(E)] /\ history' = [history EXCEPT ![o] = history[o] \o <<e>>]
      <4>1. history \in [Orders -> Seq(E)]
        BY DEF HistoryInv
      <4>2. history' = [history EXCEPT ![o] = @ \o <<[from |-> st, to |-> m.to]>>]
        BY <2>1, <2>2, <2>4 DEF TransitionOrder
      <4> HIDE DEF E
      <4> QED BY <3>1, <4>1, <4>2
    <3> HIDE DEF E
    <3>3. PICK longer \in Seq(E) : /\ longer = history[o] \o <<e>>
                                   /\ \A i \in DOMAIN history[o] : i \in DOMAIN longer /\ longer[i] = history[o][i]
                                   /\ \E i \in DOMAIN longer : longer[i] = e
      <4>1. PICK before \in Seq(E) : before = history[o]
        BY <3>2
      <4>2. /\ before \o <<e>> \in Seq(E)
            /\ \A i \in DOMAIN before : i \in DOMAIN (before \o <<e>>) /\ (before \o <<e>>)[i] = before[i]
            /\ \E i \in DOMAIN (before \o <<e>>) : (before \o <<e>>)[i] = e
        BY <3>1, OneMoreEntry
      <4> QED BY <4>1, <4>2
    <3>4. /\ history' \in [Orders -> Seq(E)] /\ history'[o] = longer
          /\ \A q \in Orders : q # o => history'[q] = history[q]
      <4>1. history' = [history EXCEPT ![o] = longer]
        BY <3>2, <3>3
      <4> QED BY <3>2, <4>1
    <3>5. \A q \in Orders : \A i \in DOMAIN history[q] : i \in DOMAIN history'[q] /\ history'[q][i] = history[q][i]
      BY <3>3, <3>4
    <3>6. \E i \in DOMAIN history'[o] : history'[o][i].to = m.to
      BY <3>1, <3>3, <3>4
    <3>7. order'[o].paymentStatus = m.to /\ \A q \in Orders : q # o => order'[q] = order[q]
      BY <1>1, <2>1, <2>2, <2>4 DEF TransitionOrder, SetOrder, OrderType
    <3>8. \A q \in Orders : \A s : Told(q, s) => Tells(q, s)
      BY <3>5 DEF Told
    <3>9. RecordedPaymentTookEffect'
      <4> SUFFICES ASSUME NEW n \in payments \cup {m}
                   PROVE  \E i \in DOMAIN history'[n.order] : history'[n.order][i].to = n.to
        BY <2>2 DEF RecordedPaymentTookEffect
      <4>1. CASE n = m
        BY <2>1, <3>6, <4>1
      <4>2. CASE n \in payments
        <5>1. n.order \in Orders /\ \E i \in DOMAIN history[n.order] : history[n.order][i].to = n.to
          BY <4>2, ConstantsAssumption DEF HistoryInv, RecordedPaymentTookEffect, TypeOK, ConstantsAssumption
        <5> QED BY <3>5, <5>1
      <4> QED BY <4>1, <4>2
    <3>10. \A q \in Orders : Tells(q, order'[q].paymentStatus)
      <4> SUFFICES ASSUME NEW q \in Orders PROVE Tells(q, order'[q].paymentStatus)
        OBVIOUS
      <4>1. CASE q = o
        BY <3>6, <3>7, <4>1
      <4>2. CASE q # o
        <5>1. Told(q, order[q].paymentStatus) /\ order'[q] = order[q]
          BY <3>7, <4>2 DEF HistoryInv
        <5> HIDE DEF Tells
        <5> QED BY <3>8, <5>1
      <4> QED BY <4>1, <4>2
    <3>11. \A k \in Handlers : handler'[k].pc = "apply" => Tells(handler'[k].msg.order, handler'[k].paymentStatus)
      <4> SUFFICES ASSUME NEW k \in Handlers, handler[k].pc = "apply", handler'[k] = handler[k]
                   PROVE  Tells(handler[k].msg.order, handler[k].paymentStatus)
        BY <2>2
      <4>1. handler[k].msg.order \in Orders
        BY <1>1, ConstantsAssumption DEF WebhookRequests, NoWebhook, ConstantsAssumption
      <4>2. Told(handler[k].msg.order, handler[k].paymentStatus)
        BY DEF HistoryInv
      <4> HIDE DEF Tells
      <4> QED BY <3>8, <4>1, <4>2
    <3> QED BY <3>4, <3>9, <3>10, <3>11 DEF HistoryInv, E, Told
  <2> QED BY <2>3, <2>4
<1> QED
  BY <1>2, <1>3, <1>4 DEF WebhookStep

LEMMA HistoryStep ==
  ASSUME TypeOK, HistoryInv, [LNext]_vars
  PROVE  HistoryInv'
<1>1. CASE \E h \in Handlers : WebhookStep(h)
  BY <1>1, HistoryWebhookStep
<1>2. CASE ~\E h \in Handlers : WebhookStep(h)
  <2>1. UNCHANGED <<history, payments, handler>>
    BY <1>2 DEF LNext, vars, PaymentWindowPasses, InterruptSweep, SweepStep, FindExpired, CancelExpired, LookAtOrder,
       CommitExpired, ListReservations, ReleaseReservation, ReturnStock, OrderSwept, SweepDone, ChangesOnlySweeper,
       OrderRequest, Checkout, CancelOrder, RequestRefundOf, ReadShippable, AdvanceOrder
  <2>2. \A o \in Orders : Told(o, order'[o].paymentStatus)
    BY <1>2, PaymentIsKept DEF HistoryInv, Told
  <2> QED BY <2>1, <2>2, HistoryKept DEF HistoryInv
<1> QED
  BY <1>1, <1>2

\* A provider message that was recorded took effect, then or before: the webhook that finds its
\* order already in the state reported finds that state in the order's paymentStateHistory.
THEOREM RecordedPaymentsTookEffect == LSpec => []RecordedPaymentTookEffect
<1>1. LInit => HistoryInv
  <2> SUFFICES ASSUME LInit PROVE HistoryInv
    OBVIOUS
  <2>1. \A o \in Orders : history[o] = <<>> /\ order[o].paymentStatus = "absent"
    BY DEF LInit, Init, Absent
  <2>2. \A h \in Handlers : handler[h].pc = "idle"
    BY DEF LInit, NoWebhook
  <2>3. history \in [Orders -> Seq([from : PaymentStatuses, to : PaymentStatuses])]
    BY DEF LInit
  <2> QED BY <2>1, <2>2, <2>3 DEF HistoryInv, Told, RecordedPaymentTookEffect, LInit
<1>2. TypeOK /\ HistoryInv /\ [LNext]_vars => HistoryInv'
  BY HistoryStep
<1>3. HistoryInv => RecordedPaymentTookEffect
  BY DEF HistoryInv
<1> QED
  BY <1>1, <1>2, <1>3, TypeCorrect, PTL DEF LSpec

-----------------------------------------------------------------------------
(* Shipments *)

\* A least element exists in every nonempty set of ranks.
LEMMA LeastRank ==
  ASSUME NEW R \in SUBSET (1..4), R # {}
  PROVE  \E r \in R : \A q \in R : r <= q
<1>1. CASE 1 \in R
  BY <1>1
<1>2. CASE 1 \notin R /\ 2 \in R
  BY <1>2
<1>3. CASE 1 \notin R /\ 2 \notin R /\ 3 \in R
  BY <1>3
<1>4. CASE 1 \notin R /\ 2 \notin R /\ 3 \notin R /\ 4 \in R
  BY <1>4
<1>5. 1 \in R \/ 2 \in R \/ 3 \in R \/ 4 \in R
  <2>1. PICK r \in R : TRUE
    OBVIOUS
  <2>2. r = 1 \/ r = 2 \/ r = 3 \/ r = 4
    OBVIOUS
  <2> QED BY <2>2
<1> QED
  BY <1>1, <1>2, <1>3, <1>4, <1>5

LEMMA TheOrderExists == TheOrder \in Orders
  BY ShipmentsAssumption DEF TheOrder

\* How far an item is: by the shipment of its seller or that of the admin.
CoveredRank(s) == MaxRank(ORDER_RANK_FOR_SHIPMENT[shipment[Admin]], ORDER_RANK_FOR_SHIPMENT[shipment[s]])

\* The rank an update derives is that of the order's least advanced item.
LEMMA DerivedRank ==
  ASSUME shipment \in [Owners -> ShipmentStatuses \cup {"none"}]
  PROVE  /\ derivedOrderRank \in 1..4
         /\ \A s \in Sellers : CoveredRank(s) \in 1..4 /\ derivedOrderRank <= CoveredRank(s)
         /\ \E s \in Sellers : derivedOrderRank = CoveredRank(s)
<1> DEFINE R == {CoveredRank(s) : s \in Sellers}
<1>1. \A s \in ShipmentStatuses \cup {"none"} : ORDER_RANK_FOR_SHIPMENT[s] \in 1..4
  BY DEF ORDER_RANK_FOR_SHIPMENT
<1>2. \A s \in Sellers : CoveredRank(s) \in 1..4
  BY <1>1 DEF CoveredRank, MaxRank, Owners
<1>3. R \in SUBSET (1..4) /\ R # {}
  BY <1>2, ShipmentsAssumption
<1>4. \E r \in R : \A q \in R : r <= q
  <2> HIDE DEF R
  <2> QED BY <1>3, LeastRank
<1>5. \E r \in R : \A s \in Sellers : r <= CoveredRank(s)
  BY <1>4
<1>6. derivedOrderRank = CHOOSE r \in R : \A s \in Sellers : r <= CoveredRank(s)
  BY DEF derivedOrderRank, CoveredRank
<1>7. derivedOrderRank \in R /\ \A s \in Sellers : derivedOrderRank <= CoveredRank(s)
  <2> HIDE DEF R
  <2> QED BY <1>5, <1>6
<1> QED
  BY <1>2, <1>3, <1>7

\* FULFILMENT_RANK is the position of each status in the order of fulfilment.
LEMMA RankOfStatus ==
  /\ FULFILMENT_RANK["confirmed"] = 1 /\ FULFILMENT_RANK["processing"] = 2
  /\ FULFILMENT_RANK["shipped"] = 3 /\ FULFILMENT_RANK["delivered"] = 4
<1>1. /\ STATUS_FOR_RANK[1] = "confirmed" /\ STATUS_FOR_RANK[2] = "processing"
      /\ STATUS_FOR_RANK[3] = "shipped" /\ STATUS_FOR_RANK[4] = "delivered"
  BY DEF STATUS_FOR_RANK
<1>2. ASSUME NEW i \in 1..4
      PROVE  (CHOOSE r \in 1..4 : STATUS_FOR_RANK[r] = STATUS_FOR_RANK[i]) = i
  <2>1. \A r \in 1..4 : STATUS_FOR_RANK[r] = STATUS_FOR_RANK[i] => r = i
    BY <1>1
  <2> QED BY <2>1
<1> QED
  BY <1>1, <1>2 DEF FULFILMENT_RANK

\* A status ahead of another in the order of fulfilment is one its state machine may move to.
LEMMA AheadIsAllowed ==
  ASSUME NEW next \in 2..4, NEW r \in 1..(next - 1)
  PROVE  /\ STATUS_FOR_RANK[next] \in fulfilmentTransitions[STATUS_FOR_RANK[r]]
         /\ STATUS_FOR_RANK[next] \in Statuses
<1>1. /\ STATUS_FOR_RANK[1] = "confirmed" /\ STATUS_FOR_RANK[2] = "processing"
      /\ STATUS_FOR_RANK[3] = "shipped" /\ STATUS_FOR_RANK[4] = "delivered"
  BY DEF STATUS_FOR_RANK
<1>2. /\ fulfilmentTransitions["confirmed"] = {"processing", "shipped", "delivered", "cancelled"}
      /\ fulfilmentTransitions["processing"] = {"shipped", "delivered"}
      /\ fulfilmentTransitions["shipped"] = {"delivered"}
  BY DEF fulfilmentTransitions, Statuses
<1>3. \/ next = 2 /\ r = 1
      \/ next = 3 /\ r \in {1, 2}
      \/ next = 4 /\ r \in {1, 2, 3}
  OBVIOUS
<1> QED
  BY <1>1, <1>2, <1>3 DEF Statuses

\* SetOrder rewrites one order and keeps the documents well typed.
LEMMA WriteOrder ==
  ASSUME order \in [Orders -> OrderDocs], NEW st \in Statuses, NEW pay \in PaymentStatuses,
         NEW ref \in RefundStatuses, SetOrder(TheOrder, st, pay, ref)
  PROVE  order' \in [Orders -> OrderDocs] /\ status' = st
  BY TheOrderExists DEF SetOrder, OrderDocs, status

\* AdvanceFulfilment leaves the status alone, or moves it along the fulfilment machine.
LEMMA AdvanceEffect ==
  ASSUME STypeOK, NEW h \in Calls, AdvanceFulfilment(h)
  PROVE  /\ order' \in [Orders -> OrderDocs]
         /\ status' # status => status' \in fulfilmentTransitions[status]
<1> DEFINE next == upsert[h].next
<1>1. next \in 2..4
  BY DEF STypeOK, Upserts, Idle, AdvanceFulfilment
<1>2. CASE \E r \in 1..(next - 1) : status = STATUS_FOR_RANK[r]
  <2>1. PICK r \in 1..(next - 1) : status = STATUS_FOR_RANK[r]
    BY <1>2
  <2>2. STATUS_FOR_RANK[next] \in fulfilmentTransitions[status] /\ STATUS_FOR_RANK[next] \in Statuses
    BY <1>1, <2>1, AheadIsAllowed
  <2>3. SetOrder(TheOrder, STATUS_FOR_RANK[next], order[TheOrder].paymentStatus, order[TheOrder].refundStatus)
    BY <2>1 DEF AdvanceFulfilment, SetStatus
  <2>4. order[TheOrder].paymentStatus \in PaymentStatuses /\ order[TheOrder].refundStatus \in RefundStatuses
    BY TheOrderExists DEF STypeOK, OrderDocs
  <2>5. order' \in [Orders -> OrderDocs] /\ status' = STATUS_FOR_RANK[next]
    <3> HIDE DEF next
    <3> QED BY <2>2, <2>3, <2>4, WriteOrder DEF STypeOK
  <2> QED
    BY <2>2, <2>5
<1>3. CASE ~\E r \in 1..(next - 1) : status = STATUS_FOR_RANK[r]
  BY <1>3 DEF AdvanceFulfilment, STypeOK, status
<1> QED
  BY <1>2, <1>3

\* A cancel leaves an open status for "cancelled"; a refund leaves the status alone.
LEMMA CloseEffect ==
  ASSUME order \in [Orders -> OrderDocs], CloseOrder
  PROVE  /\ order' \in [Orders -> OrderDocs]
         /\ status' # status => status' \in fulfilmentTransitions[status]
<1>1. /\ order[TheOrder].status \in Statuses /\ order[TheOrder].paymentStatus \in PaymentStatuses
      /\ order[TheOrder].refundStatus \in RefundStatuses
  BY TheOrderExists DEF OrderDocs
<1>2. CASE Cancel(TheOrder)
  <2>1. status \in {"pending", "confirmed"}
    BY <1>2 DEF Cancel, CANCELLABLE_STATUSES, status
  <2>2. "cancelled" \in fulfilmentTransitions[status]
    BY <2>1 DEF fulfilmentTransitions, Statuses
  <2>3. \E ref \in RefundStatuses : SetOrder(TheOrder, "cancelled", order[TheOrder].paymentStatus, ref)
    BY <1>1, <1>2 DEF Cancel, SetStatus, RefundStatuses
  <2>4. order' \in [Orders -> OrderDocs] /\ status' = "cancelled"
    BY <1>1, <2>3, WriteOrder DEF Statuses
  <2> QED
    BY <2>2, <2>4
<1>3. CASE Refund(TheOrder)
  <2>1. SetOrder(TheOrder, status, "refunded", "processed")
    BY <1>3 DEF Refund, status
  <2>2. order' \in [Orders -> OrderDocs] /\ status' = status
    BY <1>1, <2>1, WriteOrder DEF PaymentStatuses, RefundStatuses, status
  <2> QED
    BY <2>2
<1> QED
  BY <1>2, <1>3 DEF CloseOrder

\* AdvanceFulfilment writes the status of the rank it carries, or over no status behind it leaves it.
LEMMA AdvanceStatus ==
  ASSUME STypeOK, NEW h \in Calls, AdvanceFulfilment(h)
  PROVE  IF \E r \in 1..(upsert[h].next - 1) : status = STATUS_FOR_RANK[r]
         THEN status' = STATUS_FOR_RANK[upsert[h].next] ELSE status' = status
<1>1. CASE \E r \in 1..(upsert[h].next - 1) : status = STATUS_FOR_RANK[r]
  BY <1>1, TheOrderExists DEF AdvanceFulfilment, SetStatus, SetOrder, STypeOK, status
<1>2. CASE ~\E r \in 1..(upsert[h].next - 1) : status = STATUS_FOR_RANK[r]
  BY <1>2 DEF AdvanceFulfilment, status
<1> QED
  BY <1>1, <1>2

LEMMA CloseStatus ==
  ASSUME order \in [Orders -> OrderDocs], CloseOrder
  PROVE  status' = status \/ status' = "cancelled"
  BY TheOrderExists DEF CloseOrder, Cancel, Refund, SetStatus, SetOrder, status

-----------------------------------------------------------------------------
LEMMA TypeInit == SInit => STypeOK
  BY ShipmentsAssumption DEF SInit, STypeOK, OrderDocs, Statuses, PaymentStatuses, RefundStatuses, Upserts, Idle

LEMMA TypeStep == STypeOK /\ [SNext]_svars => STypeOK'
<1> SUFFICES ASSUME STypeOK, [SNext]_svars PROVE STypeOK'
  OBVIOUS
<1>1. ASSUME NEW h \in Calls, NEW to \in ShipmentStatuses, ReadOrder(h, to) PROVE STypeOK'
  <2>1. [pc |-> "existing", to |-> to, status |-> status] \in Upserts
    BY <1>1 DEF ReadOrder, Upserts
  <2>2. upsert' \in [Calls -> Upserts]
    BY <1>1, <2>1 DEF ReadOrder, STypeOK
  <2>3. updates' \in 0..MaxUpdates
    BY <1>1, ShipmentsAssumption DEF ReadOrder, STypeOK
  <2> QED
    BY <1>1, <2>2, <2>3 DEF ReadOrder, STypeOK
<1>2. ASSUME NEW h \in Calls, ReadExisting(h) PROVE STypeOK'
  <2>1. upsert[h].to \in ShipmentStatuses /\ upsert[h].status \in SHIPPABLE_STATUSES
    BY <1>2 DEF ReadExisting, STypeOK, Upserts, Idle
  <2>2. shipment[Owner[h]] \in ShipmentStatuses \cup {"none"}
    BY ShipmentsAssumption DEF STypeOK
  <2>3. [pc |-> "write", to |-> upsert[h].to, status |-> upsert[h].status, existing |-> shipment[Owner[h]]] \in Upserts
    BY <2>1, <2>2 DEF Upserts
  <2>4. upsert' \in [Calls -> Upserts]
    BY <1>2, <2>3 DEF ReadExisting, STypeOK, Upserts
  <2> QED
    BY <1>2, <2>4 DEF ReadExisting, STypeOK
<1>3. ASSUME NEW h \in Calls, WriteShipment(h) PROVE STypeOK'
  <2>1. upsert[h].to \in ShipmentStatuses /\ upsert[h].status \in SHIPPABLE_STATUSES
    BY <1>3 DEF WriteShipment, STypeOK, Upserts, Idle
  <2>2. [pc |-> "derive", status |-> upsert[h].status] \in Upserts /\ Idle \in Upserts
    BY <2>1 DEF Upserts
  <2>3. upsert' \in [Calls -> Upserts]
    BY <1>3, <2>2 DEF WriteShipment, STypeOK
  <2>4. shipment' \in [Owners -> ShipmentStatuses \cup {"none"}]
    BY <1>3, <2>1 DEF WriteShipment, STypeOK
  <2> QED
    BY <1>3, <2>3, <2>4 DEF WriteShipment, STypeOK
<1>4. ASSUME NEW h \in Calls, DeriveRank(h) PROVE STypeOK'
  <2> DEFINE st == upsert[h].status
  <2>1. st \in SHIPPABLE_STATUSES
    BY <1>4 DEF DeriveRank, STypeOK, Upserts, Idle
  <2>2. derivedOrderRank \in 1..4
    BY DerivedRank DEF STypeOK
  <2>3. FULFILMENT_RANK[st] \in 1..3
    BY <2>1, RankOfStatus DEF SHIPPABLE_STATUSES
  <2>4. derivedOrderRank > FULFILMENT_RANK[st] =>
           [pc |-> "advance", status |-> st, next |-> derivedOrderRank] \in Upserts
    BY <2>1, <2>2, <2>3 DEF Upserts
  <2>5. Idle \in Upserts
    BY DEF Upserts
  <2>6. upsert' \in [Calls -> Upserts]
    BY <1>4, <2>4, <2>5 DEF DeriveRank, STypeOK
  <2> QED
    BY <1>4, <2>6 DEF DeriveRank, STypeOK
<1>5. ASSUME NEW h \in Calls, AdvanceFulfilment(h) PROVE STypeOK'
  <2>1. upsert' \in [Calls -> Upserts]
    BY <1>5 DEF AdvanceFulfilment, STypeOK, Upserts
  <2> QED
    BY <1>5, <2>1, AdvanceEffect DEF AdvanceFulfilment, STypeOK
<1>6. ASSUME CloseOrder PROVE STypeOK'
  BY <1>6, CloseEffect DEF CloseOrder, STypeOK
<1>7. ASSUME UNCHANGED svars PROVE STypeOK'
  BY <1>7 DEF svars, STypeOK
<1> QED
  BY <1>1, <1>2, <1>3, <1>4, <1>5, <1>6, <1>7 DEF SNext

\* However many sellers and requests interleave, no shipment or order leaves its schema, and a
\* request only ever carries a rank ahead of a status it found open (shipmentController.upsert).
THEOREM ShipmentTypes == SSpec => []STypeOK
  BY TypeInit, TypeStep, PTL DEF SSpec

\* Forward-only (M6): a request that derived its rank long ago moves the order only where the
\* fulfilment machine allows, whatever sellers, cancels and refunds did since.
THEOREM ShipmentsMoveForward == SSpec => FulfilmentMovesForward
<1>1. STypeOK /\ [SNext]_svars => [status' # status => status' \in fulfilmentTransitions[status]]_svars
  <2> SUFFICES ASSUME STypeOK, SNext PROVE status' # status => status' \in fulfilmentTransitions[status]
    BY DEF svars
  <2>1. CASE \E h \in Calls : AdvanceFulfilment(h)
    BY <2>1, AdvanceEffect
  <2>2. CASE CloseOrder
    BY <2>2, CloseEffect DEF STypeOK
  <2>3. CASE UNCHANGED order
    BY <2>3 DEF status
  <2> QED
    BY <2>1, <2>2, <2>3 DEF SNext, ReadOrder, ReadExisting, WriteShipment, DeriveRank
<1> QED
  BY <1>1, ShipmentTypes, PTL DEF SSpec, FulfilmentMovesForward

\* The updates of all sellers keep to the machine of the whole order subsystem, whose
\* fulfilment, payment and refund states OrderLifecycle implements: what a request writes
\* from a stale read is a fulfilment step of the order as it is by then.
THEOREM ShipmentsFollowTheMachine == SSpec => [][Next]_order
<1>1. STypeOK /\ [SNext]_svars => [Next]_order
  <2> SUFFICES ASSUME STypeOK, SNext PROVE Next \/ order' = order
    BY DEF svars
  <2>1. TheOrder \in Orders /\ Placed(TheOrder)
    BY TheOrderExists DEF STypeOK, Placed, OrderDocs, Absent, Statuses
  <2>2. ASSUME NEW h \in Calls, AdvanceFulfilment(h) PROVE Next \/ order' = order
    <3> DEFINE next == upsert[h].next
    <3>1. next \in 2..4
      BY <2>2 DEF STypeOK, Upserts, Idle, AdvanceFulfilment
    <3>2. CASE \E r \in 1..(next - 1) : status = STATUS_FOR_RANK[r]
      <4>1. STATUS_FOR_RANK[next] \in fulfilmentTransitions[status]
        BY <3>1, <3>2, AheadIsAllowed
      <4>2. STATUS_FOR_RANK[next] \notin {"confirmed", "cancelled"}
        BY <3>1 DEF STATUS_FOR_RANK
      <4>3. SetStatus(TheOrder, STATUS_FOR_RANK[next])
        BY <2>2, <3>2 DEF AdvanceFulfilment
      <4>4. Fulfil(TheOrder)
        BY <4>1, <4>2, <4>3 DEF Fulfil, status
      <4> QED BY <2>1, <4>4 DEF Next
    <3>3. CASE ~\E r \in 1..(next - 1) : status = STATUS_FOR_RANK[r]
      BY <2>2, <3>3 DEF AdvanceFulfilment
    <3> QED BY <3>2, <3>3
  <2>3. CASE CloseOrder
    BY <2>1, <2>3 DEF CloseOrder, Next
  <2> QED
    BY <2>2, <2>3 DEF SNext, ReadOrder, ReadExisting, WriteShipment, DeriveRank
<1> QED
  BY <1>1, ShipmentTypes, PTL DEF SSpec

-----------------------------------------------------------------------------
\* Two requests of one owner overlap only if the owner has a shipment at first.
FirstShipmentsApart ==
  \A h, k \in Calls : h # k /\ Owner[h] = Owner[k] => Existing[Owner[h]] # "none"

\* A write was checked against the shipment it replaces, or creates the first one.
CheckedWrites ==
  /\ STypeOK
  /\ \A h, k \in Calls : h # k /\ Owner[h] = Owner[k] => shipment[Owner[h]] # "none"
  /\ \A h \in Calls : upsert[h].pc = "write" =>
       IF upsert[h].existing = "none" THEN shipment[Owner[h]] = "none"
       ELSE canTransitionShipment(upsert[h].existing, upsert[h].to)

\* The write replaces the very status it was checked against.
LEMMA CheckedWriteEffect ==
  ASSUME CheckedWrites, NEW h \in Calls, WriteShipment(h)
  PROVE  \A s \in Owners : /\ shipment[s] # "none" => shipment'[s] # "none"
                           /\ shipment[s] = "delivered" => shipment'[s] = "delivered"
                           /\ s # Owner[h] => shipment'[s] = shipment[s]
<1>1. upsert[h].to \in ShipmentStatuses /\ "none" \notin ShipmentStatuses
  BY DEF WriteShipment, CheckedWrites, STypeOK, Upserts, Idle, ShipmentStatuses
<1>2. CASE upsert[h].existing \in {"none", shipment[Owner[h]]}
  <2>1. shipment' = [shipment EXCEPT ![Owner[h]] = upsert[h].to]
    BY <1>2 DEF WriteShipment
  <2>2. shipment[Owner[h]] = "delivered" => upsert[h].to = "delivered"
    BY <1>2 DEF WriteShipment, CheckedWrites, canTransitionShipment
  <2> QED
    BY <1>1, <2>1, <2>2 DEF CheckedWrites, STypeOK
<1>3. CASE upsert[h].existing \notin {"none", shipment[Owner[h]]}
  BY <1>3 DEF WriteShipment
<1> QED
  BY <1>2, <1>3

LEMMA CheckedWritesInit == FirstShipmentsApart /\ SInit => CheckedWrites
  BY TypeInit, ShipmentsAssumption DEF SInit, CheckedWrites, FirstShipmentsApart, Idle

LEMMA CheckedWritesStep == CheckedWrites /\ [SNext]_svars => CheckedWrites'
<1> SUFFICES ASSUME CheckedWrites, [SNext]_svars PROVE CheckedWrites'
  OBVIOUS
<1>1. STypeOK'
  BY TypeStep DEF CheckedWrites
<1>2. ASSUME NEW h \in Calls, ReadExisting(h) PROVE CheckedWrites'
  <2>1. upsert'[h].pc = "write" =>
          IF upsert'[h].existing = "none" THEN shipment[Owner[h]] = "none"
          ELSE canTransitionShipment(upsert'[h].existing, upsert'[h].to)
    BY <1>2 DEF ReadExisting, CheckedWrites, STypeOK, Idle
  <2>2. \A k \in Calls \ {h} : upsert'[k] = upsert[k]
    BY <1>2 DEF ReadExisting, CheckedWrites, STypeOK
  <2> QED
    BY <1>1, <1>2, <2>1, <2>2 DEF ReadExisting, CheckedWrites, canTransitionShipment
<1>3. ASSUME NEW h \in Calls, WriteShipment(h) PROVE CheckedWrites'
  <2>1. upsert'[h].pc # "write" /\ \A k \in Calls \ {h} : upsert'[k] = upsert[k]
    BY <1>3 DEF WriteShipment, CheckedWrites, STypeOK, Idle
  <2>2. \A k \in Calls : Owner[k] \in Owners
    BY ShipmentsAssumption
  <2>3. ASSUME NEW k \in Calls, upsert'[k].pc = "write"
        PROVE  IF upsert'[k].existing = "none" THEN shipment'[Owner[k]] = "none"
               ELSE canTransitionShipment(upsert'[k].existing, upsert'[k].to)
    <3>1. k # h /\ upsert'[k] = upsert[k]
      BY <2>1, <2>3
    <3>2. Owner[k] = Owner[h] => upsert[k].existing # "none"
      BY <2>3, <3>1 DEF CheckedWrites
    <3> QED BY <1>3, <2>2, <2>3, <3>1, <3>2, CheckedWriteEffect DEF CheckedWrites
  <2>4. \A k, l \in Calls : k # l /\ Owner[k] = Owner[l] => shipment'[Owner[k]] # "none"
    BY <1>3, <2>2, CheckedWriteEffect DEF CheckedWrites
  <2> QED
    BY <1>1, <2>3, <2>4 DEF CheckedWrites, canTransitionShipment
<1>4. ASSUME NEW h \in Calls, UNCHANGED shipment,
             upsert'[h].pc # "write", \A k \in Calls \ {h} : upsert'[k] = upsert[k]
      PROVE  CheckedWrites'
  BY <1>1, <1>4 DEF CheckedWrites, canTransitionShipment
<1>5. ASSUME NEW h \in Calls, NEW to \in ShipmentStatuses,
             ReadOrder(h, to) \/ DeriveRank(h) \/ AdvanceFulfilment(h)
      PROVE  CheckedWrites'
  <2>1. UNCHANGED shipment /\ upsert'[h].pc # "write" /\ \A k \in Calls \ {h} : upsert'[k] = upsert[k]
    BY <1>5 DEF ReadOrder, DeriveRank, AdvanceFulfilment, CheckedWrites, STypeOK, Idle
  <2> QED
    BY <1>4, <2>1
<1>6. CASE UNCHANGED <<shipment, upsert>>
  BY <1>1, <1>6 DEF CheckedWrites, canTransitionShipment
<1> QED
  BY <1>2, <1>3, <1>5, <1>6 DEF SNext, svars, CloseOrder, ShipmentStatuses

\* What was delivered stays so, whatever step is taken.
LEMMA DeliveredStays ==
  ASSUME CheckedWrites, [SNext]_svars, NEW s \in Owners, shipment[s] = "delivered"
  PROVE  shipment'[s] = "delivered"
<1>1. CASE \E h \in Calls : WriteShipment(h)
  BY <1>1, CheckedWriteEffect
<1>2. CASE UNCHANGED shipment
  BY <1>2
<1> QED
  BY <1>1, <1>2 DEF SNext, svars, ReadOrder, ReadExisting, DeriveRank, AdvanceFulfilment, CloseOrder

\* Unless two requests create one shipment, no concurrent update overwrites a delivered one:
\* the compare-and-set of shipmentController.upsert is enough. Two creations are not kept apart.
THEOREM DeliveredShipmentsAreFinal ==
  ASSUME FirstShipmentsApart
  PROVE  SSpec => DeliveredIsFinal
<1>1. CheckedWrites /\ [SNext]_svars =>
        [\A s \in Owners : shipment[s] = "delivered" => shipment'[s] = "delivered"]_svars
  BY DeliveredStays
<1> QED
  BY <1>1, CheckedWritesInit, CheckedWritesStep, PTL DEF SSpec, DeliveredIsFinal

-----------------------------------------------------------------------------
AllDelivered == \A s \in Sellers : "delivered" \in {shipment[s], shipment[Admin]}

\* A request that carries the last rank found every item delivered.
DeliveredInv ==
  /\ CheckedWrites
  /\ \A h \in Calls : upsert[h].pc = "advance" /\ upsert[h].next = 4 => AllDelivered
  /\ DeliveredMeansEveryItem

LEMMA LastRankMeansDelivered ==
  ASSUME STypeOK, derivedOrderRank = 4
  PROVE  AllDelivered
<1> SUFFICES ASSUME NEW s \in Sellers PROVE "delivered" \in {shipment[s], shipment[Admin]}
  BY DEF AllDelivered
<1>1. CoveredRank(s) = 4
  BY DerivedRank DEF STypeOK
<1>2. shipment[s] \in ShipmentStatuses \cup {"none"} /\ shipment[Admin] \in ShipmentStatuses \cup {"none"}
  BY DEF STypeOK, Owners
<1>3. \A t \in ShipmentStatuses \cup {"none"} : ORDER_RANK_FOR_SHIPMENT[t] = 4 => t = "delivered"
  BY DEF ORDER_RANK_FOR_SHIPMENT, ShipmentStatuses
<1> QED
  BY <1>1, <1>2, <1>3 DEF CoveredRank, MaxRank

LEMMA AllDeliveredStays ==
  ASSUME CheckedWrites, [SNext]_svars, AllDelivered
  PROVE  AllDelivered'
<1>1. Sellers \subseteq Owners /\ Admin \in Owners
  BY DEF Owners
<1> QED
  BY <1>1, DeliveredStays DEF AllDelivered

LEMMA DeliveredInvStep == DeliveredInv /\ [SNext]_svars => DeliveredInv'
<1> SUFFICES ASSUME DeliveredInv, [SNext]_svars PROVE DeliveredInv'
  OBVIOUS
<1>1. CheckedWrites' /\ CheckedWrites /\ STypeOK
  BY CheckedWritesStep DEF DeliveredInv, CheckedWrites
<1>2. AllDelivered => AllDelivered'
  BY <1>1, AllDeliveredStays
<1>3. ASSUME NEW h \in Calls, upsert'[h].pc = "advance", upsert'[h].next = 4
      PROVE  AllDelivered'
  <2>1. CASE upsert'[h] = upsert[h]
    BY <1>2, <1>3, <2>1 DEF DeliveredInv
  <2>2. CASE DeriveRank(h)
    <3>1. derivedOrderRank = 4
      BY <1>1, <1>3, <2>2 DEF DeriveRank, STypeOK, Idle
    <3> QED BY <1>1, <1>2, <3>1, LastRankMeansDelivered
  <2>3. ASSUME NEW k \in Calls, k # h \/ ~DeriveRank(k),
               \/ \E to \in ShipmentStatuses : ReadOrder(k, to)
               \/ ReadExisting(k) \/ WriteShipment(k) \/ DeriveRank(k) \/ AdvanceFulfilment(k)
        PROVE  upsert'[h] = upsert[h]
    BY <1>1, <1>3, <2>3 DEF ReadOrder, ReadExisting, WriteShipment, DeriveRank, AdvanceFulfilment, STypeOK, Idle
  <2>4. CASE UNCHANGED upsert
    BY <2>1, <2>4
  <2> QED
    BY <2>1, <2>2, <2>3, <2>4 DEF SNext, svars, CloseOrder
<1>4. ASSUME status' = "delivered" PROVE AllDelivered'
  <2>1. CASE status' = status
    BY <1>2, <1>4, <2>1 DEF DeliveredInv, DeliveredMeansEveryItem, AllDelivered
  <2>2. ASSUME NEW h \in Calls, AdvanceFulfilment(h), status' # status PROVE AllDelivered'
    <3>1. upsert[h].pc = "advance" /\ upsert[h].next \in 2..4
      BY <1>1, <2>2 DEF AdvanceFulfilment, STypeOK, Upserts, Idle
    <3>2. status' = STATUS_FOR_RANK[upsert[h].next]
      BY <1>1, <2>2, <3>1, AdvanceStatus
    <3>3. upsert[h].next = 4
      BY <1>4, <3>1, <3>2 DEF STATUS_FOR_RANK
    <3> QED BY <1>2, <3>1, <3>3 DEF DeliveredInv
  <2>3. ASSUME CloseOrder, status' # status PROVE FALSE
    BY <1>1, <1>4, <2>3, CloseStatus DEF STypeOK
  <2>4. CASE UNCHANGED order
    BY <2>1, <2>4 DEF status
  <2> QED
    BY <2>1, <2>2, <2>3, <2>4 DEF SNext, svars, ReadOrder, ReadExisting, WriteShipment, DeriveRank
<1> QED
  BY <1>1, <1>3, <1>4 DEF DeliveredInv, DeliveredMeansEveryItem, AllDelivered

\* Unless two requests create one shipment, an order is delivered only once each of its items
\* is, by its seller's shipment or the admin's, however the sellers' updates interleave (SEC-08).
THEOREM DeliveredOrders ==
  ASSUME FirstShipmentsApart
  PROVE  SSpec => []DeliveredMeansEveryItem
<1>1. SInit => DeliveredInv
  <2> SUFFICES ASSUME SInit PROVE DeliveredInv
    OBVIOUS
  <2>1. CheckedWrites
    BY CheckedWritesInit
  <2>2. status = "confirmed"
    BY TheOrderExists DEF SInit, status
  <2>3. \A h \in Calls : upsert[h].pc = "idle"
    BY DEF SInit, Idle
  <2> QED BY <2>1, <2>2, <2>3 DEF DeliveredInv, DeliveredMeansEveryItem
<1>2. DeliveredInv => DeliveredMeansEveryItem
  BY DEF DeliveredInv
<1> QED
  BY <1>1, <1>2, DeliveredInvStep, PTL DEF SSpec

-----------------------------------------------------------------------------
\* A request will still bring the order up to date.
Pending(h) ==
  \/ upsert[h].pc = "derive"
  \/ upsert[h].pc = "advance" /\ upsert[h].next >= derivedOrderRank

\* An open order is no further back than any request found it, and is up to date
\* or a request is about to bring it so.
KeepsUp ==
  /\ STypeOK
  /\ status # "pending"
  /\ status # "cancelled" =>
       /\ \A h \in Calls : upsert[h] # Idle => FULFILMENT_RANK[upsert[h].status] <= FULFILMENT_RANK[status]
       /\ FULFILMENT_RANK[status] >= derivedOrderRank \/ \E h \in Calls : Pending(h)

Fulfilling == {"confirmed", "processing", "shipped", "delivered"}

LEMMA RankFacts ==
  /\ \A s \in Fulfilling : FULFILMENT_RANK[s] \in 1..4 /\ STATUS_FOR_RANK[FULFILMENT_RANK[s]] = s
  /\ \A r \in 1..4 : STATUS_FOR_RANK[r] \in Fulfilling /\ FULFILMENT_RANK[STATUS_FOR_RANK[r]] = r
  /\ SHIPPABLE_STATUSES \subseteq Fulfilling
  /\ Statuses = Fulfilling \cup {"pending", "cancelled"}
<1>1. /\ STATUS_FOR_RANK[1] = "confirmed" /\ STATUS_FOR_RANK[2] = "processing"
      /\ STATUS_FOR_RANK[3] = "shipped" /\ STATUS_FOR_RANK[4] = "delivered"
  BY DEF STATUS_FOR_RANK
<1>2. \A r \in 1..4 : r = 1 \/ r = 2 \/ r = 3 \/ r = 4
  OBVIOUS
<1>3. SHIPPABLE_STATUSES \subseteq Fulfilling /\ Statuses = Fulfilling \cup {"pending", "cancelled"}
  BY DEF SHIPPABLE_STATUSES, Fulfilling, Statuses
<1> QED
  BY <1>1, <1>2, <1>3, RankOfStatus DEF Fulfilling

LEMMA OpenStatus ==
  ASSUME STypeOK, status # "pending", status # "cancelled"
  PROVE  status \in Fulfilling
  BY TheOrderExists, RankFacts DEF STypeOK, OrderDocs, status

\* An order never goes back: it stays, is cancelled, or is as far as the request that moved it.
LEMMA StatusStep ==
  ASSUME KeepsUp, [SNext]_svars
  PROVE  /\ status' # "pending"
         /\ status' # "cancelled" =>
              /\ status # "cancelled" /\ status' \in Fulfilling
              /\ FULFILMENT_RANK[status'] >= FULFILMENT_RANK[status]
         /\ \A h \in Calls : AdvanceFulfilment(h) /\ status' # "cancelled" =>
              FULFILMENT_RANK[status'] >= upsert[h].next
<1>1. STypeOK /\ status \in Fulfilling \cup {"cancelled"}
  BY OpenStatus DEF KeepsUp
<1>2. ASSUME NEW h \in Calls, AdvanceFulfilment(h)
      PROVE  /\ status' # "pending"
             /\ status' # "cancelled" =>
                  /\ status # "cancelled" /\ status' \in Fulfilling
                  /\ FULFILMENT_RANK[status'] >= FULFILMENT_RANK[status]
                  /\ FULFILMENT_RANK[status'] >= upsert[h].next
  <2>1. PICK next \in 2..4 : next = upsert[h].next
    BY <1>1, <1>2 DEF AdvanceFulfilment, STypeOK, Upserts, Idle
  <2>2. CASE \E r \in 1..(next - 1) : status = STATUS_FOR_RANK[r]
    <3>1. PICK r \in 1..(next - 1) : status = STATUS_FOR_RANK[r]
      BY <2>2
    <3>2. r \in 1..4 /\ next \in 1..4 /\ r < next
      BY <2>1
    <3>3. status' = STATUS_FOR_RANK[next]
      BY <1>1, <1>2, <2>1, <2>2, AdvanceStatus
    <3>4. /\ status \in Fulfilling /\ FULFILMENT_RANK[status] = r
          /\ status' \in Fulfilling /\ FULFILMENT_RANK[status'] = next
      BY <3>1, <3>2, <3>3, RankFacts
    <3>5. "pending" \notin Fulfilling /\ "cancelled" \notin Fulfilling
      BY DEF Fulfilling
    <3> QED BY <2>1, <3>2, <3>4, <3>5
  <2>3. CASE ~\E r \in 1..(next - 1) : status = STATUS_FOR_RANK[r]
    <3>1. status' = status
      BY <1>1, <1>2, <2>1, <2>3, AdvanceStatus
    <3>2. ASSUME status \in Fulfilling PROVE FULFILMENT_RANK[status] >= next
      <4>1. FULFILMENT_RANK[status] \in 1..4 /\ STATUS_FOR_RANK[FULFILMENT_RANK[status]] = status
        BY <3>2, RankFacts
      <4>2. FULFILMENT_RANK[status] \notin 1..(next - 1)
        BY <2>3, <4>1
      <4> QED BY <2>1, <4>1, <4>2
    <3> QED BY <1>1, <2>1, <3>1, <3>2, RankFacts DEF Fulfilling
  <2> QED BY <2>1, <2>2, <2>3
<1>3. ASSUME status' = status \/ status' = "cancelled"
      PROVE  /\ status' # "pending"
             /\ status' # "cancelled" =>
                  /\ status # "cancelled" /\ status' \in Fulfilling
                  /\ FULFILMENT_RANK[status'] >= FULFILMENT_RANK[status]
  BY <1>1, <1>3, RankFacts DEF Fulfilling
<1>4. status' = status \/ status' = "cancelled" \/ \E h \in Calls : AdvanceFulfilment(h)
  <2>1. CASE CloseOrder
    BY <1>1, <2>1, CloseStatus DEF STypeOK
  <2>2. CASE UNCHANGED order
    BY <2>2 DEF status
  <2> QED
    BY <2>1, <2>2 DEF SNext, svars, ReadOrder, ReadExisting, WriteShipment, DeriveRank
<1> QED
  BY <1>2, <1>3, <1>4

\* A request that finds nothing to derive found an order that is up to date.
LEMMA NothingToDerive ==
  ASSUME STypeOK, NEW h \in Calls, DeriveRank(h)
  PROVE  \/ upsert'[h].pc = "advance" /\ upsert'[h].next = derivedOrderRank
         \/ FULFILMENT_RANK[upsert[h].status] >= derivedOrderRank
<1>1. upsert[h].status \in SHIPPABLE_STATUSES
  BY DEF DeriveRank, STypeOK, Upserts, Idle
<1>2. PICK st \in Fulfilling, r \in 1..4, next \in 1..4 :
        st = upsert[h].status /\ r = FULFILMENT_RANK[st] /\ next = derivedOrderRank /\ STATUS_FOR_RANK[r] = st
  BY <1>1, RankFacts, DerivedRank DEF STypeOK
<1>3. CASE next > r
  <2>1. next \in 2..4 /\ r \in 1..(next - 1)
    BY <1>3
  <2>2. STATUS_FOR_RANK[next] \in fulfilmentTransitions[st]
    BY <1>2, <2>1, AheadIsAllowed
  <2>3. upsert' = [upsert EXCEPT ![h] = [pc |-> "advance", status |-> st, next |-> next]]
    BY <1>2, <1>3, <2>2 DEF DeriveRank
  <2> QED BY <1>2, <2>3 DEF STypeOK
<1> QED
  BY <1>2, <1>3

LEMMA KeepsUpStep == KeepsUp /\ [SNext]_svars => KeepsUp'
<1> SUFFICES ASSUME KeepsUp, [SNext]_svars, status' # "cancelled" PROVE KeepsUp'
  <2>1. KeepsUp /\ [SNext]_svars => STypeOK' /\ status' # "pending"
    BY TypeStep, StatusStep DEF KeepsUp
  <2> QED BY <2>1 DEF KeepsUp
<1>1. STypeOK /\ STypeOK' /\ status' # "pending"
  BY TypeStep, StatusStep DEF KeepsUp
<1>2. /\ status # "cancelled" /\ status \in Fulfilling /\ status' \in Fulfilling
      /\ FULFILMENT_RANK[status] \in 1..4 /\ FULFILMENT_RANK[status'] \in 1..4
      /\ FULFILMENT_RANK[status'] >= FULFILMENT_RANK[status]
  BY <1>1, StatusStep, OpenStatus, RankFacts DEF KeepsUp
<1>3. \A h \in Calls : upsert[h] # Idle =>
        /\ upsert[h].status \in Fulfilling /\ FULFILMENT_RANK[upsert[h].status] \in 1..4
        /\ FULFILMENT_RANK[upsert[h].status] <= FULFILMENT_RANK[status']
  <2> SUFFICES ASSUME NEW h \in Calls, upsert[h] # Idle
               PROVE  /\ upsert[h].status \in Fulfilling /\ FULFILMENT_RANK[upsert[h].status] \in 1..4
                      /\ FULFILMENT_RANK[upsert[h].status] <= FULFILMENT_RANK[status']
    OBVIOUS
  <2>1. upsert[h].status \in SHIPPABLE_STATUSES
    BY <1>1 DEF STypeOK, Upserts
  <2>2. upsert[h].status \in Fulfilling /\ FULFILMENT_RANK[upsert[h].status] \in 1..4
    BY <2>1, RankFacts
  <2>3. FULFILMENT_RANK[upsert[h].status] <= FULFILMENT_RANK[status]
    BY <1>2 DEF KeepsUp
  <2> QED BY <1>2, <2>2, <2>3
<1>4. ASSUME NEW h \in Calls, upsert'[h] # Idle
      PROVE  FULFILMENT_RANK[upsert'[h].status] <= FULFILMENT_RANK[status']
  <2>1. \/ upsert[h] # Idle /\ upsert'[h].status = upsert[h].status
        \/ upsert'[h].status = status
    <3>1. CASE upsert'[h] = upsert[h]
      BY <1>4, <3>1
    <3>2. ASSUME NEW k \in Calls, NEW to \in ShipmentStatuses, ReadOrder(k, to)
          PROVE  upsert'[h] = upsert[h] \/ upsert'[h].status = status
      BY <1>1, <3>2 DEF ReadOrder, STypeOK
    <3>3. ASSUME NEW k \in Calls, ReadExisting(k) \/ WriteShipment(k) \/ DeriveRank(k) \/ AdvanceFulfilment(k)
          PROVE  \/ upsert'[h] = upsert[h] \/ upsert'[h] = Idle
                 \/ upsert[h] # Idle /\ upsert'[h].status = upsert[h].status
      BY <1>1, <3>3 DEF ReadExisting, WriteShipment, DeriveRank, AdvanceFulfilment, STypeOK, Idle
    <3>4. CASE UNCHANGED upsert
      BY <3>1, <3>4
    <3> QED
      BY <1>4, <3>1, <3>2, <3>3, <3>4 DEF SNext, svars, CloseOrder
  <2> QED BY <1>2, <1>3, <2>1
<1>5. FULFILMENT_RANK[status'] >= derivedOrderRank' \/ \E h \in Calls : Pending(h)'
  <2>1. derivedOrderRank \in 1..4
    BY <1>1, DerivedRank DEF STypeOK
  <2>2. FULFILMENT_RANK[status] >= derivedOrderRank \/ \E h \in Calls : Pending(h)
    BY <1>2 DEF KeepsUp
  <2>3. ASSUME UNCHANGED shipment PROVE derivedOrderRank' = derivedOrderRank
    BY <2>3 DEF derivedOrderRank
  <2>4. ASSUME NEW h \in Calls, WriteShipment(h)
        PROVE  FULFILMENT_RANK[status'] >= derivedOrderRank' \/ \E k \in Calls : Pending(k)'
    <3>1. CASE upsert[h].existing \in {"none", shipment[Owner[h]]}
      <4>1. upsert'[h].pc = "derive"
        BY <1>1, <2>4, <3>1 DEF WriteShipment, STypeOK
      <4> QED BY <4>1 DEF Pending
    <3>2. CASE upsert[h].existing \notin {"none", shipment[Owner[h]]}
      <4>1. UNCHANGED shipment /\ upsert[h].pc = "write" /\ \A k \in Calls \ {h} : upsert'[k] = upsert[k]
        BY <1>1, <2>4, <3>2 DEF WriteShipment, STypeOK
      <4>2. \A k \in Calls : Pending(k) => Pending(k)'
        BY <2>3, <4>1 DEF Pending
      <4> QED BY <1>2, <2>1, <2>2, <2>3, <4>1, <4>2
    <3> QED BY <3>1, <3>2
  <2>5. ASSUME NEW h \in Calls, DeriveRank(h)
        PROVE  FULFILMENT_RANK[status'] >= derivedOrderRank' \/ \E k \in Calls : Pending(k)'
    <3>1. derivedOrderRank' = derivedOrderRank /\ upsert[h] # Idle
      BY <2>3, <2>5 DEF DeriveRank, Idle
    <3>2. CASE upsert'[h].pc = "advance" /\ upsert'[h].next = derivedOrderRank
      BY <2>1, <3>1, <3>2 DEF Pending
    <3>3. CASE FULFILMENT_RANK[upsert[h].status] >= derivedOrderRank
      BY <1>2, <1>3, <2>1, <3>1, <3>3
    <3> QED BY <1>1, <2>5, <3>2, <3>3, NothingToDerive
  <2>6. ASSUME NEW h \in Calls, AdvanceFulfilment(h)
        PROVE  FULFILMENT_RANK[status'] >= derivedOrderRank' \/ \E k \in Calls : Pending(k)'
    <3>1. derivedOrderRank' = derivedOrderRank /\ upsert[h].pc = "advance" /\ upsert[h].next \in 2..4
      BY <1>1, <2>3, <2>6 DEF AdvanceFulfilment, STypeOK, Upserts, Idle
    <3>2. FULFILMENT_RANK[status'] >= upsert[h].next
      BY <2>6, StatusStep
    <3>3. \A k \in Calls \ {h} : upsert'[k] = upsert[k]
      BY <1>1, <2>6 DEF AdvanceFulfilment, STypeOK
    <3>4. ASSUME NEW k \in Calls, Pending(k), k # h PROVE Pending(k)'
      BY <3>1, <3>3, <3>4 DEF Pending
    <3>5. Pending(h) => FULFILMENT_RANK[status'] >= derivedOrderRank
      BY <1>2, <2>1, <3>1, <3>2 DEF Pending
    <3> QED BY <1>2, <2>1, <2>2, <3>1, <3>4, <3>5
  <2>7. ASSUME UNCHANGED shipment,
               UNCHANGED upsert \/ \E h \in Calls, to \in ShipmentStatuses : ReadOrder(h, to) \/ ReadExisting(h)
        PROVE  FULFILMENT_RANK[status'] >= derivedOrderRank' \/ \E k \in Calls : Pending(k)'
    <3>1. \A k \in Calls : upsert[k].pc \in {"derive", "advance"} => upsert'[k] = upsert[k]
      BY <1>1, <2>7 DEF ReadOrder, ReadExisting, STypeOK
    <3>2. \A k \in Calls : Pending(k) => Pending(k)'
      BY <2>3, <2>7, <3>1 DEF Pending
    <3> QED BY <1>2, <2>1, <2>2, <2>3, <2>7, <3>2
  <2>8. \A h \in Calls, to \in ShipmentStatuses : ReadOrder(h, to) \/ ReadExisting(h) => UNCHANGED shipment
    BY DEF ReadOrder, ReadExisting
  <2>9. ShipmentStatuses # {}
    BY DEF ShipmentStatuses
  <2> QED
    BY <2>4, <2>5, <2>6, <2>7, <2>8, <2>9 DEF SNext, svars, CloseOrder
<1> QED
  BY <1>1, <1>4, <1>5 DEF KeepsUp

\* When no request is left, an order that was not cancelled is at least as far as its least
\* advanced item, provided it was so at first: some item was not on its way yet.
THEOREM OrdersKeepUp ==
  ASSUME \E s \in Sellers : {Existing[s], Existing[Admin]} \subseteq {"none", "failed"}
  PROVE  SSpec => []OrderKeepsUp
<1>1. SInit => KeepsUp
  <2> SUFFICES ASSUME SInit PROVE KeepsUp
    OBVIOUS
  <2>1. STypeOK /\ status = "confirmed" /\ \A h \in Calls : upsert[h] = Idle
    BY TypeInit, TheOrderExists DEF SInit, status
  <2>2. PICK s \in Sellers : {Existing[s], Existing[Admin]} \subseteq {"none", "failed"}
    OBVIOUS
  <2>3. CoveredRank(s) = 1
    <3>1. shipment[s] \in {"none", "failed"} /\ shipment[Admin] \in {"none", "failed"}
      BY <2>2 DEF SInit
    <3>2. \A t \in {"none", "failed"} : ORDER_RANK_FOR_SHIPMENT[t] = 1
      BY DEF ORDER_RANK_FOR_SHIPMENT, ShipmentStatuses
    <3> QED BY <3>1, <3>2 DEF CoveredRank, MaxRank
  <2>4. derivedOrderRank = 1
    BY <2>1, <2>3, DerivedRank DEF STypeOK
  <2> QED BY <2>1, <2>4, RankOfStatus DEF KeepsUp
<1>2. KeepsUp => OrderKeepsUp
  BY DEF KeepsUp, OrderKeepsUp, Pending, Idle
<1> QED
  BY <1>1, <1>2, KeepsUpStep, PTL DEF SSpec
=============================================================================
