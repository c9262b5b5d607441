------------------------------ MODULE Shipments ------------------------------
(***************************************************************************)
(* PUT /orders/:id/shipment: each seller of an order, and the admin for    *)
(* the whole order, keeps a shipment document; the order's fulfilment      *)
(* follows from all of them.  shipmentController.upsert holds no lock and  *)
(* no transaction, so each of its database calls is a step, and a cancel   *)
(* or a provider refund of the order may fall in between.                  *)
(***************************************************************************)
EXTENDS OrderMachine, FiniteSets

CONSTANTS
  Sellers,    \* Sellers with an item in the order.
  Admin,      \* The owner of the whole-order shipment (seller: null).
  Calls,      \* Requests in progress at once.
  Owner,      \* Owner[h]: the seller or admin who sends request h.
  Existing,   \* Status of each shipment at first, "none" if there is none.
  MaxUpdates  \* Bound on the requests served.

Owners == Sellers \cup {Admin}
ShipmentStatuses == {"pending", "label_created", "in_transit", "delivered", "failed"}

ASSUME ShipmentsAssumption ==
  /\ Orders # {} /\ Admin \notin Sellers /\ Sellers # {}
  /\ Owner \in [Calls -> Owners]
  /\ Existing \in [Owners -> ShipmentStatuses \cup {"none"}]
  /\ MaxUpdates \in Nat

VARIABLES
  shipment,   \* Owners -> status of their shipment.
  upsert,     \* Progress of each request, with what it has read.
  updates     \* Requests served.

svars == <<order, shipment, upsert, updates>>

FULFILMENT_RANK == [s \in {"confirmed", "processing", "shipped", "delivered"} |->
                      CHOOSE r \in 1..4 : STATUS_FOR_RANK[r] = s]
ORDER_RANK_FOR_SHIPMENT ==
  [s \in ShipmentStatuses \cup {"none"} |->
     CASE s \in {"none", "failed"}           -> 1
       [] s \in {"pending", "label_created"} -> 2
       [] s = "in_transit"                   -> 3
       [] OTHER                              -> 4]

\* A failed shipment may be retried, a delivered one is final, any other moves forward.
canTransitionShipment(from, to) ==
  \/ from = to
  \/ from = "failed"
  \/ from # "delivered" /\ to = "failed"
  \/ <<from, to>> \in {<<"pending", "label_created">>, <<"pending", "in_transit">>,
                       <<"pending", "delivered">>, <<"label_created", "in_transit">>,
                       <<"label_created", "delivered">>, <<"in_transit", "delivered">>}

\* The only order; its fulfilment starts once it is paid and confirmed.
TheOrder == CHOOSE o \in Orders : TRUE
status == order[TheOrder].status
Idle == [pc |-> "idle"]

SInit ==
  /\ order = [o \in Orders |-> [status |-> "confirmed", paymentStatus |-> "paid", refundStatus |-> "none"]]
  /\ shipment = Existing
  /\ upsert = [h \in Calls |-> Idle]
  /\ updates = 0

\* Mutant: an item counts as shipped as soon as any shipment of the order does.
mostAdvancedRank ==
  LET ranks == {ORDER_RANK_FOR_SHIPMENT[shipment[s]] : s \in Owners}
  IN  CHOOSE r \in ranks : \A q \in ranks : q <= r

MaxRank(a, b) == IF a >= b THEN a ELSE b
\* The least advanced line item, each covered by its seller's shipment or the admin's.
derivedOrderRank ==
  LET rank(s) == MaxRank(ORDER_RANK_FOR_SHIPMENT[shipment[Admin]], ORDER_RANK_FOR_SHIPMENT[shipment[s]])
  IN  CHOOSE r \in {rank(s) : s \in Sellers} : \A s \in Sellers : r <= rank(s)

-----------------------------------------------------------------------------
\* An order that is not paid and open is refused (409).
ReadOrder(h, to) ==
  /\ upsert[h].pc = "idle"
  /\ updates < MaxUpdates
  /\ updates' = updates + 1
  /\ order[TheOrder].paymentStatus = "paid" /\ status \in SHIPPABLE_STATUSES
  /\ upsert' = [upsert EXCEPT ![h] = [pc |-> "existing", to |-> to, status |-> status]]
  /\ UNCHANGED <<order, shipment>>

\* A transition the shipment does not allow is refused (409).
ReadExisting(h) ==
  /\ upsert[h].pc = "existing"
  /\ upsert' = [upsert EXCEPT ![h] =
       LET existing == shipment[Owner[h]]
       IN  IF existing # "none" /\ ~canTransitionShipment(existing, @.to) THEN Idle
           ELSE [pc |-> "write", to |-> @.to, status |-> @.status, existing |-> existing]]
  /\ UNCHANGED <<order, shipment, updates>>

\* Mutant: the shipment is written whatever its status is by now.
WriteShipmentBlindly(h) ==
  /\ upsert[h].pc = "write"
  /\ shipment' = [shipment EXCEPT ![Owner[h]] = upsert[h].to]
  /\ upsert' = [upsert EXCEPT ![h] = [pc |-> "derive", status |-> @.status]]
  /\ UNCHANGED <<order, updates>>

\* A compare-and-set on the status read, if there was a shipment to read. If there
\* was none the filter names no status: it creates the shipment, or updates the one
\* created meanwhile.
WriteShipment(h) ==
  /\ upsert[h].pc = "write"
  /\ IF upsert[h].existing \in {"none", shipment[Owner[h]]}
     THEN /\ shipment' = [shipment EXCEPT ![Owner[h]] = upsert[h].to]
          /\ upsert' = [upsert EXCEPT ![h] = [pc |-> "derive", status |-> @.status]]
     ELSE /\ upsert' = [upsert EXCEPT ![h] = Idle]
          /\ UNCHANGED shipment
  /\ UNCHANGED <<order, updates>>

DeriveRank(h) ==
  /\ upsert[h].pc = "derive"
  /\ upsert' = [upsert EXCEPT ![h] =
       LET next == derivedOrderRank
       IN  IF next > FULFILMENT_RANK[@.status] /\ STATUS_FOR_RANK[next] \in fulfilmentTransitions[@.status]
           THEN [pc |-> "advance", status |-> @.status, next |-> next]
           ELSE Idle]
  /\ UNCHANGED <<order, shipment, updates>>

\* Mutants: the status is written over any other, or only over the one read.
AdvanceOverAnything(h) ==
  /\ upsert[h].pc = "advance"
  /\ SetStatus(TheOrder, STATUS_FOR_RANK[upsert[h].next])
  /\ upsert' = [upsert EXCEPT ![h] = Idle]
  /\ UNCHANGED <<shipment, updates>>
AdvanceIfUnchanged(h) ==
  /\ upsert[h].pc = "advance"
  /\ IF status = upsert[h].status
     THEN SetStatus(TheOrder, STATUS_FOR_RANK[upsert[h].next])
     ELSE UNCHANGED order
  /\ upsert' = [upsert EXCEPT ![h] = Idle]
  /\ UNCHANGED <<shipment, updates>>

\* Forward only: written over a status behind it, and over nothing else.
AdvanceFulfilment(h) ==
  /\ upsert[h].pc = "advance"
  /\ IF status \in {STATUS_FOR_RANK[r] : r \in 1..(upsert[h].next - 1)}
     THEN SetStatus(TheOrder, STATUS_FOR_RANK[upsert[h].next])
     ELSE UNCHANGED order
  /\ upsert' = [upsert EXCEPT ![h] = Idle]
  /\ UNCHANGED <<shipment, updates>>

\* Meanwhile the customer cancels, or the provider refunds the payment.
CloseOrder ==
  /\ Cancel(TheOrder) \/ Refund(TheOrder)
  /\ UNCHANGED <<shipment, upsert, updates>>

SNext ==
  \/ \E h \in Calls :
       \/ \E to \in ShipmentStatuses : ReadOrder(h, to)
       \/ ReadExisting(h) \/ WriteShipment(h) \/ DeriveRank(h) \/ AdvanceFulfilment(h)
  \/ CloseOrder

SSpec == SInit /\ [][SNext]_svars
-----------------------------------------------------------------------------
Upserts ==
  {Idle}
  \cup [pc : {"existing"}, to : ShipmentStatuses, status : SHIPPABLE_STATUSES]
  \cup [pc : {"write"}, to : ShipmentStatuses, status : SHIPPABLE_STATUSES,
        existing : ShipmentStatuses \cup {"none"}]
  \cup [pc : {"derive"}, status : SHIPPABLE_STATUSES]
  \cup [pc : {"advance"}, status : SHIPPABLE_STATUSES, next : 2..4]

\* No document leaves its schema, and a request only advances an order it found open.
STypeOK ==
  /\ order \in [Orders -> OrderDocs]
  /\ shipment \in [Owners -> ShipmentStatuses \cup {"none"}]
  /\ upsert \in [Calls -> Upserts]
  /\ updates \in 0..MaxUpdates

\* SEC-08: an order is delivered only once every line item is, by its seller's shipment or the
\* admin's; no seller completes another seller's items, however their updates interleave.
DeliveredMeansEveryItem ==
  status = "delivered" =>
    \A s \in Sellers : "delivered" \in {shipment[s], shipment[Admin]}

\* Forward-only (M6): a fulfilment update from a stale read never moves the order anywhere its
\* state machine would not, so a cancelled order stays cancelled and a later status stays.
FulfilmentMovesForward ==
  [][status' # status => status' \in fulfilmentTransitions[status]]_svars

\* No progress is lost: when all requests are served, the order is at least as far as its least
\* advanced item, whichever request read the other shipments before they were written.
OrderKeepsUp ==
  (\A h \in Calls : upsert[h] = Idle) /\ status # "cancelled"
    => FULFILMENT_RANK[status] >= derivedOrderRank

\* "A shipment only moves forward, except that a failed one may be retried; a delivered one is
\* final", and "a concurrent update cannot be overwritten blindly".
DeliveredIsFinal ==
  [][\A s \in Owners : shipment[s] = "delivered" => shipment'[s] = "delivered"]_svars
=============================================================================
