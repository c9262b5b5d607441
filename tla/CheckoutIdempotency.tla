------------------------- MODULE CheckoutIdempotency -------------------------
(***************************************************************************)
(* One customer's browser tabs, the Idempotency-Key each keeps for its     *)
(* checkout attempt (CheckoutAttempt), the idempotency middleware with the *)
(* key records it stores, the checkout lock and the checkout it guards.    *)
(* Responses get lost, the process dies, handlers fail.                    *)
(*                                                                         *)
(* A key record is named by the request that created it.  The checkout is  *)
(* one step here: Checkout.tla is about its inside.                        *)
(***************************************************************************)
EXTENDS Naturals, FiniteSets

CONSTANTS
  Tabs,         \* Browser tabs on the checkout page.
  Bodies,       \* Contents of the form.
  MaxRequests,  \* Bound on requests sent.
  MaxKeys,      \* Bound on keys the tabs generate, their first ones included.
  Budget        \* Bounds: how often each event of Events may happen.

\* A response is lost; the process dies; a handler fails (5xx); a record cannot be saved; a
\* handler outlives STALE_PROCESSING_MS; the customer fills the cart again.
Events == {"lost", "crash", "fail", "persist", "slow", "refill"}

Requests == 1..MaxRequests
Keys == 1..MaxKeys
None == 0     \* No request, no order; the body of an attempt that sent nothing yet.

ASSUME IdempotencyAssumption ==
  /\ IsFiniteSet(Tabs)
  /\ None \notin Bodies
  /\ MaxRequests \in Nat
  /\ MaxKeys \in Nat /\ MaxKeys >= Cardinality(Tabs)
  /\ Budget \in [Events -> Nat]

VARIABLES
  tab,      \* CheckoutAttempt of each tab, and the request it waits for.
  keys,     \* Keys generated so far.
  sent,     \* Requests sent so far.
  req,      \* Server side of each request, with its answer.
  record,   \* idempotencyKeys: the record of each key.
  lock,     \* Holder of the customer's checkout lock.
  cart,     \* Whether the cart holds anything.
  orders,   \* Requests whose checkout created an order.
  budget    \* What is left of Budget.

vars == <<tab, keys, sent, req, record, lock, cart, orders, budget>>

NoRecord == [status |-> "none"]
NoAnswer == [status |-> 0, order |-> None]
Error(status) == [status |-> status, order |-> None]
Unsent == [pc |-> "unsent", key |-> 0, body |-> None, stale |-> None, answer |-> NoAnswer]

\* newKey: every tab starts with a key of its own.
FirstKey ==
  CHOOSE k \in [Tabs -> 1..Cardinality(Tabs)] : \A t, s \in Tabs : k[t] = k[s] => t = s

Init ==
  /\ tab = [t \in Tabs |-> [key |-> FirstKey[t], body |-> None, req |-> None]]
  /\ keys = Cardinality(Tabs)
  /\ sent = 0
  /\ req = [q \in Requests |-> Unsent]
  /\ record = [k \in Keys |-> NoRecord]
  /\ lock = None
  /\ cart = TRUE
  /\ orders = {}
  /\ budget = Budget

Spend(event) == budget[event] > 0 /\ budget' = [budget EXCEPT ![event] = @ - 1]

-----------------------------------------------------------------------------
(* CheckoutComponent and CheckoutAttempt *)

\* keyFor: a changed form gets a fresh key; then the request leaves.
PlaceOrder(t, b) ==
  /\ tab[t].req = None
  /\ sent < MaxRequests
  /\ LET fresh == tab[t].body \notin {None, b}
         k     == IF fresh THEN keys + 1 ELSE tab[t].key
     IN  /\ k \in Keys
         /\ keys' = IF fresh THEN keys + 1 ELSE keys
         /\ tab' = [tab EXCEPT ![t] = [key |-> k, body |-> b, req |-> sent + 1]]
         /\ req' = [req EXCEPT ![sent + 1] =
              [pc |-> "find", key |-> k, body |-> b, stale |-> None, answer |-> NoAnswer]]
  /\ sent' = sent + 1
  /\ UNCHANGED <<record, lock, cart, orders, budget>>

\* reset: the next attempt has a key of its own.
Reset(t) ==
  /\ keys < MaxKeys
  /\ keys' = keys + 1
  /\ tab' = [tab EXCEPT ![t] = [key |-> keys + 1, body |-> None, req |-> None]]
KeepKey(t) == tab' = [tab EXCEPT ![t].req = None] /\ UNCHANGED keys

\* failed: the statuses after which the key is kept.
Retryable(status) == status \in {0, 423, 429} \/ status >= 500

ReceiveAnswer(t) ==
  /\ tab[t].req # None
  /\ req[tab[t].req].pc = "answered"
  /\ IF Retryable(req[tab[t].req].answer.status) THEN KeepKey(t) ELSE Reset(t)
  /\ UNCHANGED <<sent, req, record, lock, cart, orders, budget>>

\* Status 0: the connection breaks while the server goes on, or because it died.
ConnectionLost(t) ==
  /\ tab[t].req # None
  /\ \/ req[tab[t].req].pc = "crashed" /\ UNCHANGED budget
     \/ req[tab[t].req].pc # "crashed" /\ Spend("lost")
  /\ KeepKey(t)
  /\ UNCHANGED <<sent, req, record, lock, cart, orders>>

RefillCart ==
  /\ ~cart
  /\ Spend("refill")
  /\ cart' = TRUE
  /\ UNCHANGED <<tab, keys, sent, req, record, lock, orders>>

-----------------------------------------------------------------------------
(* middlewares/idempotency.ts *)

At(q, pc) == req[q].pc = pc
Goto(q, pc) == req' = [req EXCEPT ![q].pc = pc]
Answer(q, answer) == req' = [req EXCEPT ![q].pc = "answered", ![q].answer = answer]
Client == UNCHANGED <<tab, keys, sent, budget>>

\* Mutant: a record is taken over however young it is.
FindKeyImpatient(q) ==
  /\ At(q, "find")
  /\ LET rec == record[req[q].key]
     IN  CASE rec.status = "none" -> Goto(q, "create")
           [] rec.status # "none" /\ rec.body # req[q].body -> Answer(q, Error(400))
           [] rec.status = "completed" /\ rec.body = req[q].body -> Answer(q, rec.answer)
           [] OTHER -> req' = [req EXCEPT ![q].pc = "delete", ![q].stale = rec.id]
  /\ UNCHANGED <<record, lock, cart, orders>> /\ Client

\* A stored outcome is replayed; a record still in process refuses the request (429)
\* until it is old enough to be taken for abandoned.
FindKey(q) ==
  /\ At(q, "find")
  /\ LET rec == record[req[q].key]
     IN  CASE rec.status = "none" -> Goto(q, "create")
           [] rec.status # "none" /\ rec.body # req[q].body -> Answer(q, Error(400))
           [] rec.status = "completed" /\ rec.body = req[q].body -> Answer(q, rec.answer)
           [] rec.status = "processing" /\ rec.body = req[q].body /\ ~rec.old -> Answer(q, Error(429))
           [] OTHER -> req' = [req EXCEPT ![q].pc = "delete", ![q].stale = rec.id]
  /\ UNCHANGED <<record, lock, cart, orders>> /\ Client

\* Mutant: the record is deleted by its key, not by the _id that was read.
DeleteByKey(q) ==
  /\ At(q, "delete")
  /\ record' = [record EXCEPT ![req[q].key] = IF @.status = "processing" THEN NoRecord ELSE @]
  /\ Goto(q, "create")
  /\ UNCHANGED <<lock, cart, orders>> /\ Client

DeleteStale(q) ==
  /\ At(q, "delete")
  /\ record' = [record EXCEPT ![req[q].key] =
       IF @.status = "processing" /\ @.id = req[q].stale THEN NoRecord ELSE @]
  /\ Goto(q, "create")
  /\ UNCHANGED <<lock, cart, orders>> /\ Client

NewRecord(q) ==
  [status |-> "processing", id |-> q, body |-> req[q].body, old |-> FALSE, answer |-> NoAnswer]

\* Mutant: without the unique index a second record would replace the first.
CreateRecordAnyway(q) ==
  /\ At(q, "create")
  /\ record' = [record EXCEPT ![req[q].key] = NewRecord(q)]
  /\ Goto(q, "lock")
  /\ UNCHANGED <<lock, cart, orders>> /\ Client

\* The unique index on (key, user, route) lets one of several requests through.
CreateRecord(q) ==
  /\ At(q, "create")
  /\ IF record[req[q].key].status = "none"
     THEN record' = [record EXCEPT ![req[q].key] = NewRecord(q)] /\ Goto(q, "lock")
     ELSE Answer(q, Error(429)) /\ UNCHANGED record
  /\ UNCHANGED <<lock, cart, orders>> /\ Client

Respond(q, answer, pc) == req' = [req EXCEPT ![q].pc = pc, ![q].answer = answer]

\* withDistributedLock: the customer's other checkout makes this one fail with 423.
TakeLock(q) ==
  /\ At(q, "lock")
  /\ IF lock = None THEN lock' = q /\ Goto(q, "checkout")
     ELSE Respond(q, Error(423), "persist") /\ UNCHANGED lock
  /\ UNCHANGED <<record, cart, orders>> /\ Client

RunCheckout(q) ==
  /\ At(q, "checkout")
  /\ IF cart
     THEN orders' = orders \cup {q} /\ cart' = FALSE
          /\ Respond(q, [status |-> 201, order |-> q], "unlock")
     ELSE Respond(q, Error(400), "unlock") /\ UNCHANGED <<orders, cart>>
  /\ UNCHANGED <<record, lock>> /\ Client

CheckoutFails(q) ==
  /\ At(q, "checkout")
  /\ Spend("fail")
  /\ Respond(q, Error(500), "unlock")
  /\ UNCHANGED <<tab, keys, sent, record, lock, cart, orders>>

Unlock(q) ==
  /\ At(q, "unlock")
  /\ lock' = IF lock = q THEN None ELSE lock
  /\ Goto(q, "persist")
  /\ UNCHANGED <<record, cart, orders>> /\ Client

\* Mutant: a 5xx leaves the record in process.
PersistKeepsKey(q) ==
  /\ At(q, "persist")
  /\ record' = [record EXCEPT ![req[q].key] =
       IF @.status = "none" \/ @.id # q \/ req[q].answer.status >= 500 THEN @
       ELSE [@ EXCEPT !.status = "completed", !.answer = req[q].answer]]
  /\ Goto(q, "answered")
  /\ UNCHANGED <<lock, cart, orders>> /\ Client

\* res.json: the outcome is stored before it is sent; a 5xx frees the key. A record
\* that was taken over in the meantime is no longer there to be updated.
Persist(q) ==
  /\ At(q, "persist")
  /\ record' = [record EXCEPT ![req[q].key] =
       IF @.status = "none" \/ @.id # q THEN @
       ELSE IF req[q].answer.status >= 500 THEN NoRecord
       ELSE [@ EXCEPT !.status = "completed", !.answer = req[q].answer]]
  /\ Goto(q, "answered")
  /\ UNCHANGED <<lock, cart, orders>> /\ Client

\* The record cannot be written: the failure is logged and the answer sent.
PersistFails(q) ==
  /\ At(q, "persist")
  /\ Spend("persist")
  /\ Goto(q, "answered")
  /\ UNCHANGED <<tab, keys, sent, record, lock, cart, orders>>

Running(q) == req[q].pc \notin {"unsent", "answered", "crashed"}

Crash ==
  /\ \E q \in Requests : Running(q)
  /\ Spend("crash")
  /\ req' = [q \in Requests |-> IF Running(q) THEN [req[q] EXCEPT !.pc = "crashed"] ELSE req[q]]
  /\ lock' = None
  /\ UNCHANGED <<tab, keys, sent, record, cart, orders>>

\* STALE_PROCESSING_MS pass; a handler is normally over by then.
RecordAges(k) ==
  /\ record[k].status = "processing" /\ ~record[k].old
  /\ IF Running(record[k].id) THEN Spend("slow") ELSE UNCHANGED budget
  /\ record' = [record EXCEPT ![k].old = TRUE]
  /\ UNCHANGED <<tab, keys, sent, req, lock, cart, orders>>

-----------------------------------------------------------------------------
ServerStep(q) ==
  \/ FindKey(q) \/ DeleteStale(q) \/ CreateRecord(q) \/ TakeLock(q) \/ RunCheckout(q)
  \/ CheckoutFails(q) \/ Unlock(q) \/ Persist(q) \/ PersistFails(q)

Next ==
  \/ \E t \in Tabs : (\E b \in Bodies : PlaceOrder(t, b)) \/ ReceiveAnswer(t) \/ ConnectionLost(t)
  \/ \E q \in Requests : ServerStep(q)
  \/ \E k \in Keys : RecordAges(k)
  \/ Crash
  \/ RefillCart

Spec == Init /\ [][Next]_vars
-----------------------------------------------------------------------------
Answers == [status : {0, 201, 400, 423, 429, 500}, order : Requests \cup {None}]
Records ==
  {NoRecord} \cup [status : {"processing", "completed"}, id : Requests, body : Bodies,
                   old : BOOLEAN, answer : Answers]
PCs == {"unsent", "find", "delete", "create", "lock", "checkout", "unlock", "persist",
        "answered", "crashed"}

\* Every document and request is in a state its schema or code admits, and the customer's
\* lock is only ever held by a request inside withDistributedLock.
TypeOK ==
  /\ tab \in [Tabs -> [key : Keys, body : Bodies \cup {None}, req : Requests \cup {None}]]
  /\ keys \in 0..MaxKeys
  /\ sent \in 0..MaxRequests
  /\ req \in [Requests -> [pc : PCs, key : Keys \cup {0}, body : Bodies \cup {None},
                           stale : Requests \cup {None}, answer : Answers]]
  /\ record \in [Keys -> Records]
  /\ lock \in {None} \cup {q \in Requests : req[q].pc \in {"checkout", "unlock"}}
  /\ cart \in BOOLEAN
  /\ orders \subseteq Requests
  /\ budget \in [Events -> Nat]

Never(events) == \A e \in events : budget[e] = Budget[e]

\* "A retry with the same key and body returns the original order instead of creating a second
\* one": whatever is lost, refilled and retried, one key makes one order as long as no handler
\* dies, outlives the stale limit or fails to store its outcome.
OneOrderPerKey ==
  Never({"crash", "slow", "persist"}) =>
    \A q, o \in orders : req[q].key = req[o].key => q = o

\* ... and every answer to a key that made an order is that order, or asks for a later retry.
RetryReturnsOrder ==
  Never({"crash", "slow", "persist"}) =>
    \A o \in orders, q \in Requests :
      (At(q, "answered") /\ req[q].key = req[o].key)
        => req[q].answer.order = o \/ req[q].answer.status \in {429, 500}

\* Taking over an abandoned key admits one request, even if several find it abandoned at once.
OneHandlerPerKey ==
  Never({"slow"}) =>
    \A k \in Keys :
      Cardinality({q \in Requests : req[q].key = k
                     /\ req[q].pc \in {"lock", "checkout", "unlock", "persist"}}) <= 1

\* H3: no ended request leaves its key in process, where retries would meet 429 until it is stale.
KeyIsReleased ==
  Never({"persist"}) =>
    \A k \in Keys : record[k].status = "processing" =>
      Running(record[k].id) \/ At(record[k].id, "crashed")
=============================================================================
