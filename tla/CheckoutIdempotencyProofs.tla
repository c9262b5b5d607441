---------------------- MODULE CheckoutIdempotencyProofs ----------------------
(***************************************************************************)
(* Proofs about CheckoutIdempotency for any tabs, forms, requests and keys *)
(* and any number of lost answers, crashes, failures and refills.          *)
(*                                                                         *)
(* The argument: a key belongs to one tab and one form (OneBodyPerKey); a  *)
(* record belongs to the request that created it (RecordOfRequest); while  *)
(* no handler outlives the stale limit, a request past the index owns the  *)
(* record of its key (Owns), so an outcome once stored stays (Replayable). *)
(***************************************************************************)
EXTENDS CheckoutIdempotency, FiniteSetTheorems, TLAPS

\* Past the unique index and not answered yet.
Handling(q) == req[q].pc \in {"lock", "checkout", "unlock", "persist"}
Ended(q) == req[q].pc \in {"answered", "crashed"}
IsSent(q) == req[q].pc # "unsent"

Bounded == \A e \in Events : budget[e] <= Budget[e]

SentInOrder ==
  \A q \in Requests :
    /\ IsSent(q) <=> q <= sent
    /\ IsSent(q) => req[q].key \in 1..keys /\ req[q].body \in Bodies

TabsApart ==
  /\ \A t \in Tabs : tab[t].key <= keys
  /\ \A t, s \in Tabs : tab[t].key = tab[s].key => t = s

\* A key is only ever sent with one form, the one its tab remembers.
OneBodyPerKey ==
  \A q \in Requests : IsSent(q) =>
    /\ \A o \in Requests : IsSent(o) /\ req[o].key = req[q].key => req[o].body = req[q].body
    /\ \A t \in Tabs : tab[t].key = req[q].key => tab[t].body = req[q].body

OneHolder == \A q \in Requests : req[q].pc \in {"checkout", "unlock"} <=> lock = q

RecordOfRequest ==
  \A k \in Keys : record[k].status # "none" =>
    LET id == record[k].id
    IN  /\ req[id].key = k /\ req[id].body = record[k].body
        /\ Handling(id) \/ Ended(id)

Owns(q) == record[req[q].key].status = "processing" /\ record[req[q].key].id = q

\* What the stale limit buys: only what an ended request left behind is taken over.
InTime ==
  Never({"slow"}) =>
    /\ \A q \in Requests : Handling(q) => Owns(q)
    /\ \A k \in Keys : record[k].status = "processing" /\ record[k].old => Ended(record[k].id)
    /\ \A q \in Requests : At(q, "delete") => req[q].stale \in Requests /\ Ended(req[q].stale)

Stored(q) ==
  /\ record[req[q].key].status = "completed"
  /\ record[req[q].key].answer = req[q].answer

Replayable ==
  Never({"crash", "slow", "persist"}) =>
    /\ \A o \in orders :
         /\ req[o].answer = [status |-> 201, order |-> o]
         /\ \/ At(o, "unlock") \/ At(o, "persist")
            \/ At(o, "answered") /\ Stored(o) /\ record[req[o].key].id = o
    /\ \A q \in Requests : At(q, "answered") => req[q].answer.status \in {429, 500} \/ Stored(q)

IInv ==
  /\ TypeOK /\ Bounded /\ SentInOrder /\ TabsApart /\ OneBodyPerKey /\ OneHolder
  /\ RecordOfRequest /\ InTime /\ KeyIsReleased /\ Replayable

-----------------------------------------------------------------------------
(* Types and the first state *)

Documents == [pc : PCs, key : Keys \cup {0}, body : Bodies \cup {None},
              stale : Requests \cup {None}, answer : Answers]

\* newKey gives every tab a key of its own, so such a choice of first keys exists.
LEMMA FirstKeys ==
  /\ FirstKey \in [Tabs -> 1..Cardinality(Tabs)]
  /\ \A t, s \in Tabs : FirstKey[t] = FirstKey[s] => t = s
<1>1. /\ IsFiniteSet(Tabs) /\ IsFiniteSet(1..Cardinality(Tabs))
      /\ Cardinality(1..Cardinality(Tabs)) = Cardinality(Tabs)
  <2>1. Cardinality(Tabs) \in Nat
    BY FS_CardinalityType, IdempotencyAssumption
  <2> QED BY <2>1, FS_Interval, IdempotencyAssumption
<1>2. ExistsBijection(Tabs, 1..Cardinality(Tabs))
  BY <1>1, FS_SameCardinalityBij
<1>3. PICK f \in Bijection(Tabs, 1..Cardinality(Tabs)) : TRUE
  BY <1>2 DEF ExistsBijection
<1>4. f \in [Tabs -> 1..Cardinality(Tabs)] /\ \A t, s \in Tabs : f[t] = f[s] => t = s
  BY <1>3 DEF Bijection, Injection, IsInjective
<1> QED
  BY <1>4 DEF FirstKey

LEMMA InitInv == Init => IInv
<1> SUFFICES ASSUME Init PROVE IInv
  OBVIOUS
<1> USE IdempotencyAssumption
<1>1. Cardinality(Tabs) \in Nat
  BY FS_CardinalityType
<1>2. Cardinality(Tabs) <= MaxKeys /\ MaxKeys \in Nat
  BY <1>1
<1>3. TypeOK
  <2>1. \A t \in Tabs : FirstKey[t] \in Keys
    BY <1>1, <1>2, FirstKeys DEF Keys
  <2>2. tab \in [Tabs -> [key : Keys, body : Bodies \cup {None}, req : Requests \cup {None}]]
    BY <2>1 DEF Init
  <2>3. keys \in 0..MaxKeys /\ sent \in 0..MaxRequests
    BY <1>1, <1>2 DEF Init
  <2>4. Unsent \in Documents
    BY DEF Documents, Unsent, NoAnswer, None, PCs, Answers
  <2>5. req \in [Requests -> Documents]
    BY <2>4 DEF Init
  <2>6. record \in [Keys -> Records]
    BY DEF Init, Records
  <2> QED
    BY <2>2, <2>3, <2>5, <2>6 DEF Init, TypeOK, Documents
<1>4. Bounded
  BY DEF Init, Bounded
<1>5. \A q \in Requests : req[q].pc = "unsent" /\ ~(q <= sent)
  BY DEF Init, Unsent, Requests
<1>6. TabsApart
  BY <1>1, FirstKeys DEF Init, TabsApart
<1>7. \A k \in Keys : record[k].status = "none"
  BY DEF Init, NoRecord
<1>8. lock \notin Requests /\ orders = {}
  BY DEF Init, None, Requests
<1> QED
  <2>1. SentInOrder
    BY <1>5 DEF SentInOrder, IsSent, Requests
  <2>2. OneBodyPerKey /\ OneHolder
    BY <1>5, <1>8 DEF OneBodyPerKey, OneHolder, IsSent
  <2>3. RecordOfRequest /\ InTime /\ KeyIsReleased /\ Replayable
    BY <1>5, <1>7, <1>8 DEF RecordOfRequest, InTime, KeyIsReleased, Replayable, Handling, At
  <2> QED BY <1>3, <1>4, <1>6, <2>1, <2>2, <2>3 DEF IInv

-----------------------------------------------------------------------------
(* The customer *)

\* What the server's part of the invariant is about.
Server == <<req, record, lock, orders>>

\* A step that leaves the server alone and spends no fault keeps the server's part.
LEMMA ServerKept ==
  ASSUME IInv, UNCHANGED Server, TypeOK',
         \A e \in {"crash", "slow", "persist"} : budget'[e] = budget[e]
  PROVE  OneHolder' /\ RecordOfRequest' /\ InTime' /\ KeyIsReleased' /\ Replayable'
<1>1. \A events \in SUBSET {"crash", "slow", "persist"} : Never(events)' <=> Never(events)
  BY DEF Never
<1>2. OneHolder' /\ RecordOfRequest'
  BY DEF IInv, OneHolder, RecordOfRequest, Handling, Ended, Server
<1>3. InTime'
  BY <1>1 DEF IInv, InTime, Handling, Ended, Owns, At, Server
<1>4. KeyIsReleased'
  BY <1>1 DEF IInv, KeyIsReleased, Running, At, Server
<1>5. Replayable'
  BY <1>1 DEF IInv, Replayable, Stored, At, Server
<1> QED BY <1>2, <1>3, <1>4, <1>5

LEMMA SpendFacts ==
  ASSUME TypeOK, Bounded, NEW event \in Events, Spend(event)
  PROVE  /\ budget' \in [Events -> Nat] /\ Bounded'
         /\ \A e \in Events \ {event} : budget'[e] = budget[e]
         /\ budget'[event] < Budget[event]
<1>1. budget \in [Events -> Nat] /\ Budget \in [Events -> Nat] /\ budget[event] > 0
  BY IdempotencyAssumption DEF TypeOK, Spend
<1>2. /\ budget'[event] = budget[event] - 1
      /\ \A e \in Events \ {event} : budget'[e] = budget[e]
      /\ budget' \in [Events -> Nat]
  BY <1>1 DEF Spend
<1>3. \A e \in Events : budget[e] <= Budget[e]
  BY DEF Bounded
<1>4. \A e \in Events : budget[e] \in Nat /\ Budget[e] \in Nat
  BY <1>1
<1>5. \A e \in Events : budget'[e] <= Budget[e]
  BY <1>2, <1>3, <1>4
<1> QED BY <1>2, <1>3, <1>4, <1>5 DEF Bounded

\* An answer or its loss: the tab keeps its key and form, or starts afresh.
LEMMA TabDone ==
  ASSUME IInv, NEW t \in Tabs, Reset(t) \/ KeepKey(t), UNCHANGED <<sent, Server, cart>>,
         budget' \in [Events -> Nat], Bounded',
         \A e \in {"crash", "slow", "persist"} : budget'[e] = budget[e]
  PROVE  IInv'
<1> USE IdempotencyAssumption DEF IInv
<1>0. /\ keys \in 0..MaxKeys
      /\ tab \in [Tabs -> [key : Keys, body : Bodies \cup {None}, req : Requests \cup {None}]]
  BY DEF TypeOK
<1>1. /\ keys' \in 0..MaxKeys /\ keys' >= keys
      /\ tab' \in [Tabs -> [key : Keys, body : Bodies \cup {None}, req : Requests \cup {None}]]
      /\ \A s \in Tabs : s # t => tab'[s] = tab[s]
      /\ \/ tab'[t].key = keys + 1 /\ keys' = keys + 1
         \/ tab'[t].key = tab[t].key /\ tab'[t].body = tab[t].body
  <2>1. CASE Reset(t)
    <3>1. keys + 1 \in Keys /\ keys + 1 \in 0..MaxKeys
      BY <1>0, <2>1 DEF Reset, Keys
    <3> QED BY <1>0, <2>1, <3>1 DEF Reset
  <2>2. CASE KeepKey(t)
    BY <1>0, <2>2 DEF KeepKey
  <2> QED BY <2>1, <2>2
<1>2. TypeOK'
  BY <1>1 DEF TypeOK, Server
<1>3. SentInOrder'
  <2>1. keys \in Nat /\ keys' \in Nat
    BY <1>2 DEF TypeOK, Keys
  <2> QED BY <1>1, <2>1 DEF SentInOrder, IsSent, Server
<1>4. TabsApart'
  <2>1. keys \in Nat /\ \A s \in Tabs : tab[s].key \in Nat /\ tab[s].key <= keys
    BY <1>0 DEF TabsApart, Keys
  <2>2. \A s \in Tabs : tab'[s].key <= keys'
    BY <1>1, <2>1
  <2>3. \A s \in Tabs : s # t => tab[s].key # tab'[t].key
    BY <1>1, <2>1 DEF TabsApart
  <2> QED BY <1>1, <2>2, <2>3 DEF TabsApart
<1>5. OneBodyPerKey'
  <2>1. \A q \in Requests : IsSent(q) => req[q].key # keys + 1
    BY DEF TypeOK, SentInOrder, Keys
  <2> QED BY <1>1, <2>1 DEF OneBodyPerKey, IsSent, Server
<1> QED BY <1>2, <1>3, <1>4, <1>5, ServerKept

LEMMA ReceiveAnswerStep ==
  ASSUME IInv, NEW t \in Tabs, ReceiveAnswer(t) PROVE IInv'
<1>1. budget' \in [Events -> Nat] /\ Bounded'
  BY DEF IInv, TypeOK, ReceiveAnswer, Bounded
<1> QED BY <1>1, TabDone DEF ReceiveAnswer, Server

LEMMA ConnectionLostStep ==
  ASSUME IInv, NEW t \in Tabs, ConnectionLost(t) PROVE IInv'
<1>1. /\ budget' \in [Events -> Nat] /\ Bounded'
      /\ \A e \in {"crash", "slow", "persist"} : budget'[e] = budget[e]
  <2>1. CASE UNCHANGED budget
    BY <2>1 DEF IInv, TypeOK, Bounded
  <2>2. CASE Spend("lost")
    BY <2>2, SpendFacts DEF IInv, Events
  <2> QED BY <2>1, <2>2 DEF ConnectionLost
<1> QED BY <1>1, TabDone DEF ConnectionLost, Server

LEMMA RefillCartStep ==
  ASSUME IInv, RefillCart PROVE IInv'
<1>1. /\ budget' \in [Events -> Nat] /\ Bounded'
      /\ \A e \in {"crash", "slow", "persist"} : budget'[e] = budget[e]
  BY SpendFacts DEF IInv, Events, RefillCart
<1>2. TypeOK'
  BY <1>1 DEF IInv, TypeOK, RefillCart
<1>3. SentInOrder' /\ TabsApart' /\ OneBodyPerKey'
  BY DEF IInv, SentInOrder, TabsApart, OneBodyPerKey, IsSent, RefillCart
<1> QED BY <1>1, <1>2, <1>3, ServerKept DEF IInv, Server, RefillCart

LEMMA PlaceOrderStep ==
  ASSUME IInv, NEW t \in Tabs, NEW b \in Bodies, PlaceOrder(t, b) PROVE IInv'
<1> USE IdempotencyAssumption
<1> DEFINE fresh == tab[t].body \notin {None, b}
           k == IF fresh THEN keys + 1 ELSE tab[t].key
           n == sent + 1
<1>1. /\ keys \in 0..MaxKeys /\ sent \in 0..MaxRequests
      /\ tab \in [Tabs -> [key : Keys, body : Bodies \cup {None}, req : Requests \cup {None}]]
      /\ req \in [Requests -> Documents]
  BY DEF IInv, TypeOK, Documents
<1>2. /\ n \in Requests /\ n # lock /\ ~IsSent(n)
  <2>1. n \in Requests
    BY <1>1 DEF PlaceOrder, Requests
  <2>2. ~(n <= sent)
    BY <1>1
  <2>3. ~IsSent(n)
    BY <2>1, <2>2 DEF IInv, SentInOrder
  <2>4. lock # n
    BY <2>1, <2>3 DEF IInv, OneHolder, IsSent, TypeOK, None, Requests
  <2> QED BY <2>1, <2>3, <2>4
<1>3. /\ k \in Keys /\ keys' = (IF fresh THEN keys + 1 ELSE keys)
      /\ tab' = [tab EXCEPT ![t] = [key |-> k, body |-> b, req |-> n]]
      /\ req' = [req EXCEPT ![n] = [pc |-> "find", key |-> k, body |-> b, stale |-> None, answer |-> NoAnswer]]
      /\ sent' = sent + 1
      /\ UNCHANGED <<record, lock, cart, orders, budget>>
  BY DEF PlaceOrder
<1>4. k <= keys' /\ keys' >= keys /\ keys' \in 0..MaxKeys
  <2>1. CASE fresh
    BY <1>1, <1>3, <2>1 DEF Keys
  <2>2. CASE ~fresh
    BY <1>1, <1>3, <2>2 DEF IInv, TabsApart
  <2> QED BY <2>1, <2>2
<1>5. /\ \A s \in Tabs : s # t => tab'[s] = tab[s]
      /\ tab'[t].key = k /\ tab'[t].body = b
      /\ tab' \in [Tabs -> [key : Keys, body : Bodies \cup {None}, req : Requests \cup {None}]]
  <2> HIDE DEF k, n
  <2> QED BY <1>1, <1>2, <1>3
<1>6. /\ \A q \in Requests : q # n => req'[q] = req[q]
      /\ req'[n].key = k /\ req'[n].body = b /\ req'[n].pc = "find"
      /\ req' \in [Requests -> Documents]
  <2>1. [pc |-> "find", key |-> k, body |-> b, stale |-> None, answer |-> NoAnswer] \in Documents
    BY <1>3 DEF Documents, PCs, Answers, NoAnswer, None
  <2> HIDE DEF k, n
  <2> QED BY <1>1, <1>2, <1>3, <2>1
<1> HIDE DEF n
<1>7. TypeOK'
  <2>1. sent' \in 0..MaxRequests
    BY <1>1, <1>2, <1>3 DEF n, Requests
  <2>2. lock' \in {None} \cup {q \in Requests : req'[q].pc \in {"checkout", "unlock"}}
    BY <1>2, <1>3, <1>6 DEF IInv, TypeOK
  <2>3. record' \in [Keys -> Records] /\ cart' \in BOOLEAN /\ orders' \subseteq Requests /\ budget' \in [Events -> Nat]
    BY <1>3 DEF IInv, TypeOK
  <2> QED BY <1>4, <1>5, <1>6, <2>1, <2>2, <2>3 DEF TypeOK, Documents
<1>8. \A s \in Tabs : tab[s].key \in Nat /\ tab[s].key <= keys
  BY <1>1 DEF IInv, TabsApart, Keys
<1>9. k \in Nat /\ keys \in Nat /\ keys' \in Nat
  BY <1>1, <1>3, <1>4 DEF Keys
<1>10. SentInOrder'
  <2>1. \A q \in Requests : q \in Nat /\ n \in Nat /\ sent \in Nat /\ (q <= sent + 1 <=> q <= sent \/ q = n)
    BY <1>1 DEF Requests, n
  <2>2. \A q \in Requests : IsSent(q)' <=> IsSent(q) \/ q = n
    BY <1>2, <1>6 DEF IsSent
  <2>3. \A q \in Requests : IsSent(q)' => req'[q].key \in 1..keys' /\ req'[q].body \in Bodies
    <3>1. k \in 1..keys'
      BY <1>3, <1>4, <1>9 DEF Keys
    <3> HIDE DEF k
    <3> QED BY <1>4, <1>6, <1>9, <2>2, <3>1 DEF IInv, SentInOrder
  <2> QED BY <1>2, <1>3, <2>1, <2>2, <2>3 DEF IInv, SentInOrder
<1>11. \A s \in Tabs : s # t => tab[s].key # k
  <2>1. CASE fresh
    BY <1>8, <1>9, <2>1
  <2>2. CASE ~fresh
    BY <2>2 DEF IInv, TabsApart
  <2> QED BY <2>1, <2>2
<1>12. \A q \in Requests : IsSent(q) /\ req[q].key = k => req[q].body = b
  <2>1. CASE fresh
    BY <1>9, <2>1 DEF IInv, SentInOrder
  <2>2. CASE ~fresh
    BY <2>2 DEF IInv, OneBodyPerKey, SentInOrder
  <2> QED BY <2>1, <2>2
<1>13. TabsApart'
  <2> HIDE DEF k
  <2>1. \A s \in Tabs : tab'[s].key <= keys'
    BY <1>4, <1>5, <1>8, <1>9
  <2> QED BY <1>5, <1>11, <2>1 DEF IInv, TabsApart
<1>14. \A q \in Requests : IsSent(q)' <=> IsSent(q) \/ q = n
  BY <1>2, <1>6 DEF IsSent
<1>15. OneBodyPerKey'
  <2> HIDE DEF k
  <2>1. \A q, o \in Requests : IsSent(q)' /\ IsSent(o)' /\ req'[o].key = req'[q].key => req'[o].body = req'[q].body
    BY <1>6, <1>12, <1>14 DEF IInv, OneBodyPerKey
  <2>2. \A q \in Requests : IsSent(q)' => \A s \in Tabs : tab'[s].key = req'[q].key => tab'[s].body = req'[q].body
    BY <1>5, <1>6, <1>11, <1>12, <1>14 DEF IInv, OneBodyPerKey
  <2> QED BY <2>1, <2>2 DEF OneBodyPerKey
<1>16. \A q \in Requests :
         /\ (Handling(q)' <=> Handling(q)) /\ (Handling(q) => q # n)
         /\ (Ended(q)' <=> Ended(q)) /\ (Ended(q) => q # n)
  BY <1>2, <1>6 DEF Handling, Ended, IsSent
<1>17. OneHolder'
  BY <1>2, <1>3, <1>6 DEF IInv, OneHolder
<1>18. \A r \in Keys : record[r].status # "none" => record[r].id \in Requests /\ record[r].id # n
  BY <1>16 DEF IInv, RecordOfRequest, TypeOK, Records, NoRecord
<1>19. RecordOfRequest'
  BY <1>3, <1>6, <1>16, <1>18 DEF IInv, RecordOfRequest
<1>20. \A events : Never(events)' <=> Never(events)
  BY <1>3 DEF Never
<1>21. InTime'
  BY <1>3, <1>6, <1>16, <1>18, <1>20 DEF IInv, InTime, Owns, At
<1>22. KeyIsReleased'
  BY <1>3, <1>6, <1>18, <1>20 DEF IInv, KeyIsReleased, Running, At
<1>23. Replayable'
  <2>1. \A q \in Requests : q # n => (Stored(q)' <=> Stored(q)) /\ \A pc \in PCs : At(q, pc)' <=> At(q, pc)
    BY <1>3, <1>6 DEF Stored, At
  <2>2. \A q \in Requests : At(q, "answered")' => At(q, "answered") /\ q # n
    BY <1>6 DEF At
  <2>3. \A o \in Requests : At(o, "unlock") \/ At(o, "persist") \/ At(o, "answered") => o # n
    BY <1>2 DEF At, IsSent
  <2>4. orders \subseteq Requests
    BY DEF IInv, TypeOK
  <2> QED BY <1>3, <1>6, <1>20, <2>1, <2>2, <2>3, <2>4 DEF IInv, Replayable, PCs
<1> QED BY <1>3, <1>7, <1>10, <1>13, <1>15, <1>17, <1>19, <1>21, <1>22, <1>23 DEF IInv, Bounded

-----------------------------------------------------------------------------
(* The server: a step of one request *)

Documented == req \in [Requests -> Documents]

\* What every statement of a handler does to its request: the key and the form stay.
Moves(q, pc, answer, stale) ==
  /\ Documented' /\ IsSent(q) /\ pc # "unsent"
  /\ \A o \in Requests : o # q => req'[o] = req[o]
  /\ req'[q].key = req[q].key /\ req'[q].body = req[q].body
  /\ req'[q].pc = pc /\ req'[q].answer = answer /\ req'[q].stale = stale

LEMMA ChangeMoves ==
  ASSUME Documented, NEW q \in Requests, IsSent(q), NEW pc \in PCs, pc # "unsent",
         NEW answer \in Answers, NEW stale \in Requests \cup {None}
  PROVE  /\ Goto(q, pc) => Moves(q, pc, req[q].answer, req[q].stale)
         /\ Respond(q, answer, pc) => Moves(q, pc, answer, req[q].stale)
         /\ Answer(q, answer) => Moves(q, "answered", answer, req[q].stale)
         /\ req' = [req EXCEPT ![q].pc = pc, ![q].stale = stale] => Moves(q, pc, req[q].answer, stale)
  BY DEF Documented, Documents, Goto, Respond, Answer, Moves, PCs

\* The client's part of the invariant does not look at the progress of a request.
LEMMA ClientKept ==
  ASSUME IInv, NEW q \in Requests, NEW pc, NEW answer, NEW stale, Moves(q, pc, answer, stale),
         UNCHANGED <<tab, keys, sent>>
  PROVE  SentInOrder' /\ TabsApart' /\ OneBodyPerKey'
<1>1. \A o \in Requests : (IsSent(o)' <=> IsSent(o)) /\ req'[o].key = req[o].key /\ req'[o].body = req[o].body
  BY DEF Moves, IsSent
<1> QED BY <1>1 DEF IInv, SentInOrder, TabsApart, OneBodyPerKey

\* Records and requests are typed, and a request that is under way has its key and form.
LEMMA TypeFacts ==
  ASSUME IInv
  PROVE  /\ Documented /\ record \in [Keys -> Records] /\ orders \subseteq Requests
         /\ \A q \in Requests : IsSent(q) => req[q].key \in Keys /\ req[q].body \in Bodies
         /\ lock \in Requests \cup {None} /\ None \notin Requests
         /\ budget \in [Events -> Nat]
<1>1. keys \in 0..MaxKeys /\ MaxKeys \in Nat
  BY IdempotencyAssumption DEF IInv, TypeOK
<1>2. \A q \in Requests : IsSent(q) => req[q].key \in Keys /\ req[q].body \in Bodies
  BY <1>1 DEF IInv, SentInOrder, Keys
<1> QED BY <1>2 DEF IInv, TypeOK, Documented, Documents, None, Requests

\* A record that is there was created by a request, and a stored one is no longer in process.
LEMMA RecordFacts ==
  ASSUME IInv, NEW k \in Keys
  PROVE  \/ record[k].status = "none" /\ record[k] = NoRecord
         \/ /\ record[k].status \in {"processing", "completed"}
            /\ record[k] \in [status : {"processing", "completed"}, id : Requests, body : Bodies,
                              old : BOOLEAN, answer : Answers]
            /\ req[record[k].id].key = k /\ req[record[k].id].body = record[k].body
            /\ Handling(record[k].id) \/ Ended(record[k].id)
  BY TypeFacts DEF IInv, RecordOfRequest, Records, NoRecord

\* TypeOK after a step of a request.
LEMMA TypesKept ==
  ASSUME IInv, NEW q \in Requests, NEW pc, NEW answer, NEW stale, Moves(q, pc, answer, stale),
         UNCHANGED <<tab, keys, sent>>, record' \in [Keys -> Records],
         lock' \in Requests \cup {None}, OneHolder', cart' \in BOOLEAN,
         orders' \subseteq Requests, budget' \in [Events -> Nat]
  PROVE  TypeOK'
<1>1. lock' \in {None} \cup {o \in Requests : req'[o].pc \in {"checkout", "unlock"}}
  BY DEF OneHolder
<1> QED BY <1>1 DEF IInv, TypeOK, Moves, Documented, Documents

\* A step that leaves records, lock, cart, orders and faults alone and takes q to another
\* statement before the unique index, or answers it.
LEMMA BeforeTheIndex ==
  ASSUME IInv, NEW q \in Requests, NEW pc \in {"create", "delete", "answered"},
         NEW answer, NEW stale, Moves(q, pc, answer, stale),
         At(q, "find") \/ At(q, "create"), UNCHANGED <<tab, keys, sent, record, lock, cart, orders, budget>>,
         pc = "delete" => stale \in Requests /\ (Never({"slow"}) => Ended(stale)),
         pc = "answered" =>
           \/ answer.status \in {429, 500}
           \/ record[req[q].key].status = "completed" /\ record[req[q].key].answer = answer
  PROVE  IInv'
<1> USE TypeFacts
<1>1. \A events : Never(events)' <=> Never(events)
  BY DEF Never
<1>2. OneHolder'
  BY DEF IInv, OneHolder, Moves, At
<1>3. TypeOK'
  <2>1. cart \in BOOLEAN
    BY DEF IInv, TypeOK
  <2> QED BY <1>2, <2>1, TypesKept
<1>4. /\ \A o \in Requests : Handling(o)' <=> Handling(o)
      /\ ~Handling(q) /\ ~Ended(q) /\ \A o \in Requests : Ended(o) => Ended(o)'
      /\ \A o \in Requests : req'[o].key = req[o].key /\ req'[o].body = req[o].body
  BY DEF Handling, Ended, Moves, At
<1>5. RecordOfRequest'
  <2>1. \A k \in Keys : record[k].status # "none" => record[k].id \in Requests
    BY RecordFacts
  <2> QED BY <1>4, <2>1 DEF IInv, RecordOfRequest
<1>6. InTime'
  <2> SUFFICES ASSUME Never({"slow"}) PROVE InTime'
    BY <1>1 DEF InTime
  <2>1. \A o \in Requests : Handling(o)' => Owns(o)'
    BY <1>4 DEF IInv, InTime, Owns
  <2>2. \A k \in Keys : record[k].status = "processing" /\ record[k].old => record[k].id \in Requests /\ Ended(record[k].id)'
    BY <1>4, RecordFacts DEF IInv, InTime
  <2>3. \A o \in Requests : At(o, "delete")' => req'[o].stale \in Requests /\ Ended(req[o].stale)'
    <3>1. \A o \in Requests \ {q} : At(o, "delete")' =>
            req[o].stale \in Requests /\ req'[o].stale = req[o].stale /\ Ended(req[o].stale)
      BY DEF IInv, InTime, At, Moves
    <3>2. At(q, "delete")' => stale \in Requests /\ req'[q].stale = stale /\ Ended(stale)
      BY DEF At, Moves
    <3>3. \A o, p \in Requests : Ended(o) /\ req'[p].stale = o => Ended(req[p].stale)'
      BY <1>4 DEF Ended
    <3> QED BY <3>1, <3>2, <3>3
  <2> QED BY <2>1, <2>2, <2>3 DEF InTime
<1>7. KeyIsReleased'
  <2>1. \A k \in Keys : record[k].status = "processing" => record[k].id # q /\ record[k].id \in Requests
    BY <1>4, RecordFacts
  <2> QED BY <1>1, <2>1 DEF IInv, KeyIsReleased, Running, At, Moves
<1>8. Replayable'
  <2> SUFFICES ASSUME Never({"crash", "slow", "persist"}) PROVE Replayable'
    BY <1>1 DEF Replayable
  <2>1. q \notin orders
    BY DEF IInv, Replayable, At
  <2>2. \A o \in Requests \ {q} : (Stored(o)' <=> Stored(o)) /\ req'[o] = req[o]
    BY DEF Stored, Moves
  <2>3. At(q, "answered")' => req'[q].answer.status \in {429, 500} \/ Stored(q)'
    BY DEF At, Moves, Stored
  <2> QED BY <2>1, <2>2, <2>3 DEF IInv, Replayable, At
<1>9. SentInOrder' /\ TabsApart' /\ OneBodyPerKey'
  BY ClientKept
<1> QED BY <1>2, <1>3, <1>5, <1>6, <1>7, <1>8, <1>9 DEF IInv, Bounded

LEMMA FindKeyStep ==
  ASSUME IInv, NEW q \in Requests, FindKey(q) PROVE IInv'
<1> USE TypeFacts
<1> DEFINE rec == record[req[q].key]
<1>1. At(q, "find") /\ IsSent(q) /\ UNCHANGED <<tab, keys, sent, record, lock, cart, orders, budget>>
  BY DEF FindKey, At, IsSent, Client
<1>2. \/ rec.status = "none" /\ Goto(q, "create")
      \/ rec.status # "none" /\ rec.body # req[q].body /\ Answer(q, Error(400))
      \/ rec.status = "completed" /\ rec.body = req[q].body /\ Answer(q, rec.answer)
      \/ rec.status = "processing" /\ rec.body = req[q].body /\ ~rec.old /\ Answer(q, Error(429))
      \/ /\ rec.status # "none" /\ rec.status # "completed" /\ (rec.status = "processing" => rec.old)
         /\ req' = [req EXCEPT ![q].pc = "delete", ![q].stale = rec.id]
  <2>1. rec.status = "none" \/ rec.status = "processing" \/ rec.status = "completed"
    BY <1>1, RecordFacts
  <2> HIDE DEF rec
  <2>2. CASE rec.status = "none"
    BY <2>2 DEF FindKey, rec
  <2>3. CASE rec.status # "none" /\ rec.body # req[q].body
    BY <2>3 DEF FindKey, rec
  <2>4. CASE rec.status = "completed" /\ rec.body = req[q].body
    BY <2>4 DEF FindKey, rec
  <2>5. CASE rec.status = "processing" /\ rec.body = req[q].body /\ ~rec.old
    BY <2>5 DEF FindKey, rec
  <2>6. CASE rec.status = "processing" /\ rec.body = req[q].body /\ rec.old
    BY <2>6 DEF FindKey, rec
  <2> QED BY <2>1, <2>2, <2>3, <2>4, <2>5, <2>6
<1>3. Error(400) \in Answers /\ Error(429) \in Answers /\ Error(429).status = 429
  BY DEF Error, Answers
<1>4. req[q].key \in Keys /\ (rec.status # "none" => rec.id \in Requests /\ rec.answer \in Answers /\ rec.body = req[q].body)
  <2>1. req[q].key \in Keys
    BY <1>1
  <2>2. ASSUME rec.status # "none"
        PROVE  rec.id \in Requests /\ rec.answer \in Answers /\ rec.body = req[q].body
    <3>1. /\ rec.id \in Requests /\ rec.answer \in Answers
          /\ req[rec.id].key = req[q].key /\ req[rec.id].body = rec.body
          /\ Handling(rec.id) \/ Ended(rec.id)
      BY <2>1, <2>2, RecordFacts
    <3> HIDE DEF rec
    <3>2. IsSent(rec.id)
      BY <3>1 DEF Handling, Ended, IsSent
    <3> QED BY <1>1, <3>1, <3>2 DEF IInv, OneBodyPerKey
  <2> QED BY <2>1, <2>2
<1>5. req[q].stale \in Requests \cup {None} /\ req[q].answer \in Answers
  BY DEF Documented, Documents
<1>6. CASE rec.status = "none" /\ Goto(q, "create")
  <2>1. Moves(q, "create", req[q].answer, req[q].stale)
    BY <1>1, <1>5, <1>6, ChangeMoves DEF PCs
  <2> QED BY <1>1, <2>1, BeforeTheIndex
<1>7. CASE rec.status = "completed" /\ rec.body = req[q].body /\ Answer(q, rec.answer)
  <2>1. Moves(q, "answered", rec.answer, req[q].stale)
    BY <1>1, <1>4, <1>5, <1>7, ChangeMoves DEF PCs
  <2> QED BY <1>1, <1>7, <2>1, BeforeTheIndex
<1>8. CASE Answer(q, Error(429))
  <2>1. PICK a \in Answers : a = Error(429)
    BY <1>3
  <2>2. Moves(q, "answered", a, req[q].stale)
    BY <1>1, <1>5, <1>8, <2>1, ChangeMoves DEF PCs
  <2> QED BY <1>1, <1>3, <2>1, <2>2, BeforeTheIndex
<1>9. CASE /\ rec.status # "none" /\ rec.status # "completed" /\ (rec.status = "processing" => rec.old)
           /\ req' = [req EXCEPT ![q].pc = "delete", ![q].stale = rec.id]
  <2>1. Moves(q, "delete", req[q].answer, rec.id)
    BY <1>1, <1>4, <1>5, <1>9, ChangeMoves DEF PCs
  <2>2. Never({"slow"}) => Ended(rec.id)
    BY <1>4, <1>9, RecordFacts DEF IInv, InTime
  <2> QED BY <1>1, <1>4, <1>9, <2>1, <2>2, BeforeTheIndex
<1> QED BY <1>2, <1>4, <1>6, <1>7, <1>8, <1>9

\* Steps between the unique index and the storing of the outcome.
LEMMA Inside ==
  ASSUME IInv, NEW q \in Requests, Handling(q),
         NEW pc \in {"checkout", "unlock", "persist"}, NEW answer, NEW stale, Moves(q, pc, answer, stale),
         UNCHANGED <<tab, keys, sent, record>>, OneHolder',
         lock' \in Requests \cup {None}, cart' \in BOOLEAN, budget' \in [Events -> Nat], Bounded',
         \A e \in {"crash", "slow", "persist"} : budget'[e] = budget[e],
         orders' \subseteq orders \cup {q},
         q \in orders' /\ Never({"crash", "slow", "persist"}) =>
           answer = [status |-> 201, order |-> q] /\ pc \in {"unlock", "persist"}
  PROVE  IInv'
<1> USE TypeFacts
<1>1. \A events \in SUBSET {"crash", "slow", "persist"} : Never(events)' <=> Never(events)
  BY DEF Never
<1>2. TypeOK'
  BY TypesKept
<1>3. /\ \A o \in Requests : (Handling(o)' <=> Handling(o)) /\ (Ended(o)' <=> Ended(o))
      /\ \A o \in Requests : req'[o].key = req[o].key /\ req'[o].body = req[o].body
      /\ \A o \in Requests : At(o, "delete")' => At(o, "delete") /\ req'[o].stale = req[o].stale
      /\ \A o \in Requests : At(o, "answered")' => o # q
  BY DEF Handling, Ended, Moves, At
<1>4. \A k \in Keys : record[k].status # "none" => record[k].id \in Requests
  BY RecordFacts
<1>5. RecordOfRequest'
  BY <1>3, <1>4 DEF IInv, RecordOfRequest
<1>6. InTime'
  <2> SUFFICES ASSUME Never({"slow"}) PROVE InTime'
    BY <1>1 DEF InTime
  <2>1. \A o \in Requests : Handling(o)' => Owns(o)'
    BY <1>3 DEF IInv, InTime, Owns
  <2>2. \A k \in Keys : record[k].status = "processing" /\ record[k].old => Ended(record[k].id)'
    BY <1>3, <1>4 DEF IInv, InTime
  <2>3. \A o \in Requests : At(o, "delete")' => req'[o].stale \in Requests /\ Ended(req[o].stale)'
    BY <1>3 DEF IInv, InTime
  <2>4. \A o \in Requests : At(o, "delete")' => (req'[o].stale = req[o].stale)
    BY <1>3
  <2> QED BY <2>1, <2>2, <2>3, <2>4 DEF InTime, Ended
<1>7. KeyIsReleased'
  <2>1. \A o \in Requests : (Running(o) \/ At(o, "crashed")) => (Running(o)' \/ At(o, "crashed")')
    BY DEF Running, At, Moves
  <2> QED BY <1>1, <1>4, <2>1 DEF IInv, KeyIsReleased
<1>8. Replayable'
  <2> SUFFICES ASSUME Never({"crash", "slow", "persist"}) PROVE Replayable'
    BY <1>1 DEF Replayable
  <2>1. \A o \in Requests \ {q} : (Stored(o)' <=> Stored(o)) /\ req'[o] = req[o]
    BY DEF Stored, Moves
  <2>2. q \in orders' => req'[q].answer = [status |-> 201, order |-> q] /\ (At(q, "unlock")' \/ At(q, "persist")')
    BY DEF Moves, At
  <2> QED BY <1>3, <2>1, <2>2 DEF IInv, Replayable, At
<1>9. SentInOrder' /\ TabsApart' /\ OneBodyPerKey'
  BY ClientKept
<1> QED BY <1>2, <1>5, <1>6, <1>7, <1>8, <1>9 DEF IInv

\* No request that has not run its checkout has an order, while none is lost on the way.
LEMMA NoOrderYet ==
  ASSUME IInv, NEW q \in orders, Never({"crash", "slow", "persist"})
  PROVE  /\ At(q, "unlock") \/ At(q, "persist") \/ At(q, "answered")
         /\ req[q].answer = [status |-> 201, order |-> q]
  BY DEF IInv, Replayable

LEMMA TakeLockStep ==
  ASSUME IInv, NEW q \in Requests, TakeLock(q) PROVE IInv'
<1> USE TypeFacts
<1>1. /\ At(q, "lock") /\ Handling(q) /\ IsSent(q)
      /\ UNCHANGED <<tab, keys, sent, record, cart, orders, budget>>
  BY DEF TakeLock, At, IsSent, Handling, Client
<1>2. budget' \in [Events -> Nat] /\ Bounded' /\ cart' \in BOOLEAN
  BY <1>1 DEF IInv, TypeOK, Bounded
<1>3. req[q].stale \in Requests \cup {None} /\ req[q].answer \in Answers
  BY DEF Documented, Documents
<1>4. q \in orders' => ~Never({"crash", "slow", "persist"})
  BY <1>1, NoOrderYet DEF At
<1>5. CASE lock = None
  <2>1. lock' = q /\ Goto(q, "checkout")
    BY <1>5 DEF TakeLock
  <2>2. Moves(q, "checkout", req[q].answer, req[q].stale)
    BY <1>1, <1>3, <2>1, ChangeMoves DEF PCs
  <2>3. OneHolder'
    BY <1>5, <2>1, <2>2 DEF IInv, OneHolder, Moves
  <2> QED BY <1>1, <1>2, <1>4, <2>1, <2>2, <2>3, Inside
<1>6. CASE lock # None
  <2>1. PICK a \in Answers : a = Error(423)
    BY DEF Answers, Error
  <2>2. lock' = lock /\ Respond(q, a, "persist")
    BY <1>6, <2>1 DEF TakeLock
  <2>3. Moves(q, "persist", a, req[q].stale)
    BY <1>1, <1>3, <2>2, ChangeMoves DEF PCs
  <2>4. OneHolder'
    BY <1>1, <2>2, <2>3 DEF IInv, OneHolder, Moves, At
  <2> QED BY <1>1, <1>2, <1>4, <2>2, <2>3, <2>4, Inside
<1> QED BY <1>5, <1>6

LEMMA RunCheckoutStep ==
  ASSUME IInv, NEW q \in Requests, RunCheckout(q) PROVE IInv'
<1> USE TypeFacts
<1>1. /\ At(q, "checkout") /\ Handling(q) /\ IsSent(q)
      /\ UNCHANGED <<tab, keys, sent, record, lock, budget>>
  BY DEF RunCheckout, At, IsSent, Handling, Client
<1>2. budget' \in [Events -> Nat] /\ Bounded'
  BY <1>1 DEF IInv, TypeOK, Bounded
<1>3. req[q].stale \in Requests \cup {None}
  BY DEF Documented, Documents
<1>4. CASE cart
  <2>1. PICK a \in Answers : a = [status |-> 201, order |-> q]
    BY DEF Answers
  <2>2. orders' = orders \cup {q} /\ cart' = FALSE /\ Respond(q, a, "unlock")
    BY <1>4, <2>1 DEF RunCheckout
  <2>3. Moves(q, "unlock", a, req[q].stale)
    BY <1>1, <1>3, <2>2, ChangeMoves DEF PCs
  <2>4. OneHolder'
    BY <1>1, <2>3 DEF IInv, OneHolder, Moves, At
  <2> QED BY <1>1, <1>2, <2>1, <2>2, <2>3, <2>4, Inside
<1>5. CASE ~cart
  <2>1. PICK a \in Answers : a = Error(400)
    BY DEF Answers, Error
  <2>2. UNCHANGED <<orders, cart>> /\ Respond(q, a, "unlock")
    BY <1>5, <2>1 DEF RunCheckout
  <2>3. Moves(q, "unlock", a, req[q].stale)
    BY <1>1, <1>3, <2>2, ChangeMoves DEF PCs
  <2>4. OneHolder'
    BY <1>1, <2>3 DEF IInv, OneHolder, Moves, At
  <2>5. q \in orders' => ~Never({"crash", "slow", "persist"})
    BY <1>1, <2>2, NoOrderYet DEF At
  <2>6. cart' \in BOOLEAN
    BY <2>2 DEF IInv, TypeOK
  <2> QED BY <1>1, <1>2, <2>2, <2>3, <2>4, <2>5, <2>6, Inside
<1> QED BY <1>4, <1>5

LEMMA CheckoutFailsStep ==
  ASSUME IInv, NEW q \in Requests, CheckoutFails(q) PROVE IInv'
<1> USE TypeFacts
<1>1. /\ At(q, "checkout") /\ Handling(q) /\ IsSent(q) /\ Spend("fail")
      /\ UNCHANGED <<tab, keys, sent, record, lock, cart, orders>>
  BY DEF CheckoutFails, At, IsSent, Handling
<1>2. /\ budget' \in [Events -> Nat] /\ Bounded' /\ cart' \in BOOLEAN
      /\ \A e \in {"crash", "slow", "persist"} : budget'[e] = budget[e]
  BY <1>1, SpendFacts DEF IInv, TypeOK, Events
<1>3. PICK a \in Answers : a = Error(500)
  BY DEF Answers, Error
<1>4. Moves(q, "unlock", a, req[q].stale)
  <2>1. req[q].stale \in Requests \cup {None}
    BY DEF Documented, Documents
  <2>2. Respond(q, a, "unlock")
    BY <1>3 DEF CheckoutFails
  <2> QED BY <1>1, <2>1, <2>2, ChangeMoves DEF PCs
<1>5. OneHolder'
  BY <1>1, <1>4 DEF IInv, OneHolder, Moves, At
<1>6. q \in orders' => ~Never({"crash", "slow", "persist"})
  BY <1>1, NoOrderYet DEF At
<1> QED BY <1>1, <1>2, <1>4, <1>5, <1>6, Inside

LEMMA UnlockStep ==
  ASSUME IInv, NEW q \in Requests, Unlock(q) PROVE IInv'
<1> USE TypeFacts
<1>1. /\ At(q, "unlock") /\ Handling(q) /\ IsSent(q) /\ lock = q /\ lock' = None
      /\ UNCHANGED <<tab, keys, sent, record, cart, orders, budget>>
  BY DEF IInv, OneHolder, Unlock, At, IsSent, Handling, Client
<1>2. budget' \in [Events -> Nat] /\ Bounded' /\ cart' \in BOOLEAN
  BY <1>1 DEF IInv, TypeOK, Bounded
<1>3. Moves(q, "persist", req[q].answer, req[q].stale)
  <2>1. req[q].stale \in Requests \cup {None} /\ req[q].answer \in Answers
    BY DEF Documented, Documents
  <2> QED BY <1>1, <2>1, ChangeMoves DEF PCs, Unlock
<1>4. OneHolder'
  BY <1>1, <1>3 DEF IInv, OneHolder, Moves
<1>5. q \in orders' /\ Never({"crash", "slow", "persist"}) => req[q].answer = [status |-> 201, order |-> q]
  BY <1>1, NoOrderYet
<1> QED BY <1>1, <1>2, <1>3, <1>4, <1>5, Inside

\* What a step of q that changes at most the record of its key leaves as it was.
LEMMA OneRecordMoves ==
  ASSUME IInv, NEW q \in Requests, NEW pc, NEW answer, NEW stale, Moves(q, pc, answer, stale),
         NEW rec, record' = [record EXCEPT ![req[q].key] = rec], ~Ended(q)
  PROVE  /\ record'[req[q].key] = rec /\ \A k \in Keys : k # req[q].key => record'[k] = record[k]
         /\ \A o \in Requests : req'[o].key = req[o].key /\ req'[o].body = req[o].body
         /\ \A o \in Requests : o # q =>
              (Handling(o)' <=> Handling(o)) /\ (Ended(o)' <=> Ended(o)) /\ req'[o] = req[o]
         /\ \A o \in Requests : Ended(o) => Ended(o)'
  BY TypeFacts DEF Moves, Handling, Ended

LEMMA DeleteStaleStep ==
  ASSUME IInv, NEW q \in Requests, DeleteStale(q) PROVE IInv'
<1> USE TypeFacts
<1> DEFINE k == req[q].key
           gone == record[k].status = "processing" /\ record[k].id = req[q].stale
           rec == IF gone THEN NoRecord ELSE record[k]
<1>1. /\ At(q, "delete") /\ IsSent(q) /\ ~Ended(q) /\ ~Handling(q) /\ k \in Keys
      /\ UNCHANGED <<tab, keys, sent, lock, cart, orders, budget>>
      /\ record' = [record EXCEPT ![k] = rec]
  BY DEF DeleteStale, At, IsSent, Ended, Handling, Client
<1>2. Moves(q, "create", req[q].answer, req[q].stale)
  <2>1. req[q].stale \in Requests \cup {None} /\ req[q].answer \in Answers
    BY DEF Documented, Documents
  <2> QED BY <1>1, <2>1, ChangeMoves DEF PCs, DeleteStale
<1> HIDE DEF rec
<1>3. /\ record'[k] = rec /\ \A j \in Keys : j # k => record'[j] = record[j]
      /\ \A o \in Requests : req'[o].key = req[o].key /\ req'[o].body = req[o].body
      /\ \A o \in Requests : o # q =>
           (Handling(o)' <=> Handling(o)) /\ (Ended(o)' <=> Ended(o)) /\ req'[o] = req[o]
      /\ \A o \in Requests : Ended(o) => Ended(o)'
  BY <1>1, <1>2, OneRecordMoves
<1>4. \A j \in Keys : record'[j] = record[j] \/ (j = k /\ gone /\ record'[j] = NoRecord)
  BY <1>3 DEF rec
<1>5. \A o \in Requests : (Handling(o)' <=> Handling(o)) /\ (Handling(o) => o # q)
  BY <1>1, <1>2, <1>3 DEF Handling, Moves
<1>6. OneHolder'
  BY <1>1, <1>2, <1>3 DEF IInv, OneHolder, Moves, At
<1>7. NoRecord \in Records /\ NoRecord.status = "none"
  BY DEF Records, NoRecord
<1>8. TypeOK'
  <2>1. record' \in [Keys -> Records]
    BY <1>1, <1>4, <1>7
  <2> QED BY <1>1, <1>2, <1>6, <2>1, TypesKept DEF IInv, TypeOK
<1>9. \A events : Never(events)' <=> Never(events)
  BY <1>1 DEF Never
<1>10. \A j \in Keys : record[j].status # "none" => record[j].id \in Requests
  BY RecordFacts
<1>11. RecordOfRequest'
  BY <1>3, <1>4, <1>5, <1>7, <1>10 DEF IInv, RecordOfRequest
<1>12. InTime'
  <2> SUFFICES ASSUME Never({"slow"}) PROVE InTime'
    BY <1>9 DEF InTime
  <2>1. \A o \in Requests : Handling(o)' => Owns(o)'
    <3>1. Ended(req[q].stale)
      BY <1>1 DEF IInv, InTime
    <3>2. \A o \in Requests : Handling(o) => Owns(o) /\ o # req[q].stale /\ req[o].key \in Keys
      BY <3>1 DEF IInv, InTime, Handling, Ended, IsSent
    <3> QED BY <1>3, <1>4, <1>5, <3>2 DEF Owns
  <2>2. \A j \in Keys : record'[j].status = "processing" /\ record'[j].old =>
          record'[j].id = record[j].id /\ Ended(record[j].id)'
    BY <1>3, <1>4, <1>7, <1>10 DEF IInv, InTime
  <2>3. \A o \in Requests : At(o, "delete")' => req'[o].stale = req[o].stale /\ req[o].stale \in Requests /\ Ended(req[o].stale)'
    BY <1>2, <1>3 DEF IInv, InTime, At, Moves
  <2> QED BY <2>1, <2>2, <2>3 DEF InTime, Ended
<1>13. KeyIsReleased'
  <2>1. \A j \in Keys : record[j].status = "processing" => record[j].id # q
    BY <1>1, RecordFacts
  <2> QED BY <1>3, <1>4, <1>7, <1>9, <1>10, <2>1 DEF IInv, KeyIsReleased, Running, At
<1>14. Replayable'
  <2> SUFFICES ASSUME Never({"crash", "slow", "persist"}) PROVE Replayable'
    BY <1>9 DEF Replayable
  <2>1. \A o \in Requests : At(o, "answered")' => At(o, "answered") /\ o # q /\ req[o].key \in Keys
    BY <1>2, <1>3 DEF At, Moves, IsSent
  <2>2. \A o \in Requests : Stored(o) /\ req[o].key \in Keys /\ o # q =>
          Stored(o)' /\ record'[req[o].key] = record[req[o].key]
    BY <1>3, <1>4 DEF Stored
  <2>3. q \notin orders
    BY <1>1, NoOrderYet DEF At
  <2>4. \A o \in orders : o # q /\ o \in Requests /\ req[o].key \in Keys
    BY <2>3, NoOrderYet DEF At, IsSent
  <2>5. \A o \in orders :
          /\ req'[o].answer = [status |-> 201, order |-> o]
          /\ \/ At(o, "unlock")' \/ At(o, "persist")'
             \/ At(o, "answered")' /\ Stored(o)' /\ record'[req'[o].key].id = o
    <3> SUFFICES ASSUME NEW o \in orders
                 PROVE  /\ req'[o].answer = [status |-> 201, order |-> o]
                        /\ \/ At(o, "unlock")' \/ At(o, "persist")'
                           \/ At(o, "answered")' /\ Stored(o)' /\ record'[req'[o].key].id = o
      OBVIOUS
    <3>1. o # q /\ o \in Requests /\ req[o].key \in Keys /\ req'[o] = req[o]
      BY <1>3, <2>4
    <3>2. CASE At(o, "answered")
      BY <2>2, <3>1, <3>2 DEF IInv, Replayable, At
    <3>3. CASE At(o, "unlock") \/ At(o, "persist")
      BY <3>1, <3>3 DEF IInv, Replayable, At
    <3> QED BY <3>2, <3>3, NoOrderYet
  <2>6. \A o \in Requests : At(o, "answered")' => req'[o].answer.status \in {429, 500} \/ Stored(o)'
    BY <1>3, <2>1, <2>2 DEF IInv, Replayable
  <2> QED BY <1>1, <2>5, <2>6 DEF Replayable
<1>15. SentInOrder' /\ TabsApart' /\ OneBodyPerKey'
  BY <1>1, <1>2, ClientKept
<1> QED BY <1>1, <1>6, <1>8, <1>11, <1>12, <1>13, <1>14, <1>15 DEF IInv, Bounded

LEMMA CreateRecordStep ==
  ASSUME IInv, NEW q \in Requests, CreateRecord(q) PROVE IInv'
<1> USE TypeFacts
<1> DEFINE k == req[q].key
<1>1. /\ At(q, "create") /\ IsSent(q) /\ ~Ended(q) /\ ~Handling(q) /\ k \in Keys /\ req[q].body \in Bodies
      /\ UNCHANGED <<tab, keys, sent, lock, cart, orders, budget>>
  BY DEF CreateRecord, At, IsSent, Ended, Handling, Client
<1>2. req[q].stale \in Requests \cup {None} /\ req[q].answer \in Answers
  BY DEF Documented, Documents
<1>3. CASE record[k].status # "none"
  <2>1. PICK a \in Answers : a = Error(429)
    BY DEF Answers, Error
  <2>2. UNCHANGED record /\ Answer(q, a)
    <3>1. Answer(q, Error(429)) /\ UNCHANGED record
      BY <1>3 DEF CreateRecord
    <3> QED BY <2>1, <3>1 DEF Answer
  <2>3. Moves(q, "answered", a, req[q].stale)
    BY <1>1, <1>2, <2>2, ChangeMoves DEF PCs
  <2>4. a.status = 429
    BY <2>1 DEF Error
  <2> QED BY <1>1, <2>2, <2>3, <2>4, BeforeTheIndex
<1>4. CASE record[k].status = "none"
  <2> DEFINE rec == NewRecord(q)
  <2>1. record' = [record EXCEPT ![k] = rec] /\ Goto(q, "lock")
    BY <1>4 DEF CreateRecord
  <2>2. Moves(q, "lock", req[q].answer, req[q].stale)
    BY <1>1, <1>2, <2>1, ChangeMoves DEF PCs
  <2>3. /\ rec \in Records /\ rec.status = "processing" /\ rec.id = q /\ ~rec.old /\ rec.body = req[q].body
    BY <1>1 DEF NewRecord, Records, NoAnswer, Answers, None
  <2> HIDE DEF rec
  <2>4. /\ record'[k] = rec /\ \A j \in Keys : j # k => record'[j] = record[j]
        /\ \A o \in Requests : req'[o].key = req[o].key /\ req'[o].body = req[o].body
        /\ \A o \in Requests : o # q =>
             (Handling(o)' <=> Handling(o)) /\ (Ended(o)' <=> Ended(o)) /\ req'[o] = req[o]
        /\ \A o \in Requests : Ended(o) => Ended(o)'
    BY <1>1, <2>1, <2>2, OneRecordMoves
  <2>5. Handling(q)'
    BY <2>2 DEF Handling, Moves
  <2>6. OneHolder'
    BY <1>1, <2>2, <2>4 DEF IInv, OneHolder, Moves, At
  <2>7. TypeOK'
    <3>1. record' \in [Keys -> Records]
      BY <2>1, <2>3
    <3> QED BY <1>1, <2>2, <2>6, <3>1, TypesKept DEF IInv, TypeOK
  <2>8. \A events : Never(events)' <=> Never(events)
    BY <1>1 DEF Never
  <2>9. \A j \in Keys : record[j].status # "none" => record[j].id \in Requests /\ record[j].id # q /\ j # k
    BY <1>1, <1>4, RecordFacts
  <2>10. RecordOfRequest'
    BY <2>3, <2>4, <2>5, <2>9 DEF IInv, RecordOfRequest
  <2>11. InTime'
    <3> SUFFICES ASSUME Never({"slow"}) PROVE InTime'
      BY <2>8 DEF InTime
    <3>1. \A o \in Requests : Handling(o) => Owns(o) /\ req[o].key # k /\ req[o].key \in Keys
      BY <1>4 DEF IInv, InTime, Owns, Handling, IsSent
    <3>2. \A o \in Requests : Handling(o)' => Owns(o)'
      BY <2>3, <2>4, <3>1 DEF Owns
    <3>3. \A j \in Keys : record'[j].status = "processing" /\ record'[j].old =>
            record'[j].id = record[j].id /\ Ended(record[j].id)'
      BY <2>3, <2>4, <2>9 DEF IInv, InTime
    <3>4. \A o \in Requests : At(o, "delete")' => req'[o].stale = req[o].stale /\ req[o].stale \in Requests /\ Ended(req[o].stale)'
      BY <2>2, <2>4 DEF IInv, InTime, At, Moves
    <3> QED BY <3>2, <3>3, <3>4 DEF InTime, Ended
  <2>12. KeyIsReleased'
    <3>1. Running(q)'
      BY <2>2 DEF Running, Moves
    <3> QED BY <2>3, <2>4, <2>8, <2>9, <3>1 DEF IInv, KeyIsReleased, Running, At
  <2>13. Replayable'
    <3> SUFFICES ASSUME Never({"crash", "slow", "persist"}) PROVE Replayable'
      BY <2>8 DEF Replayable
    <3>1. \A o \in Requests : At(o, "answered")' => At(o, "answered") /\ o # q /\ req[o].key \in Keys
      BY <2>2, <2>4 DEF At, Moves, IsSent
    <3>2. \A o \in Requests : Stored(o) /\ req[o].key \in Keys /\ o # q =>
            Stored(o)' /\ record'[req[o].key] = record[req[o].key]
      BY <1>4, <2>4 DEF Stored
    <3>3. \A o \in orders : o # q /\ o \in Requests /\ req[o].key \in Keys
      BY <1>1, NoOrderYet DEF At, IsSent
    <3>4. \A o \in orders :
            /\ req'[o].answer = [status |-> 201, order |-> o]
            /\ \/ At(o, "unlock")' \/ At(o, "persist")'
               \/ At(o, "answered")' /\ Stored(o)' /\ record'[req'[o].key].id = o
      <4> SUFFICES ASSUME NEW o \in orders
                   PROVE  /\ req'[o].answer = [status |-> 201, order |-> o]
                          /\ \/ At(o, "unlock")' \/ At(o, "persist")'
                             \/ At(o, "answered")' /\ Stored(o)' /\ record'[req'[o].key].id = o
        OBVIOUS
      <4>1. o # q /\ o \in Requests /\ req[o].key \in Keys /\ req'[o] = req[o]
        BY <2>4, <3>3
      <4>2. CASE At(o, "answered")
        BY <3>2, <4>1, <4>2 DEF IInv, Replayable, At
      <4>3. CASE At(o, "unlock") \/ At(o, "persist")
        BY <4>1, <4>3 DEF IInv, Replayable, At
      <4> QED BY <4>2, <4>3, NoOrderYet
    <3>5. \A o \in Requests : At(o, "answered")' => req'[o].answer.status \in {429, 500} \/ Stored(o)'
      BY <2>4, <3>1, <3>2 DEF IInv, Replayable
    <3> QED BY <1>1, <3>4, <3>5 DEF Replayable
  <2>14. SentInOrder' /\ TabsApart' /\ OneBodyPerKey'
    BY <1>1, <2>2, ClientKept
  <2> QED BY <1>1, <2>6, <2>7, <2>10, <2>11, <2>12, <2>13, <2>14 DEF IInv, Bounded
<1> QED BY <1>3, <1>4

LEMMA PersistStep ==
  ASSUME IInv, NEW q \in Requests, Persist(q) PROVE IInv'
<1> USE TypeFacts
<1> DEFINE k == req[q].key
           a == req[q].answer
           done == [record[k] EXCEPT !.status = "completed", !.answer = a]
           rec == IF record[k].status = "none" \/ record[k].id # q THEN record[k]
                  ELSE IF a.status >= 500 THEN NoRecord ELSE done
<1>1. /\ At(q, "persist") /\ IsSent(q) /\ ~Ended(q) /\ Handling(q) /\ k \in Keys
      /\ UNCHANGED <<tab, keys, sent, lock, cart, orders, budget>>
      /\ record' = [record EXCEPT ![k] = rec]
  BY DEF Persist, At, IsSent, Ended, Handling, Client
<1>2. req[q].stale \in Requests \cup {None} /\ a \in Answers
  BY DEF Documented, Documents
<1>3. Moves(q, "answered", a, req[q].stale)
  BY <1>1, <1>2, ChangeMoves DEF PCs, Persist
<1>4. \/ rec = record[k] /\ (record[k].status = "none" \/ record[k].id # q)
      \/ rec = NoRecord /\ a.status >= 500 /\ record[k].id = q
      \/ rec = done /\ ~(a.status >= 500) /\ record[k].status # "none" /\ record[k].id = q
  OBVIOUS
<1>5. record[k].status # "none" =>
        done \in Records /\ done.status = "completed" /\ done.id = record[k].id /\ done.body = record[k].body
          /\ done.answer = a /\ done.old = record[k].old
  <2> DEFINE Written == [status : {"processing", "completed"}, id : Requests, body : Bodies,
                         old : BOOLEAN, answer : Answers]
  <2>1. \A r \in Written : LET w == [r EXCEPT !.status = "completed", !.answer = a]
                          IN  /\ w \in Written /\ w.status = "completed" /\ w.id = r.id
                              /\ w.body = r.body /\ w.answer = a /\ w.old = r.old
    BY <1>2
  <2>2. record[k].status # "none" => record[k] \in Written
    BY <1>1, RecordFacts
  <2> QED BY <2>1, <2>2 DEF Records
<1> HIDE DEF rec, done
<1>6. /\ record'[k] = rec /\ \A j \in Keys : j # k => record'[j] = record[j]
      /\ \A o \in Requests : req'[o].key = req[o].key /\ req'[o].body = req[o].body
      /\ \A o \in Requests : o # q =>
           (Handling(o)' <=> Handling(o)) /\ (Ended(o)' <=> Ended(o)) /\ req'[o] = req[o]
      /\ \A o \in Requests : Ended(o) => Ended(o)'
  BY <1>1, <1>3, OneRecordMoves
<1>7. Ended(q)' /\ ~Handling(q)'
  BY <1>3 DEF Ended, Handling, Moves
<1>8. NoRecord \in Records /\ NoRecord.status = "none"
  BY DEF Records, NoRecord
<1>9. /\ rec \in Records
      /\ rec.status = "none" \/ (rec.id = record[k].id /\ rec.body = record[k].body /\ record[k].status # "none")
      /\ rec.status = "processing" => rec = record[k] /\ record[k].id # q
  BY <1>1, <1>4, <1>5, <1>8
<1>10. OneHolder'
  BY <1>1, <1>3, <1>6 DEF IInv, OneHolder, Moves, At
<1>11. TypeOK'
  <2>1. record' \in [Keys -> Records]
    BY <1>1, <1>9
  <2> QED BY <1>1, <1>3, <1>10, <2>1, TypesKept DEF IInv, TypeOK
<1>12. \A events : Never(events)' <=> Never(events)
  BY <1>1 DEF Never
<1>13. \A j \in Keys : record[j].status # "none" => record[j].id \in Requests /\ req[record[j].id].key = j
  BY RecordFacts
<1>14. RecordOfRequest'
  BY <1>6, <1>7, <1>9, <1>13 DEF IInv, RecordOfRequest
<1>15. Never({"slow"}) =>
         \A o \in Requests : Handling(o) /\ o # q => Owns(o) /\ req[o].key # k /\ req[o].key \in Keys
  <2>1. Never({"slow"}) => Owns(q)
    BY <1>1 DEF IInv, InTime
  <2> QED BY <2>1 DEF IInv, InTime, Owns, Handling, IsSent
<1>16. InTime'
  <2> SUFFICES ASSUME Never({"slow"}) PROVE InTime'
    BY <1>12 DEF InTime
  <2>1. \A o \in Requests : Handling(o)' => Owns(o)'
    BY <1>6, <1>7, <1>15 DEF Owns
  <2>2. \A j \in Keys : record'[j].status = "processing" /\ record'[j].old =>
          record'[j].id = record[j].id /\ Ended(record[j].id)'
    BY <1>6, <1>9, <1>13 DEF IInv, InTime
  <2>3. \A o \in Requests : At(o, "delete")' => req'[o].stale = req[o].stale /\ req[o].stale \in Requests /\ Ended(req[o].stale)'
    BY <1>3, <1>6 DEF IInv, InTime, At, Moves
  <2> QED BY <2>1, <2>2, <2>3 DEF InTime, Ended
<1>17. KeyIsReleased'
  <2>1. \A j \in Keys : record'[j].status = "processing" => record'[j] = record[j] /\ record[j].id # q
    BY <1>6, <1>9, <1>13
  <2> QED BY <1>6, <1>12, <1>13, <2>1 DEF IInv, KeyIsReleased, Running, At
<1>18. Replayable'
  <2> SUFFICES ASSUME Never({"crash", "slow", "persist"}) PROVE Replayable'
    BY <1>12 DEF Replayable
  <2>1. Owns(q) /\ Never({"slow"})
    BY <1>1 DEF IInv, InTime, Never
  <2>2. ~(a.status >= 500) => Stored(q)' /\ record'[req'[q].key].id = q
    BY <1>3, <1>4, <1>5, <1>6, <2>1 DEF Stored, Owns, Moves
  <2>3. \A o \in Requests : At(o, "answered") => req[o].key \in Keys /\ o # q
    BY <1>1 DEF At, IsSent
  <2>4. \A o \in Requests : Stored(o) /\ req[o].key \in Keys /\ o # q =>
          Stored(o)' /\ record'[req[o].key] = record[req[o].key]
    BY <1>6, <2>1 DEF Stored, Owns
  <2>5. \A o \in orders :
          /\ req'[o].answer = [status |-> 201, order |-> o]
          /\ \/ At(o, "unlock")' \/ At(o, "persist")'
             \/ At(o, "answered")' /\ Stored(o)' /\ record'[req'[o].key].id = o
    <3> SUFFICES ASSUME NEW o \in orders
                 PROVE  /\ req'[o].answer = [status |-> 201, order |-> o]
                        /\ \/ At(o, "unlock")' \/ At(o, "persist")'
                           \/ At(o, "answered")' /\ Stored(o)' /\ record'[req'[o].key].id = o
      OBVIOUS
    <3>1. CASE o = q
      <4>1. a = [status |-> 201, order |-> q]
        BY <3>1, NoOrderYet
      <4>2. ~(a.status >= 500)
        BY <4>1
      <4> QED BY <1>3, <2>2, <3>1, <4>1, <4>2 DEF At, Moves
    <3>2. CASE o # q /\ At(o, "answered")
      BY <1>6, <2>3, <2>4, <3>2 DEF IInv, Replayable, At
    <3>3. CASE o # q /\ (At(o, "unlock") \/ At(o, "persist"))
      BY <1>6, <3>3 DEF IInv, Replayable, At
    <3> QED BY <3>1, <3>2, <3>3, NoOrderYet
  <2>6. \A o \in Requests : At(o, "answered")' => req'[o].answer.status \in {429, 500} \/ Stored(o)'
    <3>1. a.status \in {429, 500} \/ Stored(q)'
      BY <1>2, <2>2 DEF Answers
    <3>2. req'[q].answer = a
      BY <1>3 DEF Moves
    <3>3. \A o \in Requests : o # q /\ At(o, "answered")' => req'[o].answer.status \in {429, 500} \/ Stored(o)'
      BY <1>6, <2>3, <2>4 DEF IInv, Replayable, At
    <3> QED BY <3>1, <3>2, <3>3
  <2> QED BY <1>1, <2>5, <2>6 DEF Replayable
<1>19. SentInOrder' /\ TabsApart' /\ OneBodyPerKey'
  BY <1>1, <1>3, ClientKept
<1> QED BY <1>1, <1>10, <1>11, <1>14, <1>16, <1>17, <1>18, <1>19 DEF IInv, Bounded

LEMMA PersistFailsStep ==
  ASSUME IInv, NEW q \in Requests, PersistFails(q) PROVE IInv'
<1> USE TypeFacts
<1>1. /\ At(q, "persist") /\ IsSent(q) /\ Spend("persist")
      /\ UNCHANGED <<tab, keys, sent, record, lock, cart, orders>>
  BY DEF PersistFails, At, IsSent
<1>2. /\ budget' \in [Events -> Nat] /\ Bounded' /\ budget'["persist"] < Budget["persist"]
      /\ budget'["slow"] = budget["slow"]
  BY <1>1, SpendFacts DEF IInv, Events
<1>3. Moves(q, "answered", req[q].answer, req[q].stale)
  <2>1. req[q].stale \in Requests \cup {None} /\ req[q].answer \in Answers
    BY DEF Documented, Documents
  <2> QED BY <1>1, <2>1, ChangeMoves DEF PCs, PersistFails
<1>4. /\ \A o \in Requests : req'[o].key = req[o].key /\ req'[o].body = req[o].body
      /\ \A o \in Requests : Handling(o)' => Handling(o)
      /\ \A o \in Requests : Handling(o) \/ Ended(o) => Handling(o)' \/ Ended(o)'
      /\ \A o \in Requests : Ended(o) => Ended(o)'
  BY <1>3 DEF Moves, Handling, Ended
<1>5. OneHolder'
  BY <1>1, <1>3 DEF IInv, OneHolder, Moves, At
<1>6. TypeOK'
  BY <1>1, <1>2, <1>3, <1>5, TypesKept DEF IInv, TypeOK
<1>7. \A j \in Keys : record[j].status # "none" => record[j].id \in Requests
  BY RecordFacts
<1>8. RecordOfRequest'
  BY <1>1, <1>4, <1>7 DEF IInv, RecordOfRequest
<1>9. ~Never({"persist"})' /\ ~Never({"crash", "slow", "persist"})' /\ (Never({"slow"})' => Never({"slow"}))
  <2>1. budget'["persist"] # Budget["persist"]
    BY <1>2, IdempotencyAssumption DEF Events
  <2> QED BY <1>2, <2>1 DEF Never
<1>10. InTime'
  <2> SUFFICES ASSUME Never({"slow"}) PROVE InTime'
    BY <1>9 DEF InTime
  <2>1. \A o \in Requests : Handling(o)' => Owns(o)'
    BY <1>1, <1>4 DEF IInv, InTime, Owns
  <2>2. \A j \in Keys : record[j].status = "processing" /\ record[j].old => Ended(record[j].id)'
    <3>1. \A j \in Keys : record[j].status = "processing" /\ record[j].old =>
            record[j].id \in Requests /\ Ended(record[j].id)
      BY <1>7 DEF IInv, InTime
    <3>2. \A o, p \in Requests : Ended(o) /\ o = p => Ended(p)'
      BY <1>4
    <3>3. \A j \in Keys : record[j].id \in Requests /\ Ended(record[j].id) => Ended(record[j].id)'
      BY <1>1, <3>2 DEF Ended
    <3> QED BY <3>1, <3>3
  <2>3. \A o \in Requests : At(o, "delete")' => req'[o].stale = req[o].stale /\ req[o].stale \in Requests /\ Ended(req[o].stale)'
    BY <1>3, <1>4 DEF IInv, InTime, At, Moves
  <2> QED BY <1>1, <2>1, <2>2, <2>3 DEF InTime, Ended
<1>11. KeyIsReleased' /\ Replayable'
  BY <1>9 DEF KeyIsReleased, Replayable
<1>12. SentInOrder' /\ TabsApart' /\ OneBodyPerKey'
  BY <1>1, <1>3, ClientKept
<1> QED BY <1>2, <1>5, <1>6, <1>8, <1>10, <1>11, <1>12 DEF IInv

-----------------------------------------------------------------------------
(* Time and crashes *)

LEMMA RecordAgesStep ==
  ASSUME IInv, NEW k \in Keys, RecordAges(k) PROVE IInv'
<1> USE TypeFacts
<1> DEFINE rec == [record[k] EXCEPT !.old = TRUE]
<1>1. /\ record[k].status = "processing" /\ record' = [record EXCEPT ![k] = rec]
      /\ UNCHANGED <<tab, keys, sent, req, lock, cart, orders>>
  BY DEF RecordAges
<1>2. record[k].id \in Requests /\ (Handling(record[k].id) \/ Ended(record[k].id))
  BY <1>1, RecordFacts
<1>3. /\ rec \in Records /\ rec.status = "processing" /\ rec.id = record[k].id /\ rec.body = record[k].body
  <2> DEFINE Written == [status : {"processing", "completed"}, id : Requests, body : Bodies,
                         old : BOOLEAN, answer : Answers]
  <2>1. \A r \in Written : LET w == [r EXCEPT !.old = TRUE]
                           IN  w \in Written /\ w.status = r.status /\ w.id = r.id /\ w.body = r.body
    OBVIOUS
  <2>2. record[k] \in Written
    BY <1>1, RecordFacts
  <2> QED BY <1>1, <2>1, <2>2 DEF Records
<1> HIDE DEF rec
<1>4. record'[k] = rec /\ \A j \in Keys : j # k => record'[j] = record[j]
  BY <1>1
<1>5. /\ budget' \in [Events -> Nat] /\ Bounded'
      /\ budget'["crash"] = budget["crash"] /\ budget'["persist"] = budget["persist"]
      /\ \/ UNCHANGED budget /\ Ended(record[k].id)
         \/ budget'["slow"] < Budget["slow"]
  <2>1. CASE Running(record[k].id)
    <3>1. Spend("slow")
      BY <2>1 DEF RecordAges
    <3> QED BY <3>1, SpendFacts DEF IInv, Events
  <2>2. CASE ~Running(record[k].id)
    <3>1. UNCHANGED budget
      BY <2>2 DEF RecordAges
    <3> QED BY <1>2, <2>2, <3>1 DEF IInv, Bounded, Running, Handling, Ended
  <2> QED BY <2>1, <2>2
<1>6. /\ Never({"persist"})' <=> Never({"persist"})
      /\ Never({"slow"})' => UNCHANGED budget /\ Ended(record[k].id)
      /\ Never({"crash", "slow", "persist"})' => UNCHANGED budget
  <2>1. budget'["slow"] < Budget["slow"] => budget'["slow"] # Budget["slow"]
    BY <1>5, IdempotencyAssumption DEF Events
  <2> QED BY <1>5, <2>1 DEF Never
<1>7. TypeOK'
  <2>1. record' \in [Keys -> Records]
    BY <1>1, <1>3
  <2> QED BY <1>1, <1>5, <2>1 DEF IInv, TypeOK
<1>8. SentInOrder' /\ TabsApart' /\ OneBodyPerKey' /\ OneHolder'
  BY <1>1 DEF IInv, SentInOrder, TabsApart, OneBodyPerKey, OneHolder, IsSent
<1>9. RecordOfRequest'
  BY <1>1, <1>3, <1>4 DEF IInv, RecordOfRequest, Handling, Ended
<1>10. InTime'
  <2> SUFFICES ASSUME Never({"slow"})' PROVE InTime'
    BY DEF InTime
  <2>1. Never({"slow"}) /\ Ended(record[k].id)
    BY <1>6 DEF Never
  <2>2. \A o \in Requests : Handling(o)' => Owns(o)'
    <3>1. \A o \in Requests : Handling(o) => Owns(o) /\ req[o].key \in Keys
      BY <2>1 DEF IInv, InTime, Handling, IsSent
    <3> QED BY <1>1, <1>3, <1>4, <3>1 DEF Owns, Handling
  <2>3. \A j \in Keys : record'[j].status = "processing" /\ record'[j].old => Ended(record'[j].id)
    BY <1>3, <1>4, <2>1 DEF IInv, InTime
  <2>4. \A o \in Requests : At(o, "delete")' => req'[o].stale \in Requests /\ Ended(req[o].stale)
    BY <1>1, <2>1 DEF IInv, InTime, At
  <2> QED BY <1>1, <2>2, <2>3, <2>4 DEF InTime, Ended
<1>11. KeyIsReleased'
  BY <1>1, <1>3, <1>4, <1>6 DEF IInv, KeyIsReleased, Running, At
<1>12. Replayable'
  <2> SUFFICES ASSUME Never({"crash", "slow", "persist"}) PROVE Replayable'
    BY <1>6 DEF Replayable, Never
  <2>1. \A o \in Requests : IsSent(o) /\ Stored(o) => Stored(o)' /\ record'[req[o].key] = record[req[o].key]
    BY <1>1, <1>4 DEF Stored
  <2>2. \A o \in Requests : At(o, "answered") => IsSent(o)
    BY DEF At, IsSent
  <2>3. ASSUME NEW o \in orders
        PROVE  /\ req'[o].answer = [status |-> 201, order |-> o]
               /\ \/ At(o, "unlock")' \/ At(o, "persist")'
                  \/ At(o, "answered")' /\ Stored(o)' /\ record'[req'[o].key].id = o
    BY <1>1, <2>1, <2>2 DEF IInv, Replayable, At
  <2>4. \A o \in Requests : At(o, "answered")' => req'[o].answer.status \in {429, 500} \/ Stored(o)'
    BY <1>1, <2>1, <2>2 DEF IInv, Replayable, At
  <2> QED BY <1>1, <2>3, <2>4 DEF Replayable
<1> QED BY <1>5, <1>7, <1>8, <1>9, <1>10, <1>11, <1>12 DEF IInv

LEMMA CrashStep ==
  ASSUME IInv, Crash PROVE IInv'
<1> USE TypeFacts
<1>1. /\ Spend("crash") /\ lock' = None /\ UNCHANGED <<tab, keys, sent, record, cart, orders>>
      /\ req' = [q \in Requests |-> IF Running(q) THEN [req[q] EXCEPT !.pc = "crashed"] ELSE req[q]]
  BY DEF Crash
<1>2. /\ budget' \in [Events -> Nat] /\ Bounded' /\ budget'["crash"] < Budget["crash"]
      /\ budget'["slow"] = budget["slow"] /\ budget'["persist"] = budget["persist"]
  BY <1>1, SpendFacts DEF IInv, Events
<1>3. \A q \in Requests :
        LET w == [req[q] EXCEPT !.pc = "crashed"]
        IN  w \in Documents /\ w.pc = "crashed" /\ w.key = req[q].key /\ w.body = req[q].body /\ w.stale = req[q].stale
  BY DEF Documented, Documents, PCs
<1>4. /\ Documented'
      /\ \A q \in Requests :
           /\ req'[q].key = req[q].key /\ req'[q].body = req[q].body /\ req'[q].stale = req[q].stale
           /\ IF Running(q) THEN req'[q].pc = "crashed" ELSE req'[q].pc = req[q].pc
  BY <1>1, <1>3 DEF Documented
<1>5. \A q \in Requests :
        /\ ~Handling(q)' /\ (Handling(q) \/ Ended(q) => Ended(q)') /\ ~At(q, "delete")'
        /\ IsSent(q)' <=> IsSent(q)
        /\ Running(q) \/ At(q, "crashed") => At(q, "crashed")'
        /\ req'[q].pc \notin {"checkout", "unlock"}
  BY <1>4 DEF Handling, Ended, At, Running, IsSent
<1>6. ~Never({"crash", "slow", "persist"})' /\ (Never({"slow"})' => Never({"slow"})) /\ (Never({"persist"})' => Never({"persist"}))
  <2>1. budget'["crash"] # Budget["crash"]
    BY <1>2, IdempotencyAssumption DEF Events
  <2> QED BY <1>2, <2>1 DEF Never
<1>7. TypeOK'
  BY <1>1, <1>2, <1>4 DEF IInv, TypeOK, Documented, Documents
<1>8. SentInOrder' /\ TabsApart' /\ OneBodyPerKey'
  BY <1>1, <1>4, <1>5 DEF IInv, SentInOrder, TabsApart, OneBodyPerKey
<1>9. OneHolder'
  BY <1>1, <1>5 DEF OneHolder
<1>10. \A j \in Keys : record[j].status # "none" => record[j].id \in Requests
  BY RecordFacts
<1>11. RecordOfRequest'
  BY <1>1, <1>4, <1>5, <1>10 DEF IInv, RecordOfRequest
<1>12. InTime'
  <2>1. \A j \in Keys : record[j].id \in Requests /\ Ended(record[j].id) => Ended(record[j].id)'
    <3>1. \A o \in Requests : Ended(o) => req'[o].pc = req[o].pc
      BY <1>4 DEF Ended, Running
    <3> QED BY <1>1, <3>1 DEF Ended
  <2> QED BY <1>1, <1>5, <1>6, <1>10, <2>1 DEF IInv, InTime
<1>13. KeyIsReleased'
  <2> SUFFICES ASSUME Never({"persist"}), NEW j \in Keys, record[j].status = "processing"
               PROVE  At(record[j].id, "crashed")'
    BY <1>1, <1>6 DEF KeyIsReleased
  <2>1. PICK o \in Requests : o = record[j].id
    BY <1>10
  <2>2. At(o, "crashed")'
    BY <1>5, <2>1 DEF IInv, KeyIsReleased
  <2> QED BY <1>1, <2>1, <2>2 DEF At
<1>14. Replayable'
  BY <1>6 DEF Replayable
<1> QED BY <1>2, <1>7, <1>8, <1>9, <1>11, <1>12, <1>13, <1>14 DEF IInv

-----------------------------------------------------------------------------
LEMMA NextInv == IInv /\ [Next]_vars => IInv'
<1> SUFFICES ASSUME IInv, [Next]_vars PROVE IInv'
  OBVIOUS
<1>1. CASE UNCHANGED vars
  <2>1. UNCHANGED Server /\ TypeOK' /\ \A e \in {"crash", "slow", "persist"} : budget'[e] = budget[e]
    BY <1>1 DEF vars, Server, IInv, TypeOK
  <2>2. Bounded' /\ SentInOrder' /\ TabsApart' /\ OneBodyPerKey'
    BY <1>1 DEF vars, IInv, Bounded, SentInOrder, TabsApart, OneBodyPerKey, IsSent
  <2> QED BY <2>1, <2>2, ServerKept DEF IInv
<1>2. ASSUME NEW t \in Tabs, (\E b \in Bodies : PlaceOrder(t, b)) \/ ReceiveAnswer(t) \/ ConnectionLost(t)
      PROVE  IInv'
  BY <1>2, PlaceOrderStep, ReceiveAnswerStep, ConnectionLostStep
<1>3. ASSUME NEW q \in Requests, ServerStep(q) PROVE IInv'
  BY <1>3, FindKeyStep, DeleteStaleStep, CreateRecordStep, TakeLockStep, RunCheckoutStep, CheckoutFailsStep,
     UnlockStep, PersistStep, PersistFailsStep DEF ServerStep
<1> QED BY <1>1, <1>2, <1>3, RecordAgesStep, CrashStep, RefillCartStep DEF Next

\* The inductive invariant holds of every behaviour of the tabs, the middleware and its records.
THEOREM Invariance == Spec => []IInv
  BY InitInv, NextInv, PTL DEF Spec

\* Every request, record and tab stays in a state the code and the schema admit, and the lock is
\* held only inside withDistributedLock: the type invariant, for any bounds.
THEOREM IdempotencyTypes == Spec => []TypeOK
<1>1. IInv => TypeOK
  BY DEF IInv
<1> QED BY <1>1, Invariance, PTL

\* Taking over an abandoned key admits one request (the conditional delete and the unique index).
THEOREM HandlerPerKey == Spec => []OneHandlerPerKey
<1>1. IInv => OneHandlerPerKey
  <2> SUFFICES ASSUME IInv, Never({"slow"}), NEW k \in Keys
               PROVE  Cardinality({q \in Requests : req[q].key = k
                        /\ req[q].pc \in {"lock", "checkout", "unlock", "persist"}}) <= 1
    BY DEF OneHandlerPerKey
  <2> DEFINE H == {q \in Requests : req[q].key = k
                    /\ req[q].pc \in {"lock", "checkout", "unlock", "persist"}}
  <2>1. \A q, o \in H : q = o
    BY DEF IInv, InTime, Handling, Owns
  <2> HIDE DEF H
  <2>2. H = {} \/ \E q : H = {q}
    BY <2>1
  <2>3. Cardinality(H) <= 1
    <3>1. H = {} => Cardinality(H) = 0
      BY FS_EmptySet
    <3>2. ASSUME NEW q, H = {q} PROVE Cardinality(H) = 1
      BY <3>2, FS_Singleton
    <3>3. Cardinality(H) = 0 \/ Cardinality(H) = 1
      BY <2>2, <3>1, <3>2
    <3> QED BY <3>3
  <2> QED BY <2>3 DEF H
<1> QED BY <1>1, Invariance, PTL

\* No ended request leaves its key in process (H3 in the idempotency middleware).
THEOREM KeysAreReleased == Spec => []KeyIsReleased
<1>1. IInv => KeyIsReleased
  BY DEF IInv
<1> QED BY <1>1, Invariance, PTL

\* A retry with the same key and body never makes a second order.
THEOREM OrderPerKey == Spec => []OneOrderPerKey
<1>1. IInv => OneOrderPerKey
  <2> SUFFICES ASSUME IInv, Never({"crash", "slow", "persist"}),
                      NEW q \in orders, NEW o \in orders, req[q].key = req[o].key
               PROVE  q = o
    BY DEF OneOrderPerKey
  <2>1. Never({"slow"}) /\ q \in Requests /\ o \in Requests
    BY TypeFacts DEF Never
  <2>2. record[req[q].key].id = q
    BY <2>1 DEF IInv, Replayable, InTime, Handling, Owns, At
  <2>3. record[req[o].key].id = o
    BY <2>1 DEF IInv, Replayable, InTime, Handling, Owns, At
  <2> QED BY <2>2, <2>3
<1> QED BY <1>1, Invariance, PTL

\* An answered request with the key of an order carries that order, or asks for a later retry.
THEOREM RetriesReturnTheOrder == Spec => []RetryReturnsOrder
<1>1. IInv => RetryReturnsOrder
  <2> SUFFICES ASSUME IInv, Never({"crash", "slow", "persist"}), NEW o \in orders, NEW q \in Requests,
                      At(q, "answered"), req[q].key = req[o].key
               PROVE  req[q].answer.order = o \/ req[q].answer.status \in {429, 500}
    BY DEF RetryReturnsOrder
  <2>1. Never({"slow"}) /\ o \in Requests
    BY TypeFacts DEF Never
  <2>2. req[q].answer.status \in {429, 500} \/ Stored(q)
    BY DEF IInv, Replayable
  <2>3. CASE Stored(q)
    <3>1. ~Handling(o)
      BY <2>1, <2>3 DEF IInv, InTime, Owns, Stored
    <3>2. Stored(o) /\ req[o].answer = [status |-> 201, order |-> o]
      BY <3>1 DEF IInv, Replayable, Handling, At
    <3> QED BY <2>3, <3>2 DEF Stored
  <2> QED BY <2>2, <2>3
<1> QED BY <1>1, Invariance, PTL
=============================================================================
