--------------------------- MODULE CheckoutProofs ---------------------------
(***************************************************************************)
(* Proofs about Checkout for any requests, customers, processes, products  *)
(* and carts, and any number of faults.                                    *)
(*                                                                         *)
(* The argument: the undo actions of a request mirror what it did (Stack,  *)
(* Unwinding), so whatever it holds is either still to be undone, or left  *)
(* to the sweeper by a request that is over (Swept); a cart is saved only  *)
(* by a request that read its current version (Versions), so a coupon      *)
(* limit read after the cart still holds when the cart is saved (Within).  *)
(***************************************************************************)
EXTENDS Checkout, FiniteSetTheorems, TLAPS

StockStep(p) == [does |-> "stock", of |-> p]
ReservationStep(p) == [does |-> "reservation", of |-> p]
CouponStep == [does |-> "coupon"]
OrderStep == [does |-> "order"]

Bounded == \A e \in Events : budget[e] <= Budget[e]

\* Once a request is over, it stays so, and its undo actions are gone.
Over(r) == req[r].pc \in {"ordered", "refused", "crashed"}

\* Where a request with or without the coupon can be.
Coupons(r) ==
  /\ req[r].pc \in {"claim", "redeem"} \/ WillUndo(r, CouponStep) => r \in WithCoupon
  /\ req[r].pc \in {"create", "link", "redeem", "save"} /\ r \in WithCoupon => WillUndo(r, CouponStep)
  /\ req[r].pc \in {"save", "ordered"} /\ r \in WithCoupon => r \in redemptions
  /\ At(r, "start") => order[r] = "none" /\ \A p \in Products : reservation[r][p] = "none"

\* The undo actions: no two alike, the order's last, a reservation's right after its stock's.
Stack(undo, todo, pc) ==
  /\ \A i, j \in 1..Len(undo) : undo[i] = undo[j] => i = j
  /\ \A i \in 1..Len(undo) :
       /\ undo[i].does = "order" => i = Len(undo)
       /\ undo[i].does = "reservation" => i > 1 /\ undo[i - 1] = StockStep(undo[i].of)
       /\ undo[i].does = "stock" => undo[i].of \notin todo
       /\ pc \in {"items", "reserve", "claim"} => undo[i].does \in {"stock", "reservation"}
       /\ pc = "create" => undo[i].does # "order"
  /\ pc = "reserve" => Len(undo) > 0 /\ undo[Len(undo)].does = "stock"
  /\ pc \in {"start", "cart", "ordered", "refused", "crashed"} => undo = <<>>

\* As long as every undo action works, what a running request did is still to be undone.
Unwinding(r) ==
  Never({"undo"}) /\ Running(r) =>
    /\ order[r] # "none" => WillUndo(r, OrderStep)
    /\ \A p \in Products : reservation[r][p] = "reserved" => WillUndo(r, ReservationStep(p))

\* ... and a refused one has undone it all.
Refused(r) ==
  Never({"undo"}) /\ At(r, "refused") =>
    order[r] = "none" /\ \A p \in Products : reservation[r][p] # "reserved"

\* Stock taken by a checkout that goes on is reserved, but for the product being reserved.
Reserved(r) ==
  Never({"cancel"}) /\ Running(r) /\ ~At(r, "undo") =>
    \A p \in Products : WillUndo(r, StockStep(p)) =>
      \/ reservation[r][p] = "reserved"
      \/ At(r, "reserve") /\ req[r].undo[Len(req[r].undo)] = StockStep(p)

\* Without a customer's cancel, only a request that is over is swept.
Swept(r) ==
  Never({"cancel"}) =>
    /\ r \in closing => Over(r)
    /\ \A p \in Products : <<r, p>> \in returning => Over(r) /\ reservation[r][p] # "reserved"

OneRequest(r) ==
  /\ Coupons(r) /\ Stack(req[r].undo, req[r].todo, req[r].pc) /\ Unwinding(r) /\ Refused(r)
  /\ Reserved(r) /\ Swept(r)

Counted == {r \in WithCoupon : order[r] # "none" \/ WillUndo(r, CouponStep)}
CouponCount ==
  /\ usedCount <= UsageLimit
  /\ Never({"undo"}) => Cardinality(Counted) <= usedCount

Versions ==
  \A r \in Requests :
    /\ req[r].v <= cart[User[r]].v
    /\ At(r, "ordered") => req[r].v < cart[User[r]].v

\* Once validated, the per-user limit has room for the request until its cart is saved.
CouponOrders(u) == {r \in WithCoupon : User[r] = u /\ At(r, "ordered")}
Validated(r) == r \in WithCoupon /\ req[r].pc \in {"claim", "create", "link", "redeem", "save"}
Within ==
  \A r \in Requests : Validated(r) /\ req[r].v = cart[User[r]].v =>
    Cardinality(CouponOrders(User[r])) < PerUserLimit

IInv ==
  /\ TypeOK /\ Bounded /\ (\A r \in Requests : OneRequest(r))
  /\ StockAccounted /\ CouponCount /\ Versions /\ OneOrderPerCart /\ Within /\ PerUserLimitHolds

-----------------------------------------------------------------------------
(* Faults, undo actions and counts *)

Documents == [pc : PCs, v : Nat, todo : SUBSET Products, undo : Seq(UndoSteps)]

\* A fault once used is never taken back: what holds Never(events) now held it before.
LEMMA Faults ==
  ASSUME TypeOK, Bounded, UNCHANGED budget \/ \E e \in Events : Spend(e)
  PROVE  /\ budget' \in [Events -> Nat] /\ Bounded'
         /\ \A events \in SUBSET Events : Never(events)' => Never(events)
         /\ \A e \in Events : Spend(e) => ~Never({e})'
<1>1. budget \in [Events -> Nat] /\ Budget \in [Events -> Nat]
  BY CheckoutAssumption DEF TypeOK
<1>2. \A e \in Events : budget[e] \in Nat /\ Budget[e] \in Nat /\ budget[e] <= Budget[e]
  BY <1>1 DEF Bounded
<1>3. CASE UNCHANGED budget
  <2>1. ~\E e \in Events : Spend(e)
    BY <1>1, <1>3 DEF Spend
  <2> QED BY <1>1, <1>3, <2>1 DEF Bounded, Never
<1>4. ASSUME NEW e \in Events, Spend(e)
      PROVE  /\ budget' \in [Events -> Nat] /\ Bounded'
             /\ \A events \in SUBSET Events : Never(events)' => Never(events)
             /\ \A f \in Events : Spend(f) => ~Never({f})'
  <2>1. /\ budget'[e] = budget[e] - 1 /\ budget[e] > 0
        /\ \A f \in Events \ {e} : budget'[f] = budget[f]
        /\ budget' \in [Events -> Nat]
    BY <1>1, <1>4 DEF Spend
  <2>2. budget'[e] < Budget[e] /\ budget'[e] # Budget[e]
    BY <1>2, <2>1
  <2>3. \A f \in Events : budget'[f] <= Budget[f]
    BY <1>2, <2>1
  <2>4. \A events \in SUBSET Events : Never(events)' => Never(events)
    BY <2>1, <2>2 DEF Never
  <2>5. \A f \in Events : Spend(f) => f = e
    <3>1. \A f \in Events : Spend(f) => budget'[f] = budget[f] - 1 /\ budget[f] \in Nat
      BY <1>1 DEF Spend
    <3> QED BY <2>1, <3>1
  <2> QED BY <2>1, <2>2, <2>3, <2>4, <2>5 DEF Bounded, Never
<1> QED BY <1>3, <1>4

InUndo(undo, step) == \E i \in DOMAIN undo : undo[i] = step

LEMMA Appended ==
  ASSUME NEW undo \in Seq(UndoSteps), NEW s \in UndoSteps
  PROVE  /\ Append(undo, s) \in Seq(UndoSteps) /\ Len(undo) \in Nat
         /\ Len(Append(undo, s)) = Len(undo) + 1 /\ Append(undo, s)[Len(undo) + 1] = s
         /\ \A i \in 1..Len(undo) : Append(undo, s)[i] = undo[i] /\ undo[i] \in UndoSteps
         /\ \A t : InUndo(Append(undo, s), t) <=> InUndo(undo, t) \/ t = s
  BY DEF InUndo

\* The undo actions without the one pushed last, all of them being different.
LEMMA Popped ==
  ASSUME NEW undo \in Seq(UndoSteps), undo # <<>>
  PROVE  LET n == Len(undo)
             rest == SubSeq(undo, 1, n - 1)
         IN  /\ n \in Nat \ {0} /\ rest \in Seq(UndoSteps) /\ Len(rest) = n - 1
             /\ undo[n] \in UndoSteps
             /\ \A i \in 1..(n - 1) : rest[i] = undo[i]
             /\ (\A i, j \in 1..n : undo[i] = undo[j] => i = j)
                  => \A t : InUndo(rest, t) <=> InUndo(undo, t) /\ t # undo[n]
<1> DEFINE n == Len(undo)
           rest == SubSeq(undo, 1, n - 1)
<1>1. n \in Nat \ {0} /\ undo \in [1..n -> UndoSteps]
  OBVIOUS
<1>2. rest \in Seq(UndoSteps) /\ Len(rest) = n - 1 /\ \A i \in 1..(n - 1) : rest[i] = undo[i]
  BY <1>1
<1>3. DOMAIN rest = 1..(n - 1) /\ DOMAIN undo = 1..n
  BY <1>1, <1>2
<1>4. ASSUME \A i, j \in 1..n : undo[i] = undo[j] => i = j, NEW t
      PROVE  InUndo(rest, t) <=> InUndo(undo, t) /\ t # undo[n]
  <2> HIDE DEF n, rest
  <2>1. \A i \in 1..n : i \in 1..(n - 1) \/ i = n
    BY <1>1
  <2>2. \A i \in 1..(n - 1) : i \in 1..n /\ i # n
    BY <1>1
  <2>3. InUndo(rest, t) <=> \E i \in 1..(n - 1) : undo[i] = t
    BY <1>2, <1>3 DEF InUndo
  <2>4. InUndo(undo, t) <=> \E i \in 1..n : undo[i] = t
    BY <1>3 DEF InUndo
  <2>5. \A i \in 1..(n - 1) : undo[i] # undo[n]
    <3>1. \A i, j \in 1..n : undo[i] = undo[j] => i = j
      BY <1>4 DEF n
    <3> QED BY <1>1, <2>2, <3>1
  <2> QED BY <1>1, <2>1, <2>2, <2>3, <2>4, <2>5
<1> QED BY <1>1, <1>2, <1>4

LEMMA Steps ==
  ASSUME NEW s \in UndoSteps
  PROVE  /\ \A p \in Products : {StockStep(p), ReservationStep(p)} \subseteq UndoSteps
         /\ {CouponStep, OrderStep} \subseteq UndoSteps
         /\ s.does \in {"stock", "reservation", "coupon", "order"}
         /\ s.does = "stock" => s.of \in Products /\ s = StockStep(s.of)
         /\ s.does = "reservation" => s.of \in Products /\ s = ReservationStep(s.of)
         /\ s.does = "coupon" <=> s = CouponStep
         /\ s.does = "order" <=> s = OrderStep
  BY DEF UndoSteps, StockStep, ReservationStep, CouponStep, OrderStep

LEMMA DifferentSteps ==
  /\ \A p, q : StockStep(p).does = "stock" /\ StockStep(p).of = p /\ StockStep(p) # ReservationStep(q)
  /\ \A p : ReservationStep(p).does = "reservation" /\ ReservationStep(p).of = p
  /\ CouponStep.does = "coupon" /\ OrderStep.does = "order"
  /\ \A p, q : StockStep(p) = StockStep(q) => p = q
  /\ \A p, q : ReservationStep(p) = ReservationStep(q) => p = q
  BY DEF StockStep, ReservationStep, CouponStep, OrderStep

\* Sets of requests are finite.
LEMMA Counts ==
  ASSUME NEW S, NEW T, S \subseteq Requests, T \subseteq Requests
  PROVE  /\ Cardinality(S) \in Nat /\ Cardinality(T) \in Nat
         /\ S \subseteq T => Cardinality(S) <= Cardinality(T)
         /\ \A x \in Requests \ S : T = S \cup {x} => Cardinality(T) = Cardinality(S) + 1
<1>1. IsFiniteSet(S) /\ IsFiniteSet(T)
  BY FS_Subset, CheckoutAssumption
<1>2. Cardinality(S) \in Nat /\ Cardinality(T) \in Nat
  BY <1>1, FS_CardinalityType
<1>3. S \subseteq T => Cardinality(S) <= Cardinality(T)
  BY <1>1, FS_Subset
<1>4. \A x \in Requests \ S : T = S \cup {x} => Cardinality(T) = Cardinality(S) + 1
  BY <1>1, FS_AddElement
<1> QED BY <1>2, <1>3, <1>4

-----------------------------------------------------------------------------
(* What a step changes, and what follows for the rest *)

Documented == req \in [Requests -> Documents]
Monotone == \A events \in SUBSET Events : Never(events)' => Never(events)

\* What every statement of a checkout does to the requests.
Moves(q, pc, v, todo, undo) ==
  /\ Documented'
  /\ \A o \in Requests : o # q => req'[o] = req[o]
  /\ req'[q].pc = pc /\ req'[q].v = v /\ req'[q].todo = todo /\ req'[q].undo = undo

\* The documents of the other requests, and what the sweeper knows of them.
Others(q) ==
  \A o \in Requests : o # q =>
    /\ req'[o] = req[o] /\ order'[o] = order[o] /\ reservation'[o] = reservation[o]
    /\ o \in redemptions => o \in redemptions'
    /\ o \in closing' => o \in closing
    /\ \A p \in Products : <<o, p>> \in returning' <=> <<o, p>> \in returning

LEMMA OthersKept ==
  ASSUME IInv, NEW q \in Requests, Monotone, Others(q)
  PROVE  \A o \in Requests : o # q => OneRequest(o)'
<1> SUFFICES ASSUME NEW o \in Requests, o # q PROVE OneRequest(o)'
  OBVIOUS
<1>1. /\ req'[o] = req[o] /\ order'[o] = order[o] /\ reservation'[o] = reservation[o]
      /\ o \in redemptions => o \in redemptions'
      /\ o \in closing' => o \in closing
      /\ \A p \in Products : <<o, p>> \in returning' => <<o, p>> \in returning
  BY DEF Others
<1>2. OneRequest(o)
  BY DEF IInv
<1>3. (Never({"undo"})' => Never({"undo"})) /\ (Never({"cancel"})' => Never({"cancel"}))
  BY DEF Monotone, Events
<1>4. Coupons(o)' /\ Stack(req[o].undo, req[o].todo, req[o].pc)'
  BY <1>1, <1>2 DEF OneRequest, Coupons, Stack, WillUndo, At
<1>5. Unwinding(o)' /\ Refused(o)' /\ Reserved(o)'
  BY <1>1, <1>2, <1>3 DEF OneRequest, Unwinding, Refused, Reserved, WillUndo, At, Running
<1>6. Swept(o)'
  BY <1>1, <1>2, <1>3 DEF OneRequest, Swept, Over
<1> QED BY <1>4, <1>5, <1>6 DEF OneRequest

LEMMA Distribute ==
  ASSUME NEW a \in Nat, NEW n \in Nat
  PROVE  a * n \in Nat /\ a * (n + 1) = a * n + a
  OBVIOUS

HolderSet(p) == {r \in Requests : Held(r, p)}

\* Stock on hand and stock held move together.
LEMMA Balance ==
  ASSUME TypeOK, TypeOK', StockAccounted, Monotone, NEW q \in Requests,
         \A p \in Products, o \in Requests : o # q => (Held(o, p)' <=> Held(o, p)),
         \A p \in Products : Never({"undo", "cancel"})' =>
           \/ stock'[p] = stock[p] /\ (Held(q, p)' <=> Held(q, p))
           \/ stock'[p] = stock[p] - Quantity[p] /\ ~Held(q, p) /\ Held(q, p)'
           \/ stock'[p] = stock[p] + Quantity[p] /\ Held(q, p) /\ ~Held(q, p)'
  PROVE  StockAccounted'
<1> SUFFICES ASSUME NEW p \in Products, Never({"undo", "cancel"})'
             PROVE  /\ (stock[p] + HeldStock(p) <= Supply[p])'
                    /\ Never({"undo", "cancel", "crash"})' => (stock[p] + HeldStock(p) = Supply[p])'
  BY DEF StockAccounted, Never
<1>1. /\ Never({"undo", "cancel"}) /\ (Never({"undo", "cancel", "crash"})' => Never({"undo", "cancel", "crash"}))
  BY DEF Monotone, Events
<1>2. /\ stock[p] + HeldStock(p) <= Supply[p]
      /\ Never({"undo", "cancel", "crash"}) => stock[p] + HeldStock(p) = Supply[p]
  BY <1>1 DEF StockAccounted
<1> DEFINE S == HolderSet(p)
           n == Cardinality(S)
<1>3. PICK T, m : T = HolderSet(p)' /\ m = Cardinality(T)
  OBVIOUS
<1>4. S \subseteq Requests /\ T \subseteq Requests /\ n \in Nat /\ m \in Nat
  BY <1>3, Counts DEF HolderSet
<1>5. HeldStock(p) = Quantity[p] * n /\ HeldStock(p)' = Quantity[p] * m
  BY <1>3 DEF HeldStock, HolderSet
<1>6. Quantity[p] \in Nat /\ Supply[p] \in Nat /\ stock[p] \in Nat /\ stock'[p] \in Nat
  BY CheckoutAssumption DEF TypeOK
<1>7. \A o \in Requests : o # q => (o \in T <=> o \in S)
  BY <1>3 DEF HolderSet
<1>8. \/ stock'[p] = stock[p] /\ m = n
      \/ stock'[p] = stock[p] - Quantity[p] /\ m = n + 1
      \/ stock'[p] = stock[p] + Quantity[p] /\ n = m + 1
  <2>1. CASE stock'[p] = stock[p] /\ (Held(q, p)' <=> Held(q, p))
    <3>1. T = S
      BY <1>3, <1>7, <2>1 DEF HolderSet
    <3> QED BY <1>3, <2>1, <3>1
  <2>2. CASE stock'[p] = stock[p] - Quantity[p] /\ ~Held(q, p) /\ Held(q, p)'
    <3>1. q \notin S /\ T = S \cup {q}
      BY <1>3, <1>4, <1>7, <2>2 DEF HolderSet
    <3> QED BY <1>3, <1>4, <2>2, <3>1, Counts
  <2>3. CASE stock'[p] = stock[p] + Quantity[p] /\ Held(q, p) /\ ~Held(q, p)'
    <3>1. q \notin T /\ S = T \cup {q}
      BY <1>3, <1>4, <1>7, <2>3 DEF HolderSet
    <3> QED BY <1>3, <1>4, <2>3, <3>1, Counts
  <2> QED BY <2>1, <2>2, <2>3
<1> HIDE DEF n, S
<1>9. /\ Quantity[p] * n \in Nat /\ Quantity[p] * (n + 1) = Quantity[p] * n + Quantity[p]
      /\ Quantity[p] * m \in Nat /\ Quantity[p] * (m + 1) = Quantity[p] * m + Quantity[p]
  BY <1>4, <1>6, Distribute
<1>10. stock'[p] + Quantity[p] * m = stock[p] + Quantity[p] * n
  BY <1>4, <1>6, <1>8, <1>9
<1> QED BY <1>1, <1>2, <1>5, <1>10

LEMMA CountKept ==
  ASSUME TypeOK, TypeOK', CouponCount, Monotone, NEW q \in Requests,
         \/ usedCount' = usedCount /\ (Never({"undo"})' => Counted' \subseteq Counted)
         \/ usedCount' = usedCount + 1 /\ usedCount < UsageLimit /\ Counted' \subseteq Counted \cup {q}
         \/ usedCount' = usedCount - 1 /\ (Never({"undo"})' => q \in Counted /\ Counted' \subseteq Counted \ {q})
  PROVE  CouponCount'
<1>1. usedCount \in Nat /\ usedCount' \in Nat /\ UsageLimit \in Nat /\ usedCount <= UsageLimit
  BY CheckoutAssumption DEF TypeOK, CouponCount
<1>2. (usedCount <= UsageLimit)'
  BY <1>1
<1>3. ASSUME Never({"undo"})' PROVE (Cardinality(Counted) <= usedCount)'
  <2>1. PICK T : T = Counted'
    OBVIOUS
  <2> DEFINE S == Counted
             n == Cardinality(S)
             m == Cardinality(T)
  <2>2. S \subseteq Requests /\ T \subseteq Requests
    BY <2>1, CheckoutAssumption DEF Counted
  <2>3. n \in Nat /\ m \in Nat /\ n <= usedCount
    BY <1>3, <2>2, Counts DEF CouponCount, Monotone, Events
  <2>4. CASE T \subseteq S /\ usedCount' = usedCount
    <3>1. m <= n
      BY <2>2, <2>4, Counts
    <3> QED BY <1>1, <2>1, <2>3, <2>4, <3>1
  <2>5. CASE usedCount' = usedCount + 1 /\ T \subseteq S \cup {q}
    <3>1. m <= n + 1
      <4>1. CASE q \in S
        BY <2>2, <2>3, <2>5, <4>1, Counts
      <4>2. CASE q \notin S
        <5>1. S \cup {q} \subseteq Requests
          BY <2>2
        <5>2. Cardinality(S \cup {q}) = n + 1
          BY <2>2, <4>2, <5>1, Counts
        <5>3. m <= Cardinality(S \cup {q})
          BY <2>2, <2>5, <5>1, Counts
        <5> QED BY <5>2, <5>3
      <4> QED BY <4>1, <4>2
    <3> QED BY <1>1, <2>1, <2>3, <2>5, <3>1
  <2>6. CASE usedCount' = usedCount - 1 /\ q \in S /\ T \subseteq S \ {q}
    <3>1. S \ {q} \subseteq Requests /\ S = (S \ {q}) \cup {q} /\ q \in Requests \ (S \ {q})
      BY <2>2, <2>6
    <3>2. n = Cardinality(S \ {q}) + 1 /\ Cardinality(S \ {q}) \in Nat
      BY <2>2, <3>1, Counts
    <3>3. m <= Cardinality(S \ {q})
      BY <2>2, <2>6, <3>1, Counts
    <3> QED BY <1>1, <2>1, <2>3, <2>6, <3>2, <3>3
  <2> QED BY <1>3, <2>1, <2>4, <2>5, <2>6
<1> QED BY <1>2, <1>3 DEF CouponCount

\* No cart was saved, nothing was ordered and nothing validated.
LEMMA CartsKept ==
  ASSUME IInv, TypeOK', \A u \in Users : cart'[u].v = cart[u].v,
         \A r \in Requests :
           /\ At(r, "ordered")' <=> At(r, "ordered")
           /\ \/ req'[r].v = req[r].v /\ (Validated(r)' => Validated(r))
              \/ req'[r].v <= cart[User[r]].v /\ ~At(r, "ordered") /\ ~Validated(r)'
  PROVE  Versions' /\ OneOrderPerCart' /\ Within' /\ PerUserLimitHolds'
<1>1. \A r \in Requests : cart'[User[r]].v = cart[User[r]].v
  BY CheckoutAssumption
<1>2. Versions'
  BY <1>1 DEF IInv, Versions
<1>3. OneOrderPerCart'
  BY DEF IInv, OneOrderPerCart
<1>4. \A u : CouponOrders(u)' = CouponOrders(u)
  BY CheckoutAssumption DEF CouponOrders
<1>5. Within'
  BY <1>1, <1>4 DEF IInv, Within
<1>6. PerUserLimitHolds'
  <2>1. \A u \in Users : Cardinality(CouponOrders(u)) <= PerUserLimit
    BY DEF IInv, PerUserLimitHolds, CouponOrders
  <2>2. \A u \in Users : Cardinality(CouponOrders(u)') <= PerUserLimit
    BY <1>4, <2>1
  <2> QED BY <2>2 DEF PerUserLimitHolds, CouponOrders
<1> QED BY <1>2, <1>3, <1>5, <1>6

\* A step that neither checkouts nor the sweeper take part in.
LEMMA NothingOfIt ==
  ASSUME IInv, TypeOK', Bounded', Monotone,
         UNCHANGED <<stock, reservation, order, usedCount, redemptions, req, closing, returning>>,
         \A u \in Users : cart'[u].v = cart[u].v
  PROVE  IInv'
<1>1. ASSUME NEW r \in Requests PROVE OneRequest(r)'
  <2>1. OneRequest(r)
    BY DEF IInv
  <2>2. (Never({"undo"})' => Never({"undo"})) /\ (Never({"cancel"})' => Never({"cancel"}))
    BY DEF Monotone, Events
  <2>3. Coupons(r)' /\ Stack(req[r].undo, req[r].todo, req[r].pc)'
    BY <2>1 DEF OneRequest, Coupons, Stack, WillUndo, At
  <2>4. Unwinding(r)' /\ Refused(r)' /\ Reserved(r)' /\ Swept(r)'
    BY <2>1, <2>2 DEF OneRequest, Unwinding, Refused, Reserved, Swept, WillUndo, At, Running, Over
  <2> QED BY <2>3, <2>4 DEF OneRequest
<1>2. StockAccounted'
  <2>1. \A p \in Products : HeldStock(p)' = HeldStock(p)
    BY DEF HeldStock, Held, WillUndo, Running
  <2>2. /\ Never({"undo", "cancel"})' => Never({"undo", "cancel"})
        /\ Never({"undo", "cancel", "crash"})' => Never({"undo", "cancel", "crash"})
    BY DEF Monotone, Events
  <2> QED BY <2>1, <2>2 DEF IInv, StockAccounted
<1>3. CouponCount'
  <2>1. Counted' = Counted
    BY DEF Counted, WillUndo
  <2>2. Never({"undo"})' => Never({"undo"})
    BY DEF Monotone, Events
  <2> QED BY <2>1, <2>2 DEF IInv, CouponCount
<1>4. Versions' /\ OneOrderPerCart' /\ Within' /\ PerUserLimitHolds'
  <2>1. \A r \in Requests : (At(r, "ordered")' <=> At(r, "ordered")) /\ (Validated(r)' <=> Validated(r))
    BY DEF At, Validated
  <2> QED BY <2>1, CartsKept
<1> QED BY <1>1, <1>2, <1>3, <1>4 DEF IInv

-----------------------------------------------------------------------------
(* Lemmas about one request *)

LEMMA TypeFacts ==
  ASSUME TypeOK, NEW q \in Requests
  PROVE  /\ Documented /\ req[q] \in Documents
         /\ req[q].pc \in PCs /\ req[q].v \in Nat /\ req[q].todo \subseteq Products /\ req[q].undo \in Seq(UndoSteps)
         /\ User[q] \in Users /\ Instance[q] \in Instances
         /\ cart[User[q]].items \subseteq Products /\ cart[User[q]].v \in Nat
         /\ order[q] \in {"none", "pending", "cancelled"}
         /\ \A p \in Products : reservation[q][p] \in {"none", "reserved", "released", "expired"}
  BY CheckoutAssumption DEF TypeOK, Documented, Documents

LEMMA ChangeMoves ==
  ASSUME TypeOK, NEW q \in Requests, NEW pc \in PCs, NEW v \in Nat, NEW todo \in SUBSET Products,
         NEW undo \in Seq(UndoSteps)
  PROVE  /\ Goto(q, pc) => Moves(q, pc, req[q].v, req[q].todo, req[q].undo)
         /\ req' = [req EXCEPT ![q].pc = pc, ![q].v = v, ![q].todo = todo] => Moves(q, pc, v, todo, req[q].undo)
         /\ req' = [req EXCEPT ![q].pc = pc, ![q].undo = undo] => Moves(q, pc, req[q].v, req[q].todo, undo)
         /\ req' = [req EXCEPT ![q].undo = undo] => Moves(q, req[q].pc, req[q].v, req[q].todo, undo)
         /\ req' = [req EXCEPT ![q].pc = pc, ![q].todo = todo, ![q].undo = undo] => Moves(q, pc, req[q].v, todo, undo)
<1>1. Documented
  BY DEF TypeOK, Documented, Documents
<1>2. Goto(q, pc) => Moves(q, pc, req[q].v, req[q].todo, req[q].undo)
  BY <1>1 DEF Documented, Documents, Goto, Moves
<1>3. req' = [req EXCEPT ![q].pc = pc, ![q].v = v, ![q].todo = todo] => Moves(q, pc, v, todo, req[q].undo)
  <2>1. PICK doc \in Documents : doc = [req[q] EXCEPT !.pc = pc, !.v = v, !.todo = todo]
    BY <1>1 DEF Documented, Documents
  <2>2. ASSUME req' = [req EXCEPT ![q].pc = pc, ![q].v = v, ![q].todo = todo] PROVE req' = [req EXCEPT ![q] = doc]
    BY <1>1, <2>1, <2>2 DEF Documented, Documents
  <2>3. ASSUME req' = [req EXCEPT ![q] = doc] PROVE Moves(q, pc, v, todo, req[q].undo)
    BY <1>1, <2>1, <2>3 DEF Documented, Documents, Moves
  <2> QED BY <2>2, <2>3
<1>4. req' = [req EXCEPT ![q].pc = pc, ![q].undo = undo] => Moves(q, pc, req[q].v, req[q].todo, undo)
  <2>1. PICK doc \in Documents : doc = [req[q] EXCEPT !.pc = pc, !.undo = undo]
    BY <1>1 DEF Documented, Documents
  <2>2. ASSUME req' = [req EXCEPT ![q].pc = pc, ![q].undo = undo] PROVE req' = [req EXCEPT ![q] = doc]
    BY <1>1, <2>1, <2>2 DEF Documented, Documents
  <2>3. ASSUME req' = [req EXCEPT ![q] = doc] PROVE Moves(q, pc, req[q].v, req[q].todo, undo)
    BY <1>1, <2>1, <2>3 DEF Documented, Documents, Moves
  <2> QED BY <2>2, <2>3
<1>5. req' = [req EXCEPT ![q].undo = undo] => Moves(q, req[q].pc, req[q].v, req[q].todo, undo)
  BY <1>1 DEF Documented, Documents, Moves
<1>6. req' = [req EXCEPT ![q].pc = pc, ![q].todo = todo, ![q].undo = undo] => Moves(q, pc, req[q].v, todo, undo)
  <2>1. PICK doc \in Documents : doc = [req[q] EXCEPT !.pc = pc, !.todo = todo, !.undo = undo]
    BY <1>1 DEF Documented, Documents
  <2>2. ASSUME req' = [req EXCEPT ![q].pc = pc, ![q].todo = todo, ![q].undo = undo] PROVE req' = [req EXCEPT ![q] = doc]
    BY <1>1, <2>1, <2>2 DEF Documented, Documents
  <2>3. ASSUME req' = [req EXCEPT ![q] = doc] PROVE Moves(q, pc, req[q].v, todo, undo)
    BY <1>1, <2>1, <2>3 DEF Documented, Documents, Moves
  <2> QED BY <2>2, <2>3
<1> QED BY <1>2, <1>3, <1>4, <1>5, <1>6

\* TypeOK after a step of q: what is left to show are the documents it writes.
LEMMA TypesKept ==
  ASSUME TypeOK, Documented',
         stock' \in [Products -> Nat],
         reservation' \in [Requests -> [Products -> {"none", "reserved", "released", "expired"}]],
         linked' \subseteq Requests, order' \in [Requests -> {"none", "pending", "cancelled"}],
         usedCount' \in Nat, redemptions' \subseteq WithCoupon,
         cart' \in [Users -> [items : SUBSET Products, v : Nat]],
         lock' \in [Instances -> [Users -> Requests \cup {Nobody}]],
         closing' \subseteq Requests, returning' \subseteq Requests \X Products, budget' \in [Events -> Nat]
  PROVE  TypeOK'
  BY DEF TypeOK, Documented, Documents

LEMMA HeldOthers ==
  ASSUME NEW q \in Requests, Others(q)
  PROVE  /\ \A p \in Products, o \in Requests : o # q => (Held(o, p)' <=> Held(o, p))
         /\ \A o \in Requests : o # q => (o \in Counted' <=> o \in Counted)
         /\ \A o \in Requests : o # q => (At(o, "ordered")' <=> At(o, "ordered")) /\ (Validated(o)' <=> Validated(o))
<1>1. \A p \in Products, o \in Requests : o # q => (Held(o, p)' <=> Held(o, p))
  BY DEF Others, Held, WillUndo, Running
<1>2. \A o \in Requests : o # q => (o \in Counted' <=> o \in Counted)
  BY DEF Others, Counted, WillUndo
<1> QED BY <1>1, <1>2 DEF Others, At, Validated

LEMMA Assemble ==
  ASSUME IInv, NEW q \in Requests, Monotone, Others(q), TypeOK', Bounded', OneRequest(q)',
         StockAccounted', CouponCount', Versions', OneOrderPerCart', Within', PerUserLimitHolds'
  PROVE  IInv'
  BY OthersKept DEF IInv

LEMMA StackGoes ==
  ASSUME NEW undo, NEW todo, NEW pc, Stack(undo, todo, pc),
         NEW next \in {"items", "claim", "create", "link", "redeem", "save", "undo"},
         next \in {"items", "claim"} => pc = "items",
         next = "create" => pc \in {"items", "claim"}
  PROVE  Stack(undo, todo, next)
  BY DEF Stack

LEMMA StackAppended ==
  ASSUME NEW undo \in Seq(UndoSteps), NEW todo, NEW pc, Stack(undo, todo, pc), NEW s \in UndoSteps,
         NEW rest \in SUBSET todo, NEW next \in {"items", "reserve", "create", "link"},
         pc \in {"items", "reserve", "claim", "create"},
         ~InUndo(undo, s),
         s.does = "reservation" => Len(undo) > 0 /\ undo[Len(undo)] = StockStep(s.of),
         s.does = "stock" => s.of \notin rest,
         next \in {"items", "reserve"} => s.does \in {"stock", "reservation"} /\ pc \in {"items", "reserve"},
         next = "create" => s.does # "order",
         next = "reserve" => s.does = "stock"
  PROVE  Stack(Append(undo, s), rest, next)
<1> DEFINE n == Len(undo)
           new == Append(undo, s)
<1>1. /\ n \in Nat /\ Len(new) = n + 1 /\ new[n + 1] = s
      /\ \A i \in 1..n : new[i] = undo[i] /\ undo[i] \in UndoSteps
  BY Appended
<1>2. \A i \in 1..(n + 1) : i \in 1..n \/ i = n + 1
  BY <1>1
<1>3. \A i \in 1..n : undo[i] # s
  BY <1>1 DEF InUndo
<1>4. \A i \in 1..n : undo[i].does # "order"
  <2>1. \A i \in 1..n : undo[i].does \in {"stock", "reservation", "coupon", "order"}
    BY <1>1, Steps
  <2> QED BY <2>1 DEF Stack
<1>5. \A i, j \in 1..n : undo[i] = undo[j] => i = j
  BY DEF Stack
<1>6. \A i \in 1..n :
        /\ undo[i].does = "reservation" => i > 1 /\ undo[i - 1] = StockStep(undo[i].of)
        /\ undo[i].does = "stock" => undo[i].of \notin todo
        /\ pc \in {"items", "reserve"} => undo[i].does \in {"stock", "reservation"}
  BY DEF Stack
<1> HIDE DEF new
<1>7. \A i, j \in 1..Len(new) : new[i] = new[j] => i = j
  BY <1>1, <1>2, <1>3, <1>5
<1>8. ASSUME NEW i \in 1..Len(new)
      PROVE  /\ new[i].does = "order" => i = Len(new)
             /\ new[i].does = "reservation" => i > 1 /\ new[i - 1] = StockStep(new[i].of)
             /\ new[i].does = "stock" => new[i].of \notin rest
             /\ next \in {"items", "reserve", "claim"} => new[i].does \in {"stock", "reservation"}
             /\ next = "create" => new[i].does # "order"
  <2>1. CASE i = n + 1
    <3>1. s.does = "reservation" => n > 0 /\ new[n] = StockStep(s.of)
      BY <1>1
    <3> QED BY <1>1, <2>1, <3>1
  <2>2. CASE i \in 1..n
    <3>1. new[i] = undo[i] /\ (i > 1 => new[i - 1] = undo[i - 1])
      BY <1>1, <2>2
    <3> QED BY <1>1, <1>4, <1>6, <2>2, <3>1
  <2> QED BY <1>1, <1>2, <2>1, <2>2
<1>9. next = "reserve" => Len(new) > 0 /\ new[Len(new)].does = "stock"
  BY <1>1
<1>10. Stack(new, rest, next)
  BY <1>7, <1>8, <1>9 DEF Stack
<1> QED BY <1>10 DEF new

LEMMA StackPopped ==
  ASSUME NEW undo \in Seq(UndoSteps), undo # <<>>, NEW todo, Stack(undo, todo, "undo")
  PROVE  Stack(SubSeq(undo, 1, Len(undo) - 1), todo, "undo")
<1> DEFINE n == Len(undo)
           rest == SubSeq(undo, 1, n - 1)
<1>1. /\ n \in Nat \ {0} /\ Len(rest) = n - 1 /\ \A i \in 1..(n - 1) : rest[i] = undo[i]
  BY Popped
<1>2. \A i \in 1..(n - 1) : i \in 1..n /\ i # n /\ (i > 1 => i - 1 \in 1..(n - 1))
  BY <1>1
<1>3. \A i \in 1..n :
        /\ undo[i].does = "order" => i = n
        /\ undo[i].does = "reservation" => i > 1 /\ undo[i - 1] = StockStep(undo[i].of)
        /\ undo[i].does = "stock" => undo[i].of \notin todo
  BY DEF Stack
<1>4. \A i, j \in 1..n : undo[i] = undo[j] => i = j
  BY DEF Stack
<1> HIDE DEF rest, n
<1>5. \A i, j \in 1..Len(rest) : rest[i] = rest[j] => i = j
  BY <1>1, <1>2, <1>4
<1>6. ASSUME NEW i \in 1..Len(rest)
      PROVE  /\ rest[i].does = "order" => i = Len(rest)
             /\ rest[i].does = "reservation" => i > 1 /\ rest[i - 1] = StockStep(rest[i].of)
             /\ rest[i].does = "stock" => rest[i].of \notin todo
  <2>1. i \in 1..n /\ i # n /\ rest[i] = undo[i] /\ (i > 1 => rest[i - 1] = undo[i - 1])
    BY <1>1, <1>2
  <2> QED BY <1>3, <2>1
<1>7. Stack(rest, todo, "undo")
  BY <1>5, <1>6 DEF Stack
<1> QED BY <1>7 DEF rest, n

\* A statement of executeCheckout that leaves the request running.
LEMMA Advance ==
  ASSUME IInv, NEW q \in Requests, Running(q), Monotone, UNCHANGED <<closing, returning>>,
         redemptions \subseteq redemptions',
         NEW pc \in {"items", "reserve", "claim", "create", "link", "redeem", "save", "undo"},
         NEW v, NEW todo, NEW undo, Moves(q, pc, v, todo, undo), Stack(undo, todo, pc),
         \A t : InUndo(req[q].undo, t) => InUndo(undo, t),
         InUndo(undo, CouponStep) => InUndo(req[q].undo, CouponStep) \/ q \in WithCoupon,
         pc \in {"claim", "redeem"} => q \in WithCoupon,
         pc \in {"create", "link", "redeem", "save"} /\ q \in WithCoupon => InUndo(undo, CouponStep),
         pc = "save" /\ q \in WithCoupon => q \in redemptions',
         order'[q] # "none" => order[q] # "none" \/ InUndo(undo, OrderStep),
         \A p \in Products : reservation'[q][p] = "reserved" =>
           reservation[q][p] = "reserved" \/ InUndo(undo, ReservationStep(p)),
         Never({"cancel"}) /\ pc # "undo" =>
           \A p \in Products : InUndo(undo, StockStep(p)) =>
             \/ reservation'[q][p] = "reserved"
             \/ pc = "reserve" /\ undo[Len(undo)] = StockStep(p)
  PROVE  OneRequest(q)'
<1>1. OneRequest(q)
  BY DEF IInv
<1>2. (Never({"undo"})' => Never({"undo"})) /\ (Never({"cancel"})' => Never({"cancel"}))
  BY DEF Monotone, Events
<1>3. /\ req'[q].pc = pc /\ req'[q].todo = todo /\ req'[q].undo = undo /\ Running(q)' /\ ~Over(q)
      /\ \A t : WillUndo(q, t)' <=> InUndo(undo, t)
      /\ \A t : WillUndo(q, t) <=> InUndo(req[q].undo, t)
  BY DEF Moves, Running, Over, WillUndo, InUndo
<1>4. Coupons(q)'
  BY <1>1, <1>3 DEF OneRequest, Coupons, At
<1>5. Stack(req[q].undo, req[q].todo, req[q].pc)'
  BY <1>3 DEF Stack
<1>6. Unwinding(q)'
  BY <1>1, <1>2, <1>3 DEF OneRequest, Unwinding
<1>7. Refused(q)' /\ Reserved(q)'
  BY <1>2, <1>3 DEF Refused, Reserved, At
<1>8. Swept(q)'
  BY <1>1, <1>2, <1>3 DEF OneRequest, Swept
<1> QED BY <1>4, <1>5, <1>6, <1>7, <1>8 DEF OneRequest

-----------------------------------------------------------------------------
(* The first state *)

LEMMA InitInv == Init => IInv
<1> SUFFICES ASSUME Init PROVE IInv
  OBVIOUS
<1> USE CheckoutAssumption
<1>1. TypeOK
  <2>1. <<>> \in Seq(UndoSteps)
    OBVIOUS
  <2>2. req \in [Requests -> Documents]
    BY <2>1 DEF Init, Documents, PCs
  <2>3. cart \in [Users -> [items : SUBSET Products, v : Nat]]
    BY DEF Init
  <2>4. reservation \in [Requests -> [Products -> {"none", "reserved", "released", "expired"}]]
    BY DEF Init
  <2>5. lock \in [Instances -> [Users -> Requests \cup {Nobody}]]
    BY DEF Init
  <2>6. /\ stock \in [Products -> Nat] /\ linked \subseteq Requests
        /\ order \in [Requests -> {"none", "pending", "cancelled"}] /\ usedCount \in Nat
        /\ redemptions \subseteq WithCoupon /\ closing \subseteq Requests
        /\ returning \subseteq Requests \X Products /\ budget \in [Events -> Nat]
    BY DEF Init
  <2> QED BY <2>2, <2>3, <2>4, <2>5, <2>6 DEF TypeOK, Documents
<1>2. Bounded
  <2>1. \A e \in Events : Budget[e] \in Nat
    OBVIOUS
  <2> QED BY <2>1 DEF Init, Bounded
<1>3. \A r \in Requests : /\ req[r].pc = "start" /\ req[r].v = 0 /\ req[r].undo = <<>> /\ order[r] = "none"
                          /\ \A p \in Products : reservation[r][p] = "none"
  BY DEF Init
<1>4. \A r \in Requests : \A t : ~WillUndo(r, t)
  BY <1>3 DEF WillUndo
<1>5. ASSUME NEW r \in Requests PROVE OneRequest(r)
  <2>1. Coupons(r) /\ Unwinding(r) /\ Refused(r) /\ Reserved(r)
    BY <1>3, <1>4 DEF Coupons, Unwinding, Refused, Reserved, At, Running
  <2>2. Stack(req[r].undo, req[r].todo, req[r].pc)
    BY <1>3 DEF Stack
  <2>3. Swept(r)
    BY DEF Init, Swept
  <2> QED BY <2>1, <2>2, <2>3 DEF OneRequest
<1>6. StockAccounted
  <2> SUFFICES ASSUME NEW p \in Products PROVE stock[p] + HeldStock(p) = Supply[p] /\ HeldStock(p) \in Nat
    BY DEF StockAccounted
  <2>1. {r \in Requests : Held(r, p)} = {}
    BY <1>3, <1>4 DEF Held, StockStep, Init
  <2>2. HeldStock(p) = 0
    BY <2>1, FS_EmptySet DEF HeldStock
  <2> QED BY <2>2 DEF Init
<1>7. CouponCount
  <2>1. Counted = {}
    BY <1>3, <1>4 DEF Counted
  <2>2. Cardinality(Counted) = 0
    BY <2>1, FS_EmptySet
  <2> QED BY <2>2 DEF CouponCount, Init
<1>8. Versions /\ OneOrderPerCart /\ Within
  <2>1. \A r \in Requests : cart[User[r]].v = 0
    BY DEF Init
  <2> QED BY <1>3, <2>1 DEF Versions, OneOrderPerCart, Within, At, Validated
<1>9. PerUserLimitHolds
  <2>1. \A u \in Users : {r \in WithCoupon : User[r] = u /\ At(r, "ordered")} = {}
    BY <1>3 DEF At
  <2> QED BY <2>1, FS_EmptySet DEF PerUserLimitHolds
<1> QED BY <1>1, <1>2, <1>5, <1>6, <1>7, <1>8, <1>9 DEF IInv

-----------------------------------------------------------------------------
(* executeCheckout *)

\* A step of a running request that writes nothing the properties are about but its own progress.
LEMMA Quiet ==
  ASSUME IInv, NEW q \in Requests, Running(q),
         UNCHANGED <<stock, reservation, order, usedCount, redemptions, cart, lock, closing, returning>>,
         linked' \subseteq Requests, budget' \in [Events -> Nat], Bounded', Monotone,
         NEW pc \in {"items", "claim", "create", "redeem", "save", "undo"},
         NEW v, NEW todo, Moves(q, pc, v, todo, req[q].undo), Stack(req[q].undo, todo, pc),
         pc \in {"claim", "redeem"} => q \in WithCoupon,
         pc \in {"create", "redeem", "save"} /\ q \in WithCoupon => WillUndo(q, CouponStep),
         pc = "save" => q \notin WithCoupon,
         pc # "undo" => ~At(q, "undo") /\ ~At(q, "reserve"),
         Versions' /\ OneOrderPerCart' /\ Within' /\ PerUserLimitHolds'
  PROVE  IInv'
<1>1. TypeOK'
  BY TypesKept DEF IInv, TypeOK, Moves
<1>2. Others(q) /\ Running(q)' /\ \A t : WillUndo(q, t)' <=> WillUndo(q, t)
  BY DEF Others, Moves, Running, WillUndo
<1>3. OneRequest(q)'
  <2>1. \A t : WillUndo(q, t) <=> InUndo(req[q].undo, t)
    BY DEF WillUndo, InUndo
  <2>2. Never({"cancel"}) /\ pc # "undo" =>
          \A p \in Products : WillUndo(q, StockStep(p)) => reservation[q][p] = "reserved"
    BY DEF IInv, OneRequest, Reserved
  <2> QED BY <2>1, <2>2, Advance
<1>4. StockAccounted'
  <2>1. \A p \in Products : stock'[p] = stock[p] /\ (Held(q, p)' <=> Held(q, p))
    BY <1>2 DEF Held, StockStep
  <2>2. \A p \in Products, o \in Requests : o # q => (Held(o, p)' <=> Held(o, p))
    BY <1>2, HeldOthers
  <2> QED BY <1>1, <2>1, <2>2, Balance DEF IInv
<1>5. CouponCount'
  <2>1. usedCount' = usedCount /\ Counted' \subseteq Counted
    BY <1>2, HeldOthers, CheckoutAssumption DEF Counted
  <2> QED BY <1>1, <2>1, CountKept DEF IInv
<1> QED BY <1>1, <1>2, <1>3, <1>4, <1>5, Assemble

\* Most steps neither read nor save a cart.
LEMMA CartsKeptBy ==
  ASSUME IInv, TypeOK', NEW q \in Requests, Others(q), \A u \in Users : cart'[u].v = cart[u].v,
         ~At(q, "ordered"), ~At(q, "ordered")',
         \/ req'[q].v = req[q].v /\ (Validated(q)' => Validated(q))
         \/ req'[q].v <= cart[User[q]].v /\ ~Validated(q)'
  PROVE  Versions' /\ OneOrderPerCart' /\ Within' /\ PerUserLimitHolds'
<1>1. \A r \in Requests :
        /\ At(r, "ordered")' <=> At(r, "ordered")
        /\ \/ req'[r].v = req[r].v /\ (Validated(r)' => Validated(r))
           \/ req'[r].v <= cart[User[r]].v /\ ~At(r, "ordered") /\ ~Validated(r)'
  BY HeldOthers DEF Others
<1> QED BY <1>1, CartsKept

\* A step that fails, by a guard of its own or by an exception, is undone.
LEMMA GoesToUndo ==
  ASSUME IInv, NEW q \in Requests, Running(q), Goto(q, "undo"),
         UNCHANGED <<stock, reservation, order, usedCount, redemptions, cart, lock, closing, returning, linked>>,
         UNCHANGED budget \/ \E e \in Events : Spend(e)
  PROVE  IInv'
<1>1. budget' \in [Events -> Nat] /\ Bounded' /\ Monotone
  BY Faults DEF IInv, Monotone
<1>2. Moves(q, "undo", req[q].v, req[q].todo, req[q].undo)
  <2>1. TypeOK /\ "undo" \in PCs
    BY DEF IInv, PCs
  <2> QED BY <2>1, ChangeMoves, TypeFacts
<1>3. Stack(req[q].undo, req[q].todo, "undo")
  BY StackGoes DEF IInv, OneRequest
<1>4. TypeOK' /\ Others(q)
  BY <1>1, <1>2, TypesKept DEF IInv, TypeOK, Moves, Others
<1>5. Versions' /\ OneOrderPerCart' /\ Within' /\ PerUserLimitHolds'
  <2>1. ~At(q, "ordered") /\ ~At(q, "ordered")' /\ ~Validated(q)' /\ req'[q].v = req[q].v
    BY <1>2 DEF Running, At, Moves, Validated
  <2> QED BY <1>4, <2>1, CartsKeptBy
<1>6. linked' \subseteq Requests
  BY DEF IInv, TypeOK
<1> QED BY <1>1, <1>2, <1>3, <1>5, <1>6, Quiet

LEMMA ThrowStep == ASSUME IInv, NEW q \in Requests, Throw(q) PROVE IInv'
<1>1. Running(q)
  BY DEF Throw, Running
<1>2. \E e \in Events : Spend(e)
  BY DEF Throw, Events
<1> QED BY <1>1, <1>2, GoesToUndo DEF Throw, Data

LEMMA ReadCartStep == ASSUME IInv, NEW q \in Requests, ReadCart(q) PROVE IInv'
<1> DEFINE c == cart[User[q]]
           pc == IF c.items = {} THEN "undo" ELSE "items"
<1>1. /\ At(q, "cart") /\ Running(q) /\ req' = [req EXCEPT ![q].pc = pc, ![q].v = c.v, ![q].todo = c.items]
      /\ UNCHANGED <<stock, reservation, order, usedCount, redemptions, cart, lock, closing, returning, linked, budget>>
  BY DEF ReadCart, At, Running, Data, Local
<1>2. budget' \in [Events -> Nat] /\ Bounded' /\ Monotone
  BY <1>1, Faults DEF IInv, Monotone
<1>3. c.v \in Nat /\ c.items \subseteq Products /\ pc \in {"undo", "items"} /\ TypeOK
  BY TypeFacts DEF IInv
<1> HIDE DEF pc, c
<1>3a. PICK v \in Nat, todo \in SUBSET Products, to \in PCs : v = c.v /\ todo = c.items /\ to = pc
  BY <1>3 DEF PCs
<1>4. Moves(q, to, v, todo, req[q].undo)
  <2>1. req' = [req EXCEPT ![q].pc = to, ![q].v = v, ![q].todo = todo]
    BY <1>1, <1>3a
  <2>2. req[q].undo \in Seq(UndoSteps)
    BY <1>3, TypeFacts
  <2> QED BY <1>3, <2>1, <2>2, ChangeMoves
<1>5. Stack(req[q].undo, c.items, pc) /\ \A t : ~WillUndo(q, t)
  <2>1. req[q].undo = <<>>
    BY <1>1 DEF IInv, OneRequest, Stack, At
  <2> QED BY <1>3, <2>1 DEF Stack, WillUndo
<1>6. TypeOK' /\ Others(q)
  BY <1>1, <1>2, <1>4, TypesKept DEF IInv, TypeOK, Moves, Others
<1>7. Versions' /\ OneOrderPerCart' /\ Within' /\ PerUserLimitHolds'
  <2>1. ~At(q, "ordered") /\ ~At(q, "ordered")' /\ ~Validated(q)' /\ req'[q].v <= cart[User[q]].v
    BY <1>1, <1>3, <1>4, <1>3a DEF At, Moves, Validated, c
  <2> QED BY <1>1, <1>6, <2>1, CartsKeptBy
<1>8. linked' \subseteq Requests
  BY <1>1 DEF IInv, TypeOK
<1>9. /\ pc \in {"items", "claim", "create", "redeem", "save", "undo"}
      /\ pc \notin {"claim", "redeem", "create", "save"}
      /\ ~At(q, "undo") /\ ~At(q, "reserve")
  BY <1>1, <1>3 DEF At
<1>11. Stack(req[q].undo, todo, to)
  BY <1>5, <1>3a
<1> QED BY <1>1, <1>2, <1>4, <1>7, <1>8, <1>9, <1>3a, <1>11, Quiet

LEMMA AcquireLockStep == ASSUME IInv, NEW q \in Requests, AcquireLock(q) PROVE IInv'
<1>1. /\ At(q, "start")
      /\ UNCHANGED <<stock, reservation, order, usedCount, redemptions, cart, linked, closing, returning, budget>>
  BY DEF AcquireLock, Data
<1>2. budget' \in [Events -> Nat] /\ Bounded' /\ Monotone
  BY <1>1, Faults DEF IInv, Monotone
<1>3. TypeOK
  BY DEF IInv
<1>4. PICK pc \in {"cart", "refused"} : Goto(q, pc)
  BY DEF AcquireLock
<1>5. Moves(q, pc, req[q].v, req[q].todo, req[q].undo)
  <2>1. pc \in PCs /\ req[q].v \in Nat /\ req[q].todo \in SUBSET Products /\ req[q].undo \in Seq(UndoSteps)
    BY <1>3, TypeFacts DEF PCs
  <2> QED BY <1>3, <1>4, <2>1, ChangeMoves
<1>6. req[q].undo = <<>> /\ order[q] = "none" /\ \A p \in Products : reservation[q][p] = "none"
  BY <1>1 DEF IInv, OneRequest, Stack, Coupons, At
<1>7. /\ req'[q].undo = <<>> /\ req'[q].pc \in {"cart", "refused"}
      /\ \A t : ~WillUndo(q, t) /\ ~WillUndo(q, t)'
  BY <1>5, <1>6 DEF Moves, WillUndo
<1>8. Others(q)
  BY <1>1, <1>5 DEF Others, Moves
<1>9. lock' \in [Instances -> [Users -> Requests \cup {Nobody}]]
  <2>1. \/ lock' = lock
        \/ lock' = [lock EXCEPT ![Instance[q]][User[q]] = q]
    BY DEF AcquireLock
  <2>2. Instance[q] \in Instances /\ User[q] \in Users /\ lock \in [Instances -> [Users -> Requests \cup {Nobody}]]
    BY <1>3, TypeFacts DEF TypeOK
  <2> QED BY <2>1, <2>2
<1>10. TypeOK'
  BY <1>1, <1>2, <1>3, <1>5, <1>9, TypesKept DEF TypeOK, Moves
<1>11. OneRequest(q)'
  <2>1. Coupons(q)' /\ Unwinding(q)' /\ Refused(q)' /\ Reserved(q)'
    BY <1>1, <1>6, <1>7 DEF Coupons, Unwinding, Refused, Reserved, At
  <2>2. Stack(req[q].undo, req[q].todo, req[q].pc)'
    BY <1>7 DEF Stack
  <2>3. Swept(q)'
    <3>1. Never({"cancel"})' => Never({"cancel"})
      BY <1>2 DEF Monotone, Events
    <3> QED BY <1>1, <3>1 DEF IInv, OneRequest, Swept, Over, At
  <2> QED BY <2>1, <2>2, <2>3 DEF OneRequest
<1>12. StockAccounted'
  <2>1. \A p \in Products : stock'[p] = stock[p] /\ (Held(q, p)' <=> Held(q, p))
    BY <1>1, <1>6, <1>7 DEF Held
  <2> QED BY <1>2, <1>3, <1>8, <1>10, <2>1, HeldOthers, Balance DEF IInv
<1>13. CouponCount'
  <2>1. usedCount' = usedCount /\ Counted' \subseteq Counted
    BY <1>1, <1>7, <1>8, HeldOthers, CheckoutAssumption DEF Counted
  <2> QED BY <1>2, <1>3, <1>10, <2>1, CountKept DEF IInv
<1>14. Versions' /\ OneOrderPerCart' /\ Within' /\ PerUserLimitHolds'
  <2>1. ~At(q, "ordered") /\ ~At(q, "ordered")' /\ ~Validated(q)' /\ req'[q].v = req[q].v
    BY <1>1, <1>5 DEF At, Moves, Validated
  <2> QED BY <1>1, <1>8, <1>10, <2>1, CartsKeptBy
<1> QED BY <1>2, <1>8, <1>10, <1>11, <1>12, <1>13, <1>14, Assemble

LEMMA TakeStockStep ==
  ASSUME IInv, NEW q \in Requests, NEW p \in Products, TakeStock(q, p) PROVE IInv'
<1>1. /\ At(q, "items") /\ Running(q) /\ p \in req[q].todo /\ TypeOK
      /\ UNCHANGED <<reservation, linked, order, usedCount, redemptions, cart, lock, closing, returning, budget>>
  BY DEF TakeStock, At, Running, Local, IInv
<1>2. budget' \in [Events -> Nat] /\ Bounded' /\ Monotone
  BY <1>1, Faults DEF IInv, Monotone
<1>3. CASE ~(stock[p] >= Quantity[p])
  BY <1>1, <1>3, GoesToUndo DEF TakeStock
<1>4. CASE stock[p] >= Quantity[p]
  <2> DEFINE s == StockStep(p)
  <2>1. PICK undo, rest, was : undo = Append(req[q].undo, s) /\ rest = req[q].todo \ {p} /\ was = req[q].undo
    OBVIOUS
  <2>2. s \in UndoSteps /\ s.does = "stock" /\ s.of = p
    BY Steps DEF StockStep, UndoSteps
  <2>3. was \in Seq(UndoSteps) /\ undo \in Seq(UndoSteps) /\ rest \in SUBSET Products /\ "reserve" \in PCs /\ req[q].v \in Nat
    BY <1>1, <2>1, <2>2, TypeFacts, Appended DEF PCs
  <2>4. /\ stock' = [stock EXCEPT ![p] = @ - Quantity[p]]
        /\ req' = [req EXCEPT ![q].pc = "reserve", ![q].todo = rest, ![q].undo = undo]
    BY <1>4, <2>1 DEF TakeStock, StockStep
  <2>5. Moves(q, "reserve", req[q].v, rest, undo)
    BY <1>1, <2>3, <2>4, ChangeMoves
  <2>6. Others(q)
    BY <1>1, <2>5 DEF Others, Moves
  <2>7. /\ stock' \in [Products -> Nat] /\ stock'[p] = stock[p] - Quantity[p]
        /\ \A r \in Products : r # p => stock'[r] = stock[r]
    <3>1. stock[p] - Quantity[p] \in Nat
      BY <1>1, <1>4, CheckoutAssumption DEF TypeOK
    <3> QED BY <1>1, <2>4, <3>1 DEF TypeOK
  <2>8. TypeOK'
    BY <1>1, <1>2, <2>5, <2>7, TypesKept DEF TypeOK, Moves
  <2>9. Stack(was, req[q].todo, "items") /\ ~InUndo(was, s)
    <3>1. Stack(was, req[q].todo, "items")
      BY <1>1, <2>1 DEF IInv, OneRequest, At
    <3>2. \A i \in 1..Len(was) : was[i].does = "stock" => was[i].of # p
      BY <1>1, <3>1 DEF Stack
    <3>3. DOMAIN was = 1..Len(was)
      BY <2>3
    <3> QED BY <2>2, <3>1, <3>2, <3>3 DEF InUndo
  <2>10. Stack(undo, rest, "reserve")
    <3>1. rest \in SUBSET req[q].todo /\ p \notin rest
      BY <2>1
    <3> QED BY <2>1, <2>2, <2>3, <2>9, <3>1, StackAppended
  <2>11. /\ \A t : InUndo(undo, t) <=> InUndo(was, t) \/ t = s
         /\ \A t : WillUndo(q, t) <=> InUndo(was, t)
         /\ \A t : WillUndo(q, t)' <=> InUndo(undo, t)
         /\ undo[Len(undo)] = s
    <3>1. /\ \A t : InUndo(undo, t) <=> InUndo(was, t) \/ t = s
          /\ undo[Len(undo)] = s
      BY <2>1, <2>2, <2>3, Appended
    <3>2. /\ \A t : WillUndo(q, t) <=> InUndo(was, t)
          /\ \A t : WillUndo(q, t)' <=> InUndo(undo, t)
      BY <2>1, <2>5 DEF WillUndo, InUndo, Moves
    <3> QED BY <3>1, <3>2
  <2>12. OneRequest(q)'
    <3>1. Never({"cancel"}) => \A r \in Products : InUndo(undo, StockStep(r)) =>
             reservation'[q][r] = "reserved" \/ undo[Len(undo)] = StockStep(r)
      BY <1>1, <2>11 DEF IInv, OneRequest, Reserved, At
    <3>2. InUndo(undo, CouponStep) => InUndo(was, CouponStep)
      BY <2>2, <2>11, DifferentSteps
    <3>3. \A t : InUndo(req[q].undo, t) => InUndo(undo, t)
      BY <2>1, <2>11
    <3>4. InUndo(undo, CouponStep) => InUndo(req[q].undo, CouponStep)
      BY <2>1, <3>2
    <3>5. redemptions \subseteq redemptions' /\ order'[q] = order[q] /\ reservation'[q] = reservation[q]
      BY <1>1
    <3> QED BY <1>1, <1>2, <2>5, <2>10, <3>1, <3>3, <3>4, <3>5, Advance
  <2>13. StockAccounted'
    <3>1. \A r \in Products : Held(q, r) <=> InUndo(was, StockStep(r)) \/ <<q, r>> \in returning
      BY <1>1, <2>11 DEF Held, StockStep
    <3>2. \A r \in Products : Held(q, r)' <=> InUndo(undo, StockStep(r)) \/ <<q, r>> \in returning
      <4>1. Running(q)'
        BY <2>5 DEF Running, Moves
      <4> QED BY <1>1, <2>11, <4>1 DEF Held, StockStep
    <3>3. \A r \in Products : r # p => StockStep(r) # s
      BY DifferentSteps
    <3>4. Never({"undo", "cancel"})' => <<q, p>> \notin returning
      <4>1. Never({"undo", "cancel"})' => Never({"cancel"})
        BY <1>2 DEF Monotone, Events, Never
      <4> QED BY <1>1, <4>1 DEF IInv, OneRequest, Swept, Over, At
    <3>5. \A r \in Products : Never({"undo", "cancel"})' =>
           \/ stock'[r] = stock[r] /\ (Held(q, r)' <=> Held(q, r))
           \/ stock'[r] = stock[r] - Quantity[r] /\ ~Held(q, r) /\ Held(q, r)'
           \/ stock'[r] = stock[r] + Quantity[r] /\ Held(q, r) /\ ~Held(q, r)'
      BY <2>7, <2>9, <2>11, <3>1, <3>2, <3>3, <3>4
    <3>6. \A r \in Products, o \in Requests : o # q => (Held(o, r)' <=> Held(o, r))
      BY <2>6, HeldOthers
    <3> QED BY <1>1, <1>2, <2>8, <3>5, <3>6, Balance DEF IInv
  <2>14. CouponCount'
    <3>1. WillUndo(q, CouponStep)' => WillUndo(q, CouponStep)
      BY <2>2, <2>11, DifferentSteps
    <3>2. usedCount' = usedCount /\ Counted' \subseteq Counted
      BY <1>1, <2>6, <3>1, HeldOthers, CheckoutAssumption DEF Counted
    <3> QED BY <1>1, <1>2, <2>8, <3>2, CountKept DEF IInv
  <2>15. Versions' /\ OneOrderPerCart' /\ Within' /\ PerUserLimitHolds'
    <3>1. ~At(q, "ordered") /\ ~At(q, "ordered")' /\ ~Validated(q)' /\ req'[q].v = req[q].v
      BY <1>1, <2>5 DEF At, Moves, Validated
    <3> QED BY <1>1, <2>6, <2>8, <3>1, CartsKeptBy
  <2> QED BY <1>2, <2>6, <2>8, <2>12, <2>13, <2>14, <2>15, Assemble
<1> QED BY <1>3, <1>4

\* A statement that writes something and pushes the action that undoes it.
LEMMA Pushes ==
  ASSUME IInv, NEW q \in Requests, NEW s \in UndoSteps, s.does # "stock",
         NEW next \in {"items", "create", "link"}, GotoWithUndo(q, next, s),
         \/ At(q, "reserve") /\ next = "items" /\ s.does = "reservation"
              /\ req[q].undo[Len(req[q].undo)] = StockStep(s.of)
         \/ At(q, "claim") /\ next = "create" /\ s = CouponStep
         \/ At(q, "create") /\ next = "link" /\ s = OrderStep,
         UNCHANGED <<stock, linked, redemptions, cart, lock, closing, returning, budget>>,
         reservation' \in [Requests -> [Products -> {"none", "reserved", "released", "expired"}]],
         order' \in [Requests -> {"none", "pending", "cancelled"}], usedCount' \in Nat,
         \A o \in Requests : o # q => order'[o] = order[o] /\ reservation'[o] = reservation[o],
         order'[q] # "none" => order[q] # "none" \/ s = OrderStep,
         \A p \in Products : reservation'[q][p] = reservation[q][p] \/ s = ReservationStep(p),
         \A p \in Products : s = ReservationStep(p) => reservation'[q][p] = "reserved",
         \/ usedCount' = usedCount /\ s # CouponStep
         \/ usedCount' = usedCount + 1 /\ usedCount < UsageLimit
  PROVE  IInv'
<1>1. TypeOK /\ Running(q) /\ OneRequest(q) /\ req[q].pc \in {"reserve", "claim", "create"} /\ ~At(q, "undo")
  BY DEF At, Running, IInv
<1>2. budget' \in [Events -> Nat] /\ Bounded' /\ Monotone
  BY Faults DEF IInv, Monotone
<1>3. PICK was, undo, todo : was = req[q].undo /\ undo = Append(was, s) /\ todo = req[q].todo
  OBVIOUS
<1>4. was \in Seq(UndoSteps) /\ undo \in Seq(UndoSteps) /\ todo \in SUBSET Products /\ next \in PCs /\ req[q].v \in Nat
  BY <1>1, <1>3, TypeFacts, Appended DEF PCs
<1>5. Moves(q, next, req[q].v, todo, undo)
  <2>1. req' = [req EXCEPT ![q].pc = next, ![q].undo = undo]
    BY <1>1, <1>3 DEF GotoWithUndo, TypeOK
  <2> QED BY <1>1, <1>3, <1>4, <2>1, ChangeMoves
<1>6. Others(q) /\ Running(q)' /\ req'[q].pc = next
  BY <1>5 DEF Others, Moves, Running
<1>7. TypeOK'
  BY <1>1, <1>2, <1>5, TypesKept DEF TypeOK, Moves
<1>8. /\ \A t : InUndo(undo, t) <=> InUndo(was, t) \/ t = s
      /\ \A t : WillUndo(q, t) <=> InUndo(was, t)
      /\ \A t : WillUndo(q, t)' <=> InUndo(undo, t)
  <2>1. \A t : InUndo(undo, t) <=> InUndo(was, t) \/ t = s
    BY <1>3, <1>4, Appended
  <2> QED BY <1>3, <1>5, <2>1 DEF WillUndo, InUndo, Moves
<1>9. Stack(was, todo, req[q].pc)
  BY <1>1, <1>3 DEF OneRequest
<1>10. ~InUndo(was, s)
  <2>1. DOMAIN was = 1..Len(was) /\ \A i \in 1..Len(was) : was[i] \in UndoSteps
    BY <1>4
  <2>2. CASE At(q, "reserve") /\ s.does = "reservation" /\ was[Len(was)] = StockStep(s.of)
    <3>1. Len(was) \in Nat /\ Len(was) > 0 /\ Len(was) \in 1..Len(was)
      BY <1>4, <1>9, <2>2 DEF Stack, At
    <3>2. ASSUME NEW i \in 1..Len(was), was[i] = s PROVE FALSE
      <4>1. i > 1 /\ was[i - 1] = was[Len(was)] /\ i - 1 \in 1..Len(was)
        BY <1>9, <2>2, <3>1, <3>2 DEF Stack
      <4>2. i - 1 = Len(was)
        BY <1>9, <3>1, <4>1 DEF Stack
      <4> QED BY <3>1, <4>2
    <3> QED BY <2>1, <3>2 DEF InUndo
  <2>3. CASE At(q, "claim") /\ s = CouponStep
    BY <1>9, <2>1, <2>3, DifferentSteps DEF Stack, InUndo, At
  <2>4. CASE At(q, "create") /\ s = OrderStep
    <3>1. \A i \in 1..Len(was) : was[i].does # "order"
      BY <1>9, <2>4 DEF Stack, At
    <3>2. \A i \in 1..Len(was) : was[i] # s
      BY <2>4, <3>1, DifferentSteps
    <3> QED BY <2>1, <3>2 DEF InUndo
  <2>5. \/ At(q, "reserve") /\ s.does = "reservation" /\ was[Len(was)] = StockStep(s.of)
        \/ At(q, "claim") /\ s = CouponStep
        \/ At(q, "create") /\ s = OrderStep
    BY <1>3
  <2> QED BY <2>2, <2>3, <2>4, <2>5
<1>11. Stack(undo, todo, next)
  <2>1. s.does = "reservation" => Len(was) > 0 /\ was[Len(was)] = StockStep(s.of)
    BY <1>3, <1>9, DifferentSteps DEF Stack, At
  <2>2. req[q].pc \in {"items", "reserve", "claim", "create"} /\ (next = "items" => req[q].pc = "reserve" /\ s.does = "reservation")
    BY <1>1, DifferentSteps DEF At
  <2>3. next = "create" => s.does # "order"
    BY DifferentSteps
  <2>4. next \in {"items", "reserve", "create", "link"} /\ todo \in SUBSET todo
    OBVIOUS
  <2> QED BY <1>3, <1>4, <1>9, <1>10, <2>1, <2>2, <2>3, <2>4, StackAppended
<1>12. OneRequest(q)'
  <2>1. Never({"cancel"}) =>
          \A p \in Products : InUndo(undo, StockStep(p)) => reservation'[q][p] = "reserved"
    <3> SUFFICES ASSUME Never({"cancel"}), NEW p \in Products, InUndo(undo, StockStep(p))
                 PROVE  reservation'[q][p] = "reserved"
      OBVIOUS
    <3>1. InUndo(was, StockStep(p)) /\ s # StockStep(p)
      BY <1>8, DifferentSteps
    <3>2. reservation[q][p] = "reserved" \/ (At(q, "reserve") /\ was[Len(was)] = StockStep(p))
      BY <1>1, <1>3, <1>8, <3>1 DEF OneRequest, Reserved
    <3>3. CASE reservation[q][p] = "reserved"
      BY <3>3
    <3>4. CASE At(q, "reserve") /\ was[Len(was)] = StockStep(p)
      <4>1. s.of = p /\ s.does = "reservation"
        BY <1>3, <3>4, DifferentSteps DEF At
      <4>2. s = ReservationStep(p)
        BY <4>1, Steps
      <4> QED BY <4>2
    <3> QED BY <3>2, <3>3, <3>4
  <2>2. InUndo(undo, CouponStep) => InUndo(was, CouponStep) \/ q \in WithCoupon
    BY <1>1, <1>8, DifferentSteps DEF OneRequest, Coupons, At
  <2>3. next \in {"create", "link"} /\ q \in WithCoupon => InUndo(undo, CouponStep)
    BY <1>1, <1>8 DEF OneRequest, Coupons, At
  <2>4. order'[q] # "none" => order[q] # "none" \/ InUndo(undo, OrderStep)
    BY <1>8
  <2>5. \A p \in Products : reservation'[q][p] = "reserved" =>
           reservation[q][p] = "reserved" \/ InUndo(undo, ReservationStep(p))
    BY <1>8
  <2>6. next \in {"items", "reserve", "claim", "create", "link", "redeem", "save", "undo"}
    OBVIOUS
  <2> QED BY <1>1, <1>2, <1>3, <1>5, <1>8, <1>11, <2>1, <2>2, <2>3, <2>4, <2>5, <2>6, Advance
<1>13. StockAccounted'
  <2>1. \A p \in Products : s # StockStep(p)
    BY DifferentSteps
  <2>2. \A p \in Products : stock'[p] = stock[p] /\ (Held(q, p)' <=> Held(q, p))
    BY <1>1, <1>6, <1>8, <2>1 DEF Held, StockStep
  <2> QED BY <1>1, <1>2, <1>6, <1>7, <2>2, HeldOthers, Balance DEF IInv
<1>14. CouponCount'
  <2>1. Counted' \subseteq Counted \cup {q}
    BY <1>6, HeldOthers, CheckoutAssumption DEF Counted
  <2>2. CASE usedCount' = usedCount /\ s # CouponStep
    <3>1. ASSUME Never({"undo"})', q \in Counted' PROVE q \in Counted
      <4>1. q \in WithCoupon /\ (order'[q] # "none" \/ WillUndo(q, CouponStep)')
        BY <3>1 DEF Counted
      <4>2. CASE s = OrderStep
        <5>1. At(q, "create")
          BY <4>2, DifferentSteps
        <5> QED BY <1>1, <4>1, <5>1 DEF OneRequest, Coupons, Counted, At
      <4>3. CASE s # OrderStep
        BY <1>8, <2>2, <4>1, <4>3 DEF Counted
      <4> QED BY <4>2, <4>3
    <3>2. Never({"undo"})' => Counted' \subseteq Counted
      BY <2>1, <3>1
    <3> QED BY <1>1, <1>2, <1>7, <2>2, <3>2, CountKept DEF IInv
  <2>3. CASE usedCount' = usedCount + 1 /\ usedCount < UsageLimit
    BY <1>1, <1>2, <1>7, <2>1, <2>3, CountKept DEF IInv
  <2> QED BY <2>2, <2>3
<1>15. Versions' /\ OneOrderPerCart' /\ Within' /\ PerUserLimitHolds'
  <2>1. ~At(q, "ordered") /\ ~At(q, "ordered")' /\ (Validated(q)' => Validated(q)) /\ req'[q].v = req[q].v
    BY <1>5 DEF At, Moves, Validated
  <2> QED BY <1>6, <1>7, <2>1, CartsKeptBy
<1> QED BY <1>2, <1>6, <1>7, <1>12, <1>13, <1>14, <1>15, Assemble

LEMMA ReserveStep == ASSUME IInv, NEW q \in Requests, Reserve(q) PROVE IInv'
<1> DEFINE last == req[q].undo[Len(req[q].undo)]
           p == last.of
<1>1. TypeOK /\ At(q, "reserve")
  BY DEF IInv, Reserve
<1>2. last \in UndoSteps /\ last.does = "stock"
  <2>1. Len(req[q].undo) > 0 /\ last.does = "stock"
    BY <1>1 DEF IInv, OneRequest, Stack, At
  <2>2. req[q].undo \in Seq(UndoSteps)
    BY <1>1, TypeFacts
  <2> QED BY <2>1, <2>2
<1>3. p \in Products /\ last = StockStep(p)
  BY <1>2, Steps
<1>4. PICK s \in UndoSteps : s = ReservationStep(p) /\ s.does = "reservation" /\ s.of = p
  BY <1>3, DifferentSteps DEF UndoSteps, ReservationStep
<1>5. /\ reservation' = [reservation EXCEPT ![q][p] = "reserved"]
      /\ GotoWithUndo(q, "items", s)
      /\ UNCHANGED <<stock, linked, order, usedCount, redemptions, cart, lock, closing, returning, budget>>
  BY <1>4 DEF Reserve, Local, ReservationStep, GotoWithUndo
<1> HIDE DEF p
<1>6. /\ reservation' \in [Requests -> [Products -> {"none", "reserved", "released", "expired"}]]
      /\ \A o \in Requests : o # q => reservation'[o] = reservation[o]
      /\ \A r \in Products : reservation'[q][r] = IF r = p THEN "reserved" ELSE reservation[q][r]
  BY <1>1, <1>3, <1>5 DEF TypeOK
<1>7. \A r \in Products : (s = ReservationStep(r) <=> r = p)
  BY <1>4 DEF ReservationStep
<1>8. /\ order' \in [Requests -> {"none", "pending", "cancelled"}] /\ usedCount' \in Nat
      /\ s # CouponStep /\ s.does # "stock"
  BY <1>1, <1>4, <1>5, DifferentSteps DEF TypeOK
<1> QED BY <1>1, <1>3, <1>4, <1>5, <1>6, <1>7, <1>8, Pushes

LEMMA ClaimCouponStep == ASSUME IInv, NEW q \in Requests, ClaimCoupon(q) PROVE IInv'
<1>1. /\ At(q, "claim") /\ Running(q) /\ TypeOK
      /\ UNCHANGED <<stock, reservation, linked, order, redemptions, cart, lock, closing, returning, budget>>
  BY DEF ClaimCoupon, At, Running, Local, IInv
<1>2. CASE ~(usedCount < UsageLimit)
  BY <1>1, <1>2, GoesToUndo DEF ClaimCoupon
<1>3. CASE usedCount < UsageLimit
  <2>1. PICK s \in UndoSteps : s = CouponStep
    BY DEF UndoSteps, CouponStep
  <2>2. usedCount' = usedCount + 1 /\ GotoWithUndo(q, "create", s)
    BY <1>3, <2>1 DEF ClaimCoupon, CouponStep, GotoWithUndo
  <2>3. usedCount' \in Nat /\ order' \in [Requests -> {"none", "pending", "cancelled"}]
        /\ reservation' \in [Requests -> [Products -> {"none", "reserved", "released", "expired"}]]
    BY <1>1, <2>2 DEF TypeOK
  <2>4. s.does # "stock" /\ \A p \in Products : s # ReservationStep(p)
    BY <2>1, DifferentSteps
  <2> QED BY <1>1, <1>3, <2>1, <2>2, <2>3, <2>4, Pushes
<1> QED BY <1>2, <1>3

LEMMA CreateOrderStep == ASSUME IInv, NEW q \in Requests, CreateOrder(q) PROVE IInv'
<1>1. /\ At(q, "create") /\ TypeOK /\ order' = [order EXCEPT ![q] = "pending"]
      /\ UNCHANGED <<stock, reservation, linked, usedCount, redemptions, cart, lock, closing, returning, budget>>
  BY DEF CreateOrder, Local, IInv
<1>2. PICK s \in UndoSteps : s = OrderStep
  BY DEF UndoSteps, OrderStep
<1>3. GotoWithUndo(q, "link", s)
  BY <1>2 DEF CreateOrder, OrderStep, GotoWithUndo
<1>4. /\ usedCount' \in Nat /\ order' \in [Requests -> {"none", "pending", "cancelled"}]
      /\ reservation' \in [Requests -> [Products -> {"none", "reserved", "released", "expired"}]]
      /\ \A o \in Requests : o # q => order'[o] = order[o]
  BY <1>1 DEF TypeOK
<1>5. s.does # "stock" /\ s # CouponStep /\ \A p \in Products : s # ReservationStep(p)
  BY <1>2, DifferentSteps
<1> QED BY <1>1, <1>2, <1>3, <1>4, <1>5, Pushes

LEMMA ValidateCouponStep == ASSUME IInv, NEW q \in Requests, ValidateCoupon(q) PROVE IInv'
<1>1. /\ At(q, "items") /\ Running(q) /\ TypeOK
      /\ UNCHANGED <<stock, reservation, order, usedCount, redemptions, cart, lock, closing, returning, linked, budget>>
  BY DEF ValidateCoupon, At, Running, Data, Local, IInv
<1>2. budget' \in [Events -> Nat] /\ Bounded' /\ Monotone
  BY <1>1, Faults DEF IInv, Monotone
<1>3. \/ Goto(q, "create") /\ q \notin WithCoupon
      \/ Goto(q, "claim") /\ q \in WithCoupon /\ Redemptions(User[q]) < PerUserLimit
      \/ Goto(q, "undo")
  BY DEF ValidateCoupon
<1>4. CASE Goto(q, "undo")
  BY <1>1, <1>4, GoesToUndo
<1>5. ASSUME NEW pc \in {"create", "claim"}, Goto(q, pc), pc = "claim" <=> q \in WithCoupon,
             pc = "claim" => Redemptions(User[q]) < PerUserLimit
      PROVE  IInv'
  <2>1. pc \in PCs /\ req[q].v \in Nat /\ req[q].todo \in SUBSET Products /\ req[q].undo \in Seq(UndoSteps)
    BY <1>1, TypeFacts DEF PCs
  <2>2. Moves(q, pc, req[q].v, req[q].todo, req[q].undo)
    BY <1>1, <1>5, <2>1, ChangeMoves
  <2>3. TypeOK' /\ Others(q)
    BY <1>1, <1>2, <2>2, TypesKept DEF TypeOK, Moves, Others
  <2>4. Stack(req[q].undo, req[q].todo, pc)
    <3>1. Stack(req[q].undo, req[q].todo, "items")
      BY <1>1 DEF IInv, OneRequest, At
    <3> QED BY <3>1, StackGoes
  <2>5. Versions' /\ OneOrderPerCart' /\ Within' /\ PerUserLimitHolds'
    <3>1. ~At(q, "ordered") /\ ~At(q, "ordered")' /\ req'[q].v = req[q].v
      BY <1>1, <2>2 DEF At, Moves
    <3>2. CASE pc = "create"
      BY <1>1, <1>5, <2>3, <3>1, <3>2, CartsKeptBy DEF Validated
    <3>3. CASE pc = "claim"
      <4>1. /\ \A r \in Requests : (At(r, "ordered")' <=> At(r, "ordered")) /\ req'[r].v = req[r].v
            /\ \A r \in Requests : cart'[User[r]].v = cart[User[r]].v
        BY <1>1, <2>3, <3>1, HeldOthers DEF Others
      <4>2. Versions' /\ OneOrderPerCart'
        BY <4>1 DEF IInv, Versions, OneOrderPerCart
      <4>3. \A u : CouponOrders(u)' = CouponOrders(u)
        BY <4>1, CheckoutAssumption DEF CouponOrders
      <4>4. PerUserLimitHolds'
        <5>1. \A u \in Users : Cardinality(CouponOrders(u)) <= PerUserLimit
          BY DEF IInv, PerUserLimitHolds, CouponOrders
        <5>2. \A u \in Users : Cardinality(CouponOrders(u)') <= PerUserLimit
          BY <4>3, <5>1
        <5> QED BY <5>2 DEF PerUserLimitHolds, CouponOrders
      <4>5. Cardinality(CouponOrders(User[q])) < PerUserLimit
        <5> DEFINE R == {x \in redemptions : User[x] = User[q]}
        <5>1. CouponOrders(User[q]) \subseteq R /\ R \subseteq Requests /\ CouponOrders(User[q]) \subseteq Requests
          <6>1. \A r \in WithCoupon : At(r, "ordered") => r \in redemptions
            BY CheckoutAssumption DEF IInv, OneRequest, Coupons, At
          <6>2. redemptions \subseteq Requests
            BY <1>1, CheckoutAssumption DEF TypeOK
          <6> QED BY <6>1, <6>2, CheckoutAssumption DEF CouponOrders
        <5>2. Cardinality(R) < PerUserLimit
          BY <1>5, <3>3 DEF Redemptions
        <5>3. /\ Cardinality(CouponOrders(User[q])) <= Cardinality(R)
              /\ Cardinality(CouponOrders(User[q])) \in Nat /\ Cardinality(R) \in Nat
          BY <5>1, Counts
        <5> HIDE DEF R
        <5> QED BY <5>2, <5>3, CheckoutAssumption
      <4>6. \A r \in Requests : r # q => (Validated(r)' <=> Validated(r))
        BY <2>3, HeldOthers
      <4>7. Within'
        BY <4>1, <4>3, <4>5, <4>6 DEF IInv, Within
      <4> QED BY <4>2, <4>4, <4>7
    <3> QED BY <3>2, <3>3
  <2>6. linked' \subseteq Requests
    BY <1>1 DEF TypeOK
  <2>7. pc \in {"items", "claim", "create", "redeem", "save", "undo"} /\ ~At(q, "undo") /\ ~At(q, "reserve")
    BY <1>1 DEF At
  <2>8. pc \in {"claim", "redeem"} => q \in WithCoupon
    BY <1>5
  <2>9. pc \in {"create", "redeem", "save"} /\ q \in WithCoupon => WillUndo(q, CouponStep)
    BY <1>5
  <2>10. pc # "save"
    OBVIOUS
  <2> QED BY <1>1, <1>2, <2>1, <2>2, <2>4, <2>5, <2>6, <2>7, <2>8, <2>9, <2>10, Quiet
<1> QED
  <2>1. CASE Goto(q, "create") /\ q \notin WithCoupon
    BY <1>5, <2>1
  <2>2. CASE Goto(q, "claim") /\ q \in WithCoupon /\ Redemptions(User[q]) < PerUserLimit
    BY <1>5, <2>2
  <2> QED BY <1>3, <1>4, <2>1, <2>2

LEMMA LinkReservationsStep == ASSUME IInv, NEW q \in Requests, LinkReservations(q) PROVE IInv'
<1>1. /\ At(q, "link") /\ Running(q) /\ TypeOK /\ linked' = linked \cup {q}
      /\ UNCHANGED <<stock, reservation, order, usedCount, redemptions, cart, lock, closing, returning, budget>>
  BY DEF LinkReservations, At, Running, Data, Local, IInv
<1>2. budget' \in [Events -> Nat] /\ Bounded' /\ Monotone
  BY <1>1, Faults DEF IInv, Monotone
<1>3. PICK pc \in {"redeem", "save"} : Goto(q, pc) /\ (pc = "redeem" <=> q \in WithCoupon)
  BY DEF LinkReservations
<1>4. pc \in PCs /\ req[q].v \in Nat /\ req[q].todo \in SUBSET Products /\ req[q].undo \in Seq(UndoSteps)
  BY <1>1, TypeFacts DEF PCs
<1>5. Moves(q, pc, req[q].v, req[q].todo, req[q].undo)
  BY <1>1, <1>3, <1>4, ChangeMoves
<1>6. linked' \subseteq Requests
  BY <1>1 DEF TypeOK
<1>7. TypeOK' /\ Others(q)
  BY <1>1, <1>2, <1>5, <1>6, TypesKept DEF TypeOK, Moves, Others
<1>8. Stack(req[q].undo, req[q].todo, pc)
  <2>1. Stack(req[q].undo, req[q].todo, "link")
    BY <1>1 DEF IInv, OneRequest, At
  <2> QED BY <2>1, StackGoes
<1>9. Versions' /\ OneOrderPerCart' /\ Within' /\ PerUserLimitHolds'
  <2>1. /\ ~At(q, "ordered") /\ ~At(q, "ordered")' /\ req'[q].v = req[q].v
        /\ Validated(q)' => Validated(q)
    BY <1>1, <1>5 DEF At, Moves, Validated
  <2> QED BY <1>1, <1>7, <2>1, CartsKeptBy
<1>10. /\ pc \in {"items", "claim", "create", "redeem", "save", "undo"}
       /\ ~At(q, "undo") /\ ~At(q, "reserve")
       /\ q \in WithCoupon => WillUndo(q, CouponStep)
  BY <1>1 DEF At, IInv, OneRequest, Coupons
<1>11. (pc \in {"claim", "redeem"} => q \in WithCoupon) /\ (pc = "save" => q \notin WithCoupon)
  BY <1>3
<1> QED BY <1>1, <1>2, <1>4, <1>5, <1>6, <1>8, <1>9, <1>10, <1>11, Quiet

LEMMA CreateRedemptionStep == ASSUME IInv, NEW q \in Requests, CreateRedemption(q) PROVE IInv'
<1>1. /\ At(q, "redeem") /\ Running(q) /\ TypeOK /\ redemptions' = redemptions \cup {q} /\ Goto(q, "save")
      /\ UNCHANGED <<stock, reservation, linked, order, usedCount, cart, lock, closing, returning, budget>>
  BY DEF CreateRedemption, At, Running, Data, Local, IInv
<1>2. budget' \in [Events -> Nat] /\ Bounded' /\ Monotone
  BY <1>1, Faults DEF IInv, Monotone
<1>3. q \in WithCoupon /\ redemptions' \subseteq WithCoupon /\ OneRequest(q)
  BY <1>1 DEF IInv, OneRequest, Coupons, At, TypeOK
<1>4. "save" \in PCs /\ req[q].v \in Nat /\ req[q].todo \in SUBSET Products /\ req[q].undo \in Seq(UndoSteps)
  BY <1>1, TypeFacts DEF PCs
<1>5. Moves(q, "save", req[q].v, req[q].todo, req[q].undo)
  BY <1>1, <1>4, ChangeMoves
<1>6. TypeOK' /\ Others(q)
  BY <1>1, <1>2, <1>3, <1>5, TypesKept DEF TypeOK, Moves, Others
<1>7. Stack(req[q].undo, req[q].todo, "save")
  BY <1>1, <1>3, StackGoes DEF OneRequest, At
<1>8. Versions' /\ OneOrderPerCart' /\ Within' /\ PerUserLimitHolds'
  <2>1. /\ ~At(q, "ordered") /\ ~At(q, "ordered")' /\ req'[q].v = req[q].v
        /\ Validated(q)' => Validated(q)
    BY <1>1, <1>5 DEF At, Moves, Validated
  <2> QED BY <1>1, <1>6, <2>1, CartsKeptBy
<1>9. Running(q)' /\ \A t : WillUndo(q, t)' <=> WillUndo(q, t)
  BY <1>5 DEF Moves, Running, WillUndo
<1>10. OneRequest(q)'
  <2>1. \A t : WillUndo(q, t) <=> InUndo(req[q].undo, t)
    BY DEF WillUndo, InUndo
  <2>2. Never({"cancel"}) =>
          \A p \in Products : InUndo(req[q].undo, StockStep(p)) => reservation'[q][p] = "reserved"
    BY <1>1, <1>3, <2>1 DEF OneRequest, Reserved, At
  <2>3. q \in WithCoupon => InUndo(req[q].undo, CouponStep)
    BY <1>1, <1>3, <2>1 DEF OneRequest, Coupons, At
  <2> QED BY <1>1, <1>2, <1>3, <1>5, <1>7, <2>1, <2>2, <2>3, Advance
<1>11. StockAccounted'
  <2>1. \A p \in Products : stock'[p] = stock[p] /\ (Held(q, p)' <=> Held(q, p))
    BY <1>1, <1>9 DEF Held
  <2> QED BY <1>1, <1>2, <1>6, <2>1, HeldOthers, Balance DEF IInv
<1>12. CouponCount'
  <2>1. usedCount' = usedCount /\ Counted' \subseteq Counted
    BY <1>1, <1>6, <1>9, HeldOthers, CheckoutAssumption DEF Counted
  <2> QED BY <1>1, <1>2, <1>6, <2>1, CountKept DEF IInv
<1> QED BY <1>2, <1>6, <1>8, <1>10, <1>11, <1>12, Assemble

\* Only the owner's token frees the lock.
LEMMA LockTypes ==
  ASSUME TypeOK, NEW q \in Requests, NEW pc, ReleaseLock(q, pc)
  PROVE  lock' \in [Instances -> [Users -> Requests \cup {Nobody}]]
<1>1. Instance[q] \in Instances /\ User[q] \in Users
  BY CheckoutAssumption
<1>2. /\ lock \in [Instances -> [Users -> Requests \cup {Nobody}]]
      /\ lock' = [lock EXCEPT ![Instance[q]][User[q]] = IF @ = q THEN Nobody ELSE @]
  BY DEF TypeOK, ReleaseLock
<1>3. lock[Instance[q]][User[q]] \in Requests \cup {Nobody}
  BY <1>1, <1>2
<1>4. PICK h \in Requests \cup {Nobody} : lock' = [lock EXCEPT ![Instance[q]][User[q]] = h]
  BY <1>2, <1>3
<1> QED BY <1>1, <1>2, <1>4

\* What a running request has reserved, it took from stock first.
LEMMA ReservedAfterStock ==
  ASSUME IInv, NEW q \in Requests, NEW p \in Products, Running(q), Never({"undo"}), reservation[q][p] = "reserved"
  PROVE  WillUndo(q, StockStep(p))
<1>1. PICK was : was = req[q].undo
  OBVIOUS
<1>2. was \in Seq(UndoSteps) /\ Stack(was, req[q].todo, req[q].pc) /\ DOMAIN was = 1..Len(was)
  BY <1>1, TypeFacts DEF IInv, OneRequest
<1>3. WillUndo(q, ReservationStep(p))
  BY DEF IInv, OneRequest, Unwinding
<1>4. PICK i \in 1..Len(was) : was[i] = ReservationStep(p)
  BY <1>1, <1>2, <1>3 DEF WillUndo
<1>5. i > 1 /\ was[i - 1] = StockStep(p)
  <2>1. was[i].does = "reservation" => i > 1 /\ was[i - 1] = StockStep(was[i].of)
    BY <1>2 DEF Stack
  <2>2. was[i].does = "reservation" /\ was[i].of = p
    BY <1>4, DifferentSteps
  <2> QED BY <2>1, <2>2
<1>6. i - 1 \in 1..Len(was)
  BY <1>2, <1>4, <1>5
<1> QED BY <1>1, <1>2, <1>5, <1>6 DEF WillUndo

\* Saving the cart makes whatever another request read of it stale.
LEMMA SavedCart ==
  ASSUME IInv, NEW q \in Requests, At(q, "save"), At(q, "ordered")', Others(q),
         cart[User[q]].v = req[q].v, req'[q].v = req[q].v,
         cart'[User[q]].v = cart[User[q]].v + 1,
         \A u \in Users : u # User[q] => cart'[u].v = cart[u].v
  PROVE  Versions' /\ OneOrderPerCart' /\ Within' /\ PerUserLimitHolds'
<1>1. TypeOK /\ User[q] \in Users /\ cart[User[q]].v \in Nat
  BY TypeFacts DEF IInv
<1>2. \A r \in Requests :
        /\ req'[r].v = req[r].v /\ req[r].v \in Nat /\ cart[User[r]].v \in Nat /\ User[r] \in Users
        /\ req[r].v <= cart[User[r]].v
        /\ User[r] = User[q] => cart'[User[r]].v = cart[User[r]].v + 1
        /\ User[r] # User[q] => cart'[User[r]].v = cart[User[r]].v
        /\ r # q => (At(r, "ordered")' <=> At(r, "ordered")) /\ (Validated(r)' <=> Validated(r))
        /\ At(r, "ordered") => req[r].v < cart[User[r]].v
  BY <1>1, TypeFacts, HeldOthers DEF Others, IInv, Versions
<1>3. Versions'
  BY <1>2 DEF Versions
<1>4. OneOrderPerCart'
  <2>1. \A r \in Requests : At(r, "ordered") /\ User[r] = User[q] => req[r].v < req[q].v
    BY <1>2
  <2>2. \A r \in Requests : At(r, "ordered") /\ User[r] = User[q] => req[r].v # req[q].v
    BY <1>2, <2>1
  <2> QED BY <1>2, <2>2 DEF IInv, OneOrderPerCart
<1>5. \A u \in Users : u # User[q] => CouponOrders(u)' = CouponOrders(u)
  BY <1>2, CheckoutAssumption DEF CouponOrders
<1>6. Within'
  <2> SUFFICES ASSUME NEW r \in Requests, Validated(r)', (req[r].v = cart[User[r]].v)'
               PROVE  (Cardinality(CouponOrders(User[r])) < PerUserLimit)'
    BY DEF Within
  <2>1. User[r] # User[q] /\ r # q
    BY <1>2
  <2> QED BY <1>2, <1>5, <2>1 DEF IInv, Within
<1>7. PerUserLimitHolds'
  <2> SUFFICES ASSUME NEW u \in Users PROVE Cardinality(CouponOrders(u)') <= PerUserLimit
    BY DEF PerUserLimitHolds, CouponOrders
  <2>1. Cardinality(CouponOrders(u)) <= PerUserLimit
    BY DEF IInv, PerUserLimitHolds, CouponOrders
  <2>2. CASE u # User[q]
    BY <1>5, <2>1, <2>2
  <2>3. CASE u = User[q] /\ q \notin WithCoupon
    <3>1. CouponOrders(u)' = CouponOrders(u)
      BY <1>2, <2>3, CheckoutAssumption DEF CouponOrders
    <3> QED BY <2>1, <3>1
  <2>4. CASE u = User[q] /\ q \in WithCoupon
    <3>1. Cardinality(CouponOrders(u)) < PerUserLimit
      BY <2>4 DEF IInv, Within, Validated, At
    <3>2. PICK T : T = CouponOrders(u)'
      OBVIOUS
    <3>3. T = CouponOrders(u) \cup {q} /\ q \notin CouponOrders(u)
      BY <1>2, <2>4, <3>2, CheckoutAssumption DEF CouponOrders, At
    <3>4. CouponOrders(u) \subseteq Requests /\ T \subseteq Requests
      BY <3>3, CheckoutAssumption DEF CouponOrders
    <3>5. Cardinality(T) = Cardinality(CouponOrders(u)) + 1 /\ Cardinality(CouponOrders(u)) \in Nat
      BY <3>3, <3>4, Counts
    <3> QED BY <3>1, <3>2, <3>5, CheckoutAssumption
  <2> QED BY <2>2, <2>3, <2>4
<1> QED BY <1>3, <1>4, <1>6, <1>7

LEMMA SaveCartStep == ASSUME IInv, NEW q \in Requests, SaveCart(q) PROVE IInv'
<1>1. /\ At(q, "save") /\ Running(q) /\ TypeOK /\ OneRequest(q)
      /\ UNCHANGED <<stock, reservation, linked, order, usedCount, redemptions, closing, returning, budget>>
  BY DEF SaveCart, At, Running, IInv
<1>2. budget' \in [Events -> Nat] /\ Bounded' /\ Monotone
  BY <1>1, Faults DEF IInv, Monotone
<1>3. CASE cart[User[q]].v # req[q].v
  BY <1>1, <1>3, GoesToUndo DEF SaveCart
<1>4. CASE cart[User[q]].v = req[q].v
  <2>1. /\ cart' = [cart EXCEPT ![User[q]] = [items |-> {}, v |-> @.v + 1]]
        /\ ReleaseLock(q, "ordered")
    BY <1>4 DEF SaveCart
  <2>2. /\ "ordered" \in PCs /\ req[q].v \in Nat /\ req[q].todo \in SUBSET Products
        /\ <<>> \in Seq(UndoSteps) /\ User[q] \in Users /\ cart[User[q]].v \in Nat
    BY <1>1, TypeFacts DEF PCs
  <2>3. Moves(q, "ordered", req[q].v, req[q].todo, <<>>)
    <3>1. req' = [req EXCEPT ![q].pc = "ordered", ![q].undo = <<>>]
      BY <2>1 DEF ReleaseLock
    <3> QED BY <1>1, <2>2, <3>1, ChangeMoves
  <2>4. /\ cart' \in [Users -> [items : SUBSET Products, v : Nat]]
        /\ cart'[User[q]].v = cart[User[q]].v + 1
        /\ \A u \in Users : u # User[q] => cart'[u].v = cart[u].v
    BY <1>1, <2>1, <2>2 DEF TypeOK
  <2>5. TypeOK' /\ Others(q)
    <3>1. lock' \in [Instances -> [Users -> Requests \cup {Nobody}]]
      BY <1>1, <2>1, LockTypes
    <3> QED BY <1>1, <1>2, <2>3, <2>4, <3>1, TypesKept DEF TypeOK, Moves, Others
  <2>6. /\ ~Running(q)' /\ ~At(q, "start")' /\ ~At(q, "refused")' /\ Over(q)'
        /\ \A t : ~WillUndo(q, t)'
    BY <2>3 DEF Moves, Running, At, Over, WillUndo
  <2>7. OneRequest(q)'
    <3>1. Coupons(q)'
      BY <1>1, <2>3, <2>6 DEF OneRequest, Coupons, At, Moves
    <3>2. Stack(req[q].undo, req[q].todo, req[q].pc)'
      BY <2>3 DEF Stack, Moves
    <3>3. Unwinding(q)' /\ Refused(q)' /\ Reserved(q)'
      BY <2>6 DEF Unwinding, Refused, Reserved
    <3>4. Swept(q)'
      <4>1. Never({"cancel"})' => Never({"cancel"})
        BY <1>2 DEF Monotone, Events
      <4> QED BY <1>1, <2>6, <4>1 DEF OneRequest, Swept
    <3> QED BY <3>1, <3>2, <3>3, <3>4 DEF OneRequest
  <2>8. StockAccounted'
    <3>1. ASSUME NEW p \in Products, Never({"undo", "cancel"})'
          PROVE  Held(q, p)' <=> Held(q, p)
      <4>1. Never({"undo"}) /\ Never({"cancel"})
        BY <1>2, <3>1 DEF Monotone, Events, Never
      <4>2. WillUndo(q, StockStep(p)) => reservation[q][p] = "reserved"
        BY <1>1, <4>1 DEF OneRequest, Reserved, At
      <4>3. reservation[q][p] = "reserved" => WillUndo(q, StockStep(p))
        BY <1>1, <4>1, ReservedAfterStock
      <4> QED BY <1>1, <2>6, <4>2, <4>3 DEF Held, StockStep
    <3>2. \A p \in Products : stock'[p] = stock[p]
      BY <1>1
    <3>3. \A p \in Products, o \in Requests : o # q => (Held(o, p)' <=> Held(o, p))
      BY <2>5, HeldOthers
    <3> QED BY <1>1, <1>2, <2>5, <3>1, <3>2, <3>3, Balance DEF IInv
  <2>9. CouponCount'
    <3>1. usedCount' = usedCount /\ Counted' \subseteq Counted
      BY <1>1, <2>5, <2>6, HeldOthers, CheckoutAssumption DEF Counted
    <3> QED BY <1>1, <1>2, <2>5, <3>1, CountKept DEF IInv
  <2>10. Versions' /\ OneOrderPerCart' /\ Within' /\ PerUserLimitHolds'
    <3>1. At(q, "ordered")' /\ req'[q].v = req[q].v
      BY <2>3 DEF At, Moves
    <3> QED BY <1>1, <1>4, <2>4, <2>5, <3>1, SavedCart
  <2> QED BY <1>2, <2>5, <2>7, <2>8, <2>9, <2>10, Assemble
<1> QED BY <1>3, <1>4

-----------------------------------------------------------------------------
(* compensate *)

\* What every step of compensate leaves as it should be.
LEMMA Unwinds ==
  ASSUME IInv, NEW q \in Requests, At(q, "undo"), req[q].undo # <<>>, Monotone,
         budget' \in [Events -> Nat], Bounded',
         UNCHANGED <<linked, redemptions, cart, lock, closing, returning>>,
         req' = [req EXCEPT ![q].undo = SubSeq(@, 1, Len(@) - 1)],
         stock' \in [Products -> Nat], usedCount' \in Nat,
         reservation' \in [Requests -> [Products -> {"none", "reserved", "released", "expired"}]],
         order' \in [Requests -> {"none", "pending", "cancelled"}],
         \A o \in Requests : o # q => order'[o] = order[o] /\ reservation'[o] = reservation[o],
         Never({"undo"})' => Unwinding(q)'
  PROVE  LET last == req[q].undo[Len(req[q].undo)]
         IN  /\ last \in UndoSteps /\ WillUndo(q, last) /\ Running(q) /\ Running(q)'
             /\ \A t : WillUndo(q, t)' <=> WillUndo(q, t) /\ t # last
             /\ WillUndo(q, OrderStep) => last = OrderStep
             /\ Others(q) /\ TypeOK' /\ OneRequest(q)'
             /\ Versions' /\ OneOrderPerCart' /\ Within' /\ PerUserLimitHolds'
<1>1. PICK was, rest, last : was = req[q].undo /\ rest = SubSeq(was, 1, Len(was) - 1) /\ last = was[Len(was)]
  OBVIOUS
<1>2. TypeOK /\ OneRequest(q) /\ was \in Seq(UndoSteps) /\ was # <<>>
  BY <1>1, TypeFacts DEF IInv
<1>3. Stack(was, req[q].todo, "undo")
  BY <1>1, <1>2 DEF OneRequest, At
<1>4. \A i, j \in 1..Len(was) : was[i] = was[j] => i = j
  BY <1>3 DEF Stack
<1>5. /\ Len(was) \in Nat \ {0} /\ rest \in Seq(UndoSteps) /\ last \in UndoSteps
      /\ \A t : InUndo(rest, t) <=> InUndo(was, t) /\ t # last
  <2>1. Len(was) \in Nat \ {0} /\ rest \in Seq(UndoSteps) /\ last \in UndoSteps
    BY <1>1, <1>2, Popped
  <2>2. \A t : InUndo(rest, t) <=> InUndo(was, t) /\ t # last
    <3>1. PICK n : n = Len(was)
      OBVIOUS
    <3>2. \A i, j \in 1..n : was[i] = was[j] => i = j
      BY <1>4, <3>1
    <3>3. rest = SubSeq(was, 1, n - 1) /\ last = was[n]
      BY <1>1, <3>1
    <3> QED BY <1>2, <3>1, <3>2, <3>3, Popped
  <2> QED BY <2>1, <2>2
<1>6. Moves(q, "undo", req[q].v, req[q].todo, rest)
  <2>1. req' = [req EXCEPT ![q].undo = rest]
    BY <1>1, <1>2 DEF TypeOK
  <2>2. "undo" \in PCs /\ req[q].v \in Nat /\ req[q].todo \in SUBSET Products /\ req[q].pc = "undo"
    BY <1>2, TypeFacts DEF PCs, At
  <2> QED BY <1>2, <1>5, <2>1, <2>2, ChangeMoves
<1>7. Running(q) /\ Running(q)' /\ At(q, "undo")' /\ ~Over(q) /\ ~Validated(q)' /\ ~At(q, "ordered")
  BY <1>6 DEF At, Running, Moves, Over, Validated
<1>8. \A t : WillUndo(q, t)' <=> WillUndo(q, t) /\ t # last
  <2>1. \A t : WillUndo(q, t) <=> InUndo(was, t)
    BY <1>1 DEF WillUndo, InUndo
  <2>2. \A t : WillUndo(q, t)' <=> InUndo(rest, t)
    BY <1>6 DEF WillUndo, InUndo, Moves
  <2> QED BY <1>5, <2>1, <2>2
<1>9. WillUndo(q, last)
  BY <1>1, <1>2, <1>5 DEF WillUndo
<1>10. WillUndo(q, OrderStep) => last = OrderStep
  <2>1. \A i \in 1..Len(was) : was[i].does = "order" => i = Len(was)
    BY <1>3 DEF Stack
  <2>2. DOMAIN was = 1..Len(was)
    BY <1>2
  <2> QED BY <1>1, <2>1, <2>2, DifferentSteps DEF WillUndo
<1>11. Others(q)
  BY <1>6 DEF Others, Moves
<1>12. TypeOK'
  BY <1>2, <1>6, TypesKept DEF TypeOK, Moves
<1>13. OneRequest(q)'
  <2>1. Coupons(q)'
    BY <1>2, <1>7, <1>8 DEF OneRequest, Coupons, At
  <2>2. Stack(req[q].undo, req[q].todo, req[q].pc)'
    <3>1. Stack(rest, req[q].todo, "undo")
      BY <1>1, <1>2, <1>3, StackPopped
    <3>2. req'[q].undo = rest /\ req'[q].todo = req[q].todo /\ req'[q].pc = "undo"
      BY <1>6 DEF Moves
    <3>3. Stack(req'[q].undo, req'[q].todo, req'[q].pc)
      BY <3>1, <3>2
    <3> QED BY <3>3 DEF Stack
  <2>3. Unwinding(q)' /\ Refused(q)' /\ Reserved(q)'
    BY <1>7 DEF Unwinding, Refused, Reserved, At
  <2>4. Swept(q)'
    <3>1. Never({"cancel"})' => Never({"cancel"})
      BY DEF Monotone, Events
    <3> QED BY <1>2, <1>7, <3>1 DEF OneRequest, Swept
  <2> QED BY <2>1, <2>2, <2>3, <2>4 DEF OneRequest
<1>14. Versions' /\ OneOrderPerCart' /\ Within' /\ PerUserLimitHolds'
  <2>1. req'[q].v = req[q].v /\ ~At(q, "ordered")'
    BY <1>6 DEF Moves, At
  <2> QED BY <1>7, <1>11, <1>12, <2>1, CartsKeptBy
<1> QED BY <1>1, <1>5, <1>7, <1>8, <1>9, <1>10, <1>11, <1>12, <1>13, <1>14

LEMMA CompensationFailsStep == ASSUME IInv, NEW q \in Requests, CompensationFails(q) PROVE IInv'
<1>1. /\ At(q, "undo") /\ req[q].undo # <<>> /\ Spend("undo") /\ TypeOK
      /\ req' = [req EXCEPT ![q].undo = SubSeq(@, 1, Len(@) - 1)]
      /\ UNCHANGED <<stock, reservation, linked, order, usedCount, redemptions, cart, lock, closing, returning>>
  BY DEF CompensationFails, Data, IInv
<1>2. budget' \in [Events -> Nat] /\ Bounded' /\ Monotone /\ ~Never({"undo"})'
  BY <1>1, Faults DEF IInv, Monotone, Events
<1>3. /\ stock' \in [Products -> Nat] /\ usedCount' \in Nat
      /\ reservation' \in [Requests -> [Products -> {"none", "reserved", "released", "expired"}]]
      /\ order' \in [Requests -> {"none", "pending", "cancelled"}]
  BY <1>1 DEF TypeOK
<1>4. /\ Others(q) /\ TypeOK' /\ OneRequest(q)'
      /\ Versions' /\ OneOrderPerCart' /\ Within' /\ PerUserLimitHolds'
  BY <1>1, <1>2, <1>3, Unwinds
<1>5. StockAccounted'
  <2>1. ~Never({"undo", "cancel"})'
    BY <1>2 DEF Never
  <2>2. \A p \in Products, o \in Requests : o # q => (Held(o, p)' <=> Held(o, p))
    BY <1>4, HeldOthers
  <2> QED BY <1>1, <1>2, <1>4, <2>1, <2>2, Balance DEF IInv
<1>6. CouponCount'
  <2>1. usedCount' = usedCount /\ (Never({"undo"})' => Counted' \subseteq Counted)
    BY <1>1, <1>2
  <2> QED BY <1>1, <1>2, <1>4, <2>1, CountKept DEF IInv
<1> QED BY <1>2, <1>4, <1>5, <1>6, Assemble

LEMMA CompensateStep == ASSUME IInv, NEW q \in Requests, Compensate(q) PROVE IInv'
<1>1. PICK last : last = req[q].undo[Len(req[q].undo)]
  OBVIOUS
<1>2. /\ At(q, "undo") /\ req[q].undo # <<>> /\ TypeOK /\ OneRequest(q) /\ RunUndo(q, last)
      /\ req' = [req EXCEPT ![q].undo = SubSeq(@, 1, Len(@) - 1)]
      /\ UNCHANGED <<linked, redemptions, cart, lock, closing, returning, budget>>
  BY <1>1 DEF Compensate, Local, IInv
<1>3. budget' \in [Events -> Nat] /\ Bounded' /\ Monotone
  BY <1>2, Faults DEF IInv, Monotone
<1>4. last \in UndoSteps
  <2>1. req[q].undo \in Seq(UndoSteps)
    BY <1>2, TypeFacts
  <2> QED BY <1>1, <1>2, <2>1
<1>5. /\ last.does = "stock" => last.of \in Products
      /\ last.does = "reservation" => last.of \in Products
  BY <1>4, Steps
<1>6. /\ last.does = "stock" => stock' = [stock EXCEPT ![last.of] = @ + Quantity[last.of]]
      /\ last.does # "stock" => stock' = stock
      /\ last.does = "reservation" => reservation' = [reservation EXCEPT ![q][last.of] = "released"]
      /\ last.does # "reservation" => reservation' = reservation
      /\ last.does = "coupon" /\ usedCount > 0 => usedCount' = usedCount - 1
      /\ ~(last.does = "coupon" /\ usedCount > 0) => usedCount' = usedCount
      /\ last.does = "order" => order' = [order EXCEPT ![q] = "none"]
      /\ last.does # "order" => order' = order
  BY <1>2 DEF RunUndo
<1>7. /\ stock' \in [Products -> Nat]
      /\ \A p \in Products : stock'[p] = IF last = StockStep(p) THEN stock[p] + Quantity[p] ELSE stock[p]
  <2>1. CASE last.does = "stock"
    <3>1. \A p \in Products : last = StockStep(p) <=> p = last.of
      BY <1>4, <2>1, Steps, DifferentSteps
    <3>2. PICK of \in Products : of = last.of
      BY <1>5, <2>1
    <3>3. stock[of] + Quantity[of] \in Nat /\ stock \in [Products -> Nat]
      BY <1>2, CheckoutAssumption DEF TypeOK
    <3>4. stock' = [stock EXCEPT ![of] = @ + Quantity[of]]
      BY <1>6, <2>1, <3>2
    <3> QED BY <3>1, <3>2, <3>3, <3>4
  <2>2. CASE last.does # "stock"
    <3>1. \A p \in Products : last # StockStep(p)
      BY <2>2, DifferentSteps
    <3> QED BY <1>2, <1>6, <2>2, <3>1 DEF TypeOK
  <2> QED BY <2>1, <2>2
<1>8. /\ reservation' \in [Requests -> [Products -> {"none", "reserved", "released", "expired"}]]
      /\ \A o \in Requests : o # q => reservation'[o] = reservation[o]
      /\ \A p \in Products : reservation'[q][p] = IF last = ReservationStep(p) THEN "released" ELSE reservation[q][p]
  <2>1. CASE last.does = "reservation"
    <3>1. \A p \in Products : last = ReservationStep(p) <=> p = last.of
      BY <1>4, <2>1, Steps, DifferentSteps
    <3>2. PICK of \in Products : of = last.of
      BY <1>5, <2>1
    <3>3. reservation' = [reservation EXCEPT ![q][of] = "released"]
      BY <1>6, <2>1, <3>2
    <3> QED BY <1>2, <3>1, <3>2, <3>3 DEF TypeOK
  <2>2. CASE last.does # "reservation"
    <3>1. \A p \in Products : last # ReservationStep(p)
      BY <2>2, DifferentSteps
    <3> QED BY <1>2, <1>6, <2>2, <3>1 DEF TypeOK
  <2> QED BY <2>1, <2>2
<1>9. /\ order' \in [Requests -> {"none", "pending", "cancelled"}]
      /\ \A o \in Requests : o # q => order'[o] = order[o]
      /\ order'[q] = IF last = OrderStep THEN "none" ELSE order[q]
  <2>1. last.does = "order" <=> last = OrderStep
    BY <1>4, Steps
  <2> QED BY <1>2, <1>6, <2>1 DEF TypeOK
<1>10. usedCount' \in Nat
  BY <1>2, <1>6 DEF TypeOK
<1>11. Never({"undo"})' => Unwinding(q)'
  <2> SUFFICES ASSUME Never({"undo"})' PROVE Unwinding(q)'
    OBVIOUS
  <2>1. Never({"undo"}) /\ Running(q)
    BY <1>2, <1>3 DEF Monotone, Events, Running, At
  <2>2. \A t : WillUndo(q, t) /\ t # last => WillUndo(q, t)'
    <3>1. PICK was, rest : was = req[q].undo /\ rest = SubSeq(was, 1, Len(was) - 1)
      OBVIOUS
    <3>2. was \in Seq(UndoSteps) /\ was # <<>>
      BY <1>2, <3>1, TypeFacts
    <3>3. \A i, j \in 1..Len(was) : was[i] = was[j] => i = j
      BY <1>2, <3>1 DEF OneRequest, Stack
    <3>4. \A t : InUndo(rest, t) <=> InUndo(was, t) /\ t # last
      BY <1>1, <3>1, <3>2, <3>3, Popped
    <3>5. req'[q].undo = rest
      BY <1>2, <3>1 DEF TypeOK
    <3> QED BY <3>1, <3>4, <3>5 DEF WillUndo, InUndo
  <2>3. order'[q] # "none" => WillUndo(q, OrderStep)'
    BY <1>2, <1>9, <2>1, <2>2 DEF OneRequest, Unwinding
  <2>4. \A p \in Products : reservation'[q][p] = "reserved" => WillUndo(q, ReservationStep(p))'
    BY <1>2, <1>8, <2>1, <2>2 DEF OneRequest, Unwinding
  <2> QED BY <2>3, <2>4 DEF Unwinding
<1>12. /\ WillUndo(q, last) /\ Running(q) /\ Running(q)'
       /\ \A t : WillUndo(q, t)' <=> WillUndo(q, t) /\ t # last
       /\ WillUndo(q, OrderStep) => last = OrderStep
       /\ Others(q) /\ TypeOK' /\ OneRequest(q)'
       /\ Versions' /\ OneOrderPerCart' /\ Within' /\ PerUserLimitHolds'
  BY <1>1, <1>2, <1>3, <1>7, <1>8, <1>9, <1>10, <1>11, Unwinds
<1>13. StockAccounted'
  <2>1. ASSUME NEW p \in Products, Never({"undo", "cancel"})'
        PROVE  \/ stock'[p] = stock[p] /\ (Held(q, p)' <=> Held(q, p))
               \/ stock'[p] = stock[p] + Quantity[p] /\ Held(q, p) /\ ~Held(q, p)'
    <3>1. <<q, p>> \notin returning
      <4>1. Never({"cancel"})
        BY <1>3, <2>1 DEF Monotone, Events, Never
      <4> QED BY <1>2, <1>12, <4>1 DEF OneRequest, Swept, Over, Running
    <3>2. (Held(q, p) <=> WillUndo(q, StockStep(p))) /\ (Held(q, p)' <=> WillUndo(q, StockStep(p))')
      BY <1>2, <1>12, <3>1 DEF Held, StockStep
    <3> QED BY <1>7, <1>12, <3>2
  <2>2. \A p \in Products, o \in Requests : o # q => (Held(o, p)' <=> Held(o, p))
    BY <1>12, HeldOthers
  <2> QED BY <1>2, <1>3, <1>12, <2>1, <2>2, Balance DEF IInv
<1>14. CouponCount'
  <2>1. \A o \in Counted' : o \in Counted
    <3>1. q \in Counted' => q \in Counted
      BY <1>9, <1>12 DEF Counted
    <3> QED BY <1>12, <3>1, HeldOthers, CheckoutAssumption DEF Counted
  <2>2. CASE last = CouponStep /\ usedCount > 0
    <3>1. usedCount' = usedCount - 1
      BY <1>6, <2>2, DifferentSteps
    <3>2. q \in Counted
      BY <1>2, <1>12, <2>2 DEF OneRequest, Coupons, Counted, At
    <3>3. Never({"undo"})' => q \notin Counted'
      <4> SUFFICES ASSUME Never({"undo"})' PROVE order'[q] = "none" /\ ~WillUndo(q, CouponStep)'
        BY DEF Counted
      <4>1. Never({"undo"}) /\ CouponStep # OrderStep
        BY <1>3, DifferentSteps DEF Monotone, Events
      <4> QED BY <1>2, <1>9, <1>12, <2>2, <4>1 DEF OneRequest, Unwinding
    <3> QED BY <1>2, <1>3, <1>12, <2>1, <3>1, <3>2, <3>3, CountKept DEF IInv
  <2>3. CASE ~(last = CouponStep /\ usedCount > 0)
    <3>1. usedCount' = usedCount
      BY <1>4, <1>6, <2>3, Steps
    <3> QED BY <1>2, <1>3, <1>12, <2>1, <3>1, CountKept DEF IInv
  <2> QED BY <2>2, <2>3
<1> QED BY <1>3, <1>12, <1>13, <1>14, Assemble, <1>2

LEMMA CompensatedStep == ASSUME IInv, NEW q \in Requests, Compensated(q) PROVE IInv'
<1>1. /\ At(q, "undo") /\ req[q].undo = <<>> /\ Running(q) /\ TypeOK /\ OneRequest(q) /\ ReleaseLock(q, "refused")
      /\ UNCHANGED <<stock, reservation, linked, order, usedCount, redemptions, cart, closing, returning, budget>>
  BY DEF Compensated, At, Running, Data, IInv
<1>2. budget' \in [Events -> Nat] /\ Bounded' /\ Monotone
  BY <1>1, Faults DEF IInv, Monotone
<1>3. /\ "refused" \in PCs /\ req[q].v \in Nat /\ req[q].todo \in SUBSET Products /\ <<>> \in Seq(UndoSteps)
  BY <1>1, TypeFacts DEF PCs
<1>4. Moves(q, "refused", req[q].v, req[q].todo, <<>>)
  <2>1. req' = [req EXCEPT ![q].pc = "refused", ![q].undo = <<>>]
    BY <1>1 DEF ReleaseLock
  <2> QED BY <1>1, <1>3, <2>1, ChangeMoves
<1>5. TypeOK' /\ Others(q)
  <2>1. lock' \in [Instances -> [Users -> Requests \cup {Nobody}]]
    BY <1>1, LockTypes
  <2> QED BY <1>1, <1>2, <1>4, <2>1, TypesKept DEF TypeOK, Moves, Others
<1>6. /\ ~Running(q)' /\ ~At(q, "start")' /\ ~At(q, "ordered")' /\ Over(q)' /\ ~Validated(q)'
      /\ ~At(q, "ordered") /\ ~Over(q) /\ req'[q].v = req[q].v
      /\ \A t : ~WillUndo(q, t) /\ ~WillUndo(q, t)'
  BY <1>1, <1>4 DEF Moves, Running, At, Over, WillUndo, Validated
<1>7. (Never({"undo"})' => Never({"undo"})) /\ (Never({"cancel"})' => Never({"cancel"}))
  BY <1>2 DEF Monotone, Events
<1>8. Never({"undo"})' => order'[q] = "none" /\ \A p \in Products : reservation'[q][p] # "reserved"
  BY <1>1, <1>6, <1>7 DEF OneRequest, Unwinding
<1>9. OneRequest(q)'
  <2>1. Coupons(q)'
    BY <1>4, <1>6 DEF Coupons, At, Moves
  <2>2. Stack(req[q].undo, req[q].todo, req[q].pc)'
    BY <1>4 DEF Stack, Moves
  <2>3. Unwinding(q)' /\ Refused(q)' /\ Reserved(q)'
    BY <1>6, <1>8 DEF Unwinding, Refused, Reserved
  <2>4. Swept(q)'
    BY <1>1, <1>6, <1>7 DEF OneRequest, Swept
  <2> QED BY <2>1, <2>2, <2>3, <2>4 DEF OneRequest
<1>10. StockAccounted'
  <2>1. ASSUME NEW p \in Products, Never({"undo", "cancel"})'
        PROVE  Held(q, p)' <=> Held(q, p)
    <3>1. reservation'[q][p] # "reserved"
      BY <1>8, <2>1 DEF Never
    <3> QED BY <1>1, <1>6, <3>1 DEF Held
  <2>2. \A p \in Products : stock'[p] = stock[p]
    BY <1>1
  <2>3. \A p \in Products, o \in Requests : o # q => (Held(o, p)' <=> Held(o, p))
    BY <1>5, HeldOthers
  <2> QED BY <1>1, <1>2, <1>5, <2>1, <2>2, <2>3, Balance DEF IInv
<1>11. CouponCount'
  <2>1. usedCount' = usedCount /\ Counted' \subseteq Counted
    BY <1>1, <1>5, <1>6, HeldOthers, CheckoutAssumption DEF Counted
  <2> QED BY <1>1, <1>2, <1>5, <2>1, CountKept DEF IInv
<1>12. Versions' /\ OneOrderPerCart' /\ Within' /\ PerUserLimitHolds'
  BY <1>1, <1>5, <1>6, CartsKeptBy
<1> QED BY <1>2, <1>5, <1>9, <1>10, <1>11, <1>12, Assemble

-----------------------------------------------------------------------------
(* Crashes, locks and carts *)

LEMMA FewerHeld ==
  ASSUME NEW a \in Nat, NEW m \in Nat, NEW n \in Nat, m <= n
  PROVE  a * m <= a * n
<1>1. PICK k \in Nat : n = m + k
  <2>1. n - m \in Nat /\ n = m + (n - m)
    OBVIOUS
  <2> QED BY <2>1
<1>2. a * n = a * m + a * k /\ a * m \in Nat /\ a * k \in Nat
  BY <1>1
<1> QED BY <1>2

LEMMA CrashStep == ASSUME IInv, NEW i \in Instances, Crash(i) PROVE IInv'
<1> DEFINE dead(r) == Instance[r] = i /\ Running(r)
<1>1. /\ TypeOK /\ Spend("crash")
      /\ \A r \in Requests : req'[r] = IF dead(r) THEN [req[r] EXCEPT !.pc = "crashed", !.undo = <<>>] ELSE req[r]
      /\ req' = [r \in Requests |-> IF dead(r) THEN [req[r] EXCEPT !.pc = "crashed", !.undo = <<>>] ELSE req[r]]
      /\ lock' = [lock EXCEPT ![i] = [u \in Users |-> Nobody]]
      /\ UNCHANGED <<stock, reservation, linked, order, usedCount, redemptions, cart, closing, returning>>
  BY DEF Crash, Data, IInv
<1>2. /\ budget' \in [Events -> Nat] /\ Bounded' /\ Monotone /\ ~Never({"crash"})'
  BY <1>1, Faults DEF IInv, Monotone, Events
<1>3. PICK q \in Requests : dead(q)
  BY DEF Crash
<1>4. \A r \in Requests : req[r] \in Documents
  BY <1>1, TypeFacts
<1>5. ASSUME NEW r \in Requests
      PROVE  /\ dead(r) => /\ req'[r].pc = "crashed" /\ req'[r].undo = <<>> /\ req'[r].v = req[r].v
                           /\ req'[r] \in Documents /\ Running(r)
             /\ ~dead(r) => req'[r] = req[r]
  <2>1. CASE dead(r)
    <3>1. req'[r] = [req[r] EXCEPT !.pc = "crashed", !.undo = <<>>]
      BY <1>1, <2>1
    <3>2. req[r] \in Documents /\ "crashed" \in PCs /\ <<>> \in Seq(UndoSteps)
      BY <1>4 DEF PCs
    <3> QED BY <2>1, <3>1, <3>2 DEF Documents
  <2>2. CASE ~dead(r)
    BY <1>1, <2>2
  <2> QED BY <2>1, <2>2
<1>6. TypeOK'
  <2>1. Documented'
    BY <1>1, <1>4, <1>5 DEF Documented
  <2>2. lock' \in [Instances -> [Users -> Requests \cup {Nobody}]]
    BY <1>1 DEF TypeOK
  <2> QED BY <1>1, <1>2, <2>1, <2>2, TypesKept DEF TypeOK
<1> HIDE DEF dead
<1>7. ASSUME NEW r \in Requests, dead(r)
      PROVE  /\ ~Running(r)' /\ ~At(r, "start")' /\ ~At(r, "refused")' /\ ~At(r, "ordered")' /\ ~At(r, "ordered")
             /\ Over(r)' /\ ~Over(r) /\ ~Validated(r)' /\ \A t : ~WillUndo(r, t)'
  BY <1>5, <1>7 DEF Running, At, Over, Validated, WillUndo
<1>8. (Never({"undo"})' => Never({"undo"})) /\ (Never({"cancel"})' => Never({"cancel"}))
  BY <1>2 DEF Monotone, Events
<1>9. ASSUME NEW r \in Requests PROVE OneRequest(r)'
  <2>1. OneRequest(r)
    BY DEF IInv
  <2>2. CASE dead(r)
    <3>1. Coupons(r)'
      BY <1>5, <1>7, <2>2 DEF Coupons, At
    <3>2. Stack(req[r].undo, req[r].todo, req[r].pc)'
      BY <1>5, <2>2 DEF Stack
    <3>3. Unwinding(r)' /\ Refused(r)' /\ Reserved(r)'
      BY <1>7, <2>2 DEF Unwinding, Refused, Reserved
    <3>4. Swept(r)'
      BY <1>1, <1>7, <1>8, <2>1, <2>2 DEF OneRequest, Swept
    <3> QED BY <3>1, <3>2, <3>3, <3>4 DEF OneRequest
  <2>3. CASE ~dead(r)
    <3>1. /\ req'[r] = req[r]
          /\ \A t : WillUndo(r, t)' <=> WillUndo(r, t)
          /\ Running(r)' <=> Running(r)
          /\ Over(r)' <=> Over(r)
          /\ \A pc : At(r, pc)' <=> At(r, pc)
      BY <1>5, <2>3 DEF WillUndo, Running, Over, At
    <3>2. Coupons(r)'
      BY <1>1, <2>1, <3>1 DEF OneRequest, Coupons
    <3>4. Stack(req[r].undo, req[r].todo, req[r].pc)'
      BY <2>1, <3>1 DEF OneRequest, Stack
    <3>3. Unwinding(r)' /\ Refused(r)'
      BY <1>1, <1>8, <2>1, <3>1 DEF OneRequest, Unwinding, Refused
    <3>5. Reserved(r)'
      BY <1>1, <1>8, <2>1, <3>1 DEF OneRequest, Reserved
    <3>6. Swept(r)'
      BY <1>1, <1>8, <2>1, <3>1 DEF OneRequest, Swept
    <3> QED BY <3>2, <3>3, <3>4, <3>5, <3>6 DEF OneRequest
  <2> QED BY <2>2, <2>3
<1>10. StockAccounted'
  <2> SUFFICES ASSUME NEW p \in Products, Never({"undo", "cancel"})'
               PROVE  (stock[p] + HeldStock(p) <= Supply[p])' /\ ~Never({"undo", "cancel", "crash"})'
    BY DEF StockAccounted, Never
  <2>1. Never({"undo", "cancel"}) /\ Never({"undo"}) /\ ~Never({"undo", "cancel", "crash"})'
    BY <1>2 DEF Monotone, Events, Never
  <2>2. PICK S, T, m, n : S = HolderSet(p) /\ T = HolderSet(p)' /\ m = Cardinality(T) /\ n = Cardinality(S)
    OBVIOUS
  <2>3. ASSUME NEW r \in Requests, Held(r, p)' PROVE Held(r, p)
    <3>1. CASE dead(r)
      <4>1. Running(r)
        BY <1>5, <3>1
      <4>2. reservation[r][p] = "reserved" => WillUndo(r, StockStep(p))
        BY <2>1, <4>1, ReservedAfterStock
      <4> QED BY <1>1, <1>7, <2>3, <3>1, <4>2 DEF Held, StockStep
    <3>2. CASE ~dead(r)
      <4>1. req'[r] = req[r]
        BY <1>5, <3>2
      <4> QED BY <1>1, <2>3, <4>1 DEF Held, WillUndo, Running
    <3> QED BY <3>1, <3>2
  <2>4. S \subseteq Requests /\ T \subseteq S
    BY <2>2, <2>3 DEF HolderSet
  <2>5. m \in Nat /\ n \in Nat /\ m <= n
    BY <2>2, <2>4, Counts
  <2>6. Quantity[p] \in Nat /\ Supply[p] \in Nat /\ stock[p] \in Nat /\ stock'[p] = stock[p]
    BY <1>1, CheckoutAssumption DEF TypeOK
  <2>7. Quantity[p] * m <= Quantity[p] * n /\ Quantity[p] * m \in Nat /\ Quantity[p] * n \in Nat
    BY <2>5, <2>6, FewerHeld
  <2>8. HeldStock(p) = Quantity[p] * n /\ HeldStock(p)' = Quantity[p] * m
    BY <2>2 DEF HeldStock, HolderSet
  <2>9. stock[p] + Quantity[p] * n <= Supply[p]
    BY <2>1, <2>8 DEF IInv, StockAccounted
  <2> QED BY <2>1, <2>6, <2>7, <2>8, <2>9
<1>11. CouponCount'
  <2>1. \A o \in Counted' : o \in Counted
    <3> SUFFICES ASSUME NEW o \in Counted' PROVE o \in Counted
      OBVIOUS
    <3>1. o \in WithCoupon /\ o \in Requests /\ (order[o] # "none" \/ WillUndo(o, CouponStep)')
      BY <1>1, CheckoutAssumption DEF Counted
    <3>2. WillUndo(o, CouponStep)' => WillUndo(o, CouponStep)
      BY <1>5, <1>7, <3>1 DEF WillUndo
    <3> QED BY <3>1, <3>2 DEF Counted
  <2> QED BY <1>1, <1>2, <1>6, <2>1, CountKept DEF IInv
<1>12. Versions' /\ OneOrderPerCart' /\ Within' /\ PerUserLimitHolds'
  <2>1. \A r \in Requests :
          (At(r, "ordered")' <=> At(r, "ordered")) /\ req'[r].v = req[r].v /\ (Validated(r)' => Validated(r))
    BY <1>5, <1>7 DEF At, Validated
  <2> QED BY <1>1, <1>6, <2>1, CartsKept
<1> QED BY <1>2, <1>6, <1>9, <1>10, <1>11, <1>12 DEF IInv

LEMMA LockExpiresStep ==
  ASSUME IInv, NEW i \in Instances, NEW u \in Users, LockExpires(i, u) PROVE IInv'
<1>1. /\ TypeOK /\ Spend("ttl") /\ lock' = [lock EXCEPT ![i][u] = Nobody]
      /\ UNCHANGED <<stock, reservation, linked, order, usedCount, redemptions, cart, req, closing, returning>>
  BY DEF LockExpires, Data, IInv
<1>2. budget' \in [Events -> Nat] /\ Bounded' /\ Monotone
  BY <1>1, Faults DEF IInv, Monotone, Events
<1>3. TypeOK'
  <2>1. lock' \in [Instances -> [Users -> Requests \cup {Nobody}]]
    BY <1>1 DEF TypeOK
  <2> QED BY <1>1, <1>2, <2>1 DEF TypeOK
<1> QED BY <1>1, <1>2, <1>3, NothingOfIt

LEMMA AddToCartStep ==
  ASSUME IInv, NEW u \in Users, NEW p \in Products, AddToCart(u, p) PROVE IInv'
<1>1. /\ TypeOK /\ Spend("add") /\ cart' = [cart EXCEPT ![u].items = @ \cup {p}]
      /\ UNCHANGED <<stock, reservation, linked, order, usedCount, redemptions, lock, req, closing, returning>>
  BY DEF AddToCart, IInv
<1>2. budget' \in [Events -> Nat] /\ Bounded' /\ Monotone
  BY <1>1, Faults DEF IInv, Monotone, Events
<1>3. /\ cart' \in [Users -> [items : SUBSET Products, v : Nat]]
      /\ \A w \in Users : cart'[w].v = cart[w].v
  <2>1. PICK doc \in [items : SUBSET Products, v : Nat] :
          doc = [cart[u] EXCEPT !.items = @ \cup {p}] /\ doc.v = cart[u].v
    <3>1. PICK c \in [items : SUBSET Products, v : Nat] : c = cart[u]
      BY <1>1 DEF TypeOK
    <3>2. c.items \cup {p} \in SUBSET Products
      OBVIOUS
    <3>3. [c EXCEPT !.items = @ \cup {p}] = [items |-> c.items \cup {p}, v |-> c.v]
      OBVIOUS
    <3> QED BY <3>1, <3>2, <3>3
  <2>2. cart' = [cart EXCEPT ![u] = doc]
    BY <1>1, <2>1 DEF TypeOK
  <2> QED BY <1>1, <2>1, <2>2 DEF TypeOK
<1>4. TypeOK'
  BY <1>1, <1>2, <1>3 DEF TypeOK
<1> QED BY <1>1, <1>2, <1>3, <1>4, NothingOfIt

-----------------------------------------------------------------------------
(* The customer's cancel, and the sweeper *)

\* Neither touches the progress of a checkout, the coupon or a cart.
LEMMA Settles ==
  ASSUME IInv, NEW q \in Requests, UNCHANGED <<usedCount, redemptions, cart, req>>,
         Monotone, Bounded', TypeOK', Others(q), Swept(q)',
         order'[q] = "none" <=> order[q] = "none",
         \A p \in Products : reservation'[q][p] = "reserved" => reservation[q][p] = "reserved",
         At(q, "start") => reservation'[q] = reservation[q],
         Never({"cancel"})' /\ Running(q) => reservation'[q] = reservation[q],
         \A p \in Products : Never({"undo", "cancel"})' =>
           \/ stock'[p] = stock[p] /\ (Held(q, p)' <=> Held(q, p))
           \/ stock'[p] = stock[p] + Quantity[p] /\ Held(q, p) /\ ~Held(q, p)'
  PROVE  IInv'
<1>1. OneRequest(q)'
  <2>1. OneRequest(q) /\ req'[q] = req[q]
    BY DEF IInv
  <2>2. (Never({"undo"})' => Never({"undo"})) /\ (Never({"cancel"})' => Never({"cancel"}))
    BY DEF Monotone, Events
  <2>3. /\ \A t : WillUndo(q, t)' <=> WillUndo(q, t)
        /\ Running(q)' <=> Running(q)
        /\ \A pc : At(q, pc)' <=> At(q, pc)
    BY <2>1 DEF WillUndo, Running, At
  <2>4. Coupons(q)'
    BY <2>1, <2>3 DEF OneRequest, Coupons
  <2>5. Stack(req[q].undo, req[q].todo, req[q].pc)'
    BY <2>1 DEF OneRequest, Stack
  <2>6. Unwinding(q)' /\ Refused(q)'
    BY <2>1, <2>2, <2>3 DEF OneRequest, Unwinding, Refused
  <2>7. Reserved(q)'
    BY <2>1, <2>2, <2>3 DEF OneRequest, Reserved
  <2> QED BY <2>4, <2>5, <2>6, <2>7 DEF OneRequest
<1>2. StockAccounted'
  <2>1. \A p \in Products, o \in Requests : o # q => (Held(o, p)' <=> Held(o, p))
    BY HeldOthers
  <2> QED BY <2>1, Balance DEF IInv
<1>3. CouponCount'
  <2>1. \A o \in Counted' : o \in Counted
    <3>1. q \in Counted' => q \in Counted
      BY DEF Counted, WillUndo
    <3> QED BY <3>1, HeldOthers, CheckoutAssumption DEF Counted
  <2> QED BY <2>1, CountKept DEF IInv
<1>4. Versions' /\ OneOrderPerCart' /\ Within' /\ PerUserLimitHolds'
  <2>1. \A r \in Requests : (At(r, "ordered")' <=> At(r, "ordered")) /\ (Validated(r)' <=> Validated(r))
    BY DEF At, Validated
  <2> QED BY <2>1, CartsKept
<1> QED BY <1>1, <1>2, <1>3, <1>4, Assemble

LEMMA NotRunning ==
  ASSUME TypeOK, NEW q \in Requests, ~Running(q)
  PROVE  Over(q) \/ At(q, "start")
<1>1. req[q].pc \in PCs
  BY TypeFacts
<1> QED BY <1>1 DEF PCs, Running, Over, At

LEMMA CancelOrderStep == ASSUME IInv, NEW q \in Requests, CancelOrder(q) PROVE IInv'
<1>1. /\ TypeOK /\ order[q] = "pending" /\ Spend("cancel") /\ closing' = closing \cup {q}
      /\ order' = [order EXCEPT ![q] = "cancelled"]
      /\ UNCHANGED <<stock, reservation, linked, usedCount, redemptions, cart, lock, req, returning>>
  BY DEF CancelOrder, Elsewhere, IInv
<1>2. budget' \in [Events -> Nat] /\ Bounded' /\ Monotone /\ ~Never({"cancel"})'
  BY <1>1, Faults DEF IInv, Monotone, Events
<1>3. TypeOK' /\ order'[q] = "cancelled" /\ Others(q)
  BY <1>1, <1>2 DEF TypeOK, Others
<1>4. Swept(q)' /\ ~Never({"undo", "cancel"})'
  BY <1>2 DEF Swept, Never
<1> QED BY <1>1, <1>2, <1>3, <1>4, Settles

LEMMA ExpireOrderStep == ASSUME IInv, NEW q \in Requests, ExpireOrder(q) PROVE IInv'
<1>1. /\ TypeOK /\ order[q] = "pending" /\ ~Running(q) /\ closing' = closing \cup {q}
      /\ order' = [order EXCEPT ![q] = "cancelled"]
      /\ UNCHANGED <<stock, reservation, linked, usedCount, redemptions, cart, lock, req, returning, budget>>
  BY DEF ExpireOrder, Elsewhere, IInv
<1>2. budget' \in [Events -> Nat] /\ Bounded' /\ Monotone
  BY <1>1, Faults DEF IInv, Monotone
<1>3. TypeOK' /\ order'[q] = "cancelled" /\ Others(q)
  BY <1>1, <1>2 DEF TypeOK, Others
<1>4. Over(q)
  BY <1>1, NotRunning DEF IInv, OneRequest, Coupons
<1>5. Swept(q)'
  <2>1. Never({"cancel"})' => Never({"cancel"})
    BY <1>2 DEF Monotone, Events
  <2>2. Over(q)'
    BY <1>1, <1>4 DEF Over
  <2> QED BY <1>1, <2>1, <2>2 DEF IInv, OneRequest, Swept
<1>6. \A p \in Products : stock'[p] = stock[p] /\ (Held(q, p)' <=> Held(q, p))
  BY <1>1 DEF Held, WillUndo, Running
<1> QED BY <1>1, <1>2, <1>3, <1>5, <1>6, Settles

LEMMA CloseOrderStep == ASSUME IInv, NEW q \in Requests, CloseOrder(q) PROVE IInv'
<1>1. /\ TypeOK /\ closing' = closing \ {q}
      /\ UNCHANGED <<stock, reservation, linked, order, usedCount, redemptions, cart, lock, req, returning, budget>>
  BY DEF CloseOrder, Elsewhere, IInv
<1>2. budget' \in [Events -> Nat] /\ Bounded' /\ Monotone
  BY <1>1, Faults DEF IInv, Monotone
<1>3. TypeOK' /\ Others(q)
  BY <1>1, <1>2 DEF TypeOK, Others
<1>4. Swept(q)'
  <2>1. Never({"cancel"})' => Never({"cancel"})
    BY <1>2 DEF Monotone, Events
  <2> QED BY <1>1, <2>1 DEF IInv, OneRequest, Swept, Over
<1>5. \A p \in Products : stock'[p] = stock[p] /\ (Held(q, p)' <=> Held(q, p))
  BY <1>1 DEF Held, WillUndo, Running
<1> QED BY <1>1, <1>2, <1>3, <1>4, <1>5, Settles

\* A reservation is taken from a request that is over: its stock is then about to return.
LEMMA Takes ==
  ASSUME IInv, NEW q \in Requests, NEW p \in Products, NEW status \in {"released", "expired"},
         reservation[q][p] = "reserved", reservation' = [reservation EXCEPT ![q][p] = status],
         returning' = returning \cup {<<q, p>>},
         UNCHANGED <<stock, linked, order, usedCount, redemptions, cart, lock, req, closing, budget>>,
         Never({"cancel"}) => Over(q)
  PROVE  IInv'
<1>1. budget' \in [Events -> Nat] /\ Bounded' /\ Monotone /\ TypeOK
  BY Faults DEF IInv, Monotone
<1>2. /\ reservation' \in [Requests -> [Products -> {"none", "reserved", "released", "expired"}]]
      /\ \A o \in Requests : o # q => reservation'[o] = reservation[o]
      /\ reservation'[q][p] = status
      /\ \A r \in Products : r # p => reservation'[q][r] = reservation[q][r]
  BY <1>1 DEF TypeOK
<1>3. TypeOK' /\ Others(q)
  BY <1>1, <1>2 DEF TypeOK, Others
<1>4. Never({"cancel"})' => Never({"cancel"})
  BY <1>1 DEF Monotone, Events
<1>5. ~At(q, "start")
  BY DEF IInv, OneRequest, Coupons
<1>6. Over(q) => ~Running(q) /\ Over(q)' /\ ~Running(q)'
  BY DEF Over, Running
<1>7. Swept(q)'
  <2> SUFFICES ASSUME Never({"cancel"})'
               PROVE  Over(q)' /\ \A r \in Products : <<q, r>> \in returning' => reservation'[q][r] # "reserved"
    BY DEF Swept
  <2>1. Over(q) /\ Never({"cancel"})
    BY <1>4
  <2>2. \A r \in Products : r # p => (<<q, r>> \in returning' <=> <<q, r>> \in returning)
    OBVIOUS
  <2> QED BY <1>2, <1>6, <2>1, <2>2 DEF IInv, OneRequest, Swept
<1>8. ASSUME NEW r \in Products, Never({"undo", "cancel"})'
      PROVE  stock'[r] = stock[r] /\ (Held(q, r)' <=> Held(q, r))
  <2>1. Over(q)
    <3>1. Never({"undo", "cancel"})' => Never({"cancel"})'
      BY DEF Never
    <3> QED BY <1>4, <1>8, <3>1
  <2>2. WillUndo(q, StockStep(r))' <=> WillUndo(q, StockStep(r))
    BY DEF WillUndo
  <2>3. r # p => (<<q, r>> \in returning' <=> <<q, r>> \in returning)
    OBVIOUS
  <2> QED BY <1>2, <1>6, <2>1, <2>2, <2>3 DEF Held, StockStep
<1>9. \A r \in Products : reservation'[q][r] = "reserved" => reservation[q][r] = "reserved"
  BY <1>2
<1> QED BY <1>1, <1>3, <1>4, <1>5, <1>6, <1>7, <1>8, <1>9, Settles

LEMMA ReleaseReservationStep ==
  ASSUME IInv, NEW q \in Requests, NEW p \in Products, ReleaseReservation(q, p) PROVE IInv'
<1>1. Never({"cancel"}) => Over(q)
  BY DEF ReleaseReservation, IInv, OneRequest, Swept
<1> QED BY <1>1, Takes DEF ReleaseReservation, Elsewhere

LEMMA SweepOrphanStep ==
  ASSUME IInv, NEW q \in Requests, NEW p \in Products, SweepOrphan(q, p) PROVE IInv'
<1>1. TypeOK /\ ~Running(q) /\ reservation[q][p] = "reserved"
  BY DEF SweepOrphan, IInv
<1>2. Over(q)
  BY <1>1, NotRunning DEF IInv, OneRequest, Coupons
<1> QED BY <1>2, Takes DEF SweepOrphan, Elsewhere

LEMMA ReturnStockStep ==
  ASSUME IInv, NEW q \in Requests, NEW p \in Products, ReturnStock(q, p) PROVE IInv'
<1>1. /\ TypeOK /\ <<q, p>> \in returning /\ returning' = returning \ {<<q, p>>}
      /\ stock' = [stock EXCEPT ![p] = @ + Quantity[p]]
      /\ UNCHANGED <<reservation, linked, order, usedCount, redemptions, cart, lock, req, closing, budget>>
  BY DEF ReturnStock, Elsewhere, IInv
<1>2. budget' \in [Events -> Nat] /\ Bounded' /\ Monotone
  BY <1>1, Faults DEF IInv, Monotone
<1>3. /\ stock' \in [Products -> Nat] /\ stock'[p] = stock[p] + Quantity[p]
      /\ \A r \in Products : r # p => stock'[r] = stock[r]
  <2>1. stock[p] + Quantity[p] \in Nat
    BY <1>1, CheckoutAssumption DEF TypeOK
  <2> QED BY <1>1, <2>1 DEF TypeOK
<1>4. TypeOK' /\ Others(q)
  BY <1>1, <1>2, <1>3 DEF TypeOK, Others
<1>5. Never({"cancel"})' => Never({"cancel"})
  BY <1>2 DEF Monotone, Events
<1>6. Swept(q)'
  BY <1>1, <1>5 DEF IInv, OneRequest, Swept, Over
<1>7. ASSUME NEW r \in Products, Never({"undo", "cancel"})'
      PROVE  \/ stock'[r] = stock[r] /\ (Held(q, r)' <=> Held(q, r))
             \/ stock'[r] = stock[r] + Quantity[r] /\ Held(q, r) /\ ~Held(q, r)'
  <2>1. CASE r # p
    BY <1>1, <1>3, <2>1 DEF Held, WillUndo, Running
  <2>2. CASE r = p
    <3>1. Never({"cancel"})
      BY <1>5, <1>7 DEF Never
    <3>2. Over(q) /\ reservation[q][p] # "reserved"
      BY <1>1, <3>1 DEF IInv, OneRequest, Swept
    <3>3. req[q].undo = <<>>
      BY <3>2 DEF IInv, OneRequest, Stack, Over
    <3>4. \A t : ~WillUndo(q, t)'
      BY <1>1, <3>3 DEF WillUndo
    <3>5. Held(q, p)
      BY <1>1 DEF Held
    <3> QED BY <1>1, <1>3, <2>2, <3>2, <3>4, <3>5 DEF Held
  <2> QED BY <2>1, <2>2
<1> QED BY <1>1, <1>2, <1>4, <1>6, <1>7, Settles

-----------------------------------------------------------------------------
(* Theorems *)

LEMMA StutterInv == ASSUME IInv, UNCHANGED vars PROVE IInv'
<1>1. TypeOK' /\ Bounded' /\ Monotone
  BY DEF IInv, TypeOK, Bounded, Monotone, Never, vars
<1> QED BY <1>1, NothingOfIt DEF vars

LEMMA NextInv == IInv /\ [Next]_vars => IInv'
<1> SUFFICES ASSUME IInv, [Next]_vars PROVE IInv'
  OBVIOUS
<1>1. CASE UNCHANGED vars
  BY <1>1, StutterInv
<1>2. ASSUME NEW r \in Requests, CheckoutStep(r) PROVE IInv'
  BY <1>2, AcquireLockStep, ReadCartStep, TakeStockStep, ReserveStep, ValidateCouponStep, ClaimCouponStep,
     CreateOrderStep, LinkReservationsStep, CreateRedemptionStep, SaveCartStep, CompensateStep, CompensatedStep
     DEF CheckoutStep
<1>3. ASSUME NEW r \in Requests, SweepStep(r) PROVE IInv'
  BY <1>3, ExpireOrderStep, CloseOrderStep, ReleaseReservationStep, SweepOrphanStep, ReturnStockStep DEF SweepStep
<1>4. ASSUME NEW r \in Requests, Throw(r) \/ CompensationFails(r) \/ CancelOrder(r) PROVE IInv'
  BY <1>4, ThrowStep, CompensationFailsStep, CancelOrderStep
<1>5. ASSUME NEW i \in Instances, Crash(i) \/ \E u \in Users : LockExpires(i, u) PROVE IInv'
  BY <1>5, CrashStep, LockExpiresStep
<1>6. ASSUME NEW u \in Users, NEW p \in Products, AddToCart(u, p) PROVE IInv'
  BY <1>6, AddToCartStep
<1> QED BY <1>1, <1>2, <1>3, <1>4, <1>5, <1>6 DEF Next

\* Whatever executeCheckout, compensate, the sweeper and the customers do in whatever order, and
\* whatever fails, the inductive invariant holds.
THEOREM Invariance == Spec => []IInv
<1> QED BY InitInv, NextInv, PTL DEF Spec

\* Every document stays in a state its schema admits; no checkout takes a product's stock below 0.
THEOREM CheckoutTypes == Spec => []TypeOK
<1>1. IInv => TypeOK
  BY DEF IInv
<1> QED BY <1>1, Invariance, PTL

\* Stock is never leaked: whichever steps of however many overlapping checkouts throw, every unit is
\* on hand or held; and if processes die as well, no unit is sold twice.
THEOREM StockIsAccounted == Spec => []StockAccounted
<1>1. IInv => StockAccounted
  BY DEF IInv
<1> QED BY <1>1, Invariance, PTL

\* No overlap of validateCouponForUser and the claim lets orders exceed the coupon's usageLimit.
THEOREM CouponLimit == Spec => []CouponOrdersCounted
<1>1. IInv => CouponOrdersCounted
  <2> SUFFICES ASSUME IInv, Never({"undo"})
               PROVE  Cardinality({r \in WithCoupon : order[r] # "none"}) <= usedCount
    BY DEF IInv, CouponCount, CouponOrdersCounted
  <2> DEFINE Ordered == {r \in WithCoupon : order[r] # "none"}
  <2>1. Ordered \subseteq Counted /\ Counted \subseteq Requests /\ Ordered \subseteq Requests
    BY CheckoutAssumption DEF Counted
  <2>2. Cardinality(Ordered) <= Cardinality(Counted) /\ Cardinality(Ordered) \in Nat /\ Cardinality(Counted) \in Nat
    BY <2>1, Counts
  <2>3. Cardinality(Counted) <= usedCount /\ usedCount \in Nat
    BY DEF IInv, CouponCount, TypeOK
  <2> QED BY <2>2, <2>3
<1> QED BY <1>1, Invariance, PTL

\* The undo actions of compensate leave neither an order nor a reservation of a refused checkout.
THEOREM RefusalIsClean == Spec => []RefusedLeavesNothing
<1>1. IInv => RefusedLeavesNothing
  BY DEF IInv, OneRequest, Refused, RefusedLeavesNothing, At
<1> QED BY <1>1, Invariance, PTL

\* The __v filter of cart.save() keeps two checkouts of a customer, on whichever processes and with
\* whatever is left of the lock, from ordering the same cart twice.
THEOREM CartOrderedOnce == Spec => []OneOrderPerCart
<1>1. IInv => OneOrderPerCart
  BY DEF IInv
<1> QED BY <1>1, Invariance, PTL

\* The per-user limit, only read by validateCouponForUser, holds of the orders made.
THEOREM CouponPerUser == Spec => []PerUserLimitHolds
<1>1. IInv => PerUserLimitHolds
  BY DEF IInv
<1> QED BY <1>1, Invariance, PTL

\* releaseLock compares the token: no other request's end takes the lock from a running holder.
THEOREM LockIsKept == Spec => LockKeptUntilDone
<1> DEFINE Kept == \A r \in Requests :
             (Holder(r) = r /\ Running(r) /\ Running(r)' /\ budget'["ttl"] = budget["ttl"]) => Holder(r)' = r
<1>1. TypeOK /\ [Next]_vars => [Kept]_vars
  <2> SUFFICES ASSUME TypeOK, Next, NEW r \in Requests, Holder(r) = r, Running(r), Running(r)',
                      budget'["ttl"] = budget["ttl"]
               PROVE  Holder(r)' = r
    BY DEF Kept
  <2>1. /\ r # Nobody /\ User[r] \in Users /\ Instance[r] \in Instances
        /\ lock \in [Instances -> [Users -> Requests \cup {Nobody}]]
        /\ lock[Instance[r]][User[r]] = r
    BY CheckoutAssumption DEF TypeOK, Holder
  <2>2. CASE UNCHANGED lock
    BY <2>1, <2>2 DEF Holder
  <2>3. ASSUME NEW q \in Requests, AcquireLock(q) PROVE Holder(r)' = r
    <3>1. UNCHANGED lock \/ (Holder(q) = Nobody /\ lock' = [lock EXCEPT ![Instance[q]][User[q]] = q])
      BY <2>3 DEF AcquireLock
    <3>2. Instance[q] \in Instances /\ User[q] \in Users
      BY CheckoutAssumption
    <3> QED BY <2>1, <3>1, <3>2 DEF Holder
  <2>4. ASSUME NEW q \in Requests, NEW pc \in {"ordered", "refused"}, ReleaseLock(q, pc) PROVE Holder(r)' = r
    <3>1. Instance[q] \in Instances /\ User[q] \in Users
      BY CheckoutAssumption
    <3>2. q # r
      <4>1. req' = [req EXCEPT ![q].pc = pc, ![q].undo = <<>>]
        BY <2>4 DEF ReleaseLock
      <4>2. req'[q].pc = pc
        BY <4>1 DEF TypeOK
      <4> QED BY <4>2 DEF Running
    <3>3. lock' = [lock EXCEPT ![Instance[q]][User[q]] = IF @ = q THEN Nobody ELSE @]
      BY <2>4 DEF ReleaseLock
    <3> QED BY <2>1, <3>1, <3>2, <3>3 DEF Holder
  <2>5. ASSUME NEW i \in Instances, Crash(i) PROVE Holder(r)' = r
    <3>1. Instance[r] # i
      <4> SUFFICES ASSUME Instance[r] = i PROVE FALSE
        OBVIOUS
      <4>1. req'[r] = [req[r] EXCEPT !.pc = "crashed", !.undo = <<>>]
        BY <2>5 DEF Crash
      <4>2. req'[r].pc = "crashed"
        BY <4>1, TypeFacts DEF Documents
      <4> QED BY <4>2 DEF Running
    <3> QED BY <2>1, <2>5, <3>1 DEF Crash, Holder
  <2>6. ASSUME NEW i \in Instances, NEW u \in Users, LockExpires(i, u) PROVE FALSE
    <3>1. budget["ttl"] \in Nat /\ budget'["ttl"] = budget["ttl"] - 1
      BY <2>6 DEF LockExpires, Spend, TypeOK, Events
    <3> QED BY <3>1
  <2>7. ASSUME NEW q \in Requests, CheckoutStep(q) PROVE Holder(r)' = r
    <3>1. \/ AcquireLock(q) \/ UNCHANGED lock
          \/ \E pc \in {"ordered", "refused"} : ReleaseLock(q, pc)
      BY <2>7 DEF CheckoutStep, ReadCart, TakeStock, Reserve, ValidateCoupon, ClaimCoupon, CreateOrder,
                  LinkReservations, CreateRedemption, SaveCart, Compensate, Compensated, Local
    <3> QED BY <2>2, <2>3, <2>4, <2>7, <3>1
  <2>8. ASSUME NEW q \in Requests, Throw(q) \/ CompensationFails(q) \/ CancelOrder(q) \/ SweepStep(q)
        PROVE  Holder(r)' = r
    BY <2>2, <2>8 DEF Throw, CompensationFails, CancelOrder, SweepStep, ExpireOrder, CloseOrder,
                      ReleaseReservation, SweepOrphan, ReturnStock, Elsewhere
  <2>9. ASSUME NEW u \in Users, NEW p \in Products, AddToCart(u, p) PROVE Holder(r)' = r
    BY <2>2, <2>9 DEF AddToCart
  <2> QED BY <2>5, <2>6, <2>7, <2>8, <2>9 DEF Next
<1> QED BY <1>1, CheckoutTypes, PTL DEF Spec, LockKeptUntilDone
=============================================================================
