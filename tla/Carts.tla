-------------------------------- MODULE Carts --------------------------------
(***************************************************************************)
(* The cart and the wishlist of one customer: CartService, CartRepository  *)
(* and wishlistController on the server, CartStore, WishlistStore and the  *)
(* pages that use them in several tabs of the client.                      *)
(*                                                                         *)
(* A request is used once. Each database call is a step, and so is the     *)
(* delivery of its answer, in any order. Checkout, which empties the cart  *)
(* too, is in module Checkout.                                             *)
(***************************************************************************)
EXTENDS Naturals, Sequences, FiniteSets, SequencesExt

CONSTANTS
    Tabs,
    Products,
    Requests,
    Stock,          \* units of each product for sale
    MaxQuantity,    \* the limit per line (999)
    MaxAdd,         \* units added at once
    NoCart,         \* the customer has no cart document
    NoOp,
    MaxSignOuts,    \* how often a tab signs out
    MaxSoldOut      \* how often a product is deactivated

ASSUME CartsAssumption ==
    /\ Stock \in [Products -> Nat]
    /\ MaxQuantity \in Nat /\ MaxAdd \in Nat /\ MaxSignOuts \in Nat /\ MaxSoldOut \in Nat
    /\ NoCart \notin Seq([product : Products, quantity : Nat])
    /\ \A wishes \in SUBSET Products : NoCart # wishes

VARIABLES
    items,      \* the lines of the cart document, or NoCart
    wished,     \* the products of the wishlist document, or NoCart
    inactive,   \* products that are not for sale any more
    req,        \* requests
    store,      \* CartStore and WishlistStore of each tab
    signOuts    \* so far

cvars == <<items, wished, inactive, req, store, signOuts>>

CartWrites == {"add", "set", "remove", "clear"}
WishWrites == {"wish", "unwish", "move"}     \* "move" saves, then removes
Kinds == CartWrites \cup WishWrites \cup {"show", "showWishes"}
Quantities == [Products -> Nat]

\* Positions: "refused" is an error answer, "ok" a good one, "seen" either,
\* once the tab has handled it.
Places == {"idle", "sent", "checked", "pushing", "inserting", "written", "ok", "refused", "seen"}

NoRequest == [kind |-> "show", tab |-> NoCart, product |-> NoCart, n |-> 0,
              at |-> "idle", tries |-> 0, ok |-> FALSE, moved |-> FALSE, cart |-> NoCart]

Lines == IF items = NoCart THEN <<>> ELSE items
Line(p) == {i \in DOMAIN Lines : Lines[i].product = p}
\* A response holds the cart as quantities, or the wishlist as a set.
InCart(p) == FoldSet(LAMBDA i, sum : sum + Lines[i].quantity, 0, Line(p))
Contents == [p \in Products |-> InCart(p)]
EmptyCart == [p \in Products |-> 0]
Wishes == IF wished = NoCart THEN {} ELSE wished

\* Some tab after its stores have loaded.
Init ==
    /\ items \in {NoCart} \cup {<<[product |-> p, quantity |-> 1]>> : p \in Products}
    /\ wished = NoCart
    /\ inactive = {}
    /\ req = [r \in Requests |-> NoRequest]
    /\ store = [t \in Tabs |-> [signedIn |-> TRUE, cart |-> Contents, status |-> "ready",
                                wishes |-> Wishes, busy |-> {}]]
    /\ signOuts = 0

-----------------------------------------------------------------------------
(* The server. *)

At(r, k, place) == req[r].kind \in k /\ req[r].at = place
Goto(r, place) == req' = [req EXCEPT ![r].at = place]
\* The answer to r with the cart or the wishlist c.
Answer(r, c) == req' = [req EXCEPT ![r] = [@ EXCEPT !.at = "ok", !.ok = TRUE, !.cart = c]]

\* show: findForUser, or an empty cart.
Show(r) ==
    /\ At(r, {"show"}, "sent")
    /\ Answer(r, Contents)
    /\ UNCHANGED <<items, wished, inactive, store, signOuts>>

\* addItem: the product, the current cart, the advisory checks.
CheckAdd(r) ==
    /\ At(r, {"add"}, "sent")
    /\ LET requested == InCart(req[r].product) + req[r].n IN
       Goto(r, IF req[r].product \notin inactive /\ requested <= Stock[req[r].product] /\ requested <= MaxQuantity
               THEN "checked" ELSE "refused")
    /\ UNCHANGED <<items, wished, inactive, store, signOuts>>

\* Mutant: no return after the increment.
IncrementAndPush(r) ==
    /\ At(r, {"add"}, "checked")
    /\ IF req[r].tries = 3 THEN Goto(r, "refused") ELSE Goto(r, "pushing")
    /\ items' = IF items = NoCart THEN items
                ELSE [i \in DOMAIN items |-> IF i \in Line(req[r].product) /\ req[r].tries < 3
                                             THEN [items[i] EXCEPT !.quantity = @ + req[r].n] ELSE items[i]]
    /\ UNCHANGED <<wished, inactive, store, signOuts>>

\* Mutant: the loop retries the push alone.
IncrementOnce(r) ==
    /\ At(r, {"add"}, "checked")
    /\ IF req[r].tries = 3 THEN Goto(r, "refused") /\ items' = items
       ELSE IF req[r].tries = 0 /\ Line(req[r].product) # {}
       THEN /\ \E i \in Line(req[r].product) : items' = [items EXCEPT ![i].quantity = @ + req[r].n]
            /\ Goto(r, "written")
       ELSE Goto(r, "pushing") /\ items' = items
    /\ UNCHANGED <<wished, inactive, store, signOuts>>

\* addQuantity: increment the line, if there is one.
IncrementLine(r) ==
    /\ At(r, {"add"}, "checked")
    /\ IF req[r].tries = 3
       THEN Goto(r, "refused") /\ items' = items
       ELSE IF Line(req[r].product) # {}
       THEN /\ \E i \in Line(req[r].product) : items' = [items EXCEPT ![i].quantity = @ + req[r].n]
            /\ Goto(r, "written")
       ELSE Goto(r, "pushing") /\ items' = items
    /\ UNCHANGED <<wished, inactive, store, signOuts>>

Retry(r) == req' = [req EXCEPT ![r] = [@ EXCEPT !.at = "checked", !.tries = req[r].tries + 1]]

\* Otherwise push a new one. The filter excludes carts that have the product:
\* then, and when two first inserts of the cart overlap, the upsert inserts a
\* second document for the customer, which the unique index refuses (11000).
PushLine(r) ==
    /\ At(r, {"add"}, "pushing")
    /\ IF items = NoCart THEN Goto(r, "inserting") /\ items' = items
       ELSE IF Line(req[r].product) # {} THEN Retry(r) /\ items' = items
       ELSE /\ items' = Append(items, [product |-> req[r].product, quantity |-> req[r].n])
            /\ Goto(r, "written")
    /\ UNCHANGED <<wished, inactive, store, signOuts>>

InsertCart(r) ==
    /\ At(r, {"add"}, "inserting")
    /\ IF items # NoCart THEN Retry(r) /\ items' = items
       ELSE items' = <<[product |-> req[r].product, quantity |-> req[r].n]>> /\ Goto(r, "written")
    /\ UNCHANGED <<wished, inactive, store, signOuts>>

\* updateItem: the product and its stock, then the line, if it is still there.
CheckSet(r) ==
    /\ At(r, {"set"}, "sent")
    /\ Goto(r, IF req[r].product \notin inactive /\ req[r].n <= Stock[req[r].product] THEN "checked" ELSE "refused")
    /\ UNCHANGED <<items, wished, inactive, store, signOuts>>

UpdateLine(r) ==
    /\ At(r, {"set"}, "checked")
    /\ IF Line(req[r].product) = {} THEN Goto(r, "refused") /\ items' = items
       ELSE /\ \E i \in Line(req[r].product) : items' = [items EXCEPT ![i].quantity = req[r].n]
            /\ Goto(r, "written")
    /\ UNCHANGED <<wished, inactive, store, signOuts>>

\* addItem and updateItem answer with the cart as findById reads it afterwards.
ReadBack(r) ==
    /\ At(r, {"add", "set"}, "written")
    /\ Answer(r, Contents)
    /\ UNCHANGED <<items, wished, inactive, store, signOuts>>

\* $pull: the lines that are not of p, in their order.
InOrder(S) == CHOOSE f \in [1..Cardinality(S) -> S] : \A i, j \in DOMAIN f : i < j => f[i] < f[j]
Pull(p) == LET kept == InOrder(DOMAIN items \ Line(p)) IN [i \in DOMAIN kept |-> items[kept[i]]]

RemoveLine(r) ==
    /\ At(r, {"remove"}, "sent")
    /\ items' = IF items = NoCart THEN NoCart ELSE Pull(req[r].product)
    /\ Answer(r, [Contents EXCEPT ![req[r].product] = 0])
    /\ UNCHANGED <<wished, inactive, store, signOuts>>

ClearCart(r) ==
    /\ At(r, {"clear"}, "sent")
    /\ items' = <<>>
    /\ Answer(r, EmptyCart)
    /\ UNCHANGED <<wished, inactive, store, signOuts>>

\* wishlistController: show, add and remove.
ShowWishes(r) ==
    /\ At(r, {"showWishes"}, "sent")
    /\ Answer(r, Wishes)
    /\ UNCHANGED <<items, wished, inactive, store, signOuts>>

CheckWish(r) ==
    /\ At(r, {"wish", "move"}, "sent")
    /\ Goto(r, IF req[r].product \in inactive THEN "refused"
               ELSE IF wished = NoCart THEN "inserting" ELSE "checked")
    /\ UNCHANGED <<items, wished, inactive, store, signOuts>>

\* $addToSet with upsert; the loser of two first inserts gets a 409.
AddWish(r) ==
    /\ At(r, {"wish", "move"}, "checked") \/ At(r, {"wish", "move"}, "inserting")
    /\ IF req[r].at = "inserting" /\ wished # NoCart
       THEN Goto(r, "refused") /\ wished' = wished
       ELSE wished' = Wishes \cup {req[r].product} /\ Answer(r, wished')
    /\ UNCHANGED <<items, inactive, store, signOuts>>

RemoveWish(r) ==
    /\ At(r, {"unwish"}, "sent")
    /\ wished' = IF wished = NoCart THEN NoCart ELSE wished \ {req[r].product}
    /\ Answer(r, Wishes \ {req[r].product})
    /\ UNCHANGED <<items, inactive, store, signOuts>>

Server(r) ==
    \/ Show(r) \/ CheckAdd(r) \/ IncrementLine(r) \/ PushLine(r) \/ InsertCart(r)
    \/ CheckSet(r) \/ UpdateLine(r) \/ ReadBack(r) \/ RemoveLine(r) \/ ClearCart(r)
    \/ ShowWishes(r) \/ CheckWish(r) \/ AddWish(r) \/ RemoveWish(r)

\* An administrator takes a product off the shop.
Deactivate(p) ==
    /\ Cardinality(inactive) < MaxSoldOut
    /\ inactive' = inactive \cup {p}
    /\ UNCHANGED <<items, wished, req, store, signOuts>>

-----------------------------------------------------------------------------
(* The client. *)

Free == {r \in Requests : req[r].at = "idle"}
Fresh == CHOOSE r \in Free : TRUE
Sent(k, t, p, n) == [NoRequest EXCEPT !.kind = k, !.tab = t, !.product = p, !.n = n, !.at = "sent"]
Send(k, t, p, n) == Free # {} /\ req' = [req EXCEPT ![Fresh] = Sent(k, t, p, n)]
SomeProduct == CHOOSE p \in Products : TRUE

\* CartStore.load, on sign-in and when the cart page opens.
LoadCart(t) ==
    /\ store[t].signedIn
    /\ Send("show", t, SomeProduct, 0)
    /\ store' = [store EXCEPT ![t].status = "loading"]
    /\ UNCHANGED <<items, wished, inactive, signOuts>>

LoadWishes(t) ==
    /\ store[t].signedIn
    /\ Send("showWishes", t, SomeProduct, 0)
    /\ UNCHANGED <<items, wished, inactive, store, signOuts>>

\* CartStore.mutate marks the product busy for the time of the request.
Mutate(k, t, p, n) ==
    /\ store[t].signedIn
    /\ Send(k, t, p, n)
    /\ store' = [store EXCEPT ![t].busy = @ \cup {p}]
    /\ UNCHANGED <<items, wished, inactive, signOuts>>

\* CartActions.add, from the pages that show products.
AddToCart(t, p) == \E n \in 1..MaxAdd : Mutate("add", t, p, n)

\* The cart page shows the lines of the store, enabled while not busy.
Shown(t, p) == store[t].cart[p] > 0 /\ p \notin store[t].busy

SetQuantity(t, p) ==
    /\ Shown(t, p)
    /\ \E n \in 1..MaxQuantity : n <= Stock[p] /\ n # store[t].cart[p] /\ Mutate("set", t, p, n)

RemoveFromCart(t, p) == Shown(t, p) /\ Mutate("remove", t, p, 0)

Empty(t) ==
    /\ store[t].signedIn /\ \E p \in Products : store[t].cart[p] > 0
    /\ Send("clear", t, SomeProduct, 0)
    /\ UNCHANGED <<items, wished, inactive, store, signOuts>>

\* WishlistStore.toggle, and moveToWishlist of the cart page.
Toggle(t, p) ==
    /\ store[t].signedIn
    /\ Send(IF p \in store[t].wishes THEN "unwish" ELSE "wish", t, p, 0)
    /\ UNCHANGED <<items, wished, inactive, store, signOuts>>

MoveToWishlist(t, p) ==
    /\ store[t].signedIn /\ Shown(t, p)
    /\ Send("move", t, p, 0)
    /\ UNCHANGED <<items, wished, inactive, store, signOuts>>

\* Signing out resets both stores, signing in loads them.
Reset(s) == [s EXCEPT !.signedIn = FALSE, !.cart = EmptyCart, !.status = "idle", !.wishes = {}]

SignOut(t) ==
    /\ store[t].signedIn /\ signOuts < MaxSignOuts
    /\ signOuts' = signOuts + 1
    /\ store' = [store EXCEPT ![t] = Reset(@)]
    /\ UNCHANGED <<items, wished, inactive, req>>

SignIn(t) ==
    /\ ~store[t].signedIn /\ Free # {} /\ Free \ {Fresh} # {}
    /\ LET other == CHOOSE r \in Free \ {Fresh} : TRUE IN
       req' = [req EXCEPT ![Fresh] = Sent("show", t, SomeProduct, 0), ![other] = Sent("showWishes", t, SomeProduct, 0)]
    /\ store' = [store EXCEPT ![t].signedIn = TRUE, ![t].status = "loading"]
    /\ UNCHANGED <<items, wished, inactive, signOuts>>

\* Answers reach the stores in any order, signed in or not.
Replied(r, k) == req[r].kind \in k /\ req[r].at \in {"ok", "refused"}
\* What a request was and how it ended is kept, for the properties only.
Done(r) == req' = [req EXCEPT ![r] = [@ EXCEPT !.at = "seen", !.tries = 0, !.cart = NoCart]]
Handle(r, s) ==
    /\ store' = [store EXCEPT ![req[r].tab] = s]
    /\ Done(r)
    /\ UNCHANGED <<items, wished, inactive, signOuts>>

ShowAnswer(r) ==
    /\ Replied(r, {"show"})
    /\ Handle(r, IF req[r].ok THEN [store[req[r].tab] EXCEPT !.cart = req[r].cart, !.status = "ready"]
                 ELSE [store[req[r].tab] EXCEPT !.status = "error"])

MutateAnswer(r) ==
    /\ Replied(r, {"add", "set", "remove"})
    /\ LET s == [store[req[r].tab] EXCEPT !.busy = @ \ {req[r].product}] IN
       Handle(r, IF req[r].ok THEN [s EXCEPT !.cart = req[r].cart, !.status = "ready"] ELSE s)

ClearAnswer(r) ==
    /\ Replied(r, {"clear"})
    /\ Handle(r, [store[req[r].tab] EXCEPT !.cart = req[r].cart])

WishAnswer(r) ==
    /\ Replied(r, {"showWishes", "wish", "unwish"})
    /\ Handle(r, IF req[r].ok THEN [store[req[r].tab] EXCEPT !.wishes = req[r].cart] ELSE store[req[r].tab])

\* Mutant: the cart does not wait for the wishlist's answer to be good.
MoveAnswerAnyway(r) ==
    /\ Replied(r, {"move"})
    /\ store' = store
    /\ req' = [req EXCEPT ![r] = [Sent("remove", req[r].tab, req[r].product, 0) EXCEPT !.moved = TRUE]]
    /\ UNCHANGED <<items, wished, inactive, signOuts>>

\* moveToWishlist removes the product from the cart once it is saved.
MoveAnswer(r) ==
    /\ Replied(r, {"move"})
    /\ LET t == req[r].tab p == req[r].product IN
       IF req[r].ok
       THEN /\ store' = [store EXCEPT ![t].wishes = req[r].cart, ![t].busy = @ \cup {p}]
            /\ req' = [req EXCEPT ![r] = [Sent("remove", t, p, 0) EXCEPT !.moved = TRUE]]
       ELSE store' = store /\ Done(r)
    /\ UNCHANGED <<items, wished, inactive, signOuts>>

Client(r) == ShowAnswer(r) \/ MutateAnswer(r) \/ ClearAnswer(r) \/ WishAnswer(r) \/ MoveAnswer(r)

Next ==
    \/ \E r \in Requests : Server(r) \/ Client(r)
    \/ \E t \in Tabs : LoadCart(t) \/ LoadWishes(t) \/ Empty(t) \/ SignOut(t) \/ SignIn(t)
    \/ \E t \in Tabs, p \in Products :
          AddToCart(t, p) \/ SetQuantity(t, p) \/ RemoveFromCart(t, p) \/ Toggle(t, p) \/ MoveToWishlist(t, p)
    \/ \E p \in Products : Deactivate(p)

CartsSpec == Init /\ [][Next]_cvars

-----------------------------------------------------------------------------
(* Properties. *)

\* The cart is atomic: whatever requests overlap, each of them takes effect in
\* one step on the cart as it is then, or not at all (CartRepository.ts:34-60).
Asked(r) == req[r].kind \in CartWrites /\ req[r].at # "idle"
OpOf == [r \in Requests |-> IF Asked(r) THEN [kind |-> req[r].kind, product |-> req[r].product, n |-> req[r].n] ELSE NoOp]
StateOf == [r \in Requests |->
              IF ~Asked(r) THEN "none"
              ELSE IF req[r].ok \/ req[r].at = "written" THEN "done"
              ELSE IF req[r].at \in {"refused", "seen"} THEN "refused" ELSE "pending"]
Atomic == INSTANCE AtomicCart WITH quantity <- Contents, op <- OpOf, state <- StateOf
ImplementsAtomicCart == Atomic!ASpec

\* "Saves to the wishlist first, then removes from the cart, so a failure never
\* loses the item" (cart.component.ts:55): a product that was moved is in the
\* wishlist, unless somebody took it out of there.
MoveNeverLoses ==
    \A r \in Requests : req[r].moved /\ req[r].ok =>
        \/ req[r].product \in Wishes
        \/ \E s \in Requests : req[s].kind = "unwish" /\ req[s].ok /\ req[s].product = req[r].product

\* addQuantity gives up after three attempts only if the product was taken out
\* of the cart meanwhile: overlapping adds alone never exhaust its retries
\* (CartRepository.ts:59).
AddsSucceedTogether ==
    (\A r \in Requests : req[r].kind \in {"remove", "clear"} => req[r].at = "idle") =>
        \A r \in Requests : req[r].kind = "add" => req[r].tries < 3
=============================================================================
