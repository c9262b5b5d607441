------------------------------- MODULE Pages -------------------------------
(* One browser tab of the client: the router, the header search box, the page *)
(* that is open with its resource (rxResource), its title, its forms and its  *)
(* dialogs, and behind the product page the API's ratings (reviewController). *)
(* Answers carry what was asked; a step is a user's action, an answer, a timer *)
(* or a query.                                                                *)
EXTENDS Integers, SequencesExt

CONSTANTS
    Products,
    Items,              \* products or coupons in the tables of the dashboards
    Texts,              \* what the shopper types, trimmed; "" is the empty box
    Short,              \* the texts below SUGGEST_MIN_LENGTH
    Customers, Me,      \* who reviews; Me is the shopper of this tab
    MaxRecent,          \* RECENTLY_VIEWED_MAX
    Budgets,            \* bounds: how many [types, moves, posts] a behaviour has
    None

ASSUME PagesAssumption ==
    /\ "" \in Short /\ Short \subseteq Texts /\ Me \in Customers
    /\ None \notin Texts \cup Products \cup Items
    /\ None \notin {"orders", "products", "coupons", "settings", "detail", "review", "ship", "new", "cancel", "refund"}
    /\ MaxRecent \in Nat \ {0} /\ Budgets \subseteq [types : Nat, moves : Nat, posts : Nat]

VARIABLES
    url,        \* [page, arg] of the last NavigationEnd
    going,      \* a navigation under way, or None
    box,        \* SearchBoxComponent
    res,        \* the resource of the page: what it asks, its status, what it shows
    reviews,    \* the review list of the product page, likewise
    page,       \* signals of the page: its page number, flags, editor, dialog and requests
    title,      \* of the document: of a route, or of a product
    recent,     \* RecentlyViewedStore.ids
    published,  \* the API's reviews: how often each customer wrote its review of a product
    rating,     \* per product, the reviews its ratingAverage and ratingCount are of
    reviewer,   \* POST review requests, one at a time for each customer
    stale,      \* history: products whose last recalculation failed or came late
    left        \* what is left of the budget: texts, navigations, reviews

vars == <<url, going, box, res, reviews, page, title, recent, published, rating, reviewer, stale, left>>
server == <<published, rating, reviewer, stale>>
routing == <<url, going, left>>
view == <<res, reviews, page, title, recent>>

Home == [page |-> "home", arg |-> None]
Routes == {Home} \cup {[page |-> "list", arg |-> t] : t \in Texts}
                 \cup {[page |-> "detail", arg |-> p] : p \in Products}
                 \cup {[page |-> n, arg |-> None] : n \in {"orders", "order", "seller", "products", "coupons", "settings"}}

\* A request of a page, and the page number of its list.
Ask(what, n) == [asks |-> <<what, n>>, status |-> "loading", shows |-> None]
Idle == [asks |-> None, status |-> "idle", shows |-> None]
FreshPage == [number |-> 1, adding |-> "no", editing |-> None, image |-> "none", saving |-> None,
              dialog |-> None, requests |-> {}]

NoReviews == [c \in Customers |-> 0]

EmptyBox == [text |-> "", typed |-> None, last |-> None, lookups |-> {}, shows |-> None]

Init ==
    /\ url = [page |-> None, arg |-> None] /\ going \in Routes /\ left \in Budgets
    /\ box = EmptyBox
    /\ res = Idle /\ reviews = Idle /\ page = FreshPage /\ recent = << >>
    /\ title = <<"route", None>>
    /\ published = [p \in Products |-> NoReviews] /\ rating = published /\ stale = {}
    /\ reviewer = [c \in Customers |-> [pc |-> "idle", product |-> None, stats |-> NoReviews, late |-> FALSE]]

-----------------------------------------------------------------------------
(* SearchBoxComponent                                                        *)

\* valueChanges, into debounceTime.
Type(t) ==
    /\ t # box.text /\ left.types > 0
    /\ left' = [left EXCEPT !.types = @ - 1]
    /\ box' = [box EXCEPT !.text = t, !.typed = t]
    /\ UNCHANGED <<url, going, view, server>>

\* Mutant: mergeMap for switchMap, the older lookups go on.
LookUpAlso(q) == box.lookups \cup {q}

\* switchMap: the running lookup is dropped for the new one, if q is long enough.
LookUp(q) == IF q \in Short THEN {} ELSE {q}

\* The debounce timer, distinctUntilChanged, then a lookup or of([]).
Debounce ==
    LET q == box.typed
    IN  /\ q # None
        /\ box' = IF q = box.last THEN [box EXCEPT !.typed = None]
                  ELSE [box EXCEPT !.typed = None, !.last = q, !.lookups = LookUp(q),
                                   !.shows = IF q \in Short THEN None ELSE @]
        /\ UNCHANGED <<routing, view, server>>

\* The suggestions arrive, or the catchError for them.
Suggest(q) ==
    /\ q \in box.lookups
    /\ \E found \in {q, None} : box' = [box EXCEPT !.lookups = @ \ {q}, !.shows = found]
    /\ UNCHANGED <<routing, view, server>>

\* router.navigate; a navigation under way is given up for the new one.
Navigate(to) ==
    /\ left.moves > 0
    /\ going' = to /\ left' = [left EXCEPT !.moves = @ - 1]

\* submit
SubmitSearch ==
    /\ Navigate([page |-> "list", arg |-> box.text])
    /\ box' = [box EXCEPT !.shows = None]
    /\ UNCHANGED <<url, view, server>>

\* open: a suggestion is picked.
OpenSuggestion(p) ==
    /\ box.shows # None
    /\ Navigate([page |-> "detail", arg |-> p])
    /\ box' = [box EXCEPT !.text = "", !.shows = None]
    /\ UNCHANGED <<url, view, server>>

-----------------------------------------------------------------------------
(* The router and the pages' resources                                       *)

Follow(to) ==
    /\ to # url
    /\ Navigate(to)
    /\ UNCHANGED <<url, box, view, server>>

\* record: the product opened last comes first, once.
Record(id) == LET all == <<id>> \o SelectSeq(recent, LAMBDA p : p # id)
              IN  SubSeq(all, 1, IF Len(all) > MaxRecent THEN MaxRecent ELSE Len(all))

\* Mutant: the routes of products have no title of their own.
RouteTitleKept(to) == IF to.page = "detail" THEN title ELSE <<"route", to.page>>

\* updateTitle, of every navigation.
RouteTitle(to) == <<"route", to.page>>

\* syncFromUrl, without an event: nothing is looked up.
SyncFromUrl(to) == box' = [box EXCEPT !.text = IF to.page = "list" THEN to.arg ELSE ""]

\* NavigationEnd. Another page is another component; the same page with another
\* argument keeps its signals and asks anew.
Arrive ==
    LET same == going.page = url.page
    IN  /\ going # None
        /\ url' = going /\ going' = None
        /\ SyncFromUrl(going)
        /\ page' = IF same THEN page ELSE FreshPage
        /\ res' = IF going = url THEN res ELSE Ask(going, page'.number)
        /\ reviews' = IF going = url THEN reviews
                      ELSE IF going.page = "detail" THEN Ask(going, page'.number) ELSE Idle
        /\ title' = IF going = url THEN title ELSE RouteTitle(going)
        /\ recent' = IF going.page = "detail" /\ going # url THEN Record(going.arg) ELSE recent
        /\ UNCHANGED <<left, server>>

Loading(r) == r.status \in {"loading", "reloading"}
\* Resource.reload keeps what is shown.
Reload(r) == IF Loading(r) THEN r ELSE [r EXCEPT !.status = "reloading"]
Answered(r) == {[r EXCEPT !.status = "ready", !.shows = r.asks], [r EXCEPT !.status = "error", !.shows = None]}

\* setPageMeta
ProductTitle(p) == <<"product", p>>

\* The answer of the page's resource, or its error; the effect of the product
\* page sets the product's title (setPageMeta).
LoadPage ==
    /\ Loading(res)
    /\ res' \in Answered(res)
    /\ title' = IF url.page = "detail" /\ res'.shows # None THEN ProductTitle(url.arg) ELSE title
    /\ UNCHANGED <<routing, box, reviews, page, recent, server>>

LoadReviews ==
    /\ Loading(reviews)
    /\ reviews' \in Answered(reviews)
    /\ UNCHANGED <<routing, box, res, page, title, recent, server>>

\* "Try again" of app-async-state, and of a rail of the home page.
Retry ==
    /\ res.status = "error"
    /\ res' = Reload(res)
    /\ UNCHANGED <<routing, box, reviews, page, title, recent, server>>

\* changePage of the tables: the resource is keyed on the page number.
ChangePage(n) ==
    /\ url.page \in {"orders", "products", "coupons"} /\ n # page.number
    /\ page' = [page EXCEPT !.number = n]
    /\ res' = Ask(url, n)
    /\ UNCHANGED <<routing, box, reviews, title, recent, server>>

\* applySearch of the products, whatever is searched for.
ApplySearch ==
    /\ url.page = "products"
    /\ page' = [page EXCEPT !.number = 1]
    /\ res' = Ask(url, 1)
    /\ UNCHANGED <<routing, box, reviews, title, recent, server>>

\* changeReviewPage
ChangeReviewPage(n) ==
    /\ url.page = "detail" /\ res.shows # None /\ n # page.number
    /\ page' = [page EXCEPT !.number = n]
    /\ reviews' = Ask(url, n)
    /\ UNCHANGED <<routing, box, res, title, recent, server>>

-----------------------------------------------------------------------------
(* The buttons of the product page                                           *)

\* addToCart and buyNow of the product page, disabled while adding.
AddToCart(button) ==
    /\ url.page = "detail" /\ res.shows # None /\ page.adding = "no"
    /\ page' = [page EXCEPT !.adding = button]
    /\ UNCHANGED <<routing, box, res, reviews, title, recent, server>>

\* Mutant: complete is not handled when nothing was added.
AddEndsIfAdded ==
    /\ page.adding # "no"
    /\ \E added \in BOOLEAN :
         /\ page' = IF added THEN [page EXCEPT !.adding = "no"] ELSE page
         /\ IF added /\ page.adding = "buy" THEN Navigate(Home) ELSE UNCHANGED <<going, left>>
    /\ UNCHANGED <<url, box, res, reviews, title, recent, server>>

\* next, when it was added: buyNow goes to the checkout (here: some other page).
\* complete, always, since CartActions turns an error into EMPTY.
AddEnds ==
    /\ page.adding # "no"
    /\ page' = [page EXCEPT !.adding = "no"]
    /\ \E added \in BOOLEAN :
         IF added /\ page.adding = "buy" /\ left.moves > 0 THEN Navigate(Home) ELSE UNCHANGED <<going, left>>
    /\ UNCHANGED <<url, box, res, reviews, title, recent, server>>

-----------------------------------------------------------------------------
(* The editors: the product form, the coupons' form and the store's settings  *)

Unchanged == UNCHANGED <<routing, box, reviews, title, recent, server>>
Editing(x) == page' = [page EXCEPT !.editing = x]

\* editing.set of the products. ProductFormComponent is made when none was open
\* ("new" only then); its effect fills it in for a product, the image stays.
EditProduct(x) ==
    /\ url.page = "products" /\ res.shows # None /\ page.editing # x
    /\ x = "new" => page.editing = None
    /\ page' = [page EXCEPT !.editing = x, !.image = IF page.editing = None THEN "none" ELSE @]
    /\ UNCHANGED res /\ Unchanged

\* cancelled: the form goes, its flag and what its request would do with it.
CloseProduct ==
    /\ url.page = "products" /\ page.editing # None
    /\ page' = [page EXCEPT !.editing = None, !.saving = None]
    /\ UNCHANGED res /\ Unchanged

\* pickImage: a file, or fileError for a bad one.
PickImage ==
    /\ url.page = "products" /\ page.editing # None
    /\ \E image \in {"picked", "bad"} : page' = [page EXCEPT !.image = image]
    /\ UNCHANGED res /\ Unchanged

\* submit: nothing while a request runs or with fileError, which a new product
\* without an image gets here.
SubmitProduct ==
    /\ url.page = "products" /\ page.editing # None /\ page.saving = None /\ page.image # "bad"
    /\ page' = IF page.editing = "new" /\ page.image = "none" THEN [page EXCEPT !.image = "bad"]
               ELSE [page EXCEPT !.saving = page.editing]
    /\ UNCHANGED res /\ Unchanged

\* open of the coupons ("new" while none is open), and Cancel, which leaves the request.
EditCoupon(x) ==
    /\ url.page = "coupons" /\ res.shows # None /\ page.editing # x
    /\ x = "new" => page.editing = None
    /\ Editing(x)
    /\ UNCHANGED res /\ Unchanged

CloseCoupon ==
    /\ url.page = "coupons" /\ page.editing # None
    /\ Editing(None)
    /\ UNCHANGED res /\ Unchanged

SaveCoupon ==
    /\ url.page = "coupons" /\ page.editing # None /\ page.saving = None
    /\ page' = [page EXCEPT !.saving = page.editing]
    /\ UNCHANGED res /\ Unchanged

\* next: the editor that is open closes and the list is reloaded (saved, and save
\* of the coupons); error: the form shows it.
EditorAnswered ==
    /\ url.page \in {"products", "coupons"} /\ page.saving # None
    /\ \/ page' = [page EXCEPT !.saving = None, !.editing = None] /\ res' = Reload(res)
       \/ page' = [page EXCEPT !.saving = None] /\ UNCHANGED res
    /\ Unchanged

\* save of the settings, whose form is filled when they are loaded.
SaveSettings ==
    /\ url.page = "settings" /\ res.shows # None /\ page.saving = None
    /\ page' = [page EXCEPT !.saving = "settings"]
    /\ UNCHANGED res /\ Unchanged

\* Resource.set with the answer.
Set(r) == [r EXCEPT !.status = "ready", !.shows = r.asks]

SettingsAnswered ==
    /\ url.page = "settings" /\ page.saving # None
    /\ page' = [page EXCEPT !.saving = None]
    /\ res' \in {res, Set(res)}
    /\ Unchanged

-----------------------------------------------------------------------------
(* The dialogs: a shipment, the reason of an order's change, a confirmation   *)

Open(dialog) ==
    /\ res.shows # None
    /\ page' = [page EXCEPT !.dialog = dialog]
    /\ UNCHANGED res /\ Unchanged

\* ship of the orders and of the seller's dashboard, for an order canShip allows.
OpenShipment == url.page \in {"orders", "seller"} /\ Open("ship")

\* cancel and requestRefund of an order whose state allows them.
AskReason(change) == url.page = "order" /\ Open(change)

\* remove of a product.
AskRemove(x) == url.page = "products" /\ Open(x)

\* Dismissed; the flag of a shipment goes with its dialog.
CloseDialog ==
    /\ page.dialog # None
    /\ page' = [page EXCEPT !.dialog = None, !.saving = IF page.dialog = "ship" THEN None ELSE @]
    /\ UNCHANGED res /\ Unchanged

\* confirm, with a reason that is not blank: the dialog closes, and the request
\* begins (afterClosed, filter, switchMap).
Confirm ==
    /\ page.dialog \notin {None, "ship"}
    /\ page' = [page EXCEPT !.dialog = None, !.requests = @ \cup {page.dialog}]
    /\ UNCHANGED res /\ Unchanged

\* The answer of withReason: the order it changed, or an error and a reload.
OrderAnswered(change) ==
    /\ url.page = "order" /\ change \in page.requests
    /\ page' = [page EXCEPT !.requests = @ \ {change}]
    /\ res' \in {Set(res), Reload(res)}
    /\ Unchanged

\* The answer of remove: the list is reloaded, or the error is not handled.
RemoveAnswered(x) ==
    /\ url.page = "products" /\ x \in page.requests
    /\ page' = [page EXCEPT !.requests = @ \ {x}]
    /\ res' \in {Reload(res), res}
    /\ Unchanged

\* save of ShipmentDialogComponent.
SaveShipment ==
    /\ page.dialog = "ship" /\ page.saving = None
    /\ page' = [page EXCEPT !.saving = "ship"]
    /\ UNCHANGED res /\ Unchanged

\* next closes the dialog with the shipment, and the list is reloaded.
ShipmentAnswered ==
    /\ page.dialog = "ship" /\ page.saving # None
    /\ \/ page' = [page EXCEPT !.saving = None, !.dialog = None] /\ res' = Reload(res)
       \/ page' = [page EXCEPT !.saving = None] /\ UNCHANGED res
    /\ Unchanged

SaveEnds == EditorAnswered \/ SettingsAnswered \/ ShipmentAnswered

-----------------------------------------------------------------------------
(* submitReview and ReviewController.create                                  *)

Reviewing(c, pc) == [reviewer EXCEPT ![c].pc = pc]
Others(p, c) == {d \in Customers \ {c} : reviewer[d].pc = "aggregated" /\ reviewer[d].product = p}

\* The request; the shopper's comes from the form of the product page.
PostReview(c, p) ==
    /\ reviewer[c].pc = "idle" /\ left.posts > 0
    /\ left' = [left EXCEPT !.posts = @ - 1]
    /\ c = Me => /\ url = [page |-> "detail", arg |-> p] /\ res.shows # None /\ page.saving = None
                 /\ page' = [page EXCEPT !.saving = "review"]
    /\ c # Me => UNCHANGED page
    /\ reviewer' = [reviewer EXCEPT ![c] = [pc |-> "posted", product |-> p, stats |-> NoReviews, late |-> FALSE]]
    /\ UNCHANGED <<url, going, box, res, reviews, title, recent, published, rating, stale>>

\* The product exists and was bought: findOneAndUpdate writes the review, over the
\* one this customer wrote before.
WriteReview(c) ==
    /\ reviewer[c].pc = "posted"
    /\ published' = [published EXCEPT ![reviewer[c].product][c] = @ + 1]
    /\ reviewer' = Reviewing(c, "written")
    /\ UNCHANGED <<routing, box, view, rating, stale>>

\* 404, 403, or the unique index (400): nothing is written.
RefuseReview(c) ==
    /\ reviewer[c].pc = "posted"
    /\ reviewer' = Reviewing(c, "refused")
    /\ UNCHANGED <<routing, box, view, published, rating, stale>>

\* Mutant: the aggregate is taken before the review is written.
CountedBefore(c, p) == [published[p] EXCEPT ![c] = @ - 1]

\* The $match and $group of recalculateRating.
Counted(c, p) == published[p]

Aggregate(c) ==
    /\ reviewer[c].pc = "written"
    /\ reviewer' = [reviewer EXCEPT ![c].pc = "aggregated", ![c].stats = Counted(c, reviewer[c].product)]
    /\ UNCHANGED <<routing, box, view, published, rating, stale>>

\* The $set, whatever was set since the aggregate.
SetRating(c) ==
    LET p == reviewer[c].product
    IN  /\ reviewer[c].pc = "aggregated"
        /\ rating' = [rating EXCEPT ![p] = reviewer[c].stats]
        /\ stale' = IF reviewer[c].late THEN stale \cup {p} ELSE stale \ {p}
        /\ reviewer' = [d \in Customers |-> IF d = c THEN [reviewer[d] EXCEPT !.pc = "saved"]
                                            ELSE [reviewer[d] EXCEPT !.late = @ \/ d \in Others(p, c)]]
        /\ UNCHANGED <<routing, box, view, published>>

\* A query of recalculateRating throws: the review stays, the answer is an error.
FailRating(c) ==
    LET p == reviewer[c].product
    IN  /\ reviewer[c].pc \in {"written", "aggregated"}
        /\ stale' = stale \cup {p}
        /\ reviewer' = [d \in Customers |-> IF d = c THEN [reviewer[d] EXCEPT !.pc = "refused"]
                                            ELSE [reviewer[d] EXCEPT !.late = @ \/ d \in Others(p, c)]]
        /\ UNCHANGED <<routing, box, view, published, rating>>

\* The answer reaches the product page, if the shopper is still on one: next
\* goes back to the first page of reviews and reloads them and the product that
\* is open now; error shows the message.
ReviewAnswered(c) ==
    LET here == c = Me /\ url.page = "detail" /\ page.saving = "review"
    IN  /\ reviewer[c].pc \in {"saved", "refused"}
        /\ reviewer' = [reviewer EXCEPT ![c] = [pc |-> "idle", product |-> None, stats |-> NoReviews, late |-> FALSE]]
        /\ page' = IF here THEN [page EXCEPT !.saving = None,
                                             !.number = IF reviewer[c].pc = "saved" THEN 1 ELSE @] ELSE page
        /\ IF here /\ reviewer[c].pc = "saved"
           THEN /\ res' = Reload(res)
                /\ reviews' = IF page.number = 1 THEN Reload(reviews) ELSE Ask(url, 1)
           ELSE UNCHANGED <<res, reviews>>
        /\ UNCHANGED <<routing, box, title, recent, published, rating, stale>>

-----------------------------------------------------------------------------
\* A dialog covers the page; a navigation closes it.
UserStep ==
    \/ /\ page.dialog = None
       /\ \/ \E t \in Texts : Type(t)
          \/ SubmitSearch
          \/ \E p \in Products : OpenSuggestion(p)
          \/ Retry \/ ApplySearch
          \/ \E n \in {1, 2} : ChangePage(n) \/ ChangeReviewPage(n)
          \/ \E button \in {"add", "buy"} : AddToCart(button)
          \/ \E x \in Items \cup {"new"} : EditProduct(x) \/ EditCoupon(x)
          \/ CloseProduct \/ PickImage \/ SubmitProduct
          \/ CloseCoupon \/ SaveCoupon \/ SaveSettings
          \/ OpenShipment
          \/ \E change \in {"cancel", "refund"} : AskReason(change)
          \/ \E x \in Items : AskRemove(x)
    \/ CloseDialog \/ Confirm \/ SaveShipment
    \/ \E to \in Routes : Follow(to)

ReviewStep(c) ==
    WriteReview(c) \/ RefuseReview(c) \/ Aggregate(c) \/ SetRating(c) \/ FailRating(c) \/ ReviewAnswered(c)

Answer ==
    \/ Debounce
    \/ \E q \in Texts : Suggest(q)
    \/ Arrive \/ LoadPage \/ LoadReviews \/ AddEnds \/ SaveEnds
    \/ \E what \in page.requests : OrderAnswered(what) \/ RemoveAnswered(what)
    \/ \E c \in Customers : ReviewStep(c)

Next == UserStep \/ Answer \/ \E c \in Customers, p \in Products : PostReview(c, p)

\* Every request is answered (the browser ends it with an error at the latest).
Fairness == /\ WF_vars(AddEnds) /\ WF_vars(SaveEnds)
            /\ \A c \in Customers : WF_vars(ReviewStep(c))
PagesSpec == Init /\ [][Next]_vars
FairPagesSpec == PagesSpec /\ Fairness

-----------------------------------------------------------------------------
\* When no lookup runs, the suggestions are those of the text typed last: an
\* answer to an older text never replaces them (switchMap).
SuggestionsAreLatest == box.lookups = {} => box.shows \in {None, box.last}

\* A button that waits for an answer works again, whatever the answer, and the
\* next add or save is possible.
ButtonsComeBack == (page.saving # None \/ page.adding # "no") ~> (page.saving = None /\ page.adding = "no")

\* The title names the product that is shown, and a product only on its own page,
\* whichever of the navigation and the answer comes last (AppTitleStrategy).
TitleNamesThePage ==
    /\ url.page = "detail" /\ res.shows # None => title = <<"product", url.arg>>
    /\ title[1] = "product" => url = [page |-> "detail", arg |-> title[2]]

\* When no review of a product is being handled its rating is that of every review
\* of it, as it was written last, unless the last recalculation failed or set what it had read before
\* another one (recalculateRating).
RatingCountsReviews ==
    \A p \in Products \ stale :
        (\A c \in Customers : reviewer[c].pc \in {"idle", "posted", "saved", "refused"} \/ reviewer[c].product # p)
            => rating[p] = published[p]
=============================================================================
