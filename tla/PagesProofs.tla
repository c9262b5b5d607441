----------------------------- MODULE PagesProofs -----------------------------
(***************************************************************************)
(* Proofs about Pages for any customers, products, texts and navigations.  *)
(* Of the tab, PlaceInv says where it is and which lookup is under way,    *)
(* ViewInv that what is asked and shown is of the page that is open; the   *)
(* title and the waiting flags follow from them.  Of the API, RatingInv    *)
(* says which reviews a rating, or a recalculation that has read, misses.  *)
(***************************************************************************)
EXTENDS Pages, TLAPS

-----------------------------------------------------------------------------
(* The steps, and what they leave alone *)

Searches ==
  \/ \E t \in Texts : Type(t)
  \/ \E t \in Texts : Suggest(t)
  \/ Debounce
  \/ SubmitSearch
  \/ \E p \in Products : OpenSuggestion(p)

\* Lists, buttons, editors and dialogs of the page that is open.
OnLists ==
  \/ Retry
  \/ ApplySearch
  \/ LoadReviews
  \/ \E n \in {1, 2} : ChangePage(n)
  \/ \E n \in {1, 2} : ChangeReviewPage(n)
  \/ \E button \in {"add", "buy"} : AddToCart(button)

OnEditors ==
  \/ \E x \in Items \cup {"new"} : EditProduct(x)
  \/ \E x \in Items \cup {"new"} : EditCoupon(x)
  \/ CloseProduct
  \/ PickImage
  \/ SubmitProduct
  \/ CloseCoupon
  \/ SaveCoupon
  \/ SaveSettings
  \/ EditorAnswered
  \/ SettingsAnswered

Opens ==
  /\ page.dialog = None
  /\ \/ OpenShipment
     \/ \E change \in {"cancel", "refund"} : AskReason(change)
     \/ \E x \in Items : AskRemove(x)

OnDialogs ==
  \/ Opens
  \/ CloseDialog
  \/ Confirm
  \/ SaveShipment
  \/ ShipmentAnswered
  \/ \E what \in page.requests : OrderAnswered(what)
  \/ \E what \in page.requests : RemoveAnswered(what)

OnPage == OnLists \/ OnEditors \/ OnDialogs

LEMMA Steps ==
  ASSUME Next
  PROVE  \/ Searches
         \/ OnPage
         \/ LoadPage
         \/ AddEnds
         \/ Arrive
         \/ \E to \in Routes : Follow(to)
         \/ \E c \in Customers : ReviewStep(c)
         \/ \E c \in Customers, p \in Products : PostReview(c, p)
<1>1. CASE UserStep
  <2>1. CASE page.dialog = None
    BY <1>1, <2>1 DEF UserStep, Searches, OnPage, OnLists, OnEditors, OnDialogs, Opens
  <2>2. CASE page.dialog # None
    BY <1>1, <2>2 DEF UserStep, OnPage, OnDialogs
  <2> QED BY <2>1, <2>2
<1>2. CASE Answer
  BY <1>2 DEF Answer, SaveEnds, Searches, OnPage, OnLists, OnEditors, OnDialogs
<1>3. CASE \E c \in Customers, p \in Products : PostReview(c, p)
  BY <1>3
<1> QED BY <1>1, <1>2, <1>3 DEF Next

LEMMA OnPageKeeps ==
  ASSUME OnPage
  PROVE  UNCHANGED <<url, going, left, box, title, recent, server>>
<1>1. CASE OnLists
  BY <1>1 DEF OnLists, Retry, ApplySearch, LoadReviews, ChangePage, ChangeReviewPage, AddToCart, routing
<1>2. CASE OnEditors
  BY <1>2 DEF OnEditors, EditProduct, EditCoupon, CloseProduct, PickImage, SubmitProduct, CloseCoupon, SaveCoupon,
         SaveSettings, EditorAnswered, SettingsAnswered, Unchanged, routing
<1>3. CASE OnDialogs
  BY <1>3 DEF OnDialogs, Opens, OpenShipment, AskReason, AskRemove, Open, CloseDialog, Confirm, SaveShipment,
         ShipmentAnswered, OrderAnswered, RemoveAnswered, Unchanged, routing
<1> QED BY <1>1, <1>2, <1>3 DEF OnPage

LEMMA ReviewKeeps ==
  ASSUME NEW c, ReviewStep(c)
  PROVE  UNCHANGED <<url, going, left, box, title, recent>>
BY DEF ReviewStep, WriteReview, RefuseReview, Aggregate, SetRating, FailRating, ReviewAnswered, routing, view

-----------------------------------------------------------------------------
(* The router *)

NoUrl == [page |-> None, arg |-> None]
Lefts == [types : Nat, moves : Nat, posts : Nat]

Routing ==
  /\ url \in Routes \cup {NoUrl}
  /\ going \in Routes \cup {None}
  /\ left \in Lefts

LEMMA Navigates ==
  ASSUME Routing, NEW to \in Routes, Navigate(to), UNCHANGED url
  PROVE  Routing'
BY DEF Routing, Navigate, Lefts

\* The search box: at most the lookup of the text that was sent last is under way.
Boxes == [text : Texts, typed : Texts \cup {None}, last : Texts \cup {None},
          lookups : SUBSET Texts, shows : Texts \cup {None}]

BoxInv ==
  /\ box \in Boxes
  /\ box.lookups \subseteq {box.last}
  /\ box.lookups = {} => box.shows \in {None, box.last}

PlaceInv == Routing /\ BoxInv

LEMMA SearchesStep ==
  ASSUME PlaceInv, Searches
  PROVE  PlaceInv'
<1> USE DEF PlaceInv
<1>1. CASE \E t \in Texts : Type(t)
  <2>1. Routing'
    BY <1>1 DEF Type, Routing, Lefts
  <2>2. BoxInv'
    BY <1>1 DEF Type, BoxInv, Boxes
  <2> QED BY <2>1, <2>2
<1>2. ASSUME NEW t \in Texts, Suggest(t) PROVE PlaceInv'
  <2>1. PICK found \in {t, None} : box' = [box EXCEPT !.lookups = @ \ {t}, !.shows = found]
    BY <1>2 DEF Suggest
  <2>2. /\ box'.lookups = box.lookups \ {t} /\ box'.shows = found /\ box'.last = box.last
        /\ box' \in Boxes
    BY <2>1 DEF BoxInv, Boxes
  <2>3. t \in box.lookups
    BY <1>2 DEF Suggest
  <2>4. BoxInv'
    BY <2>2, <2>3 DEF BoxInv
  <2> QED BY <1>2, <2>4 DEF Suggest, Routing, routing
<1>3. CASE Debounce
  <2>1. CASE box.typed = box.last
    BY <1>3, <2>1 DEF Debounce, Routing, routing, BoxInv, Boxes
  <2>2. CASE box.typed # box.last
    <3>1. /\ box' = [box EXCEPT !.typed = None, !.last = box.typed, !.lookups = LookUp(box.typed),
                              !.shows = IF box.typed \in Short THEN None ELSE @]
          /\ box.typed \in Texts
      BY <1>3, <2>2 DEF Debounce, BoxInv, Boxes
    <3>2. LookUp(box.typed) = IF box.typed \in Short THEN {} ELSE {box.typed}
      BY DEF LookUp
    <3>3. BoxInv'
      BY <3>1, <3>2 DEF BoxInv, Boxes
    <3> QED BY <1>3, <3>3 DEF Debounce, Routing, routing
  <2> QED BY <2>1, <2>2
<1>4. CASE SubmitSearch
  <2>1. [page |-> "list", arg |-> box.text] \in Routes
    BY DEF Routes, BoxInv, Boxes
  <2>2. Routing'
    BY <1>4, <2>1, Navigates DEF SubmitSearch
  <2>3. BoxInv'
    BY <1>4 DEF SubmitSearch, BoxInv, Boxes
  <2> QED BY <2>2, <2>3
<1>5. ASSUME NEW p \in Products, OpenSuggestion(p) PROVE PlaceInv'
  <2>1. [page |-> "detail", arg |-> p] \in Routes
    BY DEF Routes
  <2>2. Routing'
    BY <1>5, <2>1, Navigates DEF OpenSuggestion
  <2>3. BoxInv'
    BY <1>5, PagesAssumption DEF OpenSuggestion, BoxInv, Boxes
  <2> QED BY <2>2, <2>3
<1> QED BY <1>1, <1>2, <1>3, <1>4, <1>5 DEF Searches

LEMMA ArrivePlace ==
  ASSUME PlaceInv, Arrive
  PROVE  PlaceInv'
<1>1. going \in Routes /\ box' = [box EXCEPT !.text = IF going.page = "list" THEN going.arg ELSE ""]
  BY DEF Arrive, SyncFromUrl, PlaceInv, Routing
<1>2. going.page = "list" => going.arg \in Texts
  BY <1>1 DEF Routes, Home
<1>3. BoxInv'
  BY <1>1, <1>2, PagesAssumption DEF PlaceInv, BoxInv, Boxes
<1>4. Routing'
  BY <1>1 DEF Arrive, PlaceInv, Routing
<1> QED BY <1>3, <1>4 DEF PlaceInv

LEMMA PlaceStep == PlaceInv /\ [Next]_vars => PlaceInv'
<1> SUFFICES ASSUME PlaceInv, [Next]_vars PROVE PlaceInv'
  OBVIOUS
<1> USE DEF PlaceInv
<1>1. CASE Searches
  BY <1>1, SearchesStep
<1>2. CASE OnPage
  BY <1>2, OnPageKeeps DEF Routing, BoxInv
<1>3. CASE LoadPage
  BY <1>3 DEF LoadPage, Routing, routing, BoxInv
<1>4. CASE AddEnds
  <2>1. Home \in Routes
    BY DEF Routes
  <2> QED BY <1>4, <2>1, Navigates DEF AddEnds, Routing, BoxInv
<1>5. CASE Arrive
  BY <1>5, ArrivePlace
<1>6. CASE \E to \in Routes : Follow(to)
  BY <1>6, Navigates DEF Follow, BoxInv
<1>7. CASE \E c \in Customers : ReviewStep(c)
  BY <1>7, ReviewKeeps DEF Routing, BoxInv
<1>8. CASE \E c \in Customers, p \in Products : PostReview(c, p)
  BY <1>8 DEF PostReview, Routing, Lefts, BoxInv
<1>9. CASE UNCHANGED vars
  BY <1>9 DEF vars, routing, Routing, BoxInv
<1> QED BY <1>1, <1>2, <1>3, <1>4, <1>5, <1>6, <1>7, <1>8, <1>9, Steps

THEOREM PlaceIsKept == PagesSpec => []PlaceInv
<1>1. Init => PlaceInv
  <2> SUFFICES ASSUME Init PROVE PlaceInv
    OBVIOUS
  <2>1. Routing
    BY PagesAssumption DEF Init, Routing, NoUrl, Lefts
  <2>2. BoxInv
    BY PagesAssumption DEF Init, BoxInv, Boxes, EmptyBox
  <2> QED BY <2>1, <2>2 DEF PlaceInv
<1> QED BY <1>1, PlaceStep, PTL DEF PagesSpec

\* The suggestions that stay are those of the text typed last: switchMap leaves no
\* older lookup whose answer could replace them.
THEOREM SuggestsTheLatest == PagesSpec => []SuggestionsAreLatest
<1>1. PlaceInv => SuggestionsAreLatest
  BY DEF PlaceInv, BoxInv, SuggestionsAreLatest
<1> QED BY <1>1, PlaceIsKept, PTL

-----------------------------------------------------------------------------
(* The ratings *)

Written == [Customers -> Nat]
Reviewers == [pc : {"idle", "posted", "written", "aggregated", "saved", "refused"},
              product : Products \cup {None}, stats : Written, late : BOOLEAN]

RatingTypes ==
  /\ published \in [Products -> Written]
  /\ rating \in [Products -> Written]
  /\ reviewer \in [Customers -> Reviewers]
  /\ \A c \in Customers : reviewer[c].pc # "idle" => reviewer[c].product \in Products

\* The review of d is written, its recalculation is not.
InProgress(d, p) == reviewer[d].pc \in {"written", "aggregated"} /\ reviewer[d].product = p

\* What c has read: its own review, and unless another recalculation was written
\* since, all but those still in progress.
HasRead(c, p) ==
  reviewer[c].pc = "aggregated" /\ reviewer[c].product = p =>
    /\ reviewer[c].stats[c] = published[p][c]
    /\ ~reviewer[c].late => \A d \in Customers : reviewer[c].stats[d] = published[p][d] \/ InProgress(d, p)

\* Unless it is stale, a rating misses only reviews that are in progress.
Counts(p) == p \notin stale => \A d \in Customers : rating[p][d] = published[p][d] \/ InProgress(d, p)

RatingInv ==
  /\ RatingTypes
  /\ \A c \in Customers, p \in Products : HasRead(c, p)
  /\ \A p \in Products : Counts(p)

Ratings == <<published, rating, reviewer, stale>>

LEMMA RatingUnchanged ==
  ASSUME RatingInv, UNCHANGED Ratings
  PROVE  RatingInv'
BY DEF RatingInv, RatingTypes, Ratings, InProgress, HasRead, Counts

\* A request of c goes on without a write: it reads, or none of it is left to write.
LEMMA OnlyOne ==
  ASSUME RatingInv, NEW c \in Customers, UNCHANGED <<published, rating, stale>>,
         reviewer' \in [Customers -> Reviewers],
         \A d \in Customers \ {c} : reviewer'[d] = reviewer[d],
         reviewer'[c].pc # "idle" => reviewer'[c].product \in Products,
         \A q \in Products : InProgress(c, q)' <=> InProgress(c, q),
         \A q \in Products : HasRead(c, q)'
  PROVE  RatingInv'
<1>1. RatingTypes'
  BY DEF RatingInv, RatingTypes
<1>2. \A d \in Customers, q \in Products : InProgress(d, q)' <=> InProgress(d, q)
  BY DEF InProgress
<1>3. \A d \in Customers \ {c}, q \in Products : HasRead(d, q)'
  BY <1>2 DEF RatingInv, HasRead
<1>4. \A q \in Products : Counts(q)'
  BY <1>2 DEF RatingInv, Counts
<1> QED BY <1>1, <1>3, <1>4 DEF RatingInv

LEMMA ReviewerTypes ==
  ASSUME RatingInv
  PROVE  /\ reviewer \in [Customers -> Reviewers]
         /\ \A c \in Customers : /\ reviewer[c] \in Reviewers
                                 /\ reviewer[c].pc # "idle" => reviewer[c].product \in Products
  BY DEF RatingInv, RatingTypes

LEMMA NoReviewsType == NoReviews \in Written
  BY DEF NoReviews, Written

LEMMA PostReviewRating ==
  ASSUME RatingInv, NEW c \in Customers, NEW p \in Products, PostReview(c, p)
  PROVE  RatingInv'
<1> DEFINE post == [pc |-> "posted", product |-> p, stats |-> NoReviews, late |-> FALSE]
<1>1. /\ reviewer' = [reviewer EXCEPT ![c] = post] /\ reviewer[c].pc = "idle"
      /\ UNCHANGED <<published, rating, stale>>
  BY DEF PostReview
<1>2. post \in Reviewers /\ post.pc = "posted" /\ post.product = p
  BY NoReviewsType DEF Reviewers
<1> HIDE DEF post
<1>3. /\ reviewer' \in [Customers -> Reviewers] /\ reviewer'[c] = post
      /\ \A d \in Customers \ {c} : reviewer'[d] = reviewer[d]
  BY <1>1, <1>2, ReviewerTypes
<1>4. \A q \in Products : (InProgress(c, q)' <=> InProgress(c, q)) /\ HasRead(c, q)'
  BY <1>1, <1>2, <1>3 DEF InProgress, HasRead
<1> QED BY <1>1, <1>2, <1>3, <1>4, OnlyOne

\* A request that has no recalculation to write: refused, or answered.
LEMMA EndsRating ==
  ASSUME RatingInv, NEW c \in Customers, RefuseReview(c) \/ ReviewAnswered(c)
  PROVE  RatingInv'
<1> DEFINE none == [pc |-> "idle", product |-> None, stats |-> NoReviews, late |-> FALSE]
<1>1. /\ reviewer[c].pc \in {"posted", "saved", "refused"} /\ UNCHANGED <<published, rating, stale>>
      /\ \/ reviewer' = [reviewer EXCEPT ![c].pc = "refused"]
         \/ reviewer' = [reviewer EXCEPT ![c] = none]
  BY DEF RefuseReview, ReviewAnswered, Reviewing
<1>2. none \in Reviewers /\ none.pc = "idle"
  BY NoReviewsType DEF Reviewers
<1> HIDE DEF none
<1>3. /\ reviewer' \in [Customers -> Reviewers]
      /\ \A d \in Customers \ {c} : reviewer'[d] = reviewer[d]
      /\ reviewer'[c].pc \in {"refused", "idle"}
      /\ reviewer'[c].pc = "refused" => reviewer'[c].product = reviewer[c].product
  <2>1. CASE reviewer' = [reviewer EXCEPT ![c].pc = "refused"]
    BY <2>1, ReviewerTypes DEF Reviewers
  <2>2. CASE reviewer' = [reviewer EXCEPT ![c] = none]
    BY <1>2, <2>2, ReviewerTypes
  <2> QED BY <1>1, <2>1, <2>2
<1>4. \A q \in Products : (InProgress(c, q)' <=> InProgress(c, q)) /\ HasRead(c, q)'
  BY <1>1, <1>3 DEF InProgress, HasRead
<1>5. reviewer'[c].pc # "idle" => reviewer'[c].product \in Products
  BY <1>1, <1>3, ReviewerTypes
<1> QED BY <1>1, <1>3, <1>4, <1>5, OnlyOne

LEMMA AggregateRating ==
  ASSUME RatingInv, NEW c \in Customers, Aggregate(c)
  PROVE  RatingInv'
<1>1. PICK p \in Products : p = reviewer[c].product
  BY ReviewerTypes DEF Aggregate
<1>2. /\ reviewer' = [reviewer EXCEPT ![c].pc = "aggregated", ![c].stats = published[p]]
      /\ reviewer[c].pc = "written" /\ UNCHANGED <<published, rating, stale>>
  BY <1>1 DEF Aggregate, Counted
<1>3. published[p] \in Written
  BY DEF RatingInv, RatingTypes
<1>4. /\ reviewer' \in [Customers -> Reviewers]
      /\ \A d \in Customers \ {c} : reviewer'[d] = reviewer[d]
      /\ reviewer'[c].pc = "aggregated" /\ reviewer'[c].product = p /\ reviewer'[c].stats = published[p]
  BY <1>1, <1>2, <1>3, ReviewerTypes DEF Reviewers
<1>5. \A q \in Products : InProgress(c, q)' <=> InProgress(c, q)
  BY <1>1, <1>2, <1>4 DEF InProgress
<1>6. \A q \in Products : HasRead(c, q)'
  BY <1>2, <1>4 DEF HasRead
<1> QED BY <1>2, <1>4, <1>5, <1>6, OnlyOne

LEMMA WriteReviewRating ==
  ASSUME RatingInv, NEW c \in Customers, WriteReview(c)
  PROVE  RatingInv'
<1>1. PICK p \in Products : p = reviewer[c].product
  BY ReviewerTypes DEF WriteReview
<1>2. /\ reviewer' = [reviewer EXCEPT ![c].pc = "written"]
      /\ published' = [published EXCEPT ![p][c] = @ + 1]
      /\ reviewer[c].pc = "posted" /\ UNCHANGED <<rating, stale>>
  BY <1>1 DEF WriteReview, Reviewing
<1>3. /\ published' \in [Products -> Written]
      /\ \A d \in Customers, q \in Products : d # c \/ q # p => published'[q][d] = published[q][d]
  BY <1>2 DEF RatingInv, RatingTypes, Written
<1>4. /\ reviewer' \in [Customers -> Reviewers]
      /\ \A d \in Customers \ {c} : reviewer'[d] = reviewer[d]
      /\ reviewer'[c].pc = "written" /\ reviewer'[c].product = p
  BY <1>1, <1>2, ReviewerTypes DEF Reviewers
<1>5. RatingTypes'
  BY <1>2, <1>3, <1>4 DEF RatingInv, RatingTypes
<1>6. \A d \in Customers, q \in Products : InProgress(d, q)' <=> (InProgress(d, q) \/ (d = c /\ q = p))
  BY <1>2, <1>4 DEF InProgress
<1>7. \A d \in Customers, q \in Products : HasRead(d, q)'
  BY <1>3, <1>4, <1>6 DEF RatingInv, HasRead
<1>8. \A q \in Products : Counts(q)'
  BY <1>2, <1>3, <1>6 DEF RatingInv, Counts
<1> QED BY <1>5, <1>7, <1>8 DEF RatingInv

\* A recalculation ends, written or not: the others that have read are late.
LEMMA LateOthers ==
  ASSUME RatingInv, NEW c \in Customers, NEW p \in Products, p = reviewer[c].product,
         NEW end \in {"saved", "refused"},
         reviewer' = [d \in Customers |-> IF d = c THEN [reviewer[d] EXCEPT !.pc = end]
                                          ELSE [reviewer[d] EXCEPT !.late = @ \/ d \in Others(p, c)]],
         UNCHANGED published
  PROVE  /\ reviewer' \in [Customers -> Reviewers]
         /\ \A d \in Customers : reviewer'[d].pc # "idle" => reviewer'[d].product \in Products
         /\ \A d \in Customers, q \in Products : InProgress(d, q)' <=> (d # c /\ InProgress(d, q))
         /\ \A d \in Customers, q \in Products : HasRead(d, q)'
<1>1. reviewer \in [Customers -> Reviewers]
  BY DEF RatingInv, RatingTypes
<1>2. \A d \in Customers : d \in Others(p, c) <=> (d # c /\ reviewer[d].pc = "aggregated" /\ reviewer[d].product = p)
  BY DEF Others
<1>3. ASSUME NEW d \in Customers, d # c
      PROVE  /\ reviewer'[d] \in Reviewers /\ reviewer'[d].pc = reviewer[d].pc
             /\ reviewer'[d].product = reviewer[d].product /\ reviewer'[d].stats = reviewer[d].stats
             /\ reviewer'[d].late = (reviewer[d].late \/ d \in Others(p, c))
  <2> DEFINE late == reviewer[d].late \/ d \in Others(p, c)
  <2>1. reviewer'[d] = [reviewer[d] EXCEPT !.late = late]
    BY <1>3
  <2>2. reviewer[d] \in Reviewers /\ late \in BOOLEAN
    BY <1>1
  <2> HIDE DEF late
  <2>3. reviewer'[d] \in Reviewers /\ reviewer'[d].late = late
    BY <2>1, <2>2 DEF Reviewers
  <2>4. /\ reviewer'[d].pc = reviewer[d].pc /\ reviewer'[d].product = reviewer[d].product
        /\ reviewer'[d].stats = reviewer[d].stats
    BY <2>1, <2>2 DEF Reviewers
  <2> QED BY <2>3, <2>4 DEF late
<1>4. /\ reviewer'[c] \in Reviewers /\ reviewer'[c].pc = end /\ reviewer'[c].product = p
  <2>1. reviewer'[c] = [reviewer[c] EXCEPT !.pc = end]
    OBVIOUS
  <2> QED BY <2>1, <1>1 DEF Reviewers
<1>5. reviewer' \in [Customers -> Reviewers]
  <2>1. \A d \in Customers : reviewer'[d] \in Reviewers
    BY <1>3, <1>4
  <2> QED BY <2>1
<1>6. \A d \in Customers : reviewer'[d].pc # "idle" => reviewer'[d].product \in Products
  BY <1>3, <1>4 DEF RatingInv, RatingTypes
<1>7. \A d \in Customers, q \in Products : InProgress(d, q)' <=> (d # c /\ InProgress(d, q))
  BY <1>3, <1>4 DEF InProgress
<1>8. ASSUME NEW d \in Customers, NEW q \in Products PROVE HasRead(d, q)'
  <2>1. CASE d = c
    BY <2>1, <1>4 DEF HasRead
  <2>2. CASE d # c
    <3>1. HasRead(d, q)
      BY DEF RatingInv
    <3>2. /\ reviewer'[d].pc = reviewer[d].pc /\ reviewer'[d].product = reviewer[d].product
          /\ reviewer'[d].stats = reviewer[d].stats
          /\ reviewer'[d].late = (reviewer[d].late \/ d \in Others(p, c))
      BY <1>3, <2>2
    <3>3. CASE q = p
      <4>1. reviewer[d].pc = "aggregated" /\ reviewer[d].product = q => reviewer'[d].late
        BY <1>2, <2>2, <3>2, <3>3
      <4> QED BY <3>1, <3>2, <4>1 DEF HasRead
    <3>4. CASE q # p
      <4>1. \A e \in Customers : InProgress(e, q) => InProgress(e, q)'
        BY <1>7, <3>4 DEF InProgress
      <4>2. d \in Others(p, c) => reviewer[d].product = p
        BY <1>2
      <4> QED BY <3>1, <3>2, <3>4, <4>1, <4>2 DEF HasRead
    <3> QED BY <3>3, <3>4
  <2> QED BY <2>1, <2>2
<1> QED BY <1>5, <1>6, <1>7, <1>8

LEMMA SetRatingStep ==
  ASSUME RatingInv, NEW c \in Customers, SetRating(c)
  PROVE  RatingInv'
<1>1. PICK p \in Products : p = reviewer[c].product
  BY ReviewerTypes DEF SetRating
<1>2. /\ reviewer[c].pc = "aggregated" /\ rating' = [rating EXCEPT ![p] = reviewer[c].stats]
      /\ stale' = IF reviewer[c].late THEN stale \cup {p} ELSE stale \ {p}
      /\ UNCHANGED published
      /\ reviewer' = [d \in Customers |-> IF d = c THEN [reviewer[d] EXCEPT !.pc = "saved"]
                                          ELSE [reviewer[d] EXCEPT !.late = @ \/ d \in Others(p, c)]]
  BY <1>1 DEF SetRating
<1>3. /\ reviewer' \in [Customers -> Reviewers]
      /\ \A d \in Customers : reviewer'[d].pc # "idle" => reviewer'[d].product \in Products
      /\ \A d \in Customers, q \in Products : InProgress(d, q)' <=> (d # c /\ InProgress(d, q))
      /\ \A d \in Customers, q \in Products : HasRead(d, q)'
  BY <1>1, <1>2, LateOthers
<1>4. /\ reviewer[c].stats[c] = published[p][c] /\ reviewer[c].stats \in Written
      /\ ~reviewer[c].late => \A d \in Customers : reviewer[c].stats[d] = published[p][d] \/ InProgress(d, p)
  BY <1>1, <1>2, ReviewerTypes DEF RatingInv, HasRead, Reviewers
<1>5. rating' \in [Products -> Written] /\ rating'[p] = reviewer[c].stats
      /\ \A q \in Products : q # p => rating'[q] = rating[q]
  BY <1>2, <1>4 DEF RatingInv, RatingTypes
<1>6. ASSUME NEW q \in Products PROVE Counts(q)'
  <2>2. CASE q = p
    BY <2>2, <1>2, <1>3, <1>4, <1>5 DEF Counts
  <2>3. CASE q # p
    <3>1. \A e \in Customers : InProgress(e, q) => InProgress(e, q)'
      BY <1>1, <1>3, <2>3 DEF InProgress
    <3>2. Counts(q) /\ (q \notin stale' => q \notin stale)
      BY <1>2, <2>3 DEF RatingInv
    <3> QED BY <1>2, <2>3, <3>1, <3>2, <1>5 DEF Counts
  <2> QED BY <2>2, <2>3
<1> QED BY <1>2, <1>3, <1>5, <1>6 DEF RatingInv, RatingTypes

LEMMA FailRatingStep ==
  ASSUME RatingInv, NEW c \in Customers, FailRating(c)
  PROVE  RatingInv'
<1>1. PICK p \in Products : p = reviewer[c].product
  BY ReviewerTypes DEF FailRating
<1>2. /\ stale' = stale \cup {p} /\ UNCHANGED <<published, rating>>
      /\ reviewer' = [d \in Customers |-> IF d = c THEN [reviewer[d] EXCEPT !.pc = "refused"]
                                          ELSE [reviewer[d] EXCEPT !.late = @ \/ d \in Others(p, c)]]
  BY <1>1 DEF FailRating
<1>3. /\ reviewer' \in [Customers -> Reviewers]
      /\ \A d \in Customers : reviewer'[d].pc # "idle" => reviewer'[d].product \in Products
      /\ \A d \in Customers, q \in Products : InProgress(d, q)' <=> (d # c /\ InProgress(d, q))
      /\ \A d \in Customers, q \in Products : HasRead(d, q)'
  BY <1>1, <1>2, LateOthers
<1>4. ASSUME NEW q \in Products PROVE Counts(q)'
  <2>1. Counts(q)
    BY DEF RatingInv
  <2>2. CASE q = p
    BY <2>2, <1>2 DEF Counts
  <2>3. CASE q # p
    <3>1. \A e \in Customers : InProgress(e, q) => InProgress(e, q)'
      BY <1>1, <1>3, <2>3 DEF InProgress
    <3> QED BY <2>1, <2>3, <3>1, <1>2 DEF Counts
  <2> QED BY <2>2, <2>3
<1> QED BY <1>2, <1>3, <1>4 DEF RatingInv, RatingTypes

LEMMA RatingStep == RatingInv /\ [Next]_vars => RatingInv'
<1> SUFFICES ASSUME RatingInv, [Next]_vars PROVE RatingInv'
  OBVIOUS
<1>1. CASE Searches
  BY <1>1, RatingUnchanged DEF Searches, Type, Suggest, Debounce, SubmitSearch, OpenSuggestion, server, Ratings
<1>2. CASE OnPage
  BY <1>2, OnPageKeeps, RatingUnchanged DEF server, Ratings
<1>3. CASE LoadPage \/ AddEnds \/ Arrive \/ \E to \in Routes : Follow(to)
  BY <1>3, RatingUnchanged DEF LoadPage, AddEnds, Arrive, Follow, server, Ratings
<1>4. ASSUME NEW c \in Customers, ReviewStep(c) PROVE RatingInv'
  BY <1>4, WriteReviewRating, EndsRating, AggregateRating, SetRatingStep, FailRatingStep DEF ReviewStep
<1>5. CASE \E c \in Customers, p \in Products : PostReview(c, p)
  BY <1>5, PostReviewRating
<1>6. CASE UNCHANGED vars
  BY <1>6, RatingUnchanged DEF vars, Ratings
<1> QED BY <1>1, <1>2, <1>3, <1>4, <1>5, <1>6, Steps

THEOREM RatingsAreKept == PagesSpec => []RatingInv
<1>1. Init => RatingInv
  <2> SUFFICES ASSUME Init PROVE RatingInv
    OBVIOUS
  <2>1. RatingTypes
    BY NoReviewsType DEF Init, RatingTypes, Reviewers
  <2>2. rating = published /\ \A c \in Customers : reviewer[c].pc = "idle"
    BY DEF Init
  <2> QED BY <2>1, <2>2 DEF RatingInv, HasRead, Counts
<1> QED BY <1>1, RatingStep, PTL DEF PagesSpec

\* A rating that no request is about to write is that of every review of the product,
\* as it was written last, unless the last recalculation failed or wrote what it had read before another one.
THEOREM RatingsCount == PagesSpec => []RatingCountsReviews
<1>1. RatingInv => RatingCountsReviews
  <2> SUFFICES ASSUME RatingInv, NEW p \in Products \ stale,
                      \A c \in Customers : reviewer[c].pc \in {"idle", "posted", "saved", "refused"}
                                           \/ reviewer[c].product # p
               PROVE  rating[p] = published[p]
    BY DEF RatingCountsReviews
  <2>1. \A c \in Customers : ~InProgress(c, p)
    BY DEF InProgress
  <2>2. \A c \in Customers : rating[p][c] = published[p][c]
    BY <2>1 DEF RatingInv, Counts
  <2> QED BY <2>2 DEF RatingInv, RatingTypes, Written
<1> QED BY <1>1, RatingsAreKept, PTL

-----------------------------------------------------------------------------
(* The page that is open *)

Sought == {None} \cup ((Routes \cup {NoUrl}) \X {1, 2})
Requests == [asks : Sought, status : {"idle", "loading", "reloading", "ready", "error"}, shows : Sought]

\* A resource shows the answer to what it asks now, or nothing.
Current(r) == r \in Requests /\ r.shows \in {None, r.asks}

PageTypes == [number : {1, 2}, adding : {"no", "add", "buy"}, editing : Items \cup {"new", None},
              image : {"none", "picked", "bad"}, saving : Items \cup {"new", "settings", "ship", "review", None},
              dialog : Items \cup {"ship", "cancel", "refund", None},
              requests : SUBSET (Items \cup {"cancel", "refund"})]

\* What is asked for is the page that is open, and the page of the list it is at.
ListsFollowThePage ==
  /\ url.page = "detail" => reviews.asks = <<url, page.number>> /\ res.asks[1] = url
  /\ url.page \in {"orders", "products", "coupons"} => res.asks = <<url, page.number>>

ViewTypes == page \in PageTypes /\ Current(res) /\ Current(reviews)
ViewInv == Routing /\ ViewTypes /\ ListsFollowThePage

LEMMA Asked ==
  ASSUME NEW u \in Routes \cup {NoUrl}, NEW n \in {1, 2}
  PROVE  Current(Ask(u, n)) /\ Ask(u, n).asks = <<u, n>> /\ Ask(u, n).shows = None
<1>1. <<u, n>> \in Sought /\ None \in Sought
  BY DEF Sought
<1> QED BY <1>1 DEF Ask, Current, Requests

LEMMA Stays ==
  ASSUME NEW r, Current(r)
  PROVE  /\ Current(Reload(r)) /\ Reload(r).asks = r.asks /\ Reload(r).shows = r.shows
         /\ Current(Set(r)) /\ Set(r).asks = r.asks
         /\ \A a \in Answered(r) : Current(a) /\ a.asks = r.asks
<1>1. r \in Requests
  BY DEF Current
<1>2. /\ [r EXCEPT !.status = "reloading"] \in Requests
      /\ [r EXCEPT !.status = "ready", !.shows = r.asks] \in Requests
      /\ [r EXCEPT !.status = "error", !.shows = None] \in Requests
  <2>1. None \in Sought
    BY DEF Sought
  <2> QED BY <1>1, <2>1 DEF Requests
<1>3. Current(Reload(r)) /\ Reload(r).asks = r.asks /\ Reload(r).shows = r.shows
  BY <1>1, <1>2 DEF Reload, Current, Requests
<1>4. Current(Set(r)) /\ Set(r).asks = r.asks
  BY <1>1, <1>2 DEF Set, Current, Requests
<1>5. \A a \in Answered(r) : Current(a) /\ a.asks = r.asks
  BY <1>1, <1>2 DEF Answered, Current, Requests
<1> QED BY <1>3, <1>4, <1>5

\* An editor or a dialog changes no page number, and no product that is shown.
LEMMA FormsKeep ==
  ASSUME ViewTypes, OnEditors \/ OnDialogs
  PROVE  /\ page' \in PageTypes /\ page'.number = page.number
         /\ reviews' = reviews /\ url' = url
         /\ res' \in {res, Reload(res)} \/ (res' = Set(res) /\ url.page # "detail")
<1> USE DEF PageTypes
<1>0. page \in PageTypes
  BY DEF ViewTypes
<1>1. CASE (\E x \in Items \cup {"new"} : EditProduct(x)) \/ \E x \in Items \cup {"new"} : EditCoupon(x)
  BY <1>0, <1>1 DEF EditProduct, EditCoupon, Editing, Unchanged, routing
<1>2. CASE CloseProduct \/ CloseCoupon
  BY <1>0, <1>2 DEF CloseProduct, CloseCoupon, Editing, Unchanged, routing
<1>3. CASE PickImage \/ SubmitProduct
  BY <1>0, <1>3 DEF PickImage, SubmitProduct, Unchanged, routing
<1>4. CASE SaveCoupon \/ SaveSettings
  BY <1>0, <1>4 DEF SaveCoupon, SaveSettings, Unchanged, routing
<1>5. CASE EditorAnswered \/ SettingsAnswered
  <2>1. CASE EditorAnswered
    BY <1>0, <2>1 DEF EditorAnswered, Unchanged, routing
  <2>2. CASE SettingsAnswered
    BY <1>0, <2>2 DEF SettingsAnswered, Unchanged, routing
  <2> QED BY <1>5, <2>1, <2>2
<1>6. CASE Opens
  <2>1. PICK d \in Items \cup {"ship", "cancel", "refund"} : Open(d)
    BY <1>6 DEF Opens, OpenShipment, AskReason, AskRemove
  <2>2. page' = [page EXCEPT !.dialog = d] /\ res' = res /\ reviews' = reviews /\ url' = url
    BY <2>1 DEF Open, Unchanged, routing
  <2>3. page' \in PageTypes /\ page'.number = page.number
    BY <1>0, <2>2
  <2> HIDE DEF PageTypes
  <2> QED BY <2>2, <2>3
<1>7. CASE CloseDialog \/ Confirm
  <2>1. CASE CloseDialog
    BY <1>0, <2>1 DEF CloseDialog, Unchanged, routing
  <2>2. CASE Confirm
    BY <1>0, <2>2 DEF Confirm, Unchanged, routing
  <2> QED BY <1>7, <2>1, <2>2
<1>8. CASE SaveShipment \/ ShipmentAnswered
  <2>1. CASE SaveShipment
    BY <1>0, <2>1 DEF SaveShipment, Unchanged, routing
  <2>2. CASE ShipmentAnswered
    BY <1>0, <2>2 DEF ShipmentAnswered, Unchanged, routing
  <2> QED BY <1>8, <2>1, <2>2
<1>9. CASE (\E what \in page.requests : OrderAnswered(what)) \/ \E what \in page.requests : RemoveAnswered(what)
  BY <1>0, <1>9 DEF OrderAnswered, RemoveAnswered, Unchanged, routing
<1> QED BY <1>1, <1>2, <1>3, <1>4, <1>5, <1>6, <1>7, <1>8, <1>9 DEF OnEditors, OnDialogs

LEMMA ListsView ==
  ASSUME ViewInv, OnLists
  PROVE  ViewTypes' /\ ListsFollowThePage'
<1>0. page \in PageTypes /\ Current(res) /\ Current(reviews) /\ url \in Routes \cup {NoUrl}
  BY DEF ViewInv, ViewTypes, Routing
<1>1. CASE Retry \/ LoadReviews
  BY <1>0, <1>1, Stays DEF Retry, LoadReviews, routing, ViewInv, ViewTypes, ListsFollowThePage
<1>2. CASE ApplySearch
  <2>1. page' \in PageTypes /\ page'.number = 1
    BY <1>0, <1>2 DEF ApplySearch, PageTypes
  <2> QED BY <1>0, <1>2, <2>1, Asked DEF ApplySearch, routing, ViewTypes, ListsFollowThePage
<1>3. ASSUME NEW n \in {1, 2}, ChangePage(n) PROVE ViewTypes' /\ ListsFollowThePage'
  <2>1. page' \in PageTypes /\ page'.number = n
    BY <1>0, <1>3 DEF ChangePage, PageTypes
  <2> QED BY <1>0, <1>3, <2>1, Asked DEF ChangePage, routing, ViewTypes, ListsFollowThePage
<1>4. ASSUME NEW n \in {1, 2}, ChangeReviewPage(n) PROVE ViewTypes' /\ ListsFollowThePage'
  <2>1. page' \in PageTypes /\ page'.number = n
    BY <1>0, <1>4 DEF ChangeReviewPage, PageTypes
  <2> QED BY <1>0, <1>4, <2>1, Asked DEF ChangeReviewPage, routing, ViewInv, ViewTypes, ListsFollowThePage
<1>5. ASSUME NEW button \in {"add", "buy"}, AddToCart(button) PROVE ViewTypes' /\ ListsFollowThePage'
  <2>1. page' \in PageTypes /\ page'.number = page.number
    BY <1>0, <1>5 DEF AddToCart, PageTypes
  <2> QED BY <1>0, <1>5, <2>1 DEF AddToCart, routing, ViewInv, ViewTypes, ListsFollowThePage
<1> QED BY <1>1, <1>2, <1>3, <1>4, <1>5 DEF OnLists

LEMMA FormsView ==
  ASSUME ViewInv, OnEditors \/ OnDialogs
  PROVE  ViewTypes' /\ ListsFollowThePage'
<1>1. /\ page' \in PageTypes /\ page'.number = page.number /\ reviews' = reviews /\ url' = url
      /\ res' \in {res, Reload(res), Set(res)}
  BY FormsKeep DEF ViewInv
<1>2. Current(res') /\ res'.asks = res.asks
  BY <1>1, Stays DEF ViewInv, ViewTypes
<1> QED BY <1>1, <1>2 DEF ViewInv, ViewTypes, ListsFollowThePage

LEMMA ArriveView ==
  ASSUME ViewInv, Arrive
  PROVE  ViewTypes' /\ ListsFollowThePage'
<1>1. /\ going \in Routes /\ url' = going
      /\ page' = IF going.page = url.page THEN page ELSE FreshPage
      /\ res' = IF going = url THEN res ELSE Ask(going, page'.number)
      /\ reviews' = IF going = url THEN reviews
                    ELSE IF going.page = "detail" THEN Ask(going, page'.number) ELSE Idle
  BY DEF Arrive, ViewInv, Routing
<1>2. page' \in PageTypes /\ page'.number \in {1, 2}
  BY <1>1 DEF ViewInv, ViewTypes, PageTypes, FreshPage
<1>3. Current(Idle)
  BY DEF Idle, Current, Requests, Sought
<1>4. CASE going = url
  BY <1>1, <1>4 DEF ViewInv, ViewTypes, ListsFollowThePage
<1>5. CASE going # url
  <2>1. ViewTypes'
    BY <1>1, <1>2, <1>3, <1>5, Asked DEF ViewTypes
  <2>2. /\ res'.asks = <<url', page'.number>>
        /\ url'.page = "detail" => reviews'.asks = <<url', page'.number>>
    <3>1. Ask(going, page'.number).asks = <<going, page'.number>>
      BY <1>1, <1>2, Asked
    <3> QED BY <1>1, <1>5, <3>1
  <2> QED BY <2>1, <2>2 DEF ListsFollowThePage
<1> QED BY <1>4, <1>5

LEMMA ReviewView ==
  ASSUME ViewInv, NEW c \in Customers, ReviewStep(c)
  PROVE  ViewTypes' /\ ListsFollowThePage'
<1>1. CASE UNCHANGED <<url, res, reviews, page>>
  BY <1>1 DEF ViewInv, ViewTypes, ListsFollowThePage
<1>2. CASE ReviewAnswered(c)
  <2> DEFINE here == c = Me /\ url.page = "detail" /\ page.saving = "review"
             saved == reviewer[c].pc = "saved"
  <2>1. /\ page' = IF here THEN [page EXCEPT !.saving = None, !.number = IF saved THEN 1 ELSE @] ELSE page
        /\ IF here /\ saved
           THEN /\ res' = Reload(res)
                /\ reviews' = IF page.number = 1 THEN Reload(reviews) ELSE Ask(url, 1)
           ELSE UNCHANGED <<res, reviews>>
        /\ url' = url
    BY <1>2 DEF ReviewAnswered, routing
  <2>2. here => url.page = "detail"
    OBVIOUS
  <2>3. page \in PageTypes
    BY DEF ViewInv, ViewTypes
  <2> HIDE DEF here, saved
  <2>4. /\ page' \in PageTypes
        /\ page'.number = IF here /\ saved THEN 1 ELSE page.number
    BY <2>1, <2>3 DEF PageTypes
  <2>5. Current(res') /\ res'.asks = res.asks
    BY <2>1, Stays DEF ViewInv, ViewTypes
  <2>6. /\ Current(reviews')
        /\ reviews'.asks = IF here /\ saved /\ page.number # 1 THEN <<url, 1>> ELSE reviews.asks
    BY <2>1, Stays, Asked DEF ViewInv, ViewTypes, Routing
  <2>7. ViewTypes'
    BY <2>4, <2>5, <2>6 DEF ViewTypes
  <2>8. ListsFollowThePage'
    <3>1. CASE here
      <4>1. url.page \notin {"orders", "products", "coupons"}
        BY <3>1, <2>2
      <4> QED BY <2>1, <2>2, <2>4, <2>5, <2>6, <3>1, <4>1 DEF ViewInv, ListsFollowThePage
    <3>2. CASE ~here
      BY <2>1, <2>4, <2>5, <2>6, <3>2 DEF ViewInv, ListsFollowThePage
    <3> QED BY <3>1, <3>2
  <2> QED BY <2>7, <2>8
<1>3. CASE WriteReview(c) \/ RefuseReview(c) \/ Aggregate(c) \/ SetRating(c) \/ FailRating(c)
  BY <1>1, <1>3 DEF WriteReview, RefuseReview, Aggregate, SetRating, FailRating, routing, view
<1> QED BY <1>2, <1>3 DEF ReviewStep

LEMMA ViewStep == ViewInv /\ PlaceInv /\ [Next]_vars => ViewInv'
<1> SUFFICES ASSUME ViewInv, PlaceInv, [Next]_vars PROVE ViewTypes' /\ ListsFollowThePage'
  BY PlaceStep DEF PlaceInv, ViewInv
<1>1. CASE UNCHANGED <<url, res, reviews, page>>
  BY <1>1 DEF ViewInv, ViewTypes, ListsFollowThePage
<1>2. CASE Searches
  BY <1>1, <1>2 DEF Searches, Type, Suggest, Debounce, SubmitSearch, OpenSuggestion, routing, view
<1>3. CASE OnPage
  BY <1>3, ListsView, FormsView DEF OnPage
<1>4. CASE LoadPage
  <2>1. res' \in Answered(res) /\ UNCHANGED <<url, reviews, page>>
    BY <1>4 DEF LoadPage, routing
  <2>2. Current(res') /\ res'.asks = res.asks
    BY <2>1, Stays DEF ViewInv, ViewTypes
  <2> QED BY <2>1, <2>2 DEF ViewInv, ViewTypes, ListsFollowThePage
<1>5. CASE AddEnds
  <2>1. page' \in PageTypes /\ page'.number = page.number
    BY <1>5 DEF AddEnds, ViewInv, ViewTypes, PageTypes
  <2>2. UNCHANGED <<url, res, reviews>>
    BY <1>5 DEF AddEnds
  <2> QED BY <2>1, <2>2 DEF ViewInv, ViewTypes, ListsFollowThePage
<1>6. CASE Arrive
  BY <1>6, ArriveView
<1>7. CASE \E to \in Routes : Follow(to)
  BY <1>1, <1>7 DEF Follow, view
<1>8. CASE \E c \in Customers : ReviewStep(c)
  BY <1>8, ReviewView
<1>9. ASSUME NEW c \in Customers, NEW p \in Products, PostReview(c, p)
      PROVE  ViewTypes' /\ ListsFollowThePage'
  <2>1. (page' = page \/ page' = [page EXCEPT !.saving = "review"]) /\ UNCHANGED <<url, res, reviews>>
    BY <1>9 DEF PostReview
  <2>2. page' \in PageTypes /\ page'.number = page.number
    BY <2>1 DEF ViewInv, ViewTypes, PageTypes
  <2> QED BY <2>1, <2>2 DEF ViewInv, ViewTypes, ListsFollowThePage
<1>10. CASE UNCHANGED vars
  BY <1>1, <1>10 DEF vars
<1> QED BY <1>2, <1>3, <1>4, <1>5, <1>6, <1>7, <1>8, <1>9, <1>10, Steps

THEOREM ViewIsKept == PagesSpec => [](ViewInv /\ PlaceInv)
<1>1. Init => ViewInv
  <2> SUFFICES ASSUME Init PROVE ViewInv
    OBVIOUS
  <2>1. Routing
    BY PagesAssumption DEF Init, Routing, NoUrl, Lefts
  <2>2. page \in PageTypes
    BY DEF Init, FreshPage, PageTypes
  <2>3. Current(Idle)
    BY DEF Idle, Current, Requests, Sought
  <2>4. url.page \notin {"detail", "orders", "products", "coupons"}
    BY PagesAssumption DEF Init
  <2> QED BY <2>1, <2>2, <2>3, <2>4 DEF Init, ViewInv, ViewTypes, ListsFollowThePage
<1>2. ViewInv /\ PlaceInv /\ [Next]_vars => (ViewInv /\ PlaceInv)'
  BY ViewStep, PlaceStep
<1> QED BY <1>1, <1>2, PlaceIsKept, PTL DEF PagesSpec

\* A list that is shown is that of the page and of the page number that are open:
\* changing either of them, or going back to the first page of the reviews after
\* one was sent, asks anew, and an older answer is dropped.
THEOREM ListsFollow == PagesSpec => []ListsFollowThePage
<1>1. ViewInv => ListsFollowThePage
  BY DEF ViewInv
<1> QED BY <1>1, ViewIsKept, PTL

-----------------------------------------------------------------------------
(* The title *)

LEMMA TitleStep ==
  ASSUME TitleNamesThePage, ViewInv, [Next]_vars
  PROVE  TitleNamesThePage'
<1>1. CASE UNCHANGED <<url, title>> /\ (url.page = "detail" => res'.shows \in {res.shows, None})
  BY <1>1 DEF TitleNamesThePage
<1>2. CASE Searches
  BY <1>1, <1>2 DEF Searches, Type, Suggest, Debounce, SubmitSearch, OpenSuggestion, routing, view
<1>3. CASE OnLists
  <2>1. res' = res \/ res' = Reload(res) \/ res'.shows = None
    BY <1>3 DEF OnLists, Retry, ApplySearch, LoadReviews, ChangePage, ChangeReviewPage, AddToCart, Ask
  <2>2. Reload(res).shows = res.shows
    BY Stays DEF ViewInv, ViewTypes
  <2> QED BY <1>1, <1>3, <2>1, <2>2, OnPageKeeps DEF OnPage
<1>4. CASE OnEditors \/ OnDialogs
  <2>1. res' \in {res, Reload(res)} \/ url.page # "detail"
    BY <1>4, FormsKeep DEF ViewInv
  <2>2. Reload(res).shows = res.shows
    BY Stays DEF ViewInv, ViewTypes
  <2> QED BY <1>1, <1>4, <2>1, <2>2, OnPageKeeps DEF OnPage
<1>5. CASE LoadPage
  <2>1. /\ title' = IF url.page = "detail" /\ res'.shows # None THEN <<"product", url.arg>> ELSE title
        /\ url' = url
    BY <1>5 DEF LoadPage, ProductTitle, routing
  <2>2. url = [page |-> url.page, arg |-> url.arg]
    BY DEF ViewInv, Routing, Routes, Home, NoUrl
  <2> QED BY <2>1, <2>2 DEF TitleNamesThePage
<1>6. CASE AddEnds
  BY <1>1, <1>6 DEF AddEnds
<1>7. CASE Arrive
  <2>1. CASE going = url
    BY <1>7, <2>1 DEF Arrive, TitleNamesThePage
  <2>2. CASE going # url
    <3>1. title'[1] = "route" /\ res'.shows = None
      BY <1>7, <2>2 DEF Arrive, RouteTitle, Ask
    <3> QED BY <3>1 DEF TitleNamesThePage
  <2> QED BY <2>1, <2>2
<1>8. CASE \E to \in Routes : Follow(to)
  BY <1>1, <1>8 DEF Follow, view
<1>9. ASSUME NEW c \in Customers, ReviewStep(c) PROVE TitleNamesThePage'
  <2>1. res' = res \/ res' = Reload(res)
    BY <1>9 DEF ReviewStep, WriteReview, RefuseReview, Aggregate, SetRating, FailRating, ReviewAnswered, view
  <2>2. Reload(res).shows = res.shows
    BY Stays DEF ViewInv, ViewTypes
  <2> QED BY <1>1, <1>9, <2>1, <2>2, ReviewKeeps
<1>10. CASE \E c \in Customers, p \in Products : PostReview(c, p)
  BY <1>1, <1>10 DEF PostReview
<1>11. CASE UNCHANGED vars
  BY <1>1, <1>11 DEF vars
<1> QED BY <1>2, <1>3, <1>4, <1>5, <1>6, <1>7, <1>8, <1>9, <1>10, <1>11, Steps DEF OnPage

\* The title names the product that is shown, and a product only on its own page.
THEOREM TitleNames == PagesSpec => []TitleNamesThePage
<1>1. Init => TitleNamesThePage
  BY DEF Init, Idle, TitleNamesThePage
<1>2. TitleNamesThePage /\ ViewInv /\ [Next]_vars => TitleNamesThePage'
  BY TitleStep
<1> QED BY <1>1, <1>2, ViewIsKept, PTL DEF PagesSpec

-----------------------------------------------------------------------------
(* The flags *)

\* A flag is set only where an answer can clear it: the editor's, the dialog's, or
\* that of the shopper's own review, which is under way.
WaitingIsAnswered ==
  page.saving # None =>
    \/ url.page \in {"products", "coupons", "settings"}
    \/ page.dialog = "ship"
    \/ url.page = "detail" /\ page.saving = "review" /\ reviewer[Me].pc # "idle"

LEMMA FormsWait ==
  ASSUME WaitingIsAnswered, ViewTypes, OnEditors \/ OnDialogs
  PROVE  WaitingIsAnswered'
<1>0. page \in PageTypes
  BY DEF ViewTypes
<1>1. url' = url /\ reviewer' = reviewer
  <2>1. OnPage
    BY DEF OnPage
  <2> QED BY <2>1, OnPageKeeps DEF server
<1>2. CASE OnEditors
  <2>1. url.page \in {"products", "coupons", "settings"}
    BY <1>2 DEF OnEditors, EditProduct, EditCoupon, CloseProduct, PickImage, SubmitProduct, CloseCoupon, SaveCoupon,
           SaveSettings, EditorAnswered, SettingsAnswered
  <2> QED BY <1>1, <2>1 DEF WaitingIsAnswered
<1>3. CASE Opens
  <2>1. PICK d : page' = [page EXCEPT !.dialog = d]
    BY <1>3 DEF Opens, OpenShipment, AskReason, AskRemove, Open
  <2>2. page'.saving = page.saving /\ page.dialog = None
    BY <1>0, <1>3, <2>1 DEF Opens, PageTypes
  <2> QED BY <1>1, <2>2, PagesAssumption DEF WaitingIsAnswered
<1>4. CASE CloseDialog
  <2>1. page'.saving = IF page.dialog = "ship" THEN None ELSE page.saving
    BY <1>0, <1>4 DEF CloseDialog, PageTypes
  <2> QED BY <1>1, <2>1 DEF WaitingIsAnswered
<1>5. CASE Confirm
  <2>1. page'.saving = page.saving /\ page.dialog # "ship"
    BY <1>0, <1>5 DEF Confirm, PageTypes
  <2> QED BY <1>1, <2>1 DEF WaitingIsAnswered
<1>6. CASE SaveShipment
  <2>1. page'.dialog = "ship"
    BY <1>0, <1>6 DEF SaveShipment, PageTypes
  <2> QED BY <2>1 DEF WaitingIsAnswered
<1>7. CASE ShipmentAnswered
  <2>1. page'.saving = None
    BY <1>0, <1>7 DEF ShipmentAnswered, PageTypes
  <2> QED BY <2>1 DEF WaitingIsAnswered
<1>8. CASE (\E what \in page.requests : OrderAnswered(what)) \/ \E what \in page.requests : RemoveAnswered(what)
  <2>1. page'.saving = page.saving /\ page'.dialog = page.dialog
    BY <1>0, <1>8 DEF OrderAnswered, RemoveAnswered, PageTypes
  <2> QED BY <1>1, <2>1 DEF WaitingIsAnswered
<1> QED BY <1>2, <1>3, <1>4, <1>5, <1>6, <1>7, <1>8 DEF OnDialogs

LEMMA WaitingStep ==
  ASSUME WaitingIsAnswered, ViewInv, RatingInv, [Next]_vars
  PROVE  WaitingIsAnswered'
<1>0. page \in PageTypes
  BY DEF ViewInv, ViewTypes
<1>1. CASE /\ url' = url /\ reviewer' = reviewer /\ page'.saving = page.saving /\ page'.dialog = page.dialog
  BY <1>1 DEF WaitingIsAnswered
<1>2. CASE Searches
  BY <1>1, <1>2 DEF Searches, Type, Suggest, Debounce, SubmitSearch, OpenSuggestion, routing, view, server
<1>3. CASE OnLists
  <2>1. page'.saving = page.saving /\ page'.dialog = page.dialog
    BY <1>0, <1>3 DEF OnLists, Retry, ApplySearch, LoadReviews, ChangePage, ChangeReviewPage, AddToCart, PageTypes
  <2> QED BY <1>1, <1>3, <2>1, OnPageKeeps DEF OnPage, server
<1>4. CASE OnEditors \/ OnDialogs
  BY <1>4, FormsWait DEF ViewInv
<1>5. CASE LoadPage
  BY <1>1, <1>5 DEF LoadPage, routing, server
<1>6. CASE AddEnds
  <2>1. page'.saving = page.saving /\ page'.dialog = page.dialog
    BY <1>0, <1>6 DEF AddEnds, PageTypes
  <2> QED BY <1>1, <1>6, <2>1 DEF AddEnds, server
<1>7. CASE Arrive
  <2>1. (page' = page /\ url'.page = url.page) \/ page' = FreshPage
    BY <1>7 DEF Arrive
  <2>2. reviewer' = reviewer /\ FreshPage.saving = None
    BY <1>7 DEF Arrive, server, FreshPage
  <2> QED BY <2>1, <2>2 DEF WaitingIsAnswered
<1>8. CASE \E to \in Routes : Follow(to)
  BY <1>1, <1>8 DEF Follow, view, server
<1>9. ASSUME NEW c \in Customers, ReviewStep(c) PROVE WaitingIsAnswered'
  <2>0. reviewer \in [Customers -> Reviewers] /\ Me \in Customers
    BY PagesAssumption DEF RatingInv, RatingTypes
  <2>1. CASE ReviewAnswered(c)
    <3>1. \/ page'.saving = None
          \/ page' = page /\ ~(c = Me /\ url.page = "detail" /\ page.saving = "review")
      BY <1>0, <2>1 DEF ReviewAnswered, PageTypes
    <3>2. c # Me => reviewer'[Me] = reviewer[Me]
      BY <2>0, <2>1 DEF ReviewAnswered
    <3>3. url' = url
      BY <2>1 DEF ReviewAnswered, routing
    <3> QED BY <3>1, <3>2, <3>3 DEF WaitingIsAnswered
  <2>2. CASE WriteReview(c) \/ RefuseReview(c) \/ Aggregate(c)
    <3>1. url' = url /\ page' = page
      BY <2>2 DEF WriteReview, RefuseReview, Aggregate, routing, view
    <3>2. reviewer[Me].pc # "idle" => reviewer'[Me].pc # "idle"
      <4>1. CASE c = Me
        <5>1. reviewer'[Me].pc \in {"written", "refused", "aggregated"}
          BY <2>0, <2>2, <4>1 DEF WriteReview, RefuseReview, Aggregate, Reviewing, Reviewers
        <5> QED BY <5>1
      <4>2. CASE c # Me
        BY <2>0, <2>2, <4>2 DEF WriteReview, RefuseReview, Aggregate, Reviewing
      <4> QED BY <4>1, <4>2
    <3> QED BY <3>1, <3>2 DEF WaitingIsAnswered
  <2>3. CASE SetRating(c) \/ FailRating(c)
    <3>1. url' = url /\ page' = page
      BY <2>3 DEF SetRating, FailRating, routing, view
    <3>2. PICK end \in {"saved", "refused"} :
            reviewer'[Me] = IF Me = c THEN [reviewer[Me] EXCEPT !.pc = end]
                            ELSE [reviewer[Me] EXCEPT !.late = @ \/ Me \in Others(reviewer[c].product, c)]
      BY <2>0, <2>3 DEF SetRating, FailRating
    <3>3. reviewer[Me] \in Reviewers
      BY <2>0
    <3>4. reviewer[Me].pc # "idle" => reviewer'[Me].pc # "idle"
      BY <3>2, <3>3 DEF Reviewers
    <3> QED BY <3>1, <3>4 DEF WaitingIsAnswered
  <2> QED BY <1>9, <2>1, <2>2, <2>3 DEF ReviewStep
<1>10. ASSUME NEW c \in Customers, NEW p \in Products, PostReview(c, p) PROVE WaitingIsAnswered'
  <2>0. reviewer \in [Customers -> Reviewers] /\ Me \in Customers
    BY PagesAssumption DEF RatingInv, RatingTypes
  <2>1. url' = url
    BY <1>10 DEF PostReview
  <2>2. CASE c = Me
    <3>1. url.page = "detail" /\ page'.saving = "review"
      BY <1>0, <1>10, <2>2 DEF PostReview, PageTypes
    <3>2. reviewer'[Me].pc = "posted"
      BY <1>10, <2>0, <2>2 DEF PostReview
    <3> QED BY <2>1, <3>1, <3>2 DEF WaitingIsAnswered
  <2>3. CASE c # Me
    <3>1. page' = page /\ reviewer'[Me] = reviewer[Me]
      BY <1>10, <2>0, <2>3 DEF PostReview
    <3> QED BY <2>1, <3>1 DEF WaitingIsAnswered
  <2> QED BY <2>2, <2>3
<1>11. CASE UNCHANGED vars
  BY <1>1, <1>11 DEF vars
<1> QED BY <1>2, <1>3, <1>4, <1>5, <1>6, <1>7, <1>8, <1>9, <1>10, <1>11, Steps DEF OnPage

\* No button waits for an answer that nothing will bring: a review outlives the
\* product page it was sent from, a shipment's flag goes with its dialog, and an
\* editor's flag stays on the page whose answers clear it.
THEOREM WaitingIsForAnAnswer == PagesSpec => []WaitingIsAnswered
<1>1. Init => WaitingIsAnswered
  BY DEF Init, FreshPage, WaitingIsAnswered
<1>2. WaitingIsAnswered /\ ViewInv /\ RatingInv /\ [Next]_vars => WaitingIsAnswered'
  BY WaitingStep
<1> QED BY <1>1, <1>2, ViewIsKept, RatingsAreKept, PTL DEF PagesSpec
=============================================================================
