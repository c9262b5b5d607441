------------------------------ MODULE CartsProofs ------------------------------
(***************************************************************************)
(* Theorems about Carts: each request to the cart is atomic, a product has *)
(* one line in it, a product moved to the wishlist is there, and three     *)
(* attempts are enough for adds alone.                                     *)
(***************************************************************************)
EXTENDS Carts, FiniteSetTheorems, FunctionTheorems, SequenceTheorems, TLAPS

CartLines == [product : Products, quantity : Nat \ {0}]

\* No product has a second line.
OneLine == \A i, j \in DOMAIN Lines : Lines[i].product = Lines[j].product => i = j

CartInv ==
  /\ items = NoCart \/ items \in Seq(CartLines)
  /\ OneLine

-----------------------------------------------------------------------------
(* The lines of the cart *)

LEMMA NoLineNoUnits == \A p : Line(p) = {} => InCart(p) = 0
<1> SUFFICES ASSUME NEW p, Line(p) = {} PROVE InCart(p) = 0
  OBVIOUS
<1> DEFINE P(f) == f = [s \in SUBSET {} |-> IF s = {} THEN 0
                         ELSE LET x == CHOOSE y \in s : TRUE IN f[s \ {x}] + Lines[x].quantity]
<1>1. \E f : P(f)
  <2>1. P([s \in SUBSET {} |-> 0])
    OBVIOUS
  <2> QED BY <2>1
<1>2. P(CHOOSE f : P(f))
  BY <1>1
<1> QED BY <1>2 DEF InCart, FoldSet, MapThenFoldSet

LEMMA UnitsOfLine == \A p, i : Line(p) = {i} /\ Lines[i].quantity \in Nat => InCart(p) = Lines[i].quantity
<1> SUFFICES ASSUME NEW p, NEW i, Line(p) = {i}, Lines[i].quantity \in Nat PROVE InCart(p) = Lines[i].quantity
  OBVIOUS
<1> DEFINE P(f) == f = [s \in SUBSET {i} |-> IF s = {} THEN 0
                         ELSE LET x == CHOOSE y \in s : TRUE IN f[s \ {x}] + Lines[x].quantity]
           g == [s \in SUBSET {i} |-> IF s = {} THEN 0 ELSE Lines[i].quantity]
<1>1. \E f : P(f)
  <2>1. ASSUME NEW s \in SUBSET {i}, s # {} PROVE (CHOOSE y \in s : TRUE) = i /\ s \ {i} = {}
    BY <2>1
  <2>2. g[{}] = 0
    OBVIOUS
  <2>3. ASSUME NEW s \in SUBSET {i}
        PROVE  g[s] = IF s = {} THEN 0 ELSE LET x == CHOOSE y \in s : TRUE IN g[s \ {x}] + Lines[x].quantity
    BY <2>1, <2>2
  <2>4. P(g)
    BY <2>3
  <2> QED BY <2>4
<1>2. P(CHOOSE f : P(f))
  BY <1>1
<1> DEFINE h == CHOOSE f : P(f)
<1> HIDE DEF h
<1>3. h = [s \in SUBSET {i} |-> IF s = {} THEN 0
                         ELSE LET x == CHOOSE y \in s : TRUE IN h[s \ {x}] + Lines[x].quantity]
  BY <1>2 DEF h
<1>4. h[{}] = 0
  BY <1>3
<1>5. (CHOOSE y \in {i} : TRUE) = i /\ {i} \ {i} = {}
  OBVIOUS
<1>6. h[{i}] = h[{i} \ {i}] + Lines[i].quantity
  BY <1>3, <1>5
<1>7. h[{i}] = Lines[i].quantity
  BY <1>4, <1>5, <1>6
<1>8. InCart(p) = h[{i}]
  BY DEF InCart, FoldSet, MapThenFoldSet, h
<1> QED BY <1>7, <1>8

\* What InCart counts is the quantity of the only line.
Counted ==
  /\ Lines \in Seq(CartLines)
  /\ \A p : Line(p) = {} => InCart(p) = 0
  /\ \A p : \A i \in Line(p) : i \in 1..Len(Lines) /\ Line(p) = {i} /\ InCart(p) = Lines[i].quantity
  /\ \A p : InCart(p) \in Nat /\ (InCart(p) > 0 <=> Line(p) # {})

LEMMA Units == CartInv => Counted
<1> SUFFICES ASSUME CartInv PROVE Counted
  OBVIOUS
<1>1. Lines \in Seq(CartLines) /\ DOMAIN Lines = 1..Len(Lines) /\ Len(Lines) \in Nat
  BY DEF CartInv, Lines
<1>2. ASSUME NEW p, NEW i \in Line(p)
      PROVE  i \in 1..Len(Lines) /\ Line(p) = {i} /\ Lines[i].quantity \in Nat \ {0}
  <2>1. i \in 1..Len(Lines)
    BY <1>1 DEF Line
  <2>2. Lines[i] \in CartLines
    BY <1>1, <2>1
  <2>3. \A j \in Line(p) : j = i
    BY DEF CartInv, OneLine, Line
  <2> QED BY <2>1, <2>2, <2>3 DEF CartLines
<1>3. ASSUME NEW p, NEW i \in Line(p) PROVE InCart(p) = Lines[i].quantity
  BY <1>2, UnitsOfLine
<1>4. ASSUME NEW p PROVE InCart(p) \in Nat /\ (InCart(p) > 0 <=> Line(p) # {})
  <2>1. CASE Line(p) = {}
    BY <2>1, NoLineNoUnits
  <2>2. CASE Line(p) # {}
    <3>1. PICK i : i \in Line(p)
      BY <2>2
    <3>2. InCart(p) \in Nat \ {0}
      BY <3>1, <1>2, <1>3
    <3> QED BY <2>2, <3>2
  <2> QED BY <2>1, <2>2
<1> QED BY <1>1, <1>2, <1>3, <1>4, NoLineNoUnits DEF Counted

LEMMA UnitsNext == CartInv' => Counted'
BY Units, PTL

LEMMA ACart == ASSUME NEW s \in Seq(CartLines) PROVE s # NoCart
<1>1. CartLines \subseteq [product : Products, quantity : Nat]
  BY DEF CartLines
<1>2. s \in Seq([product : Products, quantity : Nat])
  BY <1>1, SeqMonotonic
<1> QED BY <1>2, CartsAssumption

\* What a step that leaves every product one line did to the quantities.
LEMMA OneQuantity ==
  ASSUME CartInv, CartInv', NEW p \in Products, InCart(p)' \in Nat,
         \A q \in Products \ {p} : InCart(q)' = InCart(q)
  PROVE  Contents' = [Contents EXCEPT ![p] = InCart(p)']
BY DEF Contents

\* A quantity of a line is changed.
LEMMA SetLine ==
  ASSUME CartInv, items # NoCart, NEW p \in Products, NEW i \in Line(p), NEW k \in Nat \ {0},
         items' = [items EXCEPT ![i].quantity = k]
  PROVE  /\ CartInv' /\ items' # NoCart
         /\ Contents' = [Contents EXCEPT ![p] = k]
         /\ \A q : Line(q)' = Line(q)
<1>1. Counted
  BY Units
<1>2. Lines = items /\ items \in Seq(CartLines) /\ i \in 1..Len(items) /\ DOMAIN items = 1..Len(items)
      /\ Len(items) \in Nat
  BY <1>1 DEF Counted, Lines
<1>3. items[i] \in CartLines /\ items[i].product = p
  BY <1>2 DEF Line
<1>4. [items[i] EXCEPT !.quantity = k] \in CartLines /\ [items[i] EXCEPT !.quantity = k].product = p
      /\ [items[i] EXCEPT !.quantity = k].quantity = k
  BY <1>3 DEF CartLines
<1>5. /\ items' \in Seq(CartLines) /\ Len(items') = Len(items)
      /\ \A j \in 1..Len(items) : items'[j] = IF j = i THEN [items[i] EXCEPT !.quantity = k] ELSE items[j]
  BY <1>2, <1>4, ExceptSeq
<1>6. items' # NoCart
  BY <1>5, ACart
<1>7. Lines' = items' /\ DOMAIN Lines' = 1..Len(items)
  BY <1>2, <1>5, <1>6 DEF Lines
<1>8. \A j \in 1..Len(items) : Lines'[j].product = Lines[j].product
  BY <1>2, <1>3, <1>4, <1>5, <1>7
<1>9. CartInv'
  BY <1>2, <1>5, <1>7, <1>8 DEF CartInv, OneLine
<1>10. Counted'
  BY <1>9, UnitsNext
<1>11. \A q : Line(q)' = Line(q)
  BY <1>2, <1>7, <1>8 DEF Line
<1>12. InCart(p)' = k
  BY <1>2, <1>4, <1>5, <1>7, <1>10, <1>11 DEF Counted
<1>13. ASSUME NEW q \in Products \ {p} PROVE InCart(q)' = InCart(q)
  <2>1. CASE Line(q) = {}
    BY <2>1, <1>1, <1>10, <1>11 DEF Counted
  <2>2. ASSUME NEW j \in Line(q) PROVE InCart(q)' = InCart(q)
    <3>1. j \in 1..Len(items) /\ j # i
      BY <2>2, <1>1, <1>2, <1>3 DEF Counted, Line
    <3>2. InCart(q)' = Lines'[j].quantity /\ InCart(q) = Lines[j].quantity
      BY <2>2, <1>1, <1>10, <1>11 DEF Counted
    <3> QED BY <3>1, <3>2, <1>2, <1>5, <1>7
  <2> QED BY <2>1, <2>2
<1> QED BY <1>6, <1>9, <1>11, <1>12, <1>13, OneQuantity

\* A line is added for a product that has none, or for the first one of the cart.
LEMMA AddLine ==
  ASSUME CartInv, NEW p \in Products, Line(p) = {}, NEW k \in Nat \ {0},
         items' = Append(Lines, [product |-> p, quantity |-> k])
  PROVE  /\ CartInv' /\ items' # NoCart
         /\ Contents' = [Contents EXCEPT ![p] = k]
         /\ \A q : Line(q) # {} => Line(q)' # {}
<1> DEFINE n == Len(Lines) + 1
<1>1. Counted
  BY Units
<1>2. Lines \in Seq(CartLines) /\ Len(Lines) \in Nat /\ DOMAIN Lines = 1..Len(Lines)
  BY <1>1 DEF Counted
<1>3. [product |-> p, quantity |-> k] \in CartLines
  BY DEF CartLines
<1>4. /\ items' \in Seq(CartLines) /\ Len(items') = n
      /\ items'[n] = [product |-> p, quantity |-> k]
      /\ \A j \in 1..Len(Lines) : items'[j] = Lines[j]
  BY <1>2, <1>3
<1>5. items' # NoCart
  BY <1>4, ACart
<1>6. Lines' = items' /\ DOMAIN Lines' = 1..n
  BY <1>2, <1>4, <1>5 DEF Lines
<1>7. \A j \in 1..Len(Lines) : Lines[j].product # p
  BY <1>2 DEF Line
<1>8. OneLine'
  BY <1>2, <1>4, <1>6, <1>7 DEF CartInv, OneLine
<1>9. CartInv' /\ Counted'
  BY <1>4, <1>8, UnitsNext DEF CartInv
<1>10. n \in Line(p)' /\ Lines'[n].quantity = k
  BY <1>2, <1>4, <1>6 DEF Line
<1>11. \A q : q # p => Line(q)' = Line(q)
  BY <1>2, <1>4, <1>6, <1>7 DEF Line
<1>12. InCart(p)' = k
  BY <1>9, <1>10 DEF Counted
<1>13. ASSUME NEW q \in Products \ {p} PROVE InCart(q)' = InCart(q)
  <2>1. CASE Line(q) = {}
    BY <2>1, <1>1, <1>9, <1>11 DEF Counted
  <2>2. ASSUME NEW j \in Line(q) PROVE InCart(q)' = InCart(q)
    BY <2>2, <1>1, <1>2, <1>4, <1>6, <1>9, <1>11 DEF Counted
  <2> QED BY <2>1, <2>2
<1> QED BY <1>5, <1>9, <1>10, <1>11, <1>12, <1>13, OneQuantity

LEMMA NoLines ==
  ASSUME CartInv, items' = <<>>
  PROVE  CartInv' /\ Contents' = EmptyCart
<1>1. items' \in Seq(CartLines) /\ DOMAIN items' = {}
  OBVIOUS
<1>2. Lines' = <<>>
  BY <1>1, ACart DEF Lines
<1>3. CartInv' /\ \A p : Line(p)' = {}
  BY <1>1, <1>2 DEF CartInv, OneLine, Line
<1> QED BY <1>3, UnitsNext DEF Counted, Contents, EmptyCart

\* The enumeration of the kept lines in their order exists, and leaves none of them out.
Enumerates(f, m, S) ==
  /\ m \in Nat /\ f \in [1..m -> S]
  /\ \A i, j \in 1..m : f[i] = f[j] => i = j
  /\ \A k \in S : \E i \in 1..m : f[i] = k

LEMMA KeptLines ==
  ASSUME NEW n \in Nat, NEW out \in SUBSET (1..n), \A i, j \in out : i = j
  PROVE  Enumerates(InOrder((1..n) \ out), Cardinality((1..n) \ out), (1..n) \ out)
<1> DEFINE kept == (1..n) \ out
           m == Cardinality(kept)
           nth == InOrder(kept)
<1>0. kept = (1..n) \ out /\ m = Cardinality(kept) /\ nth = InOrder(kept)
  OBVIOUS
<1> HIDE DEF kept, m, nth
<1> DEFINE Ordered(f) == \A i, j \in DOMAIN f : i < j => f[i] < f[j]
<1>1. IsFiniteSet(1..n) /\ Cardinality(1..n) = n
  BY FS_Interval
<1>2. IsFiniteSet(kept) /\ m \in Nat /\ \E f \in [1..m -> kept] : Ordered(f)
  <2>1. CASE out = {}
    <3>1. kept = 1..n /\ m = n
      BY <2>1, <1>0, <1>1
    <3>2. [i \in 1..m |-> i] \in [1..m -> kept] /\ Ordered([i \in 1..m |-> i])
      BY <3>1
    <3> QED BY <3>1, <3>2, <1>1
  <2>2. CASE out # {}
    <3>0. PICK o : o \in out
      BY <2>2
    <3>1. out = {o} /\ o \in 1..n
      BY <3>0
    <3>2. kept = (1..n) \ {o}
      BY <3>1, <1>0
    <3>3. IsFiniteSet(kept) /\ m = n - 1 /\ m \in Nat
      <4>1. IsFiniteSet((1..n) \ {o}) /\ Cardinality((1..n) \ {o}) = n - 1
        BY <3>1, <1>1, FS_RemoveElement
      <4> QED BY <3>1, <3>2, <4>1, <1>0
    <3>4. \A i \in 1..m : (IF i < o THEN i ELSE i + 1) \in kept
      BY <3>2, <3>3
    <3> DEFINE f == [i \in 1..m |-> IF i < o THEN i ELSE i + 1]
    <3>5. f \in [1..m -> kept]
      BY <3>4
    <3>6. Ordered(f)
      BY <3>1, <3>3
    <3> QED BY <3>3, <3>5, <3>6
  <2> QED BY <2>1, <2>2
<1>3. nth \in [1..m -> kept] /\ Ordered(nth)
  BY <1>0, <1>2 DEF InOrder
<1>4. kept \subseteq Int
  BY <1>0
<1>5. \A i, j \in 1..m : nth[i] = nth[j] => i = j
  <2> SUFFICES ASSUME NEW i \in 1..m, NEW j \in 1..m, nth[i] = nth[j], i # j PROVE FALSE
    OBVIOUS
  <2>1. nth[i] \in Int /\ nth[j] \in Int /\ i \in Int /\ j \in Int
    <3>1. nth[i] \in kept /\ nth[j] \in kept
      BY <1>3
    <3>2. m \in Nat
      BY <1>2
    <3>3. nth[i] \in Int /\ nth[j] \in Int
      BY <3>1, <1>4
    <3>4. i \in Int /\ j \in Int
      BY <3>2
    <3> QED BY <3>3, <3>4
  <2>2. ~(nth[i] < nth[j]) /\ ~(nth[j] < nth[i])
    BY <2>1
  <2>3. i < j \/ j < i
    BY <2>1
  <2> QED BY <1>3, <2>2, <2>3
<1>6. nth \in Injection(1..m, kept)
  BY <1>3, <1>5, Fun_IsInj
<1>7. IsFiniteSet(1..m) /\ Cardinality(1..m) = m
  BY <1>2, FS_Interval
<1>8. nth \in Surjection(1..m, kept)
  BY <1>0, <1>2, <1>6, <1>7, FS_Injection
<1>9. \A k \in kept : \E i \in 1..m : nth[i] = k
  BY <1>8 DEF Surjection
<1>10. m \in Nat /\ nth \in [1..m -> kept]
  BY <1>2, <1>3
<1>11. Enumerates(nth, m, kept)
  BY <1>5, <1>9, <1>10 DEF Enumerates
<1> QED BY <1>0, <1>11

\* $pull leaves the other products their lines.
LEMMA TakeLine ==
  ASSUME CartInv, items # NoCart, NEW p \in Products, items' = Pull(p)
  PROVE  CartInv' /\ Contents' = [Contents EXCEPT ![p] = 0]
<1> DEFINE n == Len(items)
           kept == (1..n) \ Line(p)
           m == Cardinality(kept)
           nth == InOrder(kept)
<1>1. Counted
  BY Units
<1>2. Lines = items /\ items \in Seq(CartLines) /\ DOMAIN items = 1..n /\ n \in Nat
  BY <1>1 DEF Counted, Lines
<1>3. Line(p) \in SUBSET (1..n) /\ \A i, j \in Line(p) : i = j
  BY <1>1, <1>2 DEF Counted
<1>4. /\ m \in Nat /\ nth \in [1..m -> kept]
      /\ \A i, j \in 1..m : nth[i] = nth[j] => i = j
      /\ \A k \in kept : \E i \in 1..m : nth[i] = k
  <2>1. kept = (1..n) \ Line(p) /\ m = Cardinality(kept) /\ nth = InOrder(kept)
    OBVIOUS
  <2> HIDE DEF n, kept, m, nth
  <2>2. n \in Nat
    BY <1>2
  <2>3. Enumerates(InOrder((1..n) \ Line(p)), Cardinality((1..n) \ Line(p)), (1..n) \ Line(p))
    BY <1>3, <2>2, KeptLines
  <2> QED BY <2>1, <2>3 DEF Enumerates
<1>5. items' = [i \in DOMAIN nth |-> items[nth[i]]]
  BY <1>2 DEF Pull
<1> HIDE DEF m, nth
<1>6. \A i \in 1..m : nth[i] \in 1..n /\ items[nth[i]] \in CartLines
  BY <1>2, <1>4
<1>7. /\ items' = [i \in 1..m |-> items[nth[i]]]
      /\ items' \in Seq(CartLines) /\ DOMAIN items' = 1..m
  BY <1>4, <1>5, <1>6
<1>8. items' # NoCart /\ Lines' = items'
  BY <1>7, ACart DEF Lines
<1>9. OneLine'
  <2> SUFFICES ASSUME NEW i \in 1..m, NEW j \in 1..m, Lines'[i].product = Lines'[j].product PROVE i = j
    BY <1>7, <1>8 DEF OneLine
  <2>1. items[nth[i]].product = items[nth[j]].product
    BY <1>7, <1>8
  <2>2. nth[i] = nth[j]
    BY <2>1, <1>2, <1>6 DEF CartInv, OneLine
  <2> QED BY <2>2, <1>4
<1>10. CartInv' /\ Counted'
  BY <1>7, <1>9, UnitsNext DEF CartInv
<1>11. InCart(p)' = 0
  <2>1. \A i \in 1..m : items'[i].product # p
    BY <1>2, <1>4, <1>7 DEF Line
  <2>2. Line(p)' = {}
    BY <2>1, <1>7, <1>8 DEF Line
  <2> QED BY <2>2, <1>10 DEF Counted
<1>12. ASSUME NEW q \in Products \ {p} PROVE InCart(q)' = InCart(q)
  <2>1. CASE Line(q) = {}
    <3>1. \A i \in 1..m : items'[i].product # q
      BY <2>1, <1>2, <1>6, <1>7 DEF Line
    <3>2. Line(q)' = {}
      BY <3>1, <1>7, <1>8 DEF Line
    <3> QED BY <2>1, <3>2, <1>1, <1>10 DEF Counted
  <2>2. ASSUME NEW j \in Line(q) PROVE InCart(q)' = InCart(q)
    <3>1. j \in 1..n /\ items[j].product = q
      BY <2>2, <1>2 DEF Line
    <3>2. j \in kept
      BY <3>1, <1>2 DEF Line
    <3>3. PICK i \in 1..m : nth[i] = j
      BY <3>2, <1>4
    <3>4. items'[i] = items[j]
      BY <3>3, <1>7
    <3>5. i \in Line(q)'
      BY <3>1, <3>4, <1>7, <1>8 DEF Line
    <3> QED BY <2>2, <3>4, <3>5, <1>1, <1>2, <1>8, <1>10 DEF Counted
  <2> QED BY <2>1, <2>2
<1> QED BY <1>10, <1>11, <1>12, OneQuantity

-----------------------------------------------------------------------------
(* Types *)

Answers == [Products -> Nat] \cup (SUBSET Products) \cup {NoCart}
RequestDocs ==
  [kind : Kinds, tab : Tabs \cup {NoCart}, product : Products \cup {NoCart, SomeProduct}, n : Nat,
   at : Places, tries : Nat, ok : BOOLEAN, moved : BOOLEAN, cart : Answers]
Stores ==
  [signedIn : BOOLEAN, cart : [Products -> Nat], status : {"idle", "loading", "ready", "error"},
   wishes : SUBSET Products, busy : SUBSET Products]

OfCart == CartWrites \cup {"show"}

\* A request under way names a tab and a product, and is answered as it asked.
Docs ==
  {q \in RequestDocs :
     /\ q.at \notin {"ok", "seen"} => ~q.ok
     /\ q.at = "ok" => q.ok /\ q.cart \in (IF q.kind \in OfCart THEN [Products -> Nat] ELSE SUBSET Products)
     /\ q.at = "refused" => q.kind # "clear"
     /\ q.at # "idle" => q.tab \in Tabs
     /\ q.at # "idle" /\ q.kind \in CartWrites \cup WishWrites => q.product \in Products
     /\ q.at # "idle" /\ q.kind \in {"add", "set"} => q.n # 0}

TypeOK ==
  /\ CartInv
  /\ wished = NoCart \/ wished \in SUBSET Products
  /\ inactive \in SUBSET Products
  /\ req \in [Requests -> Docs]
  /\ store \in [Tabs -> Stores]
  /\ signOuts \in Nat

LEMMA Contents0 == CartInv => Contents \in [Products -> Nat]
<1>1. CartInv => \A p : InCart(p) \in Nat
  BY Units DEF Counted
<1> QED BY <1>1 DEF Contents

LEMMA TypeInit == Init => TypeOK
<1> SUFFICES ASSUME Init PROVE TypeOK
  OBVIOUS
<1>1. CartInv
  <2>1. CASE items = NoCart
    BY <2>1 DEF CartInv, OneLine, Lines
  <2>2. ASSUME NEW p \in Products, items = <<[product |-> p, quantity |-> 1]>> PROVE CartInv
    <3>1. items \in Seq(CartLines) /\ DOMAIN items = {1}
      BY <2>2 DEF CartLines
    <3> QED BY <3>1, ACart DEF CartInv, OneLine, Lines
  <2> QED BY <2>1, <2>2 DEF Init
<1>2. Wishes \in SUBSET Products
  BY DEF Init, Wishes
<1>3. NoRequest \in Docs
  BY DEF NoRequest, Docs, RequestDocs, Kinds, Places, Answers
<1>4. Contents \in [Products -> Nat]
  BY <1>1, Contents0
<1> QED BY <1>1, <1>2, <1>3, <1>4 DEF Init, TypeOK, Stores

\* Where a step takes a request.
LEMMA GotoDoc ==
  ASSUME TypeOK, NEW r \in Requests, req[r].at \notin {"idle", "ok", "seen"},
         NEW place \in {"checked", "pushing", "inserting", "written", "refused"},
         place = "refused" => req[r].kind # "clear"
  PROVE  [req[r] EXCEPT !.at = place] \in Docs
<1> DEFINE d == [req[r] EXCEPT !.at = place]
<1>1. req[r] \in Docs /\ req[r] \in RequestDocs
  BY DEF TypeOK, Docs
<1>2. d \in RequestDocs
  BY <1>1 DEF RequestDocs, Places
<1>3. /\ d.kind = req[r].kind /\ d.tab = req[r].tab /\ d.product = req[r].product /\ d.n = req[r].n
      /\ d.at = place /\ d.ok = req[r].ok
  BY <1>1 DEF RequestDocs
<1> HIDE DEF d
<1>4. d \in Docs
  BY <1>1, <1>2, <1>3 DEF Docs
<1> QED BY <1>4 DEF d

LEMMA RetryDoc ==
  ASSUME TypeOK, NEW r \in Requests, req[r].at \notin {"idle", "ok", "seen"}, NEW k \in Nat
  PROVE  [req[r] EXCEPT !.at = "checked", !.tries = k] \in Docs
<1> DEFINE d == [req[r] EXCEPT !.at = "checked", !.tries = k]
<1>1. req[r] \in Docs /\ req[r] \in RequestDocs
  BY DEF TypeOK, Docs
<1>2. d \in RequestDocs
  BY <1>1 DEF RequestDocs, Places
<1>3. /\ d.kind = req[r].kind /\ d.tab = req[r].tab /\ d.product = req[r].product /\ d.n = req[r].n
      /\ d.at = "checked" /\ d.ok = req[r].ok
  BY <1>1 DEF RequestDocs
<1> HIDE DEF d
<1>4. d \in Docs
  BY <1>1, <1>2, <1>3 DEF Docs
<1> QED BY <1>4 DEF d

LEMMA AnswerDoc ==
  ASSUME TypeOK, NEW r \in Requests, req[r].at # "idle",
         NEW c \in (IF req[r].kind \in OfCart THEN [Products -> Nat] ELSE SUBSET Products)
  PROVE  [req[r] EXCEPT !.at = "ok", !.ok = TRUE, !.cart = c] \in Docs
<1> DEFINE d == [req[r] EXCEPT !.at = "ok", !.ok = TRUE, !.cart = c]
<1>1. req[r] \in Docs /\ req[r] \in RequestDocs
  BY DEF TypeOK, Docs
<1>2. d \in RequestDocs
  BY <1>1 DEF RequestDocs, Places, Answers
<1>3. /\ d.kind = req[r].kind /\ d.tab = req[r].tab /\ d.product = req[r].product /\ d.n = req[r].n
      /\ d.at = "ok" /\ d.ok /\ d.cart = c
  BY <1>1 DEF RequestDocs
<1> HIDE DEF d
<1>4. d \in Docs
  BY <1>1, <1>2, <1>3 DEF Docs
<1> QED BY <1>4 DEF d

LEMMA SentDoc ==
  ASSUME NEW k \in Kinds, NEW t \in Tabs, NEW p, NEW n \in Nat,
         p \in Products \/ (k \in {"show", "showWishes"} /\ p = SomeProduct),
         k \in {"add", "set"} => n # 0
  PROVE  /\ Sent(k, t, p, n) \in Docs
         /\ [Sent(k, t, p, n) EXCEPT !.moved = TRUE] \in Docs
BY DEF Sent, NoRequest, Docs, RequestDocs, Places, Answers, Kinds, CartWrites, WishWrites

LEMMA DoneDoc ==
  ASSUME TypeOK, NEW r \in Requests, req[r].at \in {"ok", "refused"}
  PROVE  [req[r] EXCEPT !.at = "seen", !.tries = 0, !.cart = NoCart] \in Docs
<1> DEFINE d == [req[r] EXCEPT !.at = "seen", !.tries = 0, !.cart = NoCart]
<1>1. req[r] \in Docs /\ req[r] \in RequestDocs
  BY DEF TypeOK, Docs
<1>2. d \in RequestDocs
  BY <1>1 DEF RequestDocs, Places, Answers
<1>3. /\ d.kind = req[r].kind /\ d.tab = req[r].tab /\ d.product = req[r].product /\ d.n = req[r].n
      /\ d.at = "seen"
  BY <1>1 DEF RequestDocs
<1> HIDE DEF d
<1>4. d \in Docs
  BY <1>1, <1>2, <1>3 DEF Docs
<1> QED BY <1>4 DEF d

LEMMA FreshIsFree == Free # {} => Fresh \in Requests /\ req[Fresh].at = "idle"
BY DEF Fresh, Free

-----------------------------------------------------------------------------
(* A step of Carts as one of AtomicCart *)

AskedDoc(q) == q.kind \in CartWrites /\ q.at # "idle"
OpDoc(q) == IF AskedDoc(q) THEN [kind |-> q.kind, product |-> q.product, n |-> q.n] ELSE NoOp
StateDoc(q) ==
  IF ~AskedDoc(q) THEN "none"
  ELSE IF q.ok \/ q.at = "written" THEN "done"
  ELSE IF q.at \in {"refused", "seen"} THEN "refused" ELSE "pending"

Atomically == Atomic!ANext \/ UNCHANGED <<Contents, OpOf, StateOf>>

LEMMA Mapped ==
  ASSUME TypeOK, NEW r \in Requests, NEW d, req' = [req EXCEPT ![r] = d]
  PROVE  /\ OpOf[r] = OpDoc(req[r]) /\ StateOf[r] = StateDoc(req[r])
         /\ OpOf' = [OpOf EXCEPT ![r] = OpDoc(d)]
         /\ StateOf' = [StateOf EXCEPT ![r] = StateDoc(d)]
<1>1. req' = [q \in Requests |-> IF q = r THEN d ELSE req[q]]
  BY DEF TypeOK
<1>2. /\ OpOf = [q \in Requests |-> OpDoc(req[q])] /\ StateOf = [q \in Requests |-> StateDoc(req[q])]
      /\ OpOf' = [q \in Requests |-> OpDoc(req'[q])] /\ StateOf' = [q \in Requests |-> StateDoc(req'[q])]
  BY DEF OpOf, StateOf, Asked, OpDoc, StateDoc, AskedDoc
<1>3. /\ OpOf' = [q \in Requests |-> IF q = r THEN OpDoc(d) ELSE OpOf[q]]
      /\ StateOf' = [q \in Requests |-> IF q = r THEN StateDoc(d) ELSE StateOf[q]]
  BY <1>1, <1>2
<1> QED BY <1>2, <1>3

LEMMA SameCart ==
  ASSUME CartInv, UNCHANGED items
  PROVE  CartInv' /\ UNCHANGED Contents
<1>1. Lines' = Lines /\ \A p : Line(p)' = Line(p)
  BY DEF Lines, Line
<1>2. CartInv' /\ Counted /\ Counted'
  BY <1>1, Units, UnitsNext DEF CartInv, OneLine
<1>3. ASSUME NEW p PROVE InCart(p)' = InCart(p)
  <2>1. CASE Line(p) = {}
    BY <1>1, <1>2, <2>1 DEF Counted
  <2>2. ASSUME NEW i \in Line(p) PROVE InCart(p)' = InCart(p)
    BY <1>1, <1>2, <2>2 DEF Counted
  <2> QED BY <2>1, <2>2
<1> QED BY <1>2, <1>3 DEF Contents

\* The request goes on, and the cart does not change.
LEMMA GoesOn ==
  ASSUME TypeOK, NEW r \in Requests, NEW d, req' = [req EXCEPT ![r] = d], UNCHANGED items,
         OpDoc(d) = OpDoc(req[r]), StateDoc(d) = StateDoc(req[r])
  PROVE  UNCHANGED <<Contents, OpOf, StateOf>>
<1>1. UNCHANGED Contents
  BY SameCart DEF TypeOK
<1>2. /\ OpOf[r] = OpDoc(req[r]) /\ StateOf[r] = StateDoc(req[r])
      /\ OpOf' = [OpOf EXCEPT ![r] = OpDoc(d)] /\ StateOf' = [StateOf EXCEPT ![r] = StateDoc(d)]
      /\ OpOf = [q \in Requests |-> OpOf[q]] /\ StateOf = [q \in Requests |-> StateOf[q]]
  BY Mapped DEF OpOf, StateOf
<1> QED BY <1>1, <1>2

LEMMA IsRefused ==
  ASSUME TypeOK, NEW r \in Requests, NEW d, req' = [req EXCEPT ![r] = d], UNCHANGED items,
         OpDoc(d) = OpDoc(req[r]), StateDoc(req[r]) = "pending", StateDoc(d) = "refused"
  PROVE  Atomically
<1>1. UNCHANGED Contents
  BY SameCart DEF TypeOK
<1>2. /\ OpOf[r] = OpDoc(req[r]) /\ StateOf[r] = StateDoc(req[r])
      /\ OpOf' = [OpOf EXCEPT ![r] = OpDoc(d)] /\ StateOf' = [StateOf EXCEPT ![r] = StateDoc(d)]
      /\ OpOf = [q \in Requests |-> OpOf[q]]
  BY Mapped DEF OpOf
<1>3. UNCHANGED OpOf
  BY <1>2
<1> QED BY <1>1, <1>2, <1>3 DEF Atomically, Atomic!ANext, Atomic!Refuse

LEMMA TakesEffect ==
  ASSUME TypeOK, NEW r \in Requests, NEW d, req' = [req EXCEPT ![r] = d],
         OpDoc(d) = OpDoc(req[r]), StateDoc(req[r]) = "pending", StateDoc(d) = "done",
         req[r].kind = "set" => Contents[req[r].product] > 0,
         Contents' = Atomic!Effect(OpDoc(req[r]))
  PROVE  Atomically
<1>1. /\ OpOf[r] = OpDoc(req[r]) /\ StateOf[r] = StateDoc(req[r])
      /\ OpOf' = [OpOf EXCEPT ![r] = OpDoc(d)] /\ StateOf' = [StateOf EXCEPT ![r] = StateDoc(d)]
      /\ OpOf = [q \in Requests |-> OpOf[q]]
  BY Mapped DEF OpOf
<1>2. UNCHANGED OpOf
  BY <1>1
<1>3. AskedDoc(req[r]) /\ OpOf[r].kind = req[r].kind /\ OpOf[r].product = req[r].product
  BY <1>1 DEF StateDoc, OpDoc
<1> QED BY <1>1, <1>2, <1>3 DEF Atomically, Atomic!ANext, Atomic!Apply

LEMMA IsAsked ==
  ASSUME TypeOK, NEW r \in Requests, NEW d, req' = [req EXCEPT ![r] = d], UNCHANGED items,
         StateDoc(req[r]) = "none", StateDoc(d) = "pending", OpDoc(d) \in Atomic!Ops
  PROVE  Atomically
<1>1. UNCHANGED Contents
  BY SameCart DEF TypeOK
<1>2. /\ StateOf[r] = StateDoc(req[r])
      /\ OpOf' = [OpOf EXCEPT ![r] = OpDoc(d)] /\ StateOf' = [StateOf EXCEPT ![r] = StateDoc(d)]
      /\ OpOf = [q \in Requests |-> OpOf[q]]
  BY Mapped DEF OpOf
<1>3. OpOf'[r] = OpDoc(d)
  BY <1>2
<1> QED BY <1>1, <1>2, <1>3 DEF Atomically, Atomic!ANext, Atomic!Ask

-----------------------------------------------------------------------------
(* The server *)

LEMMA RequestStep ==
  ASSUME TypeOK, NEW r \in Requests, NEW d \in Docs, req' = [req EXCEPT ![r] = d], CartInv',
         wished' = NoCart \/ wished' \in SUBSET Products, store' \in [Tabs -> Stores],
         UNCHANGED <<inactive, signOuts>>
  PROVE  TypeOK'
BY DEF TypeOK

LEMMA ServedStore ==
  ASSUME TypeOK, UNCHANGED <<wished, store>>
  PROVE  (wished' = NoCart \/ wished' \in SUBSET Products) /\ store' \in [Tabs -> Stores]
BY DEF TypeOK

LEMMA Asking ==
  ASSUME TypeOK, NEW r \in Requests, req[r].at # "idle", req[r].kind \in CartWrites
  PROVE  /\ AskedDoc(req[r]) /\ req[r].product \in Products /\ req[r].n \in Nat
         /\ req[r].kind \in {"add", "set"} => req[r].n \in Nat \ {0}
         /\ OpDoc(req[r]) = [kind |-> req[r].kind, product |-> req[r].product, n |-> req[r].n]
BY DEF TypeOK, Docs, RequestDocs, AskedDoc, OpDoc

\* Steps of the server that leave the cart alone.
LEMMA Checks ==
  ASSUME TypeOK, NEW r \in Requests, NEW place \in {"checked", "pushing", "inserting", "written", "refused"},
         req[r].at \in {"sent", "checked", "pushing", "inserting"}, place # "written", req[r].kind # "clear",
         Goto(r, place), UNCHANGED <<items, wished, inactive, store, signOuts>>
  PROVE  TypeOK' /\ Atomically
<1> DEFINE d == [req[r] EXCEPT !.at = place]
<1>1. req' = [req EXCEPT ![r] = d]
  BY DEF Goto
<1>2. d \in Docs
  BY GotoDoc
<1>3. req[r] \in Docs
  BY DEF TypeOK
<1>4. d.kind = req[r].kind /\ d.at = place /\ d.ok = req[r].ok /\ d.product = req[r].product /\ d.n = req[r].n
  BY <1>3 DEF Docs, RequestDocs
<1>5. OpDoc(d) = OpDoc(req[r]) /\ ~req[r].ok
  BY <1>3, <1>4 DEF OpDoc, AskedDoc, Docs
<1>6. TypeOK'
  BY <1>1, <1>2, SameCart, ServedStore, RequestStep DEF TypeOK
<1> HIDE DEF d
<1>7. CASE place = "refused" /\ AskedDoc(req[r])
  <2>1. StateDoc(req[r]) = "pending" /\ StateDoc(d) = "refused"
    BY <1>4, <1>5, <1>7 DEF StateDoc, AskedDoc
  <2> QED BY <1>1, <1>5, <1>6, <2>1, IsRefused
<1>8. CASE ~(place = "refused" /\ AskedDoc(req[r]))
  <2>1. StateDoc(req[r]) = StateDoc(d)
    BY <1>4, <1>5, <1>8 DEF StateDoc, AskedDoc
  <2> QED BY <1>1, <1>5, <1>6, <2>1, GoesOn DEF Atomically
<1> QED BY <1>7, <1>8

LEMMA Retries ==
  ASSUME TypeOK, NEW r \in Requests, req[r].at \in {"pushing", "inserting"},
         Retry(r), UNCHANGED <<items, wished, inactive, store, signOuts>>
  PROVE  TypeOK' /\ Atomically
<1> DEFINE d == [req[r] EXCEPT !.at = "checked", !.tries = req[r].tries + 1]
<1>1. req' = [req EXCEPT ![r] = d]
  BY DEF Retry
<1>3. req[r] \in Docs
  BY DEF TypeOK
<1>2. d \in Docs
  <2>1. req[r].tries + 1 \in Nat
    BY <1>3 DEF Docs, RequestDocs
  <2> QED BY <2>1, RetryDoc
<1>4. d.kind = req[r].kind /\ d.at = "checked" /\ d.ok = req[r].ok /\ d.product = req[r].product /\ d.n = req[r].n
  BY <1>3 DEF Docs, RequestDocs
<1>5. OpDoc(d) = OpDoc(req[r]) /\ ~req[r].ok
  BY <1>3, <1>4 DEF OpDoc, AskedDoc, Docs
<1>6. TypeOK'
  BY <1>1, <1>2, SameCart, ServedStore, RequestStep DEF TypeOK
<1> HIDE DEF d
<1>7. StateDoc(req[r]) = StateDoc(d)
  BY <1>4, <1>5 DEF StateDoc, AskedDoc
<1> QED BY <1>1, <1>5, <1>6, <1>7, GoesOn DEF Atomically

\* A read is answered, or the write that took effect before.
LEMMA Answered ==
  ASSUME TypeOK, NEW r \in Requests, req[r].at # "idle",
         NEW c \in (IF req[r].kind \in OfCart THEN [Products -> Nat] ELSE SUBSET Products), Answer(r, c),
         wished' = NoCart \/ wished' \in SUBSET Products, UNCHANGED <<items, inactive, store, signOuts>>,
         req[r].kind \notin CartWrites \/ req[r].at = "written"
  PROVE  TypeOK' /\ Atomically
<1> DEFINE d == [req[r] EXCEPT !.at = "ok", !.ok = TRUE, !.cart = c]
<1>1. req' = [req EXCEPT ![r] = d]
  BY DEF Answer
<1>2. d \in Docs
  BY AnswerDoc
<1>3. req[r] \in Docs /\ store' \in [Tabs -> Stores]
  BY DEF TypeOK
<1>4. d.kind = req[r].kind /\ d.at = "ok" /\ d.ok /\ d.product = req[r].product /\ d.n = req[r].n
  BY <1>3 DEF Docs, RequestDocs
<1>5. OpDoc(d) = OpDoc(req[r])
  BY <1>3, <1>4 DEF OpDoc, AskedDoc
<1>6. TypeOK'
  BY <1>1, <1>2, <1>3, SameCart, RequestStep DEF TypeOK
<1> HIDE DEF d
<1>7. StateDoc(req[r]) = StateDoc(d)
  BY <1>4 DEF StateDoc, AskedDoc
<1> QED BY <1>1, <1>5, <1>6, <1>7, GoesOn DEF Atomically

\* A write to the cart takes effect, and goes to "written" or is answered at once.
LEMMA Written ==
  ASSUME TypeOK, NEW r \in Requests, req[r].kind \in CartWrites,
         req[r].at \in {"sent", "checked", "pushing", "inserting"},
         Goto(r, "written") \/ (\E c \in [Products -> Nat] : Answer(r, c)),
         CartInv', UNCHANGED <<wished, inactive, store, signOuts>>,
         req[r].kind = "set" => Contents[req[r].product] > 0,
         Contents' = Atomic!Effect(OpDoc(req[r]))
  PROVE  TypeOK' /\ Atomically
<1>1. req[r] \in Docs
  BY DEF TypeOK
<1>2. PICK d \in Docs : req' = [req EXCEPT ![r] = d] /\ d.kind = req[r].kind /\ d.product = req[r].product
                        /\ d.n = req[r].n /\ d.at # "idle" /\ (d.ok \/ d.at = "written")
  <2>1. CASE Goto(r, "written")
    <3> DEFINE d == [req[r] EXCEPT !.at = "written"]
    <3>1. d \in Docs /\ req' = [req EXCEPT ![r] = d]
      BY <2>1, GotoDoc DEF Goto
    <3>2. d.kind = req[r].kind /\ d.product = req[r].product /\ d.n = req[r].n /\ d.at = "written"
      BY <1>1 DEF Docs, RequestDocs
    <3> QED BY <3>1, <3>2
  <2>2. ASSUME NEW c \in [Products -> Nat], Answer(r, c)
        PROVE \E d \in Docs : req' = [req EXCEPT ![r] = d] /\ d.kind = req[r].kind /\ d.product = req[r].product
                        /\ d.n = req[r].n /\ d.at # "idle" /\ (d.ok \/ d.at = "written")
    <3> DEFINE d == [req[r] EXCEPT !.at = "ok", !.ok = TRUE, !.cart = c]
    <3>1. d \in Docs /\ req' = [req EXCEPT ![r] = d]
      BY <2>2, AnswerDoc DEF Answer, OfCart
    <3>2. d.kind = req[r].kind /\ d.product = req[r].product /\ d.n = req[r].n /\ d.at = "ok" /\ d.ok
      BY <1>1 DEF Docs, RequestDocs
    <3> QED BY <3>1, <3>2
  <2> QED BY <2>1, <2>2
<1>3. OpDoc(d) = OpDoc(req[r]) /\ StateDoc(req[r]) = "pending" /\ StateDoc(d) = "done"
  BY <1>1, <1>2 DEF OpDoc, StateDoc, AskedDoc, Docs
<1>4. TypeOK'
  BY <1>2, ServedStore, RequestStep
<1> QED BY <1>2, <1>3, <1>4, TakesEffect

\* A pushed line is the effect of an add: the product had none.
LEMMA NewLine ==
  ASSUME TypeOK, NEW r \in Requests, req[r].kind = "add", req[r].at # "idle", Line(req[r].product) = {},
         items' = Append(Lines, [product |-> req[r].product, quantity |-> req[r].n])
  PROVE  CartInv' /\ Contents' = Atomic!Effect(OpDoc(req[r]))
<1> DEFINE p == req[r].product
           n == req[r].n
<1>1. CartInv /\ Counted /\ Contents \in [Products -> Nat]
  BY Units, Contents0 DEF TypeOK
<1>2. OpDoc(req[r]) = [kind |-> "add", product |-> p, n |-> n] /\ p \in Products /\ n \in Nat \ {0}
  BY Asking DEF CartWrites
<1>3. CartInv' /\ Contents' = [Contents EXCEPT ![p] = n]
  BY <1>1, <1>2, AddLine
<1>4. Contents[p] = 0
  BY <1>1, <1>2 DEF Counted, Contents
<1>5. Contents[p] + n = n
  BY <1>2, <1>4
<1>6. Contents' = [Contents EXCEPT ![p] = Contents[p] + n]
  BY <1>3, <1>5
<1>7. Atomic!Effect([kind |-> "add", product |-> p, n |-> n]) = [Contents EXCEPT ![p] = Contents[p] + n]
  BY DEF Atomic!Effect
<1> QED BY <1>2, <1>3, <1>6, <1>7

\* Every database call leaves the cart alone, refuses the request, or is its effect.
LEMMA ServerStep ==
  ASSUME TypeOK, NEW r \in Requests, Server(r)
  PROVE  TypeOK' /\ Atomically
<1> DEFINE p == req[r].product
           o == OpDoc(req[r])
<1>1. CartInv /\ Counted /\ Contents \in [Products -> Nat] /\ Wishes \in SUBSET Products /\ req[r] \in Docs
  BY Units, Contents0 DEF TypeOK, Wishes
<1>2. \A q \in Products : Contents[q] = InCart(q)
  BY DEF Contents
<1>3. CASE Show(r) \/ ReadBack(r)
  <2>1. Answer(r, Contents) /\ req[r].at # "idle" /\ req[r].kind \in OfCart
        /\ (req[r].kind \notin CartWrites \/ req[r].at = "written")
    BY <1>3 DEF Show, ReadBack, At, OfCart, CartWrites
  <2> QED BY <1>1, <1>3, <2>1, Answered DEF Show, ReadBack, TypeOK
<1>4. CASE ShowWishes(r)
  <2>1. Answer(r, Wishes) /\ req[r].at # "idle" /\ req[r].kind \notin OfCart /\ req[r].kind \notin CartWrites
    BY <1>4 DEF ShowWishes, At, OfCart, CartWrites
  <2> QED BY <1>1, <1>4, <2>1, Answered DEF ShowWishes, TypeOK
<1>5. CASE CheckAdd(r) \/ CheckSet(r) \/ CheckWish(r)
  <2>1. PICK place \in {"checked", "inserting", "refused"} : Goto(r, place)
    BY <1>5, Zenon DEF CheckAdd, CheckSet, CheckWish
  <2> QED BY <1>5, <2>1, Checks DEF CheckAdd, CheckSet, CheckWish, At
<1>6. CASE IncrementLine(r)
  <2>1. At(r, {"add"}, "checked") /\ UNCHANGED <<wished, inactive, store, signOuts>>
    BY <1>6 DEF IncrementLine
  <2>2. CASE req[r].tries = 3 \/ Line(p) = {}
    <3>1. UNCHANGED items /\ \E place \in {"pushing", "refused"} : Goto(r, place)
      BY <1>6, <2>2 DEF IncrementLine
    <3> QED BY <2>1, <3>1, Checks DEF At
  <2>3. CASE req[r].tries # 3 /\ Line(p) # {}
    <3>1. PICK i \in Line(p) : items' = [items EXCEPT ![i].quantity = @ + req[r].n]
      BY <1>6, <2>3 DEF IncrementLine
    <3>2. Goto(r, "written") /\ items # NoCart
      BY <1>6, <2>3, <3>1 DEF IncrementLine, Line, Lines
    <3>3. o = [kind |-> "add", product |-> p, n |-> req[r].n] /\ p \in Products /\ req[r].n \in Nat \ {0}
      BY <2>1, Asking DEF At, CartWrites
    <3>4. InCart(p) = items[i].quantity /\ InCart(p) + req[r].n \in Nat \ {0}
      BY <1>1, <3>2, <3>3 DEF Counted, Lines
    <3>5. items' = [items EXCEPT ![i].quantity = InCart(p) + req[r].n]
      BY <3>1, <3>4
    <3>6. CartInv' /\ Contents' = [Contents EXCEPT ![p] = InCart(p) + req[r].n]
      BY <1>1, <3>2, <3>3, <3>4, <3>5, SetLine
    <3>7. Contents' = [Contents EXCEPT ![p] = Contents[p] + req[r].n]
      BY <1>2, <3>3, <3>6
    <3>8. Contents' = Atomic!Effect(o)
      BY <3>3, <3>7 DEF Atomic!Effect
    <3> QED BY <2>1, <3>2, <3>6, <3>8, Written DEF At, CartWrites
  <2> QED BY <2>2, <2>3
<1>7. CASE PushLine(r)
  <2>1. At(r, {"add"}, "pushing") /\ UNCHANGED <<wished, inactive, store, signOuts>>
    BY <1>7 DEF PushLine
  <2>2. CASE items = NoCart
    BY <1>7, <2>1, <2>2, Checks DEF PushLine, At
  <2>3. CASE items # NoCart /\ Line(p) # {}
    BY <1>7, <2>1, <2>3, Retries DEF PushLine, At
  <2>4. CASE items # NoCart /\ Line(p) = {}
    <3>1. items' = Append(Lines, [product |-> p, quantity |-> req[r].n]) /\ Goto(r, "written")
      BY <1>7, <2>4 DEF PushLine, Lines
    <3>2. CartInv' /\ Contents' = Atomic!Effect(o)
      BY <1>1, <1>2, <2>1, <2>4, <3>1, NewLine DEF At
    <3> QED BY <2>1, <3>1, <3>2, Written DEF At, CartWrites
  <2> QED BY <2>2, <2>3, <2>4
<1>8. CASE InsertCart(r)
  <2>1. At(r, {"add"}, "inserting") /\ UNCHANGED <<wished, inactive, store, signOuts>>
    BY <1>8 DEF InsertCart
  <2>2. CASE items # NoCart
    BY <1>8, <2>1, <2>2, Retries DEF InsertCart, At
  <2>3. CASE items = NoCart
    <3>1. Lines = <<>> /\ Line(p) = {}
      BY <2>3 DEF Lines, Line
    <3>2. items' = Append(Lines, [product |-> p, quantity |-> req[r].n]) /\ Goto(r, "written")
      BY <1>8, <2>3, <3>1 DEF InsertCart
    <3>3. CartInv' /\ Contents' = Atomic!Effect(o)
      BY <1>1, <1>2, <2>1, <3>1, <3>2, NewLine DEF At
    <3> QED BY <2>1, <3>2, <3>3, Written DEF At, CartWrites
  <2> QED BY <2>2, <2>3
<1>9. CASE UpdateLine(r)
  <2>1. At(r, {"set"}, "checked") /\ UNCHANGED <<wished, inactive, store, signOuts>>
    BY <1>9 DEF UpdateLine
  <2>2. CASE Line(p) = {}
    BY <1>9, <2>1, <2>2, Checks DEF UpdateLine, At
  <2>3. CASE Line(p) # {}
    <3>1. PICK i \in Line(p) : items' = [items EXCEPT ![i].quantity = req[r].n]
      BY <1>9, <2>3 DEF UpdateLine
    <3>2. Goto(r, "written") /\ items # NoCart
      BY <1>9, <2>3, <3>1 DEF UpdateLine, Line, Lines
    <3>3. o = [kind |-> "set", product |-> p, n |-> req[r].n] /\ p \in Products /\ req[r].n \in Nat \ {0}
      BY <2>1, Asking DEF At, CartWrites
    <3>4. CartInv' /\ Contents' = [Contents EXCEPT ![p] = req[r].n]
      BY <1>1, <3>1, <3>2, <3>3, SetLine
    <3>5. Contents' = Atomic!Effect(o)
      BY <3>3, <3>4 DEF Atomic!Effect
    <3>6. Contents[p] > 0
      BY <1>1, <1>2, <2>3, <3>3 DEF Counted
    <3> QED BY <2>1, <3>2, <3>4, <3>5, <3>6, Written DEF At, CartWrites
  <2> QED BY <2>2, <2>3
<1>10. CASE RemoveLine(r)
  <2>1. At(r, {"remove"}, "sent") /\ UNCHANGED <<wished, inactive, store, signOuts>>
        /\ Answer(r, [Contents EXCEPT ![p] = 0])
    BY <1>10 DEF RemoveLine
  <2>2. o = [kind |-> "remove", product |-> p, n |-> req[r].n] /\ p \in Products
    BY <2>1, Asking DEF At, CartWrites
  <2>3. CartInv' /\ Contents' = [Contents EXCEPT ![p] = 0]
    <3>1. CASE items = NoCart
      <4>1. Line(p) = {} /\ UNCHANGED items
        BY <1>10, <3>1 DEF RemoveLine, Line, Lines
      <4>2. Contents[p] = 0
        BY <1>1, <1>2, <2>2, <4>1 DEF Counted
      <4> QED BY <1>1, <4>1, <4>2, SameCart
    <3>2. CASE items # NoCart
      BY <1>1, <1>10, <2>2, <3>2, TakeLine DEF RemoveLine
    <3> QED BY <3>1, <3>2
  <2>4. Contents' = Atomic!Effect(o)
    BY <2>2, <2>3 DEF Atomic!Effect
  <2>5. [Contents EXCEPT ![p] = 0] \in [Products -> Nat]
    BY <1>1
  <2> QED BY <2>1, <2>3, <2>4, <2>5, Written DEF At, CartWrites
<1>11. CASE ClearCart(r)
  <2>1. At(r, {"clear"}, "sent") /\ items' = <<>> /\ UNCHANGED <<wished, inactive, store, signOuts>>
        /\ Answer(r, EmptyCart)
    BY <1>11 DEF ClearCart
  <2>2. o = [kind |-> "clear", product |-> p, n |-> req[r].n]
    BY <2>1, Asking DEF At, CartWrites
  <2>3. CartInv' /\ Contents' = EmptyCart
    BY <1>1, <2>1, NoLines
  <2>4. Contents' = Atomic!Effect(o)
    BY <2>2, <2>3 DEF Atomic!Effect, EmptyCart
  <2>5. EmptyCart \in [Products -> Nat]
    BY DEF EmptyCart
  <2> QED BY <2>1, <2>3, <2>4, <2>5, Written DEF At, CartWrites
<1>12. CASE AddWish(r)
  <2>1. req[r].kind \in {"wish", "move"} /\ req[r].at \in {"checked", "inserting"}
        /\ UNCHANGED <<items, inactive, store, signOuts>>
    BY <1>12 DEF AddWish, At
  <2>2. p \in Products
    BY <1>1, <2>1 DEF Docs, WishWrites
  <2>3. CASE req[r].at = "inserting" /\ wished # NoCart
    BY <1>12, <2>1, <2>3, Checks DEF AddWish
  <2>4. CASE ~(req[r].at = "inserting" /\ wished # NoCart)
    <3>1. wished' = Wishes \cup {p} /\ Answer(r, wished')
      BY <1>12, <2>4 DEF AddWish
    <3>2. wished' \in SUBSET Products
      BY <1>1, <2>2, <3>1
    <3> QED BY <2>1, <3>1, <3>2, Answered DEF OfCart, CartWrites
  <2> QED BY <2>3, <2>4
<1>13. CASE RemoveWish(r)
  <2>1. At(r, {"unwish"}, "sent") /\ Answer(r, Wishes \ {p}) /\ UNCHANGED <<items, inactive, store, signOuts>>
    BY <1>13 DEF RemoveWish
  <2>2. wished' = NoCart \/ wished' \in SUBSET Products
    BY <1>13 DEF RemoveWish, TypeOK
  <2>3. Wishes \ {p} \in SUBSET Products
    BY <1>1
  <2> QED BY <2>1, <2>2, <2>3, Answered DEF At, OfCart, CartWrites
<1> QED
  BY <1>3, <1>4, <1>5, <1>6, <1>7, <1>8, <1>9, <1>10, <1>11, <1>12, <1>13 DEF Server

-----------------------------------------------------------------------------
(* The client *)

\* A request is sent: the cart hears of those that will change it.
LEMMA Asks ==
  ASSUME TypeOK, NEW r \in Requests, NEW d \in Docs, req' = [req EXCEPT ![r] = d],
         StateDoc(req[r]) = "none", OpDoc(req[r]) = NoOp, d.at = "sent",
         store' \in [Tabs -> Stores], UNCHANGED <<items, wished, inactive, signOuts>>
  PROVE  TypeOK' /\ Atomically
<1>1. TypeOK'
  BY SameCart, RequestStep DEF TypeOK
<1>2. CASE d.kind \in CartWrites
  <2>1. StateDoc(d) = "pending"
    BY <1>2 DEF StateDoc, AskedDoc, Docs
  <2>2. d.product \in Products /\ d.n \in Nat
    BY <1>2 DEF Docs, RequestDocs
  <2>3. OpDoc(d) \in Atomic!Ops
    BY <1>2, <2>2 DEF OpDoc, AskedDoc, Atomic!Ops, CartWrites
  <2> QED BY <1>1, <2>1, <2>3, IsAsked
<1>3. CASE d.kind \notin CartWrites
  BY <1>1, <1>3, GoesOn DEF StateDoc, OpDoc, AskedDoc, Atomically
<1> QED BY <1>2, <1>3

LEMMA Sends ==
  ASSUME TypeOK, NEW k \in Kinds, NEW t \in Tabs, NEW p, NEW n \in Nat,
         p \in Products \/ (k \in {"show", "showWishes"} /\ p = SomeProduct),
         k \in {"add", "set"} => n # 0, Send(k, t, p, n),
         store' \in [Tabs -> Stores], UNCHANGED <<items, wished, inactive, signOuts>>
  PROVE  TypeOK' /\ Atomically
<1>1. Fresh \in Requests /\ req[Fresh].at = "idle" /\ req' = [req EXCEPT ![Fresh] = Sent(k, t, p, n)]
  BY FreshIsFree DEF Send
<1>2. Sent(k, t, p, n) \in Docs
  BY SentDoc
<1>3. Sent(k, t, p, n).at = "sent"
  BY DEF Sent, NoRequest
<1> QED BY <1>1, <1>2, <1>3, Asks DEF StateDoc, OpDoc, AskedDoc

\* An answer is handled: what became of the request stays known.
LEMMA Handled ==
  ASSUME TypeOK, NEW r \in Requests, req[r].at \in {"ok", "refused"}, Done(r),
         store' \in [Tabs -> Stores], UNCHANGED <<items, wished, inactive, signOuts>>
  PROVE  TypeOK' /\ Atomically
<1> DEFINE d == [req[r] EXCEPT !.at = "seen", !.tries = 0, !.cart = NoCart]
<1>1. req' = [req EXCEPT ![r] = d] /\ d \in Docs
  BY DoneDoc DEF Done
<1>2. req[r] \in Docs
  BY DEF TypeOK
<1>3. d.kind = req[r].kind /\ d.at = "seen" /\ d.ok = req[r].ok /\ d.product = req[r].product /\ d.n = req[r].n
  BY <1>2 DEF Docs, RequestDocs
<1>4. TypeOK'
  BY <1>1, SameCart, RequestStep DEF TypeOK
<1> HIDE DEF d
<1>5. OpDoc(d) = OpDoc(req[r]) /\ StateDoc(d) = StateDoc(req[r])
  BY <1>2, <1>3 DEF OpDoc, StateDoc, AskedDoc, Docs
<1> QED BY <1>1, <1>4, <1>5, GoesOn DEF Atomically

LEMMA ClientStep ==
  ASSUME TypeOK, NEW r \in Requests, Client(r)
  PROVE  TypeOK' /\ Atomically
<1> DEFINE t == req[r].tab
           s == store[req[r].tab]
<1>1. req[r] \in Docs /\ req[r].at \in {"ok", "refused"} /\ store \in [Tabs -> Stores]
  BY DEF Client, ShowAnswer, MutateAnswer, ClearAnswer, WishAnswer, MoveAnswer, Replied, TypeOK
<1>2. t \in Tabs /\ s \in Stores /\ (req[r].at = "ok" <=> req[r].ok)
  BY <1>1 DEF Docs, RequestDocs
<1>3. req[r].ok => req[r].cart \in (IF req[r].kind \in OfCart THEN [Products -> Nat] ELSE SUBSET Products)
  BY <1>1, <1>2 DEF Docs
<1>4. ASSUME NEW new \in Stores, store' = [store EXCEPT ![t] = new]
      PROVE  store' \in [Tabs -> Stores]
  BY <1>1, <1>2, <1>4
<1>5. CASE ShowAnswer(r)
  <2>1. req[r].ok => req[r].cart \in [Products -> Nat]
    BY <1>3, <1>5 DEF ShowAnswer, Replied, OfCart
  <2>2. (IF req[r].ok THEN [s EXCEPT !.cart = req[r].cart, !.status = "ready"]
         ELSE [s EXCEPT !.status = "error"]) \in Stores
    BY <1>2, <2>1 DEF Stores
  <2> QED BY <1>1, <1>4, <1>5, <2>2, Handled DEF ShowAnswer, Handle
<1>6. CASE MutateAnswer(r)
  <2>1. req[r].ok => req[r].cart \in [Products -> Nat]
    BY <1>3, <1>6 DEF MutateAnswer, Replied, OfCart, CartWrites
  <2> DEFINE free == [s EXCEPT !.busy = @ \ {req[r].product}]
  <2>2. free \in Stores
    BY <1>2 DEF Stores
  <2>3. (IF req[r].ok THEN [free EXCEPT !.cart = req[r].cart, !.status = "ready"] ELSE free) \in Stores
    BY <2>1, <2>2 DEF Stores
  <2> QED BY <1>1, <1>4, <1>6, <2>3, Handled DEF MutateAnswer, Handle
<1>7. CASE ClearAnswer(r)
  <2>1. req[r].cart \in [Products -> Nat]
    BY <1>1, <1>2, <1>3, <1>7 DEF ClearAnswer, Replied, OfCart, CartWrites, Docs
  <2>2. [s EXCEPT !.cart = req[r].cart] \in Stores
    BY <1>2, <2>1 DEF Stores
  <2> QED BY <1>1, <1>4, <1>7, <2>2, Handled DEF ClearAnswer, Handle
<1>8. CASE WishAnswer(r)
  <2>1. req[r].ok => req[r].cart \in SUBSET Products
    BY <1>3, <1>8 DEF WishAnswer, Replied, OfCart, CartWrites
  <2>2. (IF req[r].ok THEN [s EXCEPT !.wishes = req[r].cart] ELSE s) \in Stores
    BY <1>2, <2>1 DEF Stores
  <2> QED BY <1>1, <1>4, <1>8, <2>2, Handled DEF WishAnswer, Handle
<1>9. CASE MoveAnswer(r)
  <2>1. req[r].kind = "move" /\ req[r].product \in Products
    BY <1>1, <1>9 DEF MoveAnswer, Replied, Docs, WishWrites
  <2>2. CASE ~req[r].ok
    BY <1>1, <1>9, <2>2, Handled DEF MoveAnswer
  <2>3. CASE req[r].ok
    <3> DEFINE d == [Sent("remove", t, req[r].product, 0) EXCEPT !.moved = TRUE]
    <3>1. /\ store' = [store EXCEPT ![t].wishes = req[r].cart, ![t].busy = @ \cup {req[r].product}]
          /\ req' = [req EXCEPT ![r] = d] /\ UNCHANGED <<items, wished, inactive, signOuts>>
      BY <1>9, <2>3 DEF MoveAnswer
    <3>2. req[r].cart \in SUBSET Products
      BY <1>3, <2>1, <2>3 DEF OfCart, CartWrites
    <3>3. store' \in [Tabs -> Stores]
      BY <1>1, <1>2, <2>1, <3>1, <3>2 DEF Stores
    <3>4. d \in Docs /\ d.at = "sent"
      BY <1>2, <2>1, SentDoc DEF Sent, NoRequest, Kinds, CartWrites
    <3>5. StateDoc(req[r]) = "none" /\ OpDoc(req[r]) = NoOp
      BY <2>1 DEF StateDoc, OpDoc, AskedDoc, CartWrites
    <3> QED BY <3>1, <3>3, <3>4, <3>5, Asks
  <2> QED BY <2>2, <2>3
<1> QED BY <1>5, <1>6, <1>7, <1>8, <1>9 DEF Client

LEMMA TabStep ==
  ASSUME TypeOK, NEW t \in Tabs,
         \/ LoadCart(t) \/ LoadWishes(t) \/ Empty(t) \/ SignOut(t) \/ SignIn(t)
         \/ \E p \in Products :
              AddToCart(t, p) \/ SetQuantity(t, p) \/ RemoveFromCart(t, p) \/ Toggle(t, p) \/ MoveToWishlist(t, p)
  PROVE  TypeOK' /\ Atomically
<1>1. store \in [Tabs -> Stores] /\ store[t] \in Stores
  BY DEF TypeOK
<1>2. CASE LoadCart(t)
  <2>1. store' \in [Tabs -> Stores]
    BY <1>1, <1>2 DEF LoadCart, Stores
  <2> QED BY <1>2, <2>1, Sends DEF LoadCart, Kinds
<1>3. CASE LoadWishes(t)
  BY <1>1, <1>3, Sends DEF LoadWishes, Kinds
<1>4. CASE Empty(t)
  <2>1. SomeProduct \in Products
    BY <1>4 DEF Empty, SomeProduct
  <2> QED BY <1>1, <1>4, <2>1, Sends DEF Empty, Kinds, CartWrites
<1>5. CASE SignOut(t)
  <2>1. EmptyCart \in [Products -> Nat]
    BY DEF EmptyCart
  <2>2. Reset(store[t]) \in Stores
    BY <1>1, <2>1 DEF Reset, Stores
  <2>3. store' \in [Tabs -> Stores]
    BY <1>1, <1>5, <2>2 DEF SignOut
  <2>4. TypeOK'
    BY <1>5, <2>3, SameCart DEF TypeOK, SignOut
  <2>5. UNCHANGED Contents
    BY <1>5, SameCart DEF TypeOK, SignOut
  <2>6. UNCHANGED <<OpOf, StateOf>>
    BY <1>5 DEF SignOut, OpOf, StateOf, Asked
  <2> QED BY <2>4, <2>5, <2>6 DEF Atomically
<1>6. CASE SignIn(t)
  <2> DEFINE a == Fresh
             b == CHOOSE r \in Free \ {Fresh} : TRUE
             d == Sent("show", t, SomeProduct, 0)
             e == Sent("showWishes", t, SomeProduct, 0)
  <2>1. a \in Requests /\ b \in Requests /\ a # b /\ req[a].at = "idle" /\ req[b].at = "idle"
    BY <1>6, FreshIsFree DEF SignIn, Free
  <2>2. req' = [req EXCEPT ![a] = d, ![b] = e] /\ UNCHANGED <<items, wished, inactive, signOuts>>
    BY <1>6 DEF SignIn
  <2>3. d \in Docs /\ e \in Docs
    BY SentDoc DEF Kinds
  <2>4. ~AskedDoc(d) /\ ~AskedDoc(e) /\ ~AskedDoc(req[a]) /\ ~AskedDoc(req[b])
    BY <2>1 DEF Sent, NoRequest, AskedDoc, CartWrites
  <2> HIDE DEF a, b, d, e
  <2>5. store' \in [Tabs -> Stores]
    BY <1>1, <1>6 DEF SignIn, Stores
  <2>6. TypeOK' /\ UNCHANGED Contents
    BY <2>1, <2>2, <2>3, <2>5, SameCart DEF TypeOK
  <2>7. \A r \in Requests : req'[r] = req[r] \/ (~AskedDoc(req[r]) /\ ~AskedDoc(req'[r]))
    BY <2>1, <2>2, <2>4 DEF TypeOK
  <2>8. \A r \in Requests : OpDoc(req'[r]) = OpDoc(req[r]) /\ StateDoc(req'[r]) = StateDoc(req[r])
    BY <2>7 DEF OpDoc, StateDoc
  <2>9. /\ OpOf = [r \in Requests |-> OpDoc(req[r])] /\ StateOf = [r \in Requests |-> StateDoc(req[r])]
        /\ OpOf' = [r \in Requests |-> OpDoc(req'[r])] /\ StateOf' = [r \in Requests |-> StateDoc(req'[r])]
    BY DEF OpOf, StateOf, Asked, OpDoc, StateDoc, AskedDoc
  <2>10. UNCHANGED <<OpOf, StateOf>>
    BY <2>8, <2>9
  <2> QED BY <2>6, <2>10 DEF Atomically
<1>7. ASSUME NEW p \in Products, NEW k \in {"add", "set", "remove"}, NEW n \in Nat, k # "remove" => n # 0,
             Mutate(k, t, p, n)
      PROVE  TypeOK' /\ Atomically
  <2>1. store' \in [Tabs -> Stores]
    BY <1>1, <1>7 DEF Mutate, Stores
  <2>2. k \in Kinds
    BY DEF Kinds, CartWrites
  <2> QED BY <1>7, <2>1, <2>2, Sends DEF Mutate
<1>8. ASSUME NEW p \in Products, AddToCart(t, p) \/ SetQuantity(t, p) \/ RemoveFromCart(t, p)
      PROVE  TypeOK' /\ Atomically
  <2>1. CASE AddToCart(t, p)
    <3>1. PICK n \in 1..MaxAdd : Mutate("add", t, p, n)
      BY <2>1 DEF AddToCart
    <3> QED BY <3>1, <1>7, CartsAssumption
  <2>2. CASE SetQuantity(t, p)
    <3>1. PICK n \in 1..MaxQuantity : Mutate("set", t, p, n)
      BY <2>2 DEF SetQuantity
    <3> QED BY <3>1, <1>7, CartsAssumption
  <2>3. CASE RemoveFromCart(t, p)
    BY <2>3, <1>7 DEF RemoveFromCart
  <2> QED BY <1>8, <2>1, <2>2, <2>3
<1>9. ASSUME NEW p \in Products, Toggle(t, p) \/ MoveToWishlist(t, p)
      PROVE  TypeOK' /\ Atomically
  <2>1. PICK k \in {"wish", "unwish", "move"} : Send(k, t, p, 0)
    BY <1>9, Zenon DEF Toggle, MoveToWishlist
  <2>2. UNCHANGED <<items, wished, inactive, store, signOuts>>
    BY <1>9 DEF Toggle, MoveToWishlist
  <2>3. k \in Kinds /\ k \notin {"add", "set"}
    BY DEF Kinds, WishWrites
  <2> QED BY <1>1, <2>1, <2>2, <2>3, Sends
<1> QED BY <1>2, <1>3, <1>4, <1>5, <1>6, <1>8, <1>9

LEMMA Step == TypeOK /\ [Next]_cvars => TypeOK' /\ [Atomic!ANext]_<<Contents, OpOf, StateOf>>
<1> SUFFICES ASSUME TypeOK, [Next]_cvars PROVE TypeOK' /\ Atomically
  BY DEF Atomically
<1>1. CASE \E r \in Requests : Server(r) \/ Client(r)
  BY <1>1, ServerStep, ClientStep
<1>2. CASE \/ \E t \in Tabs : LoadCart(t) \/ LoadWishes(t) \/ Empty(t) \/ SignOut(t) \/ SignIn(t)
           \/ \E t \in Tabs, p \in Products :
                AddToCart(t, p) \/ SetQuantity(t, p) \/ RemoveFromCart(t, p) \/ Toggle(t, p) \/ MoveToWishlist(t, p)
  BY <1>2, TabStep
<1>3. CASE (\E p \in Products : Deactivate(p)) \/ UNCHANGED cvars
  <2>1. /\ UNCHANGED <<items, wished, req, store, signOuts>>
        /\ inactive' = inactive \/ \E p \in Products : inactive' = inactive \cup {p}
    BY <1>3 DEF Deactivate, cvars
  <2>2. TypeOK' /\ UNCHANGED Contents
    BY <2>1, SameCart DEF TypeOK
  <2>3. UNCHANGED <<OpOf, StateOf>>
    BY <2>1 DEF OpOf, StateOf, Asked
  <2> QED BY <2>2, <2>3 DEF Atomically
<1> QED BY <1>1, <1>2, <1>3 DEF Next

-----------------------------------------------------------------------------
\* Every document, request and store stays in a state the schemas and the code admit, and no
\* overlap of adds and first inserts gives a product a second line ($ne and the unique index).
THEOREM CartTypes == CartsSpec => []TypeOK
BY TypeInit, Step, PTL DEF CartsSpec

\* Each request to the cart takes effect in one step, on what the cart holds then, or not at all,
\* whatever other tabs add, set, remove or clear between its database calls.
THEOREM CartIsAtomic == CartsSpec => ImplementsAtomicCart
<1>1. Init => Atomic!AInit
  <2> SUFFICES ASSUME Init PROVE Atomic!AInit
    OBVIOUS
  <2>1. Contents \in [Products -> Nat]
    BY TypeInit, Contents0 DEF TypeOK
  <2>2. \A r \in Requests : ~Asked(r)
    BY DEF Init, Asked, NoRequest
  <2> QED BY <2>1, <2>2 DEF Atomic!AInit, OpOf, StateOf
<1> QED BY <1>1, Step, CartTypes, PTL DEF CartsSpec, ImplementsAtomicCart, Atomic!ASpec, Atomic!avars

-----------------------------------------------------------------------------
(* Moving to the wishlist *)

TakenOut(p) == \E s \in Requests : req[s].kind = "unwish" /\ req[s].ok /\ req[s].product = p

\* A move that was answered well, or went on to the cart, has its product saved.
Moved(q) == (q.kind = "move" /\ q.ok) \/ q.moved
Kept(p) == p \in Wishes \/ TakenOut(p)
MoveInv == \A r \in Requests : Moved(req[r]) => Kept(req[r].product)

\* One request changed, and a product left the wishlist only for a request to take it out.
LEMMA MoveFrame ==
  ASSUME TypeOK, MoveInv, NEW r \in Requests, NEW d, req' = [req EXCEPT ![r] = d],
         (req[r].kind = "unwish" /\ req[r].ok) => (d.kind = "unwish" /\ d.ok /\ d.product = req[r].product),
         Moved(d) => ((d.product \in Wishes') \/ (Moved(req[r]) /\ d.product = req[r].product)),
         \A p \in Wishes : (p \in Wishes') \/ TakenOut(p)'
  PROVE  MoveInv'
<1>1. \A q \in Requests : req'[q] = IF q = r THEN d ELSE req[q]
  BY DEF TypeOK
<1>2. ASSUME NEW p, TakenOut(p) PROVE TakenOut(p)'
  BY <1>1, <1>2 DEF TakenOut
<1>3. ASSUME NEW p, Kept(p) PROVE Kept(p)'
  BY <1>2, <1>3 DEF Kept
<1>4. ASSUME NEW q \in Requests, NEW p, p = req'[q].product, Moved(req'[q]) PROVE Kept(p)'
  <2>1. CASE q = r
    <3>1. req'[q] = d
      BY <1>1, <2>1
    <3>2. CASE d.product \in Wishes'
      BY <1>4, <3>1, <3>2 DEF Kept
    <3>3. CASE Moved(req[r]) /\ d.product = req[r].product
      BY <1>3, <1>4, <3>1, <3>3 DEF MoveInv
    <3> QED BY <1>4, <3>1, <3>2, <3>3
  <2>2. CASE q # r
    <3>1. req'[q] = req[q]
      BY <1>1, <2>2
    <3>2. Kept(p)
      BY <1>4, <3>1 DEF MoveInv
    <3> QED BY <3>2, <1>3
  <2> QED BY <2>1, <2>2
<1> QED BY <1>4 DEF MoveInv, Kept, TakenOut, Moved, Wishes

LEMMA SameWishes ==
  ASSUME UNCHANGED wished PROVE \A p \in Wishes : (p \in Wishes') \/ TakenOut(p)'
BY DEF Wishes

\* A database call that goes on, fails or starts over answers nothing.
LEMMA MoveGoesOn ==
  ASSUME TypeOK, MoveInv, NEW r \in Requests, ~req[r].ok, UNCHANGED wished,
         (\E place : Goto(r, place)) \/ Retry(r)
  PROVE  MoveInv'
<1>1. PICK d : /\ req' = [req EXCEPT ![r] = d]
               /\ d.kind = req[r].kind /\ d.ok = req[r].ok /\ d.product = req[r].product /\ d.moved = req[r].moved
  <2>1. req[r] \in Docs
    BY DEF TypeOK
  <2> QED BY <2>1 DEF Goto, Retry, Docs, RequestDocs
<1> QED BY <1>1, MoveFrame, SameWishes DEF Moved

LEMMA MoveAnswered ==
  ASSUME TypeOK, MoveInv, NEW r \in Requests, ~req[r].ok, NEW c, Answer(r, c),
         req[r].kind = "move" => req[r].product \in Wishes',
         \A p \in Wishes : (p \in Wishes') \/ (req[r].kind = "unwish" /\ req[r].product = p)
  PROVE  MoveInv'
<1> DEFINE d == [req[r] EXCEPT !.at = "ok", !.ok = TRUE, !.cart = c]
<1>1. req[r] \in Docs
  BY DEF TypeOK
<1>2. /\ req' = [req EXCEPT ![r] = d]
      /\ d.kind = req[r].kind /\ d.ok /\ d.product = req[r].product /\ d.moved = req[r].moved
  BY <1>1 DEF Answer, Docs, RequestDocs
<1> HIDE DEF d
<1>3. req'[r] = d
  BY <1>2 DEF TypeOK
<1>4. \A p \in Wishes : (p \in Wishes') \/ TakenOut(p)'
  BY <1>2, <1>3 DEF TakenOut
<1> QED BY <1>2, <1>4, MoveFrame DEF Moved

LEMMA MoveServer ==
  ASSUME TypeOK, MoveInv, NEW r \in Requests, Server(r)
  PROVE  MoveInv'
<1>1. req[r] \in Docs /\ req[r].at \notin {"idle", "ok", "seen"}
  BY DEF TypeOK, Server, Show, CheckAdd, IncrementLine, PushLine, InsertCart, CheckSet, UpdateLine, ReadBack,
         RemoveLine, ClearCart, ShowWishes, CheckWish, AddWish, RemoveWish, At
<1>2. ~req[r].ok
  BY <1>1 DEF Docs
<1>3. CASE AddWish(r)
  <2>1. CASE wished' = wished /\ Goto(r, "refused")
    BY <1>2, <2>1, MoveGoesOn
  <2>2. CASE wished' = Wishes \cup {req[r].product} /\ Answer(r, wished')
    <3>1. wished' # NoCart
      <4>1. Wishes \in SUBSET Products /\ req[r].product \in Products
        BY <1>1, <1>3 DEF TypeOK, Wishes, AddWish, At, Docs, WishWrites
      <4>2. Wishes \cup {req[r].product} \in SUBSET Products
        BY <4>1
      <4> QED BY <2>2, <4>2, CartsAssumption
    <3>2. Wishes' = Wishes \cup {req[r].product}
      BY <2>2, <3>1 DEF Wishes
    <3> QED BY <1>2, <2>2, <3>2, MoveAnswered
  <2> QED BY <1>3, <2>1, <2>2 DEF AddWish
<1>4. CASE RemoveWish(r)
  <2>1. req[r].kind = "unwish" /\ Answer(r, Wishes \ {req[r].product})
    BY <1>4 DEF RemoveWish, At
  <2>2. \A p \in Wishes : (p \in Wishes') \/ req[r].product = p
    <3>1. CASE wished = NoCart
      BY <3>1 DEF Wishes
    <3>2. CASE wished # NoCart
      <4>1. wished \in SUBSET Products /\ wished' = wished \ {req[r].product}
        BY <1>4, <3>2 DEF RemoveWish, TypeOK
      <4>2. wished' \in SUBSET Products
        BY <4>1
      <4>3. wished' # NoCart
        BY <4>2, CartsAssumption
      <4> QED BY <3>2, <4>1, <4>3 DEF Wishes
    <3> QED BY <3>1, <3>2
  <2> QED BY <1>2, <2>1, <2>2, MoveAnswered
<1>5. CASE Server(r) /\ ~AddWish(r) /\ ~RemoveWish(r)
  <2>1. UNCHANGED wished
    BY <1>5 DEF Server, Show, CheckAdd, IncrementLine, PushLine, InsertCart, CheckSet, UpdateLine, ReadBack,
         RemoveLine, ClearCart, ShowWishes, CheckWish
  <2>2. CASE (\E place : Goto(r, place)) \/ Retry(r)
    BY <1>2, <2>1, <2>2, MoveGoesOn
  <2>3. ASSUME NEW c, Answer(r, c), req[r].kind # "move" PROVE MoveInv'
    BY <1>2, <2>1, <2>3, MoveAnswered DEF Wishes
  <2>4. \/ \E place : Goto(r, place)
        \/ Retry(r)
        \/ req[r].kind # "move" /\ \E c : Answer(r, c)
    BY <1>5 DEF Server, Show, CheckAdd, IncrementLine, PushLine, InsertCart, CheckSet, UpdateLine, ReadBack,
         RemoveLine, ClearCart, ShowWishes, CheckWish, At
  <2> QED BY <2>2, <2>3, <2>4
<1> QED BY <1>3, <1>4, <1>5

LEMMA MoveSends ==
  ASSUME TypeOK, MoveInv, NEW k, NEW t, NEW p, NEW n, Send(k, t, p, n), UNCHANGED wished
  PROVE  MoveInv'
<1>1. Fresh \in Requests /\ req[Fresh].at = "idle" /\ req' = [req EXCEPT ![Fresh] = Sent(k, t, p, n)]
  BY FreshIsFree DEF Send
<1>2. ~req[Fresh].ok
  BY <1>1 DEF TypeOK, Docs
<1>3. ~Moved(Sent(k, t, p, n))
  BY DEF Moved, Sent, NoRequest
<1> QED BY <1>1, <1>2, <1>3, MoveFrame, SameWishes

LEMMA MoveClient ==
  ASSUME TypeOK, MoveInv, NEW r \in Requests, Client(r)
  PROVE  MoveInv'
<1>1. req[r] \in Docs /\ UNCHANGED wished
  BY DEF TypeOK, Client, ShowAnswer, MutateAnswer, ClearAnswer, WishAnswer, MoveAnswer, Handle
<1>2. CASE Done(r)
  <2> DEFINE d == [req[r] EXCEPT !.at = "seen", !.tries = 0, !.cart = NoCart]
  <2>1. req' = [req EXCEPT ![r] = d]
    BY <1>2 DEF Done
  <2>2. d.kind = req[r].kind /\ d.ok = req[r].ok /\ d.product = req[r].product /\ d.moved = req[r].moved
    BY <1>1 DEF Docs, RequestDocs
  <2> QED BY <1>1, <2>1, <2>2, MoveFrame, SameWishes DEF Moved
<1>3. CASE MoveAnswer(r) /\ req[r].ok
  <2> DEFINE d == [Sent("remove", req[r].tab, req[r].product, 0) EXCEPT !.moved = TRUE]
  <2>1. req[r].kind = "move" /\ req' = [req EXCEPT ![r] = d]
    BY <1>3 DEF MoveAnswer, Replied
  <2>2. d.product = req[r].product
    BY DEF Sent, NoRequest
  <2>3. Moved(req[r])
    BY <1>3, <2>1 DEF Moved
  <2> QED BY <1>1, <2>1, <2>2, <2>3, MoveFrame, SameWishes
<1> QED
  BY <1>2, <1>3 DEF Client, ShowAnswer, MutateAnswer, ClearAnswer, WishAnswer, MoveAnswer, Handle

LEMMA MoveTab ==
  ASSUME TypeOK, MoveInv, NEW t \in Tabs,
         \/ LoadCart(t) \/ LoadWishes(t) \/ Empty(t) \/ SignOut(t) \/ SignIn(t)
         \/ \E p \in Products :
              AddToCart(t, p) \/ SetQuantity(t, p) \/ RemoveFromCart(t, p) \/ Toggle(t, p) \/ MoveToWishlist(t, p)
  PROVE  MoveInv'
<1>1. UNCHANGED wished
  BY DEF LoadCart, LoadWishes, Empty, SignOut, SignIn, AddToCart, SetQuantity, RemoveFromCart, Toggle,
         MoveToWishlist, Mutate
<1>2. CASE SignOut(t)
  BY <1>2 DEF SignOut, MoveInv, Kept, TakenOut, Wishes
<1>3. CASE SignIn(t)
  <2> DEFINE a == Fresh
             b == CHOOSE r \in Free \ {Fresh} : TRUE
             d == Sent("show", t, SomeProduct, 0)
             e == Sent("showWishes", t, SomeProduct, 0)
  <2>1. a \in Requests /\ b \in Requests /\ req[a].at = "idle" /\ req[b].at = "idle"
    BY <1>3, FreshIsFree DEF SignIn, Free
  <2>2. req' = [req EXCEPT ![a] = d, ![b] = e]
    BY <1>3 DEF SignIn
  <2>3. ~Moved(d) /\ ~Moved(e) /\ ~req[a].ok /\ ~req[b].ok
    BY <2>1 DEF Moved, Sent, NoRequest, TypeOK, Docs
  <2> HIDE DEF a, b, d, e
  <2>4. \A q \in Requests : req'[q] = req[q] \/ (~Moved(req'[q]) /\ ~req[q].ok)
    BY <2>1, <2>2, <2>3 DEF TypeOK
  <2> QED BY <1>1, <2>4 DEF MoveInv, Kept, TakenOut, Wishes
<1>4. CASE \E k, p, n : Send(k, t, p, n)
  BY <1>1, <1>4, MoveSends
<1> QED
  BY <1>2, <1>3, <1>4, Zenon
  DEF LoadCart, LoadWishes, Empty, AddToCart, SetQuantity, RemoveFromCart, Toggle, MoveToWishlist, Mutate

\* A product that was moved is in the wishlist, however the save, the removal from the cart and the
\* answers overlap with other requests, unless somebody took it out of the wishlist.
THEOREM MoveNeverLosesIt == CartsSpec => []MoveNeverLoses
<1>1. Init => MoveInv
  BY DEF Init, MoveInv, Moved, NoRequest
<1>2. TypeOK /\ MoveInv /\ [Next]_cvars => MoveInv'
  <2> SUFFICES ASSUME TypeOK, MoveInv, [Next]_cvars PROVE MoveInv'
    OBVIOUS
  <2>1. CASE \E r \in Requests : Server(r) \/ Client(r)
    BY <2>1, MoveServer, MoveClient
  <2>2. CASE \/ \E t \in Tabs : LoadCart(t) \/ LoadWishes(t) \/ Empty(t) \/ SignOut(t) \/ SignIn(t)
             \/ \E t \in Tabs, p \in Products :
                  AddToCart(t, p) \/ SetQuantity(t, p) \/ RemoveFromCart(t, p) \/ Toggle(t, p) \/ MoveToWishlist(t, p)
    BY <2>2, MoveTab
  <2>3. CASE (\E p \in Products : Deactivate(p)) \/ UNCHANGED cvars
    BY <2>3 DEF Deactivate, cvars, MoveInv, Kept, TakenOut, Wishes
  <2> QED BY <2>1, <2>2, <2>3 DEF Next
<1>3. MoveInv => MoveNeverLoses
  BY DEF MoveInv, Moved, Kept, TakenOut, MoveNeverLoses
<1> QED BY <1>1, <1>2, <1>3, CartTypes, PTL DEF CartsSpec

-----------------------------------------------------------------------------
(* The retries of addQuantity *)

\* A request that takes lines out of the cart.
Takes(q) == q.kind \in {"remove", "clear"} /\ q.at # "idle"
NoneTakes == \A r \in Requests : ~Takes(req[r])

\* Why an add q started over, when the cart is c and mine its lines of the product: first another
\* add inserted the cart, then another one pushed the line, which the next attempt increments.
Progress(q, c, mine) ==
  /\ q.at \in {"idle", "sent", "inserting"} => q.tries = 0
  /\ q.at = "pushing" => q.tries \in {0, 1}
  /\ q.tries \in {0, 1, 2}
  /\ q.tries # 0 => c # NoCart
  /\ q.tries = 2 => mine # {}
AddInv == \A r \in Requests : req[r].kind = "add" => Progress(req[r], items, Line(req[r].product))

\* The cart and its lines stay.
Grows ==
  /\ items # NoCart => items' # NoCart
  /\ \A p : Line(p) # {} => Line(p)' # {}

LEMMA SameLines ==
  ASSUME UNCHANGED items PROVE Grows /\ \A p : Line(p)' = Line(p)
BY DEF Grows, Line, Lines

LEMMA AddFrame ==
  ASSUME TypeOK, NoneTakes => AddInv, NEW r \in Requests, NEW d, NEW p, req' = [req EXCEPT ![r] = d],
         Takes(req[r]) => Takes(d), NoneTakes => Grows,
         (NoneTakes /\ AddInv /\ d.kind = "add") => (d.product = p /\ Progress(d, items', Line(p)'))
  PROVE  NoneTakes' => AddInv'
<1> SUFFICES ASSUME NoneTakes' PROVE AddInv'
  OBVIOUS
<1>1. \A q \in Requests : req'[q] = IF q = r THEN d ELSE req[q]
  BY DEF TypeOK
<1>2. \A q \in Requests : ~Takes(req'[q])
  BY DEF NoneTakes, Takes
<1>3. NoneTakes
  BY <1>1, <1>2 DEF NoneTakes
<1>4. AddInv /\ Grows
  BY <1>3
<1>5. ASSUME NEW q \in Requests, NEW x, x = req'[q].product, req'[q].kind = "add"
      PROVE  Progress(req'[q], items', Line(x)')
  <2>1. CASE q = r
    BY <1>1, <1>3, <1>4, <1>5, <2>1
  <2>2. CASE q # r
    <3>1. req'[q] = req[q] /\ Progress(req[q], items, Line(x))
      BY <1>1, <1>4, <1>5, <2>2 DEF AddInv
    <3> QED BY <1>4, <3>1 DEF Progress, Grows
  <2> QED BY <2>1, <2>2
<1> QED BY <1>5 DEF AddInv, Line, Lines

\* A database call keeps what the request asks for, and the request does not end unanswered.
LEMMA ServerKeeps ==
  ASSUME TypeOK, NEW r \in Requests, Server(r)
  PROVE  /\ req[r] \in Docs /\ req[r].at # "idle" /\ req' = [req EXCEPT ![r] = req'[r]]
         /\ req'[r].kind = req[r].kind /\ req'[r].product = req[r].product /\ req'[r].at # "idle"
<1>1. req[r] \in Docs /\ req[r].at # "idle"
  BY DEF TypeOK, Server, Show, CheckAdd, IncrementLine, PushLine, InsertCart, CheckSet, UpdateLine, ReadBack,
         RemoveLine, ClearCart, ShowWishes, CheckWish, AddWish, RemoveWish, At
<1>2. CASE \E place \in Places \ {"idle"} : Goto(r, place)
  BY <1>1, <1>2 DEF Goto, TypeOK, Docs, RequestDocs
<1>3. CASE Retry(r)
  BY <1>1, <1>3 DEF Retry, TypeOK, Docs, RequestDocs
<1>4. CASE \E c : Answer(r, c)
  BY <1>1, <1>4 DEF Answer, TypeOK, Docs, RequestDocs
<1>5. \/ \E place \in Places \ {"idle"} : Goto(r, place)
      \/ Retry(r)
      \/ \E c : Answer(r, c)
  BY DEF Server, Show, CheckAdd, IncrementLine, PushLine, InsertCart, CheckSet, UpdateLine, ReadBack,
         RemoveLine, ClearCart, ShowWishes, CheckWish, AddWish, RemoveWish, Places
<1> QED BY <1>1, <1>2, <1>3, <1>4, <1>5

\* A line is changed, or one more is pushed: the cart and its lines stay.
LEMMA Writes ==
  ASSUME TypeOK, NEW r \in Requests, req[r].kind \in {"add", "set"}, req[r].at # "idle",
         \/ \E i \in Line(req[r].product), k \in Nat \ {0} : items' = [items EXCEPT ![i].quantity = k]
         \/ /\ Line(req[r].product) = {}
            /\ items' = Append(Lines, [product |-> req[r].product, quantity |-> req[r].n])
  PROVE  Grows
<1>1. CartInv /\ req[r].product \in Products /\ req[r].n \in Nat \ {0}
  BY Asking DEF TypeOK, CartWrites
<1>2. ASSUME NEW i \in Line(req[r].product), NEW k \in Nat \ {0}, items' = [items EXCEPT ![i].quantity = k]
      PROVE  Grows
  <2>1. items # NoCart
    BY <1>2 DEF Line, Lines
  <2> QED BY <1>1, <1>2, <2>1, SetLine DEF Grows
<1>3. CASE /\ Line(req[r].product) = {}
           /\ items' = Append(Lines, [product |-> req[r].product, quantity |-> req[r].n])
  BY <1>1, <1>3, AddLine DEF Grows
<1> QED BY <1>2, <1>3

\* An add that starts over finds what stopped it: a cart the first time, the line the second.
LEMMA AddingStep ==
  ASSUME TypeOK, AddInv, NEW r \in Requests, NEW p, p = req[r].product, req[r].kind = "add", Server(r)
  PROVE  Grows /\ Progress(req'[r], items', Line(p)')
<1>1. req[r] \in Docs /\ req[r].at # "idle" /\ Progress(req[r], items, Line(p))
  BY ServerKeeps DEF AddInv
<1>2. \/ CheckAdd(r) \/ IncrementLine(r) \/ PushLine(r) \/ InsertCart(r) \/ ReadBack(r)
  BY DEF Server, Show, CheckSet, UpdateLine, RemoveLine, ClearCart, ShowWishes, CheckWish, AddWish, RemoveWish, At
<1>3. ASSUME NEW place, Goto(r, place) PROVE req'[r].at = place /\ req'[r].tries = req[r].tries
  BY <1>1, <1>3 DEF Goto, TypeOK, Docs, RequestDocs
<1>4. ASSUME Retry(r) PROVE req'[r].at = "checked" /\ req'[r].tries = req[r].tries + 1
  BY <1>1, <1>4 DEF Retry, TypeOK, Docs, RequestDocs
<1>4a. ASSUME Grows, req'[r].tries = req[r].tries, req'[r].at \notin {"idle", "sent", "inserting", "pushing"}
       PROVE  Grows /\ Progress(req'[r], items', Line(p)')
  <2>1. (req[r].tries # 0 => items # NoCart) /\ (req[r].tries = 2 => Line(p) # {}) /\ req[r].tries \in {0, 1, 2}
    BY <1>1 DEF Progress
  <2>2. (items # NoCart => items' # NoCart) /\ (Line(p) # {} => Line(p)' # {})
    BY <1>4a DEF Grows
  <2> QED BY <1>4a, <2>1, <2>2 DEF Progress
<1>5. CASE CheckAdd(r)
  <2>1. UNCHANGED items /\ req[r].at = "sent" /\ \E place \in {"checked", "refused"} : Goto(r, place)
    BY <1>5 DEF CheckAdd, At
  <2> QED BY <1>3, <1>4a, <2>1, SameLines
<1>6. CASE ReadBack(r)
  <2>1. UNCHANGED items /\ Answer(r, Contents)
    BY <1>6 DEF ReadBack
  <2>2. req'[r].at = "ok" /\ req'[r].tries = req[r].tries
    BY <1>1, <2>1 DEF Answer, TypeOK, Docs, RequestDocs
  <2> QED BY <1>4a, <2>1, <2>2, SameLines
<1>7. CASE IncrementLine(r)
  <2>1. req[r].at = "checked" /\ req[r].tries # 3
    BY <1>1, <1>7 DEF IncrementLine, At, Progress
  <2>2. CASE Line(p) = {}
    <3>1. UNCHANGED items /\ Goto(r, "pushing")
      BY <1>7, <2>1, <2>2 DEF IncrementLine
    <3> QED BY <1>1, <1>3, <2>1, <2>2, <3>1, SameLines DEF Progress
  <2>3. CASE Line(p) # {}
    <3>1. PICK i \in Line(p) : items' = [items EXCEPT ![i].quantity = @ + req[r].n]
      BY <1>7, <2>1, <2>3 DEF IncrementLine
    <3>2. Goto(r, "written")
      BY <1>7, <2>1, <2>3 DEF IncrementLine
    <3>3. items[i].quantity + req[r].n \in Nat \ {0}
      <4>1. items # NoCart /\ Counted
        BY <3>1, Units DEF Line, Lines, TypeOK
      <4>2. items[i].quantity \in Nat
        BY <3>1, <4>1 DEF Counted, Lines
      <4>3. req[r].n \in Nat \ {0}
        BY <1>1, Asking DEF CartWrites
      <4> QED BY <4>2, <4>3
    <3>4. items' = [items EXCEPT ![i].quantity = items[i].quantity + req[r].n]
      BY <3>1
    <3>5. Grows
      BY <1>1, <3>3, <3>4, Writes
    <3> QED BY <1>3, <1>4a, <3>2, <3>5
  <2> QED BY <2>2, <2>3
<1>8. CASE PushLine(r)
  <2>1. req[r].at = "pushing"
    BY <1>8 DEF PushLine, At
  <2>2. CASE items = NoCart
    <3>1. UNCHANGED items /\ Goto(r, "inserting")
      BY <1>8, <2>2 DEF PushLine
    <3> QED BY <1>1, <1>3, <2>1, <2>2, <3>1, SameLines DEF Progress
  <2>3. CASE items # NoCart /\ Line(p) # {}
    <3>1. UNCHANGED items /\ Retry(r)
      BY <1>8, <2>3 DEF PushLine
    <3>2. req'[r].tries \in {1, 2} /\ req'[r].at = "checked" /\ items' # NoCart /\ Line(p)' # {}
      <4>1. req[r].tries \in {0, 1}
        BY <1>1, <2>1 DEF Progress
      <4>2. Line(p)' = Line(p)
        BY <3>1, SameLines
      <4>3. req'[r].tries = req[r].tries + 1 /\ req'[r].at = "checked"
        BY <1>4, <3>1
      <4>4. req'[r].tries \in {1, 2}
        BY <4>1, <4>3
      <4> QED BY <2>3, <3>1, <4>2, <4>3, <4>4
    <3> QED BY <3>1, <3>2, SameLines DEF Progress
  <2>4. CASE items # NoCart /\ Line(p) = {}
    <3>1. items' = Append(Lines, [product |-> p, quantity |-> req[r].n]) /\ Goto(r, "written")
      BY <1>8, <2>4 DEF PushLine, Lines
    <3>2. Grows
      BY <1>1, <2>4, <3>1, Writes
    <3> QED BY <1>3, <1>4a, <3>1, <3>2
  <2> QED BY <2>2, <2>3, <2>4
<1>9. CASE InsertCart(r)
  <2>1. req[r].at = "inserting" /\ req[r].tries = 0
    BY <1>1, <1>9 DEF InsertCart, At, Progress
  <2>2. CASE items # NoCart
    <3>1. UNCHANGED items /\ Retry(r)
      BY <1>9, <2>2 DEF InsertCart
    <3> QED BY <1>4, <2>1, <2>2, <3>1, SameLines DEF Progress
  <2>3. CASE items = NoCart
    <3>1. Lines = <<>> /\ Line(p) = {}
      BY <2>3 DEF Lines, Line
    <3>2. items' = Append(Lines, [product |-> p, quantity |-> req[r].n]) /\ Goto(r, "written")
      BY <1>9, <2>3, <3>1 DEF InsertCart
    <3>3. Grows
      BY <1>1, <3>1, <3>2, Writes
    <3> QED BY <1>3, <2>1, <3>2, <3>3 DEF Progress
  <2> QED BY <2>2, <2>3
<1> QED BY <1>2, <1>5, <1>6, <1>7, <1>8, <1>9

LEMMA AddServer ==
  ASSUME TypeOK, NoneTakes => AddInv, NEW r \in Requests, Server(r)
  PROVE  NoneTakes' => AddInv'
<1> DEFINE d == req'[r]
<1>1. /\ req[r] \in Docs /\ req[r].at # "idle" /\ req' = [req EXCEPT ![r] = d]
      /\ d.kind = req[r].kind /\ d.product = req[r].product /\ d.at # "idle"
  BY ServerKeeps
<1>2. Takes(req[r]) => Takes(d)
  BY <1>1 DEF Takes
<1>3. PICK p : p = req[r].product
  OBVIOUS
<1>4. CASE req[r].kind = "add"
  <2>1. NoneTakes => Grows /\ Progress(d, items', Line(p)')
    BY <1>3, <1>4, AddingStep
  <2> QED BY <1>1, <1>2, <1>3, <2>1, AddFrame
<1>5. CASE req[r].kind # "add"
  <2>1. NoneTakes => Grows
    <3> SUFFICES ASSUME NoneTakes PROVE Grows
      OBVIOUS
    <3>1. req[r].kind \notin {"remove", "clear"}
      BY <1>1 DEF NoneTakes, Takes
    <3>2. CASE UNCHANGED items
      BY <3>2, SameLines
    <3>3. CASE ~UNCHANGED items
      <4>1. UpdateLine(r)
        BY <1>5, <3>1, <3>3 DEF Server, Show, CheckAdd, IncrementLine, PushLine, InsertCart, CheckSet, ReadBack,
             RemoveLine, ClearCart, ShowWishes, CheckWish, AddWish, RemoveWish, At
      <4>2. PICK i \in Line(req[r].product) : items' = [items EXCEPT ![i].quantity = req[r].n]
        BY <4>1, <3>3 DEF UpdateLine
      <4>3. req[r].kind = "set" /\ req[r].n \in Nat \ {0}
        BY <1>1, <4>1, Asking DEF UpdateLine, At, CartWrites
      <4> QED BY <1>1, <4>2, <4>3, Writes
    <3> QED BY <3>2, <3>3
  <2> QED BY <1>1, <1>2, <1>5, <2>1, AddFrame
<1> QED BY <1>4, <1>5

\* A request is sent, or its answer is handled: it has not tried, or does not any more.
LEMMA AddElsewhere ==
  ASSUME TypeOK, NoneTakes => AddInv, NEW r \in Requests, NEW d, req' = [req EXCEPT ![r] = d],
         Takes(req[r]) => Takes(d), d.at \in {"sent", "seen"}, d.tries = 0, UNCHANGED items
  PROVE  NoneTakes' => AddInv'
<1>1. PICK p : p = d.product
  OBVIOUS
<1>2. Progress(d, items', Line(p)')
  BY DEF Progress
<1> QED BY <1>1, <1>2, AddFrame, SameLines

LEMMA AddClient ==
  ASSUME TypeOK, NoneTakes => AddInv, NEW r \in Requests, Client(r)
  PROVE  NoneTakes' => AddInv'
<1>1. req[r] \in Docs /\ UNCHANGED items
  BY DEF TypeOK, Client, ShowAnswer, MutateAnswer, ClearAnswer, WishAnswer, MoveAnswer, Handle
<1>2. CASE Done(r)
  <2> DEFINE d == [req[r] EXCEPT !.at = "seen", !.tries = 0, !.cart = NoCart]
  <2>1. req' = [req EXCEPT ![r] = d]
    BY <1>2 DEF Done
  <2>2. d.kind = req[r].kind /\ d.at = "seen" /\ d.tries = 0
    BY <1>1 DEF Docs, RequestDocs
  <2> QED BY <1>1, <2>1, <2>2, AddElsewhere DEF Takes
<1>3. CASE MoveAnswer(r) /\ req[r].ok
  <2> DEFINE d == [Sent("remove", req[r].tab, req[r].product, 0) EXCEPT !.moved = TRUE]
  <2>1. req[r].kind = "move" /\ req' = [req EXCEPT ![r] = d]
    BY <1>3 DEF MoveAnswer, Replied
  <2>2. d.at = "sent" /\ d.tries = 0
    BY DEF Sent, NoRequest
  <2>3. ~Takes(req[r])
    BY <2>1 DEF Takes
  <2> QED BY <1>1, <2>1, <2>2, <2>3, AddElsewhere
<1> QED
  BY <1>2, <1>3 DEF Client, ShowAnswer, MutateAnswer, ClearAnswer, WishAnswer, MoveAnswer, Handle

LEMMA AddTab ==
  ASSUME TypeOK, NoneTakes => AddInv, NEW t \in Tabs,
         \/ LoadCart(t) \/ LoadWishes(t) \/ Empty(t) \/ SignOut(t) \/ SignIn(t)
         \/ \E p \in Products :
              AddToCart(t, p) \/ SetQuantity(t, p) \/ RemoveFromCart(t, p) \/ Toggle(t, p) \/ MoveToWishlist(t, p)
  PROVE  NoneTakes' => AddInv'
<1>1. UNCHANGED items
  BY DEF LoadCart, LoadWishes, Empty, SignOut, SignIn, AddToCart, SetQuantity, RemoveFromCart, Toggle,
         MoveToWishlist, Mutate
<1>2. CASE SignOut(t)
  BY <1>2 DEF SignOut, NoneTakes, AddInv, Line, Lines
<1>3. CASE SignIn(t)
  <2> DEFINE a == Fresh
             b == CHOOSE r \in Free \ {Fresh} : TRUE
             d == Sent("show", t, SomeProduct, 0)
             e == Sent("showWishes", t, SomeProduct, 0)
  <2>1. a \in Requests /\ b \in Requests /\ req[a].at = "idle" /\ req[b].at = "idle"
    BY <1>3, FreshIsFree DEF SignIn, Free
  <2>2. req' = [req EXCEPT ![a] = d, ![b] = e]
    BY <1>3 DEF SignIn
  <2>3. ~Takes(req[a]) /\ ~Takes(req[b]) /\ d.kind # "add" /\ e.kind # "add"
    BY <2>1 DEF Takes, Sent, NoRequest
  <2> HIDE DEF a, b, d, e
  <2>4. \A q \in Requests : req'[q] = req[q] \/ (~Takes(req[q]) /\ req'[q].kind # "add")
    BY <2>1, <2>2, <2>3 DEF TypeOK
  <2>5. NoneTakes' => NoneTakes
    BY <2>4 DEF NoneTakes, Takes
  <2> QED BY <1>1, <2>4, <2>5 DEF AddInv, Line, Lines
<1>4. ASSUME NEW k, NEW p, NEW n, Send(k, t, p, n) PROVE NoneTakes' => AddInv'
  <2>1. Fresh \in Requests /\ req[Fresh].at = "idle" /\ req' = [req EXCEPT ![Fresh] = Sent(k, t, p, n)]
    BY <1>4, FreshIsFree DEF Send
  <2>2. Sent(k, t, p, n).at = "sent" /\ Sent(k, t, p, n).tries = 0
    BY DEF Sent, NoRequest
  <2> QED BY <1>1, <2>1, <2>2, AddElsewhere DEF Takes
<1>5. SignOut(t) \/ SignIn(t) \/ \E k, p, n : Send(k, t, p, n)
  BY Zenon DEF LoadCart, LoadWishes, Empty, AddToCart, SetQuantity, RemoveFromCart, Toggle, MoveToWishlist, Mutate
<1> QED BY <1>2, <1>3, <1>4, <1>5

\* Three attempts are enough: while nothing is taken out of the cart, no overlap of adds and first
\* inserts, of whatever products, brings an add to the error that ends its retries.
THEOREM AddsNeverExhaustRetries == CartsSpec => []AddsSucceedTogether
<1>1. Init => (NoneTakes => AddInv)
  BY DEF Init, AddInv, NoRequest
<1>2. TypeOK /\ (NoneTakes => AddInv) /\ [Next]_cvars => (NoneTakes => AddInv)'
  <2> SUFFICES ASSUME TypeOK, NoneTakes => AddInv, [Next]_cvars PROVE NoneTakes' => AddInv'
    OBVIOUS
  <2>1. CASE \E r \in Requests : Server(r) \/ Client(r)
    BY <2>1, AddServer, AddClient
  <2>2. CASE \/ \E t \in Tabs : LoadCart(t) \/ LoadWishes(t) \/ Empty(t) \/ SignOut(t) \/ SignIn(t)
             \/ \E t \in Tabs, p \in Products :
                  AddToCart(t, p) \/ SetQuantity(t, p) \/ RemoveFromCart(t, p) \/ Toggle(t, p) \/ MoveToWishlist(t, p)
    BY <2>2, AddTab
  <2>3. CASE (\E p \in Products : Deactivate(p)) \/ UNCHANGED cvars
    BY <2>3 DEF Deactivate, cvars, NoneTakes, AddInv, Line, Lines
  <2> QED BY <2>1, <2>2, <2>3 DEF Next
<1>3. TypeOK /\ (NoneTakes => AddInv) => AddsSucceedTogether
  BY DEF NoneTakes, Takes, AddInv, Progress, AddsSucceedTogether
<1> QED BY <1>1, <1>2, <1>3, CartTypes, PTL DEF CartsSpec
=============================================================================
