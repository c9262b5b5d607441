--------------------------- MODULE CatalogueProofs ---------------------------
(***************************************************************************)
(* Proofs about Catalogue for any products, processes, queries and         *)
(* requests, any TTL and size of the cache, and any number of faults.      *)
(*                                                                         *)
(* The argument has two halves.  Of the writers: a request's upload is in  *)
(* uploads/ exactly while it may still become an image (Uploads), and no   *)
(* process deleted its lists at a version still to come (Seen).  Of the    *)
(* lists: an entry expires TTL after its queries began (Timed), and what   *)
(* is found is as new as the last cache.del of the process, unless that    *)
(* came between the queries and the store, which marks the list (Listed).  *)
(***************************************************************************)
EXTENDS Catalogue, SequenceTheorems, TLAPS

Ops == {"create", "update", "delete"}
ProductDocs == [state : {"none", "active", "deleted"}, version : Nat, image : Products \cup Writers \cup {None}]
Forms == [pc : {"write", "invalidate"}, op : Ops, product : Products, process : Processes, file : BOOLEAN]
Found == {None} \cup UNION {[Matches[k] -> Nat] : k \in Keys}
Queries == [pc : {"read"}, key : Keys, process : Processes, found : Found, counted : Found,
            began : Nat, raced : BOOLEAN]
Entries == [key : Keys, found : Found, counted : Found, expiresAt : Nat, began : Nat, raced : BOOLEAN]

WriterTypes ==
  /\ product \in [Products -> ProductDocs]
  /\ writer \in [Writers -> {IdleWriter} \cup {Ended(how) : how \in {"refused", "done", "dead"}} \cup Forms]
  /\ deleted \in [Processes -> [Products -> Nat]]

ListTypes ==
  /\ lister \in [Listers -> {IdleLister} \cup Queries]
  /\ cache \in [Processes -> Seq(Entries)]
  /\ now \in Nat

\* An upload is there while its request is not over, and an image is there for good.
Uploads ==
  /\ \A p \in Products : product[p].image \in files \cup {None}
  /\ \A w \in Writers : writer[w].pc \in {"idle", "write"} => \A p \in Products : product[p].image # w
  /\ \A w \in Writers : writer[w].pc = "idle" => w \notin files
  /\ \A w \in Writers : writer[w].pc = "write" => (w \in files <=> writer[w].file)

Wanted(f) ==
  \/ f # None /\ \E p \in Products : product[p].image = f
  \/ f \in replaced
  \/ f \in Writers /\ writer[f].pc = "write"
Needed == \A f \in files : Wanted(f)

Seen == \A i \in Processes, p \in Products : deleted[i][p] <= product[p].version

\* No query takes longer than a tick.
Timed ==
  /\ \A l \in Listers : lister[l].pc = "read" => lister[l].began = now
  /\ \A i \in Processes : \A e \in ToSet(cache[i]) : e.expiresAt = e.began + TTL

AsNew(i, k, found) == \A p \in Matches[k] : found[p] >= deleted[i][p]
Listed ==
  /\ \A l \in Listers : lister[l].pc = "read" /\ ~lister[l].raced =>
       /\ lister[l].found # None => AsNew(lister[l].process, lister[l].key, lister[l].found)
       /\ lister[l].counted # None => AsNew(lister[l].process, lister[l].key, lister[l].counted)
  /\ \A i \in Processes : \A e \in ToSet(cache[i]) : ~e.raced =>
       AsNew(i, e.key, e.found) /\ AsNew(i, e.key, e.counted)

WriterInv == WriterTypes /\ Uploads /\ Needed /\ Seen
ListInv == ListTypes /\ Timed /\ Listed
IInv == WriterInv /\ ListInv

-----------------------------------------------------------------------------
(* The entries of a cache *)

LEMMA PartOf ==
  ASSUME NEW S, NEW s \in Seq(S), NEW m \in Nat \ {0}, NEW n \in Nat, n <= Len(s)
  PROVE  SubSeq(s, m, n) \in Seq(S) /\ ToSet(SubSeq(s, m, n)) \subseteq ToSet(s)
<1> DEFINE t == SubSeq(s, m, n)
<1>1. Len(s) \in Nat /\ DOMAIN s = 1..Len(s) /\ \A i \in m..n : s[i] \in S
  OBVIOUS
<1>2. t \in Seq(S) /\ Len(t) = (IF m <= n THEN n - m + 1 ELSE 0) /\ \A i \in 1..(n - m + 1) : t[i] = s[m + i - 1]
  BY <1>1, SubSeqProperties
<1> HIDE DEF t
<1>3. DOMAIN t = 1..Len(t)
  BY <1>2
<1>4. ASSUME NEW i \in 1..Len(t) PROVE t[i] = s[m + i - 1] /\ m + i - 1 \in 1..Len(s)
  BY <1>1, <1>2, <1>4
<1>5. ToSet(t) \subseteq ToSet(s)
  BY <1>1, <1>3, <1>4 DEF ToSet
<1> QED BY <1>2, <1>5 DEF t

LEMMA Joined ==
  ASSUME NEW S, NEW s \in Seq(S), NEW t \in Seq(S)
  PROVE  s \o t \in Seq(S) /\ ToSet(s \o t) \subseteq ToSet(s) \cup ToSet(t)
<1> DEFINE u == s \o t
<1>1. /\ u \in Seq(S) /\ Len(u) = Len(s) + Len(t)
      /\ \A i \in 1..(Len(s) + Len(t)) : u[i] = IF i <= Len(s) THEN s[i] ELSE t[i - Len(s)]
  BY ConcatProperties
<1>2. /\ Len(s) \in Nat /\ Len(t) \in Nat
      /\ DOMAIN s = 1..Len(s) /\ DOMAIN t = 1..Len(t) /\ DOMAIN u = 1..Len(u)
  BY <1>1
<1> HIDE DEF u
<1>3. ASSUME NEW i \in 1..Len(u) PROVE u[i] \in ToSet(s) \cup ToSet(t)
  <2>1. CASE i <= Len(s)
    <3>1. i \in 1..Len(s) /\ u[i] = s[i]
      BY <1>1, <1>2, <2>1
    <3> QED BY <1>2, <3>1 DEF ToSet
  <2>2. CASE ~(i <= Len(s))
    <3>1. i - Len(s) \in 1..Len(t) /\ u[i] = t[i - Len(s)]
      BY <1>1, <1>2, <2>2
    <3> QED BY <1>2, <3>1 DEF ToSet
  <2> QED BY <2>1, <2>2
<1>4. ToSet(u) \subseteq ToSet(s) \cup ToSet(t)
  BY <1>2, <1>3 DEF ToSet
<1> QED BY <1>1, <1>4 DEF u

LEMMA Added ==
  ASSUME NEW S, NEW s \in Seq(S), NEW e \in S
  PROVE  Append(s, e) \in Seq(S) /\ ToSet(Append(s, e)) = ToSet(s) \cup {e}
<1> DEFINE t == Append(s, e)
<1>1. /\ t \in Seq(S) /\ Len(s) \in Nat /\ Len(t) = Len(s) + 1 /\ t[Len(s) + 1] = e
      /\ \A i \in 1..Len(s) : t[i] = s[i]
      /\ DOMAIN s = 1..Len(s) /\ DOMAIN t = 1..Len(t)
  OBVIOUS
<1> HIDE DEF t
<1>2. \A i \in 1..Len(t) : i \in 1..Len(s) \/ i = Len(s) + 1
  BY <1>1
<1>3. \A i \in 1..Len(s) : i \in 1..Len(t)
  BY <1>1
<1>4. Len(s) + 1 \in 1..Len(t)
  BY <1>1
<1>5. ToSet(t) = ToSet(s) \cup {e}
  BY <1>1, <1>2, <1>3, <1>4 DEF ToSet
<1> QED BY <1>1, <1>5 DEF t

LEMMA WithoutKeeps ==
  ASSUME NEW S, NEW s \in Seq(S), NEW k
  PROVE  Without(s, k) \in Seq(S) /\ ToSet(Without(s, k)) \subseteq ToSet(s)
<1> DEFINE at == {n \in DOMAIN s : s[n].key = k}
<1>1. CASE at = {}
  BY <1>1 DEF Without
<1>2. CASE at # {}
  <2>1. PICK n \in at : n = CHOOSE m \in at : TRUE
    BY <1>2
  <2>2. n \in 1..Len(s) /\ Len(s) \in Nat
    OBVIOUS
  <2>3. Without(s, k) = SubSeq(s, 1, n - 1) \o SubSeq(s, n + 1, Len(s))
    BY <1>2, <2>1 DEF Without, RemoveAt
  <2>4. /\ SubSeq(s, 1, n - 1) \in Seq(S) /\ ToSet(SubSeq(s, 1, n - 1)) \subseteq ToSet(s)
        /\ SubSeq(s, n + 1, Len(s)) \in Seq(S) /\ ToSet(SubSeq(s, n + 1, Len(s))) \subseteq ToSet(s)
    <3>1. 1 \in Nat \ {0} /\ n - 1 \in Nat /\ n - 1 <= Len(s) /\ n + 1 \in Nat \ {0}
      BY <2>2
    <3>2. SubSeq(s, 1, n - 1) \in Seq(S) /\ ToSet(SubSeq(s, 1, n - 1)) \subseteq ToSet(s)
      BY <3>1, PartOf
    <3>3. SubSeq(s, n + 1, Len(s)) \in Seq(S) /\ ToSet(SubSeq(s, n + 1, Len(s))) \subseteq ToSet(s)
      BY <2>2, <3>1, PartOf
    <3> QED BY <3>2, <3>3
  <2>5. PICK a, b \in Seq(S) : /\ a = SubSeq(s, 1, n - 1) /\ b = SubSeq(s, n + 1, Len(s))
                               /\ ToSet(a) \subseteq ToSet(s) /\ ToSet(b) \subseteq ToSet(s)
    BY <2>4
  <2>6. a \o b \in Seq(S) /\ ToSet(a \o b) \subseteq ToSet(a) \cup ToSet(b)
    BY Joined
  <2> QED BY <2>3, <2>5, <2>6
<1> QED BY <1>1, <1>2

\* What a cache holds after set: the new entry, and otherwise entries it held.
LEMMA PutKeeps ==
  ASSUME NEW S, NEW s \in Seq(S), NEW e \in S
  PROVE  Put(s, e) \in Seq(S) /\ ToSet(Put(s, e)) \subseteq ToSet(s) \cup {e}
<1>1. PICK rest, all : rest = Without(s, e.key) /\ all = Append(rest, e)
  OBVIOUS
<1>2. rest \in Seq(S) /\ ToSet(rest) \subseteq ToSet(s)
  BY <1>1, WithoutKeeps
<1>3. all \in Seq(S) /\ ToSet(all) = ToSet(rest) \cup {e}
  BY <1>1, <1>2, Added
<1>4. PICK m : m = 1 + (IF Len(all) > CacheSize THEN Len(all) - CacheSize ELSE 0)
  OBVIOUS
<1>5. m \in Nat \ {0} /\ Len(all) \in Nat
  BY <1>3, <1>4, CatalogueAssumption
<1>6. SubSeq(all, m, Len(all)) \in Seq(S) /\ ToSet(SubSeq(all, m, Len(all))) \subseteq ToSet(all)
  BY <1>3, <1>5, PartOf
<1>7. Put(s, e) = SubSeq(all, m, Len(all))
  BY <1>1, <1>4 DEF Put
<1> QED BY <1>2, <1>3, <1>6, <1>7

-----------------------------------------------------------------------------
(* Writers *)

LEMMA WriterFacts ==
  ASSUME WriterTypes, NEW w \in Writers
  PROVE  /\ writer[w].pc \in {"idle", "write", "invalidate", "refused", "done", "dead"}
         /\ writer[w].pc \in {"write", "invalidate"} => writer[w] \in Forms
         /\ writer[w].pc \notin {"write", "invalidate"} => writer[w].process = None
         /\ \A how : Ended(how).pc = how /\ Ended(how).process = None
  BY DEF WriterTypes, Forms, Ended, IdleWriter

\* What a step of w does to the requests.
Becomes(w, doc) == writer'[w] = doc /\ \A v \in Writers : v # w => writer'[v] = writer[v]

LEMMA Became ==
  ASSUME WriterTypes, NEW w \in Writers, NEW doc,
         doc \in Forms \/ \E how \in {"refused", "done", "dead"} : doc = Ended(how),
         writer' = [writer EXCEPT ![w] = doc], product' \in [Products -> ProductDocs],
         deleted' \in [Processes -> [Products -> Nat]]
  PROVE  WriterTypes' /\ Becomes(w, doc)
<1> DEFINE D == {IdleWriter} \cup {Ended(how) : how \in {"refused", "done", "dead"}} \cup Forms
<1>1. doc \in D /\ writer \in [Writers -> D]
  BY DEF WriterTypes
<1> HIDE DEF D
<1>2. writer' \in [Writers -> D] /\ Becomes(w, doc)
  BY <1>1 DEF Becomes
<1> QED BY <1>2 DEF WriterTypes, D, IdleWriter, Ended

LEMMA UploadStep ==
  ASSUME WriterInv, NEW w \in Writers, NEW i \in Processes, NEW op \in Ops, NEW p \in Products,
         NEW file \in BOOLEAN, Upload(w, i, op, p, file)
  PROVE  WriterInv'
<1>1. PICK doc \in Forms : doc = [pc |-> "write", op |-> op, product |-> p, process |-> i, file |-> file]
  BY DEF Forms
<1>2. /\ WriterTypes /\ Uploads /\ Needed /\ Seen /\ writer[w].pc = "idle" /\ writer' = [writer EXCEPT ![w] = doc]
      /\ files' = (IF file THEN files \cup {w} ELSE files) /\ UNCHANGED <<product, deleted, replaced>>
  BY <1>1 DEF Upload, WriterInv
<1>3. WriterTypes' /\ Becomes(w, doc) /\ doc.pc = "write" /\ doc.file = file
  <2>1. product' \in [Products -> ProductDocs] /\ deleted' \in [Processes -> [Products -> Nat]]
    BY <1>2 DEF WriterTypes
  <2> QED BY <1>1, <1>2, <2>1, Became
<1>4. Uploads'
  BY <1>2, <1>3 DEF Uploads, Becomes
<1>5. Needed'
  BY <1>2, <1>3 DEF Needed, Wanted, Becomes
<1>6. Seen'
  BY <1>2 DEF Seen
<1> QED BY <1>3, <1>4, <1>5, <1>6 DEF WriterInv

LEMMA RefuseStep ==
  ASSUME WriterInv, NEW w \in Writers, writer[w].pc = "write", RemoveAndRefuse(w)
  PROVE  WriterInv'
<1>1. PICK doc : doc = Ended("refused")
  OBVIOUS
<1>2. /\ WriterTypes /\ Uploads /\ Needed /\ Seen /\ writer' = [writer EXCEPT ![w] = doc]
      /\ files' = files \ {w} /\ UNCHANGED <<product, deleted, replaced>>
  BY <1>1 DEF RemoveAndRefuse, WriterInv
<1>3. WriterTypes' /\ Becomes(w, doc) /\ doc.pc = "refused"
  <2>1. product' \in [Products -> ProductDocs] /\ deleted' \in [Processes -> [Products -> Nat]]
    BY <1>2 DEF WriterTypes
  <2>2. \E how \in {"refused", "done", "dead"} : doc = Ended(how)
    BY <1>1
  <2>3. doc.pc = "refused"
    BY <1>1, WriterFacts, <1>2
  <2> QED BY <1>2, <2>1, <2>2, <2>3, Became
<1>4. Uploads'
  BY <1>2, <1>3 DEF Uploads, Becomes
<1>5. Needed'
  BY <1>2, <1>3 DEF Needed, Wanted, Becomes
<1>6. Seen'
  BY <1>2 DEF Seen
<1> QED BY <1>3, <1>4, <1>5, <1>6 DEF WriterInv

LEMMA WriteProductStep ==
  ASSUME WriterInv, NEW w \in Writers, WriteProduct(w)
  PROVE  WriterInv'
<1>1. WriterTypes /\ Uploads /\ Needed /\ Seen /\ writer[w].pc = "write" /\ writer[w] \in Forms
  BY WriterFacts DEF WriteProduct, WriterInv
<1> DEFINE p == writer[w].product
           old == product[p].image
           new == [state |-> IF writer[w].op = "delete" THEN "deleted" ELSE "active",
                   version |-> product[p].version + 1,
                   image |-> IF writer[w].file THEN w ELSE product[p].image]
<1>2. CASE RemoveAndRefuse(w)
  BY <1>1, <1>2, RefuseStep
<1>3. CASE /\ product' = [product EXCEPT ![p] = new]
           /\ replaced' = replaced \cup ({old} \ {new.image, None})
           /\ writer' = [writer EXCEPT ![w].pc = "invalidate"]
           /\ UNCHANGED <<files, deleted>>
  <2>1. PICK doc \in Forms : doc = [writer[w] EXCEPT !.pc = "invalidate"] /\ doc.pc = "invalidate"
    <3>1. PICK form \in Forms : form = writer[w]
      BY <1>1
    <3>2. [form EXCEPT !.pc = "invalidate"] \in Forms /\ [form EXCEPT !.pc = "invalidate"].pc = "invalidate"
      BY DEF Forms
    <3> QED BY <3>1, <3>2
  <2>2. PICK o \in Products, image \in Products \cup Writers \cup {None}, fresh \in ProductDocs :
          o = p /\ image = old /\ fresh = new /\ product[o].version \in Nat
    <3>1. p \in Products /\ writer[w].file \in BOOLEAN
      BY <1>1 DEF Forms
    <3>2. old \in Products \cup Writers \cup {None} /\ product[p].version \in Nat
      BY <1>1, <3>1 DEF WriterTypes, ProductDocs
    <3>3. new \in ProductDocs
      BY <3>1, <3>2 DEF ProductDocs
    <3> QED BY <3>1, <3>2, <3>3
  <2>3. /\ fresh.version = product[o].version + 1 /\ fresh.image = (IF writer[w].file THEN w ELSE image)
        /\ fresh \in ProductDocs
    BY <2>2 DEF ProductDocs
  <2>4. /\ product' = [product EXCEPT ![o] = fresh] /\ replaced' = replaced \cup ({image} \ {fresh.image, None})
        /\ writer' = [writer EXCEPT ![w] = doc]
    <3>1. writer' = [writer EXCEPT ![w] = doc]
      BY <1>3, <2>1
    <3> QED BY <1>3, <2>2, <3>1
  <2> HIDE DEF new, old, p
  <2>5. /\ product' \in [Products -> ProductDocs] /\ product'[o] = fresh /\ product[o].image = image
        /\ \A q \in Products : q # o => product'[q] = product[q]
    BY <1>1, <2>2, <2>3, <2>4 DEF WriterTypes, old, p
  <2>6. deleted' \in [Processes -> [Products -> Nat]]
    BY <1>1, <1>3 DEF WriterTypes
  <2>7. WriterTypes' /\ Becomes(w, doc)
    BY <1>1, <2>1, <2>4, <2>5, <2>6, Became
  <2>8. w \in files <=> writer[w].file
    BY <1>1 DEF Uploads
  <2>9. Uploads'
    <3>1. \A q \in Products : product'[q].image \in files' \cup {None}
      BY <1>1, <1>3, <2>3, <2>5, <2>8 DEF Uploads
    <3>2. \A v \in Writers : writer'[v].pc \in {"idle", "write"} => v # w /\ writer'[v] = writer[v]
      BY <2>1, <2>7 DEF Becomes
    <3>3. \A v \in Writers : writer'[v].pc \in {"idle", "write"} => \A q \in Products : product'[q].image # v
      <4> SUFFICES ASSUME NEW v \in Writers, writer'[v].pc \in {"idle", "write"}, NEW q \in Products
                   PROVE  product'[q].image # v
        OBVIOUS
      <4>1. product[q].image # v /\ product[o].image # v /\ v # w
        BY <1>1, <3>2 DEF Uploads
      <4> QED BY <2>3, <2>5, <4>1
    <3> QED BY <1>1, <1>3, <3>1, <3>2, <3>3 DEF Uploads
  <2>10. Needed'
    <3> SUFFICES ASSUME NEW f \in files PROVE Wanted(f)'
      BY <1>3 DEF Needed
    <3>1. Wanted(f)
      BY <1>1 DEF Needed
    <3>2. CASE f # None /\ \E q \in Products : product[q].image = f
      BY <2>3, <2>4, <2>5, <3>2 DEF Wanted
    <3>3. CASE f \in replaced
      BY <2>4, <3>3 DEF Wanted
    <3>4. CASE f \in Writers /\ writer[f].pc = "write"
      <4>1. CASE f = w
        BY <2>3, <2>5, <2>8, <4>1, CatalogueAssumption DEF Wanted
      <4>2. CASE f # w
        BY <2>7, <3>4, <4>2 DEF Wanted, Becomes
      <4> QED BY <4>1, <4>2
    <3> QED BY <3>1, <3>2, <3>3, <3>4 DEF Wanted
  <2>11. Seen'
    <3> SUFFICES ASSUME NEW i \in Processes, NEW q \in Products PROVE deleted[i][q] <= product'[q].version
      BY <1>3 DEF Seen
    <3>1. deleted[i][q] <= product[q].version /\ deleted[i][q] \in Nat
      BY <1>1 DEF Seen, WriterTypes
    <3> QED BY <2>2, <2>3, <2>5, <3>1
  <2> QED BY <2>7, <2>9, <2>10, <2>11 DEF WriterInv
<1> QED BY <1>2, <1>3 DEF WriteProduct

LEMMA InvalidateWriter ==
  ASSUME WriterInv, NEW w \in Writers, Invalidate(w)
  PROVE  WriterInv' /\ writer[w].process \in Processes
<1>1. PICK doc : doc = Ended("done")
  OBVIOUS
<1>2. PICK i : i = writer[w].process
  OBVIOUS
<1>3. /\ WriterTypes /\ Uploads /\ Needed /\ Seen /\ writer[w].pc = "invalidate" /\ i \in Processes
      /\ writer' = [writer EXCEPT ![w] = doc] /\ deleted' = [deleted EXCEPT ![i] = Versions]
      /\ UNCHANGED <<product, files, replaced>>
  BY <1>1, <1>2, WriterFacts DEF Invalidate, WriterInv, Forms
<1>4. Versions \in [Products -> Nat] /\ \A p \in Products : Versions[p] = product[p].version
  BY <1>3 DEF Versions, WriterTypes, ProductDocs
<1>5. /\ deleted' \in [Processes -> [Products -> Nat]] /\ deleted'[i] = Versions
      /\ \A j \in Processes : j # i => deleted'[j] = deleted[j]
  BY <1>3, <1>4 DEF WriterTypes
<1>6. WriterTypes' /\ Becomes(w, doc) /\ doc.pc = "done"
  <2>1. product' \in [Products -> ProductDocs]
    BY <1>3 DEF WriterTypes
  <2>2. (\E how \in {"refused", "done", "dead"} : doc = Ended(how)) /\ doc.pc = "done"
    BY <1>1, <1>3, WriterFacts
  <2> QED BY <1>3, <1>5, <2>1, <2>2, Became
<1>7. Uploads'
  BY <1>3, <1>6 DEF Uploads, Becomes
<1>8. Needed'
  BY <1>3, <1>6 DEF Needed, Wanted, Becomes
<1>9. Seen'
  <2> SUFFICES ASSUME NEW j \in Processes, NEW p \in Products PROVE deleted'[j][p] <= product[p].version
    BY <1>3 DEF Seen
  <2>1. product[p].version \in Nat /\ deleted[j][p] <= product[p].version
    BY <1>3 DEF WriterTypes, ProductDocs, Seen
  <2> QED BY <1>4, <1>5, <2>1
<1> QED BY <1>2, <1>3, <1>6, <1>7, <1>8, <1>9 DEF WriterInv

LEMMA CrashWriter ==
  ASSUME WriterInv, NEW i \in Processes, Crash(i)
  PROVE  WriterInv'
<1> DEFINE lost == {w \in Writers : writer[w].process = i /\ writer[w].pc \in {"write", "invalidate"}}
           D == {IdleWriter} \cup {Ended(how) : how \in {"refused", "done", "dead"}} \cup Forms
<1>1. /\ WriterTypes /\ Uploads /\ Needed /\ Seen
      /\ writer' = [w \in Writers |-> IF w \in lost THEN Ended("dead") ELSE writer[w]]
      /\ replaced' = replaced \cup ({w \in lost : writer[w].pc # "invalidate"} \cap files)
      /\ UNCHANGED <<product, files, deleted>>
  BY DEF Crash, WriterInv
<1>2. /\ \A w \in lost : writer'[w] = Ended("dead") /\ writer'[w].pc = "dead"
      /\ \A w \in Writers \ lost : writer'[w] = writer[w]
  BY <1>1, WriterFacts
<1>3. WriterTypes'
  <2>1. writer \in [Writers -> D] /\ Ended("dead") \in D
    BY <1>1 DEF WriterTypes
  <2> HIDE DEF D, lost
  <2>2. writer' \in [Writers -> D]
    BY <1>1, <2>1
  <2> QED BY <1>1, <2>2 DEF WriterTypes, D, IdleWriter, Ended
<1>4. Uploads'
  <2> HIDE DEF lost
  <2>1. \A w \in Writers : writer'[w].pc \in {"idle", "write"} => writer'[w] = writer[w]
    BY <1>2
  <2> QED BY <1>1, <2>1 DEF Uploads
<1>5. Needed'
  BY <1>1, <1>2 DEF Needed, Wanted
<1>6. Seen'
  BY <1>1 DEF Seen
<1> QED BY <1>3, <1>4, <1>5, <1>6 DEF WriterInv

LEMMA WritersRest == ASSUME WriterInv, UNCHANGED writing PROVE WriterInv'
<1>1. UNCHANGED <<product, files, writer, deleted, replaced>>
  BY DEF writing
<1> QED BY <1>1 DEF WriterInv, WriterTypes, Uploads, Needed, Wanted, Seen

-----------------------------------------------------------------------------
(* Lists *)

LEMMA ListFacts ==
  ASSUME ListTypes, NEW l \in Listers
  PROVE  /\ lister[l].pc = "read" => lister[l] \in Queries
         /\ lister[l].pc # "read" => lister[l] = IdleLister
         /\ IdleLister.pc = "idle" /\ IdleLister.process = None
         /\ lister[l].pc \in {"idle", "read"}
  BY DEF ListTypes, Queries, IdleLister

\* A step of one list request, with what it may put into a cache.
LEMMA ListStepKeeps ==
  ASSUME ListInv, NEW l \in Listers, UNCHANGED <<deleted, now>>,
         NEW doc, lister' = [lister EXCEPT ![l] = doc],
         \/ doc = IdleLister
         \/ /\ doc \in Queries /\ doc.began = now
            /\ ~doc.raced => /\ doc.found # None => AsNew(doc.process, doc.key, doc.found)
                             /\ doc.counted # None => AsNew(doc.process, doc.key, doc.counted),
         cache' \in [Processes -> Seq(Entries)],
         \A i \in Processes : \A e \in ToSet(cache'[i]) :
           \/ e \in ToSet(cache[i])
           \/ e.expiresAt = e.began + TTL /\ (~e.raced => AsNew(i, e.key, e.found) /\ AsNew(i, e.key, e.counted))
  PROVE  ListInv'
<1> DEFINE D == {IdleLister} \cup Queries
<1>1. ListTypes /\ Timed /\ Listed /\ doc \in D
  BY DEF ListInv
<1>2. lister \in [Listers -> D]
  BY <1>1 DEF ListTypes
<1> HIDE DEF D
<1>3. lister' \in [Listers -> D] /\ lister'[l] = doc /\ \A o \in Listers : o # l => lister'[o] = lister[o]
  BY <1>1, <1>2
<1>4. ListTypes'
  BY <1>1, <1>3 DEF ListTypes, D, IdleLister
<1>5. doc.pc = "read" => doc \in Queries /\ doc # IdleLister
  BY <1>1 DEF D, IdleLister
<1>6. Timed'
  <2>1. \A o \in Listers : lister'[o].pc = "read" => lister'[o].began = now
    BY <1>1, <1>3, <1>5 DEF Timed
  <2>2. \A i \in Processes : \A e \in ToSet(cache'[i]) : e.expiresAt = e.began + TTL
    BY <1>1 DEF Timed
  <2> QED BY <2>1, <2>2 DEF Timed
<1>7. Listed'
  <2>1. \A i, k, found : AsNew(i, k, found)' <=> AsNew(i, k, found)
    BY DEF AsNew
  <2>2. \A o \in Listers : lister'[o].pc = "read" /\ ~lister'[o].raced =>
          /\ lister'[o].found # None => AsNew(lister'[o].process, lister'[o].key, lister'[o].found)
          /\ lister'[o].counted # None => AsNew(lister'[o].process, lister'[o].key, lister'[o].counted)
    BY <1>1, <1>3, <1>5 DEF Listed
  <2>3. \A i \in Processes : \A e \in ToSet(cache'[i]) : ~e.raced =>
          AsNew(i, e.key, e.found) /\ AsNew(i, e.key, e.counted)
    BY <1>1 DEF Listed
  <2> QED BY <2>2, <2>3 DEF Listed, AsNew
<1> QED BY <1>4, <1>6, <1>7 DEF ListInv

LEMMA CacheKept ==
  ASSUME ListInv, UNCHANGED cache
  PROVE  /\ cache' \in [Processes -> Seq(Entries)]
         /\ \A i \in Processes : \A e \in ToSet(cache'[i]) : e \in ToSet(cache[i])
  BY DEF ListInv, ListTypes

\* A hit only moves to the end, and a miss at most drops an entry.
LEMMA GetKeeps ==
  ASSUME ListTypes, NEW i \in Processes, NEW k, Get(i, k)
  PROVE  /\ cache' \in [Processes -> Seq(Entries)]
         /\ \A j \in Processes : ToSet(cache'[j]) \subseteq ToSet(cache[j])
<1>1. cache \in [Processes -> Seq(Entries)] /\ cache[i] \in Seq(Entries)
  BY DEF ListTypes
<1>2. PICK rest : rest = Without(cache[i], k)
  OBVIOUS
<1>3. rest \in Seq(Entries) /\ ToSet(rest) \subseteq ToSet(cache[i])
  BY <1>1, <1>2, WithoutKeeps
<1>4. CASE cache' = [cache EXCEPT ![i] = rest]
  BY <1>1, <1>3, <1>4
<1>5. ASSUME NEW e \in Hits(i, k), cache' = [cache EXCEPT ![i] = Append(rest, e)]
      PROVE  /\ cache' \in [Processes -> Seq(Entries)]
             /\ \A j \in Processes : ToSet(cache'[j]) \subseteq ToSet(cache[j])
  <2>1. e \in ToSet(cache[i]) /\ ToSet(cache[i]) \subseteq Entries
    BY <1>1 DEF Hits, ToSet
  <2>2. PICK new : new = Append(rest, e)
    OBVIOUS
  <2>3. new \in Seq(Entries) /\ ToSet(new) = ToSet(rest) \cup {e}
    BY <1>3, <2>1, <2>2, Added
  <2> QED BY <1>1, <1>3, <1>5, <2>1, <2>2, <2>3
<1>6. \/ cache' = [cache EXCEPT ![i] = rest]
      \/ \E e \in Hits(i, k) : cache' = [cache EXCEPT ![i] = Append(rest, e)]
  BY <1>1, <1>2 DEF Get
<1> QED BY <1>4, <1>5, <1>6

LEMMA LookupStep ==
  ASSUME ListInv, NEW l \in Listers, NEW i \in Processes, NEW k \in Keys, Lookup(l, i, k)
  PROVE  ListInv'
<1>1. ListTypes /\ Get(i, k) /\ UNCHANGED <<deleted, now>>
  BY DEF Lookup, ListInv, writing, budget
<1>2. PICK query : query = [IdleLister EXCEPT !.pc = "read", !.key = k, !.process = i, !.began = now]
  OBVIOUS
<1>3. query \in Queries /\ query.began = now /\ query.found = None /\ query.counted = None
  BY <1>1, <1>2 DEF IdleLister, Queries, Found, ListTypes
<1>4. PICK doc : (doc = IdleLister \/ doc = query) /\ lister' = [lister EXCEPT ![l] = doc]
  BY <1>2 DEF Lookup
<1>5. /\ cache' \in [Processes -> Seq(Entries)]
      /\ \A j \in Processes : ToSet(cache'[j]) \subseteq ToSet(cache[j])
  BY <1>1, GetKeeps
<1> QED BY <1>1, <1>3, <1>4, <1>5, ListStepKeeps

\* A query finds versions no older than the last cache.del.
LEMMA Answered ==
  ASSUME WriterTypes, Seen, NEW k \in Keys, NEW i \in Processes
  PROVE  Answer(k) \in Found /\ AsNew(i, k, Answer(k))
<1>1. Matches[k] \subseteq Products
  BY CatalogueAssumption
<1>2. \A p \in Matches[k] : Answer(k)[p] = product[p].version /\ product[p].version \in Nat
  BY <1>1 DEF Answer, WriterTypes, ProductDocs
<1>3. Answer(k) \in [Matches[k] -> Nat]
  BY <1>2 DEF Answer
<1>4. \A p \in Matches[k] : deleted[i][p] <= product[p].version /\ deleted[i][p] \in Nat
  BY <1>1 DEF Seen, WriterTypes
<1>5. \A p \in Matches[k] : Answer(k)[p] >= deleted[i][p]
  BY <1>2, <1>4
<1> QED BY <1>3, <1>5 DEF Found, AsNew

LEMMA QueryStep ==
  ASSUME IInv, NEW l \in Listers, FindList(l) \/ CountList(l)
  PROVE  ListInv'
<1>1. WriterTypes /\ Seen /\ ListInv /\ ListTypes /\ UNCHANGED <<deleted, now, cache>> /\ lister[l].pc = "read"
  BY DEF FindList, CountList, IInv, WriterInv, ListInv, writing, budget
<1>2. PICK q \in Queries : q = lister[l]
  BY <1>1, ListFacts
<1>3. q.key \in Keys /\ q.process \in Processes /\ q.began = now
  BY <1>1, <1>2 DEF Queries, ListInv, Timed
<1>4. PICK a \in Found : a = Answer(q.key) /\ AsNew(q.process, q.key, a)
  BY <1>1, <1>3, Answered
<1>5. /\ cache' \in [Processes -> Seq(Entries)]
      /\ \A j \in Processes : \A e \in ToSet(cache'[j]) : e \in ToSet(cache[j])
  BY <1>1, CacheKept
<1>6. ~q.raced => /\ q.found # None => AsNew(q.process, q.key, q.found)
                  /\ q.counted # None => AsNew(q.process, q.key, q.counted)
  BY <1>1, <1>2 DEF ListInv, Listed
<1>7. CASE FindList(l)
  <2>1. PICK doc : doc = [q EXCEPT !.found = a]
    OBVIOUS
  <2>2. /\ doc \in Queries /\ doc.began = now /\ doc.found = a /\ doc.counted = q.counted
        /\ doc.process = q.process /\ doc.key = q.key /\ doc.raced = q.raced
    BY <1>3, <2>1 DEF Queries
  <2>3. lister' = [lister EXCEPT ![l] = doc]
    BY <1>1, <1>2, <1>4, <1>7, <2>1 DEF FindList, ListTypes
  <2> QED BY <1>1, <1>4, <1>5, <1>6, <2>2, <2>3, ListStepKeeps
<1>8. CASE CountList(l)
  <2>1. PICK doc : doc = [q EXCEPT !.counted = a]
    OBVIOUS
  <2>2. /\ doc \in Queries /\ doc.began = now /\ doc.counted = a /\ doc.found = q.found
        /\ doc.process = q.process /\ doc.key = q.key /\ doc.raced = q.raced
    BY <1>3, <2>1 DEF Queries
  <2>3. lister' = [lister EXCEPT ![l] = doc]
    BY <1>1, <1>2, <1>4, <1>8, <2>1 DEF CountList, ListTypes
  <2> QED BY <1>1, <1>4, <1>5, <1>6, <2>2, <2>3, ListStepKeeps
<1> QED BY <1>7, <1>8

LEMMA StoreStep ==
  ASSUME ListInv, NEW l \in Listers, Store(l)
  PROVE  ListInv'
<1>1. /\ ListTypes /\ UNCHANGED <<deleted, now>> /\ lister[l].pc = "read"
      /\ lister' = [lister EXCEPT ![l] = IdleLister]
  BY DEF Store, ListInv, writing, budget
<1>2. PICK q \in Queries : q = lister[l]
  BY <1>1, ListFacts
<1>3. PICK e : e = [key |-> q.key, found |-> q.found, counted |-> q.counted, expiresAt |-> now + TTL,
                    began |-> q.began, raced |-> q.raced]
  OBVIOUS
<1>4. q.process \in Processes /\ q.began = now /\ q.found # None /\ q.counted # None /\ now \in Nat /\ TTL \in Nat
  BY <1>1, <1>2, CatalogueAssumption DEF Queries, ListInv, Timed, Store, ListTypes
<1>5. /\ e \in Entries /\ e.expiresAt = e.began + TTL
      /\ e.key = q.key /\ e.found = q.found /\ e.counted = q.counted /\ e.raced = q.raced
  <2>1. now + TTL \in Nat
    BY <1>4
  <2> QED BY <1>3, <1>4, <2>1 DEF Entries, Queries
<1>6. ~e.raced => AsNew(q.process, e.key, e.found) /\ AsNew(q.process, e.key, e.counted)
  BY <1>1, <1>2, <1>4, <1>5 DEF ListInv, Listed
<1>7. PICK i \in Processes : i = q.process
  BY <1>4
<1>8. PICK new : new = Put(cache[i], e)
  OBVIOUS
<1>9. cache \in [Processes -> Seq(Entries)] /\ cache[i] \in Seq(Entries)
  BY <1>1 DEF ListTypes
<1>10. new \in Seq(Entries) /\ ToSet(new) \subseteq ToSet(cache[i]) \cup {e}
  BY <1>5, <1>8, <1>9, PutKeeps
<1>11. cache' = [cache EXCEPT ![i] = new]
  BY <1>2, <1>3, <1>7, <1>8, <1>9 DEF Store
<1>12. /\ cache' \in [Processes -> Seq(Entries)]
       /\ \A j \in Processes : \A x \in ToSet(cache'[j]) : x \in ToSet(cache[j]) \/ (j = i /\ x = e)
  BY <1>9, <1>10, <1>11
<1> QED BY <1>1, <1>5, <1>6, <1>7, <1>12, ListStepKeeps

LEMMA ThrowOnListStep ==
  ASSUME ListInv, NEW l \in Listers, ThrowOnList(l)
  PROVE  ListInv'
<1>1. UNCHANGED <<deleted, now, cache>> /\ lister' = [lister EXCEPT ![l] = IdleLister]
  BY DEF ThrowOnList, writing
<1> QED BY <1>1, CacheKept, ListStepKeeps

LEMMA TickStep == ASSUME ListInv, Tick PROVE ListInv'
<1>1. /\ ListTypes /\ Timed /\ Listed /\ now' = now + 1 /\ UNCHANGED <<lister, cache, deleted>>
      /\ \A l \in Listers : lister[l].pc # "read"
  BY DEF Tick, ListInv, writing, listing
<1> QED BY <1>1 DEF ListInv, ListTypes, Timed, Listed, AsNew

LEMMA InvalidateLists ==
  ASSUME IInv, NEW w \in Writers, Invalidate(w)
  PROVE  ListInv'
<1>1. PICK i \in Processes : i = writer[w].process
  BY InvalidateWriter DEF IInv
<1> DEFINE hit(l) == lister[l].process = i /\ lister[l].pc = "read" /\ (lister[l].found # None \/ lister[l].counted # None)
<1>2. /\ ListTypes /\ Timed /\ Listed /\ WriterTypes
      /\ cache' = [cache EXCEPT ![i] = << >>] /\ deleted' = [deleted EXCEPT ![i] = Versions] /\ now' = now
      /\ lister' = [l \in Listers |-> IF hit(l) THEN [lister[l] EXCEPT !.raced = TRUE] ELSE lister[l]]
  BY <1>1 DEF Invalidate, IInv, WriterInv, ListInv, budget
<1>3. ASSUME NEW l \in Listers
      PROVE  /\ hit(l) => lister'[l] \in Queries /\ lister'[l].raced /\ lister'[l].began = lister[l].began
             /\ ~hit(l) => lister'[l] = lister[l]
  <2>1. CASE hit(l)
    <3>1. lister'[l] = [lister[l] EXCEPT !.raced = TRUE] /\ lister[l] \in Queries
      BY <1>2, <2>1, ListFacts
    <3> QED BY <2>1, <3>1 DEF Queries
  <2> QED BY <1>2, <2>1
<1>4. /\ cache'[i] = << >> /\ \A j \in Processes : j # i => cache'[j] = cache[j] /\ deleted'[j] = deleted[j]
      /\ cache' \in [Processes -> Seq(Entries)]
  BY <1>2 DEF ListTypes, WriterTypes
<1>5. ToSet(cache'[i]) = {}
  BY <1>4 DEF ToSet
<1>6. ListTypes'
  <2>1. \A l \in Listers : lister'[l] \in {IdleLister} \cup Queries
    BY <1>2, <1>3 DEF ListTypes
  <2>2. lister' \in [Listers -> {IdleLister} \cup Queries]
    BY <1>2, <2>1
  <2> QED BY <1>2, <1>4, <2>2 DEF ListTypes, IdleLister
<1>7. Timed'
  <2>1. \A l \in Listers : lister'[l].pc = "read" => lister'[l].began = now'
    BY <1>2, <1>3 DEF Timed
  <2>2. \A j \in Processes : \A e \in ToSet(cache'[j]) : e.expiresAt = e.began + TTL
    BY <1>2, <1>4, <1>5 DEF Timed
  <2> QED BY <2>1, <2>2 DEF Timed
<1>8. Listed'
  <2>1. ASSUME NEW l \in Listers, lister'[l].pc = "read", ~lister'[l].raced
        PROVE  /\ lister'[l].found # None => (AsNew(lister[l].process, lister[l].key, lister[l].found))'
               /\ lister'[l].counted # None => (AsNew(lister[l].process, lister[l].key, lister[l].counted))'
    <3>1. lister'[l] = lister[l] /\ ~hit(l)
      BY <1>3, <2>1
    <3>2. lister[l].process \in Processes
      BY <1>2, <2>1, <3>1, ListFacts DEF Queries
    <3>3. CASE lister[l].process = i
      BY <2>1, <3>1, <3>3
    <3>4. CASE lister[l].process # i
      <4>1. deleted'[lister[l].process] = deleted[lister[l].process]
        BY <1>4, <3>2, <3>4
      <4> QED BY <1>2, <2>1, <3>1, <4>1 DEF Listed, AsNew
    <3> QED BY <3>3, <3>4
  <2>2. ASSUME NEW j \in Processes, NEW e \in ToSet(cache'[j]), ~e.raced
        PROVE  \A p \in Matches[e.key] : e.found[p] >= deleted'[j][p] /\ e.counted[p] >= deleted'[j][p]
    <3>1. j # i /\ e \in ToSet(cache[j]) /\ deleted'[j] = deleted[j]
      BY <1>4, <1>5, <2>2
    <3> QED BY <1>2, <2>2, <3>1 DEF Listed, AsNew
  <2> QED BY <2>1, <2>2 DEF Listed, AsNew
<1> QED BY <1>6, <1>7, <1>8 DEF ListInv

LEMMA CrashLists == ASSUME ListInv, NEW i \in Processes, Crash(i) PROVE ListInv'
<1>1. /\ ListTypes /\ Timed /\ Listed /\ UNCHANGED <<deleted, now>>
      /\ cache' = [cache EXCEPT ![i] = << >>]
      /\ lister' = [l \in Listers |-> IF lister[l].process = i THEN IdleLister ELSE lister[l]]
  BY DEF Crash, ListInv
<1>2. /\ cache'[i] = << >> /\ \A j \in Processes : j # i => cache'[j] = cache[j]
      /\ cache' \in [Processes -> Seq(Entries)]
  BY <1>1 DEF ListTypes
<1>3. ToSet(cache'[i]) = {}
  BY <1>2 DEF ToSet
<1>4. \A l \in Listers : lister'[l] = IdleLister \/ lister'[l] = lister[l]
  BY <1>1
<1>5. ListTypes'
  <2>1. lister' \in [Listers -> {IdleLister} \cup Queries]
    BY <1>1 DEF ListTypes
  <2> QED BY <1>1, <1>2, <2>1 DEF ListTypes, IdleLister
<1>6. \A l \in Listers : lister'[l].pc = "read" => lister'[l] = lister[l]
  BY <1>4 DEF IdleLister
<1>7. \A j \in Processes : \A e \in ToSet(cache'[j]) : e \in ToSet(cache[j])
  BY <1>2, <1>3
<1>8. Timed'
  BY <1>1, <1>6, <1>7 DEF Timed
<1>9. Listed'
  <2>1. ASSUME NEW l \in Listers, lister'[l].pc = "read", ~lister'[l].raced
        PROVE  /\ lister[l].found # None => AsNew(lister[l].process, lister[l].key, lister[l].found)
               /\ lister[l].counted # None => AsNew(lister[l].process, lister[l].key, lister[l].counted)
               /\ lister'[l] = lister[l]
    <3>1. lister'[l] = lister[l]
      BY <1>6, <2>1
    <3> QED BY <1>1, <2>1, <3>1 DEF Listed
  <2>2. ASSUME NEW j \in Processes, NEW e \in ToSet(cache'[j]), ~e.raced
        PROVE  AsNew(j, e.key, e.found) /\ AsNew(j, e.key, e.counted)
    BY <1>1, <1>7, <2>2 DEF Listed
  <2> QED BY <1>1, <2>1, <2>2 DEF Listed, AsNew
<1> QED BY <1>5, <1>8, <1>9 DEF ListInv

LEMMA ListsRest == ASSUME ListInv, UNCHANGED <<lister, cache, now, deleted>> PROVE ListInv'
  BY DEF ListInv, ListTypes, Timed, Listed, AsNew, IdleLister

-----------------------------------------------------------------------------
(* The invariant *)

LEMMA InitInv == Init => IInv
<1> SUFFICES ASSUME Init PROVE IInv
  OBVIOUS
<1> DEFINE doc(p) == IF p \in Existing THEN [state |-> "active", version |-> 1, image |-> p]
                     ELSE [state |-> "none", version |-> 0, image |-> None]
<1>1. /\ product = [p \in Products |-> doc(p)]
      /\ \A w \in Writers : writer[w] = IdleWriter
      /\ \A l \in Listers : lister[l] = IdleLister
      /\ \A i \in Processes : cache[i] = << >>
      /\ \A i \in Processes : \A p \in Products : deleted[i][p] = 0
      /\ files = Existing /\ now = 0
  <2>1. /\ product = [p \in Products |-> doc(p)]
        /\ writer = [w \in Writers |-> IdleWriter] /\ lister = [l \in Listers |-> IdleLister]
        /\ cache = [i \in Processes |-> << >>] /\ files = Existing /\ now = 0
        /\ deleted = [i \in Processes |-> [p \in Products |-> 0]]
    BY DEF Init
  <2> HIDE DEF doc
  <2> QED BY <2>1
<1>2. \A p \in Products : /\ doc(p) \in ProductDocs /\ doc(p).version \in Nat
                          /\ doc(p).image = IF p \in Existing THEN p ELSE None
  BY DEF ProductDocs
<1> HIDE DEF doc
<1>3. WriterTypes
  <2>1. product \in [Products -> ProductDocs]
    BY <1>1, <1>2
  <2>2. writer \in [Writers -> {IdleWriter}] /\ deleted \in [Processes -> [Products -> Nat]]
    BY DEF Init
  <2> QED BY <2>1, <2>2 DEF WriterTypes
<1>4. \A p \in Products : product[p].image = (IF p \in Existing THEN p ELSE None) /\ product[p].version \in Nat
  BY <1>1, <1>2
<1>5. \A w \in Writers : writer[w].pc = "idle" /\ w \notin Products /\ w # None
  BY <1>1, CatalogueAssumption DEF IdleWriter
<1>6. Uploads
  BY <1>1, <1>4, <1>5, CatalogueAssumption DEF Uploads
<1>7. Needed
  BY <1>1, <1>4, CatalogueAssumption DEF Needed, Wanted
<1>8. Seen
  BY <1>1, <1>4 DEF Seen
<1>9. ListTypes
  BY DEF Init, ListTypes
<1>10. \A l \in Listers : lister[l].pc = "idle"
  BY <1>1 DEF IdleLister
<1>11. \A i \in Processes : ToSet(cache[i]) = {}
  BY <1>1 DEF ToSet
<1> QED BY <1>3, <1>6, <1>7, <1>8, <1>9, <1>10, <1>11 DEF IInv, WriterInv, ListInv, Timed, Listed

LEMMA NextInv == IInv /\ [Next]_vars => IInv'
<1> SUFFICES ASSUME IInv, [Next]_vars PROVE IInv'
  OBVIOUS
<1>1. WriterInv /\ ListInv
  BY DEF IInv
<1>2. ASSUME NEW w \in Writers, WriteStep(w) PROVE IInv'
  <2>1. ASSUME NEW i \in Processes, NEW op \in Ops, NEW p \in Products, NEW file \in BOOLEAN,
               Upload(w, i, op, p, file)
        PROVE  IInv'
    <3>1. UNCHANGED <<lister, cache, now, deleted>>
      BY <2>1 DEF Upload, listing, budget
    <3> QED BY <1>1, <2>1, <3>1, UploadStep, ListsRest DEF IInv
  <2>2. CASE RefuseForm(w) \/ ThrowOnWrite(w)
    <3>1. writer[w].pc = "write" /\ RemoveAndRefuse(w) /\ UNCHANGED <<lister, cache, now, deleted>>
      BY <2>2 DEF RefuseForm, ThrowOnWrite, RemoveAndRefuse, listing, budget
    <3> QED BY <1>1, <3>1, RefuseStep, ListsRest DEF IInv
  <2>3. CASE WriteProduct(w)
    <3>1. UNCHANGED <<lister, cache, now, deleted>>
      BY <2>3 DEF WriteProduct, RemoveAndRefuse, listing, budget
    <3> QED BY <1>1, <2>3, <3>1, WriteProductStep, ListsRest DEF IInv
  <2>4. CASE Invalidate(w)
    BY <1>1, <2>4, InvalidateWriter, InvalidateLists DEF IInv
  <2> QED BY <1>2, <2>1, <2>2, <2>3, <2>4 DEF WriteStep, Ops
<1>3. ASSUME NEW l \in Listers, ListStep(l) PROVE IInv'
  <2>1. UNCHANGED writing
    BY <1>3 DEF ListStep, Lookup, FindList, CountList, Store, ThrowOnList
  <2>2. WriterInv'
    BY <1>1, <2>1, WritersRest
  <2>3. ListInv'
    BY <1>1, <1>3, LookupStep, QueryStep, StoreStep, ThrowOnListStep DEF ListStep
  <2> QED BY <2>2, <2>3 DEF IInv
<1>4. ASSUME NEW i \in Processes, Crash(i) PROVE IInv'
  BY <1>1, <1>4, CrashWriter, CrashLists DEF IInv
<1>5. CASE Tick
  <2>1. UNCHANGED writing
    BY <1>5 DEF Tick
  <2> QED BY <1>1, <1>5, <2>1, WritersRest, TickStep DEF IInv
<1>6. CASE UNCHANGED vars
  <2>1. UNCHANGED writing /\ UNCHANGED <<lister, cache, now, deleted>>
    BY <1>6 DEF vars, writing
  <2> QED BY <1>1, <2>1, WritersRest, ListsRest DEF IInv
<1> QED BY <1>2, <1>3, <1>4, <1>5, <1>6 DEF Next

\* The invariant holds always: of the products and their uploads, and of the
\* lists in the caches.
THEOREM Invariance == Spec => []IInv
<1> QED BY InitInv, NextInv, PTL DEF Spec

\* Every image is in uploads/, and every other file there belongs to a request
\* still being handled, or is an image replaced or left by a crash: each path
\* out of store and update removes the upload it does not keep.
THEOREM UploadsAreUsedAlways == Spec => []UploadsAreUsed
<1>1. IInv => UploadsAreUsed
  <2> SUFFICES ASSUME IInv PROVE UploadsAreUsed
    OBVIOUS
  <2>1. Uploads /\ Needed
    BY DEF IInv, WriterInv
  <2>2. {product[p].image : p \in Products} \ {None} \subseteq files
    BY <2>1 DEF Uploads
  <2>3. ASSUME NEW f \in files, f \notin {product[p].image : p \in Products} \ {None}, f \notin replaced
        PROVE  f \in Writers /\ writer[f].pc = "write"
    BY <2>1, <2>3 DEF Needed, Wanted
  <2> QED BY <2>2, <2>3 DEF UploadsAreUsed
<1> QED BY <1>1, Invariance, PTL

\* A cache serves a list only within the TTL of its queries: cache.set counts
\* from a tick in which the queries still ran, and cache.get does not prolong.
THEOREM ListsExpire == Spec => []ServedWithinTTL
<1>1. IInv => ServedWithinTTL
  <2> SUFFICES ASSUME IInv, NEW i \in Processes, NEW e \in ToSet(cache[i]), e.expiresAt > now
               PROVE  now - e.began < TTL
    BY DEF ServedWithinTTL
  <2>1. e \in Entries /\ e.expiresAt = e.began + TTL /\ now \in Nat
    BY DEF IInv, ListInv, ListTypes, Timed, ToSet
  <2>2. e.began \in Nat /\ TTL \in Nat
    BY <2>1, CatalogueAssumption DEF Entries
  <2> QED BY <2>1, <2>2
<1> QED BY <1>1, Invariance, PTL

\* A process serves no list older than what its last cache.del followed, unless
\* that cache.del came between the queries of the list and its cache.set.
THEOREM OwnWritesShow == Spec => []OwnWritesAreListed
<1>1. IInv => OwnWritesAreListed
  BY DEF IInv, ListInv, Listed, AsNew, OwnWritesAreListed
<1> QED BY <1>1, Invariance, PTL
=============================================================================
