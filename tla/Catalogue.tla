----------------------------- MODULE Catalogue -----------------------------
(* The catalogue of the API: products and their images, the product lists    *)
(* that every process caches for itself (ProductService, productContoller,   *)
(* utils/cache). A step is what a handler does between two awaits.           *)
EXTENDS Integers, SequencesExt

CONSTANTS
    Products,           \* product ids
    Processes,          \* API processes; each has a memoryCache
    Keys,               \* cache keys: the list queries clients make
    Matches,            \* Matches[k]: the products the filter of k may select
    Existing,           \* the products there at the start, each with an image of its name
    Writers, Listers,   \* requests of each kind
    CacheSize,          \* CACHE_MAX_ENTRIES
    TTL,                \* CACHE_TTL_SECONDS, in ticks
    MaxTime, MaxFaults, \* bounds on ticks, and on database errors and crashes
    None

ASSUME CatalogueAssumption ==
    /\ CacheSize \in Nat \ {0} /\ TTL \in Nat \ {0}
    /\ MaxTime \in Nat /\ MaxFaults \in Nat
    /\ Existing \subseteq Products /\ Products \cap Writers = {}
    /\ Matches \in [Keys -> SUBSET Products]
    /\ None \notin Writers \cup Processes \cup Products \cup Keys

VARIABLES
    product,    \* documents: is it listed, its version (one per write), its image
    files,      \* uploads/: a file is named for the request that sent it
    writer,     \* requests of the product form: create, update, delete
    lister,     \* GET /products requests
    cache,      \* memoryCache of each process, least recently used first
    now,        \* Date.now() in ticks
    faults,
    deleted,    \* history: per process, the versions its last cache.del followed
    replaced    \* history: images an update took out of use, or a crash left

vars == <<product, files, writer, lister, cache, now, faults, deleted, replaced>>
writing == <<product, files, writer, deleted, replaced>>
listing == <<lister, cache>>
budget == <<now, faults>>

Versions == [p \in Products |-> product[p].version]
\* What a query finds: the products of its filter as they are. A version says
\* whether it is listed, since every write of a product makes a new one.
Answer(k) == [p \in Matches[k] |-> product[p].version]
IdleWriter == [pc |-> "idle", op |-> None, product |-> None, process |-> None, file |-> FALSE]
Ended(how) == [IdleWriter EXCEPT !.pc = how]
IdleLister == [pc |-> "idle", key |-> None, process |-> None, found |-> None,
               counted |-> None, began |-> 0, raced |-> FALSE]

Init ==
    /\ product = [p \in Products |->
                    IF p \in Existing THEN [state |-> "active", version |-> 1, image |-> p]
                    ELSE [state |-> "none", version |-> 0, image |-> None]]
    /\ files = Existing
    /\ writer = [w \in Writers |-> IdleWriter]
    /\ lister = [l \in Listers |-> IdleLister]
    /\ cache = [i \in Processes |-> << >>]
    /\ now = 0 /\ faults = 0
    /\ deleted = [i \in Processes |-> [p \in Products |-> 0]]
    /\ replaced = {}

-----------------------------------------------------------------------------
(* ProductController.store, update, destroy                                  *)

\* The form arrives; multer has stored the image, which a create must have
\* and a delete has not. A multipart error leaves no file and changes nothing.
Upload(w, i, op, p, file) ==
    /\ writer[w].pc = "idle"
    /\ op = "create" => file /\ product[p].state = "none" /\ \A v \in Writers : writer[v].product # p
    /\ op # "create" => product[p].state # "none"
    /\ op = "delete" => ~file
    /\ writer' = [writer EXCEPT ![w] = [pc |-> "write", op |-> op,
                                        product |-> p, process |-> i, file |-> file]]
    /\ files' = IF file THEN files \cup {w} ELSE files
    /\ UNCHANGED <<product, deleted, replaced, listing, budget>>

\* Mutant: next(error) without removeFile.
RefuseWithoutRemoving(w) ==
    /\ writer' = [writer EXCEPT ![w] = Ended("refused")]
    /\ UNCHANGED <<product, files, deleted, replaced>>

\* removeFile and next(error).
RemoveAndRefuse(w) ==
    /\ files' = files \ {w}
    /\ writer' = [writer EXCEPT ![w] = Ended("refused")]
    /\ UNCHANGED <<product, deleted, replaced>>

\* assertSafeImage or the validation, which nothing else can disturb, refuses
\* the form; or the filter of an update, when the product is another seller's.
RefuseForm(w) ==
    /\ writer[w].pc = "write" /\ writer[w].op # "delete"
    /\ RemoveAndRefuse(w)
    /\ UNCHANGED <<listing, budget>>

\* Product.create or findOneAndUpdate commits: the filter of an update wants a
\* product that is not deleted (a delete deletes again), else 404.
WriteProduct(w) ==
    LET p == writer[w].product
        new == [state |-> IF writer[w].op = "delete" THEN "deleted" ELSE "active",
                version |-> product[p].version + 1,
                image |-> IF writer[w].file THEN w ELSE product[p].image]
    IN  /\ writer[w].pc = "write"
        /\ IF writer[w].op = "update" /\ product[p].state = "deleted"
           THEN RemoveAndRefuse(w)
           ELSE /\ product' = [product EXCEPT ![p] = new]
                /\ replaced' = replaced \cup ({product[p].image} \ {new.image, None})
                /\ writer' = [writer EXCEPT ![w].pc = "invalidate"]
                /\ UNCHANGED <<files, deleted>>
        /\ UNCHANGED <<listing, budget>>

\* The database refuses or fails (a duplicate SKU, a lost connection).
ThrowOnWrite(w) ==
    /\ writer[w].pc = "write" /\ faults < MaxFaults
    /\ faults' = faults + 1
    /\ RemoveAndRefuse(w)
    /\ UNCHANGED <<listing, now>>

\* Mutant: the update forgets cache.del.
InvalidateNothing(w) ==
    /\ writer[w].pc = "invalidate"
    /\ deleted' = [deleted EXCEPT ![writer[w].process] = Versions]
    /\ writer' = [writer EXCEPT ![w] = Ended("done")]
    /\ UNCHANGED <<product, files, replaced, listing, budget>>

\* cache.del("products:"), in the process of the request only.
Invalidate(w) ==
    LET i == writer[w].process
    IN  /\ writer[w].pc = "invalidate"
        /\ cache' = [cache EXCEPT ![i] = << >>]
        /\ deleted' = [deleted EXCEPT ![i] = Versions]
        /\ lister' = [l \in Listers |->
                        IF lister[l].process = i /\ lister[l].pc = "read" /\
                           (lister[l].found # None \/ lister[l].counted # None)
                        THEN [lister[l] EXCEPT !.raced = TRUE] ELSE lister[l]]
        /\ writer' = [writer EXCEPT ![w] = Ended("done")]
        /\ UNCHANGED <<product, files, replaced, budget>>

-----------------------------------------------------------------------------
(* ProductService.list and utils/cache                                       *)

\* The keys of a Map are unique, and it iterates in the order of insertion.
Without(entries, k) ==
    LET at == {n \in DOMAIN entries : entries[n].key = k}
    IN  IF at = {} THEN entries ELSE RemoveAt(entries, CHOOSE n \in at : TRUE)
Hits(i, k) == {e \in ToSet(cache[i]) : e.key = k /\ e.expiresAt > now}

\* Mutant: a hit prolongs the entry.
GetAndProlong(i, k) ==
    \/ Hits(i, k) = {} /\ cache' = [cache EXCEPT ![i] = Without(@, k)]
    \/ \E e \in Hits(i, k) :
         cache' = [cache EXCEPT ![i] = Append(Without(@, k), [e EXCEPT !.expiresAt = now + TTL])]

\* cache.get: a hit is put back as the most recently used, with its expiry; an
\* expired entry is dropped.
Get(i, k) ==
    \/ Hits(i, k) = {} /\ cache' = [cache EXCEPT ![i] = Without(@, k)]
    \/ \E e \in Hits(i, k) : cache' = [cache EXCEPT ![i] = Append(Without(@, k), e)]

Lookup(l, i, k) ==
    /\ lister[l].pc = "idle"
    /\ Get(i, k)
    /\ lister' = [lister EXCEPT ![l] =
                    IF Hits(i, k) # {} THEN IdleLister
                    ELSE [IdleLister EXCEPT !.pc = "read", !.key = k, !.process = i, !.began = now]]
    /\ UNCHANGED <<writing, budget>>

\* The two queries of Promise.all run side by side.
FindList(l) ==
    /\ lister[l].pc = "read" /\ lister[l].found = None
    /\ lister' = [lister EXCEPT ![l].found = Answer(lister[l].key)]
    /\ UNCHANGED <<writing, cache, budget>>

CountList(l) ==
    /\ lister[l].pc = "read" /\ lister[l].counted = None
    /\ lister' = [lister EXCEPT ![l].counted = Answer(lister[l].key)]
    /\ UNCHANGED <<writing, cache, budget>>

\* cache.set: the entry is the most recently used; the least recently used go
\* while there are too many.
Put(entries, e) ==
    LET all == Append(Without(entries, e.key), e)
    IN  SubSeq(all, 1 + (IF Len(all) > CacheSize THEN Len(all) - CacheSize ELSE 0), Len(all))

Store(l) ==
    LET q == lister[l]
        e == [key |-> q.key, found |-> q.found, counted |-> q.counted, expiresAt |-> now + TTL,
              began |-> q.began, raced |-> q.raced]
    IN  /\ q.pc = "read" /\ q.found # None /\ q.counted # None
        /\ cache' = [cache EXCEPT ![q.process] = Put(@, e)]
        /\ lister' = [lister EXCEPT ![l] = IdleLister]
        /\ UNCHANGED <<writing, budget>>

\* A query throws: the request fails and nothing is cached.
ThrowOnList(l) ==
    /\ lister[l].pc = "read" /\ faults < MaxFaults
    /\ faults' = faults + 1
    /\ lister' = [lister EXCEPT ![l] = IdleLister]
    /\ UNCHANGED <<writing, cache, now>>

-----------------------------------------------------------------------------
\* Time passes. No list query takes longer than a tick.
Tick ==
    /\ now < MaxTime
    /\ \A l \in Listers : lister[l].pc # "read"
    /\ now' = now + 1
    /\ UNCHANGED <<writing, listing, faults>>

\* A process dies with its requests and its cache; uploads/ stays.
Crash(i) ==
    LET lost == {w \in Writers : writer[w].process = i /\ writer[w].pc \in {"write", "invalidate"}}
    IN  /\ faults < MaxFaults
        /\ faults' = faults + 1
        /\ cache' = [cache EXCEPT ![i] = << >>]
        /\ writer' = [w \in Writers |-> IF w \in lost THEN Ended("dead") ELSE writer[w]]
        /\ lister' = [l \in Listers |-> IF lister[l].process = i THEN IdleLister ELSE lister[l]]
        /\ replaced' = replaced \cup ({w \in lost : writer[w].pc # "invalidate"} \cap files)
        /\ UNCHANGED <<product, files, deleted, now>>

WriteStep(w) ==
    \/ \E i \in Processes, op \in {"create", "update", "delete"}, p \in Products, file \in BOOLEAN :
            Upload(w, i, op, p, file)
    \/ RefuseForm(w) \/ WriteProduct(w) \/ ThrowOnWrite(w) \/ Invalidate(w)
ListStep(l) ==
    \/ \E i \in Processes, k \in Keys : Lookup(l, i, k)
    \/ FindList(l) \/ CountList(l) \/ Store(l) \/ ThrowOnList(l)

Next ==
    \/ \E w \in Writers : WriteStep(w)
    \/ \E l \in Listers : ListStep(l)
    \/ \E i \in Processes : Crash(i)
    \/ Tick

Spec == Init /\ [][Next]_vars
-----------------------------------------------------------------------------
\* A list is served only while its age is below the TTL (cache.get checks it,
\* and using an entry does not prolong it): whatever write a cache missed, made
\* by another process or during the queries, shows after TTL ticks.
ServedWithinTTL ==
    \A i \in Processes : \A e \in ToSet(cache[i]) : e.expiresAt > now => now - e.began < TTL

\* No process serves a list older than the writes before its last cache.del, its
\* own finished ones among them, unless the queries of the list ran across that
\* cache.del.
OwnWritesAreListed ==
    \A i \in Processes : \A e \in ToSet(cache[i]) : ~e.raced =>
        \A p \in Matches[e.key] : e.found[p] >= deleted[i][p] /\ e.counted[p] >= deleted[i][p]

\* Every product has its image, and every other file is of a request still
\* being handled, or an image replaced by an update or left by a crash: each
\* refusal of store and update removes the upload (removeFile).
UploadsAreUsed ==
    LET used == {product[p].image : p \in Products} \ {None}
    IN  /\ used \subseteq files
        /\ \A w \in files \ (used \cup replaced) : w \in Writers /\ writer[w].pc = "write"
=============================================================================
