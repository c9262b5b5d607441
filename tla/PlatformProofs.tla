--------------------------- MODULE PlatformProofs ---------------------------
(***************************************************************************)
(* What the processes of the API share or count, for any number of them:   *)
(* the audit chain, the records of the outbox and the slots of the event   *)
(* streams.  The three touch different variables; each has an inductive    *)
(* invariant of its own, over the types of all.                            *)
(***************************************************************************)
EXTENDS Platform, FiniteSetTheorems, TLAPS

Size(k) == Len(FollowUps[k])

\* Every kind but "plain" writes something after its change.
LEMMA FollowUpSizes == \A k \in Kinds : Size(k) \in Nat /\ (k # "plain" => Size(k) > 0)
<1>1. Kinds = {"plain", "checkout", "cancel", "refund", "ship", "webhook", "expire"}
  BY DEF Kinds, FollowUps
<1>2. /\ Size("plain") = 0 /\ Size("checkout") = 4 /\ Size("cancel") = 2 /\ Size("refund") = 1
      /\ Size("ship") = 1 /\ Size("webhook") = 1 /\ Size("expire") = 1
  BY DEF Size, FollowUps, AfterCheckout, AfterCancel, AfterRefundRequest, AfterShipment, AfterWebhook, AfterExpiry
<1> QED
  BY <1>1, <1>2

Rest == left.requests + left.changes

LEMMA SpendEffect ==
  ASSUME ProcessTypes, NEW e \in Events, Spend(e)
  PROVE  /\ left' \in [Events -> Nat] /\ left[e] > 0 /\ left'[e] = left[e] - 1
         /\ \A d \in Events \ {e} : left'[d] = left[d]
  BY DEF ProcessTypes, Spend

-----------------------------------------------------------------------------
(* Types, but for the counters of the limiter                              *)

PlainTypes == ProcessTypes /\ OutboxTypes /\ AuditTypes

LEMMA InitTypes == Init => PlainTypes
  BY PlatformAssumption DEF Init, PlainTypes, ProcessTypes, OutboxTypes, AuditTypes, Idle, Writes

LEMMA NumberTypes ==
  ASSUME PlainTypes, NEW p \in Procs, NEW r \in serving[p]
  PROVE  r \in Requests /\ r.number \in Nat /\ r.kind \in Kinds /\ r.written \in Nat
  BY DEF PlainTypes, OutboxTypes, Requests

LEMMA AdvanceTypes ==
  ASSUME PlainTypes, NEW p \in Procs, NEW r \in serving[p],
         NEW stage \in {"writing", "written", "done"}, NEW n \in Nat, Advance(p, r, stage, n)
  PROVE  /\ serving' \in [Procs -> SUBSET Requests]
         /\ chain' \in [Procs -> Seq(Nat)]
<1>1. r \in Requests /\ r.number \in Nat
  BY NumberTypes
<1> DEFINE next == IF stage = "done" THEN {} ELSE {[r EXCEPT !.stage = stage, !.written = n]}
<1>2. next \subseteq Requests
  BY <1>1 DEF Requests
<1>3. serving' = [serving EXCEPT ![p] = (@ \ {r}) \cup next]
  BY DEF Advance
<1> HIDE DEF next
<1>4. serving' \in [Procs -> SUBSET Requests]
  BY <1>2, <1>3 DEF PlainTypes, OutboxTypes
<1>5. chain' = [chain EXCEPT ![p] = Append(@, r.number)] \/ chain' = chain
  BY DEF Advance
<1>6. chain \in [Procs -> Seq(Nat)]
  BY DEF PlainTypes, AuditTypes
<1> DEFINE queue == Append(chain[p], r.number)
<1>7. queue \in Seq(Nat)
  BY <1>1, <1>6
<1> HIDE DEF queue
<1>8. chain' = [chain EXCEPT ![p] = queue] \/ chain' = chain
  BY <1>5 DEF queue
<1> QED
  BY <1>4, <1>6, <1>7, <1>8

LEMMA RecordTypes ==
  ASSUME NEW r, r.number \in Nat, NEW n \in Nat
  PROVE  RecordsOf(r, n) \subseteq Records
  BY DEF RecordsOf, Records

\* What a step of a request does to the types.
LEMMA RequestTypes ==
  ASSUME PlainTypes, NEW p \in Procs, NEW r \in serving[p], RequestStep(p, r)
  PROVE  PlainTypes'
<1>1. r.number \in Nat /\ r.kind \in Kinds /\ r.written \in Nat
  BY NumberTypes
<1>2. Size(r.kind) \in Nat
  BY <1>1, FollowUpSizes
<1>3. CASE Change(p, r)
  <2> DEFINE n == IF Together(r) THEN Len(FollowUps[r.kind]) ELSE 0
  <2>1. n \in Nat
    BY <1>2 DEF Size
  <2>2. serving' \in [Procs -> SUBSET Requests] /\ chain' \in [Procs -> Seq(Nat)]
    BY <1>3, <2>1, AdvanceTypes DEF Change
  <2>3. records' \subseteq Records
    BY <1>1, <1>3, <2>1, RecordTypes DEF Change, PlainTypes, OutboxTypes
  <2>4. changes' \subseteq [number : Nat, kind : Kinds]
    BY <1>1, <1>3 DEF Change, PlainTypes, OutboxTypes
  <2> QED BY <1>3, <2>2, <2>3, <2>4 DEF Change, PlainTypes, ProcessTypes, OutboxTypes, AuditTypes, process
<1>4. CASE WriteRecord(p, r)
  <2> DEFINE n == r.written + 1
  <2>1. n \in Nat
    BY <1>1
  <2>2. serving' \in [Procs -> SUBSET Requests] /\ chain' \in [Procs -> Seq(Nat)]
    BY <1>4, <2>1, AdvanceTypes DEF WriteRecord
  <2>3. records' \subseteq Records
    BY <1>1, <1>4, <2>1, RecordTypes DEF WriteRecord, PlainTypes, OutboxTypes
  <2>4. Queued(r, n) \subseteq Records
    BY <1>1, <2>1 DEF Queued, Records
  <2>5. jobs' = [jobs EXCEPT ![p] = @ \cup Queued(r, n)]
    BY <1>4 DEF WriteRecord, Enqueue
  <2>6. jobs' \in [Procs -> SUBSET Records]
    BY <2>4, <2>5 DEF PlainTypes, OutboxTypes
  <2> QED BY <1>4, <2>2, <2>3, <2>6 DEF WriteRecord, PlainTypes, ProcessTypes, OutboxTypes, AuditTypes, process
<1>5. CASE FailWriting(p, r)
  <2>1. serving' \in [Procs -> SUBSET Requests] /\ unfinished' \subseteq Nat
    BY <1>1, <1>5 DEF FailWriting, PlainTypes, OutboxTypes
  <2> QED BY <1>5, <2>1 DEF FailWriting, PlainTypes, ProcessTypes, OutboxTypes, AuditTypes, process, audit
<1>6. CASE Dispatch(p, r)
  <2>1. serving' \in [Procs -> SUBSET Requests] /\ chain' \in [Procs -> Seq(Nat)]
    BY <1>1, <1>6, AdvanceTypes DEF Dispatch
  <2> DEFINE n == IF Outboxed(r) THEN r.written ELSE 0
  <2>2. n \in Nat
    BY <1>1
  <2>3. RecordsOf(r, n) \subseteq Records /\ jobs' = [jobs EXCEPT ![p] = @ \cup RecordsOf(r, n)]
    BY <1>1, <1>6, <2>2, RecordTypes DEF Dispatch, Enqueue
  <2>4. jobs' \in [Procs -> SUBSET Records]
    BY <2>3 DEF PlainTypes, OutboxTypes
  <2> QED BY <1>6, <2>1, <2>4 DEF Dispatch, PlainTypes, ProcessTypes, OutboxTypes, AuditTypes, process
<1>7. CASE Respond(p, r)
  <2>1. serving' \in [Procs -> SUBSET Requests] /\ chain' \in [Procs -> Seq(Nat)]
    BY <1>7, AdvanceTypes DEF Respond
  <2> QED BY <1>7, <2>1 DEF Respond, PlainTypes, ProcessTypes, OutboxTypes, AuditTypes, process, outbox
<1>8. CASE Refuse(p, r)
  <2>1. serving' \in [Procs -> SUBSET Requests]
    BY <1>8 DEF Refuse, PlainTypes, OutboxTypes
  <2> QED BY <1>8, <2>1 DEF Refuse, PlainTypes, ProcessTypes, OutboxTypes, AuditTypes, process, outbox, audit
<1> QED
  BY <1>3, <1>4, <1>5, <1>6, <1>7, <1>8 DEF RequestStep

\* The write of the head of a chain, retried, settled or given up.
LEMMA SettleTypes ==
  ASSUME PlainTypes, NEW p \in Procs, Settle(p), chain[p] # << >>
  PROVE  /\ chain' \in [Procs -> Seq(Nat)] /\ write' \in [Procs -> Writes]
<1>1. chain \in [Procs -> Seq(Nat)] /\ write \in [Procs -> Writes] /\ Idle \in Writes
  BY DEF PlainTypes, AuditTypes, Writes, Idle
<1> DEFINE rest == Tail(chain[p])
<1>2. rest \in Seq(Nat)
  BY <1>1
<1> HIDE DEF rest
<1>3. chain' = [chain EXCEPT ![p] = rest] /\ write' = [write EXCEPT ![p] = Idle]
  BY DEF Settle, rest
<1> QED
  BY <1>1, <1>2, <1>3

\* A process writes only what is in its chain.
Pending == \A p \in Procs : write[p].head # None => chain[p] # << >>

LEMMA HeadTypes ==
  ASSUME PlainTypes
  PROVE  /\ ChainHead \in [sequence : Nat, hash : Hashes]
         /\ ChainHead.sequence = Len(log)
         /\ ChainHead.hash = IF Len(log) = 0 THEN Genesis ELSE log[Len(log)].hash
<1>1. log \in Seq(Entries) /\ Len(log) \in Nat
  BY DEF PlainTypes, AuditTypes
<1>2. log = << >> <=> Len(log) = 0
  BY <1>1
<1>3. log # << >> => log[Len(log)].hash \in Hashes
  <2> SUFFICES ASSUME log # << >> PROVE log[Len(log)].hash \in Hashes
    OBVIOUS
  <2>1. log[Len(log)] \in Entries
    BY <1>1, <1>2
  <2>2. \A e \in Entries : e.hash \in Hashes
    BY DEF Entries
  <2> QED BY <2>1, <2>2
<1> QED
  BY <1>1, <1>2, <1>3 DEF ChainHead, Hashes

LEMMA EntryTypes ==
  ASSUME PlainTypes, NEW p \in Procs, write[p].head # None, chain[p] # << >>
  PROVE  /\ Entry(p) \in Entries
         /\ Entry(p).sequence = write[p].head.sequence + 1
         /\ Entry(p).previousHash = write[p].head.hash
         /\ write[p].head.sequence \in Nat /\ Head(chain[p]) \in Nat
<1>1. write[p].head \in [sequence : Nat, hash : Hashes]
  BY DEF PlainTypes, AuditTypes, Writes
<1>2. Head(chain[p]) \in Nat
  <2>1. chain[p] \in Seq(Nat)
    BY DEF PlainTypes, AuditTypes
  <2> QED BY <2>1
<1> DEFINE place == write[p].head.sequence + 1
           of == Head(chain[p])
           hash == <<place, of>>
<1>3. place \in Nat /\ of \in Nat
  BY <1>1, <1>2
<1>4. hash \in Hashes
  <2> HIDE DEF place, of
  <2> QED BY <1>3 DEF Hashes
<1>5. Entry(p) = [sequence |-> place, entry |-> of, previousHash |-> write[p].head.hash, hash |-> hash]
  BY DEF Entry
<1>6. write[p].head.sequence \in Nat /\ write[p].head.hash \in Hashes
  BY <1>1
<1> HIDE DEF hash
<1>7. Entry(p) \in Entries
  <2> HIDE DEF place, of
  <2> QED BY <1>3, <1>4, <1>5, <1>6 DEF Entries
<1> QED
  BY <1>2, <1>5, <1>6, <1>7

LEMMA AuditStepTypes ==
  ASSUME PlainTypes, Pending, NEW p \in Procs, AuditStep(p)
  PROVE  AuditTypes'
<1>1. chain \in [Procs -> Seq(Nat)] /\ write \in [Procs -> Writes] /\ log \in Seq(Entries) /\ Len(log) \in Nat
  BY DEF PlainTypes, AuditTypes
<1>2. CASE ReadHead(p)
  <2> DEFINE begun == [write[p] EXCEPT !.head = ChainHead, !.from = IF write[p].attempt = 1 THEN Len(log) ELSE @]
  <2>1. begun \in Writes
    <3> DEFINE at == ChainHead
    <3>1. at \in [sequence : Nat, hash : Hashes] /\ write[p] \in Writes
      BY <1>1, HeadTypes
    <3> HIDE DEF at
    <3>2. [write[p] EXCEPT !.head = at, !.from = IF write[p].attempt = 1 THEN Len(log) ELSE @] \in Writes
      BY <1>1, <3>1 DEF Writes
    <3> QED BY <3>2 DEF at
  <2>2. write' = [write EXCEPT ![p] = begun]
    BY <1>1, <1>2 DEF ReadHead
  <2> HIDE DEF begun
  <2>3. write' \in [Procs -> Writes]
    BY <1>1, <2>1, <2>2
  <2> QED BY <1>2, <2>3 DEF ReadHead, PlainTypes, AuditTypes
<1>3. CASE TryCreate(p)
  <2>1. chain[p] # << >> /\ write[p].head # None
    BY <1>3 DEF TryCreate, Pending
  <2>2. CASE Create(p)
    <3>1. log' = Append(log, Entry(p)) /\ Settle(p) /\ dropped' = dropped
      BY <2>2 DEF Create
    <3> DEFINE new == Entry(p)
    <3>2. new \in Entries /\ log' = Append(log, new)
      BY <2>1, <3>1, EntryTypes
    <3> HIDE DEF new
    <3>3. log' \in Seq(Entries)
      BY <1>1, <3>2
    <3> QED BY <2>1, <3>1, <3>3, SettleTypes DEF PlainTypes, AuditTypes
  <2>3. CASE Beaten(p) /\ Retry(p)
    <3> DEFINE again == [write[p] EXCEPT !.attempt = @ + 1, !.head = None]
    <3>1. again \in Writes
      <4> DEFINE heads == {None} \cup [sequence : Nat, hash : Hashes]
      <4>1. Writes = [head : heads, attempt : Nat, from : Nat] /\ None \in heads
        BY DEF Writes
      <4> HIDE DEF heads
      <4>2. \A w \in Writes, n \in Nat : [w EXCEPT !.attempt = n, !.head = None] \in Writes
        BY <4>1
      <4>3. write[p] \in Writes /\ write[p].attempt \in Nat
        BY <1>1, <4>1
      <4>4. write[p].attempt + 1 \in Nat
        BY <4>3
      <4> QED BY <4>2, <4>3, <4>4
    <3>2. write' = [write EXCEPT ![p] = again]
      BY <1>1, <2>3 DEF Retry
    <3> HIDE DEF again
    <3>3. write' \in [Procs -> Writes]
      BY <1>1, <3>1, <3>2
    <3> QED BY <2>3, <3>3 DEF Beaten, Retry, PlainTypes, AuditTypes
  <2>4. CASE Beaten(p) /\ ~Retry(p)
    <3>1. /\ Settle(p) /\ log' = log
          /\ dropped' = dropped \cup {[entry |-> Head(chain[p]), beats |-> Len(log) - write[p].from]}
      BY <2>4 DEF Beaten
    <3>2. write[p].from \in Nat /\ Head(chain[p]) \in Nat
      BY <1>1, <2>1, EntryTypes DEF Writes
    <3>3. dropped' \subseteq [entry : Nat, beats : Int]
      BY <1>1, <3>1, <3>2 DEF PlainTypes, AuditTypes
    <3> QED BY <2>1, <3>1, <3>3, SettleTypes DEF PlainTypes, AuditTypes
  <2> QED BY <1>3, <2>2, <2>3, <2>4 DEF TryCreate
<1>4. CASE FailWrite(p)
  BY <1>4, SettleTypes DEF FailWrite, PlainTypes, AuditTypes
<1> QED
  BY <1>2, <1>3, <1>4 DEF AuditStep

LEMMA ExitTypes ==
  ASSUME PlainTypes, NEW p \in Procs, NEW exitCode \in {None, 0, 1}, Exit(p, exitCode)
  PROVE  PlainTypes'
<1>1. Numbers({r \in serving[p] : r.stage = "writing"}) \subseteq Nat
  BY NumberTypes DEF Numbers
<1>2. OutboxTypes'
  BY <1>1 DEF Exit, PlainTypes, OutboxTypes
<1>3. ProcessTypes'
  BY DEF Exit, PlainTypes, ProcessTypes
<1>4. << >> \in Seq(Nat) /\ Idle \in Writes
  BY DEF Idle, Writes
<1>5. AuditTypes'
  BY <1>4 DEF Exit, PlainTypes, AuditTypes
<1> QED
  BY <1>2, <1>3, <1>5 DEF PlainTypes

\* The other steps: processes, the database, arrivals and streams.
OtherStep ==
  \/ Fault \/ Heal
  \/ \E p \in Procs :
      \/ Start(p) \/ Reconnect(p) \/ Closed(p)
      \/ \E exitCode \in {0, 1} : Shutdown(p, exitCode)
      \/ \E u \in Users : OpenStream(p, u)
  \/ \E s \in streams, ending \in Endings : Finish(s, ending)

LEMMA OtherTypes ==
  ASSUME PlainTypes, OtherStep
  PROVE  /\ PlainTypes'
         /\ UNCHANGED <<serving, transactions, outbox, audit>>
         /\ left' # left => Rest' = Rest
<1> USE DEF PlainTypes, ProcessTypes, process, outbox, limiter, audit, vars
<1>1. UNCHANGED <<serving, transactions, outbox, audit>>
  BY DEF OtherStep, Fault, Heal, Start, Reconnect, Closed, Shutdown, OpenStream, Finish
<1>2. left' \in [Events -> Nat] /\ Rest' = Rest
  <2>1. CASE left' = left
    BY <2>1 DEF Rest
  <2>2. CASE Spend("faults")
    BY <2>2, SpendEffect DEF Events, Rest
  <2>3. CASE Spend("streams")
    BY <2>3, SpendEffect DEF Events, Rest
  <2> QED BY <2>1, <2>2, <2>3 DEF OtherStep, Fault, Heal, Start, Reconnect, Closed, Shutdown, OpenStream, Finish
<1>3. ProcessTypes'
  <2>1. CASE Fault \/ Heal
    BY <1>2, <2>1 DEF Fault, Heal
  <2>2. ASSUME NEW p \in Procs, Start(p) \/ Reconnect(p) \/ Closed(p) \/ \E exitCode \in {0, 1} : Shutdown(p, exitCode)
        PROVE  ProcessTypes'
    BY <1>2, <2>2 DEF Start, Reconnect, Closed, Shutdown, Connect
  <2>3. ASSUME NEW p \in Procs, NEW u \in Users, OpenStream(p, u) PROVE ProcessTypes'
    BY <1>2, <2>3 DEF OpenStream
  <2>4. ASSUME NEW s \in streams, NEW ending \in Endings, Finish(s, ending) PROVE ProcessTypes'
    BY <1>2, <2>4 DEF Finish
  <2> QED BY <2>1, <2>2, <2>3, <2>4 DEF OtherStep
<1> QED
  BY <1>1, <1>2, <1>3 DEF OutboxTypes, AuditTypes

LEMMA ArriveTypes ==
  ASSUME PlainTypes, NEW p \in Procs, NEW kind \in Kinds, Arrive(p, kind)
  PROVE  /\ PlainTypes' /\ Rest' = Rest - 1
         /\ serving' = [serving EXCEPT ![p] = @ \cup {[number |-> Rest, kind |-> kind, stage |-> "received", written |-> 0]}]
<1> DEFINE what == IF kind = "plain" THEN "requests" ELSE "changes"
           new == [number |-> Rest, kind |-> kind, stage |-> "received", written |-> 0]
<1>1. what \in Events /\ Spend(what) /\ ProcessTypes
  BY DEF Arrive, Events, PlainTypes
<1>2. left' \in [Events -> Nat] /\ Rest \in Nat /\ Rest' = Rest - 1
  <2>1. left \in [Events -> Nat]
    BY <1>1 DEF ProcessTypes
  <2>2. CASE what = "requests"
    BY <1>1, <2>1, <2>2, SpendEffect DEF Events, Rest
  <2>3. CASE what = "changes"
    BY <1>1, <2>1, <2>3, SpendEffect DEF Events, Rest
  <2> QED BY <2>2, <2>3
<1>3. serving' = [serving EXCEPT ![p] = @ \cup {new}]
  BY DEF Arrive, Rest
<1>4. new \in Requests
  <2>1. Rest \in Nat /\ 0 \in Nat
    BY <1>2
  <2> HIDE DEF Rest
  <2> QED BY <2>1 DEF Requests
<1> HIDE DEF new
<1>5. serving' \in [Procs -> SUBSET Requests]
  BY <1>3, <1>4 DEF PlainTypes, OutboxTypes
<1>6. PlainTypes'
  BY <1>2, <1>5 DEF Arrive, PlainTypes, ProcessTypes, OutboxTypes, AuditTypes, process, outbox, audit
<1> QED
  BY <1>2, <1>3, <1>6 DEF new

\* Every step is one of these.
LEMMA Steps ==
  ASSUME PlainTypes, [Next]_vars
  PROVE  \/ UNCHANGED vars
         \/ OtherStep
         \/ \E p \in Procs : AuditStep(p)
         \/ \E p \in Procs, exitCode \in {None, 0, 1} : phase[p] \in {"closing", "disconnecting"} /\ Exit(p, exitCode)
         \/ \E p \in Procs, kind \in Kinds : Arrive(p, kind)
         \/ \E p \in Procs : \E r \in serving[p] : RequestStep(p, r)
<1>1. CASE \E p \in Procs : Disconnected(p) \/ Forced(p)
  <2> PICK p \in Procs : Disconnected(p) \/ Forced(p)
    BY <1>1
  <2>1. code[p] \in {None, 0, 1}
    BY DEF PlainTypes, ProcessTypes
  <2> QED BY <2>1 DEF Disconnected, Forced
<1> QED
  BY <1>1 DEF Next, OtherStep

-----------------------------------------------------------------------------
(* The audit chain                                                         *)

\* What a write knows of the chain is still so: the head it read is an entry of the
\* log, and each of its attempts but this one was beaten by another entry.
GoodWrite(w) ==
  /\ w.attempt \in 1..MaxAttempts /\ w.from \in 0..Len(log)
  /\ w.head = None => Len(log) - w.from >= w.attempt - 1
  /\ w.head # None =>
       /\ w.head.sequence \in w.from..Len(log) /\ w.head.sequence - w.from >= w.attempt - 1
       /\ w.head.hash = IF w.head.sequence = 0 THEN Genesis ELSE log[w.head.sequence].hash

AuditInvariant ==
  /\ Pending
  /\ \A p \in Procs : write[p] # Idle => GoodWrite(write[p])
  /\ AuditChainIsUnbroken /\ DroppedOnlyWhenBeaten

\* The log is only ever appended to, so a good write stays good.
LEMMA LogGrows ==
  ASSUME PlainTypes, NEW e \in Entries, log' = Append(log, e), NEW w \in Writes, GoodWrite(w)
  PROVE  GoodWrite(w)'
<1>1. log \in Seq(Entries) /\ Len(log) \in Nat
  BY DEF PlainTypes, AuditTypes
<1>2. Len(log') = Len(log) + 1 /\ \A i \in 1..Len(log) : log'[i] = log[i]
  BY <1>1
<1>3. w.attempt \in Nat /\ w.from \in Nat /\ (w.head # None => w.head.sequence \in Nat)
  BY DEF Writes
<1> QED
  BY <1>1, <1>2, <1>3 DEF GoodWrite

LEMMA FreshWrite == ASSUME PlainTypes PROVE Idle \in Writes /\ Idle.head = None
  BY DEF Idle, Writes

\* A step that reads and appends nothing.
LEMMA AuditUntouched ==
  ASSUME PlainTypes, AuditInvariant, UNCHANGED <<log, dropped>>,
         write' \in [Procs -> Writes],
         \A p \in Procs : \/ write'[p] = Idle
                          \/ write'[p] = write[p] /\ (chain[p] # << >> => chain'[p] # << >>)
  PROVE  AuditInvariant'
<1>1. Idle.head = None
  BY DEF Idle
<1>2. Pending'
  BY <1>1 DEF AuditInvariant, Pending
<1>3. \A p \in Procs : (write[p] # Idle => GoodWrite(write[p]))'
  <2> SUFFICES ASSUME NEW p \in Procs, (write[p] # Idle)' PROVE GoodWrite(write[p])'
    OBVIOUS
  <2>1. write'[p] # Idle
    BY DEF Idle
  <2>2. write'[p] = write[p] /\ GoodWrite(write[p])
    BY <2>1 DEF AuditInvariant
  <2> QED BY <2>2 DEF GoodWrite
<1>4. AuditChainIsUnbroken' /\ DroppedOnlyWhenBeaten'
  BY DEF AuditInvariant, AuditChainIsUnbroken, DroppedOnlyWhenBeaten
<1> QED
  BY <1>2, <1>3, <1>4 DEF AuditInvariant

LEMMA IdleIsGood == ASSUME PlainTypes PROVE GoodWrite(Idle)
  BY PlatformAssumption DEF GoodWrite, Idle, PlainTypes, AuditTypes

LEMMA AuditStepKeeps ==
  ASSUME PlainTypes, AuditInvariant, NEW p \in Procs, AuditStep(p)
  PROVE  AuditInvariant'
<1>1. /\ chain \in [Procs -> Seq(Nat)] /\ write \in [Procs -> Writes] /\ log \in Seq(Entries) /\ Len(log) \in Nat
      /\ Pending /\ GoodWrite(write[p]) /\ write[p] \in Writes
  BY IdleIsGood DEF PlainTypes, AuditTypes, AuditInvariant
<1>2. write[p].attempt \in Nat /\ write[p].from \in Nat /\ MaxAttempts \in Nat
  BY <1>1, PlatformAssumption DEF Writes
<1>3. CASE ReadHead(p)
  <2> DEFINE at == ChainHead
             from == IF write[p].attempt = 1 THEN Len(log) ELSE write[p].from
  <2>1. /\ chain[p] # << >> /\ write[p].head = None /\ UNCHANGED <<chain, log, dropped>>
        /\ write' = [write EXCEPT ![p].head = at, ![p].from = from]
    BY <1>1, <1>3 DEF ReadHead
  <2>2. at.sequence = Len(log) /\ at.hash = IF Len(log) = 0 THEN Genesis ELSE log[Len(log)].hash
    BY HeadTypes
  <2>3. from \in 0..Len(log) /\ Len(log) - from >= write[p].attempt - 1
    BY <1>1, <1>2, <2>1 DEF GoodWrite
  <2> HIDE DEF at, from
  <2>4. write'[p].head = at /\ write'[p].from = from /\ write'[p].attempt = write[p].attempt
    BY <1>1, <2>1 DEF Writes
  <2>5. GoodWrite(write[p])'
    BY <1>1, <1>2, <2>1, <2>2, <2>3, <2>4 DEF GoodWrite
  <2>6. \A q \in Procs \ {p} : write'[q] = write[q]
    BY <1>1, <2>1
  <2>7. \A q \in Procs : (write[q] # Idle => GoodWrite(write[q]))'
    <3> SUFFICES ASSUME NEW q \in Procs, q # p, (write[q] # Idle)' PROVE GoodWrite(write[q])'
      BY <2>5
    <3>1. write'[q] = write[q] /\ GoodWrite(write[q])
      BY <2>6 DEF AuditInvariant, Idle
    <3> QED BY <2>1, <3>1 DEF GoodWrite
  <2>8. Pending'
    BY <1>1, <2>1, <2>6 DEF Pending
  <2> QED BY <2>1, <2>7, <2>8 DEF AuditInvariant, AuditChainIsUnbroken, DroppedOnlyWhenBeaten
<1>4. CASE TryCreate(p) /\ Create(p)
  <2> DEFINE e == Entry(p)
  <2>1. chain[p] # << >> /\ write[p].head # None
    BY <1>1, <1>4 DEF TryCreate, Pending
  <2>2. e \in Entries /\ e.sequence = Len(log) + 1 /\ e.previousHash = write[p].head.hash
    BY <1>4, <2>1, EntryTypes DEF Create
  <2>3. log' = Append(log, e) /\ dropped' = dropped /\ Settle(p)
    BY <1>4 DEF Create
  <2> HIDE DEF e
  <2>4. Len(log') = Len(log) + 1 /\ log'[Len(log) + 1] = e /\ \A i \in 1..Len(log) : log'[i] = log[i]
    BY <1>1, <2>2, <2>3
  <2>5. e.previousHash = IF Len(log) = 0 THEN Genesis ELSE log[Len(log)].hash
    BY <1>1, <1>4, <2>1, <2>2 DEF GoodWrite, Create
  <2>6. AuditChainIsUnbroken'
    <3> SUFFICES ASSUME NEW i \in 1..Len(log) + 1
                 PROVE  /\ log'[i].sequence = i
                        /\ log'[i].previousHash = IF i = 1 THEN Genesis ELSE log'[i - 1].hash
      BY <1>1, <2>2, <2>3, <2>4 DEF AuditChainIsUnbroken
    <3>1. CASE i = Len(log) + 1
      <4>1. Len(log) # 0 => log'[i - 1] = log[Len(log)]
        BY <1>1, <2>4, <3>1
      <4> QED BY <1>1, <2>2, <2>4, <2>5, <3>1, <4>1
    <3>2. CASE i \in 1..Len(log)
      <4>1. log[i].sequence = i /\ log[i].previousHash = IF i = 1 THEN Genesis ELSE log[i - 1].hash
        BY <1>1, <3>2 DEF AuditInvariant, AuditChainIsUnbroken
      <4>2. log'[i] = log[i] /\ (i # 1 => log'[i - 1] = log[i - 1])
        BY <1>1, <2>4, <3>2
      <4> QED BY <4>1, <4>2
    <3> QED BY <1>1, <3>1, <3>2
  <2>7. write'[p] = Idle /\ \A q \in Procs \ {p} : write'[q] = write[q] /\ chain'[q] = chain[q]
    BY <1>1, <2>3 DEF Settle
  <2>8. \A q \in Procs : (write[q] # Idle => GoodWrite(write[q]))'
    <3> SUFFICES ASSUME NEW q \in Procs, (write[q] # Idle)' PROVE GoodWrite(write[q])'
      OBVIOUS
    <3>1. q # p
      BY <2>7 DEF Idle
    <3>2. write'[q] = write[q] /\ GoodWrite(write[q]) /\ write[q] \in Writes
      BY <1>1, <2>7, <3>1 DEF AuditInvariant, Idle
    <3> PICK w \in Writes : w = write[q]
      BY <3>2
    <3>3. GoodWrite(w)'
      BY <2>2, <2>3, <3>2, LogGrows
    <3> QED BY <3>2, <3>3 DEF GoodWrite
  <2>9. Pending'
    BY <1>1, <2>7, FreshWrite DEF Pending
  <2> QED BY <2>3, <2>6, <2>8, <2>9 DEF AuditInvariant, DroppedOnlyWhenBeaten
<1>5. CASE TryCreate(p) /\ Beaten(p)
  <2>1. chain[p] # << >> /\ write[p].head # None /\ log' = log
    BY <1>1, <1>5 DEF TryCreate, Pending, Beaten
  <2>2. Len(log) - write[p].from >= write[p].attempt /\ write[p].from \in 0..Len(log)
    <3>1. write[p].head.sequence \in Nat /\ write[p].head.sequence < Len(log)
      BY <1>1, <1>5, <2>1 DEF Beaten, Writes
    <3> QED BY <1>1, <1>2, <2>1, <3>1 DEF GoodWrite
  <2>3. CASE write[p].attempt < MaxAttempts
    <3>1. write' = [write EXCEPT ![p].attempt = write[p].attempt + 1, ![p].head = None] /\ UNCHANGED <<chain, dropped>>
      BY <1>5, <2>3 DEF Beaten, Retry
    <3>2. write'[p].head = None /\ write'[p].from = write[p].from /\ write'[p].attempt = write[p].attempt + 1
      BY <1>1, <3>1 DEF Writes
    <3>3. GoodWrite(write[p])'
      <4>1. write[p].attempt + 1 \in 1..MaxAttempts /\ Len(log) - write[p].from >= (write[p].attempt + 1) - 1
        BY <1>1, <1>2, <2>2, <2>3 DEF GoodWrite
      <4> QED BY <2>1, <2>2, <3>2, <4>1 DEF GoodWrite
    <3>4. \A q \in Procs \ {p} : write'[q] = write[q]
      BY <1>1, <3>1
    <3>5. \A q \in Procs : (write[q] # Idle => GoodWrite(write[q]))'
      <4> SUFFICES ASSUME NEW q \in Procs, q # p, (write[q] # Idle)' PROVE GoodWrite(write[q])'
        BY <3>3
      <4>1. write'[q] = write[q] /\ GoodWrite(write[q])
        BY <3>4 DEF AuditInvariant, Idle
      <4> QED BY <2>1, <4>1 DEF GoodWrite
    <3>6. Pending'
      BY <1>1, <3>1, <3>2, <3>4 DEF Pending
    <3> QED BY <2>1, <3>1, <3>5, <3>6 DEF AuditInvariant, AuditChainIsUnbroken, DroppedOnlyWhenBeaten
  <2>4. CASE ~(write[p].attempt < MaxAttempts)
    <3>1. Settle(p) /\ dropped' = dropped \cup {[entry |-> Head(chain[p]), beats |-> Len(log) - write[p].from]}
      BY <1>5, <2>4 DEF Beaten
    <3>2. Len(log) - write[p].from >= MaxAttempts
      BY <1>1, <1>2, <2>2, <2>4
    <3>3. DroppedOnlyWhenBeaten'
      BY <3>1, <3>2 DEF AuditInvariant, DroppedOnlyWhenBeaten
    <3>4. write'[p] = Idle /\ \A q \in Procs \ {p} : write'[q] = write[q] /\ chain'[q] = chain[q]
      BY <1>1, <3>1 DEF Settle
    <3>5. \A q \in Procs : (write[q] # Idle => GoodWrite(write[q]))'
      <4> SUFFICES ASSUME NEW q \in Procs, (write[q] # Idle)' PROVE GoodWrite(write[q])'
        OBVIOUS
      <4>1. write'[q] = write[q] /\ GoodWrite(write[q])
        BY <3>4 DEF AuditInvariant, Idle
      <4> QED BY <2>1, <4>1 DEF GoodWrite
    <3>6. Pending'
      BY <1>1, <3>4, FreshWrite DEF Pending
    <3> QED BY <2>1, <3>3, <3>5, <3>6 DEF AuditInvariant, AuditChainIsUnbroken
  <2> QED BY <2>3, <2>4
<1>6. CASE FailWrite(p)
  <2>1. Settle(p) /\ UNCHANGED <<log, dropped>>
    BY <1>6 DEF FailWrite
  <2>2. write'[p] = Idle /\ \A q \in Procs \ {p} : write'[q] = write[q] /\ chain'[q] = chain[q]
    BY <1>1, <2>1 DEF Settle
  <2>3. write' \in [Procs -> Writes]
    BY <1>1, <2>1, FreshWrite DEF Settle
  <2> QED BY <2>1, <2>2, <2>3, AuditUntouched
<1> QED
  BY <1>3, <1>4, <1>5, <1>6 DEF AuditStep, TryCreate

\* A request's step, an exit, an arrival and the rest at most lengthen or end a chain.
LEMMA AuditKept ==
  ASSUME PlainTypes, PlainTypes', AuditInvariant, [Next]_vars
  PROVE  AuditInvariant'
<1>1. write \in [Procs -> Writes] /\ chain \in [Procs -> Seq(Nat)] /\ write' \in [Procs -> Writes]
  BY DEF PlainTypes, AuditTypes
<1>2. CASE UNCHANGED audit
  BY <1>1, <1>2, AuditUntouched DEF audit
<1>3. CASE \E p \in Procs : AuditStep(p)
  BY <1>3, AuditStepKeeps
<1>4. ASSUME NEW p \in Procs, NEW exitCode, Exit(p, exitCode) PROVE AuditInvariant'
  BY <1>1, <1>4, AuditUntouched DEF Exit
<1>5. ASSUME NEW p \in Procs, NEW r \in serving[p], RequestStep(p, r) PROVE AuditInvariant'
  <2>1. UNCHANGED <<write, log, dropped>>
    BY <1>5 DEF RequestStep, Change, WriteRecord, FailWriting, Dispatch, Respond, Refuse, audit
  <2>2. chain' = chain \/ chain' = [chain EXCEPT ![p] = Append(@, r.number)]
    BY <1>5 DEF RequestStep, Change, WriteRecord, FailWriting, Dispatch, Respond, Refuse, audit, Advance
  <2>3. Append(chain[p], r.number) # << >>
    <3>1. r.number \in Nat /\ chain[p] \in Seq(Nat)
      BY <1>1, NumberTypes
    <3> QED BY <3>1
  <2>4. \A q \in Procs : chain[q] # << >> => chain'[q] # << >>
    BY <1>1, <2>2, <2>3
  <2> QED BY <1>1, <2>1, <2>4, AuditUntouched
<1>6. (\E p \in Procs, kind \in Kinds : Arrive(p, kind)) \/ OtherStep \/ UNCHANGED vars => UNCHANGED audit
  BY OtherTypes DEF Arrive, vars, audit
<1> QED
  BY <1>2, <1>3, <1>4, <1>5, <1>6, Steps

LEMMA TypesKept ==
  ASSUME PlainTypes, Pending, [Next]_vars
  PROVE  PlainTypes'
<1>1. CASE UNCHANGED vars
  BY <1>1 DEF vars, PlainTypes, ProcessTypes, OutboxTypes, AuditTypes
<1>2. ASSUME NEW p \in Procs, AuditStep(p) PROVE PlainTypes'
  <2>1. AuditTypes'
    BY <1>2, AuditStepTypes
  <2> QED BY <1>2, <2>1 DEF AuditStep, ReadHead, TryCreate, FailWrite, PlainTypes, ProcessTypes, OutboxTypes, process, outbox
<1> QED
  BY <1>1, <1>2, OtherTypes, ExitTypes, ArriveTypes, RequestTypes, Steps

Audited == PlainTypes /\ AuditInvariant

LEMMA AuditedAlways == PlatformSpec => []Audited
<1>1. Init => Audited
  BY InitTypes, PlatformAssumption DEF Init, Audited, AuditInvariant, Pending, Idle, AuditChainIsUnbroken, DroppedOnlyWhenBeaten
<1>2. Audited /\ [Next]_vars => Audited'
  BY TypesKept, AuditKept DEF Audited, AuditInvariant
<1> QED
  BY <1>1, <1>2, PTL DEF PlatformSpec

(* The audit chain is never broken, for any number of processes: an entry is   *)
(* created only on the head its writer read (auditLogger.ts:39-52).            *)
THEOREM AuditChain == PlatformSpec => []AuditChainIsUnbroken
<1>1. Audited => AuditChainIsUnbroken
  BY DEF Audited, AuditInvariant
<1> QED
  BY <1>1, AuditedAlways, PTL

(* A dropped entry was beaten MAX_ATTEMPTS times (auditLogger.ts:46-52).       *)
THEOREM DropsAreDefeats == PlatformSpec => []DroppedOnlyWhenBeaten
<1>1. Audited => DroppedOnlyWhenBeaten
  BY DEF Audited, AuditInvariant
<1> QED
  BY <1>1, AuditedAlways, PTL

-----------------------------------------------------------------------------
(* The slots of the event streams                                          *)

UserStreams(p, u) == {s \in OpenStreams(p) : s.user = u}
Fresh == IsFiniteSet(streams) /\ \A s \in streams : s.id > left["streams"]
Slots == ProcessTypes /\ LimiterTypes /\ Fresh /\ SlotsAreStreams

LEMMA OpenStreamsAreFinite ==
  ASSUME Fresh, NEW p, NEW u
  PROVE  /\ IsFiniteSet(OpenStreams(p)) /\ IsFiniteSet(UserStreams(p, u))
         /\ Cardinality(OpenStreams(p)) \in Nat /\ Cardinality(UserStreams(p, u)) \in Nat
<1>1. OpenStreams(p) \subseteq streams /\ UserStreams(p, u) \subseteq streams
  BY DEF OpenStreams, UserStreams
<1>2. IsFiniteSet(OpenStreams(p)) /\ IsFiniteSet(UserStreams(p, u))
  BY <1>1, FS_Subset DEF Fresh
<1> QED
  BY <1>2, FS_CardinalityType

LEMMA OpenStreamKeeps ==
  ASSUME Slots, ProcessTypes', NEW p \in Procs, NEW u \in Users, OpenStream(p, u)
  PROVE  Slots'
<1> DEFINE new == [id |-> left["streams"], at |-> p, user |-> u, fired |-> {}]
<1>1. /\ total \in [Procs -> Nat] /\ perUser \in [Procs -> [Users -> Nat]] /\ left \in [Events -> Nat]
      /\ streams \subseteq [id : Nat, at : Procs, user : Users, fired : SUBSET Endings]
  BY DEF Slots, LimiterTypes, ProcessTypes
<1>2. /\ total' = [total EXCEPT ![p] = total[p] + 1]
      /\ perUser' = [perUser EXCEPT ![p][u] = perUser[p][u] + 1]
      /\ streams' = streams \cup {new}
  BY DEF OpenStream, Acquire
<1>3. left' = [left EXCEPT !["streams"] = left["streams"] - 1] /\ left["streams"] \in Nat
      /\ left'["streams"] = left["streams"] - 1
  BY <1>1 DEF OpenStream, Spend, Events
<1>4. new \notin streams
  BY <1>3 DEF Slots, Fresh
<1>5. new.id = left["streams"] /\ new.at = p /\ new.user = u /\ new.fired = {}
  OBVIOUS
<1>6. new \in [id : Nat, at : Procs, user : Users, fired : SUBSET Endings]
  BY <1>3
<1> HIDE DEF new
<1>7. Fresh'
  <2>1. IsFiniteSet(streams')
    BY <1>2, FS_AddElement DEF Slots, Fresh
  <2>2. \A s \in streams : s.id \in Nat /\ s.id > left["streams"]
    BY <1>1 DEF Slots, Fresh
  <2> QED BY <1>2, <1>3, <1>5, <2>1, <2>2 DEF Fresh
<1>8. LimiterTypes'
  <2>1. total' \in [Procs -> Nat] /\ perUser' \in [Procs -> [Users -> Nat]]
    BY <1>1, <1>2
  <2> QED BY <1>1, <1>2, <1>6, <2>1 DEF LimiterTypes
<1>9. OpenStreams(p)' = OpenStreams(p) \cup {new} /\ UserStreams(p, u)' = UserStreams(p, u) \cup {new}
  BY <1>2, <1>5 DEF OpenStreams, UserStreams
<1>10. \A q \in Procs \ {p} : OpenStreams(q)' = OpenStreams(q)
  BY <1>2, <1>5 DEF OpenStreams
<1>11. \A q \in Procs, v \in Users : <<q, v>> # <<p, u>> => UserStreams(q, v)' = UserStreams(q, v)
  BY <1>2, <1>5 DEF OpenStreams, UserStreams
<1>12. Cardinality(OpenStreams(p))' = Cardinality(OpenStreams(p)) + 1
  <2>1. new \notin OpenStreams(p)
    BY <1>4 DEF OpenStreams
  <2> QED BY <1>9, <2>1, OpenStreamsAreFinite, FS_AddElement DEF Slots
<1>13. Cardinality(UserStreams(p, u))' = Cardinality(UserStreams(p, u)) + 1
  <2>1. new \notin UserStreams(p, u)
    BY <1>4 DEF OpenStreams, UserStreams
  <2> QED BY <1>9, <2>1, OpenStreamsAreFinite, FS_AddElement DEF Slots
<1>14. \A q \in Procs : total[q] = Cardinality(OpenStreams(q)) /\ \A v \in Users : perUser[q][v] = Cardinality(UserStreams(q, v))
  BY DEF Slots, SlotsAreStreams, UserStreams
<1>15. \A q \in Procs : total'[q] = Cardinality(OpenStreams(q))'
  BY <1>1, <1>2, <1>10, <1>12, <1>14
<1>16. \A q \in Procs, v \in Users : perUser'[q][v] = Cardinality(UserStreams(q, v))'
  <2>1. perUser'[p][u] = perUser[p][u] + 1
    BY <1>1, <1>2
  <2>2. \A q \in Procs, v \in Users : <<q, v>> # <<p, u>> => perUser'[q][v] = perUser[q][v]
    BY <1>1, <1>2
  <2> QED BY <1>11, <1>13, <1>14, <2>1, <2>2
<1> QED
  BY <1>7, <1>8, <1>15, <1>16 DEF Slots, SlotsAreStreams, UserStreams

LEMMA FinishKeeps ==
  ASSUME Slots, ProcessTypes', NEW s \in streams, NEW ending \in Endings, Finish(s, ending)
  PROVE  Slots'
<1> DEFINE ended == [s EXCEPT !.fired = @ \cup {ending}]
<1>1. /\ total \in [Procs -> Nat] /\ perUser \in [Procs -> [Users -> Nat]]
      /\ streams \subseteq [id : Nat, at : Procs, user : Users, fired : SUBSET Endings]
      /\ s \in [id : Nat, at : Procs, user : Users, fired : SUBSET Endings]
  BY DEF Slots, LimiterTypes
<1>2. streams' = (streams \ {s}) \cup {ended} /\ Release(s) /\ left' = left
  BY DEF Finish
<1>3. ended.fired # {} /\ ended.id = s.id /\ ended \in [id : Nat, at : Procs, user : Users, fired : SUBSET Endings]
  BY <1>1
<1> HIDE DEF ended
<1>4. Fresh'
  <2>1. IsFiniteSet(streams \ {s})
    BY FS_RemoveElement DEF Slots, Fresh
  <2>2. IsFiniteSet(streams')
    BY <1>2, <2>1, FS_AddElement
  <2> QED BY <1>2, <1>3, <2>2 DEF Slots, Fresh
<1>5. \A q : OpenStreams(q)' = OpenStreams(q) \ {s} /\ \A v : UserStreams(q, v)' = UserStreams(q, v) \ {s}
  BY <1>2, <1>3 DEF OpenStreams, UserStreams
<1>6. \A q \in Procs : total[q] = Cardinality(OpenStreams(q)) /\ \A v \in Users : perUser[q][v] = Cardinality(UserStreams(q, v))
  BY DEF Slots, SlotsAreStreams, UserStreams
<1>7. CASE s.fired # {}
  <2>1. UNCHANGED <<total, perUser>>
    BY <1>2, <1>7 DEF Release
  <2>2. \A q : OpenStreams(q)' = OpenStreams(q) /\ \A v : UserStreams(q, v)' = UserStreams(q, v)
    BY <1>5, <1>7 DEF OpenStreams, UserStreams
  <2>3. LimiterTypes'
    BY <1>1, <1>2, <1>3, <2>1 DEF LimiterTypes
  <2>4. SlotsAreStreams'
    BY <1>6, <2>1, <2>2 DEF SlotsAreStreams, UserStreams
  <2> QED BY <1>4, <2>3, <2>4 DEF Slots
<1>8. CASE s.fired = {}
  <2> DEFINE p == s.at
             u == s.user
  <2>1. p \in Procs /\ u \in Users /\ s \in OpenStreams(p) /\ s \in UserStreams(p, u)
    BY <1>1, <1>8 DEF OpenStreams, UserStreams
  <2>2. \A q \in Procs \ {p} : OpenStreams(q)' = OpenStreams(q)
    BY <1>5 DEF OpenStreams
  <2>3. \A q \in Procs, v \in Users : <<q, v>> # <<p, u>> => UserStreams(q, v)' = UserStreams(q, v)
    BY <1>5 DEF OpenStreams, UserStreams
  <2>4. /\ total' = [total EXCEPT ![p] = total[p] - 1]
        /\ perUser' = [perUser EXCEPT ![p][u] = IF perUser[p][u] > 1 THEN perUser[p][u] - 1 ELSE 0]
    BY <1>2, <1>8 DEF Release
  <2> HIDE DEF p, u
  <2>5. /\ IsFiniteSet(OpenStreams(p)) /\ IsFiniteSet(UserStreams(p, u))
        /\ Cardinality(OpenStreams(p)) \in Nat /\ Cardinality(UserStreams(p, u)) \in Nat
    BY OpenStreamsAreFinite DEF Slots
  <2>6. /\ Cardinality(OpenStreams(p) \ {s}) = Cardinality(OpenStreams(p)) - 1
        /\ Cardinality(UserStreams(p, u) \ {s}) = Cardinality(UserStreams(p, u)) - 1
    BY <2>1, <2>5, FS_RemoveElement
  <2>7. /\ Cardinality(OpenStreams(p) \ {s}) \in Nat /\ Cardinality(UserStreams(p, u) \ {s}) \in Nat
    BY <2>5, FS_RemoveElement, FS_CardinalityType
  <2>8. total[p] \in Nat \ {0} /\ perUser[p][u] \in Nat \ {0}
    BY <1>6, <2>1, <2>5, <2>6, <2>7
  <2>9. total' \in [Procs -> Nat] /\ total'[p] = total[p] - 1 /\ \A q \in Procs \ {p} : total'[q] = total[q]
    <3> DEFINE one == total[p] - 1
    <3>1. one \in Nat /\ total' = [total EXCEPT ![p] = one]
      BY <2>4, <2>8
    <3> HIDE DEF one
    <3>2. total' \in [Procs -> Nat] /\ total'[p] = one /\ \A q \in Procs \ {p} : total'[q] = total[q]
      BY <1>1, <2>1, <3>1
    <3> QED BY <3>2 DEF one
  <2> DEFINE fewer == IF perUser[p][u] > 1 THEN perUser[p][u] - 1 ELSE 0
  <2>10. fewer \in Nat /\ fewer = perUser[p][u] - 1
    BY <2>8
  <2>11. perUser' = [perUser EXCEPT ![p][u] = fewer]
    BY <2>4
  <2> HIDE DEF fewer
  <2>12. /\ perUser' \in [Procs -> [Users -> Nat]] /\ perUser'[p][u] = fewer
         /\ \A q \in Procs, v \in Users : <<q, v>> # <<p, u>> => perUser'[q][v] = perUser[q][v]
    BY <1>1, <2>1, <2>10, <2>11
  <2>13. \A q \in Procs : total'[q] = Cardinality(OpenStreams(q))'
    BY <1>5, <1>6, <2>1, <2>2, <2>6, <2>9
  <2>14. \A q \in Procs, v \in Users : perUser'[q][v] = Cardinality(UserStreams(q, v))'
    BY <1>5, <1>6, <2>1, <2>3, <2>6, <2>10, <2>12
  <2>15. LimiterTypes'
    BY <1>1, <1>2, <1>3, <2>9, <2>12 DEF LimiterTypes
  <2> QED BY <1>4, <2>13, <2>14, <2>15 DEF Slots, SlotsAreStreams, UserStreams
<1> QED
  BY <1>7, <1>8

LEMMA ExitKeepsSlots ==
  ASSUME Slots, ProcessTypes', NEW p \in Procs, NEW exitCode, Exit(p, exitCode)
  PROVE  Slots'
<1>1. /\ total \in [Procs -> Nat] /\ perUser \in [Procs -> [Users -> Nat]]
      /\ streams \subseteq [id : Nat, at : Procs, user : Users, fired : SUBSET Endings]
  BY DEF Slots, LimiterTypes
<1>2. /\ streams' = {s \in streams : s.at # p} /\ total' = [total EXCEPT ![p] = 0]
      /\ perUser' = [perUser EXCEPT ![p] = [u \in Users |-> 0]] /\ left' = left
  BY DEF Exit
<1>3. LimiterTypes'
  <2>1. [u \in Users |-> 0] \in [Users -> Nat]
    OBVIOUS
  <2>2. total' \in [Procs -> Nat] /\ perUser' \in [Procs -> [Users -> Nat]]
    BY <1>1, <1>2, <2>1
  <2> QED BY <1>1, <1>2, <2>2 DEF LimiterTypes
<1>4. Fresh'
  <2>1. streams' \subseteq streams
    BY <1>2
  <2> QED BY <1>2, <2>1, FS_Subset DEF Slots, Fresh
<1>5. OpenStreams(p)' = {} /\ \A v : UserStreams(p, v)' = {}
  BY <1>2 DEF OpenStreams, UserStreams
<1>6. \A q \in Procs \ {p} : OpenStreams(q)' = OpenStreams(q) /\ \A v : UserStreams(q, v)' = UserStreams(q, v)
  BY <1>2 DEF OpenStreams, UserStreams
<1>7. \A q \in Procs : total[q] = Cardinality(OpenStreams(q)) /\ \A v \in Users : perUser[q][v] = Cardinality(UserStreams(q, v))
  BY DEF Slots, SlotsAreStreams, UserStreams
<1>8. total'[p] = 0 /\ \A v \in Users : perUser'[p][v] = 0
  BY <1>1, <1>2
<1>9. \A q \in Procs \ {p} : total'[q] = total[q] /\ perUser'[q] = perUser[q]
  BY <1>1, <1>2
<1>10. \A q \in Procs : total'[q] = Cardinality(OpenStreams(q))' /\ \A v \in Users : perUser'[q][v] = Cardinality(UserStreams(q, v))'
  BY <1>5, <1>6, <1>7, <1>8, <1>9, FS_EmptySet
<1> QED
  BY <1>3, <1>4, <1>10 DEF Slots, SlotsAreStreams, UserStreams

LEMMA SlotsUntouched ==
  ASSUME Slots, ProcessTypes', UNCHANGED limiter, left'["streams"] = left["streams"]
  PROVE  Slots'
<1>1. \A p : OpenStreams(p)' = OpenStreams(p)
  BY DEF OpenStreams, limiter
<1> QED
  BY <1>1 DEF Slots, LimiterTypes, Fresh, SlotsAreStreams, limiter

LEMMA SlotsKept ==
  ASSUME PlainTypes, PlainTypes', Slots, [Next]_vars
  PROVE  Slots'
<1>1. ProcessTypes'
  BY DEF PlainTypes
<1>2. left["streams"]' = left["streams"] \/ \E p \in Procs, u \in Users : OpenStream(p, u)
  <2>1. \A e \in Events \ {"streams"} : Spend(e) => left'["streams"] = left["streams"]
    BY SpendEffect DEF PlainTypes, Events
  <2>2. {"requests", "changes", "faults"} \subseteq Events \ {"streams"}
    BY DEF Events
  <2>3. CASE UNCHANGED left
    BY <2>3
  <2>4. CASE Fault \/ \E p \in Procs, kind \in Kinds : Arrive(p, kind)
    BY <2>1, <2>2, <2>4 DEF Fault, Arrive
  <2>5. UNCHANGED left \/ Fault \/ (\E p \in Procs, kind \in Kinds : Arrive(p, kind)) \/ \E p \in Procs, u \in Users : OpenStream(p, u)
    <3>1. \A p \in Procs : AuditStep(p) => UNCHANGED left
      BY DEF AuditStep, ReadHead, TryCreate, FailWrite
    <3>2. \A p \in Procs : \A r \in serving[p] : RequestStep(p, r) => UNCHANGED left
      BY DEF RequestStep, Change, WriteRecord, FailWriting, Dispatch, Respond, Refuse
    <3>3. \A p \in Procs, exitCode \in {None, 0, 1} : Exit(p, exitCode) => UNCHANGED left
      BY DEF Exit
    <3>4. OtherStep => UNCHANGED left \/ Fault \/ \E p \in Procs, u \in Users : OpenStream(p, u)
      BY DEF OtherStep, Heal, Start, Reconnect, Closed, Shutdown, Finish
    <3> QED BY <3>1, <3>2, <3>3, <3>4, Steps DEF vars
  <2> QED BY <2>3, <2>4, <2>5
<1>3. CASE \E p \in Procs, u \in Users : OpenStream(p, u)
  BY <1>1, <1>3, OpenStreamKeeps
<1>4. CASE \E s \in streams, ending \in Endings : Finish(s, ending)
  BY <1>1, <1>4, FinishKeeps
<1>5. CASE \E p \in Procs, exitCode \in {None, 0, 1} : Exit(p, exitCode)
  BY <1>1, <1>5, ExitKeepsSlots
<1>6. CASE UNCHANGED limiter
  BY <1>1, <1>2, <1>3, <1>6, SlotsUntouched
<1>7. UNCHANGED vars => UNCHANGED limiter
  BY DEF vars, limiter
<1>8. \A p \in Procs : AuditStep(p) => UNCHANGED limiter
  BY DEF AuditStep, ReadHead, TryCreate, FailWrite
<1>9. \A p \in Procs, kind \in Kinds : Arrive(p, kind) => UNCHANGED limiter
  BY DEF Arrive
<1>10. \A p \in Procs : \A r \in serving[p] : RequestStep(p, r) => UNCHANGED limiter
  BY DEF RequestStep, Change, WriteRecord, FailWriting, Dispatch, Respond, Refuse
<1>11. OtherStep => \/ UNCHANGED limiter \/ (\E p \in Procs, u \in Users : OpenStream(p, u))
                    \/ \E s \in streams, ending \in Endings : Finish(s, ending)
  BY DEF OtherStep, Fault, Heal, Start, Reconnect, Closed, Shutdown
<1> QED
  BY <1>3, <1>4, <1>5, <1>6, <1>7, <1>8, <1>9, <1>10, <1>11, Steps

Counted == Audited /\ Slots

LEMMA CountedAlways == PlatformSpec => []Counted
<1>1. Init => Slots
  <2> SUFFICES ASSUME Init PROVE Slots
    OBVIOUS
  <2>1. ProcessTypes
    BY InitTypes DEF PlainTypes
  <2>2. LimiterTypes /\ streams = {}
    BY DEF Init, LimiterTypes
  <2>3. \A p, u : OpenStreams(p) = {} /\ UserStreams(p, u) = {}
    BY <2>2 DEF OpenStreams, UserStreams
  <2>4. Fresh /\ SlotsAreStreams
    BY <2>2, <2>3, FS_EmptySet DEF Init, Fresh, SlotsAreStreams, UserStreams
  <2> QED BY <2>1, <2>2, <2>4 DEF Slots
<1>2. Slots /\ Audited /\ Audited' /\ [Next]_vars => Slots'
  BY SlotsKept DEF Audited
<1> QED
  BY <1>1, <1>2, AuditedAlways, PTL DEF PlatformSpec, Counted

(* Every variable keeps its type, and no counter of the limiter goes below zero. *)
THEOREM PlatformTypes == PlatformSpec => []TypeOK
<1>1. Counted => TypeOK
  BY DEF Counted, Audited, PlainTypes, Slots, TypeOK
<1> QED
  BY <1>1, CountedAlways, PTL

(* The limiter's counters are the open streams, for any number of processes,    *)
(* users and streams (streamLimiter.ts:24-33).                                   *)
THEOREM SlotsMatchStreams == PlatformSpec => []SlotsAreStreams
<1>1. Counted => SlotsAreStreams
  BY DEF Counted, Slots
<1> QED
  BY <1>1, CountedAlways, PTL

-----------------------------------------------------------------------------
(* The records of the changes                                              *)

Changed(r) == [number |-> r.number, kind |-> r.kind]

\* Numbers are given once, downwards.
Unique ==
  /\ \A p, q \in Procs : \A r \in serving[p], s \in serving[q] : r.number = s.number => p = q /\ r = s
  /\ \A c, d \in changes : c.number = d.number => c = d
Recent ==
  /\ \A p \in Procs : \A r \in serving[p] : r.number > Rest
  /\ \A c \in changes : c.number > Rest

\* What a request knows of the database.
GoodRequest(r) ==
  /\ r.stage = "received" => r.number \notin Numbers(changes)
  /\ r.stage = "writing" =>
       /\ Changed(r) \in changes /\ ~Together(r)
       /\ r.written < Size(r.kind) /\ PlacesOf(r.number) = 1..r.written

UnderWay(c) == \E p \in Procs : \E r \in serving[p] : r.number = c.number /\ r.stage = "writing"
GoodChange(c) ==
  /\ \E n \in 0..Size(c.kind) : PlacesOf(c.number) = 1..n
  /\ \/ PlacesOf(c.number) = 1..Size(c.kind)
     \/ ~(transactions /\ c.kind \in {"cancel", "refund"}) /\ (c.number \in unfinished \/ UnderWay(c))

Outbox ==
  /\ Unique /\ Recent
  /\ \A p \in Procs : \A r \in serving[p] : GoodRequest(r)
  /\ {d.of : d \in records} \subseteq Numbers(changes)
  /\ \A c \in changes : GoodChange(c)

LEMMA PlacesGrow ==
  ASSUME NEW r, NEW n \in Nat, records' = records \cup RecordsOf(r, n)
  PROVE  /\ \A m : m # r.number => PlacesOf(m)' = PlacesOf(m)
         /\ PlacesOf(r.number)' = PlacesOf(r.number) \cup 1..n
         /\ \A d \in RecordsOf(r, n) : d.of = r.number
<1>1. \A d \in RecordsOf(r, n) : d.of = r.number /\ d.place \in 1..n
  BY DEF RecordsOf
<1>2. \A i \in 1..n : \E d \in RecordsOf(r, n) : d.of = r.number /\ d.place = i
  <2> TAKE i \in 1..n
  <2>1. [of |-> r.number, place |-> i] \in RecordsOf(r, n)
    BY DEF RecordsOf
  <2> QED BY <2>1
<1> HIDE DEF RecordsOf
<1> QED
  BY <1>1, <1>2 DEF PlacesOf

\* A request replaced by its next stage, or by nothing.
LEMMA Moved ==
  ASSUME PlainTypes, Unique, Recent, left' = left, NEW p \in Procs, NEW r \in serving[p],
         NEW next, \A a, b \in next : a = b, \A a \in next : a.number = r.number,
         serving' = [serving EXCEPT ![p] = (serving[p] \ {r}) \cup next]
  PROVE  /\ \A q \in Procs : \A s \in serving'[q] : \/ s \in serving[q] /\ s.number # r.number
                                                    \/ q = p /\ s \in next
         /\ \A q \in Procs : \A s \in serving[q] : s.number # r.number => s \in serving'[q]
         /\ \A s \in next : s \in serving'[p]
         /\ \A q1, q2 \in Procs : \A s \in serving'[q1], t \in serving'[q2] : s.number = t.number => q1 = q2 /\ s = t
         /\ \A q \in Procs : \A s \in serving'[q] : s.number > Rest'
<1>1. serving \in [Procs -> SUBSET Requests]
  BY DEF PlainTypes, OutboxTypes
<1>2. serving'[p] = (serving[p] \ {r}) \cup next /\ \A q \in Procs \ {p} : serving'[q] = serving[q]
  BY <1>1
<1>3. \A q \in Procs : \A s \in serving'[q] : (s \in serving[q] /\ s.number # r.number) \/ (q = p /\ s \in next)
  BY <1>2 DEF Unique
<1>4. \A q \in Procs : \A s \in serving[q] : s.number # r.number => s \in serving'[q]
  BY <1>2
<1>5. \A q1, q2 \in Procs : \A s \in serving'[q1], t \in serving'[q2] : s.number = t.number => q1 = q2 /\ s = t
  BY <1>3 DEF Unique
<1>6. Rest' = Rest
  BY DEF Rest
<1>7. \A q \in Procs : \A s \in serving'[q] : s.number > Rest'
  BY <1>3, <1>6 DEF Recent
<1> QED
  BY <1>2, <1>3, <1>4, <1>5, <1>7

\* A request that ends: what it leaves unfinished is known.
LEMMA Ended ==
  ASSUME PlainTypes, Outbox, left' = left, NEW p \in Procs, NEW r \in serving[p],
         serving' = [serving EXCEPT ![p] = serving[p] \ {r}],
         UNCHANGED <<transactions, changes, records>>, unfinished \subseteq unfinished',
         r.stage = "writing" => r.number \in unfinished'
  PROVE  Outbox'
<1>1. /\ \A q \in Procs : \A s \in serving'[q] : s \in serving[q]
      /\ \A q \in Procs : \A s \in serving[q] : s.number # r.number => s \in serving'[q]
      /\ Unique' /\ Recent'
  <2>1. serving' = [serving EXCEPT ![p] = (serving[p] \ {r}) \cup {}]
    OBVIOUS
  <2> QED BY <2>1, Moved DEF Outbox, Unique, Recent, Rest
<1>2. \A q \in Procs : \A s \in serving'[q] : GoodRequest(s)'
  BY <1>1 DEF Outbox, GoodRequest, Numbers, Together, PlacesOf, Changed
<1>3. \A m : PlacesOf(m)' = PlacesOf(m)
  BY DEF PlacesOf
<1>4. \A c \in changes : GoodChange(c)'
  <2> SUFFICES ASSUME NEW c \in changes, ~(PlacesOf(c.number) = 1..Size(c.kind)), UnderWay(c)
               PROVE  c.number \in unfinished' \/ UnderWay(c)'
    BY <1>3 DEF Outbox, GoodChange
  <2> PICK q \in Procs : \E s \in serving[q] : s.number = c.number /\ s.stage = "writing"
    BY DEF UnderWay
  <2> PICK s \in serving[q] : s.number = c.number /\ s.stage = "writing"
    OBVIOUS
  <2>1. CASE s.number = r.number
    <3>1. s = r
      BY <2>1 DEF Outbox, Unique
    <3> QED BY <3>1
  <2>2. CASE s.number # r.number
    BY <1>1, <2>2 DEF UnderWay
  <2> QED BY <2>1, <2>2
<1>5. ({d.of : d \in records} \subseteq Numbers(changes))'
  BY DEF Outbox, Numbers
<1> QED
  BY <1>1, <1>2, <1>4, <1>5 DEF Outbox

\* The changes but that of a moving request stay as good as they were.
LEMMA OtherChanges ==
  ASSUME NEW number, \A m : m # number => PlacesOf(m)' = PlacesOf(m),
         \A q \in Procs : \A s \in serving[q] : s.number # number => s \in serving'[q],
         UNCHANGED <<transactions, unfinished>>, NEW c, c.number # number, GoodChange(c)
  PROVE  GoodChange(c)'
<1>1. PlacesOf(c.number)' = PlacesOf(c.number)
  OBVIOUS
<1>2. UnderWay(c) => UnderWay(c)'
  BY DEF UnderWay
<1> QED
  BY <1>1, <1>2 DEF GoodChange

LEMMA OtherRequests ==
  ASSUME NEW number, \A m : m # number => PlacesOf(m)' = PlacesOf(m),
         UNCHANGED transactions, changes \subseteq changes', \A c \in changes' : c \in changes \/ c.number = number,
         NEW s, s.number # number, GoodRequest(s)
  PROVE  GoodRequest(s)'
<1>1. PlacesOf(s.number)' = PlacesOf(s.number) /\ (s.number \in Numbers(changes'))  = (s.number \in Numbers(changes))
  BY DEF Numbers
<1> QED
  BY <1>1 DEF GoodRequest, Changed, Together

LEMMA ChangeKeeps ==
  ASSUME PlainTypes, Outbox, NEW p \in Procs, NEW r \in serving[p], Change(p, r)
  PROVE  Outbox'
<1> DEFINE together == Together(r)
           n == IF together THEN Size(r.kind) ELSE 0
           stage == IF together THEN "written" ELSE "writing"
           next == [r EXCEPT !.stage = stage, !.written = n]
<1>1. r \in Requests /\ r.number \in Nat /\ r.kind \in Kinds /\ r.kind # "plain" /\ r.stage = "received"
  BY NumberTypes DEF Change
<1>2. Size(r.kind) \in Nat \ {0} /\ n \in Nat
  BY <1>1, FollowUpSizes
<1>3. /\ changes' = changes \cup {Changed(r)} /\ records' = records \cup RecordsOf(r, n)
      /\ UNCHANGED <<transactions, unfinished, left>>
  BY DEF Change, Changed, Size, process
<1> PICK moved : moved = next
  OBVIOUS
<1>4. serving' = [serving EXCEPT ![p] = (serving[p] \ {r}) \cup {moved}]
  BY DEF Change, Advance, Size
<1>5. moved.number = r.number /\ moved.kind = r.kind /\ moved.stage = stage /\ moved.written = n
  BY <1>1 DEF Requests
<1> HIDE DEF next
<1>6. /\ \A q \in Procs : \A s \in serving'[q] : (s \in serving[q] /\ s.number # r.number) \/ (q = p /\ s = moved)
      /\ \A q \in Procs : \A s \in serving[q] : s.number # r.number => s \in serving'[q]
      /\ moved \in serving'[p]
      /\ \A q1, q2 \in Procs : \A s \in serving'[q1], t \in serving'[q2] : s.number = t.number => q1 = q2 /\ s = t
      /\ \A q \in Procs : \A s \in serving'[q] : s.number > Rest'
  <2> DEFINE only == {moved}
  <2>1. (\A a, b \in only : a = b) /\ (\A a \in only : a.number = r.number)
    BY <1>5
  <2>2. serving' = [serving EXCEPT ![p] = (serving[p] \ {r}) \cup only]
    BY <1>4
  <2> HIDE DEF only
  <2>3. /\ \A q \in Procs : \A s \in serving'[q] : (s \in serving[q] /\ s.number # r.number) \/ (q = p /\ s \in only)
        /\ \A q \in Procs : \A s \in serving[q] : s.number # r.number => s \in serving'[q]
        /\ \A s \in only : s \in serving'[p]
        /\ \A q1, q2 \in Procs : \A s \in serving'[q1], t \in serving'[q2] : s.number = t.number => q1 = q2 /\ s = t
        /\ \A q \in Procs : \A s \in serving'[q] : s.number > Rest'
    BY <1>3, <2>1, <2>2, Moved DEF Outbox
  <2> QED BY <2>3 DEF only
<1>7. /\ \A m : m # r.number => PlacesOf(m)' = PlacesOf(m)
      /\ PlacesOf(r.number)' = PlacesOf(r.number) \cup 1..n
      /\ \A d \in RecordsOf(r, n) : d.of = r.number
  BY <1>2, <1>3, PlacesGrow
<1>8. r.number \notin Numbers(changes) /\ r.number > Rest
  BY <1>1 DEF Outbox, GoodRequest, Recent
<1>9. PlacesOf(r.number) = {}
  BY <1>8 DEF Outbox, PlacesOf
<1>10. PlacesOf(r.number)' = 1..n
  BY <1>7, <1>9
<1>11. Changed(r).number = r.number /\ Changed(r).kind = r.kind
  BY DEF Changed
<1>12. Unique'
  <2>1. \A c \in changes : c.number # r.number
    BY <1>8 DEF Numbers
  <2>2. \A c, d \in changes : c.number = d.number => c = d
    BY DEF Outbox, Unique
  <2>3. ASSUME NEW c \in changes', NEW d \in changes', c.number = d.number PROVE c = d
    <3>1. (c \in changes \/ c = Changed(r)) /\ (d \in changes \/ d = Changed(r))
      BY <1>3
    <3> QED BY <1>11, <2>1, <2>2, <2>3, <3>1
  <2>4. \A c, d \in changes' : c.number = d.number => c = d
    BY <2>3
  <2> QED BY <1>6, <2>4 DEF Unique
<1>13. Recent'
  <2>1. Rest' = Rest
    BY <1>3 DEF Rest
  <2>2. \A c \in changes : c.number > Rest
    BY DEF Outbox, Recent
  <2>3. ASSUME NEW c \in changes' PROVE c.number > Rest'
    <3>1. c \in changes \/ c = Changed(r)
      BY <1>3
    <3> QED BY <1>8, <1>11, <2>1, <2>2, <3>1
  <2> QED BY <1>6, <2>3 DEF Recent
<1>14. {d.of : d \in records'} \subseteq Numbers(changes')
  BY <1>3, <1>7, <1>11 DEF Outbox, Numbers
<1>15. \A c \in changes' : c \in changes \/ c.number = r.number
  BY <1>3, <1>11
<1>16. GoodRequest(moved)'
  <2>1. Changed(moved) = Changed(r) /\ Changed(r) \in changes'
    BY <1>3, <1>5 DEF Changed
  <2>2. stage = "writing" => ~Together(moved)' /\ n < Size(moved.kind) /\ n = 0
    BY <1>2, <1>3, <1>5 DEF Together, Outboxed
  <2> QED BY <1>5, <1>10, <2>1, <2>2 DEF GoodRequest
<1>17. ASSUME NEW q \in Procs, NEW s \in serving'[q] PROVE GoodRequest(s)'
  <2>1. CASE s \in serving[q] /\ s.number # r.number
    BY <1>3, <1>7, <1>15, <2>1, OtherRequests DEF Outbox
  <2> QED BY <1>6, <1>16, <2>1
<1>18. ASSUME NEW c \in changes' PROVE GoodChange(c)'
  <2>1. CASE c \in changes /\ c.number # r.number
    BY <1>3, <1>6, <1>7, <2>1, OtherChanges DEF Outbox
  <2>2. CASE c = Changed(r)
    <3>1. c.number = r.number /\ c.kind = r.kind /\ PlacesOf(c.number)' = 1..n /\ n \in 0..Size(c.kind)
      BY <1>2, <1>10, <1>11, <2>2
    <3>2. CASE together
      BY <3>1, <3>2 DEF GoodChange
    <3>3. CASE ~together
      <4>1. UnderWay(c)'
        BY <1>5, <1>6, <3>1, <3>3 DEF UnderWay
      <4>2. ~(transactions' /\ c.kind \in {"cancel", "refund"})
        BY <1>3, <3>1, <3>3 DEF Together, Outboxed
      <4> QED BY <3>1, <4>1, <4>2 DEF GoodChange
    <3> QED BY <3>2, <3>3
  <2>3. c \in changes => c.number # r.number
    BY <1>8 DEF Numbers
  <2> QED BY <1>3, <2>1, <2>2, <2>3
<1> QED
  BY <1>12, <1>13, <1>14, <1>17, <1>18 DEF Outbox

LEMMA WriteRecordKeeps ==
  ASSUME PlainTypes, Outbox, NEW p \in Procs, NEW r \in serving[p], WriteRecord(p, r)
  PROVE  Outbox'
<1> DEFINE n == r.written + 1
           stage == IF n = Size(r.kind) THEN "written" ELSE "writing"
           moved == [r EXCEPT !.stage = stage, !.written = n]
<1>1. r \in Requests /\ r.number \in Nat /\ r.kind \in Kinds /\ r.written \in Nat /\ r.stage = "writing" /\ n \in Nat
  BY NumberTypes DEF WriteRecord
<1>2. /\ Changed(r) \in changes /\ ~Together(r) /\ Size(r.kind) \in Nat
      /\ r.written < Size(r.kind) /\ PlacesOf(r.number) = 1..r.written
  BY <1>1, FollowUpSizes DEF Outbox, GoodRequest
<1>3. /\ records' = records \cup RecordsOf(r, n)
      /\ UNCHANGED <<transactions, unfinished, left, changes>>
  BY DEF WriteRecord, process
<1>4. serving' = [serving EXCEPT ![p] = (serving[p] \ {r}) \cup {moved}]
  BY DEF WriteRecord, Advance, Size
<1>5. moved.number = r.number /\ moved.kind = r.kind /\ moved.stage = stage /\ moved.written = n
  BY <1>1 DEF Requests
<1> HIDE DEF moved
<1>6. /\ \A q \in Procs : \A s \in serving'[q] : (s \in serving[q] /\ s.number # r.number) \/ (q = p /\ s = moved)
      /\ \A q \in Procs : \A s \in serving[q] : s.number # r.number => s \in serving'[q]
      /\ moved \in serving'[p]
      /\ Unique' /\ Recent'
  <2> DEFINE next == {moved}
  <2>1. (\A a, b \in next : a = b) /\ (\A a \in next : a.number = r.number)
    BY <1>5
  <2>2. serving' = [serving EXCEPT ![p] = (serving[p] \ {r}) \cup next]
    BY <1>4
  <2> HIDE DEF next
  <2>3. /\ \A q \in Procs : \A s \in serving'[q] : (s \in serving[q] /\ s.number # r.number) \/ (q = p /\ s \in next)
        /\ \A q \in Procs : \A s \in serving[q] : s.number # r.number => s \in serving'[q]
        /\ \A s \in next : s \in serving'[p]
        /\ \A q1, q2 \in Procs : \A s \in serving'[q1], t \in serving'[q2] : s.number = t.number => q1 = q2 /\ s = t
        /\ \A q \in Procs : \A s \in serving'[q] : s.number > Rest'
    BY <1>3, <2>1, <2>2, Moved DEF Outbox
  <2>4. Rest' = Rest
    BY <1>3 DEF Rest
  <2> QED BY <1>3, <2>3, <2>4 DEF next, Outbox, Unique, Recent
<1>7. /\ \A m : m # r.number => PlacesOf(m)' = PlacesOf(m)
      /\ PlacesOf(r.number)' = PlacesOf(r.number) \cup 1..n
      /\ \A d \in RecordsOf(r, n) : d.of = r.number
  BY <1>1, <1>3, PlacesGrow
<1>8. PlacesOf(r.number)' = 1..n /\ n \in 0..Size(r.kind)
  BY <1>1, <1>2, <1>7
<1>9. Changed(r).number = r.number /\ Changed(r).kind = r.kind
  BY DEF Changed
<1>10. {d.of : d \in records'} \subseteq Numbers(changes')
  BY <1>2, <1>3, <1>7, <1>9 DEF Outbox, Numbers
<1>11. GoodRequest(moved)'
  <2>1. Changed(moved) = Changed(r) /\ Changed(r) \in changes'
    BY <1>2, <1>3, <1>5 DEF Changed
  <2>2. stage = "writing" => n < Size(moved.kind)
    BY <1>2, <1>5, <1>8
  <2>3. ~Together(moved)'
    BY <1>2, <1>3, <1>5 DEF Together, Outboxed
  <2> QED BY <1>5, <1>8, <2>1, <2>2, <2>3 DEF GoodRequest
<1>12. ASSUME NEW q \in Procs, NEW s \in serving'[q] PROVE GoodRequest(s)'
  <2>1. CASE s \in serving[q] /\ s.number # r.number
    BY <1>3, <1>7, <2>1, OtherRequests DEF Outbox
  <2> QED BY <1>6, <1>11, <2>1
<1>13. ASSUME NEW c \in changes PROVE GoodChange(c)'
  <2>1. CASE c.number # r.number
    BY <1>3, <1>6, <1>7, <2>1, OtherChanges DEF Outbox
  <2>2. CASE c.number = r.number
    <3>1. c = Changed(r)
      BY <1>2, <1>9, <2>2 DEF Outbox, Unique
    <3>2. c.kind = r.kind /\ PlacesOf(c.number)' = 1..n /\ n \in 0..Size(c.kind)
      BY <1>8, <1>9, <2>2, <3>1
    <3>3. CASE stage = "written"
      BY <3>2, <3>3 DEF GoodChange
    <3>4. CASE stage = "writing"
      <4>1. UnderWay(c)'
        BY <1>5, <1>6, <2>2, <3>4 DEF UnderWay
      <4>2. ~(transactions' /\ c.kind \in {"cancel", "refund"})
        BY <1>2, <1>3, <3>2 DEF Together, Outboxed
      <4> QED BY <3>2, <4>1, <4>2 DEF GoodChange
    <3> QED BY <3>3, <3>4
  <2> QED BY <2>1, <2>2
<1> QED
  BY <1>3, <1>6, <1>10, <1>12, <1>13 DEF Outbox

LEMMA RequestKeeps ==
  ASSUME PlainTypes, Outbox, NEW p \in Procs, NEW r \in serving[p], RequestStep(p, r)
  PROVE  Outbox'
<1>1. CASE FailWriting(p, r)
  <2>1. unfinished' = unfinished \cup {r.number} /\ serving' = [serving EXCEPT ![p] = serving[p] \ {r}]
        /\ UNCHANGED <<transactions, changes, records, left>>
    BY <1>1 DEF FailWriting, process
  <2> QED BY <2>1, Ended
<1>2. CASE Refuse(p, r)
  <2>1. r.stage = "received" /\ serving' = [serving EXCEPT ![p] = serving[p] \ {r}]
        /\ UNCHANGED <<transactions, changes, records, unfinished, left>>
    BY <1>2 DEF Refuse, process, outbox
  <2> QED BY <2>1, Ended
<1>3. CASE Dispatch(p, r) \/ Respond(p, r)
  <2>1. UNCHANGED <<transactions, changes, records, unfinished, left>>
    BY <1>3 DEF Dispatch, Respond, process, outbox
  <2>2. serving' = [serving EXCEPT ![p] = serving[p] \ {r}]
    BY <1>3 DEF Dispatch, Respond, Advance
  <2>3. r.stage # "writing"
    <3>1. CASE Dispatch(p, r)
      BY <3>1 DEF Dispatch
    <3>2. CASE Respond(p, r)
      <4>1. Size(r.kind) = 0 /\ r.written \in Nat
        BY <3>2, NumberTypes DEF Respond, Size, FollowUps
      <4> QED BY <4>1 DEF Outbox, GoodRequest
    <3> QED BY <1>3, <3>1, <3>2
  <2> QED BY <2>1, <2>2, <2>3, Ended
<1> QED
  BY <1>1, <1>2, <1>3, ChangeKeeps, WriteRecordKeeps DEF RequestStep

LEMMA ExitKeepsOutbox ==
  ASSUME PlainTypes, Outbox, NEW p \in Procs, NEW exitCode, Exit(p, exitCode)
  PROVE  Outbox'
<1>1. /\ unfinished' = unfinished \cup Numbers({r \in serving[p] : r.stage = "writing"})
      /\ serving' = [serving EXCEPT ![p] = {}] /\ UNCHANGED <<transactions, changes, records, left>>
  BY DEF Exit
<1>2. serving'[p] = {} /\ \A q \in Procs \ {p} : serving'[q] = serving[q]
  BY <1>1 DEF PlainTypes, OutboxTypes
<1>3. Unique' /\ Recent'
  BY <1>1, <1>2 DEF Outbox, Unique, Recent, Rest
<1>4. \A m : PlacesOf(m)' = PlacesOf(m)
  BY <1>1 DEF PlacesOf
<1>5. \A q \in Procs : \A s \in serving'[q] : GoodRequest(s)'
  <2> SUFFICES ASSUME NEW q \in Procs, NEW s \in serving'[q] PROVE GoodRequest(s)'
    OBVIOUS
  <2>1. GoodRequest(s)
    BY <1>2 DEF Outbox
  <2> QED BY <1>1, <1>4, <2>1 DEF GoodRequest, Changed, Together
<1>6. \A c \in changes : GoodChange(c)'
  <2> SUFFICES ASSUME NEW c \in changes, UnderWay(c) PROVE c.number \in unfinished' \/ UnderWay(c)'
    BY <1>1, <1>4 DEF Outbox, GoodChange
  <2> PICK q \in Procs : \E s \in serving[q] : s.number = c.number /\ s.stage = "writing"
    BY DEF UnderWay
  <2> PICK s \in serving[q] : s.number = c.number /\ s.stage = "writing"
    OBVIOUS
  <2>1. CASE q = p
    BY <1>1, <2>1 DEF Numbers
  <2>2. CASE q # p
    BY <1>2, <2>2 DEF UnderWay
  <2> QED BY <2>1, <2>2
<1>7. ({d.of : d \in records} \subseteq Numbers(changes))'
  BY <1>1 DEF Outbox, Numbers
<1> QED
  BY <1>1, <1>3, <1>5, <1>6, <1>7 DEF Outbox

LEMMA ArriveKeeps ==
  ASSUME PlainTypes, Outbox, NEW p \in Procs, NEW kind \in Kinds, Arrive(p, kind)
  PROVE  Outbox'
<1> DEFINE asked == [number |-> Rest, kind |-> kind, stage |-> "received", written |-> 0]
<1> PICK new : new = asked
  OBVIOUS
<1>1. /\ serving' = [serving EXCEPT ![p] = serving[p] \cup {new}] /\ Rest' = Rest - 1
      /\ UNCHANGED <<transactions, outbox>>
  BY ArriveTypes DEF Arrive, process
<1>2. new.number = Rest /\ new.stage = "received" /\ Rest \in Nat
  BY DEF Rest, PlainTypes, ProcessTypes, Events
<1> HIDE DEF asked
<1>3. \A q \in Procs : serving'[q] = IF q = p THEN serving[p] \cup {new} ELSE serving[q]
  BY <1>1 DEF PlainTypes, OutboxTypes
<1>4. \A q \in Procs : \A s \in serving[q] : s.number \in Nat /\ s.number > Rest
  BY NumberTypes DEF Outbox, Recent
<1>5. \A c \in changes : c.number \in Nat /\ c.number > Rest
  BY DEF PlainTypes, OutboxTypes, Outbox, Recent
<1>6. Unique'
  <2>1. \A c, d \in changes' : c.number = d.number => c = d
    BY <1>1 DEF Outbox, Unique, outbox
  <2>2. ASSUME NEW q1 \in Procs, NEW q2 \in Procs, NEW s \in serving'[q1], NEW t \in serving'[q2], s.number = t.number
        PROVE  q1 = q2 /\ s = t
    <3>1. (s \in serving[q1] \/ (s = new /\ q1 = p)) /\ (t \in serving[q2] \/ (t = new /\ q2 = p))
      BY <1>3
    <3>2. CASE s \in serving[q1] /\ t \in serving[q2]
      BY <2>2, <3>2 DEF Outbox, Unique
    <3>3. (s \in serving[q1] => s.number # Rest) /\ (t \in serving[q2] => t.number # Rest)
      BY <1>2, <1>4
    <3> QED BY <1>2, <2>2, <3>1, <3>2, <3>3
  <2> QED BY <2>1, <2>2 DEF Unique
<1>7. Recent'
  BY <1>1, <1>2, <1>3, <1>4, <1>5 DEF Recent, outbox
<1>8. \A m : PlacesOf(m)' = PlacesOf(m)
  BY <1>1 DEF PlacesOf, outbox
<1>9. ASSUME NEW q \in Procs, NEW s \in serving'[q] PROVE GoodRequest(s)'
  <2>1. CASE s \in serving[q]
    <3>1. GoodRequest(s)
      BY <2>1 DEF Outbox
    <3> QED BY <1>1, <1>8, <3>1 DEF GoodRequest, Changed, Together, outbox
  <2>2. CASE s = new
    <3>1. Rest \notin Numbers(changes)
      BY <1>2, <1>5 DEF Numbers
    <3> QED BY <1>1, <1>2, <2>2, <3>1 DEF GoodRequest, outbox
  <2> QED BY <1>3, <2>1, <2>2
<1>10. ASSUME NEW c \in changes' PROVE GoodChange(c)'
  <2>1. c \in changes /\ GoodChange(c) /\ PlacesOf(c.number)' = PlacesOf(c.number) /\ UNCHANGED <<transactions, unfinished>>
    BY <1>1, <1>8 DEF Outbox, outbox
  <2>2. UnderWay(c) => UnderWay(c)'
    BY <1>3 DEF UnderWay
  <2> QED BY <2>1, <2>2 DEF GoodChange
<1>11. ({d.of : d \in records} \subseteq Numbers(changes))'
  BY <1>1 DEF Outbox, Numbers, outbox
<1> QED
  BY <1>6, <1>7, <1>9, <1>10, <1>11 DEF Outbox

LEMMA OutboxUntouched ==
  ASSUME Outbox, UNCHANGED <<serving, transactions, outbox>>, Rest' = Rest
  PROVE  Outbox'
<1>1. \A m : PlacesOf(m)' = PlacesOf(m)
  BY DEF PlacesOf, outbox
<1>2. Unique' /\ Recent'
  BY DEF Outbox, Unique, Recent, outbox
<1>3. \A p \in Procs : \A r \in serving[p] : GoodRequest(r)'
  BY <1>1 DEF Outbox, GoodRequest, Changed, Together, outbox
<1>4. \A c \in changes : GoodChange(c)'
  BY <1>1 DEF Outbox, GoodChange, UnderWay, outbox
<1>5. ({d.of : d \in records} \subseteq Numbers(changes))'
  BY DEF Outbox, Numbers, outbox
<1> QED
  BY <1>2, <1>3, <1>4, <1>5 DEF Outbox, outbox

LEMMA OutboxKept ==
  ASSUME PlainTypes, Outbox, [Next]_vars
  PROVE  Outbox'
<1>1. CASE UNCHANGED vars
  BY <1>1, OutboxUntouched DEF vars, outbox, Rest
<1>2. ASSUME NEW p \in Procs, AuditStep(p) PROVE Outbox'
  <2>1. UNCHANGED <<serving, transactions, outbox, left>>
    BY <1>2 DEF AuditStep, ReadHead, TryCreate, FailWrite, process
  <2> QED BY <2>1, OutboxUntouched DEF Rest
<1>3. CASE OtherStep
  <2>1. Rest' = Rest
    BY <1>3, OtherTypes DEF Rest
  <2> QED BY <1>3, <2>1, OtherTypes, OutboxUntouched
<1> QED
  BY <1>1, <1>2, <1>3, ExitKeepsOutbox, ArriveKeeps, RequestKeeps, Steps

LEMMA OutboxAlways == PlatformSpec => []Outbox
<1>1. Init => Outbox
  BY DEF Init, Outbox, Unique, Recent, Numbers
<1>2. Outbox /\ Audited /\ [Next]_vars => Outbox'
  BY OutboxKept DEF Audited
<1> QED
  BY <1>1, <1>2, AuditedAlways, PTL DEF PlatformSpec

(* The records match the changes, whatever fails and whichever process exits:   *)
(* with transactions a cancelled order's events are there with it, and any      *)
(* other change lacks records only while it runs or after an error or an exit   *)
(* (eventBus.ts:18-20).                                                          *)
THEOREM OutboxMatches == PlatformSpec => []RecordsMatchChanges
<1>1. Outbox => RecordsMatchChanges
  BY DEF Outbox, GoodChange, UnderWay, Size, RecordsMatchChanges
<1> QED
  BY <1>1, OutboxAlways, PTL
=============================================================================
