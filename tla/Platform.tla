------------------------------ MODULE Platform ------------------------------
(* The API's processes (server.ts): each connects to the database, serves      *)
(* requests and event streams (PlatformController.stream, StreamLimiter),      *)
(* records and dispatches the events of the changes it makes (eventBus.ts),    *)
(* appends its audit entries to the hash chain all processes share             *)
(* (auditLogger.ts), and shuts down.                                           *)
EXTENDS Integers, Sequences, FiniteSets

CONSTANTS
    Procs, Users,
    PerUser, Global,    \* SSE_MAX_STREAMS_PER_USER, SSE_MAX_STREAMS
    MaxAttempts,        \* MAX_ATTEMPTS of auditLogger
    Budgets,            \* bounds: how many [requests, changes, streams, faults] a behaviour has
    Genesis, None

Events == {"requests", "changes", "streams", "faults"}

ASSUME PlatformAssumption ==
    /\ PerUser \in Nat \ {0} /\ Global \in Nat \ {0} /\ MaxAttempts \in Nat \ {0}
    /\ Budgets \subseteq [Events -> Nat]

VARIABLES
    phase,      \* per process: starting, listening, closing, disconnecting, exited
    link,       \* its connection: connected, waiting (the retry timer), none
    code,       \* the exit code it is shutting down with, or None
    serving,    \* its requests under way: number, kind, stage, and follow-up records written
    transactions,   \* whether the database has them (a replica set), for good
    changes,    \* orders changed: the requests' numbers and kinds
    records,    \* domainEvents (all "pending"), notifications, sagas: of which change, and its place
    jobs,       \* per process, the records queued for delivery (queue.ts, in memory)
    unfinished, \* history: changes whose follow-up an error or an exit of the process ended
    streams,    \* its event streams: process, user, and which of their endings fired
    total, perUser,     \* StreamLimiter
    chain,      \* its audit entries not yet settled, in order
    write,      \* the entry at the head of its chain: the chain's head it read, and attempts
    log,        \* auditLogs, ordered by sequence (a unique index)
    dropped,    \* history: entries given up after MAX_ATTEMPTS, and how many entries beat them
    database,   \* "up" or "down"
    left

vars == <<phase, link, code, serving, transactions, changes, records, jobs, unfinished, streams, total, perUser, chain, write, log, dropped, database, left>>
process == <<phase, link, code, transactions>>
outbox == <<changes, records, jobs, unfinished>>
limiter == <<streams, total, perUser>>
audit == <<chain, write, log, dropped>>

Idle == [head |-> None, attempt |-> 1, from |-> 0]
Spend(what) == left[what] > 0 /\ left' = [left EXCEPT ![what] = @ - 1]
Reachable(p) == database = "up" /\ link[p] = "connected"
Running(p) == phase[p] \in {"listening", "closing", "disconnecting"}

Init ==
    /\ phase = [p \in Procs |-> "starting"] /\ link = [p \in Procs |-> "none"]
    /\ code = [p \in Procs |-> None] /\ serving = [p \in Procs |-> {}]
    /\ transactions \in BOOLEAN /\ changes = {} /\ records = {}
    /\ jobs = [p \in Procs |-> {}] /\ unfinished = {}
    /\ streams = {}
    /\ total = [p \in Procs |-> 0] /\ perUser = [p \in Procs |-> [u \in Users |-> 0]]
    /\ chain = [p \in Procs |-> << >>] /\ write = [p \in Procs |-> Idle]
    /\ log = << >> /\ dropped = {} /\ database = "up" /\ left \in Budgets

-----------------------------------------------------------------------------
(* startServer, connectWithRetry, shutdown                                   *)

\* connectDatabase, or its failure and the timer of the next attempt.
Connect(p) == link' = [link EXCEPT ![p] = IF database = "up" THEN "connected" ELSE "waiting"]

\* connectWithRetry never throws: the process listens either way.
Start(p) ==
    /\ phase[p] = "starting"
    /\ phase' = [phase EXCEPT ![p] = "listening"]
    /\ Connect(p)
    /\ UNCHANGED <<code, transactions, serving, outbox, limiter, audit, database, left>>

Reconnect(p) ==
    /\ Running(p) /\ link[p] = "waiting"
    /\ Connect(p)
    /\ UNCHANGED <<phase, code, transactions, serving, outbox, limiter, audit, database, left>>

\* The database fails and comes back (a link once made is the driver's to keep).
Fault ==
    /\ database = "up" /\ Spend("faults") /\ database' = "down"
    /\ UNCHANGED <<process, serving, outbox, limiter, audit>>

Heal ==
    /\ database = "down" /\ database' = "up"
    /\ UNCHANGED <<process, serving, outbox, limiter, audit, left>>

\* SIGTERM and SIGINT (0), an uncaught exception (1); once.
Shutdown(p, exitCode) ==
    /\ phase[p] = "listening"
    /\ phase' = [phase EXCEPT ![p] = "closing"]
    /\ code' = [code EXCEPT ![p] = exitCode]
    /\ UNCHANGED <<link, transactions, serving, outbox, limiter, audit, database, left>>

OpenStreams(p) == {s \in streams : s.at = p /\ s.fired = {}}

\* The callback of httpServer.close: every connection has ended.
Closed(p) ==
    /\ phase[p] = "closing" /\ serving[p] = {} /\ OpenStreams(p) = {}
    /\ phase' = [phase EXCEPT ![p] = "disconnecting"]
    /\ link' = [link EXCEPT ![p] = IF @ = "connected" THEN "none" ELSE @]
    /\ UNCHANGED <<code, transactions, serving, outbox, limiter, audit, database, left>>

Numbers(requests) == {r.number : r \in requests}

\* process.exit: what the process holds is gone.
Exit(p, exitCode) ==
    /\ phase' = [phase EXCEPT ![p] = "exited"]
    /\ code' = [code EXCEPT ![p] = exitCode] /\ link' = [link EXCEPT ![p] = "none"]
    /\ unfinished' = unfinished \cup Numbers({r \in serving[p] : r.stage = "writing"})
    /\ serving' = [serving EXCEPT ![p] = {}] /\ jobs' = [jobs EXCEPT ![p] = {}]
    /\ streams' = {s \in streams : s.at # p}
    /\ total' = [total EXCEPT ![p] = 0] /\ perUser' = [perUser EXCEPT ![p] = [u \in Users |-> 0]]
    /\ chain' = [chain EXCEPT ![p] = << >>] /\ write' = [write EXCEPT ![p] = Idle]
    /\ UNCHANGED <<transactions, changes, records, log, dropped, database, left>>

\* finally, after mongoose.disconnect.
Disconnected(p) == phase[p] = "disconnecting" /\ Exit(p, code[p])

\* Mutant: the shutdown has no timer of its own.
NeverForced(p) == FALSE /\ Exit(p, 1)

\* The timer of 10 s.
Forced(p) == phase[p] \in {"closing", "disconnecting"} /\ Exit(p, IF code[p] = 0 THEN 1 ELSE code[p])

-----------------------------------------------------------------------------
(* Requests, the events of their changes, and their audit entries            *)

\* What the change of an order writes after it, in this order.
AfterCheckout == <<"notification", "saga", "order.created", "inventory.reserved">>
AfterCancel == <<"order.cancelled", "refund.requested">>    \* of a paid order
AfterRefundRequest == <<"refund.requested">>
AfterShipment == <<"shipment.updated">>
AfterWebhook == <<"payment.completed">>
AfterExpiry == <<"order.cancelled">>        \* by the sweeper

\* "plain" is any other audited action.
FollowUps == [plain |-> << >>, checkout |-> AfterCheckout, cancel |-> AfterCancel, refund |-> AfterRefundRequest,
              ship |-> AfterShipment, webhook |-> AfterWebhook, expire |-> AfterExpiry]
Kinds == DOMAIN FollowUps

\* The stage at which each of them calls auditLogger, or never.
AuditedAt == [plain |-> "done", checkout |-> "writing", cancel |-> "written", refund |-> "written",
              ship |-> "writing", webhook |-> "done", expire |-> "never"]

\* The request, or the tick of the sweeper's timer, which shutdown stops.
Arrive(p, kind) ==
    /\ phase[p] = "listening"
    /\ Spend(IF kind = "plain" THEN "requests" ELSE "changes")
    /\ serving' = [serving EXCEPT ![p] = @ \cup
                     {[number |-> left.requests + left.changes, kind |-> kind, stage |-> "received", written |-> 0]}]
    /\ UNCHANGED <<process, outbox, limiter, audit, database>>

\* auditLogger puts the write at the end of the process's chain of promises, and
\* waits for nothing.
Advance(p, r, stage, written) ==
    /\ serving' = [serving EXCEPT ![p] = (@ \ {r}) \cup
                     (IF stage = "done" THEN {} ELSE {[r EXCEPT !.stage = stage, !.written = written]})]
    /\ chain' = IF AuditedAt[r.kind] = stage /\ r.stage # stage
                THEN [chain EXCEPT ![p] = Append(@, r.number)] ELSE chain

RecordsOf(r, n) == {[of |-> r.number, place |-> i] : i \in 1..n}
Outboxed(r) == r.kind \in {"cancel", "refund"}

\* Mutant: the events are recorded after the transaction.
Apart(r) == FALSE

\* cancel and requestRefund pass the session of the transaction to recordEvent.
Together(r) == transactions /\ Outboxed(r)

\* The change of an order, committed; alone where there is no transaction.
Change(p, r) ==
    LET n == IF Together(r) THEN Len(FollowUps[r.kind]) ELSE 0
    IN  /\ Running(p) /\ Reachable(p) /\ r \in serving[p] /\ r.kind # "plain" /\ r.stage = "received"
        /\ changes' = changes \cup {[number |-> r.number, kind |-> r.kind]}
        /\ records' = records \cup RecordsOf(r, n)
        /\ Advance(p, r, IF Together(r) THEN "written" ELSE "writing", n)
        /\ UNCHANGED <<process, jobs, unfinished, limiter, write, log, dropped, database, left>>

\* enqueueJob: the queue is an array of the process.
Enqueue(p, new) == jobs' = [jobs EXCEPT ![p] = @ \cup new]

\* queueNotification and publishEvent queue what they write; startOrderSaga its event only.
Queued(r, n) == IF Outboxed(r) \/ FollowUps[r.kind][n] = "saga" THEN {} ELSE {[of |-> r.number, place |-> n]}

\* The next record of the follow-up, without a session.
WriteRecord(p, r) ==
    LET n == r.written + 1
    IN  /\ Running(p) /\ Reachable(p) /\ r \in serving[p] /\ r.stage = "writing"
        /\ records' = records \cup RecordsOf(r, n)
        /\ Enqueue(p, Queued(r, n))
        /\ Advance(p, r, IF n = Len(FollowUps[r.kind]) THEN "written" ELSE "writing", n)
        /\ UNCHANGED <<process, changes, unfinished, limiter, write, log, dropped, database, left>>

\* A write throws: an error is logged (checkout, webhook, expiry) or answered; the
\* change and what was written stay.
FailWriting(p, r) ==
    /\ Running(p) /\ ~Reachable(p) /\ r \in serving[p] /\ r.stage = "writing"
    /\ serving' = [serving EXCEPT ![p] = @ \ {r}]
    /\ unfinished' = unfinished \cup {r.number}
    /\ UNCHANGED <<process, changes, records, jobs, limiter, audit, database, left>>

\* dispatchAll of the events of the transaction, and the answer.
Dispatch(p, r) ==
    /\ Running(p) /\ r \in serving[p] /\ r.stage = "written"
    /\ Enqueue(p, RecordsOf(r, IF Outboxed(r) THEN r.written ELSE 0))
    /\ Advance(p, r, "done", r.written)
    /\ UNCHANGED <<process, changes, records, unfinished, limiter, write, log, dropped, database, left>>

\* The answer of an audited action without a follow-up.
Respond(p, r) ==
    /\ Running(p) /\ r \in serving[p] /\ r.kind = "plain"
    /\ Advance(p, r, "done", 0)
    /\ UNCHANGED <<process, outbox, limiter, write, log, dropped, database, left>>

\* A refusal, an error, or an aborted transaction: nothing is written.
Refuse(p, r) ==
    /\ Running(p) /\ r \in serving[p] /\ r.stage = "received"
    /\ serving' = [serving EXCEPT ![p] = @ \ {r}]
    /\ UNCHANGED <<process, outbox, limiter, audit, database, left>>

\* AuditLog.findOne().sort("-sequence")
ChainHead == [sequence |-> Len(log), hash |-> IF log = << >> THEN Genesis ELSE log[Len(log)].hash]

ReadHead(p) ==
    /\ Running(p) /\ chain[p] # << >> /\ write[p].head = None /\ Reachable(p)
    /\ write' = [write EXCEPT ![p].head = ChainHead, ![p].from = IF write[p].attempt = 1 THEN Len(log) ELSE @]
    /\ UNCHANGED <<process, serving, outbox, limiter, chain, log, dropped, database, left>>

\* The write settles and the next of the chain begins.
Settle(p) == chain' = [chain EXCEPT ![p] = Tail(@)] /\ write' = [write EXCEPT ![p] = Idle]

\* The hash of an entry is that of its body.
Entry(p) == [sequence |-> write[p].head.sequence + 1, entry |-> Head(chain[p]),
             previousHash |-> write[p].head.hash, hash |-> <<write[p].head.sequence + 1, Head(chain[p])>>]

\* Mutant: without the unique index every create succeeds.
CreateAlways(p) == log' = Append(log, Entry(p)) /\ Settle(p) /\ dropped' = dropped

\* AuditLog.create under the unique index of sequence.
Create(p) ==
    /\ write[p].head.sequence = Len(log)
    /\ log' = Append(log, Entry(p)) /\ Settle(p) /\ dropped' = dropped

\* Mutant: the retry creates the same entry again.
RetrySame(p) == write' = [write EXCEPT ![p].attempt = @ + 1] /\ UNCHANGED <<chain, dropped>>

\* Another attempt, from the new head.
Retry(p) == write' = [write EXCEPT ![p].attempt = @ + 1, ![p].head = None] /\ UNCHANGED <<chain, dropped>>

\* E11000: another process has the sequence; retried up to MAX_ATTEMPTS times.
Beaten(p) ==
    /\ write[p].head.sequence < Len(log)
    /\ IF write[p].attempt < MaxAttempts THEN Retry(p)
       ELSE Settle(p) /\ dropped' = dropped \cup {[entry |-> Head(chain[p]), beats |-> Len(log) - write[p].from]}
    /\ UNCHANGED log

TryCreate(p) ==
    /\ Running(p) /\ write[p].head # None /\ Reachable(p)
    /\ Create(p) \/ Beaten(p)
    /\ UNCHANGED <<process, serving, outbox, limiter, database, left>>

\* Any other error ends the write; the chain goes on (chain = write.catch).
FailWrite(p) ==
    /\ Running(p) /\ chain[p] # << >> /\ ~Reachable(p)
    /\ Settle(p)
    /\ UNCHANGED <<process, serving, outbox, limiter, log, dropped, database, left>>

-----------------------------------------------------------------------------
(* StreamLimiter and PlatformController.stream                               *)

\* acquire: at a cap the request is refused.
Acquire(p, u) ==
    /\ perUser[p][u] < PerUser /\ total[p] < Global
    /\ total' = [total EXCEPT ![p] = @ + 1] /\ perUser' = [perUser EXCEPT ![p][u] = @ + 1]

OpenStream(p, u) ==
    /\ phase[p] = "listening" /\ Spend("streams")
    /\ Acquire(p, u)
    /\ streams' = streams \cup {[id |-> left.streams, at |-> p, user |-> u, fired |-> {}]}
    /\ UNCHANGED <<process, serving, outbox, audit, database>>

\* Mutant: the closure has no released flag.
ReleaseAgain(s) ==
    /\ total' = [total EXCEPT ![s.at] = @ - 1]
    /\ perUser' = [perUser EXCEPT ![s.at][s.user] = IF @ > 1 THEN @ - 1 ELSE 0]

\* The closure acquire returns, which works once.
Release(s) ==
    IF s.fired # {} THEN UNCHANGED <<total, perUser>>
    ELSE /\ total' = [total EXCEPT ![s.at] = @ - 1]
         /\ perUser' = [perUser EXCEPT ![s.at][s.user] = IF @ > 1 THEN @ - 1 ELSE 0]

\* finish, called by the lifetime timer (which finish clears), by the close of the
\* request and of the response, and by an error.
Finish(s, ending) ==
    /\ ending \notin s.fired
    /\ ending = "lifetime" => s.fired = {}
    /\ Release(s)
    /\ streams' = (streams \ {s}) \cup {[s EXCEPT !.fired = @ \cup {ending}]}
    /\ UNCHANGED <<process, serving, outbox, audit, database, left>>

-----------------------------------------------------------------------------
Endings == {"lifetime", "request closed", "response closed", "error"}

RequestStep(p, r) ==
    Change(p, r) \/ WriteRecord(p, r) \/ FailWriting(p, r) \/ Dispatch(p, r) \/ Respond(p, r) \/ Refuse(p, r)

AuditStep(p) == ReadHead(p) \/ TryCreate(p) \/ FailWrite(p)

Next ==
    \/ Fault \/ Heal
    \/ \E p \in Procs :
        \/ Start(p) \/ Reconnect(p) \/ Closed(p) \/ Disconnected(p) \/ Forced(p) \/ AuditStep(p)
        \/ \E exitCode \in {0, 1} : Shutdown(p, exitCode)
        \/ \E kind \in Kinds : Arrive(p, kind)
        \/ \E r \in serving[p] : RequestStep(p, r)
        \/ \E u \in Users : OpenStream(p, u)
    \/ \E s \in streams, ending \in Endings : Finish(s, ending)

PlatformSpec == Init /\ [][Next]_vars

\* The timer of the shutdown fires (unless the process has exited), and
\* disconnect settles; no request is owed an end.
FairPlatformSpec == PlatformSpec /\ \A p \in Procs : WF_vars(Forced(p)) /\ WF_vars(Disconnected(p))

-----------------------------------------------------------------------------
Requests == [number : Nat, kind : Kinds, stage : {"received", "writing", "written"}, written : Nat]
Records == [of : Nat, place : Nat]
Hashes == {Genesis} \cup Nat \X Nat
Entries == [sequence : Nat, entry : Nat, previousHash : Hashes, hash : Hashes]
Writes == [head : {None} \cup [sequence : Nat, hash : Hashes], attempt : Nat, from : Nat]

ProcessTypes ==
    /\ phase \in [Procs -> {"starting", "listening", "closing", "disconnecting", "exited"}]
    /\ link \in [Procs -> {"connected", "waiting", "none"}] /\ code \in [Procs -> {None, 0, 1}]
    /\ database \in {"up", "down"} /\ left \in [Events -> Nat]
OutboxTypes ==
    /\ serving \in [Procs -> SUBSET Requests] /\ transactions \in BOOLEAN
    /\ changes \subseteq [number : Nat, kind : Kinds] /\ records \subseteq Records
    /\ jobs \in [Procs -> SUBSET Records] /\ unfinished \subseteq Nat
LimiterTypes ==
    /\ streams \subseteq [id : Nat, at : Procs, user : Users, fired : SUBSET Endings]
    /\ total \in [Procs -> Nat] /\ perUser \in [Procs -> [Users -> Nat]]
AuditTypes ==
    /\ chain \in [Procs -> Seq(Nat)] /\ write \in [Procs -> Writes] /\ log \in Seq(Entries)
    /\ dropped \subseteq [entry : Nat, beats : Int]

\* Every process, document, stream and counter is one the code knows; no counter of
\* the limiter goes below zero.
TypeOK == ProcessTypes /\ OutboxTypes /\ LimiterTypes /\ AuditTypes

-----------------------------------------------------------------------------
\* Each audit entry names the hash of the entry before it, however many processes
\* append (auditLogger.ts:39-40).
AuditChainIsUnbroken ==
    \A i \in DOMAIN log :
        /\ log[i].sequence = i
        /\ log[i].previousHash = IF i = 1 THEN Genesis ELSE log[i - 1].hash

\* An entry is given up for want of a sequence only when MAX_ATTEMPTS entries of
\* other processes were appended since its write began: every retry starts from
\* the new head of the chain (auditLogger.ts:46-52).
DroppedOnlyWhenBeaten == \A d \in dropped : d.beats >= MaxAttempts

PlacesOf(number) == {d.place : d \in {e \in records : e.of = number}}

\* With transactions an order is cancelled, or its refund opened, if and only if
\* all events of it are recorded (the outbox, eventBus.ts:18-20). Any other change
\* has its records in their order, and lacks some only while its request runs or
\* when an error, or the end of its process, ended the follow-up; and no record is
\* there without its change.
RecordsMatchChanges ==
    /\ {d.of : d \in records} \subseteq Numbers(changes)
    /\ \A c \in changes :
        LET all == Len(FollowUps[c.kind])
        IN  /\ \E n \in 0..all : PlacesOf(c.number) = 1..n
            /\ \/ PlacesOf(c.number) = 1..all
               \/ /\ ~(transactions /\ c.kind \in {"cancel", "refund"})
                  /\ \/ c.number \in unfinished
                     \/ \E p \in Procs : \E r \in serving[p] : r.number = c.number /\ r.stage = "writing"

\* The limiter's counters are the streams that are open, of each user and in all,
\* though several endings of one stream each call finish (streamLimiter.ts:24-33).
SlotsAreStreams ==
    \A p \in Procs :
        /\ total[p] = Cardinality(OpenStreams(p))
        /\ \A u \in Users : perUser[p][u] = Cardinality({s \in OpenStreams(p) : s.user = u})

\* A process told to shut down exits, with requests and streams still open too.
ShutdownEnds == \A p \in Procs : phase[p] = "closing" ~> phase[p] = "exited"
=============================================================================
