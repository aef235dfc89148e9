---------------------------- MODULE ViewCounter ----------------------------
(***************************************************************************)
(* Topic view counting.  API processes INCR a Redis counter per topic;     *)
(* worker processes move each counter into a batch key, add the batch to   *)
(* topics.view_count together with a ledger row, and delete the batch key. *)
(* A batch left behind by a failure is retried by any later flush, and the *)
(* ledger row makes the retry harmless.                                    *)
(*                                                                         *)
(* A Redis counter is modelled by the set of views it counts, and          *)
(* topics.view_count by credited: how often each view was added to it.     *)
(* Time is counted in ticks; Redis expiry and ledger pruning both read it. *)
(***************************************************************************)
EXTENDS Integers, FiniteSets

CONSTANTS
    Views,          \* page views that may happen
    Topics,         \* topic ids
    Batches,        \* randomUUID() values for batch keys
    Workers,        \* worker processes
    BatchTtl,       \* BATCH_RETRY_SECONDS: life of a batch key, in ticks
    Retention,      \* LEDGER_RETENTION_MS: life of a ledger row, in ticks
    PruneInterval,  \* PRUNE_INTERVAL_MS, in ticks
    MaxHold,        \* longest time between GET of a batch and its transaction
    MaxTime,        \* bound on the clock
    MaxFaults       \* bound on crashes and failed calls

\* The ledger outlives a batch key by more than a flush can be in flight:
\* 31 days against 30 days and the duration of one transaction.
ASSUME TimeAssumption ==
    /\ BatchTtl \in Nat \ {0}
    /\ MaxHold \in Nat
    /\ Retention \in Nat
    /\ PruneInterval \in Nat
    /\ MaxTime \in Nat
    /\ MaxFaults \in Nat
    /\ BatchTtl + MaxHold <= Retention

ASSUME NonEmpty == Topics # {} /\ Batches # {}

VARIABLES
    now,          \* the clock
    seen,         \* views that have happened
    buffer,       \* Redis: views counted under displace:topic-views:<topic>
    staged,       \* batch ids handed out so far
    batch,        \* their payload: topic, views and the time of staging
    inRedis,      \* batch keys that still exist
    topics,       \* PostgreSQL: rows of topics
    credited,     \* PostgreSQL: how often a view was added to view_count
    ledger,       \* PostgreSQL: rows of topic_view_flushes
    processedAt,  \* their processed_at
    applied,      \* batches that reached view_count (history)
    pc,           \* worker: where it is in flush()
    loop,         \* worker: which of the two loops of flush() it runs
    keys,         \* worker: batch keys of its scan still to flush
    counters,     \* worker: topic keys of its scan still to stage
    hand,         \* worker: the batch flushBatch() works on
    readAt,       \* worker: when it read that batch
    lastPrunedAt, \* worker: lastPrunedAt, in memory
    faults

redisVars  == <<buffer, staged, batch, inRedis>>
dbVars     == <<topics, credited, ledger, processedAt, applied>>
workerVars == <<pc, loop, keys, counters, hand, readAt, lastPrunedAt>>
vars == <<now, seen, redisVars, dbVars, workerVars, faults>>

Payload == [topic : Topics, views : SUBSET Views, at : Nat]
PCs     == {"idle", "next", "get", "apply", "del"}

\* A fresh worker's lastPrunedAt = 0 is long ago, so its first flush prunes.
NeverPruned == -PruneInterval

\* Values that are never read: of an unused batch id, of an idle worker.
NoPayload == [topic |-> CHOOSE t \in Topics : TRUE, views |-> {}, at |-> 0]
NoBatch   == CHOOSE b \in Batches : TRUE

Init ==
    /\ now = 0
    /\ seen = {}
    /\ buffer = [t \in Topics |-> {}]
    /\ staged = {}
    /\ batch = [b \in Batches |-> NoPayload]
    /\ inRedis = {}
    /\ topics = Topics
    /\ credited = [v \in Views |-> 0]
    /\ ledger = {}
    /\ processedAt = [b \in Batches |-> 0]
    /\ applied = {}
    /\ pc = [w \in Workers |-> "idle"]
    /\ loop = [w \in Workers |-> "batches"]
    /\ keys = [w \in Workers |-> {}]
    /\ counters = [w \in Workers |-> {}]
    /\ hand = [w \in Workers |-> NoBatch]
    /\ readAt = [w \in Workers |-> 0]
    /\ lastPrunedAt = [w \in Workers |-> NeverPruned]
    /\ faults = 0

-----------------------------------------------------------------------------
(* Readers.                                                                *)

\* TopicViewCounterService.record: INCR, and an error is only logged.
Record(v, t) ==
    /\ v \notin seen
    /\ seen' = seen \union {v}
    /\ buffer' = [buffer EXCEPT ![t] = @ \union {v}]
    /\ UNCHANGED <<now, staged, batch, inRedis, dbVars, workerVars, faults>>

RecordFails(v) ==
    /\ v \notin seen
    /\ faults < MaxFaults
    /\ seen' = seen \union {v}
    /\ faults' = faults + 1
    /\ UNCHANGED <<now, redisVars, dbVars, workerVars>>

-----------------------------------------------------------------------------
(* Workers.  flush() is one pass: every batch key found, then every topic   *)
(* counter found, then the ledger.  scheduledFlush admits one pass at a     *)
(* time in a process; several processes run passes side by side.            *)

Goto(w, label) == pc' = [pc EXCEPT ![w] = label]

\* flushBatch() returns: its local variables are gone.
NextKey(w) ==
    /\ Goto(w, "next")
    /\ hand' = [hand EXCEPT ![w] = NoBatch]

\* scanKeys(VIEW_BATCH_KEY_PREFIX*): the batch keys that exist.
BatchKeys_NoScan     == {}         \* mutated: a pass looks for no leftovers
BatchKeys_AnyPattern == Batches    \* mutated: the pattern matches other keys
BatchKeys            == inRedis

\* flush() begins: SCAN for batch keys.
StartFlush(w) ==
    /\ pc[w] = "idle"
    /\ Goto(w, "next")
    /\ keys' = [keys EXCEPT ![w] = BatchKeys]
    /\ UNCHANGED <<now, seen, redisVars, dbVars, loop, counters, hand, readAt, lastPrunedAt, faults>>

\* The next key of the first loop.
NextBatch(w, b) ==
    /\ pc[w] = "next" /\ loop[w] = "batches"
    /\ b \in keys[w]
    /\ keys' = [keys EXCEPT ![w] = @ \ {b}]
    /\ hand' = [hand EXCEPT ![w] = b]
    /\ Goto(w, "get")
    /\ UNCHANGED <<now, seen, redisVars, dbVars, loop, counters, readAt, lastPrunedAt, faults>>

\* The first loop is over: SCAN for topic counters.
ScanCounters(w) ==
    /\ pc[w] = "next" /\ loop[w] = "batches"
    /\ keys[w] = {}
    /\ loop' = [loop EXCEPT ![w] = "counters"]
    /\ counters' = [counters EXCEPT ![w] = {t \in Topics : buffer[t] # {}}]
    /\ UNCHANGED <<now, seen, redisVars, dbVars, pc, keys, hand, readAt, lastPrunedAt, faults>>

\* stage(): STAGE_SCRIPT moves the counter into a fresh batch key atomically,
\* unless another worker has taken it since the scan.
StageNothing(w, t) ==
    /\ pc[w] = "next" /\ loop[w] = "counters"
    /\ t \in counters[w]
    /\ buffer[t] = {}
    /\ counters' = [counters EXCEPT ![w] = @ \ {t}]
    /\ UNCHANGED <<now, seen, redisVars, dbVars, pc, loop, keys, hand, readAt, lastPrunedAt, faults>>

Stage(w, t, b) ==
    /\ pc[w] = "next" /\ loop[w] = "counters"
    /\ t \in counters[w]
    /\ buffer[t] # {}
    /\ b \notin staged
    /\ counters' = [counters EXCEPT ![w] = @ \ {t}]
    /\ staged' = staged \union {b}
    /\ batch' = [batch EXCEPT ![b] = [topic |-> t, views |-> buffer[t], at |-> now]]
    /\ inRedis' = inRedis \union {b}
    /\ buffer' = [buffer EXCEPT ![t] = {}]
    /\ hand' = [hand EXCEPT ![w] = b]
    /\ Goto(w, "get")
    /\ UNCHANGED <<now, seen, dbVars, loop, keys, readAt, lastPrunedAt, faults>>

\* flushBatch(): GET the payload; a key already gone is someone else's work.
GetBatch(w) ==
    /\ pc[w] = "get"
    /\ IF hand[w] \in inRedis
       THEN /\ Goto(w, "apply")
            /\ readAt' = [readAt EXCEPT ![w] = now]
            /\ UNCHANGED hand
       ELSE NextKey(w) /\ UNCHANGED readAt
    /\ UNCHANGED <<now, seen, redisVars, dbVars, loop, keys, counters, lastPrunedAt, faults>>

\* forums.flushViews(): one transaction.  A missing topic and a batch that is
\* already in the ledger both leave view_count alone.
Credit(b) ==
    /\ ledger' = ledger \union {b}
    /\ processedAt' = [processedAt EXCEPT ![b] = now]
    /\ credited' = [v \in Views |-> credited[v] + IF v \in batch[b].views THEN 1 ELSE 0]
    /\ applied' = applied \union {b}
    /\ UNCHANGED topics

\* Mutated: the insert is not onConflictDoNothing-then-return.
FlushViews_NoLedger(b) ==
    IF batch[b].topic \in topics THEN Credit(b) ELSE UNCHANGED dbVars

FlushViews(b) ==
    IF batch[b].topic \in topics /\ b \notin ledger THEN Credit(b) ELSE UNCHANGED dbVars

Apply(w) ==
    /\ pc[w] = "apply"
    /\ FlushViews(hand[w])
    /\ Goto(w, "del")
    /\ readAt' = [readAt EXCEPT ![w] = 0]
    /\ UNCHANGED <<now, seen, redisVars, loop, keys, counters, hand, lastPrunedAt, faults>>

\* Mutated: a failed transaction drops its batch key.
ApplyFails_DropsBatch(w) ==
    /\ pc[w] = "apply"
    /\ faults < MaxFaults
    /\ faults' = faults + 1
    /\ FlushViews(hand[w]) \/ UNCHANGED dbVars
    /\ inRedis' = inRedis \ {hand[w]}
    /\ NextKey(w)
    /\ readAt' = [readAt EXCEPT ![w] = 0]
    /\ UNCHANGED <<now, seen, buffer, staged, batch, loop, keys, counters, lastPrunedAt>>

\* The transaction fails, or commits and its acknowledgement is lost: either
\* way flushBatch() logs, keeps the batch key and goes on.
ApplyFails(w) ==
    /\ pc[w] = "apply"
    /\ faults < MaxFaults
    /\ faults' = faults + 1
    /\ FlushViews(hand[w]) \/ UNCHANGED dbVars
    /\ NextKey(w)
    /\ readAt' = [readAt EXCEPT ![w] = 0]
    /\ UNCHANGED <<now, seen, redisVars, loop, keys, counters, lastPrunedAt>>

\* DEL of the batch key.
DeleteBatch(w) ==
    /\ pc[w] = "del"
    /\ inRedis' = inRedis \ {hand[w]}
    /\ NextKey(w)
    /\ UNCHANGED <<now, seen, buffer, staged, batch, dbVars, loop, keys, counters, readAt, lastPrunedAt, faults>>

\* The rows pruneViewFlushes() deletes.
Prunable_TooSoon(b) == processedAt[b] < now - (Retention - BatchTtl)  \* mutated
Prunable(b)         == processedAt[b] < now - Retention

\* flush() ends with pruneLedger(), at most once per PruneInterval.
Prune(w) ==
    /\ pc[w] = "next" /\ loop[w] = "counters"
    /\ counters[w] = {}
    /\ IF now - lastPrunedAt[w] >= PruneInterval
       THEN /\ ledger' = {b \in ledger : ~Prunable(b)}
            /\ lastPrunedAt' = [lastPrunedAt EXCEPT ![w] = now]
       ELSE UNCHANGED <<ledger, lastPrunedAt>>
    /\ Goto(w, "idle")
    /\ loop' = [loop EXCEPT ![w] = "batches"]
    /\ UNCHANGED <<now, seen, redisVars, topics, credited, processedAt, applied, keys, counters, hand, readAt, faults>>

\* A worker process dies, or its shutdown flush exceeds its ten seconds and
\* Redis is disconnected under it; a new process starts.
Restart(w) ==
    /\ pc[w] # "idle"
    /\ faults < MaxFaults
    /\ faults' = faults + 1
    /\ Goto(w, "idle")
    /\ keys' = [keys EXCEPT ![w] = {}]
    /\ counters' = [counters EXCEPT ![w] = {}]
    /\ loop' = [loop EXCEPT ![w] = "batches"]
    /\ hand' = [hand EXCEPT ![w] = NoBatch]
    /\ readAt' = [readAt EXCEPT ![w] = 0]
    /\ lastPrunedAt' = [lastPrunedAt EXCEPT ![w] = NeverPruned]
    /\ UNCHANGED <<now, seen, redisVars, dbVars>>

-----------------------------------------------------------------------------
(* The environment.                                                        *)

\* A topic row is deleted, and its ledger rows with it (ON DELETE CASCADE).
DropTopic(t) ==
    /\ t \in topics
    /\ faults < MaxFaults
    /\ faults' = faults + 1
    /\ topics' = topics \ {t}
    /\ ledger' = {b \in ledger : batch[b].topic # t}
    /\ UNCHANGED <<now, seen, redisVars, credited, processedAt, applied, workerVars>>

\* Time passes; Redis drops the keys whose time has come.  No transaction is
\* in flight for longer than MaxHold.
Tick ==
    /\ now < MaxTime
    /\ \A w \in Workers : pc[w] = "apply" => now < readAt[w] + MaxHold
    /\ now' = now + 1
    /\ inRedis' = {b \in inRedis : now + 1 < batch[b].at + BatchTtl}
    /\ UNCHANGED <<seen, buffer, staged, batch, dbVars, workerVars, faults>>

-----------------------------------------------------------------------------
\* What a worker does by itself once its pass has begun.
Continue(w) ==
    \/ \E b \in Batches : NextBatch(w, b)
    \/ ScanCounters(w)
    \/ \E t \in Topics : StageNothing(w, t)
    \/ \E t \in Topics, b \in Batches : Stage(w, t, b)
    \/ GetBatch(w)
    \/ Apply(w)
    \/ DeleteBatch(w)
    \/ Prune(w)

Next ==
    \/ \E v \in Views, t \in Topics : Record(v, t)
    \/ \E v \in Views : RecordFails(v)
    \/ \E w \in Workers : StartFlush(w) \/ Continue(w) \/ ApplyFails(w) \/ Restart(w)
    \/ \E t \in Topics : DropTopic(t)
    \/ Tick

\* The interval timer fires for ever and a pass that has begun goes on.
Fairness == \A w \in Workers : WF_vars(StartFlush(w)) /\ WF_vars(Continue(w))

Spec     == Init /\ [][Next]_vars
FairSpec == Spec /\ Fairness

-----------------------------------------------------------------------------
(* Properties.                                                             *)

\* The shape of the two stores and of the workers' local state.
TypeOK ==
    /\ now \in Nat
    /\ seen \subseteq Views
    /\ buffer \in [Topics -> SUBSET Views]
    /\ staged \subseteq Batches
    /\ batch \in [Batches -> Payload]
    /\ inRedis \subseteq staged
    /\ topics \subseteq Topics
    /\ credited \in [Views -> Nat]
    /\ ledger \subseteq staged
    /\ processedAt \in [Batches -> Nat]
    /\ applied \subseteq staged
    /\ pc \in [Workers -> PCs]
    /\ loop \in [Workers -> {"batches", "counters"}]
    /\ keys \in [Workers -> SUBSET staged]
    /\ counters \in [Workers -> SUBSET Topics]
    /\ hand \in [Workers -> Batches]
    /\ \A w \in Workers : pc[w] \in {"get", "apply", "del"} => hand[w] \in staged
    /\ readAt \in [Workers -> Nat]
    /\ lastPrunedAt \in [Workers -> Int]
    /\ faults \in Nat

\* No view is ever added twice to its topic's view_count, however flushes of
\* several workers, retries, crashes, key expiry and ledger pruning interleave.
CountedOnce == \A v \in Views : credited[v] <= 1

\* Why: each view is in one place; a batch that reached view_count keeps its
\* ledger row for as long as a copy of its payload can still be applied.
OnePlace ==
    /\ \A t \in Topics : buffer[t] \subseteq seen
    /\ \A b \in staged : batch[b].views \subseteq seen /\ batch[b].at <= now
    /\ \A s, t \in Topics : s # t => buffer[s] \cap buffer[t] = {}
    /\ \A t \in Topics, b \in staged : buffer[t] \cap batch[b].views = {}
    /\ \A a, b \in staged : a # b => batch[a].views \cap batch[b].views = {}

CreditExplained ==
    \A v \in Views : credited[v] # 0 => \E b \in applied : v \in batch[b].views

LedgerRemembers ==
    /\ \A b \in ledger : batch[b].at <= processedAt[b]
    /\ \A b \in applied :
          batch[b].topic \in topics /\ now <= batch[b].at + Retention => b \in ledger

CopiesAreFresh ==
    /\ \A b \in inRedis : now < batch[b].at + BatchTtl
    /\ \A w \in Workers : pc[w] = "apply" =>
          /\ readAt[w] < batch[hand[w]].at + BatchTtl
          /\ now <= readAt[w] + MaxHold

CountInv ==
    TypeOK /\ CountedOnce /\ OnePlace /\ CreditExplained /\ LedgerRemembers /\ CopiesAreFresh

\* A view is still on its way to the count: in a counter, in a batch key, or in
\* the hands of a worker about to run the transaction.
OnItsWay(v) ==
    \/ \E t \in Topics : v \in buffer[t]
    \/ \E b \in inRedis : v \in batch[b].views
    \/ \E w \in Workers : pc[w] = "apply" /\ v \in batch[hand[w]].views

Waiting == {v \in Views : credited[v] = 0 /\ OnItsWay(v)}

Abstract == INSTANCE TopicViews WITH waiting <- Waiting

\* The two-store protocol implements the abstract counter.
ImplementsTopicViews == Abstract!Spec

\* While its topic exists, a view leaves the wait uncredited only when its batch
\* has been in Redis for the whole retry window: no step but the passing of time
\* loses a buffered view.
LostOnlyByExpiry ==
    [][\A v \in Views :
          v \in Waiting /\ v \notin Waiting' /\ credited'[v] = 0
             => \/ \E b \in staged : v \in batch[b].views /\ batch[b].topic \notin topics
                \/ \E b \in staged : v \in batch[b].views /\ now' >= batch[b].at + BatchTtl]_vars

\* Every buffered view is settled: retried after any failure until it is credited
\* (or the retry window or the topic ends).
EveryViewSettles == \A v \in Views : (v \in Waiting) ~> (v \notin Waiting)
=============================================================================
