------------------------------ MODULE Uploads ------------------------------
(***************************************************************************)
(* Direct uploads.  The API reserves quota for an upload intent and signs a *)
(* PUT url; the client uploads to object storage and asks for completion;   *)
(* completion turns the intent into a quarantined asset and enqueues a job; *)
(* media workers check the object, re-encode images and mark the asset      *)
(* ready or rejected; a maintenance worker removes what lapsed intents left. *)
(*                                                                         *)
(* PostgreSQL, object storage and the queue are three stores no transaction *)
(* spans, so every await between them is a step of its own here.  An intent *)
(* and the asset made from it share one identity.  All sizes are 1.         *)
(* The signed url is good for any number of PUTs until it expires, so the    *)
(* object may change after it was looked at; MaxPuts bounds how often.       *)
(***************************************************************************)
EXTENDS Naturals, FiniteSets

CONSTANTS
    Intents,        \* upload intents
    Handlers,       \* API requests that complete uploads
    Workers,        \* slots of media workers (concurrency 2 per process)
    Cleaners,       \* maintenance workers
    Quota,          \* uploads a place (or a user) may hold
    MaxAttempts,    \* attempts of a job
    MaxStalls,      \* times the queue gives a job of a silent worker to another
    MaxFaults,      \* bound on failed calls and lost acknowledgements
    MaxPuts,        \* bound on the clients' PUTs
    None            \* no intent

ASSUME UploadsAssumption ==
    /\ None \notin Intents \union Workers
    /\ IsFiniteSet(Intents)
    /\ Quota \in Nat /\ MaxStalls \in Nat /\ MaxFaults \in Nat /\ MaxPuts \in Nat
    /\ MaxAttempts \in Nat \ {0}

VARIABLES
    intent,       \* upload_intents.status
    lapsed,       \* intents whose expires_at has passed
    cleaned,      \* intents with cleaned_at
    reserving,    \* the reservation that holds the advisory lock, and its count
    asset,        \* assets.status
    variantRows,  \* assets with rows in asset_variants
    images,       \* intents that declare an image type
    store,        \* the object under objectKey
    puts,         \* how many PUTs there were
    rewritten,    \* history: objects a PUT replaced after a worker that goes on with
                  \* the asset had read them, or after the asset was ready
    variants,     \* assets with objects under variants/
    job,          \* state of the job asset-process-<id>
    attempts,     \* its attemptsMade
    stalls,       \* its stalledCounter
    holder,       \* the worker that holds its lock
    hpc, hintent, \* handler: where it is in completeUpload, and its intent
    wpc, wintent, \* worker: where it is in process()/fail(), and its asset
    found,        \* cleaner: claimed intents still to clean
    deleting,     \* cleaner: the intent whose object it has just deleted
    faults

reserveVars == <<intent, lapsed, reserving>>
assetVars   == <<asset, variantRows>>
clientVars  == <<images, puts>>
storeVars   == <<clientVars, store, variants, rewritten>>
queueVars   == <<job, attempts, stalls, holder>>
handlerVars == <<hpc, hintent>>
workerVars  == <<wpc, wintent>>
cleanVars   == <<cleaned, found, deleting>>
vars == <<reserveVars, assetVars, storeVars, queueVars, handlerVars, workerVars, cleanVars, faults>>

Kinds   == {"fit", "unsafe", "infected"}   \* uploads; unsafe: not of the declared type or size
Objects == Kinds \union {"none", "encoded"}
HStates == {"idle", "head", "commit", "enqueue"}
WStates == {"idle", "begin", "get", "putOriginal", "putVariants", "markReady",
            "rejectDelete", "rejectMark", "failDelete", "failMark"}

Init ==
    /\ intent = [i \in Intents |-> "none"]
    /\ lapsed = {} /\ cleaned = {}
    /\ reserving = None
    /\ asset = [i \in Intents |-> "none"]
    /\ variantRows = {}
    /\ images \in SUBSET Intents
    /\ store = [i \in Intents |-> "none"]
    /\ puts = 0 /\ rewritten = {}
    /\ variants = {}
    /\ job = [i \in Intents |-> "none"]
    /\ attempts = [i \in Intents |-> 0]
    /\ stalls = [i \in Intents |-> 0]
    /\ holder = [i \in Intents |-> None]
    /\ hpc = [h \in Handlers |-> "idle"] /\ hintent = [h \in Handlers |-> None]
    /\ wpc = [w \in Workers |-> "idle"] /\ wintent = [w \in Workers |-> None]
    /\ found = [m \in Cleaners |-> {}] /\ deleting = [m \in Cleaners |-> None]
    /\ faults = 0

Fault == faults < MaxFaults /\ faults' = faults + 1

-----------------------------------------------------------------------------
(* Reservation: one transaction under a lock of the place, but two reads.  *)

CountedAssets  == {i \in Intents : asset[i] \in {"quarantined", "processing", "ready"}}
CountedIntents == {i \in Intents : intent[i] = "pending" /\ i \notin lapsed}

LockFree == reserving = None

\* reserveIntent: lock the place and sum the assets.
BeginReserve(i) ==
    /\ intent[i] = "none"
    /\ LockFree
    /\ reserving' = [intent |-> i, assets |-> Cardinality(CountedAssets)]
    /\ UNCHANGED <<intent, lapsed, assetVars, storeVars, queueVars, handlerVars, workerVars, cleanVars, faults>>

\* Sum the pending intents; insert if the quota allows.
EndReserve(i) ==
    /\ reserving # None /\ reserving.intent = i
    /\ intent' = IF reserving.assets + Cardinality(CountedIntents) + 1 > Quota
                 THEN intent ELSE [intent EXCEPT ![i] = "pending"]
    /\ reserving' = None
    /\ UNCHANGED <<lapsed, assetVars, storeVars, queueVars, handlerVars, workerVars, cleanVars, faults>>

\* The time of expires_at comes.
Lapse(i) ==
    /\ intent[i] # "none" /\ i \notin lapsed
    /\ lapsed' = lapsed \union {i}
    /\ UNCHANGED <<intent, reserving, assetVars, storeVars, queueVars, handlerVars, workerVars, cleanVars, faults>>

\* A worker that has read the object and found nothing against it.
Past(w) == wpc[w] \in {"putOriginal", "putVariants", "markReady"}

\* A PUT of the client lands, the first or a repeated one; the url does not say that there
\* must be no object yet, and a PUT under way when it expires is still done.
Put(i, k) ==
    /\ intent[i] # "none"
    /\ puts < MaxPuts /\ puts' = puts + 1
    /\ store' = [store EXCEPT ![i] = k]
    /\ rewritten' = IF asset[i] = "ready" \/ \E w \in Workers : Past(w) /\ wintent[w] = i
                    THEN rewritten \union {i} ELSE rewritten
    /\ UNCHANGED <<reserveVars, assetVars, images, variants, queueVars, handlerVars, workerVars, cleanVars, faults>>

-----------------------------------------------------------------------------
(* completeUpload.                                                         *)

HGoto(h, i, label) ==
    /\ hpc' = [hpc EXCEPT ![h] = label]
    /\ hintent' = [hintent EXCEPT ![h] = i]
HDone(h) == HGoto(h, None, "idle")

\* findIntent: a completed intent only has its job enqueued again.
FindIntent(h, i) ==
    /\ hpc[h] = "idle"
    /\ \/ intent[i] = "completed" /\ HGoto(h, i, "enqueue")
       \/ intent[i] = "pending" /\ i \notin lapsed /\ HGoto(h, i, "head")
    /\ UNCHANGED <<reserveVars, assetVars, storeVars, queueVars, workerVars, cleanVars, faults>>

\* headObject: the object must be there as it was announced (a re-encoded
\* object has lost the intent's metadata).  Then the clock is read again.
Head(h) ==
    /\ hpc[h] = "head"
    /\ IF store[hintent[h]] \in Kinds /\ hintent[h] \notin lapsed
       THEN HGoto(h, hintent[h], "commit")
       ELSE HDone(h)
    /\ UNCHANGED <<reserveVars, assetVars, storeVars, queueVars, workerVars, cleanVars, faults>>

\* completeIntent's rule, evaluated with the intent's row locked.
MayComplete_AnyStatus(i) == TRUE                    \* mutated: status not read again
MayComplete(i) == intent[i] = "pending"

\* completeIntent: an existing asset is returned; a pending intent becomes one.
CompleteIntent(h) ==
    LET i == hintent[h] IN
    /\ hpc[h] = "commit"
    /\ IF asset[i] = "none" /\ ~MayComplete(i)
       THEN HDone(h) /\ UNCHANGED <<intent, asset>>
       ELSE /\ HGoto(h, i, "enqueue")
            /\ IF asset[i] # "none" THEN UNCHANGED <<intent, asset>>
               ELSE /\ asset' = [asset EXCEPT ![i] = "quarantined"]
                    /\ intent' = [intent EXCEPT ![i] = "completed"]
    /\ UNCHANGED <<lapsed, reserving, variantRows, storeVars, queueVars, workerVars, cleanVars, faults>>

\* enqueue: queue.add ignores a jobId it still knows, a failed one included.
Enqueue(h) ==
    LET i == hintent[h] IN
    /\ hpc[h] = "enqueue"
    /\ IF job[i] # "none" THEN UNCHANGED queueVars
       ELSE /\ job' = [job EXCEPT ![i] = "waiting"]
            /\ attempts' = [attempts EXCEPT ![i] = 0]
            /\ stalls' = [stalls EXCEPT ![i] = 0]
            /\ UNCHANGED holder
    /\ HDone(h)
    /\ UNCHANGED <<reserveVars, assetVars, storeVars, workerVars, cleanVars, faults>>

\* The request ends in an error, or its process dies, between two steps.
HandlerFails(h) ==
    /\ hpc[h] # "idle"
    /\ Fault
    /\ HDone(h)
    /\ UNCHANGED <<reserveVars, assetVars, storeVars, queueVars, workerVars, cleanVars>>

-----------------------------------------------------------------------------
(* Media workers.                                                          *)

WGoto(w, label) == wpc' = [wpc EXCEPT ![w] = label] /\ UNCHANGED wintent
WIdle(w) ==
    /\ wpc' = [wpc EXCEPT ![w] = "idle"]
    /\ wintent' = [wintent EXCEPT ![w] = None]

\* The outcome of a job counts only while its worker holds the lock.
EndJob(w, state, made) ==
    LET i == wintent[w] IN
    /\ IF holder[i] # w THEN UNCHANGED <<job, attempts, holder>>
       ELSE /\ job' = [job EXCEPT ![i] = state]
            /\ attempts' = [attempts EXCEPT ![i] = made]
            /\ holder' = [holder EXCEPT ![i] = None]
    /\ UNCHANGED stalls
    /\ WIdle(w)
JobDone(w) == EndJob(w, "none", 0)

TakeJob(w, i) ==
    /\ wpc[w] = "idle" /\ job[i] = "waiting"
    /\ job' = [job EXCEPT ![i] = "active"]
    /\ holder' = [holder EXCEPT ![i] = w]
    /\ wpc' = [wpc EXCEPT ![w] = "begin"]
    /\ wintent' = [wintent EXCEPT ![w] = i]
    /\ UNCHANGED <<reserveVars, assetVars, storeVars, attempts, stalls, handlerVars, cleanVars, faults>>

\* beginProcessing: nothing to do for a settled asset.
BeginProcessing(w) ==
    LET i == wintent[w] IN
    /\ wpc[w] = "begin"
    /\ IF asset[i] \in {"quarantined", "processing"}
       THEN /\ asset' = [asset EXCEPT ![i] = "processing"]
            /\ WGoto(w, "get") /\ UNCHANGED queueVars
       ELSE JobDone(w) /\ UNCHANGED asset
    /\ UNCHANGED <<reserveVars, variantRows, storeVars, handlerVars, cleanVars, faults>>

\* What process() does with an object it has read.
Verdict_Unscanned(i) == IF i \in images THEN "putOriginal" ELSE "markReady"  \* mutated
Verdict_AsUploaded(i) == IF store[i] \in {"unsafe", "infected"} THEN "rejectDelete" ELSE "markReady"  \* mutated
Verdict(i) ==
    IF store[i] \in {"unsafe", "infected"} THEN "rejectDelete"
    ELSE IF i \in images THEN "putOriginal" ELSE "markReady"

\* getObject, the size and type checks and the scan.  A re-encoded original
\* has, but for coincidence, another size than the asset's row.
GetObject(w) ==
    LET i == wintent[w] IN
    /\ wpc[w] = "get"
    /\ \/ store[i] # "none" /\ WGoto(w, Verdict(i))
       \/ store[i] = "encoded" /\ WGoto(w, "rejectDelete")
    /\ UNCHANGED <<reserveVars, assetVars, storeVars, queueVars, handlerVars, cleanVars, faults>>

\* What the server puts or deletes is no longer the client's.
Store(i, object) ==
    /\ store' = [store EXCEPT ![i] = object]
    /\ rewritten' = rewritten \ {i}

PutOriginal(w) ==
    /\ wpc[w] = "putOriginal"
    /\ Store(wintent[w], "encoded")
    /\ WGoto(w, "putVariants")
    /\ UNCHANGED <<reserveVars, assetVars, clientVars, variants, queueVars, handlerVars, cleanVars, faults>>

PutVariants(w) ==
    /\ wpc[w] = "putVariants"
    /\ variants' = variants \union {wintent[w]}
    /\ WGoto(w, "markReady")
    /\ UNCHANGED <<reserveVars, assetVars, clientVars, store, rewritten, queueVars, handlerVars, cleanVars, faults>>

\* markReady: whatever the asset's status has become; a second insert of the
\* variants violates their key and undoes the transaction.
CanMarkReady(i) == i \notin variantRows
SetReady(i) ==
    /\ asset' = [asset EXCEPT ![i] = "ready"]
    /\ variantRows' = variantRows \union ({i} \intersect images)

MarkReady(w) ==
    /\ wpc[w] = "markReady"
    /\ CanMarkReady(wintent[w]) /\ SetReady(wintent[w])
    /\ JobDone(w)
    /\ UNCHANGED <<reserveVars, storeVars, handlerVars, cleanVars, faults>>

\* reject() and fail(): delete the original, then mark the asset, whatever its
\* status has become.
DeleteOriginal(w) ==
    /\ wpc[w] \in {"rejectDelete", "failDelete"}
    /\ Store(wintent[w], "none")
    /\ WGoto(w, IF wpc[w] = "rejectDelete" THEN "rejectMark" ELSE "failMark")
    /\ UNCHANGED <<reserveVars, assetVars, clientVars, variants, queueVars, handlerVars, cleanVars, faults>>

\* attemptsMade once this attempt is over.
Made_Uncounted(i) == attempts[i]                         \* mutated: attempts not counted
Made(i)           == attempts[i] + 1

MarkRejected(w) ==
    /\ wpc[w] \in {"rejectMark", "failMark"}
    /\ asset' = [asset EXCEPT ![wintent[w]] = "rejected"]
    /\ IF wpc[w] = "rejectMark" THEN JobDone(w)
       ELSE EndJob(w, "failed", Made(wintent[w]))
    /\ UNCHANGED <<reserveVars, variantRows, storeVars, handlerVars, cleanVars, faults>>

\* process() throws: the last attempt ends in fail(), the others in a retry.
LastAttempt_OffByOne(i) == Made(i) > MaxAttempts         \* mutated: one attempt too many
LastAttempt(i)          == Made(i) >= MaxAttempts

AttemptFails(w) ==
    LET i == wintent[w] IN
    IF LastAttempt(i) THEN WGoto(w, "failDelete") /\ UNCHANGED queueVars
    ELSE EndJob(w, "waiting", Made(i))

Processing == {"begin", "get", "putOriginal", "putVariants", "markReady", "rejectDelete", "rejectMark"}

\* A call fails, or takes effect and fails to say so.  One that fails inside
\* fail() ends the last attempt there and then.
CallFails(w) ==
    /\ wpc[w] # "idle"
    /\ Fault
    /\ IF wpc[w] \in Processing THEN AttemptFails(w)
       ELSE EndJob(w, "failed", Made(wintent[w]))
    /\ \/ wpc[w] = "markReady" /\ CanMarkReady(wintent[w]) /\ SetReady(wintent[w])
       \/ UNCHANGED assetVars
    /\ UNCHANGED <<reserveVars, storeVars, handlerVars, cleanVars>>

\* No fault needed: the object is gone, or the variants are already there.
StepThrows(w) ==
    /\ \/ wpc[w] = "get" /\ store[wintent[w]] = "none"
       \/ wpc[w] = "markReady" /\ ~CanMarkReady(wintent[w])
    /\ AttemptFails(w)
    /\ UNCHANGED <<reserveVars, assetVars, storeVars, handlerVars, cleanVars, faults>>

\* The queue takes a job from a worker that stopped renewing its lock, which
\* may have died or may go on; after too many times the job is failed unrun.
Stall(i, dies) ==
    /\ job[i] = "active"
    /\ Fault
    /\ job' = [job EXCEPT ![i] = IF stalls[i] < MaxStalls THEN "waiting" ELSE "failed"]
    /\ stalls' = [stalls EXCEPT ![i] = @ + 1]
    /\ holder' = [holder EXCEPT ![i] = None]
    /\ IF dies THEN WIdle(holder[i]) ELSE UNCHANGED workerVars
    /\ UNCHANGED <<reserveVars, assetVars, storeVars, attempts, handlerVars, cleanVars>>

-----------------------------------------------------------------------------
(* Maintenance: cleanup().                                                 *)

\* What claimExpiredIntents returns: what it claimed and what an earlier run
\* claimed and could not clean.
Uncleaned_ClaimedOnly(claimed) == claimed           \* mutated: leftovers forgotten
Uncleaned(claimed) == (claimed \union {i \in Intents : intent[i] = "expired"}) \ cleaned

\* claimExpiredIntents: expire the lapsed pending intents, but for rows another
\* transaction has locked.
Claim(m, skip) ==
    LET claimed == {i \in lapsed \ skip : intent[i] = "pending"} IN
    /\ found[m] = {} /\ deleting[m] = None
    /\ Uncleaned(claimed) # {}
    /\ intent' = [i \in Intents |-> IF i \in claimed THEN "expired" ELSE intent[i]]
    /\ found' = [found EXCEPT ![m] = Uncleaned(claimed)]
    /\ UNCHANGED <<lapsed, reserving, assetVars, storeVars, queueVars, handlerVars, workerVars, cleaned, deleting, faults>>

CleanObject(m, i) ==
    /\ i \in found[m] /\ deleting[m] = None
    /\ Store(i, "none")
    /\ found' = [found EXCEPT ![m] = @ \ {i}]
    /\ deleting' = [deleting EXCEPT ![m] = i]
    /\ UNCHANGED <<reserveVars, assetVars, clientVars, variants, queueVars, handlerVars, workerVars, cleaned, faults>>

MarkIntentCleaned(m) ==
    /\ deleting[m] # None
    /\ cleaned' = cleaned \union {deleting[m]}
    /\ deleting' = [deleting EXCEPT ![m] = None]
    /\ UNCHANGED <<reserveVars, assetVars, storeVars, queueVars, handlerVars, workerVars, found, faults>>

\* Any error ends the run; the next one is an hour later.
CleanupFails(m) ==
    /\ found[m] # {} \/ deleting[m] # None
    /\ Fault
    /\ found' = [found EXCEPT ![m] = {}]
    /\ deleting' = [deleting EXCEPT ![m] = None]
    /\ UNCHANGED <<reserveVars, assetVars, storeVars, queueVars, handlerVars, workerVars, cleaned>>

-----------------------------------------------------------------------------
Completing(h) == Head(h) \/ CompleteIntent(h) \/ Enqueue(h)

\* The steps of a worker that has a job.
Work(w) ==
    \/ BeginProcessing(w) \/ GetObject(w) \/ PutOriginal(w) \/ PutVariants(w)
    \/ MarkReady(w) \/ DeleteOriginal(w) \/ MarkRejected(w) \/ StepThrows(w)

Clean(m) ==
    \/ Claim(m, {})
    \/ \E i \in Intents : CleanObject(m, i)
    \/ MarkIntentCleaned(m)

RowsInTransaction == {hintent[h] : h \in {x \in Handlers : hpc[x] = "commit"}}

Next ==
    \/ \E i \in Intents : BeginReserve(i) \/ EndReserve(i) \/ Lapse(i)
    \/ \E i \in Intents, k \in Kinds : Put(i, k)
    \/ \E h \in Handlers : Completing(h) \/ HandlerFails(h)
    \/ \E h \in Handlers, i \in Intents : FindIntent(h, i)
    \/ \E w \in Workers, i \in Intents : TakeJob(w, i)
    \/ \E w \in Workers : Work(w) \/ CallFails(w)
    \/ \E i \in Intents, dies \in BOOLEAN : Stall(i, dies)
    \/ \E m \in Cleaners : Clean(m) \/ CleanupFails(m)
    \/ \E m \in Cleaners, skip \in SUBSET RowsInTransaction : Claim(m, skip)

\* Workers run for ever and the queue hands its jobs out in order, so none waits
\* for ever; the maintenance timer fires for ever; requests that have begun go
\* on.  Clients need not upload, complete or retry.
Fairness ==
    /\ \A w \in Workers : WF_vars(Work(w))
    /\ \A i \in Intents : SF_vars(\E w \in Workers : TakeJob(w, i))
    /\ \A h \in Handlers : WF_vars(Completing(h))
    /\ \A m \in Cleaners : WF_vars(Clean(m))

Spec     == Init /\ [][Next]_vars
FairSpec == Spec /\ Fairness

-----------------------------------------------------------------------------
(* Properties.                                                             *)

\* The shape of the three stores and of the processes.
TypeOK ==
    /\ intent \in [Intents -> {"none", "pending", "completed", "expired"}]
    /\ lapsed \subseteq Intents /\ cleaned \subseteq Intents
    /\ reserving = None \/ reserving \in [intent : Intents, assets : Nat]
    /\ asset \in [Intents -> {"none", "quarantined", "processing", "ready", "rejected"}]
    /\ variantRows \subseteq Intents
    /\ store \in [Intents -> Objects]
    /\ images \subseteq Intents /\ variants \subseteq Intents /\ rewritten \subseteq Intents
    /\ puts \in 0 .. MaxPuts
    /\ job \in [Intents -> {"none", "waiting", "active", "failed"}]
    /\ attempts \in [Intents -> 0 .. MaxAttempts]
    /\ stalls \in [Intents -> 0 .. MaxStalls + 1]
    /\ holder \in [Intents -> Workers \union {None}]
    /\ \A i \in Intents : (job[i] = "active") <=> (holder[i] # None)
    /\ hpc \in [Handlers -> HStates] /\ hintent \in [Handlers -> Intents \union {None}]
    /\ wpc \in [Workers -> WStates] /\ wintent \in [Workers -> Intents \union {None}]
    /\ found \in [Cleaners -> SUBSET Intents] /\ deleting \in [Cleaners -> Intents \union {None}]
    /\ faults \in 0 .. MaxFaults

\* What is served of a ready asset passed the type check and the scan, whatever was
\* uploaded again, retried, taken over or lost; but nothing stops a PUT that lands after
\* the worker has read the object.
OnlyCheckedContentIsReady ==
    \A i \in Intents \ rewritten : asset[i] = "ready" => store[i] \notin {"unsafe", "infected"}

\* A ready image is not served as it was uploaded, with its metadata, unless it was
\* uploaded again as late as that: the re-encoded original has replaced it.  Its variants exist.
ReadyImagesAreReencoded ==
    \A i \in images : asset[i] = "ready" =>
        /\ i \in variants
        /\ i \notin rewritten => store[i] \in {"encoded", "none"}

\* Cleaning up lapsed intents never removes the object of an asset, however
\* completion and cleanup race for an intent whose time has come.
CleanupSparesAssets ==
    \A m \in Cleaners, i \in Intents :
        i \in found[m] \/ deleting[m] = i => asset[i] = "none"

\* Every job comes to an end: its asset is settled, or the job is kept as failed.
JobsEnd ==
    \A i \in Intents :
        job[i] # "none" ~> asset[i] \in {"ready", "rejected"} \/ job[i] = "failed"

\* Every intent that expires is cleaned in the end.
ExpiredIntentsAreCleaned ==
    \A i \in Intents : intent[i] = "expired" ~> i \in cleaned

\* Claimed: the quota of a place is never exceeded (reservations are atomic).
QuotaHeld == Cardinality(CountedAssets) + Cardinality(CountedIntents) <= Quota

\* Claimed: a job that fails is tried again as often as its attempts allow, so what an
\* earlier attempt checked and re-encoded is not rejected by the next.
RetryKeepsValidUpload ==
    \A w \in Workers : wpc[w] = "rejectDelete" => store[wintent[w]] # "encoded"
=============================================================================
