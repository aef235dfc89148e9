--------------------------- MODULE UploadsProofs ---------------------------
(***************************************************************************)
(* What the upload pipeline promises of content, for any number of intents, *)
(* PUTs, requests, workers, attempts, stalls and lost calls.  UploadInv is   *)
(* inductive: how far a worker has got with an asset tells what the object   *)
(* is, unless a PUT replaced it since the worker read it, and this whichever *)
(* other workers the queue sends the job to meanwhile.                       *)
(***************************************************************************)
EXTENDS Uploads, FiniteSetTheorems, TLAPS

\* What the transactions keep true of an intent and of the asset made from it.
IntentsInv ==
  /\ \A i \in Intents : asset[i] # "none" <=> intent[i] = "completed"
  /\ reserving # None => intent[reserving.intent] = "none"
  /\ \A m \in Cleaners, i \in Intents : i \in found[m] \/ deleting[m] = i => intent[i] = "expired"

\* A job that can still run has an attempt left, and an asset.
JobsInv ==
  \A i \in Intents :
    /\ job[i] \in {"waiting", "active"} => attempts[i] < MaxAttempts /\ stalls[i] <= MaxStalls
    /\ job[i] # "none" => asset[i] # "none"

\* A request or a worker that is not idle has an intent, and its asset once one is due.
BusyInv ==
  /\ \A h \in Handlers : hpc[h] # "idle" => hintent[h] \in Intents
  /\ \A h \in Handlers : hpc[h] = "enqueue" => asset[hintent[h]] # "none"
  /\ \A w \in Workers : wpc[w] # "idle" => wintent[w] \in Intents /\ asset[wintent[w]] # "none"

\* How far a worker has got tells what the object is, unless it is rewritten.
ContentInv ==
  \A w \in Workers :
    LET i == wintent[w] IN
    /\ wpc[w] \in {"putOriginal", "putVariants"} => i \in images
    /\ wpc[w] = "markReady" /\ i \in images => i \in variants
    /\ Past(w) /\ i \notin rewritten => store[i] \notin {"unsafe", "infected"}
    /\ wpc[w] \in {"putVariants", "markReady"} /\ i \in images \ rewritten =>
         store[i] \in {"encoded", "none"}

UploadInv ==
  /\ TypeOK /\ IntentsInv /\ JobsInv /\ BusyInv /\ ContentInv
  /\ OnlyCheckedContentIsReady /\ ReadyImagesAreReencoded

-----------------------------------------------------------------------------
(* The queue.                                                              *)

\* The queue's part of the invariant.
QueueOK ==
  /\ job \in [Intents -> {"none", "waiting", "active", "failed"}]
  /\ attempts \in [Intents -> 0 .. MaxAttempts]
  /\ stalls \in [Intents -> 0 .. MaxStalls + 1]
  /\ holder \in [Intents -> Workers \union {None}]
  /\ \A i \in Intents : (job[i] = "active") <=> (holder[i] # None)
  /\ \A i \in Intents :
       job[i] \in {"waiting", "active"} => attempts[i] < MaxAttempts /\ stalls[i] <= MaxStalls

\* No job appears.
NoNewJob == \A i \in Intents : job'[i] # "none" => job[i] # "none"

\* A worker is put to idle.
Idles(w) == wpc' = [wpc EXCEPT ![w] = "idle"] /\ wintent' = [wintent EXCEPT ![w] = None]

LEMMA QueueFromInv == TypeOK /\ JobsInv => QueueOK
  BY DEF TypeOK, JobsInv, QueueOK

\* A job that ends keeps the queue in order and leaves its worker idle.
LEMMA JobEnds ==
  ASSUME UploadInv, NEW w \in Workers, wpc[w] # "idle",
         NEW state \in {"none", "waiting", "failed"}, NEW made \in Nat,
         state = "waiting" => made < MaxAttempts,
         holder[wintent[w]] = w => made <= MaxAttempts,
         EndJob(w, state, made)
  PROVE  QueueOK' /\ NoNewJob /\ Idles(w)
  <1> DEFINE i == wintent[w]
  <1> USE DEF UploadInv, NoNewJob, Idles
  <1>1. i \in Intents
    BY DEF BusyInv
  <1>2. wpc' = [wpc EXCEPT ![w] = "idle"] /\ wintent' = [wintent EXCEPT ![w] = None] /\ stalls' = stalls
    BY DEF EndJob, WIdle
  <1>3. CASE holder[i] # w
    BY <1>2, <1>3 DEF EndJob, TypeOK, JobsInv, QueueOK
  <1>4. CASE holder[i] = w
    <2>1. /\ job' = [job EXCEPT ![i] = state]
          /\ attempts' = [attempts EXCEPT ![i] = made]
          /\ holder' = [holder EXCEPT ![i] = None]
      BY <1>4 DEF EndJob
    <2>2. job[i] = "active" /\ stalls[i] <= MaxStalls
      BY <1>1, <1>4, UploadsAssumption DEF TypeOK, JobsInv
    <2>3. made \in 0 .. MaxAttempts
      BY <1>4, UploadsAssumption
    <2>4. QED
      BY <1>1, <1>2, <2>1, <2>2, <2>3 DEF TypeOK, JobsInv, QueueOK
  <1>5. QED
    BY <1>3, <1>4

\* Counting the attempt of a worker that holds its job.
LEMMA Counted ==
  ASSUME UploadInv, NEW w \in Workers, wpc[w] # "idle"
  PROVE  /\ wintent[w] \in Intents /\ Made(wintent[w]) \in Nat
         /\ holder[wintent[w]] = w => Made(wintent[w]) <= MaxAttempts
  BY UploadsAssumption DEF UploadInv, BusyInv, TypeOK, JobsInv, Made

\* An attempt that fails ends the job's turn, or goes on to fail().
LEMMA AttemptEnds ==
  ASSUME UploadInv, NEW w \in Workers, wpc[w] # "idle", AttemptFails(w)
  PROVE  /\ QueueOK' /\ NoNewJob
         /\ \/ Idles(w)
            \/ wpc' = [wpc EXCEPT ![w] = "failDelete"] /\ UNCHANGED wintent
  <1> DEFINE i == wintent[w]
  <1>1. CASE LastAttempt(i)
    <2>1. UNCHANGED queueVars /\ WGoto(w, "failDelete")
      BY <1>1 DEF AttemptFails
    <2>2. QueueOK /\ UNCHANGED <<job, attempts, stalls, holder>>
      BY <2>1, QueueFromInv DEF UploadInv, queueVars
    <2>3. QED
      BY <2>1, <2>2 DEF QueueOK, NoNewJob, WGoto
  <1>2. CASE ~LastAttempt(i)
    <2>1. EndJob(w, "waiting", Made(i))
      BY <1>2 DEF AttemptFails
    <2>2. Made(i) \in Nat /\ Made(i) < MaxAttempts
      BY <1>2, Counted, UploadsAssumption DEF LastAttempt
    <2>3. PICK made \in Nat : made = Made(i)
      BY <2>2
    <2>4. EndJob(w, "waiting", made) /\ made < MaxAttempts
      BY <2>1, <2>2, <2>3
    <2>5. QueueOK' /\ NoNewJob /\ Idles(w)
      BY <2>4, JobEnds, UploadsAssumption
    <2>6. QED
      BY <2>5
  <1>3. QED
    BY <1>1, <1>2

-----------------------------------------------------------------------------
(* Every step keeps the invariant.                                         *)

\* What a worker that goes idle, or on to fail(), leaves in order when the asset's
\* row may have become ready, as a lost acknowledgement can have it.
LEMMA WorkerLeaves ==
  ASSUME UploadInv, NEW w \in Workers, wpc[w] # "idle",
         QueueOK', NoNewJob,
         \/ Idles(w)
         \/ wpc' = [wpc EXCEPT ![w] = "failDelete"] /\ UNCHANGED wintent,
         \/ UNCHANGED <<asset, variantRows>>
         \/ wpc[w] = "markReady" /\ SetReady(wintent[w])
         \/ UNCHANGED variantRows /\ asset' = [asset EXCEPT ![wintent[w]] = "rejected"],
         UNCHANGED <<reserveVars, storeVars, handlerVars, cleanVars>>,
         faults' \in 0 .. MaxFaults
  PROVE  UploadInv'
  <1> DEFINE i == wintent[w]
  <1> USE DEF UploadInv, reserveVars, storeVars, clientVars, handlerVars, cleanVars
  <1>1. i \in Intents /\ asset[i] # "none"
    BY DEF BusyInv
  <1>2. /\ asset' \in [Intents -> {"none", "quarantined", "processing", "ready", "rejected"}]
        /\ variantRows' \subseteq Intents
        /\ \A j \in Intents : asset'[j] # "none" <=> asset[j] # "none"
        /\ \A j \in Intents : asset'[j] = "ready" =>
             asset[j] = "ready" \/ (j = i /\ wpc[w] = "markReady")
    BY <1>1 DEF SetReady, TypeOK
  <1>3. /\ wpc' \in [Workers -> WStates] /\ wintent' \in [Workers -> Intents \union {None}]
        /\ wpc'[w] \in {"idle", "failDelete"} /\ (wpc'[w] = "failDelete" => wintent'[w] = i)
        /\ \A x \in Workers \ {w} : wpc'[x] = wpc[x] /\ wintent'[x] = wintent[x]
    BY <1>1 DEF Idles, TypeOK, WStates
  <1>4. TypeOK'
    BY <1>2, <1>3 DEF TypeOK, QueueOK
  <1>5. IntentsInv'
    BY <1>2 DEF IntentsInv
  <1>6. JobsInv'
    BY <1>2 DEF JobsInv, QueueOK, NoNewJob
  <1>7. BusyInv'
    <2>1. \A h \in Handlers : hpc[h] = "enqueue" => hintent[h] \in Intents
      BY DEF BusyInv
    <2>2. QED
      BY <1>1, <1>2, <1>3, <2>1 DEF BusyInv
  <1>8. ContentInv'
    BY <1>3 DEF ContentInv, Past
  <1>9. OnlyCheckedContentIsReady' /\ ReadyImagesAreReencoded'
    BY <1>1, <1>2 DEF TypeOK, ContentInv, Past, OnlyCheckedContentIsReady, ReadyImagesAreReencoded
  <1>10. QED
    BY <1>4, <1>5, <1>6, <1>7, <1>8, <1>9

\* The steps of a worker that has a job.
LEMMA WorkStep ==
  ASSUME UploadInv, NEW w \in Workers, Work(w) \/ CallFails(w)
  PROVE  UploadInv'
  <1> DEFINE i == wintent[w]
  <1> USE DEF UploadInv
  <1>0. wpc[w] # "idle" => i \in Intents /\ asset[i] # "none"
    BY DEF BusyInv
  <1>1. faults \in 0 .. MaxFaults
    BY DEF TypeOK
  <1>2. ASSUME BeginProcessing(w) PROVE UploadInv'
    <2>1. CASE asset[i] \in {"quarantined", "processing"}
      BY <1>0, <1>2, <2>1
      DEF BeginProcessing, WGoto, queueVars, reserveVars, storeVars, clientVars, handlerVars, cleanVars,
          TypeOK, WStates, IntentsInv, JobsInv, BusyInv, ContentInv, Past,
          OnlyCheckedContentIsReady, ReadyImagesAreReencoded
    <2>2. CASE asset[i] \notin {"quarantined", "processing"}
      <3>1. wpc[w] # "idle" /\ EndJob(w, "none", 0) /\ UNCHANGED <<asset, variantRows>>
        BY <1>2, <2>2 DEF BeginProcessing, JobDone
      <3>2. QueueOK' /\ NoNewJob /\ Idles(w)
        BY <3>1, JobEnds, UploadsAssumption
      <3>3. QED
        BY <1>1, <1>2, <3>1, <3>2, WorkerLeaves DEF BeginProcessing
    <2>3. QED
      BY <2>1, <2>2
  <1>3. ASSUME GetObject(w) PROVE UploadInv'
    <2>1. wpc'[w] = "rejectDelete" \/ (wpc'[w] = Verdict(i) /\ store[i] # "none")
      BY <1>3 DEF GetObject, WGoto, TypeOK
    <2>2. /\ Verdict(i) \in {"putOriginal", "markReady", "rejectDelete"}
          /\ Verdict(i) = "putOriginal" => i \in images
          /\ Verdict(i) = "markReady" => i \notin images
          /\ Verdict(i) # "rejectDelete" => store[i] \notin {"unsafe", "infected"}
      BY DEF Verdict
    <2>3. wpc[w] = "get" /\ wpc' \in [Workers -> WStates] /\ UNCHANGED wintent
          /\ \A x \in Workers \ {w} : wpc'[x] = wpc[x]
      BY <1>3, <2>2 DEF GetObject, WGoto, TypeOK, WStates
    <2>4. QED
      BY <1>0, <1>3, <2>1, <2>2, <2>3
      DEF GetObject, queueVars, reserveVars, assetVars, storeVars, clientVars, handlerVars, cleanVars,
          TypeOK, IntentsInv, JobsInv, BusyInv, ContentInv, Past,
          OnlyCheckedContentIsReady, ReadyImagesAreReencoded
  <1>4. ASSUME PutOriginal(w) \/ PutVariants(w) \/ DeleteOriginal(w) PROVE UploadInv'
    BY <1>0, <1>4
    DEF PutOriginal, PutVariants, DeleteOriginal, WGoto, Store, Objects, clientVars, queueVars, reserveVars, assetVars,
        handlerVars, cleanVars, TypeOK, WStates, IntentsInv, JobsInv, BusyInv, ContentInv, Past,
        OnlyCheckedContentIsReady, ReadyImagesAreReencoded
  <1>5. ASSUME MarkReady(w) PROVE UploadInv'
    <2>1. wpc[w] = "markReady" /\ EndJob(w, "none", 0) /\ SetReady(i)
      BY <1>5 DEF MarkReady, JobDone
    <2>2. QueueOK' /\ NoNewJob /\ Idles(w)
      BY <2>1, JobEnds, UploadsAssumption
    <2>3. QED
      BY <1>1, <1>5, <2>1, <2>2, WorkerLeaves DEF MarkReady
  <1>6. ASSUME MarkRejected(w) PROVE UploadInv'
    <2>1. /\ wpc[w] # "idle" /\ UNCHANGED variantRows
          /\ asset' = [asset EXCEPT ![i] = "rejected"]
          /\ EndJob(w, "none", 0) \/ EndJob(w, "failed", Made(i))
      BY <1>6 DEF MarkRejected, JobDone
    <2>2. PICK made \in Nat : made = Made(i) /\ (holder[i] = w => made <= MaxAttempts)
      BY <2>1, Counted
    <2>3. EndJob(w, "none", 0) \/ EndJob(w, "failed", made)
      BY <2>1, <2>2
    <2>4. QueueOK' /\ NoNewJob /\ Idles(w)
      BY <2>1, <2>2, <2>3, JobEnds, UploadsAssumption
    <2>5. QED
      BY <1>1, <1>6, <2>1, <2>4, WorkerLeaves DEF MarkRejected
  <1>7. ASSUME StepThrows(w) PROVE UploadInv'
    <2>1. wpc[w] # "idle" /\ AttemptFails(w) /\ UNCHANGED <<asset, variantRows>>
      BY <1>7 DEF StepThrows, assetVars
    <2>2. QED
      BY <1>1, <1>7, <2>1, AttemptEnds, WorkerLeaves DEF StepThrows
  <1>8. ASSUME CallFails(w) PROVE UploadInv'
    <2>1. /\ wpc[w] # "idle" /\ faults' \in 0 .. MaxFaults
          /\ AttemptFails(w) \/ EndJob(w, "failed", Made(i))
          /\ UNCHANGED <<asset, variantRows>> \/ (wpc[w] = "markReady" /\ SetReady(i))
      BY <1>1, <1>8, UploadsAssumption DEF CallFails, Fault, assetVars
    <2>2. PICK made \in Nat : made = Made(i) /\ (holder[i] = w => made <= MaxAttempts)
      BY <2>1, Counted
    <2>3. AttemptFails(w) \/ EndJob(w, "failed", made)
      BY <2>1, <2>2
    <2>4. /\ QueueOK' /\ NoNewJob
          /\ \/ Idles(w)
             \/ wpc' = [wpc EXCEPT ![w] = "failDelete"] /\ UNCHANGED wintent
      BY <2>1, <2>2, <2>3, AttemptEnds, JobEnds
    <2>5. QED
      BY <1>8, <2>1, <2>4, WorkerLeaves DEF CallFails
  <1>9. QED
    BY <1>2, <1>3, <1>4, <1>5, <1>6, <1>7, <1>8 DEF Work

\* The steps of everyone else.
LEMMA UploadStep == UploadInv /\ [Next]_vars => UploadInv'
  <1> SUFFICES ASSUME UploadInv, [Next]_vars PROVE UploadInv'
    OBVIOUS
  <1> USE DEF UploadInv, reserveVars, assetVars, storeVars, clientVars, queueVars, handlerVars, workerVars,
              cleanVars
  <1>1. ASSUME NEW i \in Intents, BeginReserve(i) \/ EndReserve(i) \/ Lapse(i) PROVE UploadInv'
    <2>1. Cardinality(CountedAssets) \in Nat
      <3>1. CountedAssets \subseteq Intents
        BY DEF CountedAssets
      <3>2. QED
        BY <3>1, UploadsAssumption, FS_Subset, FS_CardinalityType
    <2>2. QED
      BY <1>1, <2>1
      DEF BeginReserve, EndReserve, Lapse, LockFree, TypeOK, IntentsInv, JobsInv, BusyInv,
          ContentInv, Past, OnlyCheckedContentIsReady, ReadyImagesAreReencoded
  <1>2. ASSUME NEW i \in Intents, NEW k \in Kinds, Put(i, k) PROVE UploadInv'
    BY <1>2, UploadsAssumption DEF Put, Objects, TypeOK, IntentsInv, JobsInv, BusyInv, ContentInv, Past,
                OnlyCheckedContentIsReady, ReadyImagesAreReencoded
  <1>3. ASSUME NEW h \in Handlers, Completing(h) \/ HandlerFails(h) PROVE UploadInv'
    <2>1. ASSUME Head(h) PROVE UploadInv'
      BY <2>1 DEF Head, HGoto, HDone, TypeOK, HStates, IntentsInv, JobsInv, BusyInv, ContentInv, Past,
                  OnlyCheckedContentIsReady, ReadyImagesAreReencoded
    <2>2. ASSUME CompleteIntent(h) PROVE UploadInv'
      BY <2>2 DEF CompleteIntent, MayComplete, HGoto, HDone, TypeOK, HStates, IntentsInv,
                  JobsInv, BusyInv, ContentInv, Past, OnlyCheckedContentIsReady, ReadyImagesAreReencoded
    <2>3. ASSUME Enqueue(h) PROVE UploadInv'
      BY <2>3, UploadsAssumption
      DEF Enqueue, HGoto, HDone, TypeOK, HStates, IntentsInv, JobsInv, BusyInv, ContentInv, Past,
          OnlyCheckedContentIsReady, ReadyImagesAreReencoded
    <2>4. ASSUME HandlerFails(h) PROVE UploadInv'
      BY <2>4, UploadsAssumption
      DEF HandlerFails, Fault, HGoto, HDone, TypeOK, HStates, IntentsInv, JobsInv, BusyInv,
          ContentInv, Past, OnlyCheckedContentIsReady, ReadyImagesAreReencoded
    <2>5. QED
      BY <1>3, <2>1, <2>2, <2>3, <2>4 DEF Completing
  <1>4. ASSUME NEW h \in Handlers, NEW i \in Intents, FindIntent(h, i) PROVE UploadInv'
    BY <1>4 DEF FindIntent, HGoto, TypeOK, HStates, IntentsInv, JobsInv, BusyInv, ContentInv, Past,
                OnlyCheckedContentIsReady, ReadyImagesAreReencoded
  <1>5. ASSUME NEW w \in Workers, NEW i \in Intents, TakeJob(w, i) PROVE UploadInv'
    BY <1>5, UploadsAssumption
    DEF TakeJob, TypeOK, WStates, IntentsInv, JobsInv, BusyInv, ContentInv, Past,
        OnlyCheckedContentIsReady, ReadyImagesAreReencoded
  <1>6. ASSUME NEW w \in Workers, Work(w) \/ CallFails(w) PROVE UploadInv'
    BY <1>6, WorkStep
  <1>7. ASSUME NEW i \in Intents, NEW dies \in BOOLEAN, Stall(i, dies) PROVE UploadInv'
    <2>1. /\ holder[i] \in Workers
          /\ UNCHANGED workerVars \/ WIdle(holder[i])
      BY <1>7 DEF Stall, TypeOK
    <2>2. /\ wpc' \in [Workers -> WStates] /\ wintent' \in [Workers -> Intents \union {None}]
          /\ \A x \in Workers : wpc'[x] = "idle" \/ (wpc'[x] = wpc[x] /\ wintent'[x] = wintent[x])
      BY <2>1 DEF WIdle, TypeOK, WStates
    <2>3. TypeOK'
      BY <1>7, <2>2, UploadsAssumption DEF Stall, Fault, TypeOK, JobsInv
    <2>4. JobsInv'
      BY <1>7, UploadsAssumption DEF Stall, TypeOK, JobsInv
    <2>5. QED
      BY <1>7, <2>2, <2>3, <2>4
      DEF Stall, IntentsInv, BusyInv, ContentInv, Past, OnlyCheckedContentIsReady, ReadyImagesAreReencoded
  <1>8. ASSUME NEW m \in Cleaners, NEW skip, Claim(m, skip) PROVE UploadInv'
    BY <1>8 DEF Claim, Uncleaned, TypeOK, IntentsInv, JobsInv, BusyInv, ContentInv, Past,
                OnlyCheckedContentIsReady, ReadyImagesAreReencoded
  <1>9. ASSUME NEW m \in Cleaners,
               (\E i \in Intents : CleanObject(m, i)) \/ MarkIntentCleaned(m) \/ CleanupFails(m)
        PROVE  UploadInv'
    BY <1>9, UploadsAssumption
    DEF CleanObject, Store, Objects, MarkIntentCleaned, CleanupFails, Fault, TypeOK, IntentsInv, JobsInv, BusyInv,
        ContentInv, Past, OnlyCheckedContentIsReady, ReadyImagesAreReencoded
  <1>10. CASE UNCHANGED vars
    BY <1>10 DEF vars, TypeOK, IntentsInv, JobsInv, BusyInv, ContentInv, Past,
                 OnlyCheckedContentIsReady, ReadyImagesAreReencoded
  <1>11. QED
    BY <1>1, <1>2, <1>3, <1>4, <1>5, <1>6, <1>7, <1>8, <1>9, <1>10 DEF Next, Clean

LEMMA InitUploadInv == Init => UploadInv
  BY UploadsAssumption
  DEF Init, Objects, UploadInv, TypeOK, HStates, WStates, IntentsInv, JobsInv, BusyInv, ContentInv, Past,
      OnlyCheckedContentIsReady, ReadyImagesAreReencoded

\* Stores, queue and processes keep their shape, whatever is lost or taken over.
THEOREM UploadInvariant == Spec => []UploadInv
  BY InitUploadInv, UploadStep, PTL DEF Spec

THEOREM TypeCorrect == Spec => []TypeOK
  BY UploadInvariant, PTL DEF UploadInv

\* The object of a ready asset passed the type check and the scan, however many PUTs
\* there are, however many workers have its job and whatever of their calls is lost,
\* unless a PUT landed after the worker had read it.
THEOREM ReadyIsChecked == Spec => []OnlyCheckedContentIsReady
  BY UploadInvariant, PTL DEF UploadInv

\* No image is ready as it was uploaded, but for a PUT as late as that, nor without its
\* variants.
THEOREM ReadyIsReencoded == Spec => []ReadyImagesAreReencoded
  BY UploadInvariant, PTL DEF UploadInv

\* Cleanup never has an intent in hand that has become an asset.
THEOREM AssetsSpared == Spec => []CleanupSparesAssets
  <1>1. UploadInv => CleanupSparesAssets
    BY DEF UploadInv, TypeOK, IntentsInv, CleanupSparesAssets
  <1>2. QED
    BY <1>1, UploadInvariant, PTL
=============================================================================
