------------------------- MODULE ViewCounterProofs -------------------------
(***************************************************************************)
(* Every view is counted at most once, for any number of views, topics,    *)
(* workers and faults, provided a ledger row outlives its batch key by the *)
(* time a transaction may be in flight (TimeAssumption).                   *)
(*                                                                         *)
(* From the same invariant, the protocol implements TopicViews: every step *)
(* lets a view arrive, settles waiting views together, or changes nothing  *)
(* a reader could see.  And a view is given up for one of two reasons      *)
(* only: its topic is gone, or its batch was in Redis for the whole retry  *)
(* window.                                                                 *)
(***************************************************************************)
EXTENDS ViewCounter, TLAPS

\* The batch payload constructed by a stage, and the two don't-care values,
\* have the right type.
LEMMA DontCares == NoPayload \in Payload /\ NoBatch \in Batches /\ NeverPruned \in Int
  <1>1. (CHOOSE t \in Topics : TRUE) \in Topics
    BY NonEmpty
  <1>2. NoBatch \in Batches
    BY NonEmpty DEF NoBatch
  <1>3. QED
    BY <1>1, <1>2, TimeAssumption DEF NoPayload, Payload, NeverPruned

\* What the transaction of flushViews() may change keeps its type.
LEMMA FlushTypes ==
  ASSUME TypeOK, NEW b \in staged, FlushViews(b) \/ UNCHANGED dbVars
  PROVE  /\ topics' \subseteq Topics
         /\ credited' \in [Views -> Nat]
         /\ ledger' \subseteq staged
         /\ processedAt' \in [Batches -> Nat]
         /\ applied' \subseteq staged
  <1>1. CASE Credit(b)
    BY <1>1 DEF TypeOK, Credit
  <1>2. CASE UNCHANGED dbVars
    BY <1>2 DEF TypeOK, dbVars
  <1>3. QED
    BY <1>1, <1>2 DEF FlushViews

\* Every step keeps the shape of the two stores and of the workers' state.
LEMMA TypeStep == TypeOK /\ [Next]_vars => TypeOK'
  <1> SUFFICES ASSUME TypeOK, [Next]_vars PROVE TypeOK'
    OBVIOUS
  <1> USE DEF TypeOK, dbVars, redisVars, workerVars
  <1>1. ASSUME NEW v \in Views, NEW t \in Topics, Record(v, t) PROVE TypeOK'
    BY <1>1 DEF Record
  <1>2. ASSUME NEW v \in Views, RecordFails(v) PROVE TypeOK'
    BY <1>2 DEF RecordFails
  <1>3. ASSUME NEW w \in Workers, StartFlush(w) PROVE TypeOK'
    BY <1>3 DEF StartFlush, Goto, BatchKeys, PCs
  <1>4. ASSUME NEW w \in Workers, NEW b \in Batches, NextBatch(w, b) PROVE TypeOK'
    BY <1>4 DEF NextBatch, Goto, PCs
  <1>5. ASSUME NEW w \in Workers, ScanCounters(w) PROVE TypeOK'
    BY <1>5 DEF ScanCounters
  <1>6. ASSUME NEW w \in Workers, NEW t \in Topics, StageNothing(w, t) PROVE TypeOK'
    BY <1>6 DEF StageNothing
  <1>7. ASSUME NEW w \in Workers, NEW t \in Topics, NEW b \in Batches, Stage(w, t, b)
        PROVE TypeOK'
    <2>1. [topic |-> t, views |-> buffer[t], at |-> now] \in Payload
      BY DEF Payload
    <2>2. QED
      BY <1>7, <2>1 DEF Stage, Goto, PCs
  <1>8. ASSUME NEW w \in Workers, GetBatch(w) PROVE TypeOK'
    BY <1>8, DontCares DEF GetBatch, NextKey, Goto, PCs
  <1>9. ASSUME NEW w \in Workers, Apply(w) PROVE TypeOK'
    <2>1. hand[w] \in staged
      BY <1>9 DEF Apply
    <2>2. QED
      BY <1>9, <2>1, FlushTypes DEF Apply, Goto, PCs
  <1>10. ASSUME NEW w \in Workers, ApplyFails(w) PROVE TypeOK'
    <2>1. hand[w] \in staged
      BY <1>10 DEF ApplyFails
    <2>2. QED
      BY <1>10, <2>1, FlushTypes, DontCares DEF ApplyFails, NextKey, Goto, PCs
  <1>11. ASSUME NEW w \in Workers, DeleteBatch(w) PROVE TypeOK'
    BY <1>11, DontCares DEF DeleteBatch, NextKey, Goto, PCs
  <1>12. ASSUME NEW w \in Workers, Prune(w) PROVE TypeOK'
    BY <1>12 DEF Prune, Goto, PCs
  <1>13. ASSUME NEW w \in Workers, Restart(w) PROVE TypeOK'
    BY <1>13, DontCares DEF Restart, Goto, PCs
  <1>14. ASSUME NEW t \in Topics, DropTopic(t) PROVE TypeOK'
    BY <1>14 DEF DropTopic
  <1>15. CASE Tick
    BY <1>15 DEF Tick
  <1>16. CASE UNCHANGED vars
    BY <1>16 DEF vars
  <1>17. QED
    BY <1>1, <1>2, <1>3, <1>4, <1>5, <1>6, <1>7, <1>8, <1>9, <1>10, <1>11, <1>12,
       <1>13, <1>14, <1>15, <1>16 DEF Next, Continue

\* The two stores and the workers' local state keep their shape.
THEOREM TypeCorrect == Spec => []TypeOK
  <1>1. Init => TypeOK
    BY DontCares DEF Init, TypeOK, PCs
  <1>2. QED
    BY <1>1, TypeStep, PTL DEF Spec

-----------------------------------------------------------------------------
(* Why no view is counted twice.                                           *)

\* A step that leaves the counters, the batches and PostgreSQL alone, deletes
\* at most batch keys and brings no worker to its transaction keeps CountInv.
LEMMA Frame ==
  ASSUME CountInv, TypeOK',
         UNCHANGED <<now, seen, buffer, staged, batch, dbVars>>,
         inRedis' \subseteq inRedis,
         \A w \in Workers : pc'[w] = "apply" =>
            pc[w] = "apply" /\ hand'[w] = hand[w] /\ readAt'[w] = readAt[w]
  PROVE  CountInv'
  <1> USE DEF CountInv, dbVars
  <1>1. CountedOnce'
    BY DEF CountedOnce
  <1>2. OnePlace'
    BY DEF OnePlace
  <1>3. CreditExplained'
    BY DEF CreditExplained
  <1>4. LedgerRemembers'
    BY DEF LedgerRemembers
  <1>5. CopiesAreFresh'
    BY DEF CopiesAreFresh
  <1>6. QED
    BY <1>1, <1>2, <1>3, <1>4, <1>5

\* The heart of the argument: a worker about to credit a batch that is not in
\* the ledger holds a batch that never reached view_count, so none of its views
\* has been credited.
LEMMA Uncredited ==
  ASSUME CountInv, NEW w \in Workers, pc[w] = "apply",
         batch[hand[w]].topic \in topics, hand[w] \notin ledger
  PROVE  \A v \in batch[hand[w]].views : credited[v] = 0
  <1> DEFINE b == hand[w]
  <1>1. /\ b \in staged /\ b \in Batches
        /\ batch[b] \in Payload /\ now \in Nat /\ readAt[w] \in Nat
    BY DEF CountInv, TypeOK
  <1>2. batch[b].at \in Nat /\ batch[b].views \subseteq Views
    BY <1>1 DEF Payload
  <1>3. readAt[w] < batch[b].at + BatchTtl /\ now <= readAt[w] + MaxHold
    BY DEF CountInv, CopiesAreFresh
  <1>4. now <= batch[b].at + Retention
    <2> HIDE DEF b
    <2>1. QED
      BY <1>1, <1>2, <1>3, TimeAssumption
  <1>5. b \notin applied
    BY <1>4 DEF CountInv, LedgerRemembers
  <1>6. SUFFICES ASSUME NEW v \in batch[b].views, credited[v] # 0 PROVE FALSE
    OBVIOUS
  <1>7. PICK a \in applied : v \in batch[a].views
    BY <1>2, <1>6 DEF CountInv, CreditExplained
  <1>8. a \in staged /\ a # b
    BY <1>5, <1>7 DEF CountInv, TypeOK
  <1>9. batch[a].views \cap batch[b].views = {}
    BY <1>1, <1>8 DEF CountInv, OnePlace
  <1>10. QED
    BY <1>6, <1>7, <1>9

\* The transaction of flushViews(), run by a worker that holds a batch, keeps
\* CountInv whatever else it leaves alone.
LEMMA FlushStep ==
  ASSUME CountInv, TypeOK', NEW w \in Workers, pc[w] = "apply",
         FlushViews(hand[w]) \/ UNCHANGED dbVars,
         UNCHANGED <<now, seen, buffer, staged, batch>>,
         inRedis' \subseteq inRedis,
         \A x \in Workers : pc'[x] = "apply" =>
            pc[x] = "apply" /\ hand'[x] = hand[x] /\ readAt'[x] = readAt[x]
  PROVE  CountInv'
  <1> DEFINE b == hand[w]
  <1>1. CASE UNCHANGED dbVars
    BY <1>1, Frame
  <1>2. CASE batch[b].topic \in topics /\ b \notin ledger /\ Credit(b)
    <2>1. b \in staged /\ b \in Batches /\ batch[b] \in Payload
      BY DEF CountInv, TypeOK
    <2>2. \A v \in batch[b].views : credited[v] = 0
      BY <1>2, Uncredited
    <2>3. credited \in [Views -> Nat]
      BY DEF CountInv, TypeOK
    <2>4. CountedOnce'
      <3>1. SUFFICES ASSUME NEW v \in Views PROVE credited'[v] <= 1
        BY DEF CountedOnce
      <3>2. credited'[v] = credited[v] + IF v \in batch[b].views THEN 1 ELSE 0
        BY <1>2 DEF Credit
      <3>3. CASE v \in batch[b].views
        BY <2>2, <3>2, <3>3
      <3>4. CASE v \notin batch[b].views
        BY <2>3, <3>2, <3>4 DEF CountInv, CountedOnce
      <3>5. QED
        BY <3>3, <3>4
    <2>5. OnePlace'
      BY DEF CountInv, OnePlace
    <2>6. CreditExplained'
      <3>1. SUFFICES ASSUME NEW v \in Views, credited'[v] # 0
                     PROVE  \E a \in applied' : v \in batch'[a].views
        BY DEF CreditExplained
      <3>2. applied' = applied \union {b} /\ batch' = batch
        BY <1>2 DEF Credit
      <3>3. CASE v \in batch[b].views
        BY <3>2, <3>3
      <3>4. CASE v \notin batch[b].views
        <4>1. credited[v] # 0
          BY <1>2, <2>3, <3>1, <3>4 DEF Credit
        <4>2. QED
          BY <3>2, <4>1 DEF CountInv, CreditExplained
      <3>5. QED
        BY <3>3, <3>4
    <2>7. LedgerRemembers'
      <3>1. batch[b].at <= now
        BY <2>1 DEF CountInv, OnePlace
      <3>2. QED
        BY <1>2, <2>1, <3>1 DEF CountInv, TypeOK, LedgerRemembers, Credit
    <2>8. CopiesAreFresh'
      BY DEF CountInv, CopiesAreFresh
    <2>9. QED
      BY <2>4, <2>5, <2>6, <2>7, <2>8 DEF CountInv
  <1>3. QED
    BY <1>1, <1>2 DEF FlushViews

\* Redis drops a key or a transaction comes to its limit only as time passes.
LEMMA TickStep == CountInv /\ TypeOK' /\ Tick => CountInv'
  <1> SUFFICES ASSUME CountInv, TypeOK', Tick PROVE CountInv'
    OBVIOUS
  <1> USE DEF Tick, dbVars, workerVars
  <1>1. /\ now \in Nat /\ now' = now + 1 /\ Retention \in Nat /\ MaxHold \in Nat
        /\ batch \in [Batches -> Payload] /\ staged \subseteq Batches
        /\ applied \subseteq staged /\ readAt \in [Workers -> Nat]
    BY TimeAssumption DEF CountInv, TypeOK
  <1>2. \A b \in staged : batch[b].at \in Nat
    BY <1>1 DEF Payload
  <1>3. CountedOnce' /\ CreditExplained'
    BY DEF CountInv, CountedOnce, CreditExplained
  <1>4. OnePlace'
    <2>1. \A b \in staged : batch[b].at <= now'
      BY <1>1, <1>2 DEF CountInv, OnePlace
    <2>2. QED
      BY <2>1 DEF CountInv, OnePlace
  <1>5. LedgerRemembers'
    <2>1. \A b \in applied : now' <= batch[b].at + Retention => now <= batch[b].at + Retention
      BY <1>1, <1>2
    <2>2. QED
      BY <2>1 DEF CountInv, LedgerRemembers
  <1>6. CopiesAreFresh'
    <2>1. \A b \in inRedis' : now' < batch[b].at + BatchTtl
      BY <1>1
    <2>2. \A w \in Workers : pc[w] = "apply" => now' <= readAt[w] + MaxHold
      BY <1>1
    <2>3. QED
      BY <2>1, <2>2 DEF CountInv, CopiesAreFresh
  <1>7. QED
    BY <1>3, <1>4, <1>5, <1>6 DEF CountInv

\* STAGE_SCRIPT moves a whole counter, so the new batch shares no view with
\* another place.
LEMMA StageStep ==
  ASSUME CountInv, TypeOK', NEW w \in Workers, NEW t \in Topics, NEW b \in Batches,
         Stage(w, t, b)
  PROVE  CountInv'
  <1> USE DEF Stage, dbVars, Goto
  <1>1. /\ batch \in [Batches -> Payload] /\ staged \subseteq Batches /\ inRedis \subseteq staged
        /\ now \in Nat /\ ledger \subseteq staged /\ applied \subseteq staged
        /\ buffer \in [Topics -> SUBSET Views] /\ pc \in [Workers -> PCs]
        /\ \A x \in Workers : pc[x] = "apply" => hand[x] \in staged
    BY DEF CountInv, TypeOK
  <1>2. /\ staged' = staged \union {b} /\ b \notin staged
        /\ batch'[b].views = buffer[t] /\ batch'[b].at = now
        /\ \A a \in staged : batch'[a] = batch[a]
    BY <1>1
  <1>3. buffer'[t] = {} /\ \A s \in Topics : s # t => buffer'[s] = buffer[s]
    BY <1>1
  <1>4. CountedOnce'
    BY DEF CountInv, CountedOnce
  <1>5. OnePlace'
    <2>1. \A s \in Topics : buffer'[s] \subseteq buffer[s]
      BY <1>3
    <2>2. \A a \in staged' : batch'[a].views \subseteq seen' /\ batch'[a].at <= now'
      BY <1>1, <1>2 DEF CountInv, OnePlace
    <2>3. \A s \in Topics, a \in staged' : buffer'[s] \cap batch'[a].views = {}
      BY <1>1, <1>2, <1>3, <2>1 DEF CountInv, OnePlace
    <2>4. \A a, c \in staged' : a # c => batch'[a].views \cap batch'[c].views = {}
      BY <1>1, <1>2 DEF CountInv, OnePlace
    <2>5. QED
      BY <2>1, <2>2, <2>3, <2>4 DEF CountInv, OnePlace
  <1>6. CreditExplained'
    BY <1>1, <1>2 DEF CountInv, CreditExplained
  <1>7. LedgerRemembers'
    BY <1>1, <1>2 DEF CountInv, LedgerRemembers
  <1>8. CopiesAreFresh'
    <2>1. \A a \in inRedis' : now' < batch'[a].at + BatchTtl
      BY <1>1, <1>2, TimeAssumption DEF CountInv, CopiesAreFresh
    <2>2. \A x \in Workers : pc'[x] = "apply" =>
             pc[x] = "apply" /\ hand'[x] = hand[x] /\ hand[x] \in staged
      BY <1>1 DEF CountInv, TypeOK
    <2>3. QED
      BY <1>2, <2>1, <2>2 DEF CountInv, CopiesAreFresh
  <1>9. QED
    BY <1>4, <1>5, <1>6, <1>7, <1>8 DEF CountInv

\* A ledger row is deleted only when no copy of its batch can still be applied.
LEMMA PruneStep ==
  ASSUME CountInv, TypeOK', NEW w \in Workers, Prune(w)
  PROVE  CountInv'
  <1> USE DEF Prune, Goto, redisVars
  <1>1. /\ now \in Nat /\ batch \in [Batches -> Payload] /\ staged \subseteq Batches
        /\ applied \subseteq staged /\ ledger \subseteq staged
        /\ processedAt \in [Batches -> Nat] /\ pc \in [Workers -> PCs]
    BY DEF CountInv, TypeOK
  <1>2. ledger' \subseteq ledger
    OBVIOUS
  <1>3. \A b \in ledger : now <= batch[b].at + Retention => b \in ledger'
    <2>1. SUFFICES ASSUME NEW b \in ledger, now <= batch[b].at + Retention, Prunable(b)
                   PROVE  FALSE
      OBVIOUS
    <2>2. batch[b].at \in Nat /\ batch[b].at <= processedAt[b] /\ processedAt[b] \in Nat
      BY <1>1 DEF Payload, CountInv, LedgerRemembers
    <2>3. QED
      BY <1>1, <2>1, <2>2, TimeAssumption DEF Prunable
  <1>4. CountedOnce' /\ OnePlace' /\ CreditExplained'
    BY DEF CountInv, CountedOnce, OnePlace, CreditExplained
  <1>5. LedgerRemembers'
    BY <1>2, <1>3 DEF CountInv, LedgerRemembers
  <1>6. CopiesAreFresh'
    BY <1>1 DEF CountInv, CopiesAreFresh
  <1>7. QED
    BY <1>4, <1>5, <1>6 DEF CountInv

\* CountInv is inductive.
LEMMA CountStep == CountInv /\ [Next]_vars => CountInv'
  <1> SUFFICES ASSUME CountInv, [Next]_vars PROVE CountInv'
    OBVIOUS
  <1>0. TypeOK /\ TypeOK'
    BY TypeStep DEF CountInv
  <1>1. ASSUME NEW v \in Views, NEW t \in Topics, Record(v, t) PROVE CountInv'
    <2> USE DEF Record, dbVars, workerVars
    <2>1. \A s \in Topics : buffer'[s] = buffer[s] \/ buffer'[s] = buffer[s] \union {v}
      BY <1>0, <1>1 DEF TypeOK
    <2>2. \A s \in Topics : s # t => buffer'[s] = buffer[s]
      BY <1>0, <1>1 DEF TypeOK
    <2>3. OnePlace'
      BY <1>1, <2>1, <2>2 DEF CountInv, OnePlace
    <2>4. CountedOnce' /\ CreditExplained' /\ LedgerRemembers' /\ CopiesAreFresh'
      BY <1>1 DEF CountInv, CountedOnce, CreditExplained, LedgerRemembers, CopiesAreFresh
    <2>5. QED
      BY <1>0, <2>3, <2>4 DEF CountInv
  <1>2. ASSUME NEW v \in Views, RecordFails(v) PROVE CountInv'
    <2> USE DEF RecordFails, dbVars, workerVars, redisVars
    <2>1. OnePlace'
      BY <1>2 DEF CountInv, OnePlace
    <2>2. CountedOnce' /\ CreditExplained' /\ LedgerRemembers' /\ CopiesAreFresh'
      BY <1>2 DEF CountInv, CountedOnce, CreditExplained, LedgerRemembers, CopiesAreFresh
    <2>3. QED
      BY <1>0, <2>1, <2>2 DEF CountInv
  <1>3. ASSUME NEW w \in Workers, StartFlush(w) PROVE CountInv'
    BY <1>0, <1>3, Frame DEF StartFlush, Goto, redisVars, TypeOK
  <1>4. ASSUME NEW w \in Workers, NEW b \in Batches, NextBatch(w, b) PROVE CountInv'
    BY <1>0, <1>4, Frame DEF NextBatch, Goto, redisVars, TypeOK
  <1>5. ASSUME NEW w \in Workers, ScanCounters(w) PROVE CountInv'
    BY <1>0, <1>5, Frame DEF ScanCounters, redisVars
  <1>6. ASSUME NEW w \in Workers, NEW t \in Topics, StageNothing(w, t) PROVE CountInv'
    BY <1>0, <1>6, Frame DEF StageNothing, redisVars
  <1>7. ASSUME NEW w \in Workers, NEW t \in Topics, NEW b \in Batches, Stage(w, t, b)
        PROVE CountInv'
    BY <1>0, <1>7, StageStep
  <1>8. ASSUME NEW w \in Workers, GetBatch(w) PROVE CountInv'
    <2>1. CASE hand[w] \in inRedis
      <3> USE DEF GetBatch, Goto, redisVars, dbVars
      <3>1. /\ now \in Nat /\ MaxHold \in Nat
        BY <1>0, TimeAssumption DEF TypeOK
      <3>2. CopiesAreFresh'
        BY <1>0, <1>8, <2>1, <3>1 DEF CountInv, CopiesAreFresh, TypeOK
      <3>3. CountedOnce' /\ OnePlace' /\ CreditExplained' /\ LedgerRemembers'
        BY <1>8 DEF CountInv, CountedOnce, OnePlace, CreditExplained, LedgerRemembers
      <3>4. QED
        BY <1>0, <3>2, <3>3 DEF CountInv
    <2>2. CASE hand[w] \notin inRedis
      BY <1>0, <1>8, <2>2, Frame DEF GetBatch, NextKey, Goto, redisVars, TypeOK
    <2>3. QED
      BY <2>1, <2>2
  <1>9. ASSUME NEW w \in Workers, Apply(w) PROVE CountInv'
    BY <1>0, <1>9, FlushStep DEF Apply, Goto, redisVars, TypeOK
  <1>10. ASSUME NEW w \in Workers, ApplyFails(w) PROVE CountInv'
    BY <1>0, <1>10, FlushStep DEF ApplyFails, NextKey, Goto, redisVars, TypeOK
  <1>11. ASSUME NEW w \in Workers, DeleteBatch(w) PROVE CountInv'
    BY <1>0, <1>11, Frame DEF DeleteBatch, NextKey, Goto, TypeOK
  <1>12. ASSUME NEW w \in Workers, Prune(w) PROVE CountInv'
    BY <1>0, <1>12, PruneStep
  <1>13. ASSUME NEW w \in Workers, Restart(w) PROVE CountInv'
    BY <1>0, <1>13, Frame DEF Restart, Goto, redisVars, TypeOK
  <1>14. ASSUME NEW t \in Topics, DropTopic(t) PROVE CountInv'
    <2> USE DEF DropTopic, redisVars, workerVars
    <2>1. LedgerRemembers'
      BY <1>0, <1>14 DEF CountInv, LedgerRemembers
    <2>2. CountedOnce' /\ OnePlace' /\ CreditExplained' /\ CopiesAreFresh'
      BY <1>14 DEF CountInv, CountedOnce, OnePlace, CreditExplained, CopiesAreFresh
    <2>3. QED
      BY <1>0, <2>1, <2>2 DEF CountInv
  <1>15. CASE Tick
    BY <1>0, <1>15, TickStep
  <1>16. CASE UNCHANGED vars
    BY <1>0, <1>16, Frame DEF vars, redisVars, workerVars
  <1>17. QED
    BY <1>1, <1>2, <1>3, <1>4, <1>5, <1>6, <1>7, <1>8, <1>9, <1>10, <1>11, <1>12,
       <1>13, <1>14, <1>15, <1>16 DEF Next, Continue

\* The inductive invariant of the protocol.
THEOREM CountInvariant == Spec => []CountInv
  <1>1. Init => CountInv
    <2>1. Init => TypeOK
      BY DontCares DEF Init, TypeOK, PCs
    <2>2. QED
      BY <2>1 DEF Init, CountInv, CountedOnce, OnePlace, CreditExplained,
                  LedgerRemembers, CopiesAreFresh
  <1>2. QED
    BY <1>1, CountStep, PTL DEF Spec

\* No view is added twice to its topic's view_count.
THEOREM NeverCountedTwice == Spec => []CountedOnce
  <1>1. CountInv => CountedOnce
    BY DEF CountInv
  <1>2. QED
    BY <1>1, CountInvariant, PTL

-----------------------------------------------------------------------------
(* The refinement.                                                         *)


\* A step of the abstract counter, or none.
Allowed == Abstract!Next \/ UNCHANGED <<seen, Waiting, credited>>

\* Views that stop being on their way without being credited are given up.
LEMMA GivingUp ==
  ASSUME UNCHANGED <<seen, credited>>,
         \A v \in Views : OnItsWay(v)' => OnItsWay(v)
  PROVE  Allowed
  <1>1. Waiting' \subseteq Waiting
    BY DEF Waiting
  <1>2. CASE Waiting' = Waiting
    BY <1>2 DEF Allowed
  <1>3. CASE Waiting' # Waiting
    <2> DEFINE S == Waiting \ Waiting'
    <2>1. S \in SUBSET Waiting /\ S # {} /\ Waiting' = Waiting \ S
      BY <1>1, <1>3
    <2>2. Abstract!Settle(S)
      BY <2>1 DEF Abstract!Settle
    <2>3. QED
      BY <2>1, <2>2 DEF Allowed, Abstract!Next
  <1>4. QED
    BY <1>2, <1>3

\* Nothing comes to be on its way when counters and payloads stay as they are, keys
\* disappear and no worker comes to its transaction.
LEMMA Fewer ==
  ASSUME UNCHANGED <<buffer, batch>>, inRedis' \subseteq inRedis,
         \A w \in Workers : pc'[w] = "apply" => pc[w] = "apply" /\ hand'[w] = hand[w],
         NEW v \in Views, OnItsWay(v)'
  PROVE  OnItsWay(v)
  BY DEF OnItsWay

\* The transaction credits the views of its batch, all of them waiting, or none.
LEMMA Crediting ==
  ASSUME CountInv, NEW w \in Workers, pc[w] = "apply",
         FlushViews(hand[w]) \/ UNCHANGED dbVars,
         UNCHANGED <<seen, buffer, batch, inRedis>>,
         \A x \in Workers \ {w} : pc'[x] = pc[x] /\ hand'[x] = hand[x],
         pc'[w] # "apply"
  PROVE  Allowed
  <1> DEFINE b == hand[w]
             S == batch[b].views
  <1>1. \A v \in Views : OnItsWay(v)' => OnItsWay(v)
    BY Fewer
  <1>2. CASE UNCHANGED dbVars
    BY <1>1, <1>2, GivingUp DEF dbVars
  <1>3. CASE FlushViews(b) /\ ~(UNCHANGED dbVars)
    <2>1. Credit(b) /\ batch[b].topic \in topics /\ b \notin ledger
      BY <1>3 DEF FlushViews
    <2>2. /\ credited' = [v \in Views |-> credited[v] + IF v \in S THEN 1 ELSE 0]
          /\ credited \in [Views -> Nat]
          /\ S \subseteq Views
      BY <2>1 DEF Credit, CountInv, TypeOK, Payload
    <2>3. \A v \in S : credited[v] = 0
      BY <2>1, Uncredited
    <2>4. S \subseteq Waiting
      BY <2>2, <2>3 DEF Waiting, OnItsWay
    <2>5. \A v \in Views \ S : OnItsWay(v) => OnItsWay(v)'
      BY DEF OnItsWay
    <2>6. Waiting' = Waiting \ S
      <3>1. ASSUME NEW v \in Views PROVE v \in Waiting' <=> v \in Waiting /\ v \notin S
        <4>1. CASE v \in S
          BY <2>2, <4>1 DEF Waiting
        <4>2. CASE v \notin S
          BY <1>1, <2>2, <2>5, <4>2 DEF Waiting
        <4>3. QED
          BY <4>1, <4>2
      <3>2. QED
        BY <3>1 DEF Waiting
    <2>7. credited' = [v \in Views |-> IF v \in S THEN credited[v] + 1 ELSE credited[v]]
      BY <2>2
    <2>8. CASE S = {}
      BY <2>2, <2>6, <2>7, <2>8 DEF Allowed
    <2>9. CASE S # {}
      <3>1. Abstract!Settle(S)
        BY <2>6, <2>7, <2>9 DEF Abstract!Settle
      <3>2. QED
        BY <2>4, <3>1 DEF Allowed, Abstract!Next
    <2>10. QED
      BY <2>8, <2>9
  <1>4. QED
    BY <1>2, <1>3

LEMMA AllowedStep == CountInv /\ [Next]_vars => Allowed
  <1> SUFFICES ASSUME CountInv, [Next]_vars PROVE Allowed
    OBVIOUS
  <1> USE DEF dbVars, redisVars, workerVars
  <1>0. TypeOK
    BY DEF CountInv
  <1>1. ASSUME NEW v \in Views, NEW t \in Topics, Record(v, t) PROVE Allowed
    <2>1. /\ v \notin seen /\ seen' = seen \union {v} /\ credited' = credited
          /\ UNCHANGED <<batch, inRedis, pc, hand>>
          /\ \A s \in Topics : buffer'[s] = IF s = t THEN buffer[s] \union {v} ELSE buffer[s]
      BY <1>0, <1>1 DEF Record, TypeOK
    <2>2. \A x \in Views : OnItsWay(x)' <=> OnItsWay(x) \/ x = v
      BY <2>1 DEF OnItsWay
    <2>3. Waiting' \in {Waiting, Waiting \union {v}}
      BY <2>1, <2>2 DEF Waiting
    <2>4. QED
      BY <2>1, <2>3 DEF Allowed, Abstract!Next, Abstract!Arrive
  <1>2. ASSUME NEW v \in Views, RecordFails(v) PROVE Allowed
    <2>1. Waiting' = Waiting
      BY <1>2 DEF RecordFails, Waiting, OnItsWay
    <2>2. QED
      BY <1>2, <2>1 DEF RecordFails, Allowed, Abstract!Next, Abstract!Arrive
  <1>3. ASSUME UNCHANGED <<seen, credited, buffer, batch>>, inRedis' \subseteq inRedis,
               \A w \in Workers : pc'[w] = "apply" => pc[w] = "apply" /\ hand'[w] = hand[w]
        PROVE  Allowed
    BY <1>3, Fewer, GivingUp
  <1>4. ASSUME NEW w \in Workers, StartFlush(w) \/ ScanCounters(w) \/ Prune(w) PROVE Allowed
    BY <1>0, <1>3, <1>4 DEF StartFlush, ScanCounters, Prune, Goto, TypeOK
  <1>5. ASSUME NEW w \in Workers, NEW b \in Batches, NextBatch(w, b) PROVE Allowed
    BY <1>0, <1>3, <1>5 DEF NextBatch, Goto, TypeOK
  <1>6. ASSUME NEW w \in Workers, NEW t \in Topics, StageNothing(w, t) PROVE Allowed
    BY <1>3, <1>6 DEF StageNothing
  <1>7. ASSUME NEW w \in Workers, NEW t \in Topics, NEW b \in Batches, Stage(w, t, b) PROVE Allowed
    <2>1. /\ UNCHANGED <<seen, credited>>
          /\ batch'[b].views = buffer[t] /\ b \in inRedis' /\ inRedis' = inRedis \union {b}
          /\ buffer'[t] = {} /\ \A s \in Topics \ {t} : buffer'[s] = buffer[s]
          /\ \A a \in staged : batch'[a] = batch[a]
          /\ \A x \in Workers : pc'[x] = "apply" => pc[x] = "apply" /\ hand'[x] = hand[x]
      BY <1>0, <1>7 DEF Stage, Goto, TypeOK
    <2>2. inRedis \subseteq staged /\ \A x \in Workers : pc[x] = "apply" => hand[x] \in staged
      BY <1>0 DEF TypeOK
    <2>3. \A v \in Views : OnItsWay(v)' => OnItsWay(v)
      BY <2>1, <2>2 DEF OnItsWay
    <2>4. QED
      BY <2>1, <2>3, GivingUp
  <1>8. ASSUME NEW w \in Workers, GetBatch(w) PROVE Allowed
    <2>1. CASE hand[w] \in inRedis
      <3>1. \A v \in Views : OnItsWay(v)' => OnItsWay(v)
        BY <1>0, <1>8, <2>1 DEF GetBatch, Goto, OnItsWay, TypeOK
      <3>2. QED
        BY <1>8, <3>1, GivingUp DEF GetBatch
    <2>2. CASE hand[w] \notin inRedis
      BY <1>0, <1>3, <1>8, <2>2 DEF GetBatch, NextKey, Goto, TypeOK
    <2>3. QED
      BY <2>1, <2>2
  <1>9. ASSUME NEW w \in Workers, Apply(w) \/ ApplyFails(w) PROVE Allowed
    <2>1. /\ pc[w] = "apply" /\ pc'[w] # "apply"
          /\ FlushViews(hand[w]) \/ UNCHANGED dbVars
          /\ UNCHANGED <<seen, buffer, batch, inRedis>>
          /\ \A x \in Workers \ {w} : pc'[x] = pc[x] /\ hand'[x] = hand[x]
      BY <1>0, <1>9 DEF Apply, ApplyFails, NextKey, Goto, TypeOK
    <2>2. QED
      BY <2>1, Crediting
  <1>10. ASSUME NEW w \in Workers, DeleteBatch(w) \/ Restart(w) PROVE Allowed
    BY <1>0, <1>3, <1>10 DEF DeleteBatch, Restart, NextKey, Goto, TypeOK
  <1>11. ASSUME NEW t \in Topics, DropTopic(t) PROVE Allowed
    BY <1>3, <1>11 DEF DropTopic
  <1>12. CASE Tick \/ UNCHANGED vars
    BY <1>3, <1>12 DEF Tick, vars
  <1>13. QED
    BY <1>1, <1>2, <1>4, <1>5, <1>6, <1>7, <1>8, <1>9, <1>10, <1>11, <1>12 DEF Next, Continue

\* The flush protocol of any number of workers is an implementation of the counter
\* TopicViews describes: each view is credited at most once, or given up.
THEOREM Implementation == Spec => ImplementsTopicViews
  <1>1. Init => Abstract!Init
    <2>1. Init => Waiting = {}
      BY DEF Init, Waiting, OnItsWay
    <2>2. QED
      BY <2>1 DEF Init, Abstract!Init
  <1>2. CountInv /\ [Next]_vars => [Abstract!Next]_(Abstract!viewVars)
    BY AllowedStep DEF Allowed, Abstract!viewVars
  <1>3. QED
    BY <1>1, <1>2, CountInvariant, PTL DEF Spec, ImplementsTopicViews, Abstract!Spec

-----------------------------------------------------------------------------
(* Why a view is given up.                                                 *)

\* There is nothing left to do for a batch.
Settled(b) == b \in applied \/ batch[b].topic \notin topics

\* A batch key is deleted for a settled batch only, so what is gone was settled or
\* has expired; and what was applied was credited.
GoneInv ==
  /\ ledger \subseteq applied
  /\ \A b \in applied : \A v \in batch[b].views : credited[v] # 0
  /\ \A w \in Workers : pc[w] = "del" => Settled(hand[w])
  /\ \A b \in staged \ inRedis : Settled(b) \/ now >= batch[b].at + BatchTtl

\* The transaction settles its batch.
LEMMA FlushSettles ==
  ASSUME TypeOK, GoneInv, NEW b \in staged, FlushViews(b) \/ UNCHANGED dbVars, UNCHANGED batch
  PROVE  /\ ledger' \subseteq applied'
         /\ \A a \in applied' : \A v \in batch'[a].views : credited'[v] # 0
         /\ \A a \in staged : Settled(a) => Settled(a)'
         /\ FlushViews(b) => Settled(b)'
  <1> USE DEF GoneInv
  <1>0. \A a \in staged : batch[a].views \subseteq Views /\ a \in Batches
    BY DEF TypeOK, Payload
  <1>1. CASE UNCHANGED dbVars
    BY <1>1 DEF dbVars, FlushViews, Credit, Settled
  <1>2. CASE Credit(b)
    <2>1. \A v \in Views : credited[v] \in Nat /\ credited'[v] \in Nat
                           /\ (v \in batch[b].views \/ credited[v] # 0 => credited'[v] # 0)
      BY <1>2 DEF Credit, TypeOK
    <2>2. QED
      BY <1>0, <1>2, <2>1 DEF Credit, Settled, TypeOK
  <1>3. QED
    BY <1>1, <1>2 DEF FlushViews, Settled

\* A step without a transaction that stages nothing.
LEMMA GoneFrame ==
  ASSUME TypeOK, GoneInv, UNCHANGED <<now, staged, batch, credited, applied>>,
         ledger' \subseteq ledger, topics' \subseteq topics,
         \A b \in staged : b \in inRedis /\ b \notin inRedis' => Settled(b),
         \A w \in Workers : pc'[w] = "del" => pc[w] = "del" /\ hand'[w] = hand[w]
  PROVE  GoneInv'
  BY DEF GoneInv, Settled

LEMMA GoneStep == TypeOK /\ GoneInv /\ [Next]_vars => GoneInv'
  <1> SUFFICES ASSUME TypeOK, GoneInv, [Next]_vars PROVE GoneInv'
    OBVIOUS
  <1> USE DEF redisVars, workerVars
  <1>1. ASSUME NEW v \in Views, NEW t \in Topics, Record(v, t) PROVE GoneInv'
    BY <1>1, GoneFrame DEF Record, dbVars
  <1>2. ASSUME NEW v \in Views, RecordFails(v) PROVE GoneInv'
    BY <1>2, GoneFrame DEF RecordFails, dbVars
  <1>3. ASSUME NEW w \in Workers, StartFlush(w) \/ ScanCounters(w) \/ Prune(w) \/ GetBatch(w)
        PROVE  GoneInv'
    BY <1>3, GoneFrame DEF StartFlush, ScanCounters, Prune, GetBatch, NextKey, Goto, TypeOK, dbVars
  <1>4. ASSUME NEW w \in Workers, NEW b \in Batches, NextBatch(w, b) PROVE GoneInv'
    BY <1>4, GoneFrame DEF NextBatch, Goto, TypeOK, dbVars
  <1>5. ASSUME NEW w \in Workers, NEW t \in Topics, StageNothing(w, t) PROVE GoneInv'
    BY <1>5, GoneFrame DEF StageNothing, dbVars
  <1>6. ASSUME NEW w \in Workers, NEW t \in Topics, NEW b \in Batches, Stage(w, t, b)
        PROVE  GoneInv'
    <2>1. /\ UNCHANGED <<now, dbVars>> /\ staged' = staged \union {b} /\ inRedis' = inRedis \union {b}
          /\ b \notin staged /\ \A a \in staged : batch'[a] = batch[a]
          /\ \A x \in Workers : pc'[x] = "del" => pc[x] = "del" /\ hand'[x] = hand[x]
      BY <1>6 DEF Stage, Goto, TypeOK
    <2>2. \A x \in Workers : pc[x] = "del" => hand[x] \in staged
      BY DEF TypeOK
    <2>3. \A a \in staged : Settled(a) => Settled(a)'
      BY <2>1 DEF Settled, dbVars
    <2>4. /\ ledger' \subseteq applied'
          /\ \A a \in applied' : \A v \in batch'[a].views : credited'[v] # 0
      BY <2>1 DEF GoneInv, TypeOK, dbVars
    <2>5. \A x \in Workers : pc'[x] = "del" => Settled(hand[x])' /\ hand'[x] = hand[x]
      BY <2>1, <2>2, <2>3 DEF GoneInv
    <2>6. \A a \in staged' \ inRedis' : Settled(a)' \/ now' >= batch'[a].at + BatchTtl
      BY <2>1, <2>3 DEF GoneInv
    <2>7. QED
      BY <2>4, <2>5, <2>6 DEF GoneInv, Settled
  <1>7. ASSUME NEW w \in Workers, Apply(w) \/ ApplyFails(w) PROVE GoneInv'
    <2>0. PICK b \in staged : b = hand[w]
      BY <1>7 DEF Apply, ApplyFails, TypeOK
    <2>1. /\ pc[w] = "apply"
          /\ FlushViews(b) \/ UNCHANGED dbVars
          /\ UNCHANGED <<now, staged, batch, inRedis>>
          /\ \A x \in Workers \ {w} : pc'[x] = pc[x] /\ hand'[x] = hand[x]
          /\ pc'[w] = "del" => FlushViews(b) /\ hand'[w] = hand[w]
      BY <1>7, <2>0 DEF Apply, ApplyFails, NextKey, Goto, TypeOK
    <2>2. /\ ledger' \subseteq applied'
          /\ \A a \in applied' : \A v \in batch'[a].views : credited'[v] # 0
          /\ \A a \in staged : Settled(a) => Settled(a)'
          /\ FlushViews(b) => Settled(b)'
      <3>1. FlushViews(b) \/ UNCHANGED dbVars
        BY <2>1
      <3>2. UNCHANGED batch
        BY <2>1
      <3>3. QED
        BY ONLY TypeOK, GoneInv, <2>0, <3>1, <3>2, FlushSettles
    <2>3. \A x \in Workers : pc[x] = "del" => hand[x] \in staged
      BY DEF TypeOK
    <2>4. \A x \in Workers : pc'[x] = "del" => Settled(hand[x])' /\ hand'[x] = hand[x]
      BY <2>0, <2>1, <2>2, <2>3 DEF GoneInv
    <2>5. \A a \in staged' \ inRedis' : Settled(a)' \/ now' >= batch'[a].at + BatchTtl
      BY <2>1, <2>2 DEF GoneInv
    <2>6. QED
      BY <2>2, <2>4, <2>5 DEF GoneInv, Settled
  <1>8. ASSUME NEW w \in Workers, DeleteBatch(w) PROVE GoneInv'
    <2>1. Settled(hand[w])
      BY <1>8 DEF DeleteBatch, GoneInv
    <2>2. QED
      BY <1>8, <2>1, GoneFrame DEF DeleteBatch, NextKey, Goto, TypeOK, dbVars
  <1>9. ASSUME NEW w \in Workers, Restart(w) PROVE GoneInv'
    BY <1>9, GoneFrame DEF Restart, Goto, TypeOK, dbVars
  <1>10. ASSUME NEW t \in Topics, DropTopic(t) PROVE GoneInv'
    BY <1>10, GoneFrame DEF DropTopic
  <1>11. CASE Tick
    <2>1. /\ now' = now + 1 /\ UNCHANGED <<staged, batch, dbVars, pc, hand>>
          /\ \A b \in inRedis \ inRedis' : now' >= batch[b].at + BatchTtl
          /\ inRedis' \subseteq inRedis /\ now \in Nat
          /\ \A b \in staged : batch[b].at \in Nat /\ BatchTtl \in Nat
      BY <1>11, TimeAssumption DEF Tick, TypeOK, Payload
    <2>2. \A b \in staged \ inRedis' : Settled(b) \/ now' >= batch[b].at + BatchTtl
      BY <2>1 DEF GoneInv
    <2>3. QED
      BY <2>1, <2>2 DEF GoneInv, Settled, dbVars
  <1>12. CASE UNCHANGED vars
    BY <1>12, GoneFrame DEF vars, dbVars
  <1>13. QED
    BY <1>1, <1>2, <1>3, <1>4, <1>5, <1>6, <1>7, <1>8, <1>9, <1>10, <1>11, <1>12
    DEF Next, Continue

\* A view that stops being on its way was in a batch whose key is gone.
LEMMA WayOut ==
  ASSUME TypeOK, [Next]_vars, NEW v \in Views, OnItsWay(v), ~(OnItsWay(v)')
  PROVE  /\ topics' = topics
         /\ \E b \in staged : /\ v \in batch[b].views /\ batch'[b] = batch[b]
                              /\ b \in staged' \ inRedis'
  <1> USE DEF dbVars, redisVars, workerVars
  <1>1. topics' = topics
    <2>1. ASSUME NEW t \in Topics, DropTopic(t) PROVE FALSE
      BY <2>1 DEF DropTopic, OnItsWay
    <2>2. QED
      BY <2>1 DEF Next, Continue, vars, Record, RecordFails, StartFlush, NextBatch, ScanCounters,
         StageNothing, Stage, GetBatch, Apply, ApplyFails, FlushViews, Credit, DeleteBatch, Prune,
         Restart, Tick
  <1>2. /\ staged \subseteq staged' /\ \A b \in staged : batch'[b] = batch[b]
        /\ \A t \in Topics : v \in buffer[t] /\ v \notin buffer'[t] =>
              \E b \in inRedis' : v \in batch'[b].views
    <2>1. ASSUME NEW w \in Workers, NEW t \in Topics, NEW b \in Batches, Stage(w, t, b)
          PROVE  /\ staged \subseteq staged' /\ \A a \in staged : batch'[a] = batch[a]
                 /\ \A s \in Topics : v \in buffer[s] /\ v \notin buffer'[s] =>
                       \E a \in inRedis' : v \in batch'[a].views
      BY <2>1 DEF Stage, TypeOK
    <2>2. ASSUME NEW x \in Views, NEW t \in Topics, Record(x, t)
          PROVE  UNCHANGED <<staged, batch>> /\ \A s \in Topics : buffer[s] \subseteq buffer'[s]
      BY <2>2 DEF Record, TypeOK
    <2>3. CASE UNCHANGED <<staged, batch, buffer>>
      BY <2>3
    <2>4. QED
      BY <2>1, <2>2, <2>3 DEF Next, Continue, vars, RecordFails, StartFlush, NextBatch,
         ScanCounters, StageNothing, GetBatch, Apply, ApplyFails, DeleteBatch, Prune, Restart,
         DropTopic, Tick
  <1>3. \E b \in staged : v \in batch[b].views /\ b \notin inRedis'
    <2>1. CASE \E t \in Topics : v \in buffer[t]
      BY <1>2, <2>1 DEF OnItsWay
    <2>2. CASE \E b \in staged : v \in batch[b].views
      BY <1>2, <2>2 DEF OnItsWay
    <2>3. QED
      BY <2>1, <2>2 DEF OnItsWay, TypeOK
  <1>4. QED
    BY <1>1, <1>2, <1>3

\* A view is given up only with its topic or after the whole retry window; no crash,
\* failed transaction or race of two workers loses one.
THEOREM OnlyExpiryLoses == Spec => LostOnlyByExpiry
  <1>1. Init => GoneInv
    BY DEF Init, GoneInv
  <1>2. TypeOK /\ GoneInv /\ GoneInv' /\ [Next]_vars =>
          [\A v \in Views :
              v \in Waiting /\ v \notin Waiting' /\ credited'[v] = 0
                 => \/ \E b \in staged : v \in batch[b].views /\ batch[b].topic \notin topics
                    \/ \E b \in staged : v \in batch[b].views /\ now' >= batch[b].at + BatchTtl]_vars
    <2> SUFFICES ASSUME TypeOK, GoneInv, GoneInv', [Next]_vars, NEW v \in Views,
                        v \in Waiting, v \notin Waiting', credited'[v] = 0
                 PROVE  \/ \E b \in staged : v \in batch[b].views /\ batch[b].topic \notin topics
                        \/ \E b \in staged : v \in batch[b].views /\ now' >= batch[b].at + BatchTtl
      OBVIOUS
    <2>1. OnItsWay(v) /\ ~(OnItsWay(v)')
      BY DEF Waiting
    <2>2. PICK b \in staged : /\ v \in batch[b].views /\ batch'[b] = batch[b]
                              /\ b \in staged' \ inRedis' /\ topics' = topics
      BY <2>1, WayOut
    <2>3. Settled(b)' \/ now' >= batch'[b].at + BatchTtl
      BY <2>2 DEF GoneInv
    <2>4. b \notin applied'
      BY <2>2 DEF GoneInv
    <2>5. QED
      BY <2>2, <2>3, <2>4 DEF Settled
  <1>3. QED
    BY <1>1, <1>2, GoneStep, TypeCorrect, PTL DEF Spec, LostOnlyByExpiry
=============================================================================
