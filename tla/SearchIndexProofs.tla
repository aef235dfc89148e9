------------------------- MODULE SearchIndexProofs -------------------------
(***************************************************************************)
(* Why the index agrees with PostgreSQL when everything has been           *)
(* processed, for any number of topics, posts, workers, processes and      *)
(* events.  A topic whose document is stale is always somebody's duty: of  *)
(* a sync that has read it, of an event that will be worked on again, or   *)
(* of reindex().                                                           *)
(***************************************************************************)
EXTENDS SearchIndex, TLAPS

\* What is due, queued or worked on is an event, and a worker's syncs are about its event.
WorkInv ==
  /\ due \subseteq 1 .. events
  /\ \A e \in Events : job[e] # "none" \/ status[e] # "none" => e <= events
  /\ \A s \in syncs : s.owner \in Workers =>
       /\ working[s.owner] # 0 /\ s.owner \notin preparing
       /\ \A e \in Events : working[s.owner] = e => s.doc \in Targets(e)
  /\ \A w \in preparing : working[w] # 0

IndexInv == TypeOK /\ WorkInv

LEMMA TargetsKept == UNCHANGED about => \A e \in Events : Targets(e)' = Targets(e)
  BY DEF Targets

LEMMA TargetsAreDocs == TypeOK => \A e \in Events : Targets(e) \subseteq Docs
  BY SearchAssumption DEF TypeOK, Targets, Docs

-----------------------------------------------------------------------------
(* Types.                                                                  *)

\* A transaction that writes an event keeps the outbox in order.
LEMMA EmitKeeps ==
  ASSUME IndexInv, NEW x \in Docs \union {"forum"}, Emit(x), ChangeFrame,
         rev' \in [Docs -> Nat \ {0}], gone' \subseteq Docs, open' \in BOOLEAN
  PROVE  IndexInv'
  <1> USE DEF IndexInv, workVars, dispatchVars
  <1>1. /\ events \in 0 .. MaxEvents /\ events + 1 \in Events /\ events' = events + 1
        /\ events' \in 0 .. MaxEvents
    BY SearchAssumption DEF Emit, TypeOK, Events
  <1>2. TypeOK'
    BY <1>1 DEF Emit, ChangeFrame, TypeOK
  <1>3. \A e \in 1 .. events : about'[e] = about[e]
    BY <1>1 DEF Emit, TypeOK, Events
  <1>4. \A e \in 1 .. events : Targets(e)' = Targets(e)
    BY <1>3 DEF Targets
  <1>5. WorkInv'
    <2>1. /\ due' \subseteq 1 .. events' /\ UNCHANGED <<job, working, preparing, syncs>>
          /\ \A e \in Events : status'[e] # "none" => e <= events'
      BY <1>1 DEF Emit, ChangeFrame, WorkInv, TypeOK, Events
    <2>2. \A w \in Workers : working[w] # 0 => working[w] \in 1 .. events
      BY DEF TypeOK
    <2>3. QED
      BY <1>1, <1>4, <2>1, <2>2 DEF WorkInv, TypeOK
  <1>6. QED
    BY <1>2, <1>5

\* A job that fails is given back, and the worker is idle.
LEMMA EventFailsKeeps ==
  ASSUME IndexInv, NEW w \in Workers, working[w] # 0, EventFails(w),
         setup' \in [Processes -> {"none", "done", "failed"}], preparing' \subseteq preparing \ {w},
         \A r \in syncs' : r \in Sync /\ ((r \in syncs /\ r.owner # w) \/ r.owner = Nobody)
  PROVE  IndexInv'
  <1> USE DEF IndexInv, contentVars, dispatchVars, rebuildVars, historyVars
  <1>0. /\ 1 .. events \subseteq Events /\ 0 \notin Events
        /\ working[w] \in 1 .. events /\ working[w] \in Events
    BY SearchAssumption DEF TypeOK, Events
  <1>1. /\ status' \in [Events -> {"none", "pending", "processing", "failed", "completed"}]
        /\ \A e \in Events \ {working[w]} : status'[e] = status[e]
        /\ due' \subseteq due
        /\ working' = [working EXCEPT ![w] = 0]
        /\ \E next \in {"waiting", "none"} : job' = [job EXCEPT ![working[w]] = next]
        /\ UNCHANGED <<open, rev, gone, events, about, todo, current, index, rebuilding, rebuild>>
    <2>1. /\ status' = [status EXCEPT ![working[w]] = "failed"] /\ due' = due \ {working[w]}
          /\ working' = [working EXCEPT ![w] = 0]
          /\ \E next \in {"waiting", "none"} : job' = [job EXCEPT ![working[w]] = next]
          /\ UNCHANGED <<open, rev, gone, events, about, todo, current, index, rebuilding, rebuild>>
      BY DEF EventFails
    <2>2. /\ status' \in [Events -> {"none", "pending", "processing", "failed", "completed"}]
          /\ \A e \in Events \ {working[w]} : status'[e] = status[e]
      <3>1. status \in [Events -> {"none", "pending", "processing", "failed", "completed"}]
        BY DEF TypeOK
      <3>2. QED
        BY <2>1, <3>1
    <2>3. QED
      BY <2>1, <2>2
  <1>2. /\ job' \in [Events -> {"none", "waiting", "active"}]
        /\ working' \in [Workers -> 0 .. events]
        /\ \A e \in Events : (job'[e] = "active") <=> \E v \in Workers : working'[v] = e
        /\ \A v, x \in Workers : v # x /\ working'[v] # 0 => working'[v] # working'[x]
    BY <1>0, <1>1 DEF TypeOK
  <1>3. TypeOK'
    BY <1>1, <1>2 DEF TypeOK
  <1>4. WorkInv'
    BY <1>0, <1>1, TargetsKept, SearchAssumption DEF TypeOK, WorkInv
  <1>5. QED
    BY <1>3, <1>4

LEMMA IndexStep == IndexInv /\ [Next]_vars => IndexInv'
  <1> SUFFICES ASSUME IndexInv, [Next]_vars PROVE IndexInv'
    OBVIOUS
  <1> USE DEF IndexInv, contentVars, outboxVars, dispatchVars, workVars, rebuildVars, historyVars
  <1>a. \A ds \in SUBSET Docs : Revise(ds) => rev' \in [Docs -> Nat \ {0}]
    BY DEF Revise, TypeOK
  <1>b. /\ Topics \subseteq Docs /\ Posts \subseteq Docs
        /\ \A p \in Posts : TopicOf[p] \in Topics
    BY SearchAssumption DEF Docs
  <1>0. 1 .. events \subseteq Events /\ events \in 0 .. MaxEvents /\ 0 \notin Events
    BY SearchAssumption DEF TypeOK, Events
  <1>1. ASSUME NEW p \in Posts, WritePost(p) \/ DeletePost(p) PROVE IndexInv'
    <2>1. p \in Docs /\ TopicOf[p] \in Docs /\ {p, TopicOf[p]} \in SUBSET Docs /\ {TopicOf[p]} \in SUBSET Docs
      BY <1>a, <1>b
    <2>2. Emit(p) /\ ChangeFrame /\ gone' \subseteq Docs /\ open' \in BOOLEAN
      BY <1>1, <2>1 DEF WritePost, DeletePost, TypeOK
    <2>3. rev' \in [Docs -> Nat \ {0}]
      BY <1>a, <1>b, <1>1, <2>1 DEF WritePost, DeletePost
    <2>4. QED
      BY <2>1, <2>2, <2>3, EmitKeeps
  <1>2. ASSUME NEW t \in Topics, UpdateTopic(t) \/ DeleteTopic(t) PROVE IndexInv'
    <2>1. t \in Docs /\ ({t} \union PostsOf(t)) \in SUBSET Docs
      BY <1>a, <1>b DEF PostsOf
    <2>2. Emit(t) /\ ChangeFrame /\ gone' \subseteq Docs /\ open' \in BOOLEAN
      BY <1>2, <2>1 DEF UpdateTopic, DeleteTopic, TypeOK
    <2>3. rev' \in [Docs -> Nat \ {0}]
      BY <1>a, <1>b, <1>2, <2>1 DEF UpdateTopic, DeleteTopic, TypeOK
    <2>4. QED
      BY <2>1, <2>2, <2>3, EmitKeeps
  <1>3. ASSUME UpdateForum PROVE IndexInv'
    <2>1. Emit("forum") /\ ChangeFrame /\ gone' \subseteq Docs /\ open' \in BOOLEAN /\ rev' \in [Docs -> Nat \ {0}]
      BY <1>3 DEF UpdateForum, TypeOK
    <2>2. QED
      BY <2>1, EmitKeeps
  <1>4. ASSUME NEW d \in Docs, Moderate(d) PROVE IndexInv'
    <2>1. Topic(d) \in Docs
      BY <1>a, <1>b DEF Topic
    <2>2. rev' \in [Docs -> Nat \ {0}]
      BY <1>a, <1>b, <1>4, <2>1 DEF Moderate
    <2>3. QED
      BY TargetsKept, <1>4, <2>2 DEF Moderate, ChangeFrame, TypeOK, WorkInv
  <1>5. ASSUME Dispatch PROVE IndexInv'
    <2>1. ASSUME Select PROVE IndexInv'
      <3>1. todo' \subseteq 1 .. events
        BY <2>1 DEF Select, WorkInv
      <3>2. UNCHANGED <<open, rev, gone, events, about, status, due, job, current, setup, working, preparing, syncs,
                        index, rebuilding, rebuild>>
        BY <2>1 DEF Select
      <3>3. TypeOK'
        BY <3>1, <3>2 DEF TypeOK
      <3>4. WorkInv'
        BY <3>2, TargetsKept DEF WorkInv
      <3>5. QED
        BY <3>3, <3>4
    <2>2. ASSUME AddJob PROVE IndexInv'
      <3>1. PICK e \in todo : /\ current' = e /\ todo' = todo \ {e}
                             /\ job' = IF Known(e) THEN job ELSE [job EXCEPT ![e] = "waiting"]
        BY <2>2 DEF AddJob
      <3>2. e \in 1 .. events /\ e \in Events
        BY <1>0 DEF TypeOK
      <3>3. /\ job' \in [Events -> {"none", "waiting", "active"}]
            /\ \A f \in Events : job'[f] = job[f] \/ (f = e /\ job[f] = "none" /\ job'[f] = "waiting")
        BY <3>1, <3>2 DEF Known, TypeOK
      <3>4. TypeOK'
        BY <2>2, <3>1, <3>2, <3>3 DEF AddJob, TypeOK
      <3>5. WorkInv'
        BY <2>2, <3>2, <3>3, TargetsKept DEF AddJob, WorkInv
      <3>6. QED
        BY <3>4, <3>5
    <2>3. ASSUME MarkProcessing PROVE IndexInv'
      <3>1. current \in 1 .. events /\ current \in Events
        BY <1>0, <2>3 DEF MarkProcessing, TypeOK
      <3>2. /\ status' \in [Events -> {"none", "pending", "processing", "failed", "completed"}]
            /\ \A e \in Events \ {current} : status'[e] = status[e]
        BY <2>3 DEF MarkProcessing, TypeOK
      <3>3. due' \subseteq due /\ current' \in 0 .. events
        BY <1>0, <2>3 DEF MarkProcessing, TypeOK
      <3>4. UNCHANGED <<open, rev, gone, events, about, job, todo, setup, working, preparing, syncs, index,
                        rebuilding, rebuild>>
        BY <2>3 DEF MarkProcessing
      <3>5. TypeOK'
        BY <3>2, <3>3, <3>4 DEF TypeOK
      <3>6. WorkInv'
        BY <3>1, <3>2, <3>3, <3>4, TargetsKept DEF WorkInv
      <3>7. QED
        BY <3>5, <3>6
    <2>4. QED
      BY <1>5, <2>1, <2>2, <2>3 DEF Dispatch
  <1>6. ASSUME DispatchFails PROVE IndexInv'
    BY <1>6, <1>0, TargetsKept DEF DispatchFails, TypeOK, WorkInv
  <1>7. ASSUME NEW e \in Events, BecomeDue(e) PROVE IndexInv'
    <2>1. e \in 1 .. events
      BY <1>7, <1>0 DEF BecomeDue, TypeOK, WorkInv, Events
    <2>2. TypeOK'
      BY <1>7 DEF BecomeDue, TypeOK
    <2>3. WorkInv'
      BY <1>7, <2>1, TargetsKept DEF BecomeDue, WorkInv
    <2>4. QED
      BY <2>2, <2>3
  <1>8. ASSUME NEW w \in Workers, NEW e \in Events, TakeJob(w, e) PROVE IndexInv'
    <2>1. /\ e \in 1 .. events
          /\ working' = [working EXCEPT ![w] = e] /\ working[w] = 0
          /\ job' = [job EXCEPT ![e] = "active"]
          /\ \A x \in Workers : working[x] # e
          /\ preparing' = preparing \union {w}
          /\ UNCHANGED <<open, rev, gone, events, about, status, due, todo, current, setup, syncs, index,
                        rebuilding, rebuild>>
      <3>1. /\ working[w] = 0 /\ job[e] = "waiting"
            /\ working' = [working EXCEPT ![w] = e]
            /\ job' = [job EXCEPT ![e] = "active"]
            /\ preparing' = preparing \union {w}
            /\ UNCHANGED <<open, rev, gone, events, about, status, due, todo, current, setup, syncs, index,
                          rebuilding, rebuild>>
        BY <1>8 DEF TakeJob
      <3>2. e \in 1 .. events
        BY <3>1, <1>0 DEF WorkInv, Events
      <3>3. \A x \in Workers : working[x] # e
        BY <3>1 DEF TypeOK
      <3>4. QED
        BY <3>1, <3>2, <3>3
    <2>2. TypeOK'
      <3>1. /\ working' \in [Workers -> 0 .. events'] /\ job' \in [Events -> {"none", "waiting", "active"}]
            /\ preparing' \subseteq Workers
        BY <2>1 DEF TypeOK
      <3>2. \A v, x \in Workers : v # x /\ working'[v] # 0 => working'[v] # working'[x]
        BY <2>1 DEF TypeOK
      <3>3. \A f \in Events : (job'[f] = "active") <=> \E v \in Workers : working'[v] = f
        BY <1>0, <2>1 DEF TypeOK
      <3>4. QED
        BY <2>1, <3>1, <3>2, <3>3 DEF TypeOK
    <2>3. \A f \in Events : Targets(f)' = Targets(f)
      BY <2>1, TargetsKept
    <2>4. \A f \in Events : job'[f] # "none" \/ status'[f] # "none" => f <= events
      BY <1>8, <2>1 DEF TypeOK, WorkInv
    <2>5. \A s \in syncs : s.owner \in Workers => s.owner # w
      BY <2>1 DEF WorkInv
    <2>6. \A v \in preparing' : working'[v] # 0
      BY <1>0, <2>1 DEF TypeOK, WorkInv
    <2>7. QED
      BY <2>1, <2>2, <2>3, <2>4, <2>5, <2>6 DEF TypeOK, WorkInv
  <1>16. ASSUME NEW w \in Workers, StartSyncs(w) PROVE IndexInv'
    <2>1. PICK e \in Events : e = working[w]
      BY <1>0, <1>16 DEF StartSyncs, Configures, TypeOK, WorkInv
    <2>2. /\ setup' \in [Processes -> {"none", "done", "failed"}] /\ preparing' = preparing \ {w}
          /\ UNCHANGED <<open, rev, gone, events, about, status, due, job, todo, current, working, index,
                        rebuilding, rebuild>>
      BY <1>16 DEF StartSyncs, Configures, TypeOK
    <2>3. \A s \in syncs' : s \in syncs \/ \E d \in Targets(e) : s = NewSync(w, d)
      BY <1>16, <2>1 DEF StartSyncs
    <2>4. \A d \in Targets(e) : NewSync(w, d) \in Sync /\ NewSync(w, d).owner = w /\ NewSync(w, d).doc = d
      BY TargetsAreDocs DEF NewSync, Sync, Absent
    <2>5. TypeOK'
      BY <2>2, <2>3, <2>4 DEF TypeOK
    <2>6. WorkInv'
      <3>1. w \in preparing /\ \A f \in Events : Targets(f)' = Targets(f)
        BY <1>16, <2>2, TargetsKept DEF StartSyncs, Configures
      <3>2. \A s \in syncs' : s.owner \in Workers =>
              /\ working[s.owner] # 0 /\ s.owner \notin preparing'
              /\ \A f \in Events : working[s.owner] = f => s.doc \in Targets(f)
        <4> SUFFICES ASSUME NEW s \in syncs', s.owner \in Workers
                     PROVE  /\ working[s.owner] # 0 /\ s.owner \notin preparing'
                            /\ \A f \in Events : working[s.owner] = f => s.doc \in Targets(f)
          OBVIOUS
        <4>1. CASE s \in syncs
          BY <2>2, <4>1 DEF WorkInv
        <4>2. CASE \E d \in Targets(e) : s = NewSync(w, d)
          BY <1>0, <2>1, <2>2, <2>4, <4>2
        <4>3. QED
          BY <2>3, <4>1, <4>2
      <3>3. QED
        BY <2>2, <3>1, <3>2 DEF WorkInv
    <2>7. QED
      BY <2>5, <2>6
  <1>17. ASSUME NEW w \in Workers, SetupFails(w) PROVE IndexInv'
    <2>1. /\ working[w] # 0 /\ EventFails(w) /\ UNCHANGED syncs
          /\ setup' \in [Processes -> {"none", "done", "failed"}] /\ preparing' = preparing \ {w}
      BY <1>17 DEF SetupFails, Configures, TypeOK, WorkInv
    <2>2. \A r \in syncs' : r \in Sync /\ ((r \in syncs /\ r.owner # w) \/ r.owner = Nobody)
      BY <1>17, <2>1 DEF SetupFails, Configures, TypeOK, WorkInv
    <2>3. QED
      BY <2>1, <2>2, EventFailsKeeps
  <1>9. ASSUME NEW s \in syncs, Read(s) \/ Write(s) \/ Purge(s) PROVE IndexInv'
    <2>1. /\ Wanted(s.doc) \in Nat
          /\ s \in Sync /\ s = [owner |-> s.owner, doc |-> s.doc, step |-> s.step, found |-> s.found]
      BY DEF TypeOK, Wanted, Sync, Absent
    <2>2. /\ [s EXCEPT !.step = "write", !.found = Wanted(s.doc)] \in Sync
          /\ [s EXCEPT !.step = "write", !.found = Wanted(s.doc)].owner = s.owner
          /\ [s EXCEPT !.step = "write", !.found = Wanted(s.doc)].doc = s.doc
          /\ [s EXCEPT !.step = "purge"] \in Sync
          /\ [s EXCEPT !.step = "purge"].owner = s.owner
          /\ [s EXCEPT !.step = "purge"].doc = s.doc
      BY <2>1 DEF Sync
    <2>3. \A r \in syncs' : r \in Sync /\ (r \in syncs \/ (r.owner = s.owner /\ r.doc = s.doc))
      <3>1. \A r \in syncs' :
              \/ r \in syncs
              \/ r = [s EXCEPT !.step = "write", !.found = Wanted(s.doc)]
              \/ r = [s EXCEPT !.step = "purge"]
        BY <1>9 DEF Read, Write, Purge
      <3>2. \A r \in syncs : r \in Sync
        BY DEF TypeOK
      <3>3. QED
        BY <2>2, <3>1, <3>2
    <2>4. index' \in [Docs -> Nat] /\ SyncFrame
      BY <1>9, <2>1 DEF Read, Write, Purge, TypeOK, Sync, Absent
    <2>5. TypeOK'
      BY <2>3, <2>4 DEF SyncFrame, TypeOK
    <2>6. WorkInv'
      BY TargetsKept, <2>3, <2>4 DEF SyncFrame, WorkInv
    <2>7. QED
      BY <2>5, <2>6
  <1>10. ASSUME NEW w \in Workers, Complete(w) PROVE IndexInv'
    <2>1. working[w] \in 1 .. events /\ working[w] \in Events
      BY <1>0, <1>10 DEF Complete, TypeOK
    <2>2. /\ job' = [job EXCEPT ![working[w]] = "none"]
          /\ working' = [working EXCEPT ![w] = 0]
      BY <1>10 DEF Complete
    <2>3. /\ status' \in [Events -> {"none", "pending", "processing", "failed", "completed"}]
          /\ \A e \in Events \ {working[w]} : status'[e] = status[e]
      BY <1>10 DEF Complete, TypeOK
    <2>4. UNCHANGED <<open, rev, gone, events, about, due, todo, current, setup, preparing, index,
                        rebuilding, rebuild>> /\ w \notin preparing
          /\ \A s \in syncs' : s \in syncs /\ s.owner # w
      BY <1>10 DEF Complete, SyncsOf
    <2>5. /\ job' \in [Events -> {"none", "waiting", "active"}]
          /\ working' \in [Workers -> 0 .. events]
          /\ \A e \in Events : (job'[e] = "active") <=> \E v \in Workers : working'[v] = e
          /\ \A v, x \in Workers : v # x /\ working'[v] # 0 => working'[v] # working'[x]
      BY <1>0, <2>1, <2>2 DEF TypeOK
    <2>6. TypeOK'
      BY <2>3, <2>4, <2>5 DEF TypeOK
    <2>7. WorkInv'
      BY <2>1, <2>2, <2>3, <2>4, TargetsKept DEF TypeOK, WorkInv
    <2>8. QED
      BY <2>6, <2>7
  <1>11. ASSUME NEW p \in Processes, Restart(p) PROVE IndexInv'
    <2>1. /\ job' = [e \in Events |-> IF e \in JobsOf(p) THEN "waiting" ELSE job[e]]
          /\ working' = [w \in Workers |-> IF w \in Slots(p) THEN 0 ELSE working[w]]
          /\ setup' \in [Processes -> {"none", "done", "failed"}]
          /\ preparing' = preparing \ Slots(p)
          /\ \A s \in syncs' : s \in syncs /\ s.owner \notin Slots(p)
          /\ UNCHANGED <<open, rev, gone, events, about, status, due, todo, current, index, rebuilding, rebuild>>
      BY <1>11 DEF Restart, TypeOK
    <2>2. \A e \in Events : e \in JobsOf(p) => e <= events /\ job[e] = "active"
      BY <1>0 DEF JobsOf, Slots, TypeOK
    <2>3. /\ job' \in [Events -> {"none", "waiting", "active"}]
          /\ working' \in [Workers -> 0 .. events]
          /\ \A v, x \in Workers : v # x /\ working'[v] # 0 => working'[v] # working'[x]
      BY <1>0, <2>1 DEF TypeOK
    <2>4. \A e \in Events : (job'[e] = "active") <=> \E v \in Workers : working'[v] = e
      <3> SUFFICES ASSUME NEW e \in Events PROVE (job'[e] = "active") <=> \E v \in Workers : working'[v] = e
        OBVIOUS
      <3>1. CASE e \in JobsOf(p)
        <4>1. PICK w \in Slots(p) : working[w] = e
          BY <3>1 DEF JobsOf
        <4>2. \A v \in Workers : working'[v] # e
          BY <1>0, <2>1, <4>1 DEF Slots, TypeOK
        <4>3. QED
          BY <2>1, <3>1, <4>2
      <3>2. CASE e \notin JobsOf(p)
        BY <1>0, <2>1, <3>2 DEF JobsOf, Slots, TypeOK
      <3>3. QED
        BY <3>1, <3>2
    <2>5. TypeOK'
      BY <2>1, <2>3, <2>4 DEF TypeOK
    <2>6. WorkInv'
      BY <2>1, <2>2, TargetsKept DEF TypeOK, WorkInv
    <2>7. QED
      BY <2>5, <2>6
  <1>12. ASSUME NEW w \in Workers, NEW s \in SyncsOf(w), SyncFails(w, s) PROVE IndexInv'
    <2>1. /\ working[w] # 0 /\ w \notin preparing /\ EventFails(w) /\ UNCHANGED <<setup, preparing>>
      BY <1>12 DEF SyncFails, WorkInv, SyncsOf
    <2>2. \A r \in syncs' : r \in Sync /\ ((r \in syncs /\ r.owner # w) \/ r.owner = Nobody)
      <3>1. \A r \in SyncsOf(w) : [r EXCEPT !.owner = Nobody] \in Sync /\ [r EXCEPT !.owner = Nobody].owner = Nobody
        BY DEF SyncsOf, TypeOK, Sync
      <3>2. PICK left \in {SyncsOf(w), SyncsOf(w) \ {s}} :
              syncs' = (syncs \ SyncsOf(w)) \union Detached(left)
        BY <1>12 DEF SyncFails
      <3>3. \A r \in Detached(left) : r \in Sync /\ r.owner = Nobody
        BY <3>1, <3>2 DEF Detached
      <3>4. QED
        BY <3>2, <3>3 DEF SyncsOf, TypeOK
    <2>3. setup' \in [Processes -> {"none", "done", "failed"}] /\ preparing' \subseteq preparing \ {w}
      BY <2>1 DEF TypeOK
    <2>4. QED
      BY <2>1, <2>2, <2>3, EventFailsKeeps
  <1>13. ASSUME Reindex PROVE IndexInv'
    <2>1. ASSUME StartReindex PROVE IndexInv'
      <3>1. index' \in [Docs -> Nat] /\ rebuilding' = "topics" /\ rebuild' = Topics
        BY <2>1 DEF StartReindex, Absent
      <3>2. UNCHANGED <<open, rev, gone, events, about, status, due, job, todo, current, setup, working, preparing, syncs>>
        BY <2>1 DEF StartReindex
      <3>3. TypeOK'
        BY <1>b, <3>1, <3>2 DEF TypeOK
      <3>4. WorkInv'
        BY <3>2, TargetsKept DEF WorkInv
      <3>5. QED
        BY <3>3, <3>4
    <2>2. ASSUME NEW d \in Docs, ReindexNext(d) PROVE IndexInv'
      <3>1. NewSync(Reindexer, d) \in Sync /\ NewSync(Reindexer, d).owner \notin Workers
        BY SearchAssumption DEF NewSync, Sync, Reindexer, Absent
      <3>2. QED
        BY TargetsKept, <2>2, <3>1 DEF ReindexNext, RebuildFrame, TypeOK, WorkInv
    <2>3. ASSUME ReindexPhase PROVE IndexInv'
      <3>1. rebuilding' \in {"idle", "topics", "posts"} /\ rebuild' \subseteq Docs
        BY <1>b, <2>3 DEF ReindexPhase, NextPhase
      <3>2. UNCHANGED <<open, rev, gone, events, about, status, due, job, todo, current, setup, working,
                        preparing, syncs, index>>
        BY <2>3 DEF ReindexPhase, RebuildFrame
      <3>3. TypeOK'
        BY <3>1, <3>2 DEF TypeOK
      <3>4. WorkInv'
        BY <3>2, TargetsKept DEF WorkInv
      <3>5. QED
        BY <3>3, <3>4
    <2>4. QED
      BY <1>13, <2>1, <2>2, <2>3 DEF Reindex
  <1>14. CASE UNCHANGED vars
    BY TargetsKept, <1>14 DEF vars, TypeOK, WorkInv
  <1>18. QED
    BY <1>1, <1>2, <1>3, <1>4, <1>5, <1>6, <1>7, <1>8, <1>9, <1>10, <1>11, <1>12, <1>13, <1>14, <1>16, <1>17
    DEF Next

LEMMA InitIndexInv == Init => IndexInv
  BY SearchAssumption DEF Init, IndexInv, TypeOK, WorkInv, Docs, Events

\* The outbox, the queue, the syncs and the index keep their shape.
LEMMA IndexInvariant == Spec => []IndexInv
  BY InitIndexInv, IndexStep, PTL DEF Spec

THEOREM TypeCorrect == Spec => []TypeOK
  BY IndexInvariant, PTL DEF IndexInv

-----------------------------------------------------------------------------
(* The documents of topics.                                                *)

\* The syncs that have read a topic and have not written yet.
Writing(t) == {s \in syncs : s.doc = t /\ s.step = "write"}

\* An event about the topic will be worked on again, or its sync is still to read.
Owed(t) ==
  \E e \in Events :
    /\ t \in Targets(e)
    /\ \/ job[e] = "waiting"
       \/ job[e] # "active" /\ status[e] \in {"pending", "processing", "failed"}
       \/ \E w \in preparing : working[w] = e
       \/ \E s \in syncs : /\ s.owner \in Workers /\ working[s.owner] = e
                           /\ s.doc = t /\ s.step = "read"

\* The document is right and stays right.
Fresh(t) == index[t] = Wanted(t) /\ \A s \in Writing(t) : s.found = Wanted(t)

\* It will be right when a sync has written it.
AboutToBe(t) == \E s \in Writing(t) : s.found = Wanted(t)

\* reindex() is still to read it.
InRebuild(t) ==
  /\ rebuilding = "topics"
  /\ \/ t \in rebuild
     \/ \E s \in syncs : s.owner = Reindexer /\ s.doc = t /\ s.step = "read"

Accounted(t) ==
  /\ \A r, s \in Writing(t) : r = s
  /\ Fresh(t) \/ AboutToBe(t) \/ Owed(t) \/ InRebuild(t)

\* A stale document of a topic that was not moderated and whose syncs did not overlap
\* is somebody's duty.
CurrentInv == \A t \in Topics \ (overlapped \union unannounced) : Accounted(t)

\* A step that leaves the topic, its document and its syncs alone.
LEMMA AccountFrame ==
  ASSUME NEW t \in Topics, Accounted(t), Wanted(t)' = Wanted(t), UNCHANGED index,
         UNCHANGED <<rebuilding, rebuild>>,
         UNCHANGED syncs,
         Owed(t) => Owed(t)'
  PROVE  Accounted(t)'
  BY DEF Accounted, Fresh, AboutToBe, InRebuild, Writing

\* What an event about x syncs.
Concerned(x) == IF x = "forum" THEN Topics ELSE IF x \in Posts THEN {x, TopicOf[x]} ELSE {x}

\* A change and its event, in one transaction.
LEMMA EmitAccounts ==
  ASSUME IndexInv, CurrentInv, NEW x, Emit(x), ChangeFrame, UNCHANGED unannounced,
         \A t \in Topics : t \in Concerned(x) \/ Wanted(t)' = Wanted(t)
  PROVE  CurrentInv'
  <1> SUFFICES ASSUME NEW t \in Topics \ (overlapped \union unannounced) PROVE Accounted(t)'
    BY DEF CurrentInv, ChangeFrame
  <1> USE DEF workVars, dispatchVars
  <1>1. PICK f \in Events : f = events + 1
    BY SearchAssumption DEF Emit, IndexInv, TypeOK, Events
  <1>2. /\ about'[f] = x /\ status'[f] = "pending" /\ job[f] = "none"
        /\ \A e \in Events \ {f} : about'[e] = about[e] /\ status'[e] = status[e]
    BY <1>1 DEF Emit, IndexInv, TypeOK, WorkInv
  <1>3. /\ Targets(f)' = Concerned(x)
        /\ \A e \in Events \ {f} : Targets(e)' = Targets(e)
    BY <1>2 DEF Targets, Concerned
  <1>4. Accounted(t) /\ UNCHANGED <<index, rebuilding, rebuild, syncs, working, preparing, job>>
    BY DEF CurrentInv, ChangeFrame
  <1>5. CASE t \in Concerned(x)
    <2>1. Owed(t)'
      BY <1>2, <1>3, <1>4, <1>5 DEF Owed
    <2>2. QED
      BY <1>4, <2>1 DEF Accounted, Writing
  <1>6. CASE Wanted(t)' = Wanted(t)
    <2>1. preparing \subseteq Workers /\ \A w \in Workers : working[w] # f
      BY <1>1, <1>2 DEF IndexInv, TypeOK
    <2>2. status[f] = "none"
      BY <1>1 DEF IndexInv, TypeOK, WorkInv
    <2>3. Owed(t) => Owed(t)'
      BY <1>2, <1>3, <1>4, <2>1, <2>2 DEF Owed
    <2>4. QED
      BY <1>4, <1>6, <2>3, AccountFrame
  <1>7. QED
    BY <1>5, <1>6

\* The steps of the syncs.
LEMMA SyncAccounts ==
  ASSUME IndexInv, CurrentInv, NEW s \in syncs, Read(s) \/ Write(s) \/ Purge(s)
  PROVE  CurrentInv'
  <1> SUFFICES ASSUME NEW t \in Topics \ (overlapped' \union unannounced') PROVE Accounted(t)'
    BY DEF CurrentInv
  <1> USE DEF contentVars, outboxVars, dispatchVars, rebuildVars, historyVars
  <1>1. UNCHANGED <<open, rev, gone, about, status, job, working, preparing, rebuilding, rebuild>>
    BY DEF Read, Write, Purge, SyncFrame
  <1>2. Wanted(t)' = Wanted(t) /\ \A e \in Events : Targets(e)' = Targets(e)
    BY <1>1, TargetsKept DEF Wanted, Public
  <1>3. t \in Docs /\ t \notin Posts /\ s \in Sync
    BY SearchAssumption DEF IndexInv, TypeOK, Docs
  <1>4. \A r \in syncs : s # r => r \in syncs'
    BY DEF Read, Write, Purge
  <1>5. CASE Read(s) /\ s.doc = t
    <2> DEFINE r == [s EXCEPT !.step = "write", !.found = Wanted(s.doc)]
    <2>1. r.doc = t /\ r.step = "write" /\ r.found = Wanted(t)
      BY <1>3, <1>5 DEF Sync
    <2>2. Writing(t) = {} /\ syncs' = (syncs \ {s}) \union {r}
      BY <1>5 DEF Read, Writing
    <2>3. Writing(t)' = {r}
      BY <2>1, <2>2 DEF Writing
    <2>4. AboutToBe(t)'
      BY <1>2, <2>1, <2>3 DEF AboutToBe
    <2>5. QED
      BY <2>3, <2>4 DEF Accounted
  <1>6. CASE ~(Read(s) /\ s.doc = t)
    <2>1. Accounted(t)
      BY <1>6 DEF CurrentInv, Read, Write, Purge
    <2>2. \A r \in syncs : r.doc = t /\ r.step = "read" => r \in syncs'
      BY <1>4, <1>6 DEF Write, Purge
    <2>3. Owed(t) => Owed(t)'
      BY <1>1, <1>2, <2>2 DEF Owed
    <2>4. InRebuild(t) => InRebuild(t)'
      BY <1>1, <2>2 DEF InRebuild
    <2>5. CASE s.doc = t /\ Write(s)
      <3>1. \A r \in syncs' : r \in syncs \ {s} \/ r.step # "write"
        BY <1>3, <2>5 DEF Write, Sync
      <3>2. s \in Writing(t) /\ Writing(t)' = {}
        BY <2>1, <2>5, <3>1 DEF Accounted, Write, Writing
      <3>3. index'[t] = s.found
        BY <1>3, <2>5 DEF Write, IndexInv, TypeOK
      <3>4. Fresh(t) \/ AboutToBe(t) => Fresh(t)'
        BY <1>2, <2>1, <3>2, <3>3 DEF Accounted, Fresh, AboutToBe
      <3>5. QED
        BY <2>1, <2>3, <2>4, <3>2, <3>4 DEF Accounted
    <2>6. CASE ~(s.doc = t /\ Write(s))
      <3>1. index'[t] = index[t]
        BY <1>3, <1>6, <2>6 DEF Read, Write, Purge, PostsOf, IndexInv, TypeOK
      <3>2. Writing(t)' = Writing(t)
        <4>1. CASE Read(s)
          BY <1>3, <1>6, <4>1 DEF Read, Writing, Sync
        <4>2. CASE Write(s)
          BY <1>3, <2>6, <4>2 DEF Write, Writing, Sync
        <4>3. CASE Purge(s)
          BY <4>3 DEF Purge, Writing
        <4>4. QED
          BY <4>1, <4>2, <4>3
      <3>3. QED
        BY <1>2, <2>1, <2>3, <2>4, <3>1, <3>2 DEF Accounted, Fresh, AboutToBe
    <2>7. QED
      BY <2>5, <2>6
  <1>7. QED
    BY <1>5, <1>6

\* Workers whose jobs end or die before their syncs are done leave their events to be
\* worked on again.
LEMMA StopAccounts ==
  ASSUME IndexInv, CurrentInv, NEW S \in SUBSET Workers,
         UNCHANGED <<open, rev, gone, about, index, rebuilding, rebuild, historyVars>>,
         \A w \in Workers \ S : working'[w] = working[w],
         \A w \in preparing \ S : w \in preparing',
         \A e \in Events :
            IF \E w \in S : working[w] = e
            THEN job'[e] = "waiting" \/ (job'[e] = "none" /\ status'[e] = "failed")
            ELSE job'[e] = job[e] /\ status'[e] = status[e],
         \A r \in syncs : r.owner \notin S => r \in syncs',
         \A r \in syncs' :
            /\ r \in Sync
            /\ \/ r \in syncs /\ r.owner \notin S
               \/ r.owner = Nobody /\ \E s \in syncs : s.owner \in S /\ r.doc = s.doc
                                                        /\ r.step = s.step /\ r.found = s.found
  PROVE  CurrentInv'
  <1> SUFFICES ASSUME NEW t \in Topics \ (overlapped \union unannounced) PROVE Accounted(t)'
    BY DEF CurrentInv, historyVars
  <1> USE DEF IndexInv
  <1> DEFINE Lost == {s \in syncs : s.owner \in S}
  <1>0. Accounted(t)
    BY DEF CurrentInv
  <1>2. Wanted(t)' = Wanted(t) /\ \A e \in Events : Targets(e)' = Targets(e)
    BY TargetsKept DEF Wanted, Public
  <1>3. \A s \in Lost : s.owner \in Workers /\ working[s.owner] \in Events
                         /\ s.doc \in Targets(working[s.owner])
    <2>1. \A w \in Workers : working[w] # 0 => working[w] \in Events
      BY SearchAssumption DEF TypeOK, Events
    <2>2. QED
      BY <2>1 DEF WorkInv
  <1>4. /\ \A r \in syncs : r.owner \notin S => r \in syncs'
        /\ \A r \in syncs' :
             /\ r \in Sync
             /\ \/ r \in syncs /\ r.owner \notin S
                \/ r.owner = Nobody /\ \E s \in Lost : r.doc = s.doc /\ r.step = s.step /\ r.found = s.found
    OBVIOUS
  <1>5. \A r, s \in Sync : r.owner = s.owner /\ r.doc = s.doc /\ r.step = s.step /\ r.found = s.found => r = s
    BY DEF Sync
  <1>6. \A r, s \in Writing(t)' : r = s
    <2> SUFFICES ASSUME NEW r \in Writing(t)', NEW s \in Writing(t)' PROVE r = s
      OBVIOUS
    <2>0. \A q \in syncs' : q.doc = t /\ q.step = "write" =>
            \E x \in Writing(t) : x.found = q.found /\ ((x = q /\ x.owner \notin S) \/ (x.owner \in S /\ q.owner = Nobody))
      <3> SUFFICES ASSUME NEW q \in syncs', q.doc = t, q.step = "write"
                   PROVE  \E x \in Writing(t) : /\ x.found = q.found
                                                /\ (x = q /\ x.owner \notin S) \/ (x.owner \in S /\ q.owner = Nobody)
        OBVIOUS
      <3>1. CASE q \in syncs /\ q.owner \notin S
        <4>1. q \in Writing(t)
          BY <3>1 DEF Writing
        <4>2. QED
          BY <3>1, <4>1
      <3>2. CASE q.owner = Nobody /\ \E z \in Lost : q.doc = z.doc /\ q.step = z.step /\ q.found = z.found
        <4>1. PICK z \in Lost : q.doc = z.doc /\ q.step = z.step /\ q.found = z.found
          BY <3>2
        <4>2. z \in Writing(t) /\ z.owner \in S
          BY <4>1 DEF Writing
        <4>3. QED
          BY <3>2, <4>1, <4>2
      <3>3. QED
        BY <1>4, <3>1, <3>2
    <2>1. r \in syncs' /\ s \in syncs' /\ r.doc = t /\ s.doc = t /\ r.step = "write" /\ s.step = "write"
      BY DEF Writing
    <2>2. PICK x \in Writing(t) : x.found = r.found /\ ((x = r /\ x.owner \notin S) \/ (x.owner \in S /\ r.owner = Nobody))
      BY <2>0, <2>1
    <2>3. PICK y \in Writing(t) : y.found = s.found /\ ((y = s /\ y.owner \notin S) \/ (y.owner \in S /\ s.owner = Nobody))
      BY <2>0, <2>1
    <2>4. x = y
      BY <1>0 DEF Accounted
    <2>5. CASE x.owner \notin S
      BY <2>2, <2>3, <2>4, <2>5
    <2>6. CASE x.owner \in S
      <3>1. r.owner = Nobody /\ s.owner = Nobody /\ r.found = s.found
        BY <2>2, <2>3, <2>4, <2>6
      <3>2. QED
        BY <1>4, <1>5, <2>1, <3>1
    <2>7. QED
      BY <2>5, <2>6
  <1>8. CASE \E e \in Events : t \in Targets(e) /\ \E w \in S : working[w] = e
    <2>1. Owed(t)'
      BY <1>2, <1>8 DEF Owed
    <2>2. QED
      BY <1>6, <2>1 DEF Accounted
  <1>9. CASE ~\E e \in Events : t \in Targets(e) /\ \E w \in S : working[w] = e
    <2>1. \A s \in Lost : s.doc # t
      BY <1>3, <1>9 DEF WorkInv
    <2>2. Writing(t)' = Writing(t)
      BY <1>4, <2>1 DEF Writing
    <2>3. Owed(t) => Owed(t)'
      <3>1. ASSUME NEW e \in Events, t \in Targets(e), NEW r \in syncs, r.owner \in Workers,
                   working[r.owner] = e, r.doc = t, r.step = "read"
            PROVE  r \in syncs' /\ working'[r.owner] = e
        BY <1>4, <1>9, <3>1
      <3>2. ASSUME NEW e \in Events, t \in Targets(e), NEW w \in preparing, working[w] = e
            PROVE  w \in preparing' /\ working'[w] = e
        BY <1>9, <3>2 DEF TypeOK
      <3>3. QED
        BY <1>2, <1>9, <3>1, <3>2 DEF Owed
    <2>4. InRebuild(t) => InRebuild(t)'
      BY <1>4, SearchAssumption DEF InRebuild, Reindexer
    <2>5. QED
      BY <1>0, <1>2, <2>2, <2>3, <2>4 DEF Accounted, Fresh, AboutToBe
  <1>10. QED
    BY <1>8, <1>9

\* A job that fails, in ensureIndex() or in one of its syncs.
LEMMA FailureAccounts ==
  ASSUME IndexInv, CurrentInv, NEW w \in Workers, SetupFails(w) \/ \E s \in SyncsOf(w) : SyncFails(w, s)
  PROVE  CurrentInv'
  <1> USE DEF contentVars, outboxVars, dispatchVars, rebuildVars, IndexInv
  <1>0. PICK S \in SUBSET Workers : S = {w}
    OBVIOUS
  <1>1. EventFails(w) /\ working[w] \in Events
    BY SearchAssumption DEF SetupFails, Configures, SyncFails, SyncsOf, TypeOK, WorkInv, Events
  <1>2. /\ UNCHANGED <<open, rev, gone, about, index, rebuilding, rebuild, historyVars>>
        /\ \A v \in Workers \ S : working'[v] = working[v]
    BY <1>0, <1>1 DEF EventFails, TypeOK
  <1>3. \A e \in Events :
          IF \E v \in S : working[v] = e
          THEN job'[e] = "waiting" \/ (job'[e] = "none" /\ status'[e] = "failed")
          ELSE job'[e] = job[e] /\ status'[e] = status[e]
    BY <1>0, <1>1 DEF EventFails, TypeOK
  <1>4. \A v \in preparing \ S : v \in preparing'
    BY <1>0 DEF SetupFails, Configures, SyncFails
  <1>5. /\ \A r \in syncs : r.owner \notin S => r \in syncs'
        /\ \A r \in syncs' :
             /\ r \in Sync
             /\ \/ r \in syncs /\ r.owner \notin S
                \/ r.owner = Nobody /\ \E s \in syncs : s.owner \in S /\ r.doc = s.doc
                                                         /\ r.step = s.step /\ r.found = s.found
    <2>1. CASE SetupFails(w)
      BY <1>0, <2>1 DEF SetupFails, Configures, TypeOK, WorkInv
    <2>2. CASE \E s \in SyncsOf(w) : SyncFails(w, s)
      <3>1. PICK left \in SUBSET SyncsOf(w) : syncs' = (syncs \ SyncsOf(w)) \union Detached(left)
        BY <2>2 DEF SyncFails
      <3>2. \A s \in left : \A r : r = [s EXCEPT !.owner = Nobody] =>
              r \in Sync /\ r.owner = Nobody /\ r.doc = s.doc /\ r.step = s.step /\ r.found = s.found
        BY <3>1 DEF SyncsOf, TypeOK, Sync
      <3>3. \A r \in Detached(left) : r \in Sync /\ r.owner = Nobody /\
              \E s \in SyncsOf(w) : r.doc = s.doc /\ r.step = s.step /\ r.found = s.found
        <4> SUFFICES ASSUME NEW r \in Detached(left)
                     PROVE  /\ r \in Sync /\ r.owner = Nobody
                            /\ \E s \in SyncsOf(w) : r.doc = s.doc /\ r.step = s.step /\ r.found = s.found
          OBVIOUS
        <4>1. PICK s \in left : r = [s EXCEPT !.owner = Nobody]
          BY DEF Detached
        <4>2. s \in SyncsOf(w)
          BY <3>1
        <4>3. QED
          BY <3>2, <4>1, <4>2
      <3>4. \A s : s \in SyncsOf(w) <=> s \in syncs /\ s.owner = w
        BY DEF SyncsOf
      <3>5. \A r \in syncs : r \in Sync
        BY DEF TypeOK
      <3>6. QED
        BY <1>0, <3>1, <3>3, <3>4, <3>5
    <2>3. QED
      BY <2>1, <2>2
  <1>6. QED
    BY <1>2, <1>3, <1>4, <1>5, StopAccounts

\* A process that dies.
LEMMA RestartAccounts ==
  ASSUME IndexInv, CurrentInv, NEW p \in Processes, Restart(p)
  PROVE  CurrentInv'
  <1> USE DEF contentVars, outboxVars, dispatchVars, rebuildVars, IndexInv
  <1>1. Slots(p) \in SUBSET Workers
    BY DEF Slots
  <1>2. UNCHANGED <<open, rev, gone, about, status, index, rebuilding, rebuild, historyVars>>
    BY DEF Restart
  <1>3. \A w \in Workers \ Slots(p) : working'[w] = working[w]
    BY DEF Restart
  <1>4. \A w \in preparing \ Slots(p) : w \in preparing'
    BY DEF Restart
  <1>5. \A e \in Events :
          IF \E w \in Slots(p) : working[w] = e
          THEN job'[e] = "waiting" \/ (job'[e] = "none" /\ status'[e] = "failed")
          ELSE job'[e] = job[e] /\ status'[e] = status[e]
    BY <1>2 DEF Restart, JobsOf
  <1>6. /\ \A r \in syncs : r.owner \notin Slots(p) => r \in syncs'
        /\ \A r \in syncs' : r \in Sync /\ r \in syncs /\ r.owner \notin Slots(p)
    BY DEF Restart, TypeOK
  <1>7. QED
    BY <1>1, <1>2, <1>3, <1>4, <1>5, <1>6, StopAccounts

LEMMA CurrentStep == IndexInv /\ CurrentInv /\ [Next]_vars => CurrentInv'
  <1> SUFFICES ASSUME IndexInv, CurrentInv, [Next]_vars PROVE CurrentInv'
    OBVIOUS
  <1> USE DEF contentVars, outboxVars, dispatchVars, workVars, rebuildVars, historyVars
  <1>0. /\ \A t \in Topics : t \in Docs /\ t \notin Posts /\ t # "forum"
        /\ \A p \in Posts : p \in Docs /\ p # "forum" /\ TopicOf[p] \in Topics
        /\ \A e \in Events : e # 0
    BY SearchAssumption DEF Docs, Events
  <1>1. ASSUME NEW p \in Posts, WritePost(p) \/ DeletePost(p) PROVE CurrentInv'
    <2>1. Emit(p) /\ ChangeFrame /\ UNCHANGED unannounced
      BY <1>1 DEF WritePost, DeletePost
    <2>2. \A t \in Topics : t # TopicOf[p] => rev'[t] = rev[t] /\ (t \in gone' <=> t \in gone) /\ open' = open
      BY <1>0, <1>1 DEF WritePost, DeletePost, Revise, IndexInv, TypeOK
    <2>3. \A t \in Topics : t \in Concerned(p) \/ Wanted(t)' = Wanted(t)
      BY <1>0, <2>2 DEF Concerned, Wanted, Public, Topic
    <2>4. QED
      BY <2>1, <2>3, EmitAccounts
  <1>2. ASSUME NEW x \in Topics, UpdateTopic(x) \/ DeleteTopic(x) PROVE CurrentInv'
    <2>1. Emit(x) /\ ChangeFrame /\ UNCHANGED unannounced
      BY <1>2 DEF UpdateTopic, DeleteTopic
    <2>2. \A t \in Topics : t # x => rev'[t] = rev[t] /\ (t \in gone' <=> t \in gone) /\ open' = open
      BY <1>0, <1>2 DEF UpdateTopic, DeleteTopic, Revise, PostsOf, IndexInv, TypeOK
    <2>3. \A t \in Topics : t \in Concerned(x) \/ Wanted(t)' = Wanted(t)
      BY <1>0, <2>2 DEF Concerned, Wanted, Public, Topic
    <2>4. QED
      BY <2>1, <2>3, EmitAccounts
  <1>3. ASSUME UpdateForum PROVE CurrentInv'
    <2>1. Emit("forum") /\ ChangeFrame /\ UNCHANGED unannounced
      BY <1>3 DEF UpdateForum
    <2>2. \A t \in Topics : t \in Concerned("forum")
      BY DEF Concerned
    <2>3. QED
      BY <2>1, <2>2, EmitAccounts
  <1> SUFFICES ASSUME NEW t \in Topics \ (overlapped' \union unannounced'),
                      ~\E p \in Posts : WritePost(p) \/ DeletePost(p),
                      ~\E x \in Topics : UpdateTopic(x) \/ DeleteTopic(x),
                      ~UpdateForum
               PROVE  Accounted(t)'
    BY <1>1, <1>2, <1>3 DEF CurrentInv
  <1>4. ASSUME NEW d \in Docs, Moderate(d) PROVE Accounted(t)'
    <2>1. /\ t # d /\ t # Topic(d) /\ t \notin unannounced /\ t \notin overlapped
          /\ UNCHANGED <<open, events, about, status, job, working, preparing, syncs, index,
                        rebuilding, rebuild>>
      BY <1>4 DEF Moderate, ChangeFrame
    <2>2. rev'[t] = rev[t] /\ (t \in gone' <=> t \in gone)
      BY <1>0, <1>4, <2>1 DEF Moderate, Revise, IndexInv, TypeOK
    <2>3. Wanted(t)' = Wanted(t)
      BY <1>0, <2>1, <2>2 DEF Wanted, Public, Topic
    <2>4. Owed(t) => Owed(t)'
      BY <2>1, TargetsKept DEF Owed
    <2>5. Accounted(t)
      BY <2>1 DEF CurrentInv
    <2>6. QED
      BY <2>1, <2>3, <2>4, <2>5, AccountFrame
  <1>5. ASSUME Dispatch \/ DispatchFails \/ (\E e \in Events : BecomeDue(e)) PROVE Accounted(t)'
    <2>1. /\ UNCHANGED <<open, rev, gone, events, about, working, preparing, syncs, index, rebuilding, rebuild,
                         overlapped, unannounced>>
          /\ \A e \in Events :
               \/ job'[e] = job[e]
               \/ job[e] = "none" /\ job'[e] = "waiting"
          /\ \A e \in Events : status'[e] = status[e] \/ status'[e] = "processing"
      <3>1. CASE AddJob
        BY <3>1 DEF AddJob, Known, IndexInv, TypeOK
      <3>2. CASE MarkProcessing
        BY <3>2 DEF MarkProcessing, IndexInv, TypeOK
      <3>3. CASE Select \/ DispatchFails \/ \E e \in Events : BecomeDue(e)
        BY <3>3 DEF Select, DispatchFails, BecomeDue
      <3>4. QED
        BY <1>5, <3>1, <3>2, <3>3 DEF Dispatch
    <2>2. Wanted(t)' = Wanted(t) /\ Accounted(t)
      BY <2>1 DEF Wanted, Public, CurrentInv
    <2>3. Owed(t) => Owed(t)'
      BY <2>1, TargetsKept DEF Owed
    <2>4. QED
      BY <2>1, <2>2, <2>3, AccountFrame
  <1>6. ASSUME NEW w \in Workers, NEW f \in Events, TakeJob(w, f) PROVE Accounted(t)'
    <2>1. /\ UNCHANGED <<open, rev, gone, about, status, syncs, index, rebuilding, rebuild, overlapped, unannounced>>
          /\ \A e \in Events \ {f} : job'[e] = job[e]
          /\ working' = [working EXCEPT ![w] = f] /\ working[w] = 0
          /\ preparing' = preparing \union {w}
      BY <1>6 DEF TakeJob, IndexInv, TypeOK
    <2>2. Wanted(t)' = Wanted(t) /\ Accounted(t) /\ \A e \in Events : Targets(e)' = Targets(e)
      BY <2>1, TargetsKept DEF Wanted, Public, CurrentInv
    <2>3. \A e \in Events : \A x \in Workers : working[x] = e => working'[x] = e
      BY <1>0, <2>1 DEF IndexInv, TypeOK
    <2>4. preparing \subseteq Workers /\ working'[w] = f
      BY <2>1 DEF IndexInv, TypeOK
    <2>5. Owed(t) => Owed(t)'
      BY <2>1, <2>2, <2>3, <2>4 DEF Owed
    <2>6. QED
      BY <2>1, <2>2, <2>5, AccountFrame
  <1>14. ASSUME NEW w \in Workers, StartSyncs(w) PROVE Accounted(t)'
    <2>1. /\ UNCHANGED <<open, rev, gone, about, status, job, working, index, rebuilding, rebuild,
                         overlapped, unannounced>>
          /\ preparing' = preparing \ {w} /\ w \in preparing
          /\ syncs' = syncs \union {NewSync(w, d) : d \in Targets(working[w])}
      BY <1>14 DEF StartSyncs, Configures
    <2>2. Wanted(t)' = Wanted(t) /\ Accounted(t) /\ \A e \in Events : Targets(e)' = Targets(e)
      BY <2>1, TargetsKept DEF Wanted, Public, CurrentInv
    <2>3. syncs \subseteq syncs' /\ Writing(t)' = Writing(t)
      BY <2>1 DEF NewSync, Writing
    <2>4. ASSUME NEW e \in Events, t \in Targets(e), working[w] = e PROVE Owed(t)'
      <3>1. NewSync(w, t) \in syncs'
        BY <2>1, <2>4
      <3>2. NewSync(w, t).owner = w /\ NewSync(w, t).doc = t /\ NewSync(w, t).step = "read"
        BY DEF NewSync
      <3>3. QED
        BY <2>1, <2>2, <2>4, <3>1, <3>2 DEF Owed
    <2>5. Owed(t) => Owed(t)'
      BY <2>1, <2>2, <2>3, <2>4 DEF Owed
    <2>6. InRebuild(t) => InRebuild(t)'
      BY <2>1, <2>3 DEF InRebuild
    <2>7. QED
      BY <2>1, <2>2, <2>3, <2>5, <2>6 DEF Accounted, Fresh, AboutToBe
  <1>7. ASSUME NEW s \in syncs, Read(s) \/ Write(s) \/ Purge(s) PROVE Accounted(t)'
    BY <1>7, SyncAccounts DEF CurrentInv
  <1>8. ASSUME NEW w \in Workers, SetupFails(w) \/ \E s \in SyncsOf(w) : SyncFails(w, s) PROVE Accounted(t)'
    BY <1>8, FailureAccounts DEF CurrentInv
  <1>15. ASSUME NEW p \in Processes, Restart(p) PROVE Accounted(t)'
    BY <1>15, RestartAccounts DEF CurrentInv
  <1>9. ASSUME NEW w \in Workers, Complete(w) PROVE Accounted(t)'
    <2>1. /\ UNCHANGED <<open, rev, gone, about, preparing, syncs, index, rebuilding, rebuild, overlapped,
                         unannounced>> /\ w \notin preparing
          /\ \A e \in Events \ {working[w]} : job'[e] = job[e] /\ status'[e] = status[e]
          /\ working' = [working EXCEPT ![w] = 0]
          /\ \A s \in syncs : s.owner # w
          /\ working[w] \in Events => job[working[w]] = "active"
      BY <1>9 DEF Complete, SyncsOf, IndexInv, TypeOK
    <2>2. Wanted(t)' = Wanted(t) /\ Accounted(t)
      BY <2>1 DEF Wanted, Public, CurrentInv
    <2>3. \A x \in Workers : x # w /\ working[x] # 0 => working[x] # working[w] /\ working'[x] = working[x]
      BY <2>1 DEF IndexInv, TypeOK
    <2>4. Owed(t) => Owed(t)'
      BY <1>0, <2>1, <2>3, TargetsKept DEF Owed
    <2>5. QED
      BY <2>1, <2>2, <2>4, AccountFrame
  <1>10. ASSUME StartReindex PROVE Accounted(t)'
    <2>1. /\ InRebuild(t)' /\ UNCHANGED <<syncs, overlapped, unannounced>>
      BY <1>10 DEF StartReindex, InRebuild
    <2>2. QED
      BY <2>1 DEF CurrentInv, Accounted, Writing
  <1>11. ASSUME (\E d \in Docs : ReindexNext(d)) \/ ReindexPhase PROVE Accounted(t)'
    <2>1. UNCHANGED <<open, rev, gone, about, status, job, working, preparing, index, overlapped, unannounced>>
          /\ syncs \subseteq syncs'
      BY <1>11 DEF ReindexNext, ReindexPhase, RebuildFrame
    <2>2. Writing(t)' = Writing(t)
      BY <1>11 DEF ReindexNext, ReindexPhase, NewSync, Writing
    <2>3. Wanted(t)' = Wanted(t) /\ Accounted(t)
      BY <2>1 DEF Wanted, Public, CurrentInv
    <2>4. Owed(t) => Owed(t)'
      BY <2>1, TargetsKept DEF Owed
    <2>5. InRebuild(t) => InRebuild(t)'
      <3>1. CASE ReindexPhase
        BY <3>1 DEF ReindexPhase, SyncsOf, InRebuild
      <3>2. ASSUME NEW d \in Docs, ReindexNext(d), InRebuild(t) PROVE InRebuild(t)'
        <4>1. CASE d = t
          <5>1. NewSync(Reindexer, t) \in syncs' /\ rebuilding' = "topics"
            BY <3>2, <4>1 DEF ReindexNext, InRebuild
          <5>2. NewSync(Reindexer, t).owner = Reindexer /\ NewSync(Reindexer, t).doc = t
                /\ NewSync(Reindexer, t).step = "read"
            BY DEF NewSync
          <5>3. QED
            BY <5>1, <5>2 DEF InRebuild
        <4>2. CASE d # t
          BY <2>1, <3>2, <4>2 DEF ReindexNext, InRebuild
        <4>3. QED
          BY <4>1, <4>2
      <3>3. QED
        BY <1>11, <3>1, <3>2
    <2>6. QED
      BY <2>1, <2>2, <2>3, <2>4, <2>5 DEF Accounted, Fresh, AboutToBe
  <1>12. CASE UNCHANGED vars
    <2>1. UNCHANGED <<open, rev, gone, about, status, job, working, preparing, syncs, index, rebuilding, rebuild,
                      overlapped, unannounced>>
      BY <1>12 DEF vars
    <2>2. Wanted(t)' = Wanted(t) /\ Accounted(t) /\ (Owed(t) => Owed(t)')
      BY <2>1, TargetsKept DEF Wanted, Public, CurrentInv, Owed
    <2>3. QED
      BY <2>1, <2>2, AccountFrame
  <1>16. QED
    BY <1>4, <1>5, <1>6, <1>7, <1>8, <1>9, <1>10, <1>11, <1>12, <1>14, <1>15 DEF Next, Reindex

\* When everything has been processed, the document of a topic is what PostgreSQL has,
\* whatever failed, crashed or was dispatched twice: only overlapping syncs and unannounced
\* changes leave it stale.
THEOREM TopicsCurrent == Spec => []TopicsCurrentUnlessOverlapped
  <1>1. Init => CurrentInv
    BY SearchAssumption DEF Init, CurrentInv, Accounted, Fresh, Writing, Wanted, Public, Topic, Docs
  <1>2. IndexInv /\ CurrentInv => TopicsCurrentUnlessOverlapped
    <2> SUFFICES ASSUME IndexInv, CurrentInv, AtRest, NEW t \in Topics \ (overlapped \union unannounced)
                 PROVE  index[t] = Wanted(t)
      BY DEF TopicsCurrentUnlessOverlapped
    <2>1. ~Owed(t)
      <3>1. \A e \in Events : job[e] = "none" /\ status[e] \in {"none", "completed"}
        BY DEF AtRest, IndexInv, WorkInv, Events
      <3>2. preparing \subseteq Workers /\ \A e \in Events : \A w \in Workers : working[w] # e
        BY <3>1 DEF IndexInv, TypeOK
      <3>3. QED
        BY <3>1, <3>2 DEF Owed
    <2>2. ~AboutToBe(t) /\ ~InRebuild(t)
      BY DEF AtRest, AboutToBe, Writing, InRebuild
    <2>3. QED
      BY <2>1, <2>2 DEF CurrentInv, Accounted, Fresh
  <1>3. QED
    BY <1>1, <1>2, IndexInvariant, CurrentStep, PTL DEF Spec

-----------------------------------------------------------------------------
(* What reindex() repairs.                                                 *)

\* A document is right, or this phase of reindex() is still to write it.
Rebuilt(d) == \/ index[d] = Wanted(d) \/ d \in rebuild
              \/ \E s \in syncs : s.doc = d /\ s.step \in {"read", "write"}

\* While reindex() has the index to itself, every sync is its own, of the documents of
\* its phase, and writes what PostgreSQL has.
CalmInv ==
  calm /\ rebuilding # "idle" =>
    LET phase == IF rebuilding = "topics" THEN Topics ELSE Posts IN
    /\ rebuild \subseteq phase
    /\ \A s \in syncs :
         /\ s.owner = Reindexer /\ s.doc \in phase
         /\ s.step = "write" => s.found = Wanted(s.doc)
         /\ s.step = "purge" => rebuilding = "topics"
    /\ \A d \in phase : Rebuilt(d)
    /\ rebuilding = "posts" => \A d \in Topics : index[d] = Wanted(d)

\* The steps of its syncs.
LEMMA CalmSync ==
  ASSUME IndexInv, CalmInv, calm, rebuilding # "idle", NEW s \in syncs, Read(s) \/ Write(s) \/ Purge(s)
  PROVE  CalmInv'
  <1> USE DEF contentVars, outboxVars, dispatchVars, rebuildVars, historyVars
  <1> DEFINE phase == IF rebuilding = "topics" THEN Topics ELSE Posts
             r == [s EXCEPT !.step = "write", !.found = Wanted(s.doc)]
             q == [s EXCEPT !.step = "purge"]
  <1>1. UNCHANGED <<open, rev, gone, rebuilding, rebuild, calm>>
    BY DEF Read, Write, Purge, SyncFrame
  <1>2. \A d : Wanted(d)' = Wanted(d)
    BY <1>1 DEF Wanted, Public, Topic
  <1>3. /\ s \in Sync /\ s.owner = Reindexer /\ s.doc \in phase /\ s.doc \in Docs
        /\ s.step = "write" => s.found = Wanted(s.doc)
        /\ s.step = "purge" => rebuilding = "topics"
    BY SearchAssumption DEF IndexInv, TypeOK, CalmInv, Docs
  <1>4. /\ r.owner = Reindexer /\ r.doc = s.doc /\ r.step = "write" /\ r.found = Wanted(s.doc)
        /\ q.owner = Reindexer /\ q.doc = s.doc /\ q.step = "purge"
    BY <1>3 DEF Sync
  <1>5. \A x \in syncs' :
          \/ x \in syncs
          \/ x = r
          \/ x = q /\ s.doc \in Topics
    BY DEF Read, Write, Purge
  <1>6. \A d \in phase : index'[d] = index[d] \/ (d = s.doc /\ Write(s) /\ index'[d] = Wanted(d))
    <2> SUFFICES ASSUME NEW d \in phase, d \in Docs
                 PROVE  index'[d] = index[d] \/ (d = s.doc /\ Write(s) /\ index'[d] = Wanted(d))
      BY DEF Docs
    <2>1. CASE Read(s)
      BY <2>1 DEF Read
    <2>2. CASE Write(s)
      BY <1>3, <2>2 DEF Write, IndexInv, TypeOK
    <2>3. CASE Purge(s)
      BY <1>3, <2>3, SearchAssumption DEF Purge, PostsOf, IndexInv, TypeOK
    <2>4. QED
      BY <2>1, <2>2, <2>3
  <1>7. \A d \in phase : Rebuilt(d)'
    <2> SUFFICES ASSUME NEW d \in phase, index'[d] # Wanted(d), d \notin rebuild
                 PROVE  \E x \in syncs' : x.doc = d /\ x.step \in {"read", "write"}
      BY <1>1, <1>2 DEF Rebuilt
    <2>1. PICK x \in syncs : x.doc = d /\ x.step \in {"read", "write"}
      BY <1>6 DEF CalmInv, Rebuilt
    <2>2. CASE x = s
      <3>1. ~Write(s) /\ ~Purge(s)
        BY <1>3, <2>1, <2>2 DEF Write, Purge, IndexInv, TypeOK
      <3>2. r \in syncs'
        BY <3>1 DEF Read
      <3>3. QED
        BY <1>4, <2>1, <2>2, <3>2
    <2>3. CASE x # s
      BY <2>1, <2>3 DEF Read, Write, Purge
    <2>4. QED
      BY <2>2, <2>3
  <1>8. rebuilding = "posts" => \A d \in Topics : index'[d] = Wanted(d)
    <2> SUFFICES ASSUME rebuilding = "posts", NEW d \in Topics PROVE index'[d] = Wanted(d)
      OBVIOUS
    <2>1. d # s.doc /\ index[d] = Wanted(d) /\ ~Purge(s) /\ d \in Docs
      BY <1>3, SearchAssumption DEF CalmInv, Purge, Docs
    <2>2. QED
      BY <2>1 DEF Read, Write, IndexInv, TypeOK
  <1>9. \A x \in syncs' :
          /\ x.owner = Reindexer /\ x.doc \in phase
          /\ x.step = "write" => x.found = Wanted(x.doc)
          /\ x.step = "purge" => rebuilding = "topics"
    <2>1. s.doc \in Topics => rebuilding = "topics"
      BY <1>3, SearchAssumption
    <2>2. \A x \in syncs :
          /\ x.owner = Reindexer /\ x.doc \in phase
          /\ x.step = "write" => x.found = Wanted(x.doc)
          /\ x.step = "purge" => rebuilding = "topics"
      BY DEF CalmInv
    <2>3. QED
      BY <1>3, <1>4, <1>5, <2>1, <2>2
  <1>10. rebuild \subseteq phase
    BY DEF CalmInv
  <1>11. QED
    BY <1>1, <1>2, <1>7, <1>8, <1>9, <1>10 DEF CalmInv

\* reindex() itself.
LEMMA CalmReindex == IndexInv /\ CalmInv /\ Reindex => CalmInv'
  <1> SUFFICES ASSUME IndexInv, CalmInv, Reindex, calm', rebuilding' # "idle" PROVE CalmInv'
    BY DEF CalmInv
  <1> USE DEF contentVars, outboxVars, dispatchVars, workVars, historyVars
  <1>1. UNCHANGED <<open, rev, gone>>
    BY DEF Reindex, StartReindex, ReindexNext, ReindexPhase, RebuildFrame
  <1>2. \A d : Wanted(d)' = Wanted(d)
    BY <1>1 DEF Wanted, Public, Topic
  <1>3. ASSUME StartReindex PROVE CalmInv'
    BY <1>3 DEF StartReindex, CalmInv, Rebuilt
  <1>4. ASSUME NEW d \in Docs, ReindexNext(d) PROVE CalmInv'
    <2>1. /\ UNCHANGED <<index, rebuilding, calm>> /\ rebuilding # "idle" /\ calm
          /\ rebuild' = rebuild \ {d} /\ d \in rebuild
          /\ syncs' = syncs \union {NewSync(Reindexer, d)}
      BY <1>4 DEF ReindexNext, RebuildFrame
    <2>2. /\ NewSync(Reindexer, d).owner = Reindexer /\ NewSync(Reindexer, d).doc = d
          /\ NewSync(Reindexer, d).step = "read"
      BY DEF NewSync
    <2>3. \A x : Rebuilt(x) => Rebuilt(x)'
      BY <1>2, <2>1, <2>2 DEF Rebuilt
    <2>4. QED
      BY <1>2, <2>1, <2>2, <2>3 DEF CalmInv
  <1>5. ASSUME ReindexPhase PROVE CalmInv'
    <2>1. /\ rebuilding = "topics" /\ rebuilding' = "posts" /\ rebuild = {} /\ rebuild' = Posts
          /\ calm /\ UNCHANGED <<index, syncs>> /\ SyncsOf(Reindexer) = {}
      BY <1>5 DEF ReindexPhase, RebuildFrame, NextPhase, IndexInv, TypeOK
    <2>2. syncs = {}
      BY <2>1 DEF CalmInv, SyncsOf
    <2>3. QED
      BY <1>2, <2>1, <2>2 DEF CalmInv, Rebuilt
  <1>6. QED
    BY <1>3, <1>4, <1>5 DEF Reindex

LEMMA CalmStep == IndexInv /\ CalmInv /\ [Next]_vars => CalmInv'
  <1> SUFFICES ASSUME IndexInv, CalmInv, [Next]_vars, calm', rebuilding' # "idle" PROVE CalmInv'
    BY DEF CalmInv
  <1> USE DEF contentVars, outboxVars, dispatchVars, workVars, rebuildVars, historyVars
  <1>1. ASSUME UNCHANGED <<open, rev, gone, syncs, index, rebuilding, rebuild, calm>> PROVE CalmInv'
    <2>1. \A d : Wanted(d)' = Wanted(d)
      BY <1>1 DEF Wanted, Public, Topic
    <2>2. \A d : Rebuilt(d)' = Rebuilt(d)
      BY <1>1, <2>1 DEF Rebuilt
    <2>3. QED
      BY <1>1, <2>1, <2>2 DEF CalmInv
  <1>2. CASE Reindex
    BY <1>2, CalmReindex
  <1>3. CASE \E s \in syncs : Read(s) \/ Write(s) \/ Purge(s)
    <2>1. calm /\ rebuilding # "idle"
      BY <1>3 DEF Read, Write, Purge, SyncFrame
    <2>2. QED
      BY <1>3, <2>1, CalmSync
  <1>4. ASSUME \/ \E p \in Processes : Restart(p)
               \/ \E w \in Workers : \E s \in SyncsOf(w) : SyncFails(w, s)
        PROVE  CalmInv'
    <2>1. calm /\ rebuilding # "idle"
      BY <1>4 DEF Restart, SyncFails, EventFails
    <2>2. \A s \in syncs : s.owner \notin Workers
      BY <2>1, SearchAssumption DEF CalmInv, Reindexer
    <2>3. UNCHANGED <<open, rev, gone, syncs, index, rebuilding, rebuild, calm>>
      BY <1>4, <2>2 DEF Restart, Slots, SyncFails, SyncsOf
    <2>4. QED
      BY <1>1, <2>3
  <1>5. CASE \/ Dispatch \/ DispatchFails \/ \E e \in Events : BecomeDue(e)
             \/ \E w \in Workers : SetupFails(w) \/ Complete(w)
             \/ \E w \in Workers, e \in Events : TakeJob(w, e)
    <2>1. UNCHANGED <<open, rev, gone, syncs, index, rebuilding, rebuild, calm>>
      BY <1>5 DEF Dispatch, Select, AddJob, MarkProcessing, DispatchFails, BecomeDue, TakeJob,
             SetupFails, EventFails, Complete
    <2>2. QED
      BY <1>1, <2>1
  <1>6. CASE UNCHANGED vars
    BY <1>1, <1>6 DEF vars
  <1>7. QED
    BY <1>2, <1>3, <1>4, <1>5, <1>6
    DEF Next, WritePost, DeletePost, UpdateTopic, DeleteTopic, UpdateForum, Moderate, StartSyncs

\* reindex() leaves the whole index right when nothing changed or was indexed meanwhile.
THEOREM Repaired == Spec => ReindexRepairs
  <1>1. Init => CalmInv
    BY DEF Init, CalmInv
  <1>2. IndexInv /\ CalmInv /\ [Next]_vars =>
          [rebuilding # "idle" /\ rebuilding' = "idle" /\ calm => \A d \in Docs : index[d] = Wanted(d)]_vars
    <2> SUFFICES ASSUME IndexInv, CalmInv, [Next]_vars, rebuilding # "idle", rebuilding' = "idle", calm,
                        NEW d \in Docs
                 PROVE  index[d] = Wanted(d)
      OBVIOUS
    <2>1. ReindexPhase
      BY DEF Next, vars, contentVars, outboxVars, dispatchVars, workVars, rebuildVars, historyVars,
             WritePost, DeletePost, UpdateTopic, DeleteTopic, UpdateForum, Moderate, ChangeFrame,
             Dispatch, Select, AddJob, MarkProcessing, DispatchFails, BecomeDue, TakeJob, Complete,
             StartSyncs, SetupFails, EventFails, Restart, SyncFails, Read, Write, Purge, SyncFrame, Reindex, StartReindex, ReindexNext, RebuildFrame
    <2>2. rebuilding = "posts" /\ rebuild = {} /\ SyncsOf(Reindexer) = {}
      BY <2>1 DEF ReindexPhase, NextPhase, IndexInv, TypeOK
    <2>3. syncs = {}
      BY <2>2 DEF CalmInv, SyncsOf
    <2>4. QED
      BY <2>2, <2>3 DEF CalmInv, Rebuilt, Docs
  <1>3. QED
    BY <1>1, <1>2, IndexInvariant, CalmStep, PTL DEF Spec, ReindexRepairs
=============================================================================
