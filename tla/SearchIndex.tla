---------------------------- MODULE SearchIndex ----------------------------
(***************************************************************************)
(* The search index.  A change of forum content writes an outbox event in   *)
(* its own transaction; a dispatcher turns due events into queue jobs; index *)
(* workers read the content an event is about and write or remove its       *)
(* documents in Meilisearch.  reindex() rebuilds the index from PostgreSQL. *)
(* A process configures Meilisearch once, before its first event.           *)
(*                                                                         *)
(* One place with one forum holds all topics, so one flag says whether both *)
(* are public and unarchived.  A document is known by the revision of the   *)
(* content it was made from; time appears as events becoming due again.     *)
(***************************************************************************)
EXTENDS Naturals, FiniteSets

CONSTANTS
    Topics, Posts,
    TopicOf,        \* the topic of a post
    Workers,        \* concurrent jobs (concurrency 4 per worker process)
    Processes,      \* worker processes
    ProcessOf,      \* the process of a worker
    MaxEvents,      \* bound on outbox events
    MaxIncidents,   \* bound on moderation actions, reindexes, failures and restarts
    Nobody          \* no worker

ASSUME SearchAssumption ==
    /\ TopicOf \in [Posts -> Topics] /\ ProcessOf \in [Workers -> Processes]
    /\ Topics \cap Posts = {} /\ "forum" \notin Topics \union Posts
    /\ Nobody \notin Workers /\ "reindex" \notin Workers \union {Nobody}
    /\ MaxEvents \in Nat /\ MaxIncidents \in Nat

Docs   == Topics \union Posts
Events == 1 .. MaxEvents
Absent == 0                       \* no such document
Reindexer == "reindex"

VARIABLES
    open,         \* the place and the forum are public and not archived
    rev,          \* revision of a topic's or a post's searchable content
    gone,         \* rows with deleted_at
    events,       \* how many outbox events exist
    about,        \* what each is about: a topic, a post, or the "forum"
    status,       \* outbox_events.status
    due,          \* events whose available_at has come
    job,          \* state of the job outbox-<event>
    todo, current,\* dispatcher: events still to dispatch, the one in hand
    setup,        \* process: how its one call of configureIndex() ended
    working,      \* worker: the event of its job
    preparing,    \* workers that await ensureIndex()
    syncs,        \* syncTopic/syncPost calls under way
    index,        \* Meilisearch: the revision of each document
    rebuilding, rebuild,  \* reindex(): phase, and documents still to sync
    calm,         \* reindex() has had the index to itself (history)
    overlapped,   \* documents whose latest read overlapped another sync (history)
    unannounced,  \* documents changed without an event since their latest read (history)
    incidents

contentVars  == <<open, rev, gone>>
outboxVars   == <<events, about, status, due>>
dispatchVars == <<todo, current>>
workVars     == <<setup, working, preparing, syncs>>
rebuildVars  == <<rebuilding, rebuild, calm>>
historyVars  == <<overlapped, unannounced>>
vars == <<contentVars, outboxVars, job, dispatchVars, workVars, index, rebuildVars, historyVars,
          incidents>>

\* The topicDocument()/postDocument() query: what of a row is public now.
Topic(d)   == IF d \in Posts THEN TopicOf[d] ELSE d
PostsOf(t) == {p \in Posts : TopicOf[p] = t}
Public(d)  == open /\ d \notin gone /\ Topic(d) \notin gone
Wanted(d)  == IF Public(d) THEN rev[d] ELSE Absent

Sync == [owner : Workers \union {Nobody, Reindexer}, doc : Docs,
         step : {"read", "write", "purge"}, found : Nat]
NewSync(w, d) == [owner |-> w, doc |-> d, step |-> "read", found |-> Absent]
SyncsOf(w)    == {s \in syncs : s.owner = w}

Init ==
    /\ open = TRUE
    /\ rev = [d \in Docs |-> 1]
    /\ gone = {}
    /\ events = 0
    /\ about = [e \in Events |-> "forum"]
    /\ status = [e \in Events |-> "none"]
    /\ due = {}
    /\ job = [e \in Events |-> "none"]
    /\ todo = {} /\ current = 0
    /\ setup = [p \in Processes |-> "none"]
    /\ working = [w \in Workers |-> 0] /\ preparing = {}
    /\ syncs = {}
    /\ index = [d \in Docs |-> 1]
    /\ rebuilding = "idle" /\ rebuild = {} /\ calm = FALSE
    /\ overlapped = {} /\ unannounced = {}
    /\ incidents = 0

Incident == incidents < MaxIncidents /\ incidents' = incidents + 1

-----------------------------------------------------------------------------
(* Changes of content.                                                     *)

\* emit(): the event row is inserted by the transaction that changes content.
Emit(subject) ==
    /\ events < MaxEvents
    /\ events' = events + 1
    /\ about' = [about EXCEPT ![events + 1] = subject]
    /\ status' = [status EXCEPT ![events + 1] = "pending"]
    /\ due' = due \union {events + 1}

Revise(ds) == rev' = [d \in Docs |-> IF d \in ds THEN rev[d] + 1 ELSE rev[d]]

ChangeFrame == UNCHANGED <<job, dispatchVars, workVars, index, rebuilding, rebuild, overlapped>>

\* reply, editPost: the post's text is part of its topic's document too.
WritePost(p) ==
    /\ p \notin gone /\ TopicOf[p] \notin gone
    /\ Emit(p) /\ Revise({p, TopicOf[p]})
    /\ calm' = FALSE
    /\ UNCHANGED <<open, gone, unannounced, incidents>> /\ ChangeFrame

DeletePost(p) ==
    /\ p \notin gone
    /\ Emit(p) /\ Revise({TopicOf[p]})
    /\ gone' = gone \union {p}
    /\ calm' = FALSE
    /\ UNCHANGED <<open, unannounced, incidents>> /\ ChangeFrame

\* updateTopic: the title is part of the documents of its posts.
UpdateTopic(t) ==
    /\ t \notin gone
    /\ Emit(t) /\ Revise({t} \union PostsOf(t))
    /\ calm' = FALSE
    /\ UNCHANGED <<open, gone, unannounced, incidents>> /\ ChangeFrame

DeleteTopic(t) ==
    /\ t \notin gone
    /\ Emit(t)
    /\ gone' = gone \union {t}
    /\ calm' = FALSE
    /\ UNCHANGED <<open, rev, unannounced, incidents>> /\ ChangeFrame

\* The forum's or the place's visibility changes, or one is archived.
UpdateForum ==
    /\ Emit("forum")
    /\ open' = ~open
    /\ calm' = FALSE
    /\ UNCHANGED <<rev, gone, unannounced, incidents>> /\ ChangeFrame

\* executeAction hides or restores a post or a topic: its event,
\* moderation.action.created, is not one the dispatcher selects.
Moderate(d) ==
    /\ Incident
    /\ gone' = IF d \in gone THEN gone \ {d} ELSE gone \union {d}
    /\ Revise({Topic(d)})
    /\ unannounced' = unannounced \union {d, Topic(d)}
    /\ calm' = FALSE
    /\ UNCHANGED <<open, outboxVars>> /\ ChangeFrame

-----------------------------------------------------------------------------
(* The dispatcher: dispatch(), one run at a time.                          *)

\* Which of the due events the SELECT returns.
Selectable_NotFailed(e) == status[e] \in {"pending", "processing"}   \* mutated
Selectable(e)           == status[e] \in {"pending", "failed", "processing"}

Select ==
    /\ todo = {} /\ current = 0
    /\ todo' = {e \in due : Selectable(e)}
    /\ todo' # {}
    /\ UNCHANGED <<contentVars, outboxVars, job, current, workVars, index, rebuildVars, historyVars, incidents>>

Known_Never(e) == FALSE                        \* mutated: jobs without a jobId
Known(e)       == job[e] # "none"

\* queue.add, oldest event first; a jobId the queue still knows is ignored.
AddJob ==
    /\ current = 0
    /\ \E e \in todo :
          /\ \A f \in todo : e <= f
          /\ current' = e
          /\ todo' = todo \ {e}
          /\ job' = IF Known(e) THEN job ELSE [job EXCEPT ![e] = "waiting"]
    /\ UNCHANGED <<contentVars, outboxVars, workVars, index, rebuildVars, historyVars, incidents>>

\* The UPDATE: the event is processing, and due again after a minute, even if
\* it has been completed since it was added.
MarkProcessing ==
    /\ current # 0
    /\ status' = [status EXCEPT ![current] = "processing"]
    /\ due' = due \ {current}
    /\ current' = 0
    /\ UNCHANGED <<contentVars, events, about, job, todo, workVars, index, rebuildVars, historyVars, incidents>>

DispatchFails ==
    /\ todo # {} \/ current # 0
    /\ Incident
    /\ todo' = {} /\ current' = 0
    /\ UNCHANGED <<contentVars, outboxVars, job, workVars, index, rebuildVars, historyVars>>

\* available_at comes.
BecomeDue(e) ==
    /\ status[e] \in {"processing", "failed"} /\ e \notin due
    /\ due' = due \union {e}
    /\ UNCHANGED <<contentVars, events, about, status, job, dispatchVars, workVars, index, rebuildVars, historyVars, incidents>>

-----------------------------------------------------------------------------
(* Index workers: processOutboxEvent().                                    *)

\* indexEvent: what an event of each kind brings up to date.
Targets_NoForum(e) == {about[e]} \ {"forum"}   \* mutated: forum events sync no topics
Targets(e) ==
    IF about[e] = "forum" THEN Topics
    ELSE IF about[e] \in Posts THEN {about[e], TopicOf[about[e]]}
    ELSE {about[e]}

TakeJob(w, e) ==
    /\ working[w] = 0 /\ job[e] = "waiting"
    /\ job' = [job EXCEPT ![e] = "active"]
    /\ working' = [working EXCEPT ![w] = e]
    /\ preparing' = preparing \union {w}
    /\ UNCHANGED <<contentVars, outboxVars, dispatchVars, setup, syncs, index, rebuildVars, historyVars, incidents>>

\* ensureIndex(): the process's promise is kept and awaited ever after.
Configures(w, outcome) ==
    /\ w \in preparing
    /\ setup[ProcessOf[w]] \in {"none", outcome}
    /\ setup' = [setup EXCEPT ![ProcessOf[w]] = outcome]
    /\ preparing' = preparing \ {w}

\* It is fulfilled: the syncs of the event run side by side (Promise.all).
StartSyncs(w) ==
    /\ Configures(w, "done")
    /\ syncs' = syncs \union {NewSync(w, d) : d \in Targets(working[w])}
    /\ calm' = FALSE
    /\ UNCHANGED <<contentVars, outboxVars, job, dispatchVars, working, index, rebuilding, rebuild, historyVars, incidents>>

\* markFailed(); the queue tries the job again or, at the end, forgets it.
EventFails(w) ==
    LET e == working[w] IN
    /\ status' = [status EXCEPT ![e] = "failed"]
    /\ due' = due \ {e}
    /\ \E next \in {"waiting", "none"} : job' = [job EXCEPT ![e] = next]
    /\ working' = [working EXCEPT ![w] = 0]
    /\ UNCHANGED <<contentVars, events, about, dispatchVars, index, rebuildVars, historyVars>>

\* It is rejected, now or, once Meilisearch could not be reached, every time.
SetupFails(w) ==
    /\ IF setup[ProcessOf[w]] = "none" THEN Incident ELSE UNCHANGED incidents
    /\ Configures(w, "failed")
    /\ EventFails(w)
    /\ UNCHANGED syncs

SyncFrame == UNCHANGED <<contentVars, outboxVars, job, dispatchVars, setup, working, preparing, rebuildVars, incidents>>

\* topicDocument(), postDocument(): the document as the database has it now.
Read(s) ==
    /\ s \in syncs /\ s.step = "read"
    /\ syncs' = (syncs \ {s}) \union {[s EXCEPT !.step = "write", !.found = Wanted(s.doc)]}
    /\ overlapped' = IF \E r \in syncs : r.doc = s.doc /\ r.step = "write"
                     THEN overlapped \union {s.doc} ELSE overlapped \ {s.doc}
    /\ unannounced' = unannounced \ {s.doc}
    /\ UNCHANGED index /\ SyncFrame

\* upsert() or remove(), which wait until Meilisearch has done it.  When a topic
\* is not public its posts' documents are removed after its own.
Write(s) ==
    /\ s \in syncs /\ s.step = "write"
    /\ index' = [index EXCEPT ![s.doc] = s.found]
    /\ syncs' = (syncs \ {s}) \union
          (IF s.doc \in Topics /\ s.found = Absent THEN {[s EXCEPT !.step = "purge"]} ELSE {})
    /\ UNCHANGED historyVars /\ SyncFrame

Purge(s) ==
    /\ s \in syncs /\ s.step = "purge"
    /\ index' = [d \in Docs |-> IF d \in PostsOf(s.doc) THEN Absent ELSE index[d]]
    /\ syncs' = syncs \ {s}
    /\ UNCHANGED historyVars /\ SyncFrame

\* All syncs are done: the event is completed and its job removed.
Complete(w) ==
    LET e == working[w] IN
    /\ e # 0 /\ w \notin preparing /\ SyncsOf(w) = {}
    /\ status' = [status EXCEPT ![e] = "completed"]
    /\ job' = [job EXCEPT ![e] = "none"]
    /\ working' = [working EXCEPT ![w] = 0]
    /\ UNCHANGED <<contentVars, events, about, due, dispatchVars, setup, preparing, syncs, index, rebuildVars, historyVars, incidents>>

Detached(S) == {[s EXCEPT !.owner = Nobody] : s \in S}

\* One sync throws.  The others of its job go on unwatched, as it may itself in
\* Meilisearch.
SyncFails(w, s) ==
    /\ s \in SyncsOf(w)
    /\ Incident
    /\ \E left \in {SyncsOf(w), SyncsOf(w) \ {s}} :
          syncs' = (syncs \ SyncsOf(w)) \union Detached(left)
    /\ EventFails(w)
    /\ UNCHANGED <<setup, preparing>>

\* A process dies and is started again; the queue gives its jobs to others.
Slots(p) == {w \in Workers : ProcessOf[w] = p}
JobsOf(p) == {working[w] : w \in Slots(p)}

Restart(p) ==
    /\ Incident
    /\ setup' = [setup EXCEPT ![p] = "none"]
    /\ job' = [e \in Events |-> IF e \in JobsOf(p) THEN "waiting" ELSE job[e]]
    /\ working' = [w \in Workers |-> IF w \in Slots(p) THEN 0 ELSE working[w]]
    /\ preparing' = preparing \ Slots(p)
    /\ syncs' = {s \in syncs : s.owner \notin Slots(p)}
    /\ UNCHANGED <<contentVars, outboxVars, dispatchVars, index, rebuildVars, historyVars>>

-----------------------------------------------------------------------------
(* reindex(): clear the index, then sync every topic, then every post.     *)

StartReindex ==
    /\ rebuilding = "idle"
    /\ Incident
    /\ index' = [d \in Docs |-> Absent]
    /\ rebuilding' = "topics" /\ rebuild' = Topics
    /\ calm' = (syncs = {})
    /\ UNCHANGED <<contentVars, outboxVars, job, dispatchVars, workVars, historyVars>>

RebuildFrame == UNCHANGED <<contentVars, outboxVars, job, dispatchVars, setup, working, preparing, index, calm, historyVars, incidents>>

ReindexNext(d) ==
    /\ d \in rebuild /\ SyncsOf(Reindexer) = {}
    /\ rebuild' = rebuild \ {d}
    /\ syncs' = syncs \union {NewSync(Reindexer, d)}
    /\ UNCHANGED rebuilding /\ RebuildFrame

\* The loops of reindex(), one after the other.
NextPhase_TopicsOnly(phase) == "idle"                \* mutated: posts are not rebuilt
NextPhase(phase) == IF phase = "topics" THEN "posts" ELSE "idle"

ReindexPhase ==
    /\ rebuilding # "idle" /\ rebuild = {} /\ SyncsOf(Reindexer) = {}
    /\ rebuilding' = NextPhase(rebuilding)
    /\ rebuild' = IF rebuilding' = "posts" THEN Posts ELSE {}
    /\ UNCHANGED syncs /\ RebuildFrame

-----------------------------------------------------------------------------
Dispatch == Select \/ AddJob \/ MarkProcessing

Work(w) ==
    \/ StartSyncs(w) \/ SetupFails(w) \/ Complete(w)
    \/ \E s \in SyncsOf(w) : Read(s) \/ Write(s) \/ Purge(s)

Reindex == StartReindex \/ (\E d \in Docs : ReindexNext(d)) \/ ReindexPhase

Next ==
    \/ \E p \in Posts : WritePost(p) \/ DeletePost(p)
    \/ \E t \in Topics : UpdateTopic(t) \/ DeleteTopic(t)
    \/ UpdateForum
    \/ \E d \in Docs : Moderate(d)
    \/ Dispatch \/ DispatchFails
    \/ \E e \in Events : BecomeDue(e)
    \/ \E w \in Workers, e \in Events : TakeJob(w, e)
    \/ \E s \in syncs : Read(s) \/ Write(s) \/ Purge(s)
    \/ \E w \in Workers : StartSyncs(w) \/ SetupFails(w) \/ Complete(w)
    \/ \E p \in Processes : Restart(p)
    \/ \E w \in Workers : \E s \in SyncsOf(w) : SyncFails(w, s)
    \/ Reindex

\* The dispatcher's timer fires for ever, time passes, workers run and the queue
\* hands out its jobs in order.
Fairness ==
    /\ WF_vars(Dispatch)
    /\ \A e \in Events : WF_vars(BecomeDue(e))
    /\ \A e \in Events : SF_vars(\E w \in Workers : TakeJob(w, e))
    /\ \A w \in Workers : WF_vars(Work(w))

Spec     == Init /\ [][Next]_vars
FairSpec == Spec /\ Fairness

-----------------------------------------------------------------------------
(* Properties.                                                             *)

\* The shape of the outbox, the queue, the syncs and the index.
TypeOK ==
    /\ open \in BOOLEAN
    /\ rev \in [Docs -> Nat \ {0}]
    /\ gone \subseteq Docs
    /\ events \in 0 .. MaxEvents
    /\ about \in [Events -> Docs \union {"forum"}]
    /\ status \in [Events -> {"none", "pending", "processing", "failed", "completed"}]
    /\ due \subseteq Events
    /\ job \in [Events -> {"none", "waiting", "active"}]
    /\ todo \subseteq 1 .. events /\ current \in 0 .. events
    /\ setup \in [Processes -> {"none", "done", "failed"}]
    /\ working \in [Workers -> 0 .. events] /\ preparing \subseteq Workers
    /\ \A e \in Events : (job[e] = "active") <=> \E w \in Workers : working[w] = e
    /\ \A v, w \in Workers : v # w /\ working[v] # 0 => working[v] # working[w]
    /\ \A s \in syncs : s \in Sync
    /\ index \in [Docs -> Nat]
    /\ rebuilding \in {"idle", "topics", "posts"} /\ rebuild \subseteq Docs

\* Everything dispatched has been processed and nothing is under way.
AtRest ==
    /\ \A e \in 1 .. events : status[e] = "completed"
    /\ \A e \in Events : job[e] = "none"
    /\ todo = {} /\ current = 0 /\ syncs = {} /\ rebuilding = "idle"

\* After any failures, retries and redispatches, a topic's document is what
\* PostgreSQL has, unless syncs of that topic overlapped or it was moderated.
TopicsCurrentUnlessOverlapped ==
    AtRest => \A t \in Topics \ (overlapped \union unannounced) : index[t] = Wanted(t)

\* Every event is processed in the end, whatever fails in between, if somebody restarts
\* a process that failed to configure Meilisearch: it would never do so again.
EventsComplete ==
    (\A p \in Processes : []<>(setup[p] # "failed")) =>
        \A e \in Events : status[e] = "pending" ~> status[e] = "completed"

\* reindex() repairs the whole index when nothing else happens meanwhile.
ReindexRepairs ==
    [][rebuilding # "idle" /\ rebuilding' = "idle" /\ calm => \A d \in Docs : index[d] = Wanted(d)]_vars

\* Claimed: results are rebuilt from PostgreSQL after durable outbox events, so once
\* the events of all changes are processed a public reply is found.
PublicPostsAreFound ==
    AtRest => \A p \in Posts \ unannounced :
                 Public(p) /\ p \notin overlapped => index[p] # Absent
=============================================================================
