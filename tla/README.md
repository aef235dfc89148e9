# TLA+ models of Displace

Displace is a forum and community platform. Its server (`src/repos/server`) is a NestJS
program that runs as two kinds of process, the API (`main.ts`) and the worker
(`worker.ts`), any number of each, around PostgreSQL (READ COMMITTED), Redis with BullMQ
queues, S3-compatible storage, Meilisearch and LiveKit. A desktop client
(`src/repos/desktop`) holds a session, one realtime connection and views of what the server
has. This directory models the parts in which processes, stores, clients and retries
interact, checks them with TLC on small instances, and proves the central invariants of
eight of them with TLAPS for every size.

All paths below are relative to `src/repos/server/src` unless they start with `src/`.
`PROJECT.json` maps every definition to the lines it models.

## 1. Inventory

| Component | State | Operations | What is hard | What makes it correct |
|---|---|---|---|---|
| Topic view counting (`forums/topic-view-counter.*`) | Redis counters and batch keys; `topics.view_count`; the ledger `topic_view_flushes` | record (API); flush, stage, apply, delete, prune (worker) | crash between commit and DEL, lost acknowledgements, several workers, expiry of keys against pruning of the ledger | no view counted twice; none lost but by expiry; all settle |
| Uploads and media (`assets/`) | `upload_intents`, `assets`, `asset_variants`; objects; BullMQ jobs | reserve, PUT, complete, process, reject, fail, clean up | three stores without a common transaction; a signed URL used again; retries and stalled jobs; expiry racing completion | only checked, re-encoded content is served; cleanup spares assets; quotas |
| Search index and outbox (`search/`, `jobs/`) | `outbox_events`, jobs, Meilisearch documents | emit, dispatch, index, reindex | at-least-once delivery, overlapping reads and writes, partial failure, a set-up that failed and is not tried again | the index becomes what PostgreSQL has; every event completes |
| Places and membership (`places/`) | one place, its members, roles, grants, invites, bans | join, approve, leave, remove, transfer, invites, bans, roles, archive | long legal sequences of several managers; checks made before the transaction | one owner, who outranks all; no escalation; bans hold; invite limits |
| Forums, topics and posts (`forums/`) | groups, forums, tags, topics, posts, revisions, reactions, read state, idempotency keys | create, reply, edit, delete, lock, pin, move, react, follow, read | duplicate deliveries, key expiry, lost updates, locks taken between check and write | one post per key; no lost update; a closed topic stays quiet; counters agree |
| Moderation (`moderation/`) | reports, actions, sanctions, notes | act on content and members, appeal, expire, bulk | several moderators on one report; bulk runs half done | every sanction in force is honoured; a report is decided once |
| Authentication (`auth/`) | users, sessions, tokens, mail jobs; the desktop's token store | register, verify, log in, refresh, revoke, reset, suspend | refresh rotation against revocation, lost answers that make an honest client reuse a token, a refresh that answers after sign-out | a token is exchanged once; what was revoked stays so; reuse detection punishes no client that got its answers |
| Developer API (`developer-api/`) | tokens and scopes | issue, list, revoke | little | a revoked token is refused |
| Chat (`chat/`) | channels, messages, read positions; a conversation's view | send, edit, delete, mark read, list | duplicate commands, broadcasts after the commit in another order, a list that races with joining the room and goes back one page only | one message per command, announced once; views catch up |
| Realtime (`realtime/`) | socket rooms, presence keys | join, leave, publish | authority lost while a socket is in a room; events while nobody is connected | no event to a member who left |
| Notifications (`notifications/`) | notification rows; the desktop's inbox | list, mark read, dismiss | events published while the client reconnects | the inbox shows what there is |
| Paged lists (`platform/pagination/`) | a cursor in the client's hand | read the next page | rows that appear, leave or change place while the list is read; keys cut to milliseconds | what is there all the time is shown once |
| Voice (`voice/`) | rooms; LiveKit's participants | join token, permissions, webhook | capacity checked before a token is used | capacity and grants |
| Platform, configuration, database, health, OpenAPI | rate-limit counters, schema | request plumbing | little | |
| Desktop client (`src/repos/desktop`) | session, credential store, one realtime connection, views | sign in and out, renew, connect, subscribe, merge events and answers | every answer may come late, twice or never; the program may be quit at any step | signed out means no token kept; views agree with the server at rest |
| Web and shared clients (`src/repos/web`, `shared`) | pages rendered on a server | user interface over the API | little | |

How they interact. API and worker share nothing but the stores. The forum transactions
insert `outbox_events` rows; the dispatcher in the worker turns them into `search` jobs.
Completing an upload enqueues a media job. Membership is read by every other component
before, and by mutations of the place again inside, a transaction that locks the place's
row. Moderation changes the rows of membership, forums and assets. Chat and moderation
publish realtime events after their transactions.

## 2. Modules

| Module | Role |
|---|---|
| `TopicViews` | abstract specification: a view waits, then is credited once or given up |
| `ViewCounter` | the Redis and PostgreSQL protocol that implements it |
| `ViewCounterProofs` | proofs: types, no view counted twice, the refinement, only expiry loses |
| `Uploads`, `UploadsProofs` | upload intents, assets, media jobs and cleanup; what becomes ready, what cleanup spares |
| `SearchIndex`, `SearchIndexProofs` | outbox, dispatcher, index workers and reindex; whose duty a stale document is |
| `Membership`, `MembershipProofs` | members, roles, invites, bans and ownership of a place; its invariant, no escalation |
| `IdempotentPosts` | abstract specification: each delivery of a creation is decided at one instant |
| `Threads`, `ThreadsProofs` | idempotent creation, edits, deletion and locking of a topic's posts; one post per key, no lost update, the refinement |
| `Sessions` | the sessions of an account and the desktops that hold them |
| `SessionsProofs` | proofs: rotation and revocation; reuse detection and what clients hold; who stays signed in |
| `Chat`, `ChatProofs` | one channel from the command to the view of a conversation; one message per command, views at rest show the database |
| `Pages`, `PagesProofs` | the API's sixteen paged lists, read while their rows change; nothing skipped, nothing twice |
| `Inbox` | notifications, the realtime connection of the desktop, and its inbox |
| `MC*` | the instances for TLC |

One style throughout: the unit of interleaving is what the code makes atomic (a Redis
command or script, a committed transaction, one statement where there is no transaction,
one call to a store, one turn of the client's event loop); every `await` between two of them
is a place where another process may step in, and a failed call either has no effect or took
effect without its answer. What a process remembers between steps is a variable of that
process (`hand`, `hintent`, `syncs`, `expected`, `job`). Variables marked "history" are not
in the program: they record what a property speaks of and no guard reads them.

### ViewCounter

`Record` is `TopicViewCounterService.record`. A worker's `flush()` is a program counter
through `StartFlush` (SCAN of batch keys), `NextBatch`, `ScanCounters`, `Stage` (the Lua
script), `GetBatch`, `Apply` (the transaction `flushViews`), `DeleteBatch` and `Prune`.
`ApplyFails` commits or not and keeps the key; `Restart` loses the process's memory.
`Tick` lets keys expire. A counter is modelled by the set of views it counts, which lets
"counted twice" be said of a view. `MaxHold` bounds how long a worker can sit between GET
and its transaction; the assumption `BatchTtl + MaxHold <= Retention` is the code's 30 days
against 31.

### Uploads

`BeginReserve`/`EndReserve` are the two sums of `reserveIntent` under its advisory lock.
`FindIntent`, `Head`, `CompleteIntent` and `Enqueue` are the awaits of `completeUpload`;
`BeginProcessing` to `MarkRejected` those of `process`, `reject` and `fail`; `Claim`,
`CleanObject` and `MarkIntentCleaned` those of the hourly run. BullMQ is external: a job
has attempts, a lock holder and a stall count; `Stall` gives an active job to another
worker while the first may still be running. Sizes are all one, and one quota stands for the
user's and the place's. `Put` is any PUT through the signed URL, which `createUploadUrl` signs
without a condition that there be no object yet, on the key that holds the re-encoded original
later: a client may PUT again at any time. `store` is what the object is now; `rewritten` names the
objects that a PUT replaced after the worker that goes on with them had read them, or after
the asset was ready. References to ready assets from profiles, places and posts are not
modelled.

### SearchIndex

A document is known by the revision of the content it was made from, so "the index has
what PostgreSQL has" is an equation. `Emit` is part of each content change, as it is of
its transaction. `Select`, `AddJob` and `MarkProcessing` are the dispatcher. A worker takes
a job (`TakeJob`) and awaits `ensureIndex()`, whose promise its process keeps (`setup`): fulfilled,
it lets the syncs of the event begin (`StartSyncs`; they run side by side), rejected, it fails this
event and every later one of the process (`SetupFails`) until that is started again (`Restart`).
`Read` and `Write` are the query and the Meilisearch task of one sync. `SyncFails` leaves the
siblings running unwatched, as `Promise.all` does. The reindexing command is a process of its own; if
its set-up fails it ends before it has cleared anything, and so is left out. Two history variables name the known gaps: `overlapped` (two
syncs of a document at once) and `unannounced` (moderation, whose events are not
selected).

### Membership

Every mutation starts with `SELECT ... FOR UPDATE` of the place, so each is one action
with the checks made inside the transaction; the service's earlier checks only refuse.
`Can`, `Above`, `Outranks` and `CanManageRole` are the policy functions. Expiry of
invites, bans and timeouts is a step of its own, which admits any clock.

### Threads

A creation request goes through `Begin`, `Replay` (before the transaction), `Claim` (in
it) and `Reply` or `CreateTopic`; the claim holds the key's row until the transaction
ends in `Release`. An edit is `BeginEdit` (the checks before the transaction) and
`EditPost` or `DeletePost` (under the topic's row lock). Moderation, locking, deletion and
restoring of the topic may come between any two of these.

`IdempotentPosts` has the requests, the clock and the posts, and none of the rows, claims
and transactions: a request is asked at one time and decided at one instant. `Threads` maps
its program counters to "new", "asked" and "decided" (`Phase`) and its posts, but for the opening
one, to the abstract ones (`Abstract`). The abstract promise is stronger than one post per key: it
says which post answers a repetition, and that a new one is made only when no live one exists.

### Sessions

The server serves a request in steps: `Guard` (the access token's session, on every
authenticated request), `LoginRead`/`LoginInsert`, `RefreshFind`, `RefreshRotate` or
`RefreshRefused`, `RefreshActive`, `RevokeRow`. An UPDATE of several rows is `UpdateBegin` and
`UpdateEnd`: under READ COMMITTED it sees the rows of its beginning and skips those that changed
since, which is where a rotation can slip through. `Suspend` and `Restore` are the instance
administrator's. The desktop's part follows `native_auth.rs` and `auth-client.ts`: `StoreToken`
and `Refused` happen under the mutex that a refresh holds, `Remember` is the renderer's, and
`ClearStore` is the `forget()` that waits for the mutex. `Abandon` (the connection breaks and the
server goes on), `Fail` (it does not) and `Quit` may happen at any step. A row and its token share
one identity; the random part of tokens, hashes and password checks are left out, a user is taken
to know the password, and a reset to have an open mail token.

### Chat

`Send`, `Edit` and `Delete` are commands by REST or gateway; `CreateCheck`, `CreateInsert`,
`UpdateMessage` and `DeleteMessage` their transactions, `Reread` what is read again afterwards and
`Publish` the event to the sockets in the room, so that commits and events may be in different
orders. A new message has its `created_at`, and with it its place in the channel, from the start of the
transaction (`CreateCheck`), which may commit after that of a later one. A handler serves one request.
The channel is, at first, as earlier commands left it.

A conversation lists (`ListRead`, `ListArrives`), subscribes when it has loaded or the
connection's state changes, lists again on `chat.joined`, and merges events (`Receive`) and the
answers to its own commands (`Answer`), each by replacing what it shows. A list is the newest page
(`Newest`, `Page`), and merging it leaves older messages as they are shown. A message is known by its
version. Two history variables name what the code does not promise: `excused`, an event lost between
commit and publish, and an older version applied after a newer one; and `missed`, messages older than
the page when a list was read that the conversation did not show as they were. "Load older messages"
is not modelled: it adds older pages, and the change of `page` runs the subscription effect again.

### Pages

The sixteen paged lists are records: how many ranks come before the time in the order, whether
rows keep microseconds, in which direction it goes, whether rows may leave, move or be hidden after the
query, and what the cursor is made of. `Read` is the query, the extra row that shows there is
more, and the encoding of the cursor (`CursorKeys`): times cut to milliseconds, the feed's score
rounded, an offset for search, the first row in the chat. `Change` is what happens to the rows
meanwhile. Two units of the model's time are one millisecond.

### Inbox

`Mention` and `Decision` make notifications with and without an event; `Change` marks one as read
or dismissed, here or elsewhere; `Publish` and `Crash` are what becomes of the event. The connection is
`RealtimeClient`: its socket, its token, the pending renewal after a refusal, the network and the
window's visibility. The inbox lists when the session begins and follows events afterwards.

## 3. Runs

| Run | Instance | Shows |
|---|---|---|
| `view_counter` | 1 view, 2 batches, 2 workers, 2 faults, times 2/3/4/1 up to 4 | `TypeOK`, `CountedOnce`, `LostOnlyByExpiry`, `EveryViewSettles`, and that `ViewCounter` implements `TopicViews` |
| `uploads` | 1 intent, 2 handlers, 2 workers, 2 cleaners, 2 attempts, 1 stall, 2 faults, 2 PUTs | `TypeOK`, `OnlyCheckedContentIsReady`, `ReadyImagesAreReencoded`, `CleanupSparesAssets`, `JobsEnd`, `ExpiredIntentsAreCleaned` |
| `uploads_retry` | 1 intent, 1 PUT, 1 fault | a valid image is rejected by a retry (violation) |
| `uploads_quota` | 2 intents, quota 1, 2 PUTs, no fault | the quota is exceeded (violation) |
| `search_index` | a topic with a reply, 1 process with 2 workers, 1 event, 2 incidents | `TypeOK`, `TopicsCurrentUnlessOverlapped`, `EventsComplete`, `ReindexRepairs` |
| `search_index_reopen` | a topic with a reply, 2 events | a public reply is not found (violation) |
| `membership` | 2 users, 3 seeded roles and 1 made later, 2 positions, 2 bundles, 1 invite of 1 or 2 uses | `TypeOK`, `OneOwner`, `OwnerOutranksAll`, `BannedStayOut`, `RolesEndWithMembership`, `InviteLimitHolds`, `NoEscalation` |
| `threads` | 2 creations, 2 edits, 2 reply keys, 1 topic key, 2 bodies, window 1, clock to 1 | `TypeOK`, `OnePostPerWindow`, `AnswersMatchRequests`, `CountersMatchReplies`, `NoLostUpdate`, `QuietWhenClosed`, and that `Threads` implements `IdempotentPosts` |
| `sessions` | 1 client, 2 requests at once, 3 rows, 2 incidents | `OneLivePerFamily`, `RevokedStayRevoked`, `ReuseMeansLostAnswer`, `SignedOutStoresNothing`, `StaysSignedIn` |
| `chat` | 1 conversation, 2 executions of commands, 2 command identifiers, 2 messages in any state, pages of 1 message, 1 incident | `OneMessagePerCommand`, `AnnouncedOnce`, `ViewsCatchUp` |
| `pages` | each of the 16 lists, 3 rows, 2 milliseconds, pages of 1 or 2 rows, 2 changes | `NothingSkipped`, `NothingTwice` |
| `inbox` | 3 notifications, 2 to a page, 2 incidents | a notification is not shown after reconnecting (violation) |

Why the bounds are enough for the cases that matter: each hazard involves two actors on
one object, and every instance has two of the actors that race and one or two objects. The
clocks reach past every expiry (a batch's, a ledger row's, a key's). Faults may happen at any
step; the instances with a crash-sensitive protocol allow as many as it takes to use up
its attempts. A PUT can be followed by one more, which is what it takes to replace an object
that was read, re-encoded or served. One process of `search_index` has both workers, so that a set-up
that fails for one fails for the other. `chat` starts from every state of two messages, each of which
may be the page or be older than it, and lets two commands work on them: what more executions would
do in sequence, the initial states have done already. `sessions` has three rows because a family needs a spent token, its live
successor and one more that a race could add. Safety is proved for every size
as well, so each instance is the smallest that shows every case and
leaves room for liveness and faults in the same run. Symmetry is used in runs without
liveness only, over actors that the specification does not tell apart.

Deadlock checking is off everywhere because every model has a bound (clock, events,
faults, requests) at which it may rightly stop.

### Findings

1. **A retry rejects a valid image.** The processor replaces the original by its
   re-encoding before it marks the asset ready; if anything fails in between, the next
   attempt compares the new object's size with the size of the upload
   (`assets/media-processor.service.ts:33`, `:61`), rejects the asset and deletes it.
2. **Quotas can be exceeded.** `reserveIntent` adds up assets and then pending intents in
   two statements; a completion between them is in neither sum, and completing takes no
   lock of the place (`assets/assets.repository.ts:38-62`, `:95`).
3. **A forum that is closed and opened again loses its replies in search.** Closing
   removes the documents of topics and posts, opening syncs topics only
   (`search/search.service.ts:188-233`).
4. **What is published while the desktop reconnects is not shown.** The client emits
   `notifications.sync` on every connection and reads no answer
   (`src/repos/desktop/src/lib/realtime/realtime-client.ts:110`), and the inbox lists only when
   the session's status changes (`notification-context.tsx:57-76`); the desktop's README
   (`:76`) speaks of resume reconciliation.

### Known gaps

Behaviour seen while modelling that no run shows as a violation. The properties exclude it by name (a
history variable or a condition), so that they say exactly how far the code's promise goes. Most
of it no sentence of the repository contradicts. Of the chat's gaps some do:
`src/repos/desktop/README.md:77` promises paging of a channel's history, its line 76 resume
reconciliation, and `src/docs/desktop-app-implementation-plan.md:94-95` that uncertain state is
reconciled against REST history and late acknowledgements are reconciled safely.

- *Uploads*: the signed URL stays good until it expires, so a PUT after the worker has read the object,
  or after the asset is ready, puts content there that nobody checked or re-encoded (`rewritten`;
  `assets/object-storage.service.ts:40-64`); the acknowledgement of `markReady` lost on the last attempt deletes a ready asset's
  object; `fail()` may itself fail, and then the asset stays in processing; a PUT after
  cleanup leaves an object no row knows; a rejected asset's variants are not deleted.
- *Search*: a rejected set-up is kept, and its process fails every event until it is restarted
  (`search/search.service.ts:411-414`; `EventsComplete` supposes the restart); overlapping syncs may write an older document last (`overlapped`); moderation's
  events are not selected (`unannounced`); a new title is not carried into the documents of posts.
- *Membership*: an invite outlives its creator's right to give its role; ownership may go to a
  member under a timeout, who has no permission until it ends.
- *Threads*: a manager's permission to edit in a locked topic is read before the transaction.
- *Sessions*: an UPDATE of several sessions misses a successor that a rotation inserts while it
  runs, and a sign-in that read the account before a revocation inserts its session after it;
  `RevokedStayRevoked` speaks of the rows there were when the UPDATE began.
- *Chat*: an event lost between commit and publish, or an older version that arrives late, as an
  event or as the answer to a command, stays visible until the next list (`excused`). That list is
  the newest page (`chat/chat.repository.ts:112-136`): a conversation that was out of the room
  for more than a page of messages keeps a gap, and older messages that changed meanwhile stay as
  they were (`missed`; `src/repos/desktop/src/features/chat/chat-route.tsx:96-114`). `nextCursor` comes from the page after it was reversed
  (`chat/chat.service.ts:66-79`), so that older pages begin at the newest message again; `NothingTwice` leaves the chat's list out.
- *Pages*: cursors keep milliseconds of rows that have microseconds, and the feed's score is
  compared after rounding: rows within that are skipped, or repeated, and are left out of both
  properties. Search pages by offset and filters afterwards; that it has reached its end it tells
  from Meilisearch's `estimatedTotalHits` (`search/search.service.ts:107-114`), taken as exact here.
- *Inbox*: moderation's notifications are never published; a renewal that fails for want of
  network stops the client until the next sign-in; showing the window again reports "connecting" of a
  connected socket.

## 4. Fairness

Safety needs none. Liveness assumes what the code's scheduling gives: interval timers fire
for ever (`setInterval` of the flush, the dispatcher and the maintenance worker), a pass
that has begun goes on (weak fairness per worker), and BullMQ hands out waiting jobs in
order, so a job is not passed over for ever (strong fairness of taking each job). Clients
are not assumed to do anything. `EventsComplete` has a hypothesis instead of one more fairness
condition: again and again no process has a failed set-up, that is, whoever runs the workers restarts
one whose events all fail; nothing in the code does. Faults are bounded, which is the usual assumption that
they stop for long enough. `Sessions`, `Chat`, `Pages` and `Inbox` state no liveness: what they say of
"in the end" they say of states at rest.

## 5. Proofs

Assumptions are the named `ASSUME`s of the modules, which TLC evaluates in every run.

**View counting** (`ViewCounterProofs`). The claim `credited[v] <= 1` is not inductive: the
invariant `CountInv` adds where views are (`OnePlace`: a view is in one counter or one batch),
why a count is what it is (`CreditExplained`), that an applied batch keeps its ledger row for
`Retention` (`LedgerRemembers`), and that copies in Redis and in workers' hands are younger
(`CopiesAreFresh`). The retention assumption is used in one place, the step that applies a batch:
were its ledger row pruned, the copy would be too old to exist. `Implementation` is the
refinement: under the mapping of `ViewCounter`, every step settles waiting views together or
changes nothing of `TopicViews`. `OnlyExpiryLoses` adds why a batch key goes (`GoneInv`): a
worker deletes it only when it was applied, and otherwise it expires.

**Uploads** (`UploadsProofs`). `UploadInv` ties a worker's program point to the object in the store
(`ContentInv`): a worker that is past the checks has one that passed them, and an image that is past
its re-encoding has the encoded one, or a PUT has replaced it since, which `rewritten` records in that
very step. That is inductive though every worker with the job, and `fail()` of another, may replace or
delete the object at any time, because what they put there is the server's own. An asset exists exactly
when its intent is completed, and what cleaners hold has expired, so the two never meet.
`ReadyIsChecked`, `ReadyIsReencoded` and `AssetsSpared` follow.

**Search** (`SearchIndexProofs`). A stale document of a topic is always somebody's duty
(`Accounted`): a sync that has yet to write what it read, an event that will be worked on again,
or `reindex()`. A restart ends all workers of a process at once, and their events are
worked on again (`StopAccounts`). At rest nobody has a duty, hence `TopicsCurrent`. `Repaired` is the same argument
for an undisturbed rebuild (`CalmInv`).

**Membership** (`MembershipProofs`). `PlaceInvariant` proves `PlaceInv`, whose parts need
one another: the owner keeps the Owner role because nobody can assign, change or remove it
(`OwnerRoleFixed`), which holds because managing a role takes a role above it, and none is
above the Owner's. `TypeCorrect`, `OneOwnerAlways`, `OwnerOnTop`, `BansHold`, `NoDanglingRoles`
and `InviteLimits` follow; `RolesNeverEscalate` is the action property, for every step of every
reachable place.

**Threads** (`ThreadsProofs`). `ThreadInv` says why a key makes one post: a transaction that
writes has the key to itself and has found no live row (`ClaimsHold`), and the row of a key
is that of its latest post, all others being older by the key's lifetime (`KeysRemember`).
So a new post is at least one lifetime younger than every other of its key, by transitivity
through the row. Revisions were written by requests that have ended, so what those requests
expected no longer changes (`RevisionsKept`). `OnePostPerKey`, `FaithfulAnswers`,
`CountersTrue` and `UpdatesKept` follow, and `ClosedTopicsQuiet` is the action property.
`CreationIsAtomic` is the refinement. By `KeysRemember` the row of a key is that of its latest
post, and it is live, by the request's time, exactly when some post of the key is (`RowTells`). So
a request that reads a live row, before its transaction or in it, is decided there
(`AnswerDecides`), one that writes is decided by writing, its claim keeping all others of
the key away (`StoreDecides`), and every other step changes nothing of the abstract state but its
clock and what is asked.

**Sessions** (`SessionsProofs`). `SessionInv` says that rows never come back to
life and that the snapshot of an UPDATE under way covers what is still live of the rows there
were when it began: `ExchangedOnce`, `RevocationsHold` and `SignOutClears` follow. `ReuseNeverPunishes`
needs the clients too: a family of which no answer was lost is held in one place, a client's
store or an answer on its way there (`HeldOnce`), and what is live of it is what is held
(`LiveIsHeld`); so a token presented twice was presented by somebody who lost an answer. `SignedInStays` says
the rest of what an honest client may expect. Its `KeptInv` is about what is held and revoked of
a family of which no answer was lost: a stored token is one that a revocation was about, or
its client's own refresh has spent it and has the successor, or its refusal, in hand
(`StoredKept`); a successor that is not stored yet can only be one that a revocation was about
(`GrantsKept`). That needs `HeldInv`, by which no other refresh presents the same token, and
`SnapshotsSeen`, by which a revocation changes only rows there were when it began.

**Chat** (`ChatProofs`). `ServerInv`: of a message that is not announced yet at most one handler will
announce it, handlers that find a command taken answer without announcing, and transactions under way
have different messages to create (`InsertInv`). `CommandsMakeOne`
and `NeverAnnouncedTwice` follow. `ConversationsCatchUp` is about states at rest, so what is
inductive is why a conversation *will* agree. `CatchUpInv` says that a message shown otherwise than
the database has it, and not excused, is still coming (`CaughtUp`): a handler has yet to
publish it, an event or a list with the current version is under way, or a list has yet to be
read. A list that is read brings what is on its page, and the rest it owes goes to `missed`; that such
a message is older than a page once and for all (`IsOld`) rests on messages never being removed
(`OldStaysOld`). Every step that delivers something else must leave that true, and it does because nothing
shown or under way is ahead of the database (`NotAhead`): an older version that replaces the
current one is just what `Show` excuses.

**Pages** (`PagesProofs`). `PagesInv` relates the cursor to the rows got: of the rows that stayed
and that the cursor can tell from its neighbours, those it has passed were got, and those beyond it
were not (`CursorInv`). The search has counted off as many rows as were got, and those are the
first (`OffsetInv`), which needs cardinalities. A page is an initial segment of the rows beyond the
cursor, so that the next goes on after its last row (`PageFacts`, `CursorTells`). That a finite
set of rows has a first and a last (`Extrema`) would be an induction over data; it is derived
from the library's theorem that strict inclusion is well-founded on finite sets. `EveryRowComes`
and `NoRowComesTwice` follow, for any number of rows, any page size and any changes.

Three models were corrected because of a proof. `Answer` in `Chat`, `ListArrives` in `Inbox` and
`Selected` in `Pages` had alternatives that overlapped: TLC takes the first of them, and the logic does
not say which. They are exclusive now, as the branches of the code are.

Left to TLC: liveness, because it needs ENABLED (`EveryViewSettles`, `JobsEnd`,
`ExpiredIntentsAreCleaned`, `EventsComplete`). Every invariant and action property that a passing run
checks is also a theorem. Of `Inbox`, whose run shows a violation, nothing is proved.

## 6. Not modelled, and plan

- *Accounts*: registration, the mails' one-time tokens, OIDC, sessions that are not remembered,
  hashing of passwords. A module of its own would be next: tokens used twice, mails sent twice.
- *Chat and realtime*: administration and permissions of channels, read positions, typing,
  older pages, presence with its expiring keys, removal of a member's sockets.
- *Notifications*: marking all as read, and the notifications forums make.
- *Moderation*: reports, notes, bulk execution (a loop of transactions that stops at the first
  refusal), retention and the audit trail. What moderation does to members, content and
  accounts is in the modules of those.
- *Forums*: groups, tags, feeds, reactions, follows, saved items, read state, moves and
  permission overrides; a composition of `Threads` with `Membership`, for permissions that change
  while a request is under way.
- *Places and search*: slugs, discovery, ordering of roles; documents of places; the query.
- *Uploads*: references to assets from profiles, places and posts; download URLs; byte sizes.
- *Voice*: capacity is compared with a participant list that LiveKit keeps, and between token and
  connection nothing of the program runs.
- *Proofs*: abstract specifications for sessions and chat, as `IdempotentPosts` is for creation;
  what `Inbox` does promise, with the events it misses excused.

Developer tokens, configuration, health, rate limiting and request context change single rows
or none and have no protocol worth a model. Rich text is a pure validator whose result is one
opaque body here. The web client renders over the HTTP API, the shared client is generated. Mail,
image decoding and media transport are external.
