------------------------------ MODULE Threads ------------------------------
(***************************************************************************)
(* A topic and its posts: idempotent creation, edits against an expected   *)
(* version, locking, deletion and moderation.  A request reads before its  *)
(* transaction and waits in it, for its idempotency key and for the row of *)
(* its topic; from the topic's lock to the commit no other transaction     *)
(* touches what it reads, so that stretch is one step.                     *)
(*                                                                         *)
(* A post and the request that made it share one identity.  A key stands   *)
(* for a key within its scope: one user's replies to the topic, or his new *)
(* topics in the forum.  Time is counted in ticks.                         *)
(***************************************************************************)
EXTENDS Integers, Sequences, FiniteSets

CONSTANTS
    Requests,    \* deliveries of topic or reply creation
    ReplyKeys,   \* idempotency keys of replies to the topic
    TopicKeys,   \* idempotency keys of new topics
    Bodies,      \* contents a request may carry
    Editors,     \* requests that edit or delete a post
    Opening,     \* the topic's first post
    Window,      \* lifetime of an idempotency key, 24 hours, in ticks
    MaxTime,     \* bound on the clock
    None         \* no row, no answer

Keys  == ReplyKeys \union TopicKeys
Posts == Requests \union {Opening}
KeyRow == [body : Bodies, expiresAt : Nat, post : Requests]

ASSUME ThreadsAssumption ==
    /\ ReplyKeys \intersect TopicKeys = {}
    /\ Opening \notin Requests \union Editors
    /\ Requests \intersect Editors = {}
    /\ None \notin Keys \union Posts \union Bodies
    /\ None \notin KeyRow
    /\ Window \in Nat \ {0} /\ MaxTime \in Nat

VARIABLES
    now,           \* the clock
    locked,        \* topics.status = 'locked'
    topicDeleted,  \* topics.deleted_at is set
    replyCount,    \* topics.reply_count
    latestPostAt,  \* topics.latest_post_at
    made,          \* rows of posts
    deleted,       \* those with deleted_at
    version,       \* posts.version
    revisions,     \* post_revisions: who wrote each version
    keyRow,        \* idempotency_keys: request hash, expires_at and response
    keyLock,       \* the transaction that claimed the key and has not ended
    pc,            \* creation request: where it is
    key, body, at, \* creation request: its key, its content, its clock.now()
    answer,        \* creation request: the post it was answered with
    epc,           \* edit request: where it is
    target,        \* edit request: its post
    expected,      \* edit request: expectedVersion, or 0 for a deletion
    allowLocked    \* edit requests whose user had forum.manage when asked

topicVars   == <<locked, topicDeleted, replyCount, latestPostAt>>
postVars    == <<made, deleted, version, revisions>>
keyVars     == <<keyRow, keyLock>>
requestVars == <<pc, key, body, at, answer>>
editVars    == <<epc, target, expected, allowLocked>>
vars == <<now, topicVars, postVars, keyVars, requestVars, editVars>>

\* The topic exists, with its first post.
Init ==
    /\ now = 0
    /\ locked = FALSE /\ topicDeleted = FALSE
    /\ replyCount = 0 /\ latestPostAt = 0
    /\ made = {Opening} /\ deleted = {}
    /\ version = [p \in Posts |-> 1]
    /\ revisions = [p \in Posts |-> <<p>>]
    /\ keyRow = [k \in Keys |-> None]
    /\ keyLock = [k \in Keys |-> None]
    /\ pc = [r \in Requests |-> "new"]
    /\ key = [r \in Requests |-> None]
    /\ body = [r \in Requests |-> None]
    /\ at = [r \in Requests |-> 0]
    /\ answer = [r \in Requests |-> None]
    /\ epc = [e \in Editors |-> "new"]
    /\ target = [e \in Editors |-> Opening]
    /\ expected = [e \in Editors |-> 0]
    /\ allowLocked = {}

IsReply(r) == key[r] \in ReplyKeys

-----------------------------------------------------------------------------
(* Creation.                                                               *)

\* ForumsService.createTopic and reply: check the permission, take the time.
Begin(r, k, b) ==
    /\ pc[r] = "new"
    /\ pc' = [pc EXCEPT ![r] = "replay"]
    /\ key' = [key EXCEPT ![r] = k]
    /\ body' = [body EXCEPT ![r] = b]
    /\ at' = [at EXCEPT ![r] = now]
    /\ UNCHANGED <<now, topicVars, postVars, keyVars, answer, editVars>>

\* What the row of its key means to request r, by the time r took.
Live_Now(r)        ==                 \* mutated: by the clock, not by the request's time
    keyRow[key[r]] # None /\ keyRow[key[r]].expiresAt > now
Live(r)            == keyRow[key[r]] # None /\ keyRow[key[r]].expiresAt > at[r]
SameRequest_Any(r) == TRUE            \* mutated: the request hash is not compared
SameRequest(r)     == keyRow[key[r]].body = body[r]

\* A live key answers: with its post, or with a conflict.
AnswerFromKey(r) ==
    /\ Live(r)
    /\ pc' = [pc EXCEPT ![r] = "done"]
    /\ answer' = [answer EXCEPT ![r] = IF SameRequest(r) THEN keyRow[key[r]].post ELSE None]
    /\ UNCHANGED keyLock

\* replayIdempotency, outside of the transaction; later checks may refuse.
Replay(r) ==
    /\ pc[r] = "replay"
    /\ \/ AnswerFromKey(r)
       \/ /\ ~Live(r)
          /\ pc' = [pc EXCEPT ![r] = "claim"]
          /\ UNCHANGED <<keyLock, answer>>
    /\ UNCHANGED <<now, topicVars, postVars, keyRow, key, body, at, editVars>>

\* claimIdempotency: insert the key, or lock its row.  Both wait for the end of
\* a transaction that holds it.  A committed row always has its response.
Claimable_Unlocked(r) == TRUE         \* mutated: the row is read without its lock
Claimable(r)          == keyLock[key[r]] = None

Claim(r) ==
    /\ pc[r] = "claim"
    /\ Claimable(r)
    /\ \/ AnswerFromKey(r)
       \/ /\ ~Live(r)
          /\ pc' = [pc EXCEPT ![r] = "write"]
          /\ keyLock' = [keyLock EXCEPT ![key[r]] = r]
          /\ UNCHANGED answer
    /\ UNCHANGED <<now, topicVars, postVars, keyRow, key, body, at, editVars>>

\* The transaction ends: its claim becomes the key's row, or nothing.
Release_KeepsClaim(r) ==              \* mutated: the claim is not the transaction's
    /\ pc' = [pc EXCEPT ![r] = "done"]
    /\ UNCHANGED keyLock

Release(r) ==
    /\ pc' = [pc EXCEPT ![r] = "done"]
    /\ keyLock' = IF keyLock[key[r]] = r THEN [keyLock EXCEPT ![key[r]] = None] ELSE keyLock

\* insertPost and completeIdempotency.
Store(r) ==
    /\ made' = made \union {r}
    /\ keyRow' = [keyRow EXCEPT ![key[r]] =
                     [body |-> body[r], expiresAt |-> at[r] + Window, post |-> r]]
    /\ answer' = [answer EXCEPT ![r] = r]
    /\ Release(r)

\* The reply's clock may be behind that of a reply that committed before it.
Latest_Now(t) == t                    \* mutated: not the greatest
Latest(t)     == IF t > latestPostAt THEN t ELSE latestPostAt

\* A reply is written while the topic's row is locked.
TakesReplies_Locked == ~topicDeleted  \* mutated: the status is not in the WHERE
TakesReplies        == ~topicDeleted /\ ~locked

Reply(r) ==
    /\ pc[r] = "write" /\ IsReply(r)
    /\ TakesReplies
    /\ Store(r)
    /\ replyCount' = replyCount + 1
    /\ latestPostAt' = Latest(at[r])
    /\ UNCHANGED <<now, locked, topicDeleted, deleted, version, revisions, key, body, at, editVars>>

\* createTopic: a topic of its own, whose row the model does not follow.
CreateTopic(r) ==
    /\ pc[r] = "write" /\ ~IsReply(r)
    /\ Store(r)
    /\ UNCHANGED <<now, topicVars, deleted, version, revisions, key, body, at, editVars>>

\* A check refuses, a statement or the process fails: the transaction is undone.
GiveUp(r) ==
    /\ pc[r] \in {"replay", "claim", "write"}
    /\ Release(r)
    /\ UNCHANGED <<now, topicVars, postVars, keyRow, key, body, at, answer, editVars>>

-----------------------------------------------------------------------------
(* Edits and deletions.                                                    *)

\* requirePostMutation: what the user may do.  An edit carries a version that
\* the user has read, now or long ago.
BeginEdit(e, p, manager, read) ==
    /\ epc[e] = "new"
    /\ p \notin deleted /\ ~topicDeleted
    /\ ~locked \/ manager
    /\ epc' = [epc EXCEPT ![e] = "write"]
    /\ target' = [target EXCEPT ![e] = p]
    /\ expected' = [expected EXCEPT ![e] = read]
    /\ allowLocked' = IF manager THEN allowLocked \union {e} ELSE allowLocked
    /\ UNCHANGED <<now, topicVars, postVars, keyVars, requestVars>>

\* lockTopicForMutation
MayMutate_Early(e) == ~topicDeleted   \* mutated: the status is not read again
MayMutate(e)       == ~topicDeleted /\ (~locked \/ e \in allowLocked)

\* The WHERE of editPost's UPDATE.
Matches_AnyVersion(e) == target[e] \notin deleted    \* mutated
Matches(e) ==
    /\ target[e] \notin deleted
    /\ version[target[e]] = expected[e]

\* editPost; a locked or deleted topic and another version are conflicts.
EditPost(e) ==
    /\ epc[e] = "write" /\ expected[e] # 0
    /\ epc' = [epc EXCEPT ![e] = "done"]
    /\ \/ /\ MayMutate(e) /\ Matches(e)
          /\ version' = [version EXCEPT ![target[e]] = expected[e] + 1]
          /\ revisions' = [revisions EXCEPT ![target[e]] = Append(@, e)]
       \/ /\ ~(MayMutate(e) /\ Matches(e))
          /\ UNCHANGED <<version, revisions>>
    /\ UNCHANGED <<now, topicVars, made, deleted, keyVars, requestVars, target, expected, allowLocked>>

\* deletePost
DeletePost(e) ==
    /\ epc[e] = "write" /\ expected[e] = 0
    /\ epc' = [epc EXCEPT ![e] = "done"]
    /\ deleted' = IF MayMutate(e) THEN deleted \union {target[e]} ELSE deleted
    /\ UNCHANGED <<now, topicVars, made, version, revisions, keyVars, requestVars, target, expected, allowLocked>>

-----------------------------------------------------------------------------
(* The topic, and moderation of the topic and of posts.                    *)

\* setTopicModeration, applyTopicAction with topic.lock or topic.unlock
SetLocked(value) ==
    /\ locked # value
    /\ locked' = value
    /\ UNCHANGED <<now, topicDeleted, replyCount, latestPostAt, postVars, keyVars, requestVars, editVars>>

\* deleteTopic and content.hide; content.restore undoes either.
SetTopicDeleted(value) ==
    /\ topicDeleted # value
    /\ topicDeleted' = value
    /\ UNCHANGED <<now, locked, replyCount, latestPostAt, postVars, keyVars, requestVars, editVars>>

\* applyPostAction: hide or restore, whoever deleted the post.
ModeratePost(p) ==
    /\ deleted' \in {deleted \union {p}, deleted \ {p}}
    /\ UNCHANGED <<now, topicVars, made, version, revisions, keyVars, requestVars, editVars>>

\* Time passes; a request may take any time.
Tick ==
    /\ now < MaxTime
    /\ now' = now + 1
    /\ UNCHANGED <<topicVars, postVars, keyVars, requestVars, editVars>>

Create(r) ==
    \/ \E k \in Keys, b \in Bodies : Begin(r, k, b)
    \/ Replay(r) \/ Claim(r) \/ Reply(r) \/ CreateTopic(r) \/ GiveUp(r)

Edit(e) ==
    \/ \E p \in made, manager \in BOOLEAN : \E read \in 0..version[p] : BeginEdit(e, p, manager, read)
    \/ EditPost(e) \/ DeletePost(e)

Moderate ==
    \/ \E value \in BOOLEAN : SetLocked(value) \/ SetTopicDeleted(value)
    \/ \E p \in made : ModeratePost(p)

Next ==
    \/ \E r \in Requests : Create(r)
    \/ \E e \in Editors : Edit(e)
    \/ Moderate
    \/ Tick

Spec == Init /\ [][Next]_vars

-----------------------------------------------------------------------------
(* Properties.                                                             *)

\* The shape of the rows and of the requests; a claim belongs to a transaction
\* that is under way.
TypeOK ==
    /\ now \in Nat
    /\ locked \in BOOLEAN /\ topicDeleted \in BOOLEAN
    /\ replyCount \in Nat /\ latestPostAt \in Nat
    /\ Opening \in made /\ made \subseteq Posts /\ deleted \subseteq made
    /\ version \in [Posts -> Nat \ {0}]
    /\ revisions \in [Posts -> Seq(Posts \union Editors)]
    /\ keyRow \in [Keys -> KeyRow \union {None}]
    /\ keyLock \in [Keys -> Requests \union {None}]
    /\ \A k \in Keys : keyLock[k] # None => key[keyLock[k]] = k /\ pc[keyLock[k]] = "write"
    /\ pc \in [Requests -> {"new", "replay", "claim", "write", "done"}]
    /\ key \in [Requests -> Keys \union {None}]
    /\ body \in [Requests -> Bodies \union {None}]
    /\ \A r \in Requests : pc[r] # "new" => key[r] \in Keys /\ body[r] \in Bodies
    /\ at \in [Requests -> Nat]
    /\ answer \in [Requests -> Requests \union {None}]
    /\ epc \in [Editors -> {"new", "write", "done"}]
    /\ target \in [Editors -> made]
    /\ expected \in [Editors -> Nat]
    /\ allowLocked \subseteq Editors

Replies == {r \in made \ {Opening} : IsReply(r)}

\* Repeated deliveries of a creation, concurrent or late, make one post as long
\* as the key lives; two posts of a key are at least its lifetime apart.
OnePostPerWindow ==
    \A r, s \in made \ {Opening} :
        r # s /\ key[r] = key[s] => at[r] + Window <= at[s] \/ at[s] + Window <= at[r]

\* "Repeating a key with the same request replays the original response; reusing
\* it with a different request returns a conflict": every answer is a post with
\* the content asked for, made under the same key and within its lifetime.
AnswersMatchRequests ==
    \A r \in Requests :
        answer[r] # None =>
            /\ answer[r] \in made
            /\ key[answer[r]] = key[r] /\ body[answer[r]] = body[r]
            /\ at[r] < at[answer[r]] + Window

\* "Topic replies and latest-post counters update transactionally": they agree
\* with the rows of posts, whatever order replies commit in.
CountersMatchReplies ==
    /\ replyCount = Cardinality(Replies)
    /\ \A r \in Replies : at[r] <= latestPostAt
    /\ latestPostAt = 0 \/ \E r \in Replies : at[r] = latestPostAt

\* "Edits use an expected version to reject lost updates and append immutable
\* revisions": each revision was written by somebody who had read the one before.
NoLostUpdate ==
    \A p \in made :
        /\ Len(revisions[p]) = version[p]
        /\ \A n \in 2..version[p] : expected[revisions[p][n]] = n - 1

\* While a topic is locked or deleted, nobody replies, and nobody edits or deletes
\* a post who was not a forum manager, even with a request begun before.
QuietWhenClosed ==
    [][/\ topicDeleted \/ locked => Replies' = Replies
       /\ \A e \in Editors :
             /\ epc[e] = "write" /\ epc'[e] = "done"
             /\ topicDeleted \/ (locked /\ e \notin allowLocked)
             => UNCHANGED postVars]_vars

\* Each delivery of a creation is decided at one instant, as if there were neither claims
\* nor rows of keys: by the request's time, no post of its key is live when it makes
\* one, and it is answered with the latest that is.
Phase == [r \in Requests |-> IF pc[r] = "new" THEN "new"
                             ELSE IF pc[r] = "done" THEN "decided" ELSE "asked"]
Abstract == INSTANCE IdempotentPosts WITH phase <- Phase, posts <- made \ {Opening}
ImplementsIdempotentPosts == Abstract!Spec

\* Why: a request is made once, its key, content and time stay from then on, ...
RequestsEnd ==
    /\ \A r \in made \ {Opening} : pc[r] = "done"
    /\ \A r \in Requests : answer[r] # None => pc[r] = "done"

\* ... a transaction that writes has its key to itself, and found no live row, ...
ClaimsHold == \A r \in Requests : pc[r] = "write" => keyLock[key[r]] = r /\ ~Live(r)

\* ... the row of a key is that of its latest post, the others being older by the
\* lifetime of the key, ...
KeysRemember ==
    /\ \A k \in Keys : keyRow[k] # None =>
          LET post == keyRow[k].post IN
          /\ post \in made
          /\ key[post] = k /\ body[post] = keyRow[k].body
          /\ keyRow[k].expiresAt = at[post] + Window
    /\ \A r \in made \ {Opening} :
          /\ keyRow[key[r]] # None
          /\ keyRow[key[r]].post = r \/ at[r] + Window <= at[keyRow[key[r]].post]

\* ... and revisions are those of requests that have ended.
RevisionsKept ==
    \A p \in Posts :
        /\ Len(revisions[p]) = version[p]
        /\ \A n \in 2..version[p] :
              /\ revisions[p][n] \in Editors
              /\ epc[revisions[p][n]] = "done"
              /\ expected[revisions[p][n]] = n - 1

ThreadInv ==
    /\ TypeOK
    /\ RequestsEnd
    /\ ClaimsHold
    /\ KeysRemember
    /\ OnePostPerWindow
    /\ AnswersMatchRequests
    /\ RevisionsKept
    /\ IsFiniteSet(made)
    /\ CountersMatchReplies
=============================================================================
