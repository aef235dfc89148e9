---------------------------- MODULE ThreadsProofs ----------------------------
(***************************************************************************)
(* One post per key and lifetime, faithful answers, no lost update, true   *)
(* counters and a quiet closed topic, for any number of requests, keys,    *)
(* editors and posts.  ThreadInv is inductive: the row of a key is the     *)
(* memory that the uniqueness of posts rests on, and a claim keeps it from *)
(* changing between the check and the write.                               *)
(***************************************************************************)
EXTENDS Threads, FiniteSetTheorems, TLAPS

\* A request is answered with a request.
LEMMA AnswerTypes ==
  ASSUME TypeOK, NEW r \in Requests, pc[r] # "new", AnswerFromKey(r)
  PROVE  answer' \in [Requests -> Requests \union {None}]
  <1>1. key[r] \in Keys /\ keyRow[key[r]] \in KeyRow
    BY DEF TypeOK, AnswerFromKey, Live
  <1>2. keyRow[key[r]].post \in Requests
    BY <1>1 DEF KeyRow
  <1>3. QED
    BY <1>2 DEF TypeOK, AnswerFromKey

\* Every step keeps the types.
LEMMA TypeStep == TypeOK /\ [Next]_vars => TypeOK'
  <1> SUFFICES ASSUME TypeOK, [Next]_vars PROVE TypeOK'
    OBVIOUS
  <1> USE ThreadsAssumption DEF TypeOK, Posts, KeyRow
  <1>1. ASSUME NEW r \in Requests, NEW k \in Keys, NEW b \in Bodies, Begin(r, k, b) PROVE TypeOK'
    <2>1. /\ pc[r] = "new" /\ pc' = [pc EXCEPT ![r] = "replay"]
          /\ key' = [key EXCEPT ![r] = k] /\ body' = [body EXCEPT ![r] = b]
          /\ at' = [at EXCEPT ![r] = now]
          /\ UNCHANGED <<now, topicVars, postVars, keyVars, answer, editVars>>
      BY <1>1 DEF Begin
    <2>2. \A j \in Keys : keyLock'[j] # None =>
             key'[keyLock'[j]] = j /\ pc'[keyLock'[j]] = "write"
      BY <2>1 DEF keyVars
    <2>3. \A s \in Requests : pc'[s] # "new" => key'[s] \in Keys /\ body'[s] \in Bodies
      BY <2>1
    <2>4. QED
      BY <2>1, <2>2, <2>3 DEF topicVars, postVars, keyVars, editVars
  <1>2. ASSUME NEW r \in Requests, Replay(r) PROVE TypeOK'
    <2>1. pc[r] = "replay" /\ UNCHANGED <<now, topicVars, postVars, keyVars, key, body, at, editVars>>
      BY <1>2 DEF Replay, AnswerFromKey, keyVars
    <2>2. PICK label \in {"done", "claim"} : pc' = [pc EXCEPT ![r] = label]
      BY <1>2 DEF Replay, AnswerFromKey
    <2>3. answer' \in [Requests -> Requests \union {None}]
      BY <1>2, <2>1, AnswerTypes DEF Replay
    <2>4. \A j \in Keys : keyLock[j] # None => key[keyLock[j]] = j /\ pc'[keyLock[j]] = "write"
      BY <2>1, <2>2
    <2>5. \A s \in Requests : pc'[s] # "new" => key[s] \in Keys /\ body[s] \in Bodies
      BY <2>1, <2>2
    <2>6. QED
      BY <2>1, <2>2, <2>3, <2>4, <2>5 DEF topicVars, postVars, keyVars, editVars
  <1>3. ASSUME NEW r \in Requests, Claim(r) PROVE TypeOK'
    <2>1. /\ pc[r] = "claim" /\ keyLock[key[r]] = None /\ key[r] \in Keys
          /\ UNCHANGED <<now, topicVars, postVars, keyRow, key, body, at, editVars>>
      BY <1>3 DEF Claim, Claimable
    <2>2. CASE AnswerFromKey(r)
      <3>1. pc' = [pc EXCEPT ![r] = "done"] /\ keyLock' = keyLock
        BY <2>2 DEF AnswerFromKey
      <3>2. answer' \in [Requests -> Requests \union {None}]
        BY <2>1, <2>2, AnswerTypes
      <3>3. \A j \in Keys : keyLock[j] # None => key[keyLock[j]] = j /\ pc'[keyLock[j]] = "write"
        BY <2>1, <3>1
      <3>4. \A s \in Requests : pc'[s] # "new" => key[s] \in Keys /\ body[s] \in Bodies
        BY <2>1, <3>1
      <3>5. QED
        BY <2>1, <3>1, <3>2, <3>3, <3>4 DEF topicVars, postVars, editVars
    <2>3. CASE /\ pc' = [pc EXCEPT ![r] = "write"]
               /\ keyLock' = [keyLock EXCEPT ![key[r]] = r]
               /\ UNCHANGED answer
      <3>1. \A j \in Keys : keyLock'[j] # None => key[keyLock'[j]] = j /\ pc'[keyLock'[j]] = "write"
        BY <2>1, <2>3
      <3>2. QED
        BY <2>1, <2>3, <3>1 DEF topicVars, postVars, editVars
    <2>4. QED
      BY <1>3, <2>2, <2>3 DEF Claim
  <1>4. ASSUME NEW r \in Requests, Reply(r) PROVE TypeOK'
    BY <1>4 DEF Reply, Store, Release, Latest, editVars
  <1>5. ASSUME NEW r \in Requests, CreateTopic(r) PROVE TypeOK'
    BY <1>5 DEF CreateTopic, Store, Release, topicVars, editVars
  <1>6. ASSUME NEW r \in Requests, GiveUp(r) PROVE TypeOK'
    BY <1>6 DEF GiveUp, Release, topicVars, postVars, editVars
  <1>7. ASSUME NEW e \in Editors, NEW p \in made, NEW manager \in BOOLEAN, NEW read \in 0..version[p],
               BeginEdit(e, p, manager, read)
        PROVE  TypeOK'
    BY <1>7 DEF BeginEdit, topicVars, postVars, keyVars, requestVars
  <1>8. ASSUME NEW e \in Editors, EditPost(e) PROVE TypeOK'
    <2>1. /\ UNCHANGED <<now, topicVars, made, deleted, keyVars, requestVars, target, expected, allowLocked>>
          /\ epc' = [epc EXCEPT ![e] = "done"]
      BY <1>8 DEF EditPost
    <2>2. version' \in [Posts -> Nat \ {0}] /\ revisions' \in [Posts -> Seq(Posts \union Editors)]
      <3>1. CASE UNCHANGED <<version, revisions>>
        BY <3>1
      <3>2. CASE /\ version' = [version EXCEPT ![target[e]] = expected[e] + 1]
                 /\ revisions' = [revisions EXCEPT ![target[e]] = Append(@, e)]
        <4>1. Append(revisions[target[e]], e) \in Seq(Posts \union Editors)
          OBVIOUS
        <4>2. expected[e] + 1 \in Nat \ {0}
          OBVIOUS
        <4>3. QED
          BY <3>2, <4>1, <4>2
      <3>3. QED
        BY <1>8, <3>1, <3>2 DEF EditPost
    <2>3. QED
      BY <2>1, <2>2 DEF topicVars, keyVars, requestVars
  <1>9. ASSUME NEW e \in Editors, DeletePost(e) PROVE TypeOK'
    BY <1>9 DEF DeletePost, topicVars, keyVars, requestVars
  <1>10. ASSUME NEW value \in BOOLEAN, SetLocked(value) \/ SetTopicDeleted(value) PROVE TypeOK'
    BY <1>10 DEF SetLocked, SetTopicDeleted, postVars, keyVars, requestVars, editVars
  <1>11. ASSUME NEW p \in made, ModeratePost(p) PROVE TypeOK'
    BY <1>11 DEF ModeratePost, topicVars, keyVars, requestVars, editVars
  <1>12. CASE Tick
    BY <1>12 DEF Tick, topicVars, postVars, keyVars, requestVars, editVars
  <1>13. CASE UNCHANGED vars
    BY <1>13 DEF vars, topicVars, postVars, keyVars, requestVars, editVars
  <1> HIDE DEF TypeOK, Posts, KeyRow
  <1>14. QED
    BY <1>1, <1>2, <1>3, <1>4, <1>5, <1>6, <1>7, <1>8, <1>9, <1>10, <1>11, <1>12, <1>13
    DEF Next, Create, Edit, Moderate

-----------------------------------------------------------------------------
(* Creation.                                                               *)

Creation == RequestsEnd /\ ClaimsHold /\ KeysRemember /\ OnePostPerWindow /\ AnswersMatchRequests

\* Everything but the steps of creation requests leaves their state alone.
LEMMA Cases ==
  ASSUME [Next]_vars
  PROVE  \/ \E r \in Requests, k \in Keys, b \in Bodies : Begin(r, k, b)
         \/ \E r \in Requests : Replay(r) \/ Claim(r) \/ Reply(r) \/ CreateTopic(r) \/ GiveUp(r)
         \/ UNCHANGED <<made, keyVars, requestVars>>
  BY DEF Next, Create, Edit, Moderate, BeginEdit, EditPost, DeletePost, SetLocked,
         SetTopicDeleted, ModeratePost, Tick, vars, topicVars, postVars

\* A request that has not begun has left no trace.
LEMMA NewRequests ==
  ASSUME TypeOK, Creation, NEW r \in Requests, pc[r] # "done"
  PROVE  /\ r \notin made /\ answer[r] = None
         /\ \A k \in Keys : keyRow[k] # None => keyRow[k].post # r
         /\ \A s \in Requests : answer[s] # r
  BY ThreadsAssumption
  DEF TypeOK, Creation, RequestsEnd, KeysRemember, AnswersMatchRequests, Posts

\* Posts but the first are requests, and their keys are keys.
LEMMA MadeRequests ==
  ASSUME TypeOK, Creation, NEW r \in made \ {Opening}
  PROVE  r \in Requests /\ pc[r] = "done" /\ key[r] \in Keys /\ body[r] \in Bodies /\ at[r] \in Nat
  BY DEF TypeOK, Creation, RequestsEnd, Posts

\* A request that begins changes nothing that is remembered.
LEMMA BeginStep ==
  ASSUME TypeOK, Creation, NEW r \in Requests, NEW k \in Keys, NEW b \in Bodies, Begin(r, k, b)
  PROVE  Creation'
  <1>1. /\ pc[r] = "new" /\ pc' = [pc EXCEPT ![r] = "replay"]
        /\ key' = [key EXCEPT ![r] = k] /\ body' = [body EXCEPT ![r] = b]
        /\ at' = [at EXCEPT ![r] = now]
        /\ made' = made /\ keyRow' = keyRow /\ keyLock' = keyLock /\ answer' = answer
    BY DEF Begin, postVars, keyVars
  <1>2. /\ r \notin made /\ answer[r] = None
        /\ \A j \in Keys : keyRow[j] # None => keyRow[j].post # r
        /\ \A s \in Requests : answer[s] # r
    BY <1>1, NewRequests
  <1>3. \A s \in Requests \ {r} :
          pc'[s] = pc[s] /\ key'[s] = key[s] /\ body'[s] = body[s] /\ at'[s] = at[s]
    BY <1>1 DEF TypeOK
  <1>4. \A s \in made \ {Opening} : s \in Requests \ {r}
    BY <1>2, MadeRequests
  <1>5. RequestsEnd'
    BY <1>1, <1>2, <1>3, <1>4 DEF Creation, RequestsEnd
  <1>6. ClaimsHold'
    BY <1>1, <1>3 DEF Creation, ClaimsHold, Live, TypeOK
  <1>7. KeysRemember'
    <2>1. \A j \in Keys : keyRow[j] # None => keyRow[j].post \in Requests \ {r}
      BY <1>2 DEF TypeOK, KeyRow
    <2>2. \A s \in made \ {Opening} : keyRow[key[s]].post \in Requests \ {r}
      BY <2>1, MadeRequests DEF Creation, KeysRemember
    <2>3. QED
      BY <1>1, <1>3, <1>4, <2>1, <2>2 DEF Creation, KeysRemember
  <1>8. OnePostPerWindow'
    BY <1>1, <1>3, <1>4 DEF Creation, OnePostPerWindow
  <1>9. AnswersMatchRequests'
    BY <1>1, <1>2, <1>3 DEF Creation, AnswersMatchRequests, TypeOK
  <1>10. QED
    BY <1>5, <1>6, <1>7, <1>8, <1>9 DEF Creation

\* A live key answers with a post of its own.
LEMMA AnswerStep ==
  ASSUME TypeOK, Creation, NEW r \in Requests, pc[r] \in {"replay", "claim"},
         AnswerFromKey(r), UNCHANGED <<made, keyRow, key, body, at>>
  PROVE  Creation'
  <1>1. pc' = [pc EXCEPT ![r] = "done"] /\ keyLock' = keyLock /\ Live(r)
    BY DEF AnswerFromKey
  <1>2. \A s \in Requests \ {r} : pc'[s] = pc[s] /\ answer'[s] = answer[s]
    BY <1>1 DEF TypeOK, AnswerFromKey
  <1>3. answer'[r] # None =>
           /\ answer'[r] \in made
           /\ key[answer'[r]] = key[r] /\ body[answer'[r]] = body[r]
           /\ at[r] < at[answer'[r]] + Window
    <2>1. key[r] \in Keys /\ answer'[r] \in {keyRow[key[r]].post, None}
      BY DEF TypeOK, AnswerFromKey
    <2>2. answer'[r] # None => SameRequest(r) /\ answer'[r] = keyRow[key[r]].post
      BY DEF TypeOK, AnswerFromKey
    <2>3. QED
      BY <1>1, <2>1, <2>2 DEF Creation, KeysRemember, Live, SameRequest
  <1>4. RequestsEnd'
    BY <1>1, <1>2, MadeRequests DEF Creation, RequestsEnd, TypeOK
  <1>5. ClaimsHold'
    BY <1>1, <1>2 DEF Creation, ClaimsHold, Live, TypeOK
  <1>6. KeysRemember' /\ OnePostPerWindow'
    BY DEF Creation, KeysRemember, OnePostPerWindow
  <1>7. AnswersMatchRequests'
    BY <1>2, <1>3 DEF Creation, AnswersMatchRequests
  <1>8. QED
    BY <1>4, <1>5, <1>6, <1>7 DEF Creation

\* A transaction claims its key when nobody else holds it and its row is not live.
LEMMA ClaimStep ==
  ASSUME TypeOK, Creation, NEW r \in Requests, Replay(r) \/ Claim(r)
  PROVE  Creation'
  <1>1. pc[r] \in {"replay", "claim"} /\ UNCHANGED <<made, keyRow, key, body, at>>
    BY DEF Replay, Claim, postVars
  <1>2. CASE AnswerFromKey(r)
    BY <1>1, <1>2, AnswerStep
  <1>3. ASSUME Replay(r), pc' = [pc EXCEPT ![r] = "claim"], UNCHANGED <<keyLock, answer>>
        PROVE  Creation'
    <2>1. RequestsEnd'
      BY <1>1, <1>3, MadeRequests DEF Creation, RequestsEnd, TypeOK
    <2>2. ClaimsHold'
      BY <1>1, <1>3 DEF Creation, ClaimsHold, Live, TypeOK
    <2>3. KeysRemember' /\ OnePostPerWindow' /\ AnswersMatchRequests'
      BY <1>1, <1>3 DEF Creation, KeysRemember, OnePostPerWindow, AnswersMatchRequests
    <2>4. QED
      BY <2>1, <2>2, <2>3 DEF Creation
  <1>4. ASSUME Claim(r), ~Live(r), pc' = [pc EXCEPT ![r] = "write"],
               keyLock' = [keyLock EXCEPT ![key[r]] = r], UNCHANGED answer
        PROVE  Creation'
    <2>1. keyLock[key[r]] = None /\ key[r] \in Keys
      BY <1>1, <1>4 DEF Claim, Claimable, TypeOK
    <2>2. RequestsEnd'
      BY <1>1, <1>4, MadeRequests DEF Creation, RequestsEnd, TypeOK
    <2>3. ClaimsHold'
      <3>1. keyLock'[key[r]] = r
        BY <1>4, <2>1 DEF TypeOK
      <3>2. \A s \in Requests \ {r} : pc[s] = "write" => key[s] # key[r] /\ keyLock'[key[s]] = keyLock[key[s]]
        BY <1>4, <2>1, ThreadsAssumption DEF Creation, ClaimsHold, TypeOK, Posts
      <3>3. QED
        BY <1>1, <1>4, <3>1, <3>2 DEF Creation, ClaimsHold, Live, TypeOK
    <2>4. KeysRemember' /\ OnePostPerWindow' /\ AnswersMatchRequests'
      BY <1>1, <1>4 DEF Creation, KeysRemember, OnePostPerWindow, AnswersMatchRequests
    <2>5. QED
      BY <2>2, <2>3, <2>4 DEF Creation
  <1>5. QED
    BY <1>2, <1>3, <1>4 DEF Replay, Claim

\* The end of a transaction releases the key of this transaction only.
LEMMA ReleaseStep ==
  ASSUME TypeOK, ClaimsHold, NEW r \in Requests, Release(r)
  PROVE  /\ pc'[r] = "done"
         /\ \A s \in Requests \ {r} : pc'[s] = pc[s]
         /\ \A s \in Requests \ {r} : pc[s] = "write" =>
               keyLock'[key[s]] = s /\ (pc[r] = "write" => key[s] # key[r])
  <1>1. pc' = [pc EXCEPT ![r] = "done"]
    BY DEF Release
  <1>2. \A s \in Requests \ {r} : pc[s] = "write" =>
           keyLock'[key[s]] = s /\ (pc[r] = "write" => key[s] # key[r])
    BY DEF Release, ClaimsHold, TypeOK
  <1>3. QED
    BY <1>1, <1>2 DEF TypeOK

\* A transaction that is undone leaves no trace but the end of its claim.
LEMMA GiveUpStep ==
  ASSUME TypeOK, Creation, NEW r \in Requests, GiveUp(r)
  PROVE  Creation'
  <1>1. Release(r) /\ UNCHANGED <<made, keyRow, key, body, at, answer>> /\ pc[r] # "done"
    BY DEF GiveUp, postVars
  <1>2. ClaimsHold
    BY DEF Creation
  <1>3. RequestsEnd'
    BY <1>1, <1>2, ReleaseStep, MadeRequests DEF Creation, RequestsEnd
  <1>4. ClaimsHold'
    BY <1>1, <1>2, ReleaseStep DEF ClaimsHold, Live
  <1>5. KeysRemember' /\ OnePostPerWindow' /\ AnswersMatchRequests'
    BY <1>1 DEF Creation, KeysRemember, OnePostPerWindow, AnswersMatchRequests
  <1>6. QED
    BY <1>3, <1>4, <1>5 DEF Creation

\* A post is written under its key when every other post of the key is older by
\* the key's lifetime: that is what the row of the key says, since it is not live.
LEMMA StoreStep ==
  ASSUME TypeOK, Creation, NEW r \in Requests, pc[r] = "write", Store(r),
         UNCHANGED <<key, body, at>>
  PROVE  Creation'
  <1> DEFINE row == [body |-> body[r], expiresAt |-> at[r] + Window, post |-> r]
  <1>1. /\ made' = made \union {r}
        /\ keyRow' = [keyRow EXCEPT ![key[r]] = row]
        /\ answer' = [answer EXCEPT ![r] = r]
        /\ Release(r)
    BY DEF Store
  <1>2. /\ key[r] \in Keys /\ body[r] \in Bodies /\ at[r] \in Nat
        /\ r # Opening /\ r # None /\ Window \in Nat \ {0}
        /\ r \notin made /\ ~Live(r) /\ ClaimsHold
    BY ThreadsAssumption, NewRequests DEF TypeOK, Creation, ClaimsHold, Posts
  <1>3. keyRow'[key[r]] = row /\ row # None
    BY <1>1, <1>2, ThreadsAssumption DEF TypeOK, KeyRow
  <1>4. \A k \in Keys \ {key[r]} : keyRow'[k] = keyRow[k]
    BY <1>1 DEF TypeOK
  <1>5. \A s \in made \ {Opening} : key[s] = key[r] => at[s] + Window <= at[r]
    <2> SUFFICES ASSUME NEW s \in made \ {Opening}, key[s] = key[r] PROVE at[s] + Window <= at[r]
      OBVIOUS
    <2> DEFINE last == keyRow[key[r]].post
    <2>1. /\ keyRow[key[r]] # None
          /\ last = s \/ at[s] + Window <= at[last]
      BY DEF Creation, KeysRemember
    <2>2. /\ last \in made /\ keyRow[key[r]].expiresAt = at[last] + Window
          /\ last \in Requests
      BY <1>2, <2>1 DEF Creation, KeysRemember, TypeOK, KeyRow
    <2>3. at[last] \in Nat /\ at[s] \in Nat
      BY <2>2, MadeRequests DEF TypeOK
    <2>4. at[last] + Window <= at[r]
      BY <1>2, <2>1, <2>2, <2>3 DEF Live
    <2>5. QED
      BY <1>2, <2>1, <2>3, <2>4
  <1>6. RequestsEnd'
    BY <1>1, <1>2, ReleaseStep, MadeRequests DEF Creation, RequestsEnd, TypeOK
  <1>7. ClaimsHold'
    BY <1>1, <1>2, <1>4, ReleaseStep DEF ClaimsHold, Live, TypeOK
  <1>8. KeysRemember'
    <2>1. ASSUME NEW k \in Keys, keyRow'[k] # None
          PROVE  LET post == keyRow'[k].post IN
                 /\ post \in made'
                 /\ key[post] = k /\ body[post] = keyRow'[k].body
                 /\ keyRow'[k].expiresAt = at[post] + Window
      BY <1>1, <1>3, <1>4, <2>1 DEF Creation, KeysRemember
    <2>2. ASSUME NEW s \in made' \ {Opening}
          PROVE  /\ keyRow'[key[s]] # None
                 /\ keyRow'[key[s]].post = s \/ at[s] + Window <= at[keyRow'[key[s]].post]
      BY <1>1, <1>3, <1>4, <1>5, <2>2, MadeRequests DEF Creation, KeysRemember
    <2>3. QED
      BY <2>1, <2>2 DEF KeysRemember
  <1>9. OnePostPerWindow'
    BY <1>1, <1>5 DEF Creation, OnePostPerWindow
  <1>10. AnswersMatchRequests'
    BY <1>1, <1>2 DEF Creation, AnswersMatchRequests, TypeOK
  <1>11. QED
    BY <1>6, <1>7, <1>8, <1>9, <1>10 DEF Creation

\* Every step keeps what the uniqueness of posts and the answers rest on.
LEMMA CreationStep == TypeOK /\ Creation /\ [Next]_vars => Creation'
  <1> SUFFICES ASSUME TypeOK, Creation, [Next]_vars PROVE Creation'
    OBVIOUS
  <1>1. ASSUME NEW r \in Requests, Reply(r) \/ CreateTopic(r) PROVE Creation'
    BY <1>1, StoreStep DEF Reply, CreateTopic
  <1>2. CASE UNCHANGED <<made, keyVars, requestVars>>
    BY <1>2 DEF keyVars, requestVars, Creation, RequestsEnd, ClaimsHold, Live, KeysRemember,
                OnePostPerWindow, AnswersMatchRequests
  <1>3. QED
    BY <1>1, <1>2, Cases, BeginStep, ClaimStep, GiveUpStep

-----------------------------------------------------------------------------
(* Edits.                                                                  *)

\* A revision is appended by a request that expected the version before it, and
\* what a request expected does not change after it has begun.
LEMMA RevisionStep == TypeOK /\ RevisionsKept /\ [Next]_vars => RevisionsKept'
  <1> SUFFICES ASSUME TypeOK, RevisionsKept, [Next]_vars PROVE RevisionsKept'
    OBVIOUS
  <1>1. ASSUME NEW e \in Editors, NEW p \in made, NEW manager \in BOOLEAN, NEW read \in 0..version[p],
               BeginEdit(e, p, manager, read)
        PROVE  RevisionsKept'
    BY <1>1 DEF BeginEdit, postVars, RevisionsKept, TypeOK
  <1>2. ASSUME NEW e \in Editors, EditPost(e) PROVE RevisionsKept'
    <2> DEFINE p == target[e]
    <2>1. /\ epc' = [epc EXCEPT ![e] = "done"] /\ epc[e] = "write" /\ expected' = expected
          /\ p \in Posts
          /\ epc'[e] = "done" /\ \A x \in Editors : epc[x] = "done" => epc'[x] = "done"
      BY <1>2 DEF EditPost, TypeOK
    <2>2. CASE UNCHANGED <<version, revisions>>
      BY <2>1, <2>2 DEF RevisionsKept, TypeOK
    <2>3. CASE /\ Matches(e)
               /\ version' = [version EXCEPT ![p] = expected[e] + 1]
               /\ revisions' = [revisions EXCEPT ![p] = Append(@, e)]
      <3>1. version[p] = expected[e] /\ version[p] \in Nat \ {0}
        BY <2>1, <2>3 DEF Matches, TypeOK
      <3>2. /\ revisions[p] \in Seq(Posts \union Editors) /\ Len(revisions[p]) = version[p]
            /\ \A n \in 2..version[p] : /\ revisions[p][n] \in Editors
                                        /\ epc[revisions[p][n]] = "done"
                                        /\ expected[revisions[p][n]] = n - 1
        BY <2>1 DEF TypeOK, RevisionsKept
      <3>3. /\ revisions'[p] = Append(revisions[p], e) /\ version'[p] = version[p] + 1
            /\ \A q \in Posts \ {p} : revisions'[q] = revisions[q] /\ version'[q] = version[q]
        BY <2>1, <2>3, <3>1 DEF TypeOK
      <3>4. Len(revisions'[p]) = version'[p]
        BY <3>1, <3>2, <3>3
      <3>5. ASSUME NEW n \in 2..version'[p]
            PROVE  /\ revisions'[p][n] \in Editors
                   /\ epc'[revisions'[p][n]] = "done"
                   /\ expected[revisions'[p][n]] = n - 1
        <4>1. CASE n = version[p] + 1
          <5>1. revisions'[p][n] = e
            BY <3>1, <3>2, <3>3, <4>1
          <5>2. QED
            BY <2>1, <3>1, <4>1, <5>1 DEF TypeOK
        <4>2. CASE n \in 2..version[p]
          <5>1. revisions'[p][n] = revisions[p][n]
            BY <3>1, <3>2, <3>3, <4>2
          <5>2. /\ revisions[p][n] \in Editors /\ epc[revisions[p][n]] = "done"
                /\ expected[revisions[p][n]] = n - 1
            BY <3>2, <4>2
          <5>3. QED
            BY <2>1, <5>1, <5>2
        <4>3. n \in 2..version[p] \/ n = version[p] + 1
          <5>1. n \in 2..(version[p] + 1)
            BY <3>3
          <5>2. QED
            BY <3>1, <5>1
        <4>4. QED
          BY <4>1, <4>2, <4>3
      <3>6. ASSUME NEW q \in Posts \ {p}
            PROVE  /\ Len(revisions'[q]) = version'[q]
                   /\ \A n \in 2..version'[q] :
                         /\ revisions'[q][n] \in Editors
                         /\ epc'[revisions'[q][n]] = "done"
                         /\ expected'[revisions'[q][n]] = n - 1
        BY <2>1, <3>3 DEF RevisionsKept
      <3>7. /\ Len(revisions'[p]) = version'[p]
            /\ \A n \in 2..version'[p] :
                  /\ revisions'[p][n] \in Editors
                  /\ epc'[revisions'[p][n]] = "done"
                  /\ expected'[revisions'[p][n]] = n - 1
        BY <2>1, <3>4, <3>5
      <3>8. QED
        BY <3>6, <3>7 DEF RevisionsKept
    <2>4. QED
      BY <1>2, <2>2, <2>3 DEF EditPost
  <1>3. ASSUME NEW e \in Editors, DeletePost(e) PROVE RevisionsKept'
    BY <1>3 DEF DeletePost, RevisionsKept, TypeOK
  <1>4. CASE UNCHANGED <<version, revisions, epc, expected>>
    BY <1>4 DEF RevisionsKept
  <1>5. QED
    BY <1>1, <1>2, <1>3, <1>4
    DEF Next, Create, Edit, Moderate, Begin, Replay, Claim, Reply, CreateTopic, GiveUp,
        SetLocked, SetTopicDeleted, ModeratePost, Tick, vars, postVars, editVars

-----------------------------------------------------------------------------
(* Counters and the closed topic.                                          *)

\* Only a reply makes a reply.
LEMMA RepliesChange ==
  ASSUME TypeOK, Creation, [Next]_vars
  PROVE  \/ UNCHANGED <<Replies, replyCount, latestPostAt>>
            /\ (\A r \in Replies : at'[r] = at[r])
         \/ \E r \in Requests : Reply(r)
  <1>1. \A r \in Replies : r \in Requests /\ pc[r] = "done"
    BY MadeRequests DEF Replies
  <1>2. ASSUME NEW r \in Requests, NEW k \in Keys, NEW b \in Bodies, Begin(r, k, b)
        PROVE  UNCHANGED <<Replies, replyCount, latestPostAt>> /\ (\A s \in Replies : at'[s] = at[s])
    <2>1. r \notin made
      BY <1>2, NewRequests DEF Begin
    <2>2. \A s \in made \ {Opening} : key'[s] = key[s] /\ at'[s] = at[s]
      BY <1>2, <2>1, MadeRequests DEF Begin, TypeOK
    <2>3. QED
      BY <1>2, <2>2 DEF Begin, topicVars, postVars, Replies, IsReply
  <1>3. ASSUME NEW r \in Requests, CreateTopic(r)
        PROVE  UNCHANGED <<Replies, replyCount, latestPostAt>> /\ (\A s \in Replies : at'[s] = at[s])
    BY <1>3 DEF CreateTopic, Store, topicVars, Replies, IsReply
  <1>4. ASSUME NEW r \in Requests, Replay(r) \/ Claim(r) \/ GiveUp(r)
        PROVE  UNCHANGED <<Replies, replyCount, latestPostAt>> /\ (\A s \in Replies : at'[s] = at[s])
    BY <1>4 DEF Replay, Claim, GiveUp, topicVars, postVars, Replies, IsReply
  <1>5. CASE UNCHANGED <<made, key, at, replyCount, latestPostAt>>
    BY <1>5 DEF Replies, IsReply
  <1>6. QED
    BY <1>2, <1>3, <1>4, <1>5
    DEF Next, Create, Edit, Moderate, BeginEdit, EditPost, DeletePost, SetLocked,
        SetTopicDeleted, ModeratePost, Tick, vars, topicVars, postVars, requestVars

\* A reply adds one to the count and never lowers the latest time.
LEMMA CounterStep ==
  TypeOK /\ Creation /\ IsFiniteSet(made) /\ CountersMatchReplies /\ [Next]_vars
    => IsFiniteSet(made)' /\ CountersMatchReplies'
  <1> SUFFICES ASSUME TypeOK, Creation, IsFiniteSet(made), CountersMatchReplies, [Next]_vars
               PROVE  IsFiniteSet(made)' /\ CountersMatchReplies'
    OBVIOUS
  <1>1. IsFiniteSet(made)'
    <2>1. UNCHANGED made \/ \E r \in Requests : made' = made \union {r}
      BY Cases DEF Begin, Replay, Claim, Reply, CreateTopic, GiveUp, Store, postVars
    <2>2. QED
      BY <2>1, FS_AddElement
  <1>2. IsFiniteSet(Replies)
    BY FS_Subset DEF Replies
  <1>3. ASSUME NEW r \in Requests, Reply(r) PROVE CountersMatchReplies'
    <2>1. r \notin Replies /\ r # Opening /\ at[r] \in Nat /\ latestPostAt \in Nat
      BY <1>3, NewRequests, ThreadsAssumption DEF Reply, Replies, TypeOK, Posts
    <2>2. Replies' = Replies \union {r} /\ at' = at
      BY <1>3, <2>1 DEF Reply, Store, Replies, IsReply
    <2>3. replyCount' = replyCount + 1 /\ latestPostAt' = Latest(at[r])
      BY <1>3 DEF Reply
    <2>4. replyCount' = Cardinality(Replies')
      BY <1>2, <2>1, <2>2, <2>3, FS_AddElement DEF CountersMatchReplies
    <2>5. \A s \in Replies : at[s] \in Nat
      BY MadeRequests DEF Replies
    <2>6. /\ \A s \in Replies' : at'[s] <= latestPostAt'
          /\ latestPostAt' = 0 \/ \E s \in Replies' : at'[s] = latestPostAt'
      BY <2>1, <2>2, <2>3, <2>5 DEF CountersMatchReplies, Latest
    <2>7. QED
      BY <2>4, <2>6 DEF CountersMatchReplies
  <1>4. CASE UNCHANGED <<Replies, replyCount, latestPostAt>> /\ (\A r \in Replies : at'[r] = at[r])
    BY <1>1, <1>4 DEF CountersMatchReplies
  <1>5. QED
    BY <1>1, <1>3, <1>4, RepliesChange

\* While the topic is closed no step replies, and no step of an edit whose user was
\* not a manager changes a post.
LEMMA QuietStep ==
  ASSUME TypeOK, Creation, [Next]_vars
  PROVE  /\ topicDeleted \/ locked => Replies' = Replies
         /\ \A e \in Editors :
               /\ epc[e] = "write" /\ epc'[e] = "done"
               /\ topicDeleted \/ (locked /\ e \notin allowLocked)
               => UNCHANGED postVars
  <1>1. topicDeleted \/ locked => Replies' = Replies
    BY RepliesChange DEF Reply, TakesReplies
  <1>2. ASSUME NEW e \in Editors, epc[e] = "write", epc'[e] = "done",
               topicDeleted \/ (locked /\ e \notin allowLocked)
        PROVE  UNCHANGED postVars
    <2>1. ~MayMutate(e)
      BY <1>2 DEF MayMutate
    <2>2. EditPost(e) \/ DeletePost(e)
      <3>1. ASSUME NEW f \in Editors, NEW p \in made, NEW manager \in BOOLEAN,
                   NEW read \in 0..version[p], BeginEdit(f, p, manager, read)
            PROVE  FALSE
        BY <1>2, <3>1 DEF BeginEdit, TypeOK
      <3>2. ASSUME NEW f \in Editors, EditPost(f) \/ DeletePost(f) PROVE f = e
        BY <1>2, <3>2 DEF EditPost, DeletePost, TypeOK
      <3>3. epc' # epc
        BY <1>2
      <3>4. QED
        BY <3>1, <3>2, <3>3
        DEF Next, Create, Edit, Moderate, Begin, Replay, Claim, Reply, CreateTopic, GiveUp,
            SetLocked, SetTopicDeleted, ModeratePost, Tick, vars, editVars
    <2>3. QED
      BY <2>1, <2>2 DEF EditPost, DeletePost, postVars
  <1>3. QED
    BY <1>1, <1>2

-----------------------------------------------------------------------------
(* Theorems.                                                               *)

\* The strengthened invariant of a topic, its posts and its keys.
THEOREM ThreadInvariant == Spec => []ThreadInv
  <1>1. Init => ThreadInv
    <2> SUFFICES ASSUME Init PROVE ThreadInv
      OBVIOUS
    <2> USE ThreadsAssumption DEF Init
    <2>1. TypeOK
      <3>1. \A p \in Posts : <<p>> \in Seq(Posts \union Editors)
        OBVIOUS
      <3>2. revisions \in [Posts -> Seq(Posts \union Editors)]
        BY <3>1
      <3>3. version \in [Posts -> Nat \ {0}] /\ made \subseteq Posts /\ Opening \in made
        BY DEF Posts
      <3>4. /\ keyRow \in [Keys -> KeyRow \union {None}] /\ keyLock \in [Keys -> Requests \union {None}]
            /\ key \in [Requests -> Keys \union {None}] /\ body \in [Requests -> Bodies \union {None}]
            /\ answer \in [Requests -> Requests \union {None}] /\ target \in [Editors -> made]
        OBVIOUS
      <3>5. QED
        BY <3>2, <3>3, <3>4 DEF TypeOK
    <2>2. RequestsEnd /\ ClaimsHold /\ OnePostPerWindow /\ AnswersMatchRequests
      BY DEF RequestsEnd, ClaimsHold, OnePostPerWindow, AnswersMatchRequests
    <2>3. KeysRemember
      BY DEF KeysRemember
    <2>4. RevisionsKept
      <3>1. \A p \in Posts : revisions[p] = <<p>> /\ version[p] = 1 /\ Len(<<p>>) = 1
        OBVIOUS
      <3>2. 2..1 = {}
        OBVIOUS
      <3>3. QED
        BY <3>1, <3>2 DEF RevisionsKept
    <2>5. IsFiniteSet(made)
      BY FS_Singleton
    <2>6. CountersMatchReplies
      <3>1. Replies = {}
        BY DEF Replies
      <3>2. QED
        BY <3>1, FS_EmptySet DEF CountersMatchReplies
    <2>7. QED
      BY <2>1, <2>2, <2>3, <2>4, <2>5, <2>6 DEF ThreadInv
  <1>2. ThreadInv /\ [Next]_vars => ThreadInv'
    BY TypeStep, CreationStep, RevisionStep, CounterStep DEF ThreadInv, Creation
  <1>3. QED
    BY <1>1, <1>2, PTL DEF Spec

\* The rows of a topic and its requests keep their shape.
THEOREM TypeCorrect == Spec => []TypeOK
  <1>1. ThreadInv => TypeOK
    BY DEF ThreadInv
  <1>2. QED
    BY <1>1, ThreadInvariant, PTL

\* However deliveries of a request race, wait and repeat, a key makes one post
\* within its lifetime.
THEOREM OnePostPerKey == Spec => []OnePostPerWindow
  <1>1. ThreadInv => OnePostPerWindow
    BY DEF ThreadInv
  <1>2. QED
    BY <1>1, ThreadInvariant, PTL

\* Every answer is the post that the request asked for.
THEOREM FaithfulAnswers == Spec => []AnswersMatchRequests
  <1>1. ThreadInv => AnswersMatchRequests
    BY DEF ThreadInv
  <1>2. QED
    BY <1>1, ThreadInvariant, PTL

\* Reply counters and the rows of posts agree.
THEOREM CountersTrue == Spec => []CountersMatchReplies
  <1>1. ThreadInv => CountersMatchReplies
    BY DEF ThreadInv
  <1>2. QED
    BY <1>1, ThreadInvariant, PTL

\* No edit overwrites a version that its user had not read.
THEOREM UpdatesKept == Spec => []NoLostUpdate
  <1>1. ThreadInv => NoLostUpdate
    BY DEF ThreadInv, TypeOK, RevisionsKept, NoLostUpdate
  <1>2. QED
    BY <1>1, ThreadInvariant, PTL

\* A locked or deleted topic stays as it is, but for its managers.
THEOREM ClosedTopicsQuiet == Spec => QuietWhenClosed
  <1>1. ThreadInv /\ [Next]_vars =>
           [/\ topicDeleted \/ locked => Replies' = Replies
            /\ \A e \in Editors :
                  /\ epc[e] = "write" /\ epc'[e] = "done"
                  /\ topicDeleted \/ (locked /\ e \notin allowLocked)
                  => UNCHANGED postVars]_vars
    BY QuietStep DEF ThreadInv, Creation
  <1>2. QED
    BY <1>1, ThreadInvariant, PTL DEF Spec, QuietWhenClosed

-----------------------------------------------------------------------------
(***************************************************************************)
(* Creation implements IdempotentPosts.  The instant at which a request is *)
(* decided is the one at which it reads a live row, or writes its post     *)
(* under its claim; by KeysRemember the row is that of the latest post,    *)
(* and is live exactly when a post of the key is.                          *)
(***************************************************************************)

\* The row of a key tells what its posts would.
LEMMA RowTells ==
  ASSUME TypeOK, Creation, NEW r \in Requests, key[r] \in Keys
  PROVE  /\ Live(r) => /\ keyRow[key[r]].post \in Abstract!Live(r)
                       /\ \A q \in Abstract!Live(r) : at[q] <= at[keyRow[key[r]].post]
         /\ ~Live(r) => Abstract!Live(r) = {}
  <1> DEFINE row == keyRow[key[r]]
  <1>1. row # None =>
          /\ row.post \in made \ {Opening} /\ key[row.post] = key[r]
          /\ row.expiresAt = at[row.post] + Window /\ at[row.post] \in Nat
    BY ThreadsAssumption DEF TypeOK, KeyRow, Creation, KeysRemember
  <1>2. \A q \in made \ {Opening} : key[q] = key[r] =>
          row # None /\ (row.post = q \/ at[q] + Window <= at[row.post])
    BY DEF Creation, KeysRemember
  <1>3. at[r] \in Nat /\ Window \in Nat /\ \A q \in made \ {Opening} : at[q] \in Nat
    BY ThreadsAssumption, MadeRequests DEF TypeOK
  <1>4. Live(r) <=> row # None /\ row.expiresAt > at[r]
    BY DEF Live
  <1>5. ASSUME Live(r)
        PROVE  /\ row.post \in Abstract!Live(r)
               /\ \A q \in Abstract!Live(r) : at[q] <= at[row.post]
    BY <1>1, <1>2, <1>3, <1>4, <1>5 DEF Abstract!Live
  <1>6. ASSUME ~Live(r), NEW q \in Abstract!Live(r) PROVE FALSE
    <2>1. q \in made \ {Opening} /\ key[q] = key[r] /\ at[r] < at[q] + Window
      BY <1>6 DEF Abstract!Live
    <2>2. QED
      BY <1>1, <1>2, <1>3, <1>4, <1>6, <2>1
  <1>7. QED
    BY <1>5, <1>6

\* Where a request is, seen from outside.
LEMMA PhaseSteps ==
  ASSUME TypeOK, NEW r \in Requests, NEW l, pc' = [pc EXCEPT ![r] = l]
  PROVE  /\ l = "done" => Phase' = [Phase EXCEPT ![r] = "decided"]
         /\ l \notin {"new", "done"} => Phase' = [Phase EXCEPT ![r] = "asked"]
  BY DEF Phase, TypeOK

LEMMA PhaseOf ==
  ASSUME NEW r \in Requests
  PROVE  /\ pc[r] = "new" => Phase[r] = "new"
         /\ pc[r] \in {"replay", "claim", "write"} => Phase[r] = "asked"
  BY DEF Phase

\* A request that reads a live row is answered from it, or refused.
LEMMA AnswerDecides ==
  ASSUME TypeOK, Creation, NEW r \in Requests, pc[r] \in {"replay", "claim"}, AnswerFromKey(r),
         UNCHANGED <<now, made, key, body, at>>
  PROVE  Abstract!Decide(r)
  <1>1. key[r] \in Keys /\ Live(r) /\ answer[r] = None
    BY NewRequests DEF TypeOK, AnswerFromKey
  <1>2. Phase[r] = "asked" /\ Phase' = [Phase EXCEPT ![r] = "decided"]
    BY PhaseOf, PhaseSteps DEF AnswerFromKey
  <1>3. CASE SameRequest(r)
    <2>1. body[keyRow[key[r]].post] = body[r]
      BY <1>1, <1>3 DEF SameRequest, Live, Creation, KeysRemember
    <2>2. answer' = [answer EXCEPT ![r] = keyRow[key[r]].post]
      BY <1>3 DEF AnswerFromKey
    <2>3. Abstract!Replay(r)
      BY <1>1, <2>1, <2>2, RowTells DEF Abstract!Replay
    <2>4. QED
      BY <1>2, <2>3 DEF Abstract!Decide
  <1>4. CASE ~SameRequest(r)
    <2>1. answer' = answer
      BY <1>1, <1>4 DEF AnswerFromKey, TypeOK
    <2>2. QED
      BY <1>2, <2>1 DEF Abstract!Decide, Abstract!Refuse
  <1>5. QED
    BY <1>3, <1>4

\* A claim without a live row is what makes a post legitimate.
LEMMA StoreDecides ==
  ASSUME TypeOK, Creation, NEW r \in Requests, pc[r] = "write", Store(r),
         UNCHANGED <<now, key, body, at>>
  PROVE  Abstract!Decide(r)
  <1>1. key[r] \in Keys /\ ~Live(r) /\ r # Opening
    BY ThreadsAssumption DEF TypeOK, Creation, ClaimsHold
  <1>2. Abstract!Live(r) = {}
    BY <1>1, RowTells
  <1>3. Phase[r] = "asked" /\ Phase' = [Phase EXCEPT ![r] = "decided"]
    BY PhaseOf, PhaseSteps DEF Store, Release
  <1>4. (made \ {Opening})' = (made \ {Opening}) \union {r}
    BY <1>1 DEF Store
  <1>5. Abstract!Post(r)
    BY <1>2, <1>4 DEF Abstract!Post, Store
  <1>6. QED
    BY <1>3, <1>5 DEF Abstract!Decide

\* Every step of a request asks, decides or is not seen from outside.
LEMMA AbstractStep ==
  ASSUME TypeOK, Creation, [Next]_vars
  PROVE  Abstract!Next \/ UNCHANGED Abstract!postVars
  <1>1. ASSUME NEW r \in Requests, NEW k \in Keys, NEW b \in Bodies, Begin(r, k, b)
        PROVE  Abstract!Ask(r, k, b)
    <2>1. pc[r] = "new" /\ pc' = [pc EXCEPT ![r] = "replay"]
      BY <1>1 DEF Begin
    <2>2. Phase' = [Phase EXCEPT ![r] = "asked"]
      BY <2>1 DEF Phase, TypeOK
    <2>3. Phase[r] = "new"
      BY <2>1, PhaseOf
    <2>4. QED
      BY <1>1, <2>2, <2>3 DEF Abstract!Ask, Begin, postVars
  <1>2. ASSUME NEW r \in Requests, Replay(r) \/ Claim(r)
        PROVE  Abstract!Decide(r) \/ UNCHANGED Abstract!postVars
    <2>1. pc[r] \in {"replay", "claim"} /\ UNCHANGED <<now, made, key, body, at>>
      BY <1>2 DEF Replay, Claim, postVars
    <2>2. CASE AnswerFromKey(r)
      BY <2>1, <2>2, AnswerDecides
    <2>3. ASSUME NEW l \in {"claim", "write"}, pc' = [pc EXCEPT ![r] = l], UNCHANGED answer
          PROVE  UNCHANGED Abstract!postVars
      <3>1. Phase' = [Phase EXCEPT ![r] = "asked"] /\ Phase[r] = "asked"
        BY <2>1, <2>3, PhaseSteps, PhaseOf
      <3>2. Phase' = Phase
        BY <3>1 DEF Phase
      <3>3. QED
        BY <2>1, <2>3, <3>2 DEF Abstract!postVars
    <2>4. QED
      BY <1>2, <2>2, <2>3 DEF Replay, Claim
  <1>3. ASSUME NEW r \in Requests, Reply(r) \/ CreateTopic(r) PROVE Abstract!Decide(r)
    BY <1>3, StoreDecides DEF Reply, CreateTopic
  <1>4. ASSUME NEW r \in Requests, GiveUp(r) PROVE Abstract!Decide(r)
    <2>1. Phase[r] = "asked" /\ Phase' = [Phase EXCEPT ![r] = "decided"]
      BY <1>4, PhaseOf, PhaseSteps DEF GiveUp, Release
    <2>2. QED
      BY <1>4, <2>1 DEF GiveUp, postVars, Abstract!Decide, Abstract!Refuse
  <1>5. CASE UNCHANGED <<made, keyVars, requestVars>> /\ now' \in {now, now + 1}
    BY <1>5 DEF Phase, requestVars, Abstract!Next, Abstract!Tick, Abstract!postVars
  <1>6. now' \in {now, now + 1}
    BY DEF Next, Create, Edit, Moderate, Begin, Replay, Claim, Reply, CreateTopic, GiveUp,
           BeginEdit, EditPost, DeletePost, SetLocked, SetTopicDeleted, ModeratePost, Tick, vars
  <1>7. QED
    BY <1>1, <1>2, <1>3, <1>4, <1>5, <1>6, Cases DEF Abstract!Next

\* Deliveries are decided one at a time: the replay before the transaction, the claim in
\* it, the row of the key and its expiry together implement the atomic promise.
THEOREM CreationIsAtomic == Spec => ImplementsIdempotentPosts
  <1>1. Init => Abstract!Init
    BY DEF Init, Abstract!Init, Phase
  <1>2. ThreadInv /\ [Next]_vars => [Abstract!Next]_(Abstract!postVars)
    BY AbstractStep DEF ThreadInv, Creation
  <1>3. QED
    BY <1>1, <1>2, ThreadInvariant, PTL DEF Spec, ImplementsIdempotentPosts, Abstract!Spec
=============================================================================
