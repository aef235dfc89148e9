------------------------------ MODULE Sessions ------------------------------
(***************************************************************************)
(* The sessions of one account and the desktop clients that hold them.     *)
(* The server serves each request in steps, one per transaction or         *)
(* statement; an UPDATE of several rows sees the rows there were when it   *)
(* began and skips those that changed meanwhile (READ COMMITTED).  A       *)
(* client keeps its access token in memory and its refresh token in the    *)
(* operating system's store, behind a mutex.                               *)
(*                                                                         *)
(* A row and its refresh token share one identity, a family is named after *)
(* its first row, and a user is taken to know his password.                *)
(***************************************************************************)
EXTENDS Naturals

CONSTANTS
    Clients,    \* desktop installations
    Handlers,   \* requests the server can be serving at once
    Rows,       \* rows of sessions, each with its refresh token
    MaxIncidents,  \* bound on the incidents: failures, suspensions, expiries
    None        \* no client, no row

ASSUME SessionsAssumption ==
    /\ None \notin Clients \union Rows
    /\ MaxIncidents \in Nat

VARIABLES
    active,     \* users.status = 'active'
    state,      \* a row: "none", "live", "expired" or "revoked"
    family,     \* sessions.token_family_id
    job,        \* the request a handler serves
    stored,     \* the client's refresh token in the credential store
    access,     \* the session of the client's access token
    clearing,   \* clients whose forget() has yet to clear the store
    cut,        \* history: rows a finished revocation ended, and their heirs
    seen,       \* history: rows there were when a handler's UPDATE began
    lost,       \* history: families with an answer their client never got
    killed,     \* history: families that lost a live successor of a token used again
    incidents,  \* how many incidents there were
    out         \* history: clients that cleared their store and have not signed in

serverVars  == <<active, state, family>>
clientVars  == <<stored, access, clearing>>
historyVars == <<cut, seen, lost, killed, out>>
vars == <<serverVars, job, clientVars, historyVars, incidents>>

Ops == {"login", "refresh", "logout", "logoutAll", "revokeSession", "change", "reset"}

Idle == [op |-> "none", pc |-> "idle", by |-> None, token |-> None,
         target |-> None, snap |-> {}]

Init ==
    /\ active = TRUE
    /\ state = [s \in Rows |-> "none"]
    /\ family = [s \in Rows |-> s]
    /\ job = [h \in Handlers |-> Idle]
    /\ stored = [c \in Clients |-> None]
    /\ access = [c \in Clients |-> None]
    /\ clearing = {}
    /\ cut = {} /\ seen = [h \in Handlers |-> {}]
    /\ lost = {} /\ killed = {} /\ out = Clients
    /\ incidents = 0

Exists(s)     == state[s] # "none"
Unrevoked(s)  == state[s] \in {"live", "expired"}
At(h, o, p)   == job[h].op \in o /\ job[h].pc = p
Goto(h, p)    == job' = [job EXCEPT ![h].pc = p]
Reply(h, p, t) ==                      \* the answer, if anyone is waiting for it
    job' = [job EXCEPT ![h] = IF @.by = None THEN Idle
                              ELSE [@ EXCEPT !.pc = p, !.target = t, !.snap = {}]]
IsActive(s)   == s # None /\ state[s] = "live" /\ active
Revoke(S)     == state' = [s \in Rows |-> IF s \in S /\ Unrevoked(s) THEN "revoked" ELSE state[s]]

Incident == incidents < MaxIncidents /\ incidents' = incidents + 1

\* A refresh of client c is under way: refreshAuthentication hands out one promise.
Refreshing(c) == \E h \in Handlers : job[h].op = "refresh" /\ job[h].by = c

\* The mutex of NativeAuthState: held from reading the token to storing its successor.
Locked_Never(c) == FALSE               \* mutated: no mutex around the store
Locked(c) == \E h \in Handlers : /\ job[h].op = "refresh" /\ job[h].by = c
                                 /\ job[h].pc \notin {"stored", "cleared"}

-----------------------------------------------------------------------------
(* Requests.                                                               *)

Ask(h, o, p, c, t, target) ==
    /\ job[h] = Idle
    /\ job' = [job EXCEPT ![h] = [op |-> o, pc |-> p, by |-> c, token |-> t,
                                  target |-> target, snap |-> {}]]
    /\ UNCHANGED <<serverVars, stored, clearing, historyVars, incidents>>

\* signIn and completeOidcSignIn.
SignIn(c, h) ==
    /\ access[c] = None
    /\ \A g \in Handlers : job[g].op = "login" => job[g].by # c
    /\ Ask(h, "login", "read", c, None, None)
    /\ UNCHANGED access

\* performRefresh and refresh_authentication, after a 401, an expired access token,
\* renewAuthentication or a start of the application.
Refresh(c, h) ==
    /\ ~Refreshing(c) /\ stored[c] # None
    /\ Ask(h, "refresh", "find", c, stored[c], None)
    /\ access' = [access EXCEPT ![c] = None]

SignOut(c, h) ==
    /\ access[c] # None
    /\ \E o \in {"logout", "logoutAll"} : Ask(h, o, "guard", c, access[c], access[c])
    /\ UNCHANGED access

RevokeSession(c, h) ==
    /\ access[c] # None
    /\ \E s \in Rows : Exists(s) /\ Ask(h, "revokeSession", "guard", c, access[c], s)
    /\ UNCHANGED access

ChangePassword(c, h) ==
    /\ access[c] # None
    /\ Ask(h, "change", "guard", c, access[c], access[c])
    /\ UNCHANGED access

\* resetPassword with a token that is open: from a mail, on any machine.
ResetPassword(h) == Ask(h, "reset", "revoke", None, None, None) /\ UNCHANGED access

-----------------------------------------------------------------------------
(* The server.                                                             *)

\* AccessAuthenticationGuard: the session of the access token, on every request.
Guard(h) ==
    /\ job[h].pc = "guard"
    /\ IF IsActive(job[h].token) THEN Goto(h, "revoke") ELSE Reply(h, "denied", None)
    /\ UNCHANGED <<serverVars, clientVars, historyVars, incidents>>

\* login: the user and the hash are read ...
LoginRead(h) ==
    /\ At(h, {"login"}, "read")
    /\ IF active THEN Goto(h, "insert") ELSE Reply(h, "denied", None)
    /\ UNCHANGED <<serverVars, clientVars, historyVars, incidents>>

\* ... and the session is inserted without looking again.
LoginInsert(h, n) ==
    /\ At(h, {"login"}, "insert") /\ ~Exists(n)
    /\ state' = [state EXCEPT ![n] = "live"]
    /\ family' = [family EXCEPT ![n] = n]
    /\ Reply(h, "ok", n)
    /\ UNCHANGED <<active, clientVars, historyVars, incidents>>

\* refresh: find the session of the token.
RefreshFind(h) ==
    /\ At(h, {"refresh"}, "find")
    /\ Goto(h, IF IsActive(job[h].token) THEN "rotate" ELSE "family")
    /\ UNCHANGED <<serverVars, clientVars, historyVars, incidents>>

\* rotateSession: revoke the row if it is still live and insert its successor, in one
\* transaction; a row that is not live condemns its family.
StillLive_AsFound(h) == TRUE           \* mutated: UPDATE by id alone
StillLive(h) == state[job[h].token] = "live"
Spent_Kept(h) == "live"                \* mutated: the old row is left as it is
Spent(h)      == "revoked"

RefreshRotate(h, n) ==
    /\ At(h, {"refresh"}, "rotate") /\ StillLive(h) /\ ~Exists(n)
    /\ state' = [state EXCEPT ![job[h].token] = Spent(h), ![n] = "live"]
    /\ family' = [family EXCEPT ![n] = family[job[h].token]]
    /\ job' = [job EXCEPT ![h].pc = "active", ![h].target = n]
    /\ cut' = IF job[h].token \in cut THEN cut \union {n} ELSE cut
    /\ UNCHANGED <<active, clientVars, seen, lost, killed, out, incidents>>

RefreshRefused(h) ==
    /\ At(h, {"refresh"}, "rotate") /\ ~StillLive(h)
    /\ Goto(h, "family")
    /\ UNCHANGED <<serverVars, clientVars, historyVars, incidents>>

\* requireActiveUser, after the rotation.
RefreshActive(h) ==
    /\ At(h, {"refresh"}, "active")
    /\ Reply(h, IF active THEN "ok" ELSE "denied", job[h].target)
    /\ UNCHANGED <<serverVars, clientVars, historyVars, incidents>>

\* revokeSession: one row.
RevokeRow(h) ==
    /\ At(h, {"logout", "revokeSession"}, "revoke")
    /\ Revoke({job[h].target})
    /\ Reply(h, "ok", None)
    /\ cut' = cut \union {job[h].target}
    /\ UNCHANGED <<active, family, clientVars, seen, lost, killed, out, incidents>>

\* The rows an UPDATE of several rows is about: revokeTokenFamily, or those of
\* revokeAllSessions, updatePassword and resetPassword.
Scope_AnyFamily(h) ==                  \* mutated: the family is not in the WHERE
    {s \in Rows : Unrevoked(s) /\ (job[h].op = "change" => s # job[h].token)}
Scope(h) ==
    {s \in Rows : /\ Unrevoked(s)
                  /\ job[h].op = "refresh" => family[s] = family[job[h].token]
                  /\ job[h].op = "change" => s # job[h].token}

UpdateBegin(h) ==
    /\ \/ At(h, {"refresh"}, "family")
       \/ At(h, {"logoutAll", "change", "reset"}, "revoke")
    /\ job' = [job EXCEPT ![h].pc = "revoking", ![h].snap = Scope(h)]
    /\ seen' = [seen EXCEPT ![h] = {s \in Rows : Exists(s)}]
    /\ UNCHANGED <<serverVars, clientVars, cut, lost, killed, out, incidents>>

UpdateEnd(h) ==
    /\ job[h].pc = "revoking"
    /\ Revoke(job[h].snap)
    /\ Reply(h, IF job[h].op = "refresh" THEN "denied" ELSE "ok", None)
    /\ seen' = [seen EXCEPT ![h] = {}]
    /\ IF job[h].op = "refresh"
       THEN /\ killed' = killed \union {family[s] : s \in
                   {t \in job[h].snap \ {job[h].token} : state[t] = "live"}}
            /\ UNCHANGED cut
       ELSE /\ cut' = cut \union (IF job[h].op = "change" THEN seen[h] \ {job[h].token} ELSE seen[h])
            /\ UNCHANGED killed
    /\ UNCHANGED <<active, family, clientVars, lost, out, incidents>>

\* setAccountStatus.  Its lock on the user's row makes it wait for the foreign keys of
\* rotations, and them for it, so that it is one step.
Suspend ==
    /\ Incident
    /\ active
    /\ active' = FALSE
    /\ Revoke(Rows)
    /\ cut' = cut \union {s \in Rows : Exists(s)}
    /\ UNCHANGED <<family, job, clientVars, seen, lost, killed, out>>

Restore ==
    /\ ~active /\ active' = TRUE
    /\ UNCHANGED <<state, family, job, clientVars, historyVars, incidents>>

\* Thirty days pass.
Expire(s) ==
    /\ Incident
    /\ state[s] = "live"
    /\ state' = [state EXCEPT ![s] = "expired"]
    /\ UNCHANGED <<active, family, job, clientVars, historyVars>>

-----------------------------------------------------------------------------
(* The client.                                                             *)

Done(h) == job' = [job EXCEPT ![h] = Idle]

\* forget(): the access token at once, the stored token when the mutex is free.
Forget(c) ==
    /\ access' = [access EXCEPT ![c] = None]
    /\ clearing' = clearing \union {c}

\* store_and_redact under the mutex it holds; storeRefreshToken waits for it.
NextStored_Old(h) ==                   \* mutated: the rotated token is not kept
    IF job[h].op = "login" THEN job[h].target ELSE stored[job[h].by]
NextStored(h) == job[h].target

StoreToken(h) ==
    /\ At(h, {"login", "refresh"}, "ok")
    /\ job[h].op = "login" => ~Locked(job[h].by)
    /\ stored' = [stored EXCEPT ![job[h].by] = NextStored(h)]
    /\ out' = IF job[h].op = "login" THEN out \ {job[h].by} ELSE out
    /\ Goto(h, "stored")
    /\ UNCHANGED <<serverVars, access, clearing, cut, seen, lost, killed, incidents>>

\* rememberSession.
Remember(h) ==
    /\ job[h].pc = "stored"
    /\ access' = [access EXCEPT ![job[h].by] = job[h].target]
    /\ Done(h)
    /\ UNCHANGED <<serverVars, stored, clearing, historyVars, incidents>>

\* A refresh refused with 401 clears the store, still under the mutex ...
Refused(h) ==
    /\ At(h, {"refresh"}, "denied")
    /\ stored' = [stored EXCEPT ![job[h].by] = None]
    /\ Goto(h, "cleared")
    /\ UNCHANGED <<serverVars, access, clearing, historyVars, incidents>>

\* ... and then the client forgets its session, as it does after signing out.
Leave(h) ==
    /\ \/ job[h].pc = "cleared"
       \/ At(h, {"logout", "logoutAll"}, "ok")
       \/ At(h, {"logout", "logoutAll"}, "denied")
    /\ Forget(job[h].by)
    /\ Done(h)
    /\ UNCHANGED <<serverVars, stored, historyVars, incidents>>

\* Other answers: authenticatedRequest drops the access token after a 401.
Finish(h) ==
    /\ \/ At(h, {"login"}, "denied") /\ UNCHANGED access
       \/ At(h, {"revokeSession", "change"}, "ok") /\ UNCHANGED access
       \/ At(h, {"revokeSession", "change"}, "denied")
          /\ access' = [access EXCEPT ![job[h].by] = None]
    /\ Done(h)
    /\ UNCHANGED <<serverVars, stored, clearing, historyVars, incidents>>

\* clear_refresh_token.
ClearStore(c) ==
    /\ c \in clearing /\ ~Locked(c)
    /\ stored' = [stored EXCEPT ![c] = None]
    /\ clearing' = clearing \ {c}
    /\ out' = out \union {c}
    /\ UNCHANGED <<serverVars, job, access, cut, seen, lost, killed, incidents>>

\* signOut with nothing but a stored token, and no answer from the server.
SignOutOffline(c) ==
    /\ access[c] = None /\ stored[c] # None /\ ~Refreshing(c)
    /\ Forget(c)
    /\ UNCHANGED <<serverVars, job, stored, historyVars, incidents>>

\* What a client does that gets no answer: signOut forgets all the same.
GiveUp(h) ==
    IF job[h].op \in {"logout", "logoutAll"} /\ job[h].by # None
    THEN Forget(job[h].by) ELSE UNCHANGED <<access, clearing>>

\* A request no one waits for any more: its answer, if it is out, goes nowhere.
Unheard(j) == IF j.pc \in {"ok", "denied", "stored", "cleared"} THEN Idle ELSE [j EXCEPT !.by = None]

\* The connection breaks and the server goes on.
Abandon(h) ==
    /\ Incident
    /\ job[h].by # None /\ job[h].pc \notin {"stored", "cleared"}
    /\ GiveUp(h)
    /\ job' = [job EXCEPT ![h] = Unheard(@)]
    /\ lost' = IF job[h].op = "refresh" THEN lost \union {family[job[h].token]} ELSE lost
    /\ UNCHANGED <<serverVars, stored, cut, seen, killed, out>>

\* The request does not arrive, the server stops, or a transaction is aborted.
Fail(h) ==
    /\ Incident
    /\ job[h].pc \notin {"idle", "ok", "denied", "stored", "cleared"}
    /\ GiveUp(h)
    /\ Done(h)
    /\ seen' = [seen EXCEPT ![h] = {}]
    /\ lost' = IF job[h].op = "refresh" /\ job[h].pc = "active"
               THEN lost \union {family[job[h].token]} ELSE lost
    /\ UNCHANGED <<serverVars, stored, cut, killed, out>>

\* The application ends: its memory is gone, its requests go on unheard.
Quit(c) ==
    /\ Incident
    /\ access' = [access EXCEPT ![c] = None]
    /\ clearing' = clearing \ {c}
    /\ job' = [h \in Handlers |->
                  IF job[h].by # c THEN job[h]
                  ELSE Unheard(job[h])]
    /\ lost' = lost \union {family[job[h].token] :
                   h \in {g \in Handlers : /\ job[g].op = "refresh" /\ job[g].by = c
                                           /\ job[g].pc \notin {"stored", "cleared"}}}
    /\ UNCHANGED <<serverVars, stored, cut, seen, killed, out>>

-----------------------------------------------------------------------------
ServerStep(h) ==
    \/ Guard(h) \/ LoginRead(h) \/ RefreshFind(h) \/ RefreshRefused(h)
    \/ RefreshActive(h) \/ RevokeRow(h) \/ UpdateBegin(h) \/ UpdateEnd(h)
    \/ \E n \in Rows : LoginInsert(h, n) \/ RefreshRotate(h, n)

ClientStep(h) ==
    \/ StoreToken(h) \/ Remember(h) \/ Refused(h) \/ Leave(h) \/ Finish(h)
    \/ Abandon(h) \/ Fail(h)

Request(c, h) ==
    \/ SignIn(c, h) \/ Refresh(c, h) \/ SignOut(c, h)
    \/ RevokeSession(c, h) \/ ChangePassword(c, h)

Next ==
    \/ \E h \in Handlers : ServerStep(h) \/ ClientStep(h) \/ ResetPassword(h)
    \/ \E c \in Clients, h \in Handlers : Request(c, h)
    \/ \E c \in Clients : ClearStore(c) \/ SignOutOffline(c) \/ Quit(c)
    \/ Suspend \/ Restore
    \/ \E s \in Rows : Expire(s)

Spec == Init /\ [][Next]_vars

-----------------------------------------------------------------------------
(* Properties.                                                             *)

\* Every variable has its type.
JobType == [op : Ops \union {"none"},
            pc : {"idle", "read", "insert", "find", "rotate", "active", "guard", "revoke",
                  "family", "revoking", "ok", "denied", "stored", "cleared"},
            by : Clients \union {None}, token : Rows \union {None},
            target : Rows \union {None}, snap : SUBSET Rows]

TypeOK ==
    /\ active \in BOOLEAN
    /\ state \in [Rows -> {"none", "live", "expired", "revoked"}]
    /\ family \in [Rows -> Rows]
    /\ job \in [Handlers -> JobType]
    /\ stored \in [Clients -> Rows \union {None}]
    /\ access \in [Clients -> Rows \union {None}]
    /\ clearing \subseteq Clients /\ incidents \in 0..MaxIncidents
    /\ cut \subseteq Rows /\ seen \in [Handlers -> SUBSET Rows]
    /\ lost \subseteq Rows /\ killed \subseteq Rows /\ out \subseteq Clients

\* However refreshes of one token race, a family has one live session at most: a token
\* is exchanged once.  (rotateSession's conditional UPDATE.)
OneLivePerFamily ==
    \A s, t \in Rows : state[s] = "live" /\ state[t] = "live" /\ family[s] = family[t] => s = t

\* What signing out everywhere, a new password, a suspension or the revocation of a
\* device ended stays ended: no row there was when it began is live after it, and no
\* refresh under way at the time brings one back as a successor.  Only a rotation or a
\* sign-in whose row appears while the UPDATE runs is missed by it.
RevokedStayRevoked == \A s \in cut : state[s] # "live"

\* Reuse detection never ends the session of a client that got all its answers: the mutex
\* and the single refresh keep a desktop client from presenting a token twice.
ReuseMeansLostAnswer == killed \subseteq lost

\* A client that signed out, or was signed out, has no refresh token in its store, even
\* if a refresh was under way at the time.
SignedOutStoresNothing == \A c \in out : stored[c] = None

\* A client stays signed in until somebody ends its session: between refreshes the token
\* in its store is revoked only by signing out, a new password, a suspension or the
\* revocation of a device, however refreshes, sign-ins and expiry race, unless an answer
\* was lost.
StaysSignedIn ==
    \A c \in Clients :
        /\ stored[c] # None /\ state[stored[c]] = "revoked"
        /\ ~Refreshing(c) /\ family[stored[c]] \notin lost
        => stored[c] \in cut
=============================================================================
