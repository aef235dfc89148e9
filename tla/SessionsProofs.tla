--------------------------- MODULE SessionsProofs ---------------------------
(***************************************************************************)
(* A refresh token is exchanged once, what a revocation ended stays ended  *)
(* and signing out leaves no token behind, for any number of clients,      *)
(* requests and sessions.  SessionInv is inductive: rows never cease to    *)
(* exist and never come back to life, requests name rows that exist, and   *)
(* an UPDATE that has begun has in its snapshot what is still live of the  *)
(* rows there were.                                                        *)
(***************************************************************************)
EXTENDS Sessions, TLAPS

\* A request knows what its handlers will use of it.
Complete(j) ==
  /\ j.op = "refresh" => j.token \in Rows
  /\ j.op \in {"logout", "revokeSession"} /\ j.pc \in {"guard", "revoke"} => j.target \in Rows
  /\ j.pc \in {"ok", "denied", "stored", "cleared"} => j.by \in Clients
  /\ j.pc = "guard" => j.op \notin {"login", "refresh"}
  /\ j.pc = "revoking" => j.op # "login"
JobsComplete == \A h \in Handlers : Complete(job[h])

\* A family is named after a row that exists.
FamiliesExist == \A s \in Rows : Exists(s) => Exists(family[s])

\* What requests, clients and histories name exists.
Known(s) == s # None => Exists(s)
RowsExist ==
  /\ \A h \in Handlers : Known(job[h].token) /\ Known(job[h].target)
  /\ \A c \in Clients : Known(stored[c]) /\ Known(access[c])
  /\ \A s \in cut : Exists(s)
  /\ \A h \in Handlers : \A s \in seen[h] : Exists(s)

\* A revocation under way has what is still live of the rows there were when it began.
SnapshotsHold ==
  \A h \in Handlers :
    job[h].pc = "revoking" /\ job[h].op # "refresh" =>
      \A s \in seen[h] : (job[h].op = "change" => s # job[h].token) /\ state[s] = "live"
                            => s \in job[h].snap

\* A client that is signed out has no refresh under way that could store a token.
NoStoreComing == \A c \in out : ~Locked(c)

SessionInv ==
  /\ TypeOK /\ JobsComplete
  /\ FamiliesExist /\ OneLivePerFamily
  /\ RowsExist /\ SnapshotsHold /\ RevokedStayRevoked
  /\ SignedOutStoresNothing /\ NoStoreComing

Points == {"idle", "read", "insert", "find", "rotate", "active", "guard", "revoke",
           "family", "revoking", "ok", "denied", "stored", "cleared"}

\* The ways a handler's request changes.
LEMMA JobSteps ==
  ASSUME TypeOK, NEW h \in Handlers, NEW p \in Points, NEW t \in Rows \union {None}
  PROVE  /\ Idle \in JobType
         /\ Goto(h, p) => job' \in [Handlers -> JobType]
         /\ Reply(h, p, t) => job' \in [Handlers -> JobType]
         /\ Done(h) => job' \in [Handlers -> JobType]
         /\ Unheard(job[h]) \in JobType
  <1>1. Idle \in JobType
    BY DEF Idle, JobType, Ops
  <1>2. job[h] \in JobType
    BY DEF TypeOK
  <1>3. /\ [job[h] EXCEPT !.pc = p] \in JobType
        /\ [job[h] EXCEPT !.by = None] \in JobType
        /\ [job[h] EXCEPT !.pc = p, !.target = t, !.snap = {}] \in JobType
    BY <1>2 DEF JobType, Points
  <1>4. QED
    BY <1>1, <1>2, <1>3 DEF TypeOK, Goto, Reply, Done, Unheard

LEMMA IncidentStep ==
  ASSUME TypeOK, Incident PROVE incidents' \in 0..MaxIncidents
  BY SessionsAssumption DEF TypeOK, Incident

LEMMA TypeStep ==
  ASSUME TypeOK, JobsComplete, [Next]_vars
  PROVE  TypeOK'
  <1> USE DEF serverVars, clientVars, historyVars, TypeOK, Points
  <1> USE SessionsAssumption
  <1>1. ASSUME NEW h \in Handlers, ServerStep(h) PROVE TypeOK'
    <2> job[h] \in JobType
      OBVIOUS
    <2>1. CASE Guard(h)
      BY <2>1, JobSteps DEF Guard
    <2>2. CASE LoginRead(h)
      BY <2>2, JobSteps DEF LoginRead
    <2>3. CASE RefreshFind(h) \/ RefreshRefused(h)
      BY <2>3, JobSteps DEF RefreshFind, RefreshRefused
    <2>4. CASE RefreshActive(h)
      BY <2>4, JobSteps DEF RefreshActive, JobType
    <2>5. CASE RevokeRow(h)
      BY <2>5, JobSteps DEF RevokeRow, Revoke, JobsComplete, Complete, At
    <2>6. CASE UpdateBegin(h)
      <3>1. [job[h] EXCEPT !.pc = "revoking", !.snap = Scope(h)] \in JobType
        BY DEF JobType, Scope
      <3>2. QED
        BY <2>6, <3>1 DEF UpdateBegin
    <2>7. CASE UpdateEnd(h)
      <3>1. job' \in [Handlers -> JobType]
        BY <2>7, JobSteps DEF UpdateEnd
      <3>2. job[h].snap \subseteq Rows
        BY DEF JobType
      <3>3. {family[s] : s \in {t \in job[h].snap \ {job[h].token} : state[t] = "live"}} \subseteq Rows
        BY <3>2
      <3>4. killed' \subseteq Rows /\ cut' \subseteq Rows
        BY <2>7, <3>3 DEF UpdateEnd
      <3>5. QED
        BY <2>7, <3>1, <3>4 DEF UpdateEnd, Revoke
    <2>8. ASSUME NEW n \in Rows, LoginInsert(h, n) PROVE TypeOK'
      BY <2>8, JobSteps DEF LoginInsert
    <2>9. ASSUME NEW n \in Rows, RefreshRotate(h, n) PROVE TypeOK'
      <3>1. [job[h] EXCEPT !.pc = "active", !.target = n] \in JobType
        BY DEF JobType
      <3>2. job' \in [Handlers -> JobType]
        BY <2>9, <3>1 DEF RefreshRotate
      <3>3. job[h].token \in Rows
        BY <2>9 DEF RefreshRotate, JobsComplete, Complete, At
      <3>4. QED
        BY <2>9, <3>2, <3>3 DEF RefreshRotate, Spent
    <2>10. QED
      BY <1>1, <2>1, <2>2, <2>3, <2>4, <2>5, <2>6, <2>7, <2>8, <2>9 DEF ServerStep
  <1>2. ASSUME NEW h \in Handlers, ClientStep(h) PROVE TypeOK'
    <2> job[h] \in JobType
      OBVIOUS
    <2>1. CASE StoreToken(h)
      <3>1. job' \in [Handlers -> JobType]
        BY <2>1, JobSteps DEF StoreToken
      <3>2. job[h].target \in Rows \union {None}
        BY DEF JobType
      <3>3. QED
        BY <2>1, <3>1, <3>2 DEF StoreToken, NextStored
    <2>2. CASE Remember(h) \/ Finish(h)
      <3>1. job' \in [Handlers -> JobType]
        BY <2>2, JobSteps DEF Remember, Finish
      <3>2. job[h].target \in Rows \union {None}
        BY DEF JobType
      <3>3. QED
        BY <2>2, <3>1, <3>2 DEF Remember, Finish
    <2>3. CASE Refused(h) \/ Leave(h)
      BY <2>3, JobSteps DEF Refused, Leave, Forget, JobsComplete, Complete, At
    <2>4. CASE Abandon(h)
      <3>1. job' \in [Handlers -> JobType]
        BY <2>4, JobSteps DEF Abandon
      <3>2. job[h].by \in Clients
        BY <2>4 DEF Abandon, JobType
      <3>3. QED
        BY <2>4, <3>1, <3>2, IncidentStep DEF Abandon, GiveUp, Forget, JobsComplete, Complete
    <2>5. CASE Fail(h)
      <3>1. job' \in [Handlers -> JobType]
        BY <2>5, JobSteps DEF Fail
      <3>2. job[h].by \in Clients \union {None}
        BY DEF JobType
      <3>3. lost' \subseteq Rows
        BY <2>5 DEF Fail, JobsComplete, Complete
      <3>4. access' \in [Clients -> Rows \union {None}] /\ clearing' \subseteq Clients
        BY <2>5, <3>2 DEF Fail, GiveUp, Forget
      <3>5. QED
        BY <2>5, <3>1, <3>3, <3>4, IncidentStep DEF Fail
    <2>6. QED
      BY <1>2, <2>1, <2>2, <2>3, <2>4, <2>5 DEF ClientStep
  <1>3. ASSUME NEW h \in Handlers, NEW o \in Ops, NEW p \in Points, NEW c \in Clients \union {None},
               NEW t \in Rows \union {None}, NEW target \in Rows \union {None},
               Ask(h, o, p, c, t, target), access' \in [Clients -> Rows \union {None}]
        PROVE  TypeOK'
    <2>1. [op |-> o, pc |-> p, by |-> c, token |-> t, target |-> target, snap |-> {}] \in JobType
      BY DEF JobType
    <2>2. QED
      BY <1>3, <2>1 DEF Ask
  <1>4. ASSUME NEW c \in Clients, NEW h \in Handlers, Request(c, h) PROVE TypeOK'
    <2>1. stored[c] \in Rows \union {None} /\ access[c] \in Rows \union {None}
      OBVIOUS
    <2>2. CASE SignIn(c, h)
      BY <1>3, <2>2 DEF SignIn, Ops
    <2>3. CASE Refresh(c, h)
      BY <1>3, <2>1, <2>3 DEF Refresh, Ops
    <2>4. CASE SignOut(c, h) \/ RevokeSession(c, h) \/ ChangePassword(c, h)
      BY <1>3, <2>1, <2>4 DEF SignOut, RevokeSession, ChangePassword, Ops
    <2>5. QED
      BY <1>4, <2>2, <2>3, <2>4 DEF Request
  <1>5. ASSUME NEW h \in Handlers, ResetPassword(h) PROVE TypeOK'
    BY <1>3, <1>5 DEF ResetPassword, Ops
  <1>6. ASSUME NEW c \in Clients, ClearStore(c) \/ SignOutOffline(c) PROVE TypeOK'
    BY <1>6 DEF ClearStore, SignOutOffline, Forget
  <1>7. ASSUME NEW c \in Clients, Quit(c) PROVE TypeOK'
    <2>1. job' \in [Handlers -> JobType]
      BY <1>7, JobSteps DEF Quit
    <2>2. QED
      BY <1>7, <2>1, IncidentStep DEF Quit, JobsComplete, Complete
  <1>8. CASE Suspend \/ Restore \/ \E s \in Rows : Expire(s)
    BY <1>8, IncidentStep DEF Suspend, Restore, Expire, Revoke
  <1>9. CASE UNCHANGED vars
    BY <1>9 DEF vars
  <1>10. QED
    BY <1>1, <1>2, <1>4, <1>5, <1>6, <1>7, <1>8, <1>9 DEF Next

LEMMA CompleteStep ==
  ASSUME TypeOK, JobsComplete, [Next]_vars
  PROVE  JobsComplete'
  <1> SUFFICES ASSUME NEW g \in Handlers PROVE Complete(job'[g])
    BY DEF JobsComplete
  <1> Complete(job[g]) /\ job[g] \in JobType
    BY DEF JobsComplete, TypeOK
  <1> job \in [Handlers -> JobType]
    BY DEF TypeOK
  <1> USE SessionsAssumption DEF Complete
  <1>0. Complete(Idle) /\ Complete(Unheard(job[g]))
    BY DEF Idle, Unheard, JobType
  <1>1. ASSUME NEW h \in Handlers, ServerStep(h) PROVE Complete(job'[g])
    <2>1. ASSUME NEW p \in {"ok", "denied"}, NEW t \in Rows \union {None}, Reply(h, p, t)
          PROVE  Complete(job'[g])
      <3>1. job[h].by # None => Complete([job[h] EXCEPT !.pc = p, !.target = t, !.snap = {}])
        BY DEF TypeOK, JobType, JobsComplete
      <3>2. QED
        BY <1>0, <2>1, <3>1 DEF Reply
    <2>2. job[h].target \in Rows \union {None}
      BY DEF TypeOK, JobType
    <2>3. CASE Guard(h) \/ LoginRead(h) \/ RefreshActive(h)
      <3>1. CASE \E p \in {"revoke", "insert"} : Goto(h, p) /\ job[h].pc \in {"guard", "read"}
                    /\ (p = "revoke" => job[h].pc = "guard")
        BY <3>1 DEF Goto, JobType
      <3>2. CASE \E p \in {"ok", "denied"}, t \in Rows \union {None} : Reply(h, p, t)
        BY <2>1, <3>2
      <3>3. QED
        BY <2>2, <2>3, <3>1, <3>2, Zenon DEF Guard, LoginRead, RefreshActive, At
    <2>4. CASE RefreshFind(h) \/ RefreshRefused(h) \/ UpdateBegin(h)
      BY <2>4 DEF RefreshFind, RefreshRefused, UpdateBegin, Goto, At, JobType
    <2>5. CASE RevokeRow(h) \/ UpdateEnd(h)
      BY <2>1, <2>5 DEF RevokeRow, UpdateEnd
    <2>6. ASSUME NEW n \in Rows, LoginInsert(h, n) PROVE Complete(job'[g])
      BY <2>1, <2>6 DEF LoginInsert
    <2>7. ASSUME NEW n \in Rows, RefreshRotate(h, n) PROVE Complete(job'[g])
      BY <2>7 DEF RefreshRotate, At, JobType
    <2>8. QED
      BY <1>1, <2>3, <2>4, <2>5, <2>6, <2>7 DEF ServerStep
  <1>2. ASSUME NEW h \in Handlers, ClientStep(h) PROVE Complete(job'[g])
    <2>1. CASE StoreToken(h) \/ Remember(h) \/ Refused(h)
      BY <1>0, <2>1 DEF StoreToken, Remember, Refused, Goto, Done, At, JobType
    <2>2. CASE Leave(h) \/ Finish(h) \/ Fail(h)
      BY <1>0, <2>2 DEF Leave, Finish, Fail, Done
    <2>3. CASE Abandon(h)
      BY <1>0, <2>3 DEF Abandon
    <2>4. QED
      BY <1>2, <2>1, <2>2, <2>3 DEF ClientStep
  <1>3. ASSUME NEW h \in Handlers, NEW o \in Ops, NEW p \in Points, NEW c \in Clients \union {None},
               NEW t \in Rows \union {None}, NEW target \in Rows \union {None},
               Ask(h, o, p, c, t, target), o = "refresh" => t \in Rows,
               o \in {"logout", "revokeSession"} => target \in Rows,
               p = "guard" => o \notin {"login", "refresh"}, p # "revoking",
               p \notin {"ok", "denied", "stored", "cleared"}
        PROVE  Complete(job'[g])
    BY <1>3 DEF Ask
  <1>4. ASSUME NEW c \in Clients, NEW h \in Handlers, Request(c, h) PROVE Complete(job'[g])
    <2>1. stored[c] \in Rows \union {None} /\ access[c] \in Rows \union {None}
      BY DEF TypeOK
    <2>2. CASE SignIn(c, h)
      BY <1>3, <2>2 DEF SignIn, Ops, Points
    <2>3. CASE Refresh(c, h)
      BY <1>3, <2>1, <2>3 DEF Refresh, Ops, Points
    <2>4. CASE SignOut(c, h) \/ RevokeSession(c, h) \/ ChangePassword(c, h)
      BY <1>3, <2>1, <2>4 DEF SignOut, RevokeSession, ChangePassword, Ops, Points
    <2>5. QED
      BY <1>4, <2>2, <2>3, <2>4 DEF Request
  <1>5. ASSUME NEW h \in Handlers, ResetPassword(h) PROVE Complete(job'[g])
    BY <1>3, <1>5 DEF ResetPassword, Ops, Points
  <1>6. ASSUME NEW c \in Clients, Quit(c) PROVE Complete(job'[g])
    BY <1>0, <1>6 DEF Quit
  <1>7. CASE job' = job
    BY <1>7
  <1>8. QED
    BY <1>1, <1>2, <1>4, <1>5, <1>6, <1>7
    DEF Next, ClearStore, SignOutOffline, Suspend, Restore, Expire, vars

\* A step either inserts a row or brings nothing to life.
LEMMA StateSteps ==
  ASSUME TypeOK, JobsComplete, [Next]_vars
  PROVE  \/ \E h \in Handlers, n \in Rows : LoginInsert(h, n) \/ RefreshRotate(h, n)
         \/ /\ UNCHANGED family
            /\ \A s \in Rows : /\ Exists(s)' <=> Exists(s)
                               /\ state'[s] = "live" => state[s] = "live"
  <1> DEFINE Quiet == /\ UNCHANGED family
                      /\ \A s \in Rows : /\ Exists(s)' <=> Exists(s)
                                         /\ state'[s] = "live" => state[s] = "live"
  <1>1. ASSUME NEW S \in SUBSET Rows, Revoke(S), UNCHANGED family PROVE Quiet
    BY <1>1 DEF Revoke, Unrevoked, TypeOK, Exists
  <1>2. ASSUME UNCHANGED <<state, family>> PROVE Quiet
    BY <1>2 DEF Exists
  <1>3. ASSUME NEW h \in Handlers, RevokeRow(h) \/ UpdateEnd(h) PROVE Quiet
    <2>1. CASE RevokeRow(h)
      BY <1>1, <2>1 DEF RevokeRow, JobsComplete, Complete, At
    <2>2. CASE UpdateEnd(h)
      BY <1>1, <2>2 DEF UpdateEnd, TypeOK, JobType
    <2>3. QED
      BY <1>3, <2>1, <2>2
  <1>4. CASE Suspend
    BY <1>1, <1>4 DEF Suspend
  <1>5. ASSUME NEW t \in Rows, Expire(t) PROVE Quiet
    BY <1>5 DEF Expire, TypeOK, Exists
  <1>6. ASSUME NEW h \in Handlers, ServerStep(h)
        PROVE  Quiet \/ \E n \in Rows : LoginInsert(h, n) \/ RefreshRotate(h, n)
    <2>1. CASE Guard(h) \/ LoginRead(h) \/ RefreshFind(h) \/ RefreshRefused(h)
                 \/ RefreshActive(h) \/ UpdateBegin(h)
      <3>1. UNCHANGED <<state, family>>
        BY <2>1 DEF Guard, LoginRead, RefreshFind, RefreshRefused,
           RefreshActive, UpdateBegin, serverVars
      <3>2. QED
        BY <1>2, <3>1
    <2>2. QED
      BY <1>3, <1>6, <2>1 DEF ServerStep
  <1>7. ASSUME NEW h \in Handlers, ClientStep(h) \/ ResetPassword(h)
        PROVE  UNCHANGED <<state, family>>
    BY <1>7 DEF ClientStep, StoreToken, Remember, Refused, Leave, Finish, Abandon, Fail,
       ResetPassword, Ask, serverVars
  <1>8. ASSUME NEW c \in Clients, NEW h \in Handlers, Request(c, h)
        PROVE  UNCHANGED <<state, family>>
    BY <1>8 DEF Request, SignIn, Refresh, SignOut, RevokeSession, ChangePassword, Ask, serverVars
  <1>9. ASSUME NEW c \in Clients, ClearStore(c) \/ SignOutOffline(c) \/ Quit(c)
         PROVE  UNCHANGED <<state, family>>
    BY <1>9 DEF ClearStore, SignOutOffline, Quit, serverVars
  <1>10. Restore \/ UNCHANGED vars => UNCHANGED <<state, family>>
    BY DEF Restore, vars, serverVars
  <1>11. QED
    BY <1>2, <1>4, <1>5, <1>6, <1>7, <1>8, <1>9, <1>10 DEF Next

\* Rows stay, keep their family, and do not come back to life.
LEMMA RowSteps ==
  ASSUME TypeOK, JobsComplete, [Next]_vars, NEW s \in Rows, Exists(s)
  PROVE  /\ Exists(s)' /\ family'[s] = family[s]
         /\ state'[s] = "live" => state[s] = "live"
  <1>1. ASSUME NEW h \in Handlers, NEW n \in Rows, LoginInsert(h, n) \/ RefreshRotate(h, n)
        PROVE  /\ Exists(s)' /\ family'[s] = family[s]
               /\ state'[s] = "live" => state[s] = "live"
    BY <1>1 DEF LoginInsert, RefreshRotate, Spent, StillLive, TypeOK, Exists
  <1>2. QED
    BY <1>1, StateSteps

\* A token that is exchanged was the live one of its family, and is not any more.
LEMMA FamilyStep ==
  ASSUME TypeOK, JobsComplete, FamiliesExist, OneLivePerFamily, [Next]_vars
  PROVE  FamiliesExist' /\ OneLivePerFamily'
  <1> USE DEF FamiliesExist, OneLivePerFamily, Exists, TypeOK
  <1>1. ASSUME NEW h \in Handlers, NEW n \in Rows, LoginInsert(h, n)
        PROVE  FamiliesExist' /\ OneLivePerFamily'
    BY <1>1 DEF LoginInsert
  <1>2. ASSUME NEW h \in Handlers, NEW n \in Rows, RefreshRotate(h, n)
        PROVE  FamiliesExist' /\ OneLivePerFamily'
    <2>1. job[h].token \in Rows
      BY <1>2 DEF RefreshRotate, At, JobsComplete, Complete
    <2>2. QED
      BY <1>2, <2>1 DEF RefreshRotate, StillLive, Spent
  <1>3. QED
    BY <1>1, <1>2, StateSteps

\* Nothing touches an UPDATE under way but that its client may cease to wait.
LEMMA RevokingSteps ==
  ASSUME TypeOK, JobsComplete, [Next]_vars, NEW g \in Handlers, job'[g].pc = "revoking"
  PROVE  \/ UpdateBegin(g)
         \/ /\ job'[g] = job[g] \/ job'[g] = [job[g] EXCEPT !.by = None]
            /\ seen'[g] = seen[g]
  <1> DEFINE Same == /\ job'[g] = job[g] \/ job'[g] = [job[g] EXCEPT !.by = None]
                     /\ seen'[g] = seen[g]
  <1> USE DEF clientVars, historyVars
  <1>0. job \in [Handlers -> JobType] /\ seen \in [Handlers -> SUBSET Rows] /\ job[g] \in JobType
    BY DEF TypeOK
  <1>1. ASSUME NEW h \in Handlers, NEW p \in Points, NEW t,
               p # "revoking", Goto(h, p) \/ Reply(h, p, t) \/ Done(h), UNCHANGED seen
        PROVE  Same
    <2>1. CASE g # h
      BY <1>0, <1>1, <2>1 DEF Goto, Reply, Done
    <2>2. CASE g = h /\ Goto(h, p)
      BY <1>0, <1>1, <2>2 DEF Goto, JobType
    <2>3. CASE g = h /\ Reply(h, p, t)
      BY <1>0, <1>1, <2>3 DEF Reply, Idle, JobType
    <2>4. CASE g = h /\ Done(h)
      BY <1>0, <2>4 DEF Done, Idle
    <2>5. QED
      BY <1>1, <2>1, <2>2, <2>3, <2>4
  <1>2. ASSUME NEW h \in Handlers, ServerStep(h) PROVE UpdateBegin(g) \/ Same
    <2>1. CASE Guard(h)
      BY <1>1, <2>1 DEF Guard, Points
    <2>2. CASE LoginRead(h)
      BY <1>1, <2>2 DEF LoginRead, Points
    <2>3. CASE RefreshFind(h) \/ RefreshRefused(h)
      BY <1>1, <2>3 DEF RefreshFind, RefreshRefused, Points
    <2>4. CASE RefreshActive(h)
      BY <1>1, <2>4 DEF RefreshActive, Points
    <2>5. CASE RevokeRow(h)
      BY <1>1, <2>5 DEF RevokeRow, Points
    <2>6. CASE UpdateBegin(h)
      BY <1>0, <2>6 DEF UpdateBegin
    <2>7. CASE UpdateEnd(h)
      BY <1>0, <2>7 DEF UpdateEnd, Reply, Idle, JobType
    <2>8. ASSUME NEW n \in Rows, LoginInsert(h, n) PROVE Same
      BY <1>1, <2>8 DEF LoginInsert, Points
    <2>9. ASSUME NEW n \in Rows, RefreshRotate(h, n) PROVE Same
      BY <1>0, <2>9 DEF RefreshRotate, JobType
    <2>10. QED
      BY <1>2, <2>1, <2>2, <2>3, <2>4, <2>5, <2>6, <2>7, <2>8, <2>9 DEF ServerStep
  <1>3. ASSUME NEW h \in Handlers, ClientStep(h) PROVE Same
    <2>1. CASE StoreToken(h) \/ Remember(h) \/ Refused(h) \/ Leave(h) \/ Finish(h)
      BY <1>1, <2>1 DEF StoreToken, Remember, Refused, Leave, Finish, Points
    <2>2. CASE Abandon(h)
      BY <1>0, <2>2 DEF Abandon, Unheard, Idle, JobType
    <2>3. CASE Fail(h)
      BY <1>0, <2>3 DEF Fail, Done, Idle, JobType
    <2>4. QED
      BY <1>3, <2>1, <2>2, <2>3 DEF ClientStep
  <1>4. ASSUME NEW c, NEW h \in Handlers, NEW o, NEW p, NEW t, NEW target,
               Ask(h, o, p, c, t, target), p # "revoking"
        PROVE  Same
    BY <1>0, <1>4 DEF Ask
  <1>5. ASSUME NEW c \in Clients, NEW h \in Handlers, Request(c, h) \/ ResetPassword(h) PROVE Same
    BY <1>4, <1>5 DEF Request, SignIn, Refresh, SignOut, RevokeSession, ChangePassword, ResetPassword
  <1>6. ASSUME NEW c \in Clients, Quit(c) PROVE Same
    BY <1>0, <1>6 DEF Quit, Unheard, Idle, JobType
  <1>7. CASE UNCHANGED <<job, seen>>
    BY <1>7
  <1>8. ASSUME NEW h \in Handlers, ResetPassword(h) PROVE Same
    BY <1>4, <1>8 DEF ResetPassword
  <1>9. QED
    BY <1>2, <1>3, <1>5, <1>6, <1>7, <1>8
    DEF Next, ClearStore, SignOutOffline, Suspend, Restore, Expire, vars

\* What is still live of the rows there were has been live all along.
LEMMA SnapshotStep ==
  ASSUME TypeOK, JobsComplete, RowsExist, SnapshotsHold, [Next]_vars
  PROVE  SnapshotsHold'
  <1> SUFFICES ASSUME NEW g \in Handlers, job'[g].pc = "revoking", job'[g].op # "refresh",
                      NEW s \in seen'[g], job'[g].op = "change" => s # job'[g].token,
                      state'[s] = "live"
               PROVE  s \in job'[g].snap
    BY DEF SnapshotsHold
  <1>0. job[g] \in JobType
    BY DEF TypeOK
  <1>1. ASSUME UpdateBegin(g) PROVE s \in job'[g].snap
    <2>1. s \in Rows /\ state[s] = "live"
      BY <1>1 DEF UpdateBegin, serverVars, TypeOK
    <2>2. job'[g].op = job[g].op /\ job'[g].token = job[g].token /\ job'[g].snap = Scope(g)
      BY <1>1, <1>0 DEF UpdateBegin, TypeOK, JobType
    <2>3. QED
      BY <2>1, <2>2 DEF Scope, Unrevoked
  <1>2. ASSUME job'[g] = job[g] \/ job'[g] = [job[g] EXCEPT !.by = None], seen'[g] = seen[g]
        PROVE  s \in job'[g].snap
    <2>1. s \in Rows /\ Exists(s)
      BY <1>2 DEF RowsExist, TypeOK
    <2>2. state[s] = "live"
      BY <2>1, RowSteps
    <2>3. /\ job'[g].pc = job[g].pc /\ job'[g].op = job[g].op
          /\ job'[g].token = job[g].token /\ job'[g].snap = job[g].snap
      BY <1>0, <1>2 DEF JobType
    <2>4. QED
      BY <1>2, <2>2, <2>3 DEF SnapshotsHold
  <1>3. QED
    BY <1>1, <1>2, RevokingSteps

\* The steps that end sessions for good.
LEMMA CutSteps ==
  ASSUME [Next]_vars
  PROVE  \/ UNCHANGED cut \/ Suspend
         \/ \E h \in Handlers : RevokeRow(h) \/ UpdateEnd(h) \/ \E n \in Rows : RefreshRotate(h, n)
  BY Zenon DEF Next, ServerStep, ClientStep, Request, Guard, LoginRead, RefreshFind,
     RefreshRefused, RefreshActive, UpdateBegin, LoginInsert, StoreToken, Remember, Refused,
     Leave, Finish, Abandon, Fail, SignIn, Refresh, SignOut, RevokeSession, ChangePassword,
     ResetPassword, Ask, ClearStore, SignOutOffline, Quit, Restore, Expire, vars, historyVars

\* What ends a session never meets its successor.
LEMMA CutStep ==
  ASSUME TypeOK, JobsComplete, RowsExist, SnapshotsHold, RevokedStayRevoked, [Next]_vars
  PROVE  RevokedStayRevoked'
  <1> SUFFICES ASSUME NEW s \in cut' PROVE state'[s] # "live"
    BY DEF RevokedStayRevoked
  <1>1. CASE s \in cut
    <2>1. s \in Rows /\ Exists(s) /\ state[s] # "live"
      BY <1>1 DEF RowsExist, TypeOK, RevokedStayRevoked
    <2>2. QED
      BY <2>1, RowSteps
  <1>2. ASSUME NEW h \in Handlers, RevokeRow(h), s \notin cut PROVE state'[s] # "live"
    BY <1>2 DEF RevokeRow, Revoke, Unrevoked, TypeOK, JobsComplete, Complete, At
  <1>3. ASSUME NEW h \in Handlers, UpdateEnd(h), s \notin cut PROVE state'[s] # "live"
    <2>1. /\ job[h].pc = "revoking" /\ job[h].op # "refresh" /\ s \in seen[h]
          /\ job[h].op = "change" => s # job[h].token
      BY <1>3 DEF UpdateEnd
    <2>2. state[s] = "live" => s \in job[h].snap
      BY <2>1 DEF SnapshotsHold
    <2>3. s \in Rows
      BY <2>1 DEF TypeOK
    <2>4. QED
      BY <1>3, <2>2, <2>3 DEF UpdateEnd, Revoke, Unrevoked
  <1>4. ASSUME NEW h \in Handlers, NEW n \in Rows, RefreshRotate(h, n), s \notin cut PROVE FALSE
    <2>1. job[h].token \in cut /\ state[job[h].token] = "live"
      BY <1>4 DEF RefreshRotate, StillLive
    <2>2. QED
      BY <2>1 DEF RevokedStayRevoked
  <1>5. CASE Suspend /\ s \notin cut
    BY <1>5 DEF Suspend, Revoke, Unrevoked, TypeOK
  <1>6. ASSUME UNCHANGED cut, s \notin cut PROVE FALSE
    BY <1>6
  <1>7. QED
    BY <1>1, <1>2, <1>3, <1>4, <1>5, <1>6, CutSteps

\* Nothing is named that does not exist.
LEMMA KnownStep ==
  ASSUME TypeOK, JobsComplete, RowsExist, [Next]_vars
  PROVE  RowsExist'
  <1> DEFINE K(s) == s # None => state'[s] # "none"
  <1> USE DEF clientVars, historyVars, serverVars
  <1>0. /\ job \in [Handlers -> JobType] /\ seen \in [Handlers -> SUBSET Rows]
        /\ stored \in [Clients -> Rows \union {None}] /\ access \in [Clients -> Rows \union {None}]
        /\ state \in [Rows -> {"none", "live", "expired", "revoked"}] /\ cut \subseteq Rows
    BY DEF TypeOK
  <1>1. \A s \in Rows \union {None} : Known(s) => K(s)
    BY RowSteps DEF Known, Exists
  <1>2. /\ \A g \in Handlers : K(job[g].token) /\ K(job[g].target)
        /\ \A c \in Clients : K(stored[c]) /\ K(access[c])
    BY <1>0, <1>1 DEF RowsExist, JobType
  <1>3. ASSUME NEW g \in Handlers PROVE K(job'[g].token) /\ K(job'[g].target)
    <2> job[g] \in JobType /\ K(job[g].token) /\ K(job[g].target) /\ K(None)
      BY <1>0, <1>2
    <2> K(Idle.token) /\ K(Idle.target)
      BY DEF Idle
    <2> HIDE DEF K
    <2>1. ASSUME NEW h \in Handlers, NEW p, NEW t, K(t), Goto(h, p) \/ Reply(h, p, t) \/ Done(h)
          PROVE  K(job'[g].token) /\ K(job'[g].target)
      <3>1. CASE g # h
        BY <1>0, <2>1, <3>1 DEF Goto, Reply, Done
      <3>2. CASE g = h /\ Goto(h, p)
        BY <1>0, <3>2 DEF Goto, JobType
      <3>3. CASE g = h /\ Reply(h, p, t)
        BY <1>0, <2>1, <3>3 DEF Reply, JobType
      <3>4. CASE g = h /\ Done(h)
        BY <1>0, <3>4 DEF Done
      <3>5. QED
        BY <2>1, <3>1, <3>2, <3>3, <3>4
    <2>2. ASSUME NEW h \in Handlers, ServerStep(h) PROVE K(job'[g].token) /\ K(job'[g].target)
      <3>1. CASE Guard(h) \/ LoginRead(h)
        BY <2>1, <3>1 DEF Guard, LoginRead
      <3>2. CASE RefreshFind(h) \/ RefreshRefused(h)
        BY <2>1, <3>2 DEF RefreshFind, RefreshRefused
      <3>3. CASE RefreshActive(h)
        BY <1>2, <2>1, <3>3 DEF RefreshActive, K
      <3>4. CASE RevokeRow(h) \/ UpdateEnd(h)
        BY <2>1, <3>4 DEF RevokeRow, UpdateEnd
      <3>5. CASE UpdateBegin(h)
        BY <1>0, <3>5 DEF UpdateBegin, JobType
      <3>6. ASSUME NEW n \in Rows, LoginInsert(h, n) PROVE K(job'[g].token) /\ K(job'[g].target)
        BY <1>0, <2>1, <3>6 DEF LoginInsert, K
      <3>7. ASSUME NEW n \in Rows, RefreshRotate(h, n) PROVE K(job'[g].token) /\ K(job'[g].target)
        <4>1. K(n)
          BY <1>0, <3>7 DEF RefreshRotate, K
        <4>2. QED
          BY <1>0, <3>7, <4>1 DEF RefreshRotate, JobType
      <3>8. QED
        BY <2>2, <3>1, <3>2, <3>3, <3>4, <3>5, <3>6, <3>7 DEF ServerStep
    <2>3. ASSUME NEW h \in Handlers, ClientStep(h) PROVE K(job'[g].token) /\ K(job'[g].target)
      <3>1. CASE StoreToken(h) \/ Remember(h) \/ Refused(h) \/ Leave(h) \/ Finish(h) \/ Fail(h)
        BY <2>1, <3>1 DEF StoreToken, Remember, Refused, Leave, Finish, Fail
      <3>2. CASE Abandon(h)
        BY <1>0, <3>2 DEF Abandon, Unheard, JobType
      <3>3. QED
        BY <2>3, <3>1, <3>2 DEF ClientStep
    <2>4. ASSUME NEW h \in Handlers, NEW o, NEW p, NEW c, NEW t, NEW target,
                 Ask(h, o, p, c, t, target), K(t), K(target)
          PROVE  K(job'[g].token) /\ K(job'[g].target)
      BY <1>0, <2>4 DEF Ask
    <2>5. ASSUME NEW c \in Clients, NEW h \in Handlers, Request(c, h)
          PROVE  K(job'[g].token) /\ K(job'[g].target)
      <3>1. K(stored[c]) /\ K(access[c]) /\ \A s \in Rows : Exists(s) => K(s)
        BY <1>1, <1>2 DEF Known
      <3>2. QED
        BY <2>4, <2>5, <3>1
        DEF Request, SignIn, Refresh, SignOut, RevokeSession, ChangePassword
    <2>6. ASSUME NEW h \in Handlers, ResetPassword(h) PROVE K(job'[g].token) /\ K(job'[g].target)
      BY <2>4, <2>6 DEF ResetPassword
    <2>7. ASSUME NEW c \in Clients, Quit(c) PROVE K(job'[g].token) /\ K(job'[g].target)
      BY <1>0, <2>7 DEF Quit, Unheard, JobType
    <2>8. CASE UNCHANGED job
      BY <2>8
    <2>9. QED
      BY <2>2, <2>3, <2>5, <2>6, <2>7, <2>8
      DEF Next, ClearStore, SignOutOffline, Suspend, Restore, Expire, vars
  <1>4. ASSUME NEW c \in Clients PROVE K(stored'[c]) /\ K(access'[c])
    <2>1. /\ stored'[c] \in {stored[c], None} \/ \E h \in Handlers : stored'[c] = job[h].target
          /\ access'[c] \in {access[c], None} \/ \E h \in Handlers : access'[c] = job[h].target
      <3> USE <1>0
      <3>1. ASSUME NEW h \in Handlers, ServerStep(h) \/ ResetPassword(h)
            PROVE  UNCHANGED <<stored, access>>
        BY <3>1, Zenon DEF ServerStep, Guard, LoginRead, RefreshFind, RefreshRefused, RefreshActive,
           RevokeRow, UpdateBegin, UpdateEnd, LoginInsert, RefreshRotate, ResetPassword, Ask
      <3>2. ASSUME NEW h \in Handlers, StoreToken(h) \/ Remember(h) PROVE <2>1!1 /\ <2>1!2
        BY <3>2 DEF StoreToken, Remember, NextStored
      <3>3. ASSUME NEW h \in Handlers, Refused(h) \/ Leave(h) \/ Finish(h)
            PROVE  <2>1!1 /\ <2>1!2
        BY <3>3 DEF Refused, Leave, Finish, Forget
      <3>4. ASSUME NEW h \in Handlers, Abandon(h) \/ Fail(h) PROVE <2>1!1 /\ <2>1!2
        BY <3>4 DEF Abandon, Fail, GiveUp, Forget
      <3>5. ASSUME NEW d \in Clients, NEW h \in Handlers, Request(d, h) PROVE <2>1!1 /\ <2>1!2
        BY <3>5 DEF Request, SignIn, Refresh, SignOut, RevokeSession, ChangePassword, Ask
      <3>6. ASSUME NEW d \in Clients, ClearStore(d) \/ SignOutOffline(d) \/ Quit(d)
            PROVE  <2>1!1 /\ <2>1!2
        BY <3>6 DEF ClearStore, SignOutOffline, Quit, Forget
      <3>7. QED
        BY <3>1, <3>2, <3>3, <3>4, <3>5, <3>6
        DEF Next, ClientStep, Suspend, Restore, Expire, vars
    <2>2. K(None) /\ K(stored[c]) /\ K(access[c]) /\ \A h \in Handlers : K(job[h].target)
      BY <1>2
    <2>3. QED
      BY <2>1, <2>2
  <1>5. ASSUME NEW s \in cut' PROVE state'[s] # "none"
    <2>1. \/ s \in cut \/ \E h \in Handlers : s \in seen[h]
          \/ s \in Rows /\ \E h \in Handlers : s = job[h].target
          \/ s \in Rows /\ state'[s] # "none"
          \/ s \in Rows /\ Exists(s)
      <3>1. ASSUME NEW h \in Handlers, ServerStep(h) PROVE <2>1
        <4>1. CASE Guard(h) \/ LoginRead(h) \/ RefreshFind(h) \/ RefreshRefused(h)
                     \/ RefreshActive(h) \/ UpdateBegin(h) \/ \E n \in Rows : LoginInsert(h, n)
          BY <4>1, Zenon DEF Guard, LoginRead, RefreshFind, RefreshRefused, RefreshActive,
             UpdateBegin, LoginInsert
        <4>2. CASE RevokeRow(h)
          BY <4>2 DEF RevokeRow, JobsComplete, Complete, At
        <4>3. CASE UpdateEnd(h)
          BY <4>3 DEF UpdateEnd
        <4>4. ASSUME NEW n \in Rows, RefreshRotate(h, n) PROVE <2>1
          BY <1>0, <1>5, <4>4 DEF RefreshRotate
        <4>5. QED
          BY <3>1, <4>1, <4>2, <4>3, <4>4 DEF ServerStep
      <3>2. CASE Suspend
        BY <3>2 DEF Suspend
      <3>3. CASE UNCHANGED cut
        BY <3>3
      <3>4. QED
        BY <3>1, <3>2, <3>3, Zenon DEF Next, ClientStep, Request, StoreToken, Remember, Refused,
           Leave, Finish, Abandon, Fail, SignIn, Refresh, SignOut, RevokeSession, ChangePassword,
           ResetPassword, Ask, ClearStore, SignOutOffline, Quit, Restore, Expire, vars
    <2>2. QED
      BY <2>1, <1>0, RowSteps, SessionsAssumption DEF RowsExist, Exists, Known
  <1>6. ASSUME NEW g \in Handlers, NEW s \in seen'[g] PROVE state'[s] # "none"
    <2>1. s \in seen[g] \/ (s \in Rows /\ Exists(s))
      <3> USE <1>0
      <3>1. ASSUME NEW h \in Handlers, UpdateBegin(h) \/ UpdateEnd(h) \/ Fail(h) PROVE <2>1
        BY <1>6, <3>1 DEF UpdateBegin, UpdateEnd, Fail
      <3>2. CASE UNCHANGED seen
        BY <1>6, <3>2
      <3>3. QED
        BY <3>1, <3>2, Zenon DEF Next, ServerStep, ClientStep, Request, Guard, LoginRead, RefreshFind,
           RefreshRefused, RefreshActive, RevokeRow, LoginInsert, RefreshRotate, StoreToken, Remember,
           Refused, Leave, Finish, Abandon, SignIn, Refresh, SignOut, RevokeSession, ChangePassword,
           ResetPassword, Ask, ClearStore, SignOutOffline, Quit, Suspend, Restore, Expire, vars
    <2>2. QED
      BY <1>0, <2>1, RowSteps DEF RowsExist, Exists
  <1>7. QED
    BY <1>3, <1>4, <1>5, <1>6 DEF RowsExist, Known, Exists

\* A refresh begins with a token to present, so that a client without one has none
\* under way; and a store is cleared only when there is none.
LEMMA SignedOutStep ==
  ASSUME TypeOK, JobsComplete, NoStoreComing, SignedOutStoresNothing, [Next]_vars
  PROVE  NoStoreComing' /\ SignedOutStoresNothing'
  <1> DEFINE Comes(j, c) == /\ j.op = "refresh" /\ j.by = c /\ j.pc \notin {"stored", "cleared"}
  <1> USE DEF clientVars, historyVars
  <1>0. /\ job \in [Handlers -> JobType] /\ stored \in [Clients -> Rows \union {None}]
        /\ out \subseteq Clients
    BY DEF TypeOK
  <1>1. \A c \in out : stored[c] = None /\ \A h \in Handlers : ~Comes(job[h], c)
    BY DEF NoStoreComing, SignedOutStoresNothing, Locked
  <1>2. SUFFICES ASSUME NEW c \in out' PROVE stored'[c] = None /\ \A g \in Handlers : ~Comes(job'[g], c)
    BY DEF NoStoreComing, SignedOutStoresNothing, Locked
  <1>3. ASSUME c \in out, NEW g \in Handlers,
               ~\E h \in Handlers : Refresh(c, h)
        PROVE  ~Comes(job'[g], c)
    <2> ~Comes(job[g], c) /\ job[g] \in JobType
      BY <1>0, <1>1, <1>3
    <2> c \in Clients /\ c # None
      BY <1>0, <1>3, SessionsAssumption
    <2>1. ASSUME NEW h \in Handlers, NEW p \in Points, NEW t, job[h].pc \notin {"stored", "cleared"},
                 Goto(h, p) \/ Reply(h, p, t)
          PROVE  ~Comes(job'[g], c)
      <3>1. CASE g # h
        BY <1>0, <2>1, <3>1 DEF Goto, Reply
      <3>2. CASE g = h /\ Goto(h, p)
        BY <1>0, <2>1, <3>2 DEF Goto, JobType
      <3>3. CASE g = h /\ Reply(h, p, t)
        BY <1>0, <2>1, <3>3 DEF Reply, JobType, Idle
      <3>4. QED
        BY <2>1, <3>1, <3>2, <3>3
    <2>2. ASSUME NEW h \in Handlers, Done(h) PROVE ~Comes(job'[g], c)
      BY <1>0, <2>2 DEF Done, Idle
    <2>3. ASSUME NEW h \in Handlers, ServerStep(h) PROVE ~Comes(job'[g], c)
      <3>1. CASE Guard(h) \/ LoginRead(h)
        BY <2>1, <3>1 DEF Guard, LoginRead, Points, At
      <3>2. CASE RefreshFind(h) \/ RefreshRefused(h)
        BY <2>1, <3>2 DEF RefreshFind, RefreshRefused, Points, At
      <3>3. CASE RefreshActive(h) \/ RevokeRow(h)
        BY <2>1, <3>3 DEF RefreshActive, RevokeRow, Points, At
      <3>4. CASE UpdateEnd(h)
        BY <2>1, <3>4 DEF UpdateEnd, Points
      <3>5. CASE UpdateBegin(h)
        BY <1>0, <3>5 DEF UpdateBegin, At, JobType
      <3>6. ASSUME NEW n \in Rows, LoginInsert(h, n) PROVE ~Comes(job'[g], c)
        BY <2>1, <3>6 DEF LoginInsert, Points, At
      <3>7. ASSUME NEW n \in Rows, RefreshRotate(h, n) PROVE ~Comes(job'[g], c)
        BY <1>0, <3>7 DEF RefreshRotate, At, JobType
      <3>8. QED
        BY <2>3, <3>1, <3>2, <3>3, <3>4, <3>5, <3>6, <3>7 DEF ServerStep
    <2>4. ASSUME NEW h \in Handlers, ClientStep(h) PROVE ~Comes(job'[g], c)
      <3>1. CASE StoreToken(h) \/ Refused(h)
        BY <2>1, <3>1 DEF StoreToken, Refused, Points, At
      <3>2. CASE Remember(h) \/ Leave(h) \/ Finish(h) \/ Fail(h)
        BY <2>2, <3>2 DEF Remember, Leave, Finish, Fail
      <3>3. CASE Abandon(h)
        BY <1>0, <3>3 DEF Abandon, Unheard, Idle, JobType
      <3>4. QED
        BY <2>4, <3>1, <3>2, <3>3 DEF ClientStep
    <2>5. ASSUME NEW h \in Handlers, NEW o, NEW p, NEW d, NEW t, NEW target,
                 Ask(h, o, p, d, t, target), o # "refresh" \/ d # c
          PROVE  ~Comes(job'[g], c)
      BY <1>0, <2>5 DEF Ask
    <2>6. ASSUME NEW d \in Clients, NEW h \in Handlers, Request(d, h) PROVE ~Comes(job'[g], c)
      <3>1. CASE Refresh(d, h)
        BY <1>3, <2>5, <3>1 DEF Refresh
      <3>2. CASE SignIn(d, h) \/ SignOut(d, h) \/ RevokeSession(d, h) \/ ChangePassword(d, h)
        BY <2>5, <3>2 DEF SignIn, SignOut, RevokeSession, ChangePassword
      <3>3. QED
        BY <2>6, <3>1, <3>2 DEF Request
    <2>7. ASSUME NEW h \in Handlers, ResetPassword(h) PROVE ~Comes(job'[g], c)
      BY <2>5, <2>7 DEF ResetPassword
    <2>8. ASSUME NEW d \in Clients, Quit(d) PROVE ~Comes(job'[g], c)
      BY <1>0, <2>8 DEF Quit, Unheard, Idle, JobType
    <2>9. CASE UNCHANGED job
      BY <2>9
    <2>10. QED
      BY <2>3, <2>4, <2>6, <2>7, <2>8, <2>9
      DEF Next, ClearStore, SignOutOffline, Suspend, Restore, Expire, vars
  <1>4. ASSUME NEW h \in Handlers, StoreToken(h)
        PROVE  c \in out /\ stored'[c] = stored[c] /\ \A d \in Clients : ~\E g \in Handlers : Refresh(d, g)
    <2>1. c \in out
      BY <1>4 DEF StoreToken
    <2>2. job[h].op = "refresh" => job[h].by # c
      BY <1>1, <1>4, <2>1 DEF StoreToken, At
    <2>3. job[h].op = "login" => job[h].by # c
      BY <1>4 DEF StoreToken
    <2>4. job[h].op \in {"login", "refresh"}
      BY <1>4 DEF StoreToken, At
    <2>5. job[h].pc = "ok"
      BY <1>4 DEF StoreToken, At
    <2>6. \A d \in Clients, g \in Handlers : ~Refresh(d, g)
      <3>1. job'[h].pc = "stored"
        BY <1>0, <1>4 DEF StoreToken, Goto, JobType
      <3>2. ASSUME NEW d \in Clients, NEW g \in Handlers, Refresh(d, g) PROVE job'[h].pc \in {"ok", "find"}
        BY <1>0, <2>5, <3>2 DEF Refresh, Ask
      <3>3. QED
        BY <3>1, <3>2
    <2>7. stored'[c] = stored[c]
      BY <1>0, <1>4, <2>1, <2>2, <2>3, <2>4 DEF StoreToken
    <2>8. QED
      BY <2>1, <2>6, <2>7
  <1>5. ASSUME NEW h \in Handlers, NEW d \in Clients, Refresh(d, h) PROVE c \in out /\ stored'[c] = None /\ d # c
    BY <1>1, <1>5 DEF Refresh, Ask
  <1>6. ASSUME ClearStore(c) PROVE stored'[c] = None /\ \A g \in Handlers : ~Comes(job'[g], c)
    <2>1. c \in Clients
      BY <1>0, <1>6 DEF ClearStore, TypeOK
    <2>2. QED
      BY <1>0, <1>6, <2>1 DEF ClearStore, Locked
  <1>7. c \in out \/ ClearStore(c)
    BY Zenon DEF Next, ServerStep, ClientStep, Request, Guard, LoginRead, RefreshFind,
       RefreshRefused, RefreshActive, RevokeRow, UpdateBegin, UpdateEnd, LoginInsert, RefreshRotate,
       StoreToken, Remember, Refused, Leave, Finish, Abandon, Fail, SignIn, Refresh, SignOut,
       RevokeSession, ChangePassword, ResetPassword, Ask, ClearStore, SignOutOffline, Quit,
       Suspend, Restore, Expire, vars
  <1>8. ASSUME c \in out PROVE stored'[c] = None
    <2>1. ASSUME NEW d \in Clients, ClearStore(d) PROVE stored'[c] = None
      BY <1>0, <1>1, <1>8, <2>1 DEF ClearStore
    <2>2. ASSUME NEW h \in Handlers, Refused(h) PROVE stored'[c] = None
      BY <1>0, <1>1, <1>8, <2>2 DEF Refused
    <2>3. CASE UNCHANGED stored
      BY <1>1, <1>8, <2>3
    <2>4. \/ UNCHANGED stored \/ \E d \in Clients : ClearStore(d)
          \/ \E h \in Handlers : Refused(h) \/ StoreToken(h)
      BY Zenon DEF Next, ServerStep, ClientStep, Request, Guard, LoginRead, RefreshFind,
         RefreshRefused, RefreshActive, RevokeRow, UpdateBegin, UpdateEnd, LoginInsert, RefreshRotate,
         Remember, Leave, Finish, Abandon, Fail, SignIn, Refresh, SignOut,
         RevokeSession, ChangePassword, ResetPassword, Ask, SignOutOffline, Quit,
         Suspend, Restore, Expire, vars
    <2>5. QED
      BY <1>1, <1>4, <1>8, <2>1, <2>2, <2>3, <2>4
  <1>9. ASSUME c \in out PROVE \A g \in Handlers : ~Comes(job'[g], c)
    <2>1. ~\E h \in Handlers : Refresh(c, h)
      BY <1>0, <1>5, <1>9
    <2>2. QED
      BY <1>3, <1>9, <2>1
  <1>10. QED
    BY <1>6, <1>7, <1>8, <1>9

LEMMA SessionInit == Init => SessionInv
  <1> SUFFICES ASSUME Init PROVE SessionInv
    OBVIOUS
  <1> USE SessionsAssumption DEF Init
  <1>1. TypeOK
    BY DEF TypeOK, JobType, Idle
  <1>2. JobsComplete /\ SnapshotsHold /\ NoStoreComing
    BY DEF JobsComplete, Complete, SnapshotsHold, NoStoreComing, Locked, Idle
  <1>3. FamiliesExist /\ OneLivePerFamily
    BY DEF FamiliesExist, OneLivePerFamily, Exists
  <1>4. RowsExist
    BY DEF RowsExist, Known, Idle
  <1>5. RevokedStayRevoked /\ SignedOutStoresNothing
    BY DEF RevokedStayRevoked, SignedOutStoresNothing
  <1>6. QED
    BY <1>1, <1>2, <1>3, <1>4, <1>5 DEF SessionInv

\* The invariant of an account's sessions: SessionInv holds in every state.
THEOREM SessionInvariant == Spec => []SessionInv
  <1>1. SessionInv /\ [Next]_vars => SessionInv'
    BY TypeStep, CompleteStep, FamilyStep, KnownStep, SnapshotStep, CutStep, SignedOutStep
    DEF SessionInv
  <1>2. QED
    BY <1>1, SessionInit, PTL DEF Spec

\* Sessions, requests and clients keep their shape.
THEOREM TypeCorrect == Spec => []TypeOK
  <1>1. SessionInv => TypeOK
    BY DEF SessionInv
  <1>2. QED
    BY <1>1, SessionInvariant, PTL

\* A refresh token is exchanged once, however many refreshes of it race
\* (rotateSession's conditional UPDATE).
THEOREM ExchangedOnce == Spec => []OneLivePerFamily
  <1>1. SessionInv => OneLivePerFamily
    BY DEF SessionInv
  <1>2. QED
    BY <1>1, SessionInvariant, PTL

\* What signing out everywhere, a new password, a suspension or the revocation of a
\* device ended stays ended, and has no heir.
THEOREM RevocationsHold == Spec => []RevokedStayRevoked
  <1>1. SessionInv => RevokedStayRevoked
    BY DEF SessionInv
  <1>2. QED
    BY <1>1, SessionInvariant, PTL

\* Signing out leaves no refresh token in the credential store, even with a refresh
\* under way.
THEOREM SignOutClears == Spec => []SignedOutStoresNothing
  <1>1. SessionInv => SignedOutStoresNothing
    BY DEF SessionInv
  <1>2. QED
    BY <1>1, SessionInvariant, PTL

-----------------------------------------------------------------------------
(***************************************************************************)
(* Reuse detection ends no session whose client got all its answers, for   *)
(* any number of clients, requests and sessions.  HeldInv says why: a      *)
(* family of which no answer was lost is held in one place, the store of   *)
(* one client or an answer on its way to it, and what is live of it is     *)
(* what is held, so that the token presented next is the live one.         *)
(***************************************************************************)

\* A refresh whose client waits; the successor its answer brings; a sign-in answered.
Presents(h)   == /\ job[h].op = "refresh" /\ job[h].by # None
                 /\ job[h].pc \notin {"stored", "cleared"}
Brings(h, t)  == Presents(h) /\ job[h].pc \in {"active", "ok", "denied"} /\ job[h].target = t
SignedIn(h)   == job[h].op = "login" /\ job[h].pc = "ok"
Same(s, t)    == family[s] = family[t]

\* A refresh no one waits for has its family among the lost.
UnheardLost == \A h \in Handlers :
  job[h].op = "refresh" /\ job[h].by = None => family[job[h].token] \in lost

\* What a client presents is what it has stored, and it presents it once.
PresentsStored == \A h \in Handlers : Presents(h) => job[h].token = stored[job[h].by]
OneRefresh == \A g, h \in Handlers :
  /\ job[g].op = "refresh" /\ job[h].op = "refresh"
  /\ job[g].by = job[h].by /\ job[h].by # None
  => g = h

\* A family is revoked by what is in it.
ScopeOfFamily == \A h \in Handlers :
  job[h].op = "refresh" /\ job[h].pc = "revoking" =>
    \A s \in job[h].snap : Exists(s) /\ Same(s, job[h].token)

\* A token that was exchanged is spent, and its successor is of its family.
SuccessorOf == \A h \in Handlers :
  job[h].op = "refresh" /\ job[h].pc \in {"active", "ok"} =>
    /\ state[job[h].token] # "live"
    /\ job[h].target \in Rows /\ Same(job[h].target, job[h].token)

\* A family is held in one place.
HeldOnce ==
  /\ \A c, d \in Clients :
       stored[c] # None /\ stored[d] # None /\ Same(stored[c], stored[d]) => c = d
  /\ \A h \in Handlers : SignedIn(h) =>
       /\ job[h].target \in Rows
       /\ \A c \in Clients : stored[c] # None => ~Same(stored[c], job[h].target)
  /\ \A g, h \in Handlers :
       SignedIn(g) /\ SignedIn(h) /\ Same(job[g].target, job[h].target) => g = h
  /\ \A g, h \in Handlers :
       SignedIn(g) /\ job[h].op = "refresh" => ~Same(job[h].token, job[g].target)

\* What is live of a family is what is held of it.
LiveIsHeld ==
  /\ \A c \in Clients, t \in Rows :
       /\ stored[c] # None /\ family[stored[c]] \notin lost
       /\ state[t] = "live" /\ Same(t, stored[c])
       => t = stored[c] \/ \E h \in Handlers : job[h].by = c /\ Brings(h, t)
  /\ \A h \in Handlers, t \in Rows :
       SignedIn(h) /\ state[t] = "live" /\ Same(t, job[h].target) => t = job[h].target

HeldInv ==
  /\ UnheardLost /\ PresentsStored /\ OneRefresh /\ ScopeOfFamily
  /\ SuccessorOf /\ HeldOnce /\ LiveIsHeld

\* How the request of a handler may go on in a step that makes no token.
GoesOn(j, k) ==
  /\ j.op = "refresh" /\ k.op = "refresh" /\ k.token = j.token /\ k.by = j.by
  /\ k.pc \notin {"stored", "cleared"} => j.pc \notin {"stored", "cleared"}
  /\ k.pc \in {"active", "ok"} => j.pc \in {"active", "ok"} /\ k.target = j.target
  /\ j.by # None /\ j.pc \in {"active", "ok", "denied"} =>
       \/ k.pc \in {"active", "ok", "denied"} /\ k.target = j.target
       \/ stored'[j.by] = None

Moves(g) ==
  \/ job'[g] = job[g]
  \/ /\ job'[g].op # "refresh" /\ ~SignedIn(g)'
     /\ Presents(g) /\ job[g].pc \in {"active", "ok", "denied"} =>
          family[job[g].token] \in lost' \/ stored'[job[g].by] = None
  \/ /\ job[g].op = "refresh" /\ job'[g] = [job[g] EXCEPT !.by = None]
     /\ family[job[g].token] \in lost'
  \/ /\ GoesOn(job[g], job'[g])
     /\ job'[g].pc = "revoking" => job'[g].snap = Scope(g)

\* A step that makes no token and stores none.
Calm ==
  /\ UNCHANGED family
  /\ \A s \in Rows : (Exists(s)' <=> Exists(s)) /\ (state'[s] = "live" => state[s] = "live")
  /\ lost \subseteq lost'
  /\ \A c \in Clients : \/ stored'[c] = stored[c]
                        \/ stored'[c] = None /\ \A h \in Handlers : Presents(h)' => job'[h].by # c
  /\ \A g \in Handlers : Moves(g)

MakesToken(h) ==
  \/ StoreToken(h)
  \/ \E c \in Clients : Refresh(c, h)
  \/ \E n \in Rows : LoginInsert(h, n) \/ RefreshRotate(h, n)

LEMMA StepKinds ==
  ASSUME TypeOK, JobsComplete, OneRefresh, [Next]_vars
  PROVE  Calm \/ \E h \in Handlers : MakesToken(h)
  <1> USE DEF clientVars, historyVars, serverVars
  <1>0. /\ job \in [Handlers -> JobType] /\ stored \in [Clients -> Rows \union {None}]
        /\ lost \subseteq Rows
    BY DEF TypeOK
  <1> DEFINE Quiet == /\ UNCHANGED family
                      /\ \A s \in Rows : /\ Exists(s)' <=> Exists(s)
                                         /\ state'[s] = "live" => state[s] = "live"
  <1>1. (\E h \in Handlers : MakesToken(h)) \/ Quiet
    BY StateSteps DEF MakesToken
  <1>2. ASSUME NEW h \in Handlers, UNCHANGED <<stored, lost>>, Quiet,
               \A g \in Handlers \ {h} : job'[g] = job[g], Moves(h)
        PROVE  Calm
    BY <1>2 DEF Calm, Moves
  <1>3. ASSUME NEW h \in Handlers, ServerStep(h), Quiet PROVE Calm \/ MakesToken(h)
    <2> job[h] \in JobType
      BY <1>0
    <2>1. ASSUME UNCHANGED <<stored, lost>>, \A g \in Handlers \ {h} : job'[g] = job[g], Moves(h)
          PROVE  Calm
      BY <1>2, <1>3, <2>1
    <2>2. ASSUME NEW p, NEW t, Reply(h, p, t), job[h].op # "refresh",
                 ~(job[h].op = "login" /\ p = "ok"), UNCHANGED <<stored, lost>>
          PROVE  Calm
      BY <1>0, <2>1, <2>2 DEF Reply, Moves, Presents, SignedIn, Idle, JobType
    <2>3. ASSUME NEW p, Goto(h, p), job[h].op # "refresh", p # "ok", UNCHANGED <<stored, lost>>
          PROVE  Calm
      BY <1>0, <2>1, <2>3 DEF Goto, Moves, Presents, SignedIn, JobType
    <2>4. CASE Guard(h)
      <3>1. job[h].op # "refresh"
        BY <2>4 DEF Guard, JobsComplete, Complete
      <3>2. QED
        BY <2>2, <2>3, <2>4, <3>1 DEF Guard
    <2>5. CASE LoginRead(h)
      BY <2>2, <2>3, <2>5 DEF LoginRead, At
    <2>6. CASE RefreshFind(h) \/ RefreshRefused(h)
      <3>1. ASSUME NEW p \in {"rotate", "family"}, Goto(h, p), job[h].op = "refresh",
                   job[h].pc \in {"find", "rotate"}, UNCHANGED <<stored, lost>>
            PROVE  Calm
        BY <1>0, <2>1, <3>1 DEF Goto, Moves, GoesOn, JobType
      <3>2. QED
        BY <2>6, <3>1 DEF RefreshFind, RefreshRefused, At
    <2>7. CASE RefreshActive(h)
      BY <1>0, <2>1, <2>7 DEF RefreshActive, Reply, At, Moves, GoesOn, Presents, SignedIn, Idle, JobType
    <2>8. CASE RevokeRow(h)
      BY <2>2, <2>8 DEF RevokeRow, At
    <2>9. CASE UpdateBegin(h)
      BY <1>0, <2>1, <2>9 DEF UpdateBegin, At, Moves, GoesOn, Presents, SignedIn, JobType
    <2>10. CASE UpdateEnd(h)
      <3>1. CASE job[h].op = "refresh"
        BY <1>0, <2>1, <2>10, <3>1
        DEF UpdateEnd, Reply, Moves, GoesOn, Presents, SignedIn, Idle, JobType
      <3>2. CASE job[h].op # "refresh"
        BY <2>2, <2>10, <3>2 DEF UpdateEnd, JobsComplete, Complete
      <3>3. QED
        BY <3>1, <3>2
    <2>11. QED
      BY <1>3, <2>4, <2>5, <2>6, <2>7, <2>8, <2>9, <2>10 DEF ServerStep, MakesToken
  <1>4. ASSUME NEW h \in Handlers, ClientStep(h), Quiet PROVE Calm \/ MakesToken(h)
    <2> job[h] \in JobType /\ lost \subseteq lost'
      BY <1>0, <1>4, Zenon DEF ClientStep, StoreToken, Remember, Refused, Leave, Finish, Abandon, Fail
    <2>1. ASSUME UNCHANGED stored, \A g \in Handlers \ {h} : job'[g] = job[g], Moves(h)
          PROVE  Calm
      BY <1>4, <2>1 DEF Calm, Moves
    <2>2. CASE Remember(h) \/ Leave(h) \/ Finish(h)
      <3>1. job[h].op = "refresh" => job[h].pc \notin {"active", "ok", "denied"}
        BY <2>2 DEF Remember, Leave, Finish, At
      <3>2. job' = [job EXCEPT ![h] = Idle] /\ UNCHANGED stored
        BY <2>2, Zenon DEF Remember, Leave, Finish, Done
      <3>3. QED
        BY <1>0, <2>1, <3>1, <3>2 DEF Moves, Presents, SignedIn, Idle
    <2>3. CASE Refused(h)
      <3>1. /\ job[h].op = "refresh" /\ job[h].pc = "denied" /\ job[h].by \in Clients
            /\ stored'[job[h].by] = None /\ None \notin Clients
            /\ job' = [job EXCEPT ![h].pc = "cleared"]
        BY <1>0, <2>3, SessionsAssumption DEF Refused, At, Goto, JobsComplete, Complete
      <3>2. Moves(h)
        BY <1>0, <3>1 DEF Moves, GoesOn, JobType
      <3>3. \A g \in Handlers \ {h} : job'[g] = job[g] /\ Moves(g)
        BY <1>0, <3>1 DEF Moves
      <3>4. ASSUME NEW c \in Clients, stored'[c] # stored[c], NEW g \in Handlers, Presents(g)'
            PROVE  job'[g].by # c
        <4>1. c = job[h].by
          BY <1>0, <2>3, <3>4 DEF Refused
        <4>2. g # h
          BY <1>0, <3>1, <3>4 DEF Presents, JobType
        <4>3. job'[g] = job[g] /\ job[g].op = "refresh"
          BY <3>3, <3>4, <4>2 DEF Presents
        <4>4. QED
          BY <3>1, <4>1, <4>2, <4>3 DEF OneRefresh
      <3>5. \A c \in Clients : stored'[c] \in {stored[c], None}
        BY <1>0, <2>3 DEF Refused
      <3>6. QED
        BY <1>4, <3>2, <3>3, <3>4, <3>5 DEF Calm
    <2>4. CASE Abandon(h)
      <3>1. /\ job' = [job EXCEPT ![h] = Unheard(job[h])]
            /\ job[h].op = "refresh" => family[job[h].token] \in lost'
            /\ UNCHANGED stored
        BY <2>4 DEF Abandon
      <3>2. Moves(h)
        BY <1>0, <3>1 DEF Moves, Unheard, Idle, Presents, SignedIn, JobType
      <3>3. QED
        BY <1>0, <2>1, <3>1, <3>2
    <2>5. CASE Fail(h)
      <3>1. /\ job' = [job EXCEPT ![h] = Idle]
            /\ job[h].op = "refresh" /\ job[h].pc = "active" => family[job[h].token] \in lost'
            /\ job[h].pc \notin {"ok", "denied"}
            /\ UNCHANGED stored
        BY <2>5 DEF Fail, Done
      <3>2. QED
        BY <1>0, <2>1, <3>1 DEF Moves, Presents, SignedIn, Idle
    <2>6. QED
      BY <1>4, <2>2, <2>3, <2>4, <2>5 DEF ClientStep, MakesToken
  <1>5. ASSUME NEW h \in Handlers, NEW o, NEW p, NEW c, NEW t, NEW target,
               Ask(h, o, p, c, t, target), o # "refresh", p # "ok", Quiet
        PROVE  Calm
    BY <1>0, <1>2, <1>5 DEF Ask, Moves, Presents, SignedIn, Idle
  <1>6. ASSUME NEW c \in Clients, NEW h \in Handlers, Request(c, h), Quiet PROVE Calm \/ MakesToken(h)
    BY <1>5, <1>6 DEF Request, SignIn, SignOut, RevokeSession, ChangePassword, MakesToken
  <1>7. ASSUME NEW h \in Handlers, ResetPassword(h), Quiet PROVE Calm
    BY <1>5, <1>7 DEF ResetPassword
  <1>8. ASSUME NEW c \in Clients, ClearStore(c), Quiet PROVE Calm
    <2>1. \A h \in Handlers : Presents(h)' => job'[h].by # c
      BY <1>8 DEF ClearStore, Locked, Presents
    <2>2. QED
      BY <1>0, <1>8, <2>1 DEF ClearStore, Calm, Moves
  <1>9. ASSUME NEW c \in Clients, Quit(c), Quiet PROVE Calm
    <2>1. \A h \in Handlers : job'[h] = IF job[h].by # c THEN job[h] ELSE Unheard(job[h])
      BY <1>9 DEF Quit
    <2>2. \A h \in Handlers : /\ job[h].op = "refresh" /\ job[h].by = c
                              /\ job[h].pc \notin {"stored", "cleared"}
                              => family[job[h].token] \in lost'
      BY <1>9 DEF Quit
    <2>3. ASSUME NEW g \in Handlers PROVE Moves(g)
      BY <1>0, <2>1, <2>2 DEF Moves, Unheard, Idle, Presents, SignedIn, JobType
    <2>4. UNCHANGED stored /\ lost \subseteq lost'
      BY <1>9 DEF Quit
    <2>5. QED
      BY <1>9, <2>3, <2>4 DEF Calm
  <1>10. ASSUME UNCHANGED <<job, stored, lost>>, Quiet PROVE Calm
    BY <1>10 DEF Calm, Moves
  <1>11. QED
    BY <1>1, <1>3, <1>4, <1>6, <1>7, <1>8, <1>9, <1>10
    DEF Next, SignOutOffline, Suspend, Restore, Expire, vars

LEMMA CalmStep ==
  ASSUME TypeOK, JobsComplete, HeldInv, Calm
  PROVE  HeldInv'
  <1> USE DEF HeldInv
  <1>0. /\ job \in [Handlers -> JobType] /\ stored \in [Clients -> Rows \union {None}]
        /\ lost \subseteq lost' /\ family' = family
        /\ None \notin Clients /\ None \notin Rows
    BY SessionsAssumption DEF TypeOK, Calm
  <1>1. \A g \in Handlers : job[g] \in JobType /\ Complete(job[g]) /\ Moves(g)
    BY <1>0 DEF JobsComplete, Calm
  <1>2. UnheardLost'
    <2> SUFFICES ASSUME NEW h \in Handlers, job'[h].op = "refresh", job'[h].by = None
                 PROVE  family[job'[h].token] \in lost'
      BY <1>0 DEF UnheardLost
    <2>1. QED
      BY <1>0, <1>1 DEF UnheardLost, Moves, GoesOn, JobType
  <1>3. \A h \in Handlers : Presents(h)' =>
           Presents(h) /\ job'[h].token = job[h].token /\ job'[h].by = job[h].by
    BY <1>0, <1>1 DEF Presents, Moves, GoesOn, JobType
  <1>4. PresentsStored'
    <2> SUFFICES ASSUME NEW h \in Handlers, Presents(h)'
                 PROVE  job'[h].token = stored'[job'[h].by]
      BY DEF PresentsStored
    <2>1. job[h].by \in Clients
      BY <1>1, <1>3 DEF Presents, JobType
    <2>2. stored'[job[h].by] = stored[job[h].by]
      BY <1>3, <2>1 DEF Calm
    <2>3. QED
      BY <1>3, <2>2 DEF PresentsStored
  <1>5. OneRefresh'
    <2>1. \A h \in Handlers : job'[h].op = "refresh" /\ job'[h].by # None =>
             job[h].op = "refresh" /\ job'[h].by = job[h].by
      BY <1>0, <1>1 DEF Moves, GoesOn, JobType
    <2>2. QED
      BY <2>1 DEF OneRefresh
  <1>6. ScopeOfFamily'
    <2> SUFFICES ASSUME NEW h \in Handlers, job'[h].op = "refresh", job'[h].pc = "revoking",
                        NEW s \in job'[h].snap
                 PROVE  state'[s] # "none" /\ family[s] = family[job'[h].token]
      BY <1>0 DEF ScopeOfFamily, Exists, Same
    <2>1. /\ job[h].op = "refresh" /\ job'[h].token = job[h].token
          /\ job'[h].snap = Scope(h) \/ (job[h].pc = "revoking" /\ job'[h].snap = job[h].snap)
      BY <1>0, <1>1 DEF Moves, GoesOn, JobType
    <2>2. s \in Rows
      BY <1>1, <2>1 DEF JobType, Scope
    <2>3. Exists(s) /\ Same(s, job[h].token)
      BY <2>1 DEF Scope, Unrevoked, Exists, Same, ScopeOfFamily
    <2>4. QED
      BY <2>1, <2>2, <2>3 DEF Calm, Exists, Same
  <1>7. SuccessorOf'
    <2> SUFFICES ASSUME NEW h \in Handlers, job'[h].op = "refresh", job'[h].pc \in {"active", "ok"}
                 PROVE  /\ state'[job'[h].token] # "live"
                        /\ job'[h].target \in Rows /\ family[job'[h].target] = family[job'[h].token]
      BY <1>0 DEF SuccessorOf, Same
    <2>1. /\ job[h].op = "refresh" /\ job[h].pc \in {"active", "ok"}
          /\ job'[h].token = job[h].token /\ job'[h].target = job[h].target
      BY <1>0, <1>1 DEF Moves, GoesOn, JobType
    <2>2. job[h].token \in Rows
      BY <1>1, <2>1 DEF Complete
    <2>3. QED
      BY <2>1, <2>2 DEF SuccessorOf, Same, Calm
  <1>8. \A h \in Handlers : SignedIn(h)' => job'[h] = job[h] /\ SignedIn(h)
    BY <1>0, <1>1 DEF SignedIn, Moves, GoesOn, JobType
  <1>9. \A c \in Clients : stored'[c] # None => stored'[c] = stored[c]
    BY DEF Calm
  <1>10. HeldOnce'
    <2>1. \A c, d \in Clients :
             stored'[c] # None /\ stored'[d] # None /\ family[stored'[c]] = family[stored'[d]] => c = d
      BY <1>9 DEF HeldOnce, Same
    <2>2. \A h \in Handlers : SignedIn(h)' =>
             /\ job'[h].target \in Rows
             /\ \A c \in Clients : stored'[c] # None => family[stored'[c]] # family[job'[h].target]
      BY <1>8, <1>9 DEF HeldOnce, Same
    <2>3. \A g, h \in Handlers :
             SignedIn(g)' /\ SignedIn(h)' /\ family[job'[g].target] = family[job'[h].target] => g = h
      BY <1>8 DEF HeldOnce, Same
    <2>4. \A g, h \in Handlers : SignedIn(g)' /\ job'[h].op = "refresh" =>
             family[job'[h].token] # family[job'[g].target]
      <3>1. \A h \in Handlers : job'[h].op = "refresh" =>
               job[h].op = "refresh" /\ job'[h].token = job[h].token
        BY <1>0, <1>1 DEF Moves, GoesOn, JobType
      <3>2. QED
        BY <1>8, <3>1 DEF HeldOnce, Same
    <2>5. QED
      BY <1>0, <2>1, <2>2, <2>3, <2>4 DEF HeldOnce, Same, SignedIn
  <1>11. ASSUME NEW c \in Clients, NEW t \in Rows,
                stored'[c] # None, family[stored'[c]] \notin lost',
                state'[t] = "live", family[t] = family[stored'[c]], t # stored'[c]
         PROVE  \E h \in Handlers : job'[h].by = c /\ Brings(h, t)'
    <2>1. stored'[c] = stored[c] /\ state[t] = "live" /\ family[stored[c]] \notin lost
      BY <1>0, <1>9, <1>11 DEF Calm
    <2>2. PICK h \in Handlers : job[h].by = c /\ Brings(h, t)
      BY <1>11, <2>1 DEF LiveIsHeld, Same
    <2>3. job[h].token = stored[c]
      BY <2>2 DEF PresentsStored, Brings
    <2>4. family[job[h].token] \notin lost' /\ stored'[job[h].by] # None
      BY <1>11, <2>1, <2>2, <2>3
    <2>5. job'[h].by = c /\ Brings(h, t)'
      BY <1>0, <1>1, <2>2, <2>4 DEF Brings, Presents, Moves, GoesOn
    <2>6. QED
      BY <2>5
  <1>12. ASSUME NEW h \in Handlers, NEW t \in Rows, SignedIn(h)', state'[t] = "live",
                family[t] = family[job'[h].target]
         PROVE  t = job'[h].target
    BY <1>8, <1>12 DEF LiveIsHeld, Same, Calm
  <1>13. LiveIsHeld'
    BY <1>0, <1>11, <1>12 DEF LiveIsHeld, Same, SignedIn
  <1>14. QED
    BY <1>2, <1>4, <1>5, <1>6, <1>7, <1>10, <1>13

\* A client presents what it has stored, and only once.
LEMMA AskStep ==
  ASSUME TypeOK, JobsComplete, HeldInv, NEW c \in Clients, NEW h \in Handlers, Refresh(c, h)
  PROVE  HeldInv'
  <1> USE DEF HeldInv, serverVars, clientVars, historyVars
  <1>0. /\ job \in [Handlers -> JobType] /\ None \notin Clients
        /\ UNCHANGED <<state, family, lost, stored>>
        /\ \A g \in Handlers \ {h} : job'[g] = job[g]
        /\ job'[h] = [op |-> "refresh", pc |-> "find", by |-> c, token |-> stored[c],
                      target |-> None, snap |-> {}]
        /\ job[h] = Idle
        /\ \A g \in Handlers : ~(job[g].op = "refresh" /\ job[g].by = c)
    BY SessionsAssumption DEF TypeOK, Refresh, Ask, Refreshing
  <1>1. UnheardLost' /\ PresentsStored' /\ OneRefresh'
    BY <1>0 DEF UnheardLost, PresentsStored, OneRefresh, Presents
  <1>2. ScopeOfFamily' /\ SuccessorOf'
    BY <1>0 DEF ScopeOfFamily, SuccessorOf, Same, Exists
  <1>3. HeldOnce'
    BY <1>0 DEF HeldOnce, Same, SignedIn, Refresh
  <1>4. \A g \in Handlers, t \in Rows : Brings(g, t) => Brings(g, t)' /\ job'[g].by = job[g].by
    BY <1>0 DEF Brings, Presents, Idle
  <1>5. LiveIsHeld'
    BY <1>0, <1>4 DEF LiveIsHeld, Same, SignedIn
  <1>6. QED
    BY <1>1, <1>2, <1>3, <1>5

\* The session of a sign-in begins a family that nobody holds.
LEMMA InsertStep ==
  ASSUME TypeOK, JobsComplete, FamiliesExist, RowsExist, HeldInv,
         NEW h \in Handlers, NEW n \in Rows, LoginInsert(h, n)
  PROVE  HeldInv'
  <1> USE DEF HeldInv, clientVars, historyVars
  <1>0. /\ job \in [Handlers -> JobType] /\ None \notin Clients /\ None \notin Rows
        /\ UNCHANGED <<lost, stored>>
        /\ \A g \in Handlers \ {h} : job'[g] = job[g]
        /\ stored \in [Clients -> Rows \union {None}]
    BY SessionsAssumption DEF TypeOK, LoginInsert, Reply
  <1>1. /\ job[h].op = "login" /\ job[h].pc = "insert"
        /\ job'[h] = IF job[h].by = None THEN Idle
                     ELSE [job[h] EXCEPT !.pc = "ok", !.target = n, !.snap = {}]
    BY <1>0 DEF LoginInsert, At, Reply
  <1>2. job'[h].op # "refresh" /\ (SignedIn(h)' => job'[h].target = n)
    BY <1>0, <1>1 DEF Idle, SignedIn, JobType
  <1>3. \A s \in Rows : Exists(s) => /\ s # n /\ state'[s] = state[s] /\ Exists(family[s])
                                     /\ family'[s] = family[s] /\ family[s] # n
    BY DEF LoginInsert, TypeOK, Exists, FamiliesExist
  <1>4. family'[n] = n /\ \A s \in Rows : state'[s] = "live" => s = n \/ Exists(s)
    BY DEF LoginInsert, TypeOK, Exists
  <1>5. /\ \A c \in Clients : stored[c] # None => stored[c] \in Rows /\ Exists(stored[c])
        /\ \A g \in Handlers : job[g].op = "refresh" =>
              job[g].token \in Rows /\ Exists(job[g].token)
        /\ \A g \in Handlers : job[g].target \in Rows => Exists(job[g].target)
    BY <1>0 DEF RowsExist, Known, JobsComplete, Complete
  <1>6. UnheardLost' /\ PresentsStored' /\ OneRefresh'
    BY <1>0, <1>2, <1>3, <1>5 DEF UnheardLost, PresentsStored, OneRefresh, Presents
  <1>7. ScopeOfFamily'
    <2> SUFFICES ASSUME NEW g \in Handlers, job'[g].op = "refresh", job'[g].pc = "revoking",
                        NEW s \in job'[g].snap
                 PROVE  state'[s] # "none" /\ family'[s] = family'[job'[g].token]
      BY DEF ScopeOfFamily, Exists, Same
    <2>1. job'[g] = job[g] /\ s \in Rows
      BY <1>0, <1>2 DEF JobType
    <2>2. Exists(s) /\ family[s] = family[job[g].token]
      BY <2>1 DEF ScopeOfFamily, Same
    <2>3. QED
      BY <1>3, <1>5, <2>1, <2>2 DEF Exists
  <1>8. SuccessorOf'
    <2> SUFFICES ASSUME NEW g \in Handlers, job'[g].op = "refresh", job'[g].pc \in {"active", "ok"}
                 PROVE  /\ state'[job'[g].token] # "live"
                        /\ job'[g].target \in Rows /\ family'[job'[g].target] = family'[job'[g].token]
      BY DEF SuccessorOf, Same
    <2>1. job'[g] = job[g]
      BY <1>0, <1>2
    <2>2. QED
      BY <1>3, <1>5, <2>1 DEF SuccessorOf, Same
  <1>9. \A g \in Handlers : SignedIn(g)' => \/ g = h /\ job'[g].target = n
                                            \/ g # h /\ job'[g] = job[g] /\ SignedIn(g)
    BY <1>0, <1>2 DEF SignedIn
  <1>10. HeldOnce'
    <2>1. \A c, d \in Clients :
             stored[c] # None /\ stored[d] # None /\ family'[stored[c]] = family'[stored[d]] => c = d
      BY <1>3, <1>5 DEF HeldOnce, Same
    <2>2. \A g \in Handlers : SignedIn(g)' =>
             /\ job'[g].target \in Rows
             /\ \A c \in Clients : stored[c] # None => family'[stored[c]] # family'[job'[g].target]
      BY <1>3, <1>4, <1>5, <1>9 DEF HeldOnce, Same
    <2>3. \A f, g \in Handlers :
             SignedIn(f)' /\ SignedIn(g)' /\ family'[job'[f].target] = family'[job'[g].target] => f = g
      BY <1>3, <1>4, <1>5, <1>9 DEF HeldOnce, Same
    <2>4. \A f, g \in Handlers : SignedIn(f)' /\ job'[g].op = "refresh" =>
             family'[job'[g].token] # family'[job'[f].target]
      <3>1. \A g \in Handlers : job'[g].op = "refresh" => job'[g] = job[g]
        BY <1>0, <1>2
      <3>2. QED
        BY <1>3, <1>4, <1>5, <1>9, <3>1 DEF HeldOnce, Same
    <2>5. QED
      BY <1>0, <2>1, <2>2, <2>3, <2>4 DEF HeldOnce, Same, SignedIn
  <1>11. \A g \in Handlers, t \in Rows : Brings(g, t) => Brings(g, t)' /\ job'[g].by = job[g].by
    BY <1>0, <1>1 DEF Brings, Presents
  <1>12. ASSUME NEW c \in Clients, NEW t \in Rows, stored[c] # None, family'[stored[c]] \notin lost,
                state'[t] = "live", family'[t] = family'[stored[c]], t # stored[c]
         PROVE  \E g \in Handlers : job'[g].by = c /\ Brings(g, t)'
    <2>1. Exists(t) /\ state[t] = "live" /\ Same(t, stored[c]) /\ family[stored[c]] \notin lost
      BY <1>3, <1>4, <1>5, <1>12 DEF Same
    <2>2. QED
      BY <1>11, <1>12, <2>1 DEF LiveIsHeld
  <1>13. ASSUME NEW g \in Handlers, NEW t \in Rows, SignedIn(g)', state'[t] = "live",
                family'[t] = family'[job'[g].target]
         PROVE  t = job'[g].target
    <2>1. CASE g = h
      BY <1>2, <1>3, <1>4, <1>13, <2>1
    <2>2. CASE g # h
      <3>1. job'[g] = job[g] /\ SignedIn(g) /\ job[g].target \in Rows /\ Exists(job[g].target)
        BY <1>5, <1>9, <1>13, <2>2 DEF HeldOnce
      <3>2. Exists(t) /\ state[t] = "live" /\ Same(t, job[g].target)
        BY <1>3, <1>4, <1>13, <3>1 DEF Same
      <3>3. QED
        BY <3>1, <3>2 DEF LiveIsHeld
    <2>3. QED
      BY <2>1, <2>2
  <1>14. LiveIsHeld'
    BY <1>0, <1>12, <1>13 DEF LiveIsHeld, Same, SignedIn
  <1>15. QED
    BY <1>6, <1>7, <1>8, <1>10, <1>14

\* A rotation replaces what its client holds, and no one else holds the family.
LEMMA RotateStep ==
  ASSUME TypeOK, JobsComplete, OneLivePerFamily, RowsExist, HeldInv,
         NEW h \in Handlers, NEW n \in Rows, RefreshRotate(h, n)
  PROVE  HeldInv'
  <1> USE DEF HeldInv, clientVars, historyVars
  <1> DEFINE T == job[h].token
  <1>0. /\ job \in [Handlers -> JobType] /\ None \notin Clients /\ None \notin Rows
        /\ UNCHANGED <<lost, stored>>
        /\ \A g \in Handlers \ {h} : job'[g] = job[g]
        /\ stored \in [Clients -> Rows \union {None}]
        /\ job[h].op = "refresh" /\ job[h].pc = "rotate"
    BY SessionsAssumption DEF TypeOK, RefreshRotate, At
  <1>1. job'[h] = [job[h] EXCEPT !.pc = "active", !.target = n] /\ T \in Rows /\ state[T] = "live"
    BY <1>0 DEF RefreshRotate, JobsComplete, Complete, StillLive
  <1>2. /\ state' = [state EXCEPT ![T] = "revoked", ![n] = "live"]
        /\ family' = [family EXCEPT ![n] = family[T]]
        /\ state[n] = "none"
    BY DEF RefreshRotate, Spent, Exists
  <1>3. \A s \in Rows : Exists(s) => s # n /\ family'[s] = family[s] /\ state'[s] # "none"
    BY <1>1, <1>2 DEF Exists, TypeOK
  <1>4. \A s \in Rows : state'[s] = "live" => s = n \/ (s # T /\ Exists(s) /\ state[s] = "live")
    BY <1>1, <1>2 DEF TypeOK, Exists
  <1>5. /\ \A c \in Clients : stored[c] # None => stored[c] \in Rows /\ Exists(stored[c])
        /\ \A g \in Handlers : job[g].op = "refresh" =>
              job[g].token \in Rows /\ Exists(job[g].token)
        /\ \A g \in Handlers : job[g].target \in Rows => Exists(job[g].target)
    BY <1>0 DEF RowsExist, Known, JobsComplete, Complete
  <1>6. /\ job'[h].op = "refresh" /\ job'[h].pc = "active" /\ job'[h].by = job[h].by
        /\ job'[h].token = T /\ job'[h].target = n
        /\ family'[n] = family[T] /\ family'[T] = family[T] /\ state'[T] # "live" /\ T # n
    BY <1>0, <1>1, <1>2 DEF JobType, TypeOK
  <1>7. \A s \in Rows : state'[s] = "live" /\ family'[s] = family[T] => s = n
    BY <1>1, <1>3, <1>4 DEF OneLivePerFamily
  <1>8. UnheardLost' /\ PresentsStored' /\ OneRefresh'
    BY <1>0, <1>3, <1>5, <1>6 DEF UnheardLost, PresentsStored, OneRefresh, Presents
  <1>9. ScopeOfFamily'
    <2> SUFFICES ASSUME NEW g \in Handlers, job'[g].op = "refresh", job'[g].pc = "revoking",
                        NEW s \in job'[g].snap
                 PROVE  state'[s] # "none" /\ family'[s] = family'[job'[g].token]
      BY DEF ScopeOfFamily, Exists, Same
    <2>1. job'[g] = job[g] /\ s \in Rows
      BY <1>0, <1>6 DEF JobType
    <2>2. Exists(s) /\ family[s] = family[job[g].token]
      BY <2>1 DEF ScopeOfFamily, Same
    <2>3. QED
      BY <1>3, <1>5, <2>1, <2>2
  <1>10. SuccessorOf'
    <2> SUFFICES ASSUME NEW g \in Handlers, job'[g].op = "refresh", job'[g].pc \in {"active", "ok"}
                 PROVE  /\ state'[job'[g].token] # "live"
                        /\ job'[g].target \in Rows /\ family'[job'[g].target] = family'[job'[g].token]
      BY DEF SuccessorOf, Same
    <2>1. CASE g = h
      BY <1>6, <2>1
    <2>2. CASE g # h
      <3>1. job'[g] = job[g]
        BY <1>0, <2>2
      <3>2. QED
        BY <1>3, <1>4, <1>5, <3>1 DEF SuccessorOf, Same
    <2>3. QED
      BY <2>1, <2>2
  <1>11. \A g \in Handlers : SignedIn(g)' => /\ job'[g] = job[g] /\ SignedIn(g)
                                             /\ job[g].target \in Rows /\ Exists(job[g].target)
    BY <1>0, <1>5, <1>6 DEF SignedIn, HeldOnce
  <1>12. HeldOnce'
    <2>1. \A c, d \in Clients :
             stored[c] # None /\ stored[d] # None /\ family'[stored[c]] = family'[stored[d]] => c = d
      BY <1>3, <1>5 DEF HeldOnce, Same
    <2>2. \A g \in Handlers : SignedIn(g)' =>
             /\ job'[g].target \in Rows
             /\ \A c \in Clients : stored[c] # None => family'[stored[c]] # family'[job'[g].target]
      BY <1>3, <1>5, <1>11 DEF HeldOnce, Same
    <2>3. \A f, g \in Handlers :
             SignedIn(f)' /\ SignedIn(g)' /\ family'[job'[f].target] = family'[job'[g].target] => f = g
      BY <1>3, <1>11 DEF HeldOnce, Same
    <2>4. \A f, g \in Handlers : SignedIn(f)' /\ job'[g].op = "refresh" =>
             family'[job'[g].token] # family'[job'[f].target]
      <3>1. \A g \in Handlers : job'[g].op = "refresh" =>
               job[g].op = "refresh" /\ job'[g].token = job[g].token
        BY <1>0, <1>6
      <3>2. QED
        BY <1>3, <1>5, <1>11, <3>1 DEF HeldOnce, Same
    <2>5. QED
      BY <1>0, <2>1, <2>2, <2>3, <2>4 DEF HeldOnce, Same, SignedIn
  <1>13. ASSUME NEW c \in Clients, NEW t \in Rows, stored[c] # None, family'[stored[c]] \notin lost,
                state'[t] = "live", family'[t] = family'[stored[c]], t # stored[c]
         PROVE  \E g \in Handlers : job'[g].by = c /\ Brings(g, t)'
    <2>1. CASE t = n
      <3>1. family[T] \notin lost /\ Same(stored[c], T)
        BY <1>3, <1>5, <1>6, <1>13, <2>1 DEF Same
      <3>2. Presents(h) /\ job[h].by \in Clients
        BY <1>0, <3>1 DEF UnheardLost, Presents, JobType
      <3>3. stored[job[h].by] = T
        BY <3>2 DEF PresentsStored
      <3>4. job[h].by = c
        BY <1>0, <1>1, <1>13, <3>1, <3>2, <3>3 DEF HeldOnce, Same
      <3>5. Brings(h, t)'
        BY <1>6, <2>1, <3>2 DEF Brings, Presents
      <3>6. QED
        BY <1>6, <3>4, <3>5
    <2>2. CASE t # n
      <3>1. state[t] = "live" /\ Exists(t) /\ Same(t, stored[c]) /\ family[stored[c]] \notin lost
        BY <1>3, <1>4, <1>5, <1>13, <2>2 DEF Same
      <3>2. PICK g \in Handlers : job[g].by = c /\ Brings(g, t)
        BY <1>13, <3>1 DEF LiveIsHeld
      <3>3. g # h
        BY <1>0, <3>2 DEF Brings
      <3>4. job'[g].by = c /\ Brings(g, t)'
        BY <1>0, <3>2, <3>3 DEF Brings, Presents
      <3>5. QED
        BY <3>4
    <2>3. QED
      BY <2>1, <2>2
  <1>14. ASSUME NEW g \in Handlers, NEW t \in Rows, SignedIn(g)', state'[t] = "live",
                family'[t] = family'[job'[g].target]
         PROVE  t = job'[g].target
    <2>1. /\ job'[g] = job[g] /\ SignedIn(g) /\ job[g].target \in Rows
          /\ family'[job[g].target] = family[job[g].target]
      BY <1>3, <1>11, <1>14
    <2>2. CASE t = n
      <3>1. Same(T, job[g].target)
        BY <1>6, <1>14, <2>1, <2>2 DEF Same
      <3>2. QED
        BY <1>0, <2>1, <3>1 DEF HeldOnce
    <2>3. CASE t # n
      <3>1. state[t] = "live" /\ Exists(t) /\ Same(t, job[g].target)
        BY <1>3, <1>4, <1>14, <2>1, <2>3 DEF Same
      <3>2. QED
        BY <2>1, <3>1 DEF LiveIsHeld
    <2>4. QED
      BY <2>2, <2>3
  <1>15. LiveIsHeld'
    BY <1>0, <1>13, <1>14 DEF LiveIsHeld, Same, SignedIn
  <1>16. QED
    BY <1>8, <1>9, <1>10, <1>12, <1>15

\* An answer stored replaces what it succeeds, or begins a family no one else holds.
LEMMA StoreStep ==
  ASSUME TypeOK, JobsComplete, HeldInv, NEW h \in Handlers, StoreToken(h)
  PROVE  HeldInv'
  <1> USE DEF HeldInv, serverVars
  <1> DEFINE C == job[h].by
             T == job[h].target
  <1>0. /\ job \in [Handlers -> JobType] /\ None \notin Clients /\ None \notin Rows
        /\ UNCHANGED <<state, family, lost>>
        /\ \A g \in Handlers \ {h} : job'[g] = job[g]
        /\ job'[h] = [job[h] EXCEPT !.pc = "stored"]
        /\ job[h].op \in {"login", "refresh"} /\ job[h].pc = "ok" /\ C \in Clients
        /\ stored \in [Clients -> Rows \union {None}]
        /\ stored' = [stored EXCEPT ![C] = T]
    BY SessionsAssumption
    DEF TypeOK, StoreToken, NextStored, Goto, At, JobsComplete, Complete
  <1>1. job'[h].op = job[h].op /\ job'[h].by = C /\ job'[h].token = job[h].token /\ job'[h].pc = "stored"
    BY <1>0 DEF JobType
  <1>2. \A c \in Clients : stored'[c] = IF c = C THEN T ELSE stored[c]
    BY <1>0
  <1>3. \A g \in Handlers : g # h /\ Presents(g) => job[g].by # C
    <2>1. CASE job[h].op = "refresh"
      BY <1>0, <2>1 DEF OneRefresh, Presents
    <2>2. CASE job[h].op = "login"
      BY <2>2 DEF StoreToken, Locked, Presents
    <2>3. QED
      BY <1>0, <2>1, <2>2
  <1>4. \A g \in Handlers : Presents(g)' <=> g # h /\ Presents(g)
    BY <1>0, <1>1 DEF Presents
  <1>5. /\ \A g \in Handlers :
              /\ job'[g].op = job[g].op /\ job'[g].by = job[g].by
              /\ job'[g].token = job[g].token
              /\ g # h => job'[g] = job[g]
        /\ UNCHANGED <<state, family, lost>>
    BY <1>0, <1>1
  <1>6. UnheardLost' /\ OneRefresh'
    BY <1>5 DEF UnheardLost, OneRefresh
  <1>7. PresentsStored'
    <2> SUFFICES ASSUME NEW g \in Handlers, Presents(g)'
                 PROVE  job'[g].token = stored'[job'[g].by]
      BY DEF PresentsStored
    <2>1. g # h /\ Presents(g) /\ job'[g] = job[g] /\ job[g].by # C
      BY <1>0, <1>3, <1>4
    <2>2. job[g].by \in Clients
      BY <1>0, <2>1 DEF Presents, JobType
    <2>3. QED
      BY <1>2, <2>1, <2>2 DEF PresentsStored
  <1>8. ScopeOfFamily' /\ SuccessorOf'
    <2>1. \A g \in Handlers : job'[g].pc # "stored" => job'[g] = job[g]
      BY <1>1, <1>5
    <2>2. QED
      BY <1>5, <2>1 DEF ScopeOfFamily, SuccessorOf, Same, Exists
  <1>9. \A g \in Handlers : SignedIn(g)' <=> g # h /\ SignedIn(g)
    BY <1>0, <1>1 DEF SignedIn
  <1>10. CASE job[h].op = "refresh"
    <2>1. /\ Presents(h) /\ stored[C] = job[h].token /\ state[job[h].token] # "live"
          /\ T \in Rows /\ Same(T, stored[C]) /\ stored[C] # None
      BY <1>0, <1>10 DEF Presents, PresentsStored, SuccessorOf, JobsComplete, Complete
    <2>2. \A c \in Clients : stored'[c] # None => stored[c] # None /\ Same(stored'[c], stored[c])
      BY <1>2, <2>1 DEF Same
    <2>3. HeldOnce'
      BY <1>5, <1>9, <2>2 DEF HeldOnce, Same
    <2>4. ASSUME NEW c \in Clients, NEW t \in Rows, stored'[c] # None, family[stored'[c]] \notin lost,
                 state[t] = "live", family[t] = family[stored'[c]], t # stored'[c]
          PROVE  \E g \in Handlers : job'[g].by = c /\ Brings(g, t)'
      <3>1. CASE c = C
        <4>1. t # stored[C] /\ Same(t, stored[C]) /\ family[stored[C]] \notin lost
          BY <1>2, <2>1, <2>4, <3>1 DEF Same
        <4>2. PICK g \in Handlers : job[g].by = C /\ Brings(g, t)
          BY <1>0, <2>1, <2>4, <4>1 DEF LiveIsHeld
        <4>3. g = h
          BY <1>3, <4>2 DEF Brings
        <4>4. QED
          BY <1>2, <2>4, <3>1, <4>2, <4>3 DEF Brings
      <3>2. CASE c # C
        <4>1. PICK g \in Handlers : job[g].by = c /\ Brings(g, t)
          BY <1>2, <2>4, <3>2 DEF LiveIsHeld, Same
        <4>2. g # h /\ job'[g] = job[g]
          BY <1>0, <3>2, <4>1
        <4>3. QED
          BY <4>1, <4>2 DEF Brings, Presents
      <3>3. QED
        BY <3>1, <3>2
    <2>5. LiveIsHeld'
      BY <1>0, <1>9, <2>4 DEF LiveIsHeld, Same
    <2>6. QED
      BY <1>6, <1>7, <1>8, <2>3, <2>5
  <1>11. CASE job[h].op = "login"
    <2>1. SignedIn(h) /\ T \in Rows /\ \A c \in Clients : stored[c] # None => ~Same(stored[c], T)
      BY <1>0, <1>11 DEF SignedIn, HeldOnce
    <2>2. HeldOnce'
      <3>1. \A c, d \in Clients :
               stored'[c] # None /\ stored'[d] # None /\ family[stored'[c]] = family[stored'[d]] => c = d
        BY <1>2, <2>1 DEF HeldOnce, Same
      <3>2. \A g \in Handlers : g # h /\ SignedIn(g) =>
               /\ job'[g].target \in Rows
               /\ \A c \in Clients : stored'[c] # None => family[stored'[c]] # family[job'[g].target]
        BY <1>0, <1>2, <2>1 DEF HeldOnce, Same
      <3>3. QED
        BY <1>5, <1>9, <3>1, <3>2 DEF HeldOnce, Same
    <2>3. ASSUME NEW c \in Clients, NEW t \in Rows, stored'[c] # None, family[stored'[c]] \notin lost,
                 state[t] = "live", family[t] = family[stored'[c]], t # stored'[c]
          PROVE  \E g \in Handlers : job'[g].by = c /\ Brings(g, t)'
      <3>1. c # C
        BY <1>2, <2>1, <2>3 DEF LiveIsHeld, Same
      <3>2. PICK g \in Handlers : job[g].by = c /\ Brings(g, t)
        BY <1>2, <2>3, <3>1 DEF LiveIsHeld, Same
      <3>3. g # h /\ job'[g] = job[g]
        BY <1>0, <3>1, <3>2
      <3>4. QED
        BY <3>2, <3>3 DEF Brings, Presents
    <2>4. LiveIsHeld'
      BY <1>0, <1>9, <2>3 DEF LiveIsHeld, Same
    <2>5. QED
      BY <1>6, <1>7, <1>8, <2>2, <2>4
  <1>12. QED
    BY <1>0, <1>10, <1>11

LEMMA HeldStep ==
  ASSUME SessionInv, HeldInv, [Next]_vars
  PROVE  HeldInv'
  <1> USE DEF SessionInv
  <1>1. Calm \/ \E h \in Handlers : MakesToken(h)
    BY StepKinds DEF HeldInv
  <1>2. ASSUME NEW h \in Handlers, MakesToken(h) PROVE HeldInv'
    BY <1>2, StoreStep, AskStep, InsertStep, RotateStep DEF MakesToken
  <1>3. QED
    BY <1>1, <1>2, CalmStep

LEMMA HeldInit == ASSUME Init PROVE HeldInv
  <1>1. /\ \A h \in Handlers : job[h] = Idle
        /\ \A c \in Clients : stored[c] = None
    BY DEF Init
  <1>2. \A h \in Handlers : ~(job[h].op = "refresh") /\ ~SignedIn(h)
    BY <1>1 DEF Idle, SignedIn
  <1>3. QED
    BY <1>1, <1>2 DEF HeldInv, UnheardLost, PresentsStored, OneRefresh, ScopeOfFamily,
                      SuccessorOf, HeldOnce, LiveIsHeld, Presents

\* What a step of reuse detection kills was held by a client, which could only present
\* another token of the family after losing an answer.
LEMMA KilledStep ==
  ASSUME SessionInv, HeldInv, ReuseMeansLostAnswer, [Next]_vars
  PROVE  ReuseMeansLostAnswer'
  <1> USE DEF SessionInv, HeldInv, clientVars, historyVars
  <1>0. /\ job \in [Handlers -> JobType] /\ lost \subseteq Rows
        /\ None \notin Clients /\ None \notin Rows
    BY SessionsAssumption DEF TypeOK
  <1>1. lost \subseteq lost'
    BY Zenon DEF Next, vars, ServerStep, ClientStep, Request, Guard, LoginRead, RefreshFind,
       RefreshRefused, RefreshActive, RevokeRow, UpdateBegin, UpdateEnd, LoginInsert, RefreshRotate,
       StoreToken, Remember, Refused, Leave, Finish, Abandon, Fail, SignIn, Refresh, SignOut,
       RevokeSession, ChangePassword, ResetPassword, Ask, ClearStore, SignOutOffline, Quit,
       Suspend, Restore, Expire
  <1>2. killed' = killed \/ \E h \in Handlers : UpdateEnd(h) /\ job[h].op = "refresh"
    BY Zenon DEF Next, vars, ServerStep, ClientStep, Request, Guard, LoginRead, RefreshFind,
       RefreshRefused, RefreshActive, RevokeRow, UpdateBegin, UpdateEnd, LoginInsert, RefreshRotate,
       StoreToken, Remember, Refused, Leave, Finish, Abandon, Fail, SignIn, Refresh, SignOut,
       RevokeSession, ChangePassword, ResetPassword, Ask, ClearStore, SignOutOffline, Quit,
       Suspend, Restore, Expire
  <1>3. ASSUME NEW h \in Handlers, UpdateEnd(h), job[h].op = "refresh"
        PROVE  killed' \subseteq lost'
    <2>1. /\ job[h].pc = "revoking" /\ lost' = lost
          /\ killed' = killed \union {family[s] : s \in
                {t \in job[h].snap \ {job[h].token} : state[t] = "live"}}
      BY <1>3 DEF UpdateEnd
    <2>2. ASSUME NEW s \in job[h].snap, s # job[h].token, state[s] = "live", family[s] \notin lost
          PROVE  FALSE
      <3>1. s \in Rows /\ Same(s, job[h].token)
        BY <1>0, <1>3, <2>1, <2>2 DEF JobType, ScopeOfFamily
      <3>2. Presents(h) /\ job[h].by \in Clients
        BY <1>0, <1>3, <2>1, <2>2, <3>1 DEF UnheardLost, Presents, Same, JobType
      <3>3. stored[job[h].by] = job[h].token /\ job[h].token \in Rows
        BY <1>3, <3>2 DEF PresentsStored, JobsComplete, Complete
      <3>4. PICK g \in Handlers : job[g].by = job[h].by /\ Brings(g, s)
        BY <1>0, <2>2, <3>1, <3>2, <3>3 DEF LiveIsHeld, Same
      <3>5. g = h
        BY <1>0, <1>3, <3>2, <3>4 DEF OneRefresh, Brings, Presents
      <3>6. QED
        BY <2>1, <3>4, <3>5 DEF Brings
    <2>3. QED
      BY <2>1, <2>2 DEF ReuseMeansLostAnswer
  <1>4. QED
    BY <1>1, <1>2, <1>3 DEF ReuseMeansLostAnswer

\* Reuse detection never ends the session of a client that got all its answers: the
\* mutex around the store and the single refresh of a client keep every family in one
\* place (ReuseMeansLostAnswer, for every number of clients and requests).
THEOREM ReuseNeverPunishes == Spec => []ReuseMeansLostAnswer
  <1>1. Init => HeldInv /\ ReuseMeansLostAnswer
    <2>1. Init => ReuseMeansLostAnswer
      BY DEF Init, ReuseMeansLostAnswer
    <2>2. QED
      BY <2>1, HeldInit
  <1>2. SessionInv /\ HeldInv /\ ReuseMeansLostAnswer /\ [Next]_vars
          => HeldInv' /\ ReuseMeansLostAnswer'
    BY HeldStep, KilledStep
  <1>3. QED
    BY <1>1, <1>2, SessionInvariant, PTL DEF Spec
-----------------------------------------------------------------------------
(***************************************************************************)
(* A client stays signed in until somebody ends its session.  KeptInv says *)
(* why: of a family of which no answer was lost, what is held is revoked   *)
(* only by its client's own refresh, which has its successor or its        *)
(* refusal in hand, and a successor not yet stored only by a revocation.   *)
(***************************************************************************)

\* A refresh that has spent its token, or been refused, and whose client waits; an
\* answer that brings a token.
Exchanging(h) == Presents(h) /\ job[h].pc \in {"active", "ok", "denied"}
Granted(h)    == SignedIn(h) \/ (job[h].op = "refresh" /\ job[h].pc \in {"active", "ok"})

\* A revocation is about rows there were when it began, but not the one that is spared.
SnapshotsSeen ==
  \A h \in Handlers : job[h].pc = "revoking" /\ job[h].op # "refresh" =>
    /\ job[h].snap \subseteq seen[h]
    /\ job[h].op = "change" => job[h].token \notin job[h].snap

StoredKept ==
  \A c \in Clients :
    stored[c] # None /\ state[stored[c]] = "revoked" /\ family[stored[c]] \notin lost =>
      stored[c] \in cut \/ \E h \in Handlers : Exchanging(h) /\ job[h].by = c

GrantsKept ==
  \A h \in Handlers :
    Granted(h) /\ state[job[h].target] = "revoked" /\ family[job[h].target] \notin lost =>
      job[h].target \in cut

KeptInv == SnapshotsSeen /\ StoredKept /\ GrantsKept

LEMMA SeenStep ==
  ASSUME TypeOK, JobsComplete, SnapshotsSeen, [Next]_vars
  PROVE  SnapshotsSeen'
  <1> SUFFICES ASSUME NEW g \in Handlers, job'[g].pc = "revoking", job'[g].op # "refresh"
               PROVE  /\ job'[g].snap \subseteq seen'[g]
                      /\ job'[g].op = "change" => job'[g].token \notin job'[g].snap
    BY DEF SnapshotsSeen
  <1>0. job[g] \in JobType
    BY DEF TypeOK
  <1>1. CASE UpdateBegin(g)
    <2>1. /\ job'[g].op = job[g].op /\ job'[g].token = job[g].token /\ job'[g].snap = Scope(g)
          /\ seen'[g] = {s \in Rows : Exists(s)}
      BY <1>1, <1>0 DEF UpdateBegin, TypeOK, JobType
    <2>2. QED
      BY <2>1 DEF Scope, Unrevoked, Exists
  <1>2. CASE /\ job'[g] = job[g] \/ job'[g] = [job[g] EXCEPT !.by = None]
             /\ seen'[g] = seen[g]
    <2>1. /\ job'[g].pc = job[g].pc /\ job'[g].op = job[g].op
          /\ job'[g].token = job[g].token /\ job'[g].snap = job[g].snap
      BY <1>0, <1>2 DEF JobType
    <2>2. QED
      BY <1>2, <2>1 DEF SnapshotsSeen
  <1>3. QED
    BY <1>1, <1>2, RevokingSteps

\* What was ended for good stays so.
LEMMA CutGrows ==
  ASSUME [Next]_vars
  PROVE  cut \subseteq cut'
  <1>1. ASSUME NEW h \in Handlers, UpdateEnd(h) PROVE cut \subseteq cut'
    BY <1>1 DEF UpdateEnd
  <1>2. ASSUME NEW h \in Handlers, NEW n \in Rows, RefreshRotate(h, n) PROVE cut \subseteq cut'
    BY <1>2 DEF RefreshRotate
  <1>3. QED
    BY <1>1, <1>2, CutSteps DEF RevokeRow, Suspend

\* A session is revoked by those that speak of all of it, by the exchange of its token, or
\* by reuse detection.
LEMMA RevokedHow ==
  ASSUME TypeOK, JobsComplete, SnapshotsSeen, [Next]_vars,
         NEW s \in Rows, state'[s] = "revoked", state[s] # "revoked", s \notin cut'
  PROVE  \E h \in Handlers :
            \/ job[h].token = s /\ \E n \in Rows : RefreshRotate(h, n)
            \/ UpdateEnd(h) /\ job[h].op = "refresh" /\ s \in job[h].snap
  <1>1. \/ UNCHANGED state \/ Suspend \/ \E t \in Rows : Expire(t)
        \/ \E h \in Handlers : \/ RevokeRow(h) \/ UpdateEnd(h)
                               \/ \E n \in Rows : LoginInsert(h, n) \/ RefreshRotate(h, n)
    BY Zenon DEF Next, ServerStep, ClientStep, Request, Guard, LoginRead, RefreshFind,
       RefreshRefused, RefreshActive, UpdateBegin, StoreToken, Remember, Refused,
       Leave, Finish, Abandon, Fail, SignIn, Refresh, SignOut, RevokeSession, ChangePassword,
       ResetPassword, Ask, ClearStore, SignOutOffline, Quit, Restore, vars, serverVars
  <1>2. CASE UNCHANGED state
    BY <1>2
  <1>3. CASE Suspend
    BY <1>3 DEF Suspend, Revoke, Unrevoked, Exists
  <1>4. ASSUME NEW t \in Rows, Expire(t) PROVE FALSE
    BY <1>4 DEF Expire, TypeOK
  <1>5. ASSUME NEW h \in Handlers, RevokeRow(h) PROVE FALSE
    BY <1>5 DEF RevokeRow, Revoke, Unrevoked
  <1>6. ASSUME NEW h \in Handlers, UpdateEnd(h)
        PROVE  job[h].op = "refresh" /\ s \in job[h].snap
    <2>1. s \in job[h].snap
      BY <1>6 DEF UpdateEnd, Revoke
    <2>2. CASE job[h].op # "refresh"
      BY <1>6, <2>1, <2>2 DEF UpdateEnd, SnapshotsSeen
    <2>3. QED
      BY <2>1, <2>2
  <1>7. ASSUME NEW h \in Handlers, NEW n \in Rows, LoginInsert(h, n) PROVE FALSE
    BY <1>7 DEF LoginInsert, TypeOK
  <1>8. ASSUME NEW h \in Handlers, NEW n \in Rows, RefreshRotate(h, n) PROVE job[h].token = s
    BY <1>8 DEF RefreshRotate, TypeOK
  <1>9. QED
    BY <1>1, <1>2, <1>3, <1>4, <1>5, <1>6, <1>7, <1>8

\* A refresh of what a client has stored is its own.
LEMMA OwnRefresh ==
  ASSUME TypeOK, JobsComplete, HeldInv, NEW h \in Handlers, NEW c \in Clients,
         job[h].op = "refresh", job[h].pc \notin {"stored", "cleared"},
         stored[c] # None, Same(stored[c], job[h].token), family[job[h].token] \notin lost
  PROVE  Presents(h) /\ job[h].by = c
  <1>1. Presents(h) /\ job[h].by \in Clients /\ job[h].token \in Rows
    BY DEF HeldInv, UnheardLost, Presents, TypeOK, JobType, JobsComplete, Complete
  <1>2. stored[job[h].by] = job[h].token /\ job[h].token # None
    BY <1>1, SessionsAssumption DEF HeldInv, PresentsStored
  <1>3. QED
    BY <1>1, <1>2 DEF HeldInv, HeldOnce

\* No other refresh is of a family whose token is about to be stored.
LEMMA OwnGrant ==
  ASSUME TypeOK, JobsComplete, HeldInv, NEW g \in Handlers, NEW h \in Handlers,
         job[g].op = "refresh", job[g].pc \notin {"stored", "cleared"}, Granted(h),
         Same(job[h].target, job[g].token), family[job[g].token] \notin lost
  PROVE  g = h
  <1>1. CASE SignedIn(h)
    BY <1>1 DEF HeldInv, HeldOnce, Same
  <1>2. CASE job[h].op = "refresh" /\ job[h].pc \in {"active", "ok"}
    <2>1. Same(job[h].token, job[g].token)
      BY <1>2 DEF HeldInv, SuccessorOf, Same
    <2>2. /\ Presents(h) /\ job[h].by \in Clients /\ job[h].token \in Rows
          /\ Presents(g) /\ job[g].by \in Clients
      BY <1>2, <2>1
      DEF HeldInv, UnheardLost, Presents, Same, TypeOK, JobType, JobsComplete, Complete
    <2>3. stored[job[h].by] = job[h].token /\ job[h].token # None
      BY <2>2, SessionsAssumption DEF HeldInv, PresentsStored
    <2>4. job[g].by = job[h].by
      BY <2>1, <2>2, <2>3, OwnRefresh
    <2>5. QED
      BY <1>2, <2>2, <2>4 DEF HeldInv, OneRefresh, Presents
  <1>3. QED
    BY <1>1, <1>2 DEF Granted

\* Steps that make no token: what a client waits for stays on its way.
LEMMA KeptCalm ==
  ASSUME SessionInv, HeldInv, KeptInv, [Next]_vars, Calm
  PROVE  StoredKept' /\ GrantsKept'
  <1> USE DEF SessionInv
  <1>0. /\ job \in [Handlers -> JobType] /\ stored \in [Clients -> Rows \union {None}]
        /\ lost \subseteq lost' /\ family' = family /\ cut \subseteq cut'
        /\ None \notin Clients /\ None \notin Rows
    BY SessionsAssumption, CutGrows DEF TypeOK, Calm
  <1>1. \A g \in Handlers : job[g] \in JobType /\ Complete(job[g]) /\ Moves(g)
    BY <1>0 DEF JobsComplete, Calm
  <1>2. ASSUME NEW h \in Handlers, NEW n \in Rows PROVE ~RefreshRotate(h, n)
    BY DEF RefreshRotate, Calm, Exists, TypeOK
  <1>3. ASSUME NEW s \in Rows, state'[s] = "revoked", state[s] # "revoked", s \notin cut'
        PROVE  \E h \in Handlers : /\ UpdateEnd(h) /\ job[h].op = "refresh" /\ job[h].pc = "revoking"
                                   /\ Same(s, job[h].token)
    <2>1. PICK h \in Handlers : UpdateEnd(h) /\ job[h].op = "refresh" /\ s \in job[h].snap
      BY <1>2, <1>3, RevokedHow DEF KeptInv
    <2>2. job[h].pc = "revoking"
      BY <2>1 DEF UpdateEnd
    <2>3. QED
      BY <2>1, <2>2 DEF HeldInv, ScopeOfFamily
  <1>4. ASSUME NEW c \in Clients, stored'[c] # None, state'[stored'[c]] = "revoked",
               family[stored'[c]] \notin lost', stored'[c] \notin cut'
        PROVE  \E h \in Handlers : Exchanging(h)' /\ job'[h].by = c
    <2> DEFINE s == stored[c]
    <2>1. stored'[c] = s /\ s \in Rows /\ family[s] \notin lost /\ s \notin cut
      BY <1>0, <1>4 DEF Calm
    <2>2. CASE state[s] = "revoked"
      <3>1. PICK h \in Handlers : Exchanging(h) /\ job[h].by = c
        BY <1>0, <2>1, <2>2 DEF KeptInv, StoredKept
      <3>2. job[h].token = s
        BY <3>1 DEF Exchanging, HeldInv, PresentsStored
      <3>3. family[job[h].token] \notin lost' /\ stored'[job[h].by] # None
        BY <1>0, <1>4, <2>1, <3>1, <3>2
      <3>4. Exchanging(h)' /\ job'[h].by = c
        BY <1>0, <1>1, <3>1, <3>3 DEF Exchanging, Presents, Moves, GoesOn
      <3>5. QED
        BY <3>4
    <2>3. CASE state[s] # "revoked"
      <3>1. PICK h \in Handlers : /\ UpdateEnd(h) /\ job[h].op = "refresh" /\ job[h].pc = "revoking"
                                  /\ Same(s, job[h].token)
        BY <1>3, <1>4, <2>1, <2>3
      <3>2. job[h].by = c
        BY <1>0, <2>1, <3>1, OwnRefresh DEF Same
      <3>3. job'[h] = [job[h] EXCEPT !.pc = "denied", !.target = None, !.snap = {}]
        BY <1>0, <3>1, <3>2 DEF UpdateEnd, Reply
      <3>4. Exchanging(h)' /\ job'[h].by = c
        BY <1>0, <1>1, <3>1, <3>2, <3>3 DEF Exchanging, Presents, JobType
      <3>5. QED
        BY <3>4
    <2>4. QED
      BY <2>2, <2>3
  <1>5. ASSUME NEW h \in Handlers, Granted(h)', state'[job'[h].target] = "revoked",
               family[job'[h].target] \notin lost'
        PROVE  job'[h].target \in cut'
    <2> DEFINE t == job[h].target
    <2>1. Granted(h) /\ job'[h].target = t
      BY <1>0, <1>1, <1>5 DEF Granted, SignedIn, Moves, GoesOn, JobType
    <2>2. t \in Rows /\ family[t] \notin lost
      BY <1>0, <1>5, <2>1 DEF Granted, HeldInv, HeldOnce, SuccessorOf
    <2>3. CASE state[t] = "revoked"
      BY <1>0, <2>1, <2>2, <2>3 DEF KeptInv, GrantsKept
    <2>4. CASE state[t] # "revoked" /\ t \notin cut'
      <3>1. PICK g \in Handlers : /\ job[g].op = "refresh" /\ job[g].pc = "revoking"
                                  /\ Same(t, job[g].token)
        BY <1>3, <1>5, <2>1, <2>2, <2>4
      <3>2. g = h
        BY <2>1, <2>2, <3>1, OwnGrant DEF Same
      <3>3. QED
        BY <2>1, <3>1, <3>2 DEF Granted, SignedIn
    <2>5. QED
      BY <2>1, <2>3, <2>4
  <1>6. QED
    BY <1>0, <1>4, <1>5 DEF StoredKept, GrantsKept, Exchanging, Granted, Presents, SignedIn

\* What asks, or stores what it was given, revokes nothing.
LEMMA KeptAsk ==
  ASSUME SessionInv, HeldInv, KeptInv, NEW c \in Clients, NEW h \in Handlers, Refresh(c, h)
  PROVE  StoredKept' /\ GrantsKept'
  <1> USE DEF SessionInv, serverVars, clientVars, historyVars
  <1>1. /\ UNCHANGED <<state, family, lost, stored, cut>>
        /\ \A g \in Handlers \ {h} : job'[g] = job[g]
        /\ job[h] = Idle /\ job'[h].op = "refresh" /\ job'[h].pc = "find"
    BY DEF TypeOK, Refresh, Ask
  <1>2. \A g \in Handlers : Exchanging(g) => Exchanging(g)' /\ job'[g].by = job[g].by
    BY <1>1 DEF Exchanging, Presents, Idle
  <1>3. \A g \in Handlers : Granted(g)' => Granted(g) /\ job'[g] = job[g]
    BY <1>1 DEF Granted, SignedIn
  <1>4. StoredKept'
    BY <1>1, <1>2 DEF KeptInv, StoredKept
  <1>5. GrantsKept'
    BY <1>1, <1>3 DEF KeptInv, GrantsKept, Granted, SignedIn
  <1>6. QED
    BY <1>4, <1>5

LEMMA KeptStore ==
  ASSUME SessionInv, HeldInv, KeptInv, NEW h \in Handlers, StoreToken(h)
  PROVE  StoredKept' /\ GrantsKept'
  <1> USE DEF SessionInv, serverVars
  <1>1. /\ UNCHANGED <<state, family, lost, cut>>
        /\ \A g \in Handlers \ {h} : job'[g] = job[g]
        /\ job'[h] = [job[h] EXCEPT !.pc = "stored"] /\ job'[h].pc = "stored"
        /\ job[h].by \in Clients /\ Granted(h)
        /\ stored' = [stored EXCEPT ![job[h].by] = job[h].target]
    BY DEF TypeOK, JobType, StoreToken, NextStored, Goto, At, JobsComplete, Complete,
           Granted, SignedIn
  <1>2. \A g \in Handlers : Granted(g)' => Granted(g) /\ job'[g] = job[g]
    BY <1>1 DEF Granted, SignedIn
  <1>3. GrantsKept'
    BY <1>1, <1>2 DEF KeptInv, GrantsKept, Granted, SignedIn
  <1>4. ASSUME NEW c \in Clients, stored'[c] # None, state[stored'[c]] = "revoked",
               family[stored'[c]] \notin lost, stored'[c] \notin cut
        PROVE  \E g \in Handlers : Exchanging(g)' /\ job'[g].by = c
    <2>1. c # job[h].by
      BY <1>1, <1>4 DEF KeptInv, GrantsKept, TypeOK
    <2>2. stored'[c] = stored[c]
      BY <1>1, <2>1 DEF TypeOK
    <2>3. PICK g \in Handlers : Exchanging(g) /\ job[g].by = c
      BY <1>4, <2>2 DEF KeptInv, StoredKept
    <2>4. job'[g] = job[g]
      BY <1>1, <2>1, <2>3
    <2>5. QED
      BY <2>3, <2>4 DEF Exchanging, Presents
  <1>5. StoredKept'
    BY <1>1, <1>4 DEF StoredKept
  <1>6. QED
    BY <1>3, <1>5

\* A sign-in changes no session there was.
LEMMA KeptInsert ==
  ASSUME SessionInv, HeldInv, KeptInv, NEW h \in Handlers, NEW n \in Rows, LoginInsert(h, n)
  PROVE  StoredKept' /\ GrantsKept'
  <1> USE DEF SessionInv, clientVars, historyVars
  <1>1. /\ UNCHANGED <<lost, stored, cut>>
        /\ job \in [Handlers -> JobType] /\ None \notin Rows
        /\ \A g \in Handlers \ {h} : job'[g] = job[g]
        /\ job[h].op = "login"
        /\ job'[h] = IF job[h].by = None THEN Idle
                     ELSE [job[h] EXCEPT !.pc = "ok", !.target = n, !.snap = {}]
    BY SessionsAssumption DEF TypeOK, LoginInsert, At, Reply
  <1>2. Granted(h)' => job'[h].target = n
    BY <1>1 DEF Granted, SignedIn, Idle, JobType
  <1>3. state'[n] = "live" /\ \A s \in Rows : Exists(s) => state'[s] = state[s] /\ family'[s] = family[s]
    BY DEF LoginInsert, TypeOK, Exists
  <1>4. ASSUME NEW c \in Clients, stored[c] # None, state'[stored[c]] = "revoked",
               family'[stored[c]] \notin lost, stored[c] \notin cut
        PROVE  \E g \in Handlers : Exchanging(g)' /\ job'[g].by = c
    <2>1. state[stored[c]] = "revoked" /\ family[stored[c]] \notin lost
      BY <1>3, <1>4 DEF RowsExist, Known, TypeOK
    <2>2. PICK g \in Handlers : Exchanging(g) /\ job[g].by = c
      BY <1>4, <2>1 DEF KeptInv, StoredKept
    <2>3. job'[g] = job[g]
      BY <1>1, <2>2 DEF Exchanging, Presents
    <2>4. QED
      BY <2>2, <2>3 DEF Exchanging, Presents
  <1>5. ASSUME NEW g \in Handlers, Granted(g)', state'[job'[g].target] = "revoked",
               family'[job'[g].target] \notin lost
        PROVE  job'[g].target \in cut
    <2>1. job'[g] = job[g] /\ Granted(g)
      BY <1>1, <1>2, <1>3, <1>5 DEF Granted, SignedIn
    <2>2. job[g].target \in Rows /\ Exists(job[g].target)
      BY <1>1, <2>1 DEF RowsExist, Known, Granted, HeldInv, HeldOnce, SuccessorOf
    <2>3. QED
      BY <1>3, <1>5, <2>1, <2>2 DEF KeptInv, GrantsKept
  <1>6. QED
    BY <1>1, <1>4, <1>5 DEF StoredKept, GrantsKept

\* A rotation ends the token its own client has stored, and answers with its successor.
LEMMA KeptRotate ==
  ASSUME SessionInv, HeldInv, KeptInv, [Next]_vars,
         NEW h \in Handlers, NEW n \in Rows, RefreshRotate(h, n)
  PROVE  StoredKept' /\ GrantsKept'
  <1> USE DEF SessionInv, clientVars, historyVars
  <1> DEFINE T == job[h].token
  <1>1. /\ UNCHANGED <<lost, stored>> /\ cut \subseteq cut'
        /\ job \in [Handlers -> JobType] /\ None \notin Rows
        /\ \A g \in Handlers \ {h} : job'[g] = job[g]
        /\ job[h].op = "refresh" /\ job[h].pc = "rotate" /\ T \in Rows /\ Exists(T)
        /\ job'[h] = [job[h] EXCEPT !.pc = "active", !.target = n]
    BY SessionsAssumption, CutGrows
    DEF TypeOK, RefreshRotate, At, JobsComplete, Complete, StillLive, Exists
  <1>2. /\ job'[h].op = "refresh" /\ job'[h].pc = "active" /\ job'[h].by = job[h].by
        /\ job'[h].target = n
    BY <1>1 DEF JobType
  <1>3. /\ state'[n] = "live" \/ n = T
        /\ \A s \in Rows : Exists(s) => /\ s # n /\ family'[s] = family[s]
                                        /\ s # T => state'[s] = state[s]
    BY <1>1 DEF RefreshRotate, TypeOK, Exists
  <1>4. ASSUME NEW c \in Clients, stored[c] # None, state'[stored[c]] = "revoked",
               family'[stored[c]] \notin lost, stored[c] \notin cut'
        PROVE  \E g \in Handlers : Exchanging(g)' /\ job'[g].by = c
    <2>1. stored[c] \in Rows /\ Exists(stored[c]) /\ family[stored[c]] \notin lost
      BY <1>3, <1>4 DEF RowsExist, Known, TypeOK
    <2>2. CASE stored[c] = T
      <3>1. Presents(h) /\ job[h].by = c
        BY <1>1, <2>1, <2>2, <1>4, OwnRefresh DEF Same
      <3>2. Exchanging(h)' /\ job'[h].by = c
        BY <1>2, <3>1 DEF Exchanging, Presents
      <3>3. QED
        BY <3>2
    <2>3. CASE stored[c] # T
      <3>1. PICK g \in Handlers : Exchanging(g) /\ job[g].by = c
        BY <1>1, <1>3, <1>4, <2>1, <2>3 DEF KeptInv, StoredKept
      <3>2. job'[g] = job[g]
        BY <1>1, <3>1 DEF Exchanging
      <3>3. QED
        BY <3>1, <3>2 DEF Exchanging, Presents
    <2>4. QED
      BY <2>2, <2>3
  <1>5. ASSUME NEW g \in Handlers, Granted(g)', state'[job'[g].target] = "revoked",
               family'[job'[g].target] \notin lost, job'[g].target \notin cut'
        PROVE  FALSE
    <2>1. CASE g = h
      BY <1>1, <1>2, <1>3, <1>5, <2>1
    <2>2. CASE g # h
      <3>1. job'[g] = job[g] /\ Granted(g)
        BY <1>1, <1>5, <2>2 DEF Granted, SignedIn
      <3>2. job[g].target \in Rows /\ Exists(job[g].target)
        BY <1>1, <3>1 DEF RowsExist, Known, Granted, HeldInv, HeldOnce, SuccessorOf
      <3>3. job[g].target # T
        BY <1>1, <1>3, <1>5, <2>2, <3>1, <3>2, OwnGrant DEF Same
      <3>4. QED
        BY <1>1, <1>3, <1>5, <3>1, <3>2, <3>3 DEF KeptInv, GrantsKept
    <2>3. QED
      BY <2>1, <2>2
  <1>6. QED
    BY <1>1, <1>4, <1>5 DEF StoredKept, GrantsKept

LEMMA KeptStep ==
  ASSUME SessionInv, HeldInv, KeptInv, [Next]_vars
  PROVE  KeptInv'
  <1>1. SnapshotsSeen'
    BY SeenStep DEF SessionInv, KeptInv
  <1>2. Calm \/ \E h \in Handlers : MakesToken(h)
    BY StepKinds DEF SessionInv, HeldInv
  <1>3. ASSUME NEW h \in Handlers, MakesToken(h) PROVE StoredKept' /\ GrantsKept'
    BY <1>3, KeptAsk, KeptStore, KeptInsert, KeptRotate DEF MakesToken
  <1>4. QED
    BY <1>1, <1>2, <1>3, KeptCalm DEF KeptInv

\* Nobody is signed out but by who may: the token a client keeps between refreshes is
\* revoked only by what ends sessions for good, unless an answer of its family was lost
\* (StaysSignedIn, for every number of clients, requests and sessions).
THEOREM SignedInStays == Spec => []StaysSignedIn
  <1>1. Init => KeptInv /\ HeldInv
    <2>1. ASSUME Init PROVE KeptInv
      BY <2>1 DEF Init, Idle, KeptInv, SnapshotsSeen, StoredKept, GrantsKept, Granted, SignedIn
    <2>2. QED
      BY <2>1, HeldInit
  <1>2. SessionInv /\ HeldInv /\ KeptInv /\ [Next]_vars => HeldInv' /\ KeptInv'
    BY HeldStep, KeptStep
  <1>3. KeptInv => StaysSignedIn
    BY DEF KeptInv, StoredKept, StaysSignedIn, Exchanging, Presents, Refreshing
  <1>4. QED
    BY <1>1, <1>2, <1>3, SessionInvariant, PTL DEF Spec
=============================================================================
