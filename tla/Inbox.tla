-------------------------------- MODULE Inbox --------------------------------
(***************************************************************************)
(* The notifications of one user: their rows, the events the servers send  *)
(* to his sockets, the connection that the desktop's RealtimeClient keeps, *)
(* and the inbox the desktop builds from one list and from events.         *)
(*                                                                         *)
(* A notification is a number, in the order of creation; what a row, an    *)
(* event or the inbox says of it is whether it is unread, read or          *)
(* dismissed.  Handlers of the renderer run to their end; the servers and  *)
(* the network come in between.                                            *)
(***************************************************************************)
EXTENDS Naturals, Sequences, FiniteSets

CONSTANTS
    MaxNotes,      \* a natural number, the bound on the notifications
    Limit,         \* notifications of a page, at least 1
    MaxIncidents   \* a natural number, the bound on the failures, of the network, a server or a token

VARIABLES
    row,        \* notifications: read_at and dismissed_at
    outgoing,   \* events of committed changes, not published yet
    met,        \* history: this session has been connected
    excused,    \* history: notifications the inbox may show wrong for another reason than
                \* a broken connection: no event, an event lost or overtaken, an older list
    session,    \* SessionProvider's status is authenticated
    token,      \* the access token in memory
    net,        \* navigator.onLine
    socket,     \* #socket, where it is in its connection
    auth,       \* the token of socket.auth
    state,      \* #state, what the application shows
    retrying,   \* #authRetryPending
    renewing,   \* a renewAuthentication of handleConnectError is in progress
    inbox,      \* events on the way to the socket
    list,       \* the page on its way to the inbox
    loaded,     \* the first page has arrived
    next,       \* nextCursor, 0 when there is none
    view,       \* what the inbox shows of each notification
    seen,       \* seenIds
    incidents   \* how many incidents there were

serverVars == <<row, outgoing>>
clientVars == <<session, token, net, socket, auth, state, retrying, renewing, inbox>>
inboxVars  == <<list, loaded, next, view, seen, met, excused>>
vars == <<serverVars, clientVars, inboxVars, incidents>>

Notes    == 1..MaxNotes
Standing == {"none", "unread", "read", "dismissed"}
NoPage   == [stage |-> "none", rows |-> <<>>, before |-> 0, next |-> 0]

Init ==
    /\ row = [n \in Notes |-> "none"] /\ outgoing = {}
    /\ session = FALSE /\ token = "none" /\ net = TRUE
    /\ socket = "none" /\ auth = "none" /\ state = "stopped"
    /\ retrying = FALSE /\ renewing = FALSE /\ inbox = <<>>
    /\ list = NoPage /\ loaded = FALSE /\ next = 0
    /\ view = [n \in Notes |-> "none"] /\ seen = {} /\ met = FALSE /\ excused = {}
    /\ incidents = 0

Made     == {n \in Notes : row[n] # "none"}
Kept     == {n \in Made : row[n] # "dismissed"}
Shown    == {n \in Notes : view[n] # "none"}
Incident == incidents < MaxIncidents /\ incidents' = incidents + 1

-----------------------------------------------------------------------------
(* The servers.                                                            *)

\* createMessage notifies those its text mentions; the event follows the commit.
Mention(n) ==
    /\ n \notin Made /\ \A m \in Notes : m < n => m \in Made
    /\ row' = [row EXCEPT ![n] = "unread"]
    /\ outgoing' = outgoing \union {[kind |-> "created", note |-> n, as |-> "unread"]}
    /\ UNCHANGED <<clientVars, inboxVars, incidents>>

\* Moderators' decisions notify too, and publish nothing.
Decision(n) ==
    /\ n \notin Made /\ \A m \in Notes : m < n => m \in Made
    /\ row' = [row EXCEPT ![n] = "unread"]
    /\ excused' = excused \union {n}
    /\ UNCHANGED <<outgoing, clientVars, list, loaded, next, view, seen, met, incidents>>

\* markRead and dismiss, from any client of the user.
Change(n, as) ==
    /\ row' = [row EXCEPT ![n] = as]
    /\ outgoing' = outgoing \union {[kind |-> "updated", note |-> n, as |-> as]}

Elsewhere(n, as) ==
    /\ n \in Kept /\ row[n] # as
    /\ Change(n, as)
    /\ UNCHANGED <<clientVars, inboxVars, incidents>>

\* RealtimePublisher: to the sockets in the room of the user, which handleConnection
\* joins as soon as they are connected.
Publish(e) ==
    /\ outgoing' = outgoing \ {e}
    /\ inbox' = IF socket = "connected" THEN Append(inbox, e) ELSE inbox
    /\ excused' = IF ~met \/ ~loaded \/ \E f \in outgoing \ {e} : f.note = e.note
                  THEN excused \union {e.note} ELSE excused
    /\ UNCHANGED <<row, session, token, net, socket, auth, state, retrying, renewing,
                   list, loaded, next, view, seen, met, incidents>>

\* The server stops between the commit and the event.
Crash(e) ==
    /\ Incident
    /\ outgoing' = outgoing \ {e}
    /\ excused' = excused \union {e.note}
    /\ UNCHANGED <<row, clientVars, list, loaded, next, view, seen, met>>

\* NotificationsService.list: the page before the cursor, the newest first.
Before(n) == list.before = 0 \/ n < list.before
Page == {n \in Kept : Before(n) /\ Cardinality({m \in Kept : Before(m) /\ m > n}) < Limit}

ListRead ==
    /\ list.stage = "asked"
    /\ list' = [list EXCEPT !.stage = "read", !.rows = [n \in Page |-> row[n]],
                              !.next = IF \E n \in Kept \ Page : Before(n)
                                       THEN CHOOSE n \in Page : \A m \in Page : n <= m ELSE 0]
    /\ UNCHANGED <<serverVars, clientVars, loaded, next, view, seen, met, excused, incidents>>

-----------------------------------------------------------------------------
(* The connection.                                                         *)

\* stop: no socket, no listeners of the window, and nothing that would start again.
Stop ==
    /\ socket' = "none" /\ auth' = "none" /\ state' = "stopped" /\ retrying' = FALSE
    /\ inbox' = <<>>

\* connect(), which does nothing to a socket that is connected.
Dial == socket' = IF socket = "connected" THEN "connected" ELSE "connecting"

\* Sign-in, or the session found at start: the effects of the session's status start
\* the client and load the first page.  A start without network leaves no listener.
SignIn ==
    /\ ~session
    /\ session' = TRUE /\ token' = "fresh"
    /\ IF net THEN socket' = "connecting" /\ auth' = "fresh" /\ state' = "connecting"
              ELSE state' = "offline" /\ UNCHANGED <<socket, auth>>
    /\ list' = [NoPage EXCEPT !.stage = "asked"]
    /\ UNCHANGED <<serverVars, net, retrying, renewing, inbox, loaded, next, view, seen,
                   met, excused, incidents>>

\* The session ends: the inbox is emptied and its request is disregarded.
Forget ==
    /\ session' = FALSE /\ token' = "none"
    /\ list' = NoPage /\ loaded' = FALSE /\ next' = 0
    /\ view' = [n \in Notes |-> "none"] /\ seen' = {} /\ met' = FALSE

SignOut ==
    /\ session
    /\ Forget /\ Stop
    /\ UNCHANGED <<serverVars, net, renewing, excused, incidents>>

\* The server accepts a live token: handleConnect.  The answer to the notifications.sync
\* it sends is not awaited by anyone.
Connected ==
    /\ socket = "connecting" /\ net /\ auth = "fresh"
    /\ socket' = "connected" /\ state' = "connected" /\ retrying' = FALSE
    /\ met' = TRUE
    /\ UNCHANGED <<serverVars, session, token, net, auth, renewing, inbox,
                   list, loaded, next, view, seen, excused, incidents>>

\* handleConnectError: one renewal, until the next connection.
Refused ==
    /\ socket = "connecting" /\ net /\ auth # "fresh"
    /\ socket' = "idle" /\ state' = "reconnecting"
    /\ IF retrying THEN UNCHANGED <<retrying, renewing, token>>
       ELSE retrying' = TRUE /\ renewing' = TRUE /\ token' = "none"
    /\ UNCHANGED <<serverVars, session, net, auth, inbox, inboxVars, incidents>>

\* The renewal: a token; no session any more; or an error, after which the client stops
\* under a session that goes on.
Renewed ==
    /\ renewing /\ renewing' = FALSE /\ session
    /\ token' = "fresh"
    /\ IF socket = "none" THEN Stop
       ELSE auth' = "fresh" /\ Dial /\ UNCHANGED <<state, retrying, inbox>>
    /\ UNCHANGED <<serverVars, session, net, inboxVars, incidents>>

RenewalRefused ==
    /\ renewing /\ renewing' = FALSE
    /\ Forget /\ Stop
    /\ UNCHANGED <<serverVars, net, excused, incidents>>

RenewalFails ==
    /\ Incident
    /\ renewing /\ renewing' = FALSE
    /\ Stop
    /\ UNCHANGED <<serverVars, session, token, net, inboxVars>>

\* The connection breaks: handleDisconnect; the socket connects again by itself.
Break ==
    /\ Incident
    /\ socket = "connected"
    /\ socket' = "connecting" /\ inbox' = <<>>
    /\ state' = IF net THEN "reconnecting" ELSE "offline"
    /\ UNCHANGED <<serverVars, session, token, net, auth, retrying, renewing, inboxVars>>

\* handleOffline closes the socket.
Offline ==
    /\ Incident
    /\ net /\ net' = FALSE
    /\ IF socket = "none" THEN UNCHANGED <<socket, state, inbox>>
       ELSE socket' = "idle" /\ state' = "offline" /\ inbox' = <<>>
    /\ UNCHANGED <<serverVars, session, token, auth, retrying, renewing, inboxVars>>

\* handleOnline: with the token there is now.
Resume ==
    /\ auth' = token /\ state' = "connecting" /\ Dial
    /\ UNCHANGED <<session, token, retrying, renewing, inbox>>

Online ==
    /\ ~net /\ net' = TRUE
    /\ IF socket = "none" THEN UNCHANGED <<session, token, retrying, renewing, inbox, auth, state, socket>>
       ELSE Resume
    /\ UNCHANGED <<serverVars, inboxVars, incidents>>

\* handleVisibilityChange, when the window is shown again.
Visible ==
    /\ socket # "none"
    /\ Resume
    /\ UNCHANGED <<serverVars, net, inboxVars, incidents>>

\* The access token expires; a request of the application renews it.
Expire ==
    /\ Incident
    /\ token = "fresh" /\ token' = "stale"
    /\ auth' = IF auth = "fresh" THEN "stale" ELSE auth
    /\ UNCHANGED <<serverVars, session, net, socket, state, retrying, renewing, inbox, inboxVars>>

Refresh ==
    /\ session /\ token # "fresh" /\ token' = "fresh"
    /\ UNCHANGED <<serverVars, session, net, socket, auth, state, retrying, renewing, inbox,
                   inboxVars, incidents>>

-----------------------------------------------------------------------------
(* The inbox.                                                              *)

\* The first page replaces what is shown, a further one is appended to it.
ListArrives ==
    /\ list.stage = "read"
    /\ LET rows == list.rows IN
       /\ view' = [n \in Notes |->
             IF n \in DOMAIN rows /\ (~loaded \/ n \notin Shown) THEN rows[n]
             ELSE IF loaded THEN view[n] ELSE "none"]
       /\ seen' = IF loaded THEN seen ELSE DOMAIN rows
       /\ excused' = excused \union {n \in Shown : view'[n] = "none"}
                             \union {n \in DOMAIN rows : rows[n] # row[n]}
    /\ next' = list.next
    /\ list' = NoPage /\ loaded' = TRUE
    /\ UNCHANGED <<serverVars, clientVars, met, incidents>>

ListFails ==
    /\ Incident
    /\ list.stage # "none" /\ list' = NoPage
    /\ UNCHANGED <<serverVars, clientVars, loaded, next, view, seen, met, excused>>

LoadMore ==
    /\ next # 0 /\ list = NoPage
    /\ list' = [NoPage EXCEPT !.stage = "asked", !.before = next]
    /\ UNCHANGED <<serverVars, clientVars, loaded, next, view, seen, met, excused, incidents>>

\* The handlers of notification.created and notification.updated.
Receive ==
    /\ inbox # <<>> /\ inbox' = Tail(inbox)
    /\ LET e == Head(inbox) IN
       CASE e.kind = "created" /\ e.note \notin seen ->
               seen' = seen \union {e.note} /\ view' = [view EXCEPT ![e.note] = e.as]
         [] e.kind = "updated" /\ e.as = "dismissed" ->
               view' = [view EXCEPT ![e.note] = "none"] /\ UNCHANGED seen
         [] e.kind = "updated" /\ e.as # "dismissed" /\ e.note \in Shown ->
               view' = [view EXCEPT ![e.note] = e.as] /\ UNCHANGED seen
         [] OTHER -> UNCHANGED <<seen, view>>
    /\ UNCHANGED <<serverVars, session, token, net, socket, auth, state, retrying, renewing,
                   list, loaded, next, met, excused, incidents>>

\* markRead and dismiss of the inbox; the answer shows what the event will.
Here(n, as) ==
    /\ n \in Shown \intersect Kept /\ view[n] # as
    /\ Change(n, as)
    /\ view' = [view EXCEPT ![n] = IF as = "dismissed" THEN "none" ELSE as]
    /\ UNCHANGED <<clientVars, list, loaded, next, seen, met, excused, incidents>>

-----------------------------------------------------------------------------
Server ==
    \/ \E n \in Notes : Mention(n) \/ Decision(n)
    \/ \E n \in Notes, as \in {"read", "dismissed"} : Elsewhere(n, as) \/ Here(n, as)
    \/ \E e \in outgoing : Publish(e) \/ Crash(e)
    \/ ListRead

Connection ==
    \/ SignIn \/ SignOut \/ Connected \/ Refused \/ Renewed \/ RenewalRefused \/ RenewalFails
    \/ Break \/ Offline \/ Online \/ Visible \/ Expire \/ Refresh

Next == Server \/ Connection \/ ListArrives \/ ListFails \/ LoadMore \/ Receive

Spec == Init /\ [][Next]_vars

-----------------------------------------------------------------------------
(* Properties.                                                             *)

\* An inbox at rest: connected, its pages loaded, and nothing on the way to it.
AtRest ==
    /\ session /\ loaded /\ next = 0 /\ list = NoPage
    /\ socket = "connected" /\ outgoing = {} /\ inbox = <<>>

\* The connection reconciles when it resumes, as the desktop's README says of it: an
\* inbox at rest shows the notifications there are, though the socket was not connected
\* when they were published.
InboxResumes ==
    AtRest => \A n \in Made \ excused :
                 view[n] = IF row[n] = "dismissed" THEN "none" ELSE row[n]
=============================================================================
