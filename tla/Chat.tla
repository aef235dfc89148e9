--------------------------------- MODULE Chat ---------------------------------
(***************************************************************************)
(* One chat channel: its messages in the database, the commands that send, *)
(* edit and delete them, the events the gateway sends to the sockets in    *)
(* the channel's room, and the desktop conversations that build their view *)
(* from events, from answers to their own commands and from lists.         *)
(*                                                                         *)
(* Messages are numbered by created_at, the start of the transaction that  *)
(* creates them.  A version stands for the text of a message: it goes up   *)
(* with every edit, and the last one is the tombstone.  A command is the   *)
(* author's clientCommandId.  Older pages (loadOlder) are not modelled.    *)
(***************************************************************************)
EXTENDS Naturals, Sequences, FiniteSets, Bags

CONSTANTS
    Readers,       \* desktops with the conversation open
    Handlers,      \* executions of commands; each serves one request
    Commands,      \* client command identifiers
    PageSize,      \* how many messages a list holds (limit)
    MaxMessages,   \* bound on the messages of the channel
    Tombstone,     \* the version of a deleted message; edits stop below it
    MaxIncidents,  \* bound on the incidents: failures and broken connections
    None           \* no reader, no command

ASSUME ChatAssumption ==
    /\ MaxMessages \in Nat /\ MaxIncidents \in Nat
    /\ Tombstone \in Nat /\ Tombstone > 1
    /\ PageSize \in Nat \ {0}
    /\ None \notin Readers \union Commands

VARIABLES
    row,        \* chat_messages: the version of each message, 0 before it exists
    command,    \* chat_messages.client_command_id
    job,        \* the command a handler executes
    announced,  \* history: how many times a message was published as created
    online,     \* the conversation's socket is connected
    joining,    \* a chat.join of it is on the way
    room,       \* its socket is in the room of the channel
    inbox,      \* events on the way to it
    loaded,     \* its first page has arrived
    view,       \* the version it shows of each message, 0 for none
    asked,      \* its lists not yet read by the server
    lists,      \* lists on the way to it, a bag
    excused,    \* history: messages it may show old, an event of theirs being lost
                \* or applied out of order
    missed,     \* history: messages older than the page a list was read from, while it
                \* did not show them as they were
    incidents   \* how many incidents there were

serverVars == <<row, command, job, announced>>
socketVars == <<online, joining, room, inbox>>
viewVars   == <<loaded, view, asked, lists, excused, missed>>
vars == <<serverVars, socketVars, viewVars, incidents>>

Messages == 1..MaxMessages
Joined   == [msg |-> 0, ver |-> 0]     \* the event chat.joined
Idle     == [op |-> "none", pc |-> "idle", by |-> None, msg |-> 0, cmd |-> None,
             ver |-> 0, replayed |-> FALSE]
Ended    == [Idle EXCEPT !.pc = "ended"]

Existing == {m \in Messages : row[m] # 0}

\* The channel is as earlier commands left it.
Init ==
    /\ row \in [Messages -> 0..Tombstone] /\ \A m \in Existing, n \in Messages : n < m => n \in Existing
    /\ command \in [Messages -> Commands \union {None}]
    /\ \A m \in Messages : command[m] = None <=> m \notin Existing
    /\ \A m, n \in Existing : command[m] = command[n] => m = n
    /\ job = [h \in Handlers |-> Idle]
    /\ announced = [m \in Messages |-> IF m \in Existing THEN 1 ELSE 0]
    /\ online = [r \in Readers |-> FALSE]
    /\ joining = [r \in Readers |-> FALSE]
    /\ room = [r \in Readers |-> FALSE]
    /\ inbox = [r \in Readers |-> <<>>]
    /\ loaded = [r \in Readers |-> FALSE]
    /\ view = [r \in Readers |-> [m \in Messages |-> 0]]
    /\ asked = [r \in Readers |-> 1]
    /\ lists = [r \in Readers |-> EmptyBag]
    /\ excused = [r \in Readers |-> {}]
    /\ missed = [r \in Readers |-> {}]
    /\ incidents = 0

Incident == incidents < MaxIncidents /\ incidents' = incidents + 1

Ask(h, j) == job[h] = Idle /\ job' = [job EXCEPT ![h] = j]
Goto(h, p) == job' = [job EXCEPT ![h].pc = p]
Done(h)    == job' = [job EXCEPT ![h] = Ended]

-----------------------------------------------------------------------------
(* The server: REST handlers and gateway commands share these services.    *)

\* sendMessage, of a desktop or of any other client; a client may repeat a command.
Send(h, c, by) ==
    /\ Ask(h, [Idle EXCEPT !.op = "send", !.pc = "check", !.cmd = c, !.by = by])
    /\ UNCHANGED <<row, command, announced, socketVars, viewVars, incidents>>

Edit(h, m, by) ==
    /\ m \in Existing /\ row[m] + 1 # Tombstone            \* bound on the edits
    /\ Ask(h, [Idle EXCEPT !.op = "edit", !.pc = "update", !.msg = m, !.by = by])
    /\ UNCHANGED <<row, command, announced, socketVars, viewVars, incidents>>

Delete(h, m, by) ==
    /\ m \in Existing
    /\ Ask(h, [Idle EXCEPT !.op = "delete", !.pc = "remove", !.msg = m, !.by = by])
    /\ UNCHANGED <<row, command, announced, socketVars, viewVars, incidents>>

\* Messages created, and those of the transactions that have begun.
Begun == Existing \union {job[g].msg : g \in {g \in Handlers : job[g].pc = "insert"}}

\* createMessage: the message of this command, if there is one already ...
CreateCheck(h) ==
    /\ job[h].pc = "check"
    /\ LET same == {m \in Existing : command[m] = job[h].cmd} IN
       IF same = {}
       THEN \E m \in Messages \ Begun :
               /\ m - 1 \in Begun \union {0} /\ \A n \in Begun : n < m
               /\ job' = [job EXCEPT ![h].pc = "insert", ![h].msg = m]
       ELSE \E m \in same : job' = [job EXCEPT ![h].pc = "reread", ![h].msg = m,
                                               ![h].cmd = None, ![h].replayed = TRUE]
    /\ UNCHANGED <<row, command, announced, socketVars, viewVars, incidents>>

\* ... or a new one; chat_messages_author_command_unique refuses a second.
Taken_Never(c) == FALSE                \* mutated: no unique index
Taken(c) == \E m \in Existing : command[m] = c

CreateInsert(h) ==
    /\ job[h].pc = "insert"
    /\ IF Taken(job[h].cmd) THEN Done(h) /\ UNCHANGED <<row, command>>
       ELSE /\ row' = [row EXCEPT ![job[h].msg] = 1]
            /\ command' = [command EXCEPT ![job[h].msg] = job[h].cmd]
            /\ job' = [job EXCEPT ![h].pc = "reread", ![h].cmd = None]
    /\ UNCHANGED <<announced, socketVars, viewVars, incidents>>

\* updateMessage: nothing to update once it is deleted.
UpdateMessage(h) ==
    /\ job[h].pc = "update"
    /\ IF row[job[h].msg] # Tombstone
       THEN /\ row[job[h].msg] + 1 < Tombstone             \* bound on the edits
            /\ row' = [row EXCEPT ![job[h].msg] = @ + 1]
            /\ Goto(h, "reread")
       ELSE Done(h) /\ UNCHANGED row
    /\ UNCHANGED <<command, announced, socketVars, viewVars, incidents>>

DeleteMessage(h) ==
    /\ job[h].pc = "remove"
    /\ IF row[job[h].msg] # Tombstone
       THEN row' = [row EXCEPT ![job[h].msg] = Tombstone] /\ Goto(h, "reread")
       ELSE Done(h) /\ UNCHANGED row
    /\ UNCHANGED <<command, announced, socketVars, viewVars, incidents>>

\* findMessage after the transaction: what will be answered and published.
Reread(h) ==
    /\ job[h].pc = "reread"
    /\ job' = [job EXCEPT ![h].pc = "publish", ![h].ver = row[job[h].msg]]
    /\ UNCHANGED <<row, command, announced, socketVars, viewVars, incidents>>

\* publishMessageCreated or publishMessageUpdated, to the sockets in the room.
Silent_Never(j) == FALSE               \* mutated: a replayed command is published again
Silent(j) == j.replayed

Publish(h) ==
    /\ job[h].pc = "publish"
    /\ LET j == job[h]
           e == [msg |-> j.msg, ver |-> j.ver] IN
       /\ inbox' = IF Silent(j) THEN inbox
                   ELSE [r \in Readers |-> IF room[r] THEN Append(inbox[r], e) ELSE inbox[r]]
       /\ announced' = IF j.op = "send" /\ ~Silent(j)
                       THEN [announced EXCEPT ![j.msg] = @ + 1] ELSE announced
       /\ IF j.by = None THEN Done(h) ELSE job' = [job EXCEPT ![h].pc = "answer", ![h].replayed = FALSE]
    /\ UNCHANGED <<row, command, online, joining, room, viewVars, incidents>>

\* The server stops, or a statement fails: what was committed is not published.
Fail(h) ==
    /\ Incident
    /\ job[h].pc \notin {"idle", "ended"}
    /\ Done(h)
    /\ excused' = IF job[h].pc \in {"reread", "publish"}
                  THEN [r \in Readers |-> excused[r] \union {job[h].msg}] ELSE excused
    /\ UNCHANGED <<row, command, announced, socketVars, loaded, view, asked, lists, missed>>

\* listMessages without a cursor: the newest messages, a page of them.
Newest == {m \in Existing : Cardinality({n \in Existing : n > m}) < PageSize}
Page   == [m \in Messages |-> IF m \in Newest THEN row[m] ELSE 0]

ListRead(r) ==
    /\ asked[r] > 0
    /\ asked' = [asked EXCEPT ![r] = @ - 1]
    /\ lists' = [lists EXCEPT ![r] = @ (+) SetToBag({Page})]
    /\ missed' = [missed EXCEPT ![r] = @ \union {m \in Existing \ Newest : view[r][m] # row[m]}]
    /\ UNCHANGED <<serverVars, socketVars, loaded, view, excused, incidents>>

\* joinChannel of the gateway: into the room, then chat.joined.
JoinChannel(r) ==
    /\ joining[r]
    /\ joining' = [joining EXCEPT ![r] = FALSE]
    /\ room' = [room EXCEPT ![r] = TRUE]
    /\ inbox' = [inbox EXCEPT ![r] = Append(@, Joined)]
    /\ UNCHANGED <<serverVars, online, viewVars, incidents>>

\* The gateway refuses it: nobody tries again before the next connection.
JoinRefused(r) ==
    /\ Incident
    /\ joining[r]
    /\ joining' = [joining EXCEPT ![r] = FALSE]
    /\ UNCHANGED <<serverVars, online, room, inbox, viewVars>>

-----------------------------------------------------------------------------
(* The conversation on the desktop.                                        *)

\* Versions that arrive replace what is shown.  A message that goes back is excused
\* until it is current again.
Show(r, shown) ==
    /\ view' = [view EXCEPT ![r] = [m \in Messages |-> IF m \in DOMAIN shown THEN shown[m] ELSE @[m]]]
    /\ excused' = [excused EXCEPT ![r] =
           (@ \ {m \in DOMAIN shown : shown[m] = row[m]})
              \union {m \in DOMAIN shown : shown[m] < view[r][m] /\ shown[m] < row[m]}]
    /\ missed' = [missed EXCEPT ![r] = @ \ {m \in DOMAIN shown : shown[m] = row[m]}]

\* mergeMessage: what arrives last is shown.
Merge(r, m, v) == Show(r, [n \in {m} |-> v])

\* A list when the socket says it is in the room: nothing published before is missed.
Relist_Never(r) == asked[r]            \* mutated: nothing is loaded when chat.joined comes
Relist(r) == asked[r] + 1

Receive(r) ==
    /\ inbox[r] # <<>>
    /\ inbox' = [inbox EXCEPT ![r] = Tail(@)]
    /\ LET e == Head(inbox[r]) IN
       IF e = Joined
       THEN asked' = [asked EXCEPT ![r] = Relist(r)] /\ UNCHANGED <<view, excused, missed>>
       ELSE Merge(r, e.msg, e.ver) /\ UNCHANGED asked
    /\ UNCHANGED <<serverVars, online, joining, room, loaded, lists, incidents>>

\* The answer to the conversation's own command; a deletion leaves a tombstone.
Answer(h) ==
    /\ job[h].pc = "answer"
    /\ LET j == job[h] IN
       \/ j.op # "delete" /\ Merge(j.by, j.msg, j.ver)
       \/ j.op = "delete" /\ view[j.by][j.msg] # 0 /\ Merge(j.by, j.msg, Tombstone)
       \/ j.op = "delete" /\ view[j.by][j.msg] = 0 /\ UNCHANGED <<view, excused, missed>>
    /\ Done(h)
    /\ UNCHANGED <<row, command, announced, socketVars, loaded, asked, lists, incidents>>

\* The subscription effect, when the page has loaded or the connection's state changed.
Subscribe(r) ==
    /\ joining' = [joining EXCEPT ![r] = TRUE]
    /\ asked' = [asked EXCEPT ![r] = @ + 1]

\* A list arrives: the first is the page, later ones are reconciled into the view.
ListArrives(r, rows) ==
    /\ BagIn(rows, lists[r])
    /\ Show(r, [m \in {n \in Messages : rows[n] # 0} |-> rows[m]])
    /\ lists' = [lists EXCEPT ![r] = @ (-) SetToBag({rows})]
    /\ loaded' = [loaded EXCEPT ![r] = TRUE]
    /\ IF ~loaded[r] /\ online[r] THEN Subscribe(r) ELSE UNCHANGED <<joining, asked>>
    /\ UNCHANGED <<serverVars, online, room, inbox, incidents>>

\* A list that fails is not asked for again.
ListFails(r) ==
    /\ Incident
    /\ asked[r] > 0
    /\ asked' = [asked EXCEPT ![r] = @ - 1]
    /\ excused' = [excused EXCEPT ![r] = @ \union Existing]
    /\ UNCHANGED <<serverVars, socketVars, loaded, view, lists, missed>>

\* handleConnect joins the channel, and so does the effect: one join stands for both,
\* the second only lists once more.
Connect(r) ==
    /\ ~online[r]
    /\ online' = [online EXCEPT ![r] = TRUE]
    /\ IF loaded[r] THEN Subscribe(r) ELSE UNCHANGED <<joining, asked>>
    /\ UNCHANGED <<serverVars, room, inbox, loaded, view, lists, excused, missed, incidents>>

Disconnect(r) ==
    /\ Incident
    /\ online[r]
    /\ online' = [online EXCEPT ![r] = FALSE]
    /\ room' = [room EXCEPT ![r] = FALSE]
    /\ joining' = [joining EXCEPT ![r] = FALSE]
    /\ inbox' = [inbox EXCEPT ![r] = <<>>]
    /\ UNCHANGED <<serverVars, viewVars>>

-----------------------------------------------------------------------------
Execute(h) ==
    \/ CreateCheck(h) \/ CreateInsert(h) \/ UpdateMessage(h) \/ DeleteMessage(h)
    \/ Reread(h) \/ Publish(h) \/ Answer(h) \/ Fail(h)

Conversation(r) ==
    \/ ListRead(r) \/ ListFails(r) \/ JoinChannel(r) \/ JoinRefused(r)
    \/ Receive(r) \/ Connect(r) \/ Disconnect(r)
    \/ \E rows \in BagToSet(lists[r]) : ListArrives(r, rows)

Next ==
    \/ \E h \in Handlers : Execute(h)
    \/ \E h \in Handlers, by \in Readers \union {None} :
          \/ \E c \in Commands : Send(h, c, by)
          \/ \E m \in Messages : Edit(h, m, by) \/ Delete(h, m, by)
    \/ \E r \in Readers : Conversation(r)

Spec == Init /\ [][Next]_vars

-----------------------------------------------------------------------------
(* Properties.                                                             *)

Version == 0..Tombstone
JobType == [op : {"none", "send", "edit", "delete"},
            pc : {"idle", "ended", "check", "insert", "update", "remove", "reread", "publish", "answer"},
            by : Readers \union {None}, msg : Messages \union {0},
            cmd : Commands \union {None}, ver : Version, replayed : BOOLEAN]

\* Every variable has its type.
TypeOK ==
    /\ row \in [Messages -> Version]
    /\ command \in [Messages -> Commands \union {None}]
    /\ job \in [Handlers -> JobType]
    /\ announced \in [Messages -> Nat]
    /\ online \in [Readers -> BOOLEAN] /\ room \in [Readers -> BOOLEAN]
    /\ joining \in [Readers -> BOOLEAN] /\ asked \in [Readers -> Nat]
    /\ inbox \in [Readers -> Seq([msg : Messages \union {0}, ver : Version])]
    /\ loaded \in [Readers -> BOOLEAN]
    /\ view \in [Readers -> [Messages -> Version]]
    /\ \A r \in Readers : IsABag(lists[r]) /\ BagToSet(lists[r]) \subseteq [Messages -> Version]
    /\ excused \in [Readers -> SUBSET Messages] /\ missed \in [Readers -> SUBSET Messages]
    /\ incidents \in 0..MaxIncidents

\* However a client repeats a command, and however the repetitions overlap, there is one
\* message of it (createMessage and its unique index).
OneMessagePerCommand ==
    \A m, n \in Existing : command[m] = command[n] => m = n

\* Nobody is told twice that a message was created: a repetition is answered but not
\* published.
AnnouncedOnce == \A m \in Messages : announced[m] <= 1

\* A conversation at rest: its socket in the room, nothing on the way to it, and no
\* change committed that is yet to be published.
AtRest(r) ==
    /\ loaded[r] /\ online[r] /\ room[r]
    /\ ~joining[r] /\ inbox[r] = <<>> /\ asked[r] = 0 /\ lists[r] = EmptyBag
    /\ \A h \in Handlers : job[h].pc \notin {"reread", "publish"}

\* A conversation at rest shows the messages as the database has them, though it joins
\* the room, loads lists and receives events in any order, and loses its connection.  Only
\* a lost event, and one applied after a newer version, leave a message of the newest page
\* as it was; an older one stays as it was also if it changed, or came, while the
\* conversation was out of the room and no list it read since went back so far.
ViewsCatchUp ==
    \A r \in Readers : AtRest(r) =>
        \A m \in Existing \ (excused[r] \union (missed[r] \ Newest)) : view[r][m] = row[m]
=============================================================================
