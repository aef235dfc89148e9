----------------------------- MODULE ChatProofs -----------------------------
(***************************************************************************)
(* What a repeated command comes to, for any number of desktops, servers,  *)
(* commands and messages: one message, announced once.  ServerInv is       *)
(* inductive: who is still to announce a message is the only one to do so, *)
(* and the unique index makes the command of a new message a new one.      *)
(***************************************************************************)
EXTENDS Chat, FiniteSetTheorems, TLAPS

\* The types of what the server keeps.
ServerTypes ==
  /\ row \in [Messages -> Version]
  /\ command \in [Messages -> Commands \union {None}]
  /\ job \in [Handlers -> JobType]
  /\ announced \in [Messages -> Nat]

\* The handler is still to publish that m was created.
Announces(h, m) ==
  /\ job[h].op = "send" /\ job[h].pc \in {"reread", "publish"}
  /\ job[h].msg = m /\ ~job[h].replayed

\* A handler past its lookup has a message, and only a command to send announces one.
JobInv ==
  \A h \in Handlers :
    /\ job[h].pc \in {"update", "remove", "reread", "publish", "answer"} =>
         job[h].msg \in Messages /\ row[job[h].msg] # 0
    /\ job[h].pc \in {"update", "remove"} => job[h].op # "send"

AnnounceInv ==
  \A m \in Messages :
    /\ announced[m] <= 1
    /\ row[m] = 0 => announced[m] = 0
    /\ \A h \in Handlers : Announces(h, m) => announced[m] = 0
    /\ \A g, h \in Handlers : Announces(g, m) /\ Announces(h, m) => g = h

\* A transaction that is to create a message has the number of no other.
InsertInv ==
  \A h \in Handlers : job[h].pc = "insert" =>
    /\ job[h].msg \in Messages /\ row[job[h].msg] = 0
    /\ \A g \in Handlers \ {h} : job[g].pc = "insert" => job[g].msg # job[h].msg

ServerInv == ServerTypes /\ JobInv /\ InsertInv /\ AnnounceInv /\ OneMessagePerCommand

LEMMA IdleIsJob == Idle \in JobType /\ Idle.pc = "idle"
  BY ChatAssumption DEF Idle, JobType, Version

LEMMA EndedIsJob == Ended \in JobType /\ Ended.pc = "ended"
  BY IdleIsJob DEF Ended, JobType

\* A handler goes on or ends, and the rows stay or grow.
LEMMA HandlerFrame ==
  ASSUME ServerInv, NEW h \in Handlers, NEW j \in JobType,
         job' = [job EXCEPT ![h] = j],
         row' \in [Messages -> Version],
         \A m \in Messages : row'[m] = 0 <=> row[m] = 0,
         UNCHANGED <<command, announced>>,
         j.pc \in {"update", "remove", "reread", "publish", "answer"} =>
           j.msg \in Messages /\ row'[j.msg] # 0,
         j.pc \in {"update", "remove"} => j.op # "send",
         j.pc = "insert" =>
           /\ j.msg \in Messages /\ row[j.msg] = 0
           /\ \A g \in Handlers \ {h} : job[g].pc = "insert" => job[g].msg # j.msg,
         \A m \in Messages : Announces(h, m)' => Announces(h, m)
  PROVE  ServerInv'
  <1> USE DEF ServerInv
  <1>1. ServerTypes'
    BY DEF ServerTypes
  <1>2. job'[h] = j /\ \A g \in Handlers \ {h} : job'[g] = job[g]
    BY DEF ServerTypes
  <1>3. JobInv'
    BY <1>2 DEF JobInv
  <1>4. \A g \in Handlers, m \in Messages : Announces(g, m)' => Announces(g, m)
    BY <1>2 DEF Announces
  <1>5. AnnounceInv'
    BY <1>4 DEF AnnounceInv
  <1>6. OneMessagePerCommand'
    BY DEF OneMessagePerCommand, Existing
  <1>7. InsertInv'
    BY <1>2 DEF InsertInv
  <1>8. QED
    BY <1>1, <1>3, <1>5, <1>6, <1>7

\* The steps of the server.
LEMMA ExecuteStep ==
  ASSUME ServerInv, NEW h \in Handlers, Execute(h)
  PROVE  ServerInv'
  <1> USE DEF ServerInv
  <1>0. /\ job[h] \in JobType
        /\ job[h] = [op |-> job[h].op, pc |-> job[h].pc, by |-> job[h].by, msg |-> job[h].msg,
                     cmd |-> job[h].cmd, ver |-> job[h].ver, replayed |-> job[h].replayed]
        /\ Tombstone # 0 /\ Tombstone \in Version
    BY ChatAssumption DEF ServerTypes, JobType, Version
  <1>1. ASSUME Done(h), UNCHANGED <<row, command, announced>> PROVE ServerInv'
    <2>1. job'[h] = Ended
      BY <1>1 DEF Done, ServerTypes
    <2>2. \A m \in Messages : ~Announces(h, m)'
      BY <2>1, EndedIsJob DEF Announces
    <2>3. QED
      BY <1>1, <2>2, EndedIsJob, HandlerFrame DEF Done, ServerTypes
  <1>2. ASSUME CreateCheck(h) PROVE ServerInv'
    <2>1. UNCHANGED <<row, command, announced>> /\ job[h].pc = "check"
      BY <1>2 DEF CreateCheck
    <2>2. ASSUME NEW m \in Messages \ Begun, job' = [job EXCEPT ![h].pc = "insert", ![h].msg = m]
          PROVE  ServerInv'
      <3> DEFINE j == [job[h] EXCEPT !.pc = "insert", !.msg = m]
      <3>1. j \in JobType /\ j.pc = "insert" /\ j.msg = m /\ job' = [job EXCEPT ![h] = j]
        BY <1>0, <2>2 DEF JobType
      <3>2. \A n \in Messages : ~Announces(h, n)'
        BY <3>1 DEF Announces, ServerTypes
      <3>3. row[m] = 0 /\ \A g \in Handlers : job[g].pc = "insert" => job[g].msg # m
        BY DEF Begun, Existing
      <3> HIDE DEF j
      <3>4. QED
        BY <2>1, <3>1, <3>2, <3>3, HandlerFrame DEF ServerTypes
    <2>3. CASE \E m \in Existing : job' = [job EXCEPT ![h].pc = "reread", ![h].msg = m,
                                                      ![h].cmd = None, ![h].replayed = TRUE]
      <3>1. PICK m \in Existing : job' = [job EXCEPT ![h].pc = "reread", ![h].msg = m,
                                                     ![h].cmd = None, ![h].replayed = TRUE]
        BY <2>3
      <3> DEFINE j == [job[h] EXCEPT !.pc = "reread", !.msg = m, !.cmd = None, !.replayed = TRUE]
      <3>2. /\ j \in JobType /\ j.pc = "reread" /\ j.msg = m /\ j.replayed = TRUE
            /\ job' = [job EXCEPT ![h] = j]
        BY <1>0, <3>1 DEF JobType, Existing, ServerTypes
      <3>3. \A n \in Messages : ~Announces(h, n)'
        BY <3>2 DEF Announces, ServerTypes
      <3>4. QED
        BY <2>1, <3>2, <3>3, HandlerFrame DEF ServerTypes, Existing
    <2>4. QED
      BY <1>2, <2>2, <2>3 DEF CreateCheck
  <1>3. ASSUME CreateInsert(h) PROVE ServerInv'
    <2>1. CASE Taken(job[h].cmd)
      BY <1>1, <1>3, <2>1 DEF CreateInsert
    <2>2. CASE ~Taken(job[h].cmd)
      <3> DEFINE m == job[h].msg
                 j == [job[h] EXCEPT !.pc = "reread", !.cmd = None]
      <3>1. /\ row' = [row EXCEPT ![m] = 1]
            /\ command' = [command EXCEPT ![m] = job[h].cmd]
            /\ job' = [job EXCEPT ![h].pc = "reread", ![h].cmd = None]
            /\ job[h].pc = "insert"
        BY <1>3, <2>2 DEF CreateInsert
      <3>2. /\ j \in JobType /\ j.pc = "reread" /\ j.msg = m /\ job' = [job EXCEPT ![h] = j]
            /\ job[h].cmd \in Commands \union {None}
        BY <1>0, <3>1 DEF JobType, ServerTypes
      <3>3. UNCHANGED announced /\ row[m] = 0 /\ 1 \in Version /\ m \in Messages
        <4>1. UNCHANGED announced
          BY <1>3 DEF CreateInsert
        <4>2. row[m] = 0 /\ m \in Messages
          BY <3>1 DEF InsertInv
        <4>3. 1 \in Version
          BY ChatAssumption DEF Version
        <4>4. QED
          BY <4>1, <4>2, <4>3
      <3>4. ServerTypes'
        BY <3>1, <3>2, <3>3 DEF ServerTypes
      <3>5. job'[h] = j /\ \A g \in Handlers \ {h} : job'[g] = job[g]
        BY <3>2 DEF ServerTypes
      <3>6. JobInv'
        BY <3>1, <3>2, <3>3, <3>5 DEF JobInv, ServerTypes
      <3>7. \A g \in Handlers \ {h}, n \in Messages : (Announces(g, n)' <=> Announces(g, n)) /\ ~Announces(g, m)
        BY <3>3, <3>5 DEF Announces, JobInv
      <3>8. \A n \in Messages : Announces(h, n)' => n = m
        BY <3>2, <3>5 DEF Announces
      <3>9. AnnounceInv'
        BY <3>1, <3>3, <3>7, <3>8 DEF AnnounceInv, ServerTypes
      <3>10. OneMessagePerCommand'
        BY <2>2, <3>1, <3>3 DEF OneMessagePerCommand, Existing, Taken, ServerTypes
      <3>11. InsertInv'
        BY <3>1, <3>2, <3>3, <3>5 DEF InsertInv, ServerTypes
      <3>12. QED
        BY <3>4, <3>6, <3>9, <3>10, <3>11
    <2>3. QED
      BY <2>1, <2>2
  <1>4. ASSUME UpdateMessage(h) \/ DeleteMessage(h) PROVE ServerInv'
    <2>1. /\ UNCHANGED <<command, announced>> /\ job[h].pc \in {"update", "remove"}
          /\ (Done(h) /\ UNCHANGED row) \/ Goto(h, "reread")
      BY <1>4 DEF UpdateMessage, DeleteMessage
    <2>2. CASE Done(h) /\ UNCHANGED row
      BY <1>1, <2>1, <2>2
    <2>3. CASE Goto(h, "reread")
      <3> DEFINE j == [job[h] EXCEPT !.pc = "reread"]
      <3>1. /\ j \in JobType /\ j.pc = "reread" /\ j.msg = job[h].msg /\ j.op = job[h].op
            /\ job' = [job EXCEPT ![h] = j]
        BY <1>0, <2>3 DEF Goto, JobType
      <3>2. job[h].msg \in Messages /\ row[job[h].msg] # 0 /\ job[h].op # "send"
        BY <2>1 DEF JobInv
      <3>3. row' \in [Messages -> Version] /\ \A m \in Messages : row'[m] = 0 <=> row[m] = 0
        <4>1. CASE UNCHANGED row
          BY <4>1 DEF ServerTypes
        <4>2. CASE row' = [row EXCEPT ![job[h].msg] = Tombstone]
          BY <1>0, <3>2, <4>2 DEF ServerTypes
        <4>3. CASE row[job[h].msg] + 1 < Tombstone /\ row' = [row EXCEPT ![job[h].msg] = @ + 1]
          BY <1>0, <3>2, <4>3, ChatAssumption DEF ServerTypes, Version
        <4>4. QED
          BY <1>4, <4>1, <4>2, <4>3 DEF UpdateMessage, DeleteMessage
      <3>4. \A m \in Messages : ~Announces(h, m)'
        BY <3>1, <3>2 DEF Announces, ServerTypes
      <3>5. QED
        BY <2>1, <3>1, <3>2, <3>3, <3>4, HandlerFrame
    <2>4. QED
      BY <2>1, <2>2, <2>3
  <1>5. ASSUME Reread(h) PROVE ServerInv'
    <2> DEFINE j == [job[h] EXCEPT !.pc = "publish", !.ver = row[job[h].msg]]
    <2>1. job[h].pc = "reread" /\ job[h].msg \in Messages /\ row[job[h].msg] # 0
      BY <1>5 DEF Reread, JobInv
    <2>2. /\ j \in JobType /\ j.pc = "publish" /\ j.msg = job[h].msg /\ j.op = job[h].op
          /\ j.replayed = job[h].replayed /\ job' = [job EXCEPT ![h] = j]
          /\ UNCHANGED <<row, command, announced>>
      BY <1>0, <1>5, <2>1 DEF Reread, JobType, ServerTypes
    <2>3. \A m \in Messages : Announces(h, m)' => Announces(h, m)
      BY <2>1, <2>2 DEF Announces, ServerTypes
    <2>4. QED
      BY <2>1, <2>2, <2>3, HandlerFrame DEF ServerTypes
  <1>6. ASSUME Publish(h) PROVE ServerInv'
    <2>1. PICK j \in JobType :
            /\ j.pc \in {"ended", "answer"} /\ (j.pc = "answer" => j.msg = job[h].msg)
            /\ job' = [job EXCEPT ![h] = j]
      <3>1. CASE Done(h)
        BY <3>1, EndedIsJob DEF Done
      <3>2. CASE job' = [job EXCEPT ![h].pc = "answer", ![h].replayed = FALSE]
        <4> DEFINE k == [job[h] EXCEPT !.pc = "answer", !.replayed = FALSE]
        <4>1. k \in JobType /\ k.pc = "answer" /\ k.msg = job[h].msg /\ job' = [job EXCEPT ![h] = k]
          BY <1>0, <3>2 DEF JobType
        <4>2. QED
          BY <4>1
      <3>3. QED
        BY <1>6, <3>1, <3>2 DEF Publish
    <2>2. /\ job[h].pc = "publish" /\ job[h].msg \in Messages /\ row[job[h].msg] # 0
          /\ UNCHANGED <<row, command>>
      BY <1>6 DEF Publish, JobInv
    <2>3. /\ job'[h] = j /\ \A g \in Handlers \ {h} : job'[g] = job[g]
      BY <2>1 DEF ServerTypes
    <2>4. CASE Announces(h, job[h].msg) /\ announced' = [announced EXCEPT ![job[h].msg] = @ + 1]
      <3>1. ServerTypes' /\ JobInv' /\ InsertInv' /\ OneMessagePerCommand'
        BY <2>1, <2>2, <2>3, <2>4 DEF ServerTypes, JobInv, InsertInv, OneMessagePerCommand, Existing
      <3>2. \A g \in Handlers, m \in Messages :
              Announces(g, m)' => Announces(g, m) /\ g # h /\ m # job[h].msg
        BY <2>1, <2>2, <2>3, <2>4 DEF Announces, AnnounceInv
      <3>3. AnnounceInv'
        BY <2>2, <2>4, <3>2 DEF AnnounceInv, ServerTypes
      <3>4. QED
        BY <3>1, <3>3
    <2>5. CASE UNCHANGED announced
      <3>1. \A m \in Messages : ~Announces(h, m)'
        BY <2>1, <2>3 DEF Announces
      <3>2. QED
        BY <2>1, <2>2, <2>5, <3>1, HandlerFrame DEF ServerTypes
    <2>6. QED
      BY <1>6, <2>2, <2>4, <2>5 DEF Publish, Silent, Announces
  <1>7. ASSUME Answer(h) \/ Fail(h) PROVE ServerInv'
    BY <1>1, <1>7 DEF Answer, Fail
  <1>8. QED
    BY <1>2, <1>3, <1>4, <1>5, <1>6, <1>7 DEF Execute

\* A handler takes a new command.
LEMMA AskStep ==
  ASSUME ServerInv, NEW h \in Handlers, NEW by \in Readers \union {None},
         \/ \E c \in Commands : Send(h, c, by)
         \/ \E m \in Messages : Edit(h, m, by) \/ Delete(h, m, by)
  PROVE  ServerInv'
  <1>1. PICK j \in JobType :
          /\ job' = [job EXCEPT ![h] = j]
          /\ j.pc \in {"check", "update", "remove"}
          /\ j.pc \in {"update", "remove"} => j.op # "send" /\ j.msg \in Messages /\ row[j.msg] # 0
    <2>1. ASSUME NEW c \in Commands, Send(h, c, by) PROVE \E j \in JobType :
          /\ job' = [job EXCEPT ![h] = j] /\ j.pc = "check"
      <3> DEFINE j == [Idle EXCEPT !.op = "send", !.pc = "check", !.cmd = c, !.by = by]
      <3>1. j \in JobType /\ j.pc = "check" /\ job' = [job EXCEPT ![h] = j]
        BY <2>1, IdleIsJob DEF Send, Ask, JobType, Idle
      <3>2. QED
        BY <3>1
    <2>2. ASSUME NEW m \in Messages, Edit(h, m, by) \/ Delete(h, m, by) PROVE \E j \in JobType :
          /\ job' = [job EXCEPT ![h] = j] /\ j.pc \in {"update", "remove"}
          /\ j.op # "send" /\ j.msg \in Messages /\ row[j.msg] # 0
      <3>1. CASE Edit(h, m, by)
        <4> DEFINE j == [Idle EXCEPT !.op = "edit", !.pc = "update", !.msg = m, !.by = by]
        <4>1. j \in JobType /\ j.pc = "update" /\ j.op = "edit" /\ j.msg = m /\ job' = [job EXCEPT ![h] = j]
          BY <3>1, IdleIsJob DEF Edit, Ask, JobType, Idle
        <4>2. QED
          BY <3>1, <4>1 DEF Edit, Existing
      <3>2. CASE Delete(h, m, by)
        <4> DEFINE j == [Idle EXCEPT !.op = "delete", !.pc = "remove", !.msg = m, !.by = by]
        <4>1. j \in JobType /\ j.pc = "remove" /\ j.op = "delete" /\ j.msg = m /\ job' = [job EXCEPT ![h] = j]
          BY <3>2, IdleIsJob DEF Delete, Ask, JobType, Idle
        <4>2. QED
          BY <3>2, <4>1 DEF Delete, Existing
      <3>3. QED
        BY <2>2, <3>1, <3>2
    <2>3. QED
      BY <2>1, <2>2
  <1>2. UNCHANGED <<row, command, announced>>
    BY DEF Send, Edit, Delete
  <1>3. \A m \in Messages : ~Announces(h, m)'
    BY <1>1 DEF Announces, ServerInv, ServerTypes
  <1>4. QED
    BY <1>1, <1>2, <1>3, HandlerFrame DEF ServerInv, ServerTypes

LEMMA ServerStep == ServerInv /\ [Next]_vars => ServerInv'
  <1> SUFFICES ASSUME ServerInv, [Next]_vars PROVE ServerInv'
    OBVIOUS
  <1>1. ASSUME UNCHANGED serverVars PROVE ServerInv'
    BY <1>1 DEF serverVars, ServerInv, ServerTypes, JobInv, InsertInv, AnnounceInv, Announces,
                OneMessagePerCommand, Existing
  <1>2. ASSUME NEW r \in Readers, Conversation(r) PROVE UNCHANGED serverVars
    BY <1>2 DEF Conversation, ListRead, ListFails, JoinChannel, JoinRefused, Receive, Connect,
                Disconnect, ListArrives
  <1>3. CASE UNCHANGED vars
    BY <1>1, <1>3 DEF vars
  <1>4. QED
    BY <1>1, <1>2, <1>3, ExecuteStep, AskStep DEF Next

LEMMA InitServerInv == Init => ServerInv
  BY IdleIsJob, ChatAssumption
  DEF Init, ServerInv, ServerTypes, JobInv, InsertInv, AnnounceInv, Announces, OneMessagePerCommand,
      Existing, Version

LEMMA ServerInvariant == Spec => []ServerInv
  <1>1. QED
    BY InitServerInv, ServerStep, PTL DEF Spec

\* A command makes one message, however often and however concurrently it is repeated.
THEOREM CommandsMakeOne == Spec => []OneMessagePerCommand
  <1>1. ServerInv => OneMessagePerCommand
    BY DEF ServerInv
  <1>2. QED
    BY <1>1, ServerInvariant, PTL

\* A message is published as created at most once.
THEOREM NeverAnnouncedTwice == Spec => []AnnouncedOnce
  <1>1. ServerInv => AnnouncedOnce
    BY DEF ServerInv, AnnounceInv, AnnouncedOnce
  <1>2. QED
    BY <1>1, ServerInvariant, PTL

-----------------------------------------------------------------------------
(***************************************************************************)
(* Conversations at rest show what the database has.  CatchUpInv says why: *)
(* while a socket is in the room, a message it shows otherwise, and that   *)
(* is not excused, is still coming: a handler has yet to publish what it   *)
(* committed, or the current version is in an event or a list under way,   *)
(* or a list is yet to be read.  Nothing on the way is ahead of the        *)
(* database, so that what is shown goes back only where Show excuses it.   *)
(***************************************************************************)

Event == [msg : Messages \union {0}, ver : Version]

\* What a handler is to publish: the message as the database has it, or will be found to.
Owes(h, m) ==
  /\ job[h].pc \in {"reread", "publish"} /\ job[h].msg = m /\ ~job[h].replayed
  /\ job[h].pc = "publish" => job[h].ver = row[m]

\* What will bring the message as it is.
Brings(e, m) == e = Joined \/ e = [msg |-> m, ver |-> row[m]]
Coming(r, m) ==
  \/ asked[r] > 0
  \/ \E i \in 1..Len(inbox[r]) : Brings(inbox[r][i], m)
  \/ \E l \in BagToSet(lists[r]) : l[m] = row[m]

CaughtUp(r) ==
  room[r] => \A m \in Existing \ (excused[r] \union missed[r]) :
               view[r][m] = row[m] \/ Coming(r, m) \/ \E h \in Handlers : Owes(h, m)

\* What lists did not go back to is older than a page.
IsOld(r) == missed[r] \subseteq Existing \ Newest

\* Nothing on the way to a conversation, and nothing it shows, is ahead of the database.
NotAhead(r) ==
  /\ \A m \in Messages : view[r][m] <= row[m]
  /\ \A l \in BagToSet(lists[r]) : \A m \in Messages : l[m] <= row[m]
  /\ \A i \in 1..Len(inbox[r]) :
       \/ inbox[r][i] = Joined
       \/ inbox[r][i].msg \in Messages /\ inbox[r][i].ver <= row[inbox[r][i].msg]

\* What the handlers know and do: only a lookup finds a repetition, only a desktop is
\* answered, and a deleted message stays deleted.
HandlerInv(h) ==
  /\ job[h].pc \in {"publish", "answer"} => job[h].ver <= row[job[h].msg]
  /\ job[h].pc \in {"check", "insert", "update", "remove"} => ~job[h].replayed
  /\ job[h].pc \in {"check", "insert"} => job[h].op = "send"
  /\ job[h].pc = "update" => job[h].op = "edit"
  /\ job[h].op = "delete" /\ job[h].pc \in {"reread", "publish", "answer"} =>
       row[job[h].msg] = Tombstone
  /\ job[h].pc = "answer" => job[h].by \in Readers

CatchUpInv ==
  /\ ServerInv /\ TypeOK /\ DOMAIN lists = Readers
  /\ \A h \in Handlers : HandlerInv(h)
  /\ \A r \in Readers : NotAhead(r) /\ CaughtUp(r) /\ IsOld(r)

\* A message that is older than the newest page stays so: messages are not removed.
LEMMA OldStaysOld ==
  ASSUME Existing \subseteq Existing'
  PROVE  Existing \ Newest \subseteq (Existing \ Newest)'
  <1> SUFFICES ASSUME NEW m \in Existing, ~(Cardinality({n \in Existing : n > m}) < PageSize)
               PROVE  ~(Cardinality({n \in Existing' : n > m}) < PageSize)
    BY DEF Newest
  <1> DEFINE A == {n \in Existing : n > m}
             B == {n \in Existing' : n > m}
  <1>1. A \subseteq B /\ B \subseteq 1..MaxMessages
    BY DEF Existing, Messages
  <1> HIDE DEF A, B
  <1>2. IsFiniteSet(1..MaxMessages)
    BY ChatAssumption, FS_Interval
  <1>3. IsFiniteSet(B)
    BY <1>1, <1>2, FS_Subset
  <1>4. IsFiniteSet(A) /\ Cardinality(A) <= Cardinality(B)
    BY <1>1, <1>3, FS_Subset
  <1>5. Cardinality(A) \in Nat /\ Cardinality(B) \in Nat
    BY <1>3, <1>4, FS_CardinalityType
  <1>6. ~(Cardinality(B) < PageSize)
    BY <1>4, <1>5, ChatAssumption DEF A
  <1>7. QED
    BY <1>6 DEF B

\* What adding to a bag and taking from it does to its elements.
LEMMA BagSteps ==
  ASSUME NEW B, IsABag(B), NEW x
  PROVE  /\ IsABag(B (+) SetToBag({x})) /\ BagToSet(B (+) SetToBag({x})) = BagToSet(B) \union {x}
         /\ IsABag(B (-) SetToBag({x})) /\ BagToSet(B (-) SetToBag({x})) \subseteq BagToSet(B)
         /\ BagToSet(B) \ {x} \subseteq BagToSet(B (-) SetToBag({x}))
  <1> USE DEF IsABag, BagToSet, SetToBag
  <1>1. IsABag(B (+) SetToBag({x})) /\ BagToSet(B (+) SetToBag({x})) = BagToSet(B) \union {x}
    BY DEF (+)
  <1> DEFINE C == [e \in DOMAIN B |-> IF e \in {x} THEN B[e] - 1 ELSE B[e]]
             D == {e \in DOMAIN B : C[e] > 0}
  <1>2. B (-) SetToBag({x}) = [e \in D |-> C[e]]
    BY DEF (-)
  <1>3. \A e \in D : C[e] \in {n \in Nat : n > 0}
    OBVIOUS
  <1>4. DOMAIN B \ {x} \subseteq D
    OBVIOUS
  <1> HIDE DEF C
  <1>5. /\ IsABag(B (-) SetToBag({x})) /\ BagToSet(B (-) SetToBag({x})) = D
    BY <1>2, <1>3
  <1>6. QED
    BY <1>1, <1>4, <1>5

LEMMA EmptyBagStep == IsABag(EmptyBag) /\ BagToSet(EmptyBag) = {}
  BY DEF EmptyBag, SetToBag, IsABag, BagToSet

\* What showing versions does: a message that is not excused is shown as it is, or was not
\* shown as it is before either.
LEMMA ShowStep ==
  ASSUME CatchUpInv, NEW r \in Readers, NEW D \in SUBSET Messages, NEW shown \in [D -> Version],
         \A m \in D : shown[m] <= row[m], UNCHANGED row, Show(r, shown)
  PROVE  /\ view' \in [Readers -> [Messages -> Version]]
         /\ excused' \in [Readers -> SUBSET Messages] /\ missed' \in [Readers -> SUBSET Messages]
         /\ \A q \in Readers \ {r} :
              view'[q] = view[q] /\ excused'[q] = excused[q] /\ missed'[q] = missed[q]
         /\ \A m \in Messages : view'[r][m] <= row[m]
         /\ \A m \in D : shown[m] = row[m] => view'[r][m] = row[m]
         /\ missed'[r] \subseteq missed[r]
         /\ \A m \in Messages \ (excused'[r] \union missed'[r]) :
              view'[r][m] = row[m] \/ (m \notin excused[r] \union missed[r] /\ view[r][m] # row[m])
  <1>1. /\ view \in [Readers -> [Messages -> Version]]
        /\ excused \in [Readers -> SUBSET Messages] /\ missed \in [Readers -> SUBSET Messages]
        /\ row \in [Messages -> Version] /\ \A m \in Messages : view[r][m] <= row[m]
        /\ DOMAIN shown = D
    BY DEF CatchUpInv, TypeOK, NotAhead
  <1> DEFINE new == [m \in Messages |-> IF m \in D THEN shown[m] ELSE view[r][m]]
             old == {m \in D : shown[m] < view[r][m] /\ shown[m] < row[m]}
             exc == (excused[r] \ {m \in D : shown[m] = row[m]}) \union old
             mis == missed[r] \ {m \in D : shown[m] = row[m]}
  <1>2. /\ view' = [view EXCEPT ![r] = new] /\ excused' = [excused EXCEPT ![r] = exc]
        /\ missed' = [missed EXCEPT ![r] = mis]
    BY <1>1 DEF Show
  <1>3. new \in [Messages -> Version] /\ exc \in SUBSET Messages /\ mis \in SUBSET Messages
    BY <1>1
  <1>4. view'[r] = new /\ excused'[r] = exc /\ missed'[r] = mis
    BY <1>1, <1>2
  <1>5. \A m \in Messages : new[m] = IF m \in D THEN shown[m] ELSE view[r][m]
    OBVIOUS
  <1> HIDE DEF new
  <1>6. \A m \in Messages : view[r][m] \in Nat /\ row[m] \in Nat /\ (m \in D => shown[m] \in Nat)
    BY <1>1, ChatAssumption DEF Version
  <1>7. \A m \in Messages \ (exc \union mis) :
          new[m] = row[m] \/ (m \notin excused[r] \union missed[r] /\ view[r][m] # row[m])
    BY <1>1, <1>5, <1>6
  <1>8. QED
    BY <1>1, <1>2, <1>3, <1>4, <1>5, <1>7

\* A handler goes on and leaves the conversations alone.
LEMMA HandlerStep ==
  ASSUME CatchUpInv, ServerInv', NEW h \in Handlers, NEW j \in JobType,
         job' = [job EXCEPT ![h] = j], UNCHANGED <<socketVars, viewVars, incidents>>,
         \A m \in Messages : row[m] <= row'[m] /\ (row[m] = Tombstone => row'[m] = Tombstone),
         \A m \in Messages : row'[m] = row[m] \/ Owes(h, m)',
         \A m \in Messages : Owes(h, m) => Owes(h, m)',
         HandlerInv(h)'
  PROVE  CatchUpInv'
  <1>0. ServerInv /\ ServerTypes /\ ServerTypes'
    BY DEF CatchUpInv, ServerInv
  <1>1. TypeOK' /\ DOMAIN lists' = Readers
    BY <1>0 DEF CatchUpInv, TypeOK, ServerTypes, socketVars, viewVars
  <1>2. \A g \in Handlers \ {h} : job'[g] = job[g]
    BY <1>0 DEF ServerTypes
  <1>3. ASSUME NEW g \in Handlers PROVE HandlerInv(g)'
    <2>1. CASE g = h
      BY <2>1
    <2>2. CASE g # h
      <3>1. HandlerInv(g) /\ job'[g] = job[g] /\ job[g] \in JobType
        BY <1>0, <1>2, <2>2 DEF CatchUpInv, ServerTypes
      <3>2. job[g].pc \in {"reread", "publish", "answer"} => job[g].msg \in Messages
        BY <1>0 DEF ServerInv, JobInv
      <3>3. job[g].ver \in Nat /\ \A m \in Messages : row[m] \in Nat /\ row'[m] \in Nat
        BY <1>0, <3>1, ChatAssumption DEF ServerTypes, Version, JobType
      <3>4. QED
        BY <3>1, <3>2, <3>3 DEF HandlerInv
    <2>3. QED
      BY <2>1, <2>2
  <1>4. ASSUME NEW r \in Readers PROVE NotAhead(r)'
    <2>1. NotAhead(r) /\ view[r] \in [Messages -> Version] /\ inbox[r] \in Seq(Event)
          /\ BagToSet(lists[r]) \subseteq [Messages -> Version]
      BY DEF CatchUpInv, TypeOK, Event
    <2>2. view'[r] = view[r] /\ inbox'[r] = inbox[r] /\ lists'[r] = lists[r]
      BY DEF socketVars, viewVars
    <2>3. \A m \in Messages : row[m] \in Nat /\ row'[m] \in Nat
      BY <1>0, ChatAssumption DEF ServerTypes, Version
    <2>4. \A m \in Messages : view'[r][m] <= row'[m]
      BY <2>1, <2>2, <2>3, ChatAssumption DEF NotAhead, Version
    <2>5. \A l \in BagToSet(lists[r])' : \A m \in Messages : l[m] <= row'[m]
      BY <2>1, <2>2, <2>3, ChatAssumption DEF NotAhead, Version, BagToSet
    <2>6. ASSUME NEW i \in 1..Len(inbox[r])
          PROVE  \/ inbox[r][i] = Joined
                 \/ inbox[r][i].msg \in Messages /\ inbox[r][i].ver <= row'[inbox[r][i].msg]
      <3>1. inbox[r][i] \in Event
        BY <2>1, <2>6
      <3>2. inbox[r][i].ver \in Nat
        BY <3>1, ChatAssumption DEF Event, Version
      <3>3. QED
        BY <2>1, <2>3, <3>2 DEF NotAhead
    <2>7. QED
      BY <2>2, <2>4, <2>5, <2>6 DEF NotAhead
  <1>5. ASSUME NEW r \in Readers PROVE CaughtUp(r)'
    <2>1. ASSUME room[r], NEW m \in Messages \ (excused[r] \union missed[r]), row'[m] # 0, row'[m] = row[m]
          PROVE  view[r][m] = row'[m] \/ Coming(r, m)' \/ \E g \in Handlers : Owes(g, m)'
      <3>1. view[r][m] = row[m] \/ Coming(r, m) \/ \E g \in Handlers : Owes(g, m)
        BY <2>1 DEF CatchUpInv, CaughtUp, Existing
      <3>2. Coming(r, m) => Coming(r, m)'
        BY <2>1 DEF Coming, Brings, socketVars, viewVars
      <3>3. \A g \in Handlers : Owes(g, m) => Owes(g, m)'
        BY <1>2, <2>1 DEF Owes
      <3>4. QED
        BY <2>1, <3>1, <3>2, <3>3
    <2>2. QED
      BY <2>1 DEF CaughtUp, Existing, socketVars, viewVars
  <1>6. ASSUME NEW r \in Readers PROVE IsOld(r)'
    <2>1. \A m \in Messages : row[m] \in Nat /\ row'[m] \in Nat
      BY <1>0, ChatAssumption DEF ServerTypes, Version
    <2>2. Existing \subseteq Existing'
      BY <2>1 DEF Existing
    <2>3. missed'[r] = missed[r] /\ IsOld(r)
      BY DEF CatchUpInv, viewVars
    <2>4. QED
      BY <2>2, <2>3, OldStaysOld DEF IsOld
  <1>7. QED
    BY <1>1, <1>3, <1>4, <1>5, <1>6 DEF CatchUpInv

\* A command is taken.
LEMMA TakeStep ==
  ASSUME CatchUpInv, ServerInv', NEW h \in Handlers, NEW by \in Readers \union {None},
         \/ \E c \in Commands : Send(h, c, by)
         \/ \E m \in Messages : Edit(h, m, by) \/ Delete(h, m, by)
  PROVE  CatchUpInv'
  <1>0. ServerTypes /\ \A m \in Messages : row[m] \in Nat
    BY ChatAssumption DEF CatchUpInv, ServerInv, ServerTypes, Version
  <1> DEFINE Asks(j) == /\ job' = [job EXCEPT ![h] = j] /\ job[h] = Idle
                        /\ UNCHANGED <<row, socketVars, viewVars, incidents>>
                        /\ j \in JobType /\ ~j.replayed
                        /\ \/ j.pc = "check" /\ j.op = "send"
                           \/ j.pc = "update" /\ j.op = "edit"
                           \/ j.pc = "remove" /\ j.op = "delete"
  <1>1. \E j : Asks(j)
    <2>1. ASSUME NEW c \in Commands, Send(h, c, by) PROVE \E j : Asks(j)
      <3> DEFINE j == [Idle EXCEPT !.op = "send", !.pc = "check", !.cmd = c, !.by = by]
      <3>1. j \in JobType /\ ~j.replayed /\ j.pc = "check" /\ j.op = "send"
        BY IdleIsJob DEF JobType, Idle
      <3> HIDE DEF j
      <3>2. Asks(j)
        BY <2>1, <3>1, Zenon DEF Send, Ask, j
      <3>3. QED
        BY <3>2
    <2>2. ASSUME NEW m \in Messages, Edit(h, m, by) PROVE \E j : Asks(j)
      <3> DEFINE j == [Idle EXCEPT !.op = "edit", !.pc = "update", !.msg = m, !.by = by]
      <3>1. j \in JobType /\ ~j.replayed /\ j.pc = "update" /\ j.op = "edit"
        BY IdleIsJob DEF JobType, Idle
      <3> HIDE DEF j
      <3>2. Asks(j)
        BY <2>2, <3>1, Zenon DEF Edit, Ask, j
      <3>3. QED
        BY <3>2
    <2>3. ASSUME NEW m \in Messages, Delete(h, m, by) PROVE \E j : Asks(j)
      <3> DEFINE j == [Idle EXCEPT !.op = "delete", !.pc = "remove", !.msg = m, !.by = by]
      <3>1. j \in JobType /\ ~j.replayed /\ j.pc = "remove" /\ j.op = "delete"
        BY IdleIsJob DEF JobType, Idle
      <3> HIDE DEF j
      <3>2. Asks(j)
        BY <2>3, <3>1, Zenon DEF Delete, Ask, j
      <3>3. QED
        BY <3>2
    <2> HIDE DEF Asks
    <2>4. QED
      BY <2>1, <2>2, <2>3
  <1>2. PICK j : Asks(j)
    BY <1>1
  <1>3. job'[h] = j
    BY <1>0, <1>2 DEF ServerTypes
  <1>4. HandlerInv(h)'
    BY <1>2, <1>3 DEF HandlerInv
  <1>5. \A m \in Messages : ~Owes(h, m)
    BY <1>2, IdleIsJob DEF Owes
  <1>6. \A m \in Messages : row'[m] = row[m] /\ row[m] <= row'[m]
    BY <1>0, <1>2
  <1>7. QED
    BY <1>2, <1>4, <1>5, <1>6, HandlerStep

\* The steps of a handler up to the publication.
LEMMA CommitStep ==
  ASSUME CatchUpInv, ServerInv', NEW h \in Handlers,
         \/ CreateCheck(h) \/ CreateInsert(h) \/ UpdateMessage(h) \/ DeleteMessage(h)
         \/ Reread(h)
  PROVE  CatchUpInv'
  <1>0. /\ ServerTypes /\ JobInv /\ HandlerInv(h) /\ job[h] \in JobType
        /\ \A m \in Messages : row[m] \in Nat /\ row[m] <= Tombstone
        /\ job \in [Handlers -> JobType] /\ row \in [Messages -> Version]
        /\ Tombstone \in Nat /\ Tombstone > 1
    BY ChatAssumption DEF CatchUpInv, ServerInv, ServerTypes, Version
  <1>1. UNCHANGED <<socketVars, viewVars, incidents>>
    BY Zenon DEF CreateCheck, CreateInsert, UpdateMessage, DeleteMessage, Reread
  <1>2. ASSUME NEW j \in JobType, job' = [job EXCEPT ![h] = j], UNCHANGED row,
               HandlerInv(h)', \A m \in Messages : Owes(h, m) => Owes(h, m)'
        PROVE  CatchUpInv'
    <2>1. \A m \in Messages : row'[m] = row[m] /\ row[m] <= row'[m]
      BY <1>0, <1>2
    <2>2. QED
      BY <1>1, <1>2, <2>1, HandlerStep
  <1>3. ASSUME Done(h), UNCHANGED row, job[h].pc \notin {"reread", "publish"} PROVE CatchUpInv'
    <2>1. job' = [job EXCEPT ![h] = Ended] /\ job'[h] = Ended
      BY <1>0, <1>3 DEF Done
    <2>2. HandlerInv(h)'
      BY <2>1 DEF HandlerInv, Ended, Idle
    <2>3. \A m \in Messages : ~Owes(h, m)
      BY <1>3 DEF Owes
    <2>4. QED
      BY <1>2, <1>3, <2>1, <2>2, <2>3, EndedIsJob
  <1>4. CASE CreateCheck(h)
    <2>1. UNCHANGED row /\ job[h].pc = "check"
      BY <1>4, Zenon DEF CreateCheck
    <2>2. job[h].op = "send" /\ ~job[h].replayed /\ \A m \in Messages : ~Owes(h, m)
      BY <1>0, <2>1 DEF HandlerInv, Owes
    <2>3. ASSUME NEW m \in Messages, job' = [job EXCEPT ![h].pc = "insert", ![h].msg = m]
          PROVE  CatchUpInv'
      <3> DEFINE j == [job[h] EXCEPT !.pc = "insert", !.msg = m]
      <3>1. j \in JobType /\ j.pc = "insert" /\ j.op = "send" /\ ~j.replayed
        BY <1>0, <2>2 DEF JobType
      <3>2. job' = [job EXCEPT ![h] = j] /\ job'[h] = j
        BY <1>0, <2>3
      <3>3. HandlerInv(h)'
        BY <3>1, <3>2 DEF HandlerInv
      <3>4. QED
        BY <1>2, <2>1, <2>2, <3>1, <3>2, <3>3
    <2>4. CASE \E m \in Existing : job' = [job EXCEPT ![h].pc = "reread", ![h].msg = m,
                                                      ![h].cmd = None, ![h].replayed = TRUE]
      <3>1. PICK m \in Existing : job' = [job EXCEPT ![h].pc = "reread", ![h].msg = m,
                                                     ![h].cmd = None, ![h].replayed = TRUE]
        BY <2>4, Zenon
      <3> DEFINE j == [job[h] EXCEPT !.pc = "reread", !.msg = m, !.cmd = None, !.replayed = TRUE]
      <3>2. j \in JobType /\ j.pc = "reread" /\ j.op = "send"
        BY <1>0, <2>2 DEF JobType, Existing
      <3>3. job' = [job EXCEPT ![h] = j] /\ job'[h] = j
        BY <1>0, <3>1
      <3>4. HandlerInv(h)'
        BY <3>2, <3>3 DEF HandlerInv
      <3>5. QED
        BY <1>2, <2>1, <2>2, <3>2, <3>3, <3>4
    <2>5. QED
      BY <1>4, <2>3, <2>4, Zenon DEF CreateCheck
  <1>5. CASE CreateInsert(h)
    <2>1. job[h].pc = "insert" /\ job[h].op = "send" /\ ~job[h].replayed
      BY <1>0, <1>5, Zenon DEF CreateInsert, HandlerInv
    <2>2. CASE Taken(job[h].cmd)
      BY <1>3, <1>5, <2>1, <2>2 DEF CreateInsert
    <2>3. CASE ~Taken(job[h].cmd)
      <3> DEFINE m == job[h].msg
                 j == [job[h] EXCEPT !.pc = "reread", !.cmd = None]
      <3>1. /\ row' = [row EXCEPT ![m] = 1]
            /\ job' = [job EXCEPT ![h].pc = "reread", ![h].cmd = None]
            /\ m \in Messages /\ row[m] = 0
        BY <1>5, <2>1, <2>3 DEF CreateInsert, CatchUpInv, ServerInv, InsertInv
      <3>2. j \in JobType /\ j.pc = "reread" /\ j.op = "send" /\ j.msg = m /\ ~j.replayed
        BY <1>0, <2>1 DEF JobType
      <3>3. job' = [job EXCEPT ![h] = j] /\ job'[h] = j
        BY <1>0, <3>1
      <3>4. HandlerInv(h)' /\ Owes(h, m)'
        BY <3>2, <3>3 DEF HandlerInv, Owes
      <3>5. row[m] = 0 /\ row'[m] = 1 /\ \A n \in Messages \ {m} : row'[n] = row[n]
        BY <1>0, <3>1
      <3>6. \A n \in Messages : row[n] <= row'[n] /\ (row[n] = Tombstone => row'[n] = Tombstone)
        BY <1>0, <3>5
      <3>7. \A n \in Messages : ~Owes(h, n)
        BY <2>1 DEF Owes
      <3> HIDE DEF j
      <3>8. QED
        BY <1>1, <3>2, <3>3, <3>4, <3>5, <3>6, <3>7, HandlerStep
    <2>4. QED
      BY <2>2, <2>3
  <1>6. CASE UpdateMessage(h) \/ DeleteMessage(h)
    <2> DEFINE m == job[h].msg
    <2>1. /\ job[h].pc \in {"update", "remove"} /\ ~job[h].replayed /\ m \in Messages
          /\ job[h].pc = "update" => job[h].op = "edit"
          /\ (UpdateMessage(h) <=> job[h].pc = "update")
      BY <1>0, <1>6 DEF UpdateMessage, DeleteMessage, HandlerInv, JobInv
    <2>2. CASE Done(h) /\ UNCHANGED row
      BY <1>3, <2>1, <2>2
    <2>3. ASSUME Goto(h, "reread"), NEW v \in Version, row[m] <= v, row[m] # Tombstone,
                 row' = [row EXCEPT ![m] = v], job[h].pc = "remove" => v = Tombstone
          PROVE  CatchUpInv'
      <3> DEFINE j == [job[h] EXCEPT !.pc = "reread"]
      <3>1. /\ j \in JobType /\ j.pc = "reread" /\ j.op = job[h].op /\ j.msg = m
            /\ j.replayed = job[h].replayed
        BY <1>0 DEF JobType
      <3>2. job' = [job EXCEPT ![h] = j] /\ job'[h] = j
        BY <1>0, <2>3 DEF Goto
      <3>3. row'[m] = v /\ \A n \in Messages \ {m} : row'[n] = row[n]
        BY <1>0, <2>1, <2>3
      <3> HIDE DEF j
      <3>4. HandlerInv(h)' /\ Owes(h, m)'
        BY <2>1, <2>3, <3>1, <3>2, <3>3 DEF HandlerInv, Owes
      <3>5. \A n \in Messages : row[n] <= row'[n] /\ (row[n] = Tombstone => row'[n] = Tombstone)
        BY <1>0, <2>3, <3>3
      <3>6. \A n \in Messages : ~Owes(h, n)
        BY <2>1 DEF Owes
      <3>7. QED
        BY <1>1, <3>1, <3>2, <3>3, <3>4, <3>5, <3>6, HandlerStep
    <2>4. CASE UpdateMessage(h) /\ row[m] # Tombstone
      <3>1. /\ Goto(h, "reread") /\ row' = [row EXCEPT ![m] = row[m] + 1]
            /\ row[m] + 1 < Tombstone /\ job[h].pc = "update"
        BY <2>4 DEF UpdateMessage
      <3>2. row[m] + 1 \in Version /\ row[m] <= row[m] + 1
        BY <1>0, <2>1, <3>1 DEF Version
      <3>3. QED
        BY <2>3, <2>4, <3>1, <3>2
    <2>5. CASE DeleteMessage(h) /\ row[m] # Tombstone
      <3>1. Goto(h, "reread") /\ row' = [row EXCEPT ![m] = Tombstone]
        BY <2>5 DEF DeleteMessage
      <3>2. Tombstone \in Version /\ row[m] <= Tombstone
        BY <1>0, <2>1 DEF Version
      <3>3. QED
        BY <2>3, <2>5, <3>1, <3>2
    <2>6. QED
      BY <1>6, <2>2, <2>4, <2>5 DEF UpdateMessage, DeleteMessage
  <1>7. CASE Reread(h)
    <2> DEFINE m == job[h].msg
               j == [job[h] EXCEPT !.pc = "publish", !.ver = row[m]]
    <2>1. /\ job[h].pc = "reread" /\ m \in Messages /\ row[m] \in Version
          /\ UNCHANGED row /\ row[m] <= row[m]
      BY <1>0, <1>7 DEF Reread, JobInv
    <2>2. /\ j \in JobType /\ j.pc = "publish" /\ j.op = job[h].op /\ j.msg = m
          /\ j.replayed = job[h].replayed /\ j.ver = row[m]
      BY <1>0, <2>1 DEF JobType
    <2>3. job' = [job EXCEPT ![h] = j] /\ job'[h] = j
      BY <1>0, <1>7 DEF Reread
    <2> HIDE DEF j
    <2>4. HandlerInv(h)'
      BY <1>0, <2>1, <2>2, <2>3 DEF HandlerInv
    <2>5. \A n \in Messages : Owes(h, n) => Owes(h, n)'
      BY <2>1, <2>2, <2>3 DEF Owes
    <2>6. QED
      BY <1>2, <2>1, <2>2, <2>3, <2>4, <2>5
  <1>8. QED
    BY <1>4, <1>5, <1>6, <1>7

\* The types of what the steps below read.
LEMMA CatchUpTypes ==
  ASSUME CatchUpInv
  PROVE  /\ job \in [Handlers -> JobType] /\ row \in [Messages -> Version]
         /\ \A v \in Version : v \in Nat
         /\ online \in [Readers -> BOOLEAN] /\ room \in [Readers -> BOOLEAN]
         /\ joining \in [Readers -> BOOLEAN] /\ asked \in [Readers -> Nat]
         /\ inbox \in [Readers -> Seq(Event)] /\ loaded \in [Readers -> BOOLEAN]
         /\ view \in [Readers -> [Messages -> Version]]
         /\ \A r \in Readers : IsABag(lists[r]) /\ BagToSet(lists[r]) \subseteq [Messages -> Version]
         /\ excused \in [Readers -> SUBSET Messages] /\ missed \in [Readers -> SUBSET Messages]
         /\ incidents \in 0..MaxIncidents
         /\ JobInv /\ \A h \in Handlers : HandlerInv(h)
         /\ Tombstone \in Version /\ Joined \in Event /\ 0 \notin Messages
  <1>1. (\A v \in Version : v \in Nat) /\ Tombstone \in Version /\ 0 \in Version
    BY ChatAssumption DEF Version
  <1>2. Joined \in Event /\ 0 \notin Messages
    BY <1>1 DEF Joined, Event, Messages
  <1>3. QED
    BY <1>1, <1>2 DEF CatchUpInv, ServerInv, TypeOK, Event

\* A change is published to the sockets in the room.
LEMMA PublishStep ==
  ASSUME CatchUpInv, ServerInv', NEW h \in Handlers, Publish(h)
  PROVE  CatchUpInv'
  <1> DEFINE e == [msg |-> job[h].msg, ver |-> job[h].ver]
  <1>0. /\ UNCHANGED <<row, online, joining, room, viewVars, incidents>>
        /\ job[h].pc = "publish"
        /\ inbox' = IF job[h].replayed THEN inbox
                    ELSE [r \in Readers |-> IF room[r] THEN Append(inbox[r], e) ELSE inbox[r]]
        /\ IF job[h].by = None THEN Done(h)
           ELSE job' = [job EXCEPT ![h].pc = "answer", ![h].replayed = FALSE]
    BY Zenon DEF Publish, Silent
  <1>1. /\ job[h] \in JobType /\ job[h].msg \in Messages /\ job[h].ver <= row[job[h].msg]
        /\ job[h].op = "delete" => row[job[h].msg] = Tombstone
    BY <1>0, CatchUpTypes DEF JobInv, HandlerInv
  <1>2. e \in Event /\ e # Joined
    BY <1>1, CatchUpTypes DEF Event, JobType, Joined
  <1> HIDE DEF e
  <1>3. \A r \in Readers : inbox'[r] = inbox[r] \/ inbox'[r] = Append(inbox[r], e)
    BY <1>0
  <1>4. inbox' \in [Readers -> Seq(Event)]
    BY <1>0, <1>2, CatchUpTypes
  <1>5. ASSUME NEW r \in Readers
        PROVE  /\ \A i \in 1..Len(inbox[r]) : i \in 1..Len(inbox'[r]) /\ inbox'[r][i] = inbox[r][i]
               /\ \A i \in 1..Len(inbox'[r]) : i \notin 1..Len(inbox[r]) => inbox'[r][i] = e
    <2>1. inbox[r] \in Seq(Event)
      BY CatchUpTypes
    <2>2. CASE inbox'[r] = inbox[r]
      BY <2>2
    <2>3. CASE inbox'[r] = Append(inbox[r], e)
      BY <1>2, <2>1, <2>3
    <2>4. QED
      BY <1>3, <2>2, <2>3
  <1>6. PICK j \in JobType :
          /\ job' = [job EXCEPT ![h] = j]
          /\ \/ j = Ended
             \/ /\ j.pc = "answer" /\ j.msg = job[h].msg /\ j.ver = job[h].ver
                /\ j.op = job[h].op /\ j.by \in Readers
    <2>1. CASE Done(h)
      BY <2>1, EndedIsJob DEF Done
    <2>2. CASE job[h].by # None
      <3> DEFINE k == [job[h] EXCEPT !.pc = "answer", !.replayed = FALSE]
      <3>1. /\ k \in JobType /\ k.pc = "answer" /\ k.msg = job[h].msg /\ k.ver = job[h].ver
            /\ k.op = job[h].op /\ k.by \in Readers
        BY <1>1, <2>2 DEF JobType
      <3>2. job' = [job EXCEPT ![h] = k]
        BY <1>0, <2>2
      <3> HIDE DEF k
      <3>3. QED
        BY <3>1, <3>2
    <2>3. QED
      BY <1>0, <2>1, <2>2
  <1>7. job'[h] = j /\ \A g \in Handlers \ {h} : job'[g] = job[g]
    BY <1>6, CatchUpTypes
  <1>8. ASSUME NEW g \in Handlers PROVE HandlerInv(g)'
    <2>1. CASE g = h /\ j = Ended
      BY <1>7, <2>1 DEF HandlerInv, Ended, Idle
    <2>2. CASE g = h /\ j # Ended
      BY <1>0, <1>1, <1>6, <1>7, <2>2 DEF HandlerInv
    <2>3. CASE g # h
      BY <1>0, <1>7, <2>3, CatchUpTypes DEF HandlerInv
    <2>4. QED
      BY <2>1, <2>2, <2>3
  <1>9. ASSUME NEW r \in Readers PROVE NotAhead(r)'
    <2>1. NotAhead(r) /\ view'[r] = view[r] /\ lists'[r] = lists[r]
      BY <1>0 DEF CatchUpInv, viewVars
    <2>2. ASSUME NEW i \in 1..Len(inbox'[r])
          PROVE  \/ inbox'[r][i] = Joined
                 \/ inbox'[r][i].msg \in Messages /\ inbox'[r][i].ver <= row[inbox'[r][i].msg]
      <3>1. CASE i \in 1..Len(inbox[r])
        BY <1>5, <2>1, <3>1 DEF NotAhead
      <3>2. CASE i \notin 1..Len(inbox[r])
        <4>1. inbox'[r][i] = e
          BY <1>5, <3>2
        <4>2. QED
          BY <1>1, <4>1 DEF e
      <3>3. QED
        BY <3>1, <3>2
    <2>3. QED
      BY <1>0, <2>1, <2>2 DEF NotAhead
  <1>10. ASSUME NEW r \in Readers PROVE CaughtUp(r)' /\ IsOld(r)'
    <2>1. ASSUME room[r], NEW m \in Existing \ (excused[r] \union missed[r])
          PROVE  view[r][m] = row[m] \/ Coming(r, m)' \/ \E g \in Handlers : Owes(g, m)'
      <3>1. CASE Coming(r, m)
        BY <1>0, <1>5, <3>1 DEF Coming, Brings, viewVars
      <3>2. CASE Owes(h, m)
        <4>1. e = [msg |-> m, ver |-> row[m]] /\ inbox'[r] = Append(inbox[r], e)
          BY <1>0, <2>1, <3>2 DEF Owes, e
        <4>2. /\ Len(inbox[r]) + 1 \in 1..Len(inbox'[r])
              /\ inbox'[r][Len(inbox[r]) + 1] = e
          <5>1. inbox[r] \in Seq(Event)
            BY CatchUpTypes
          <5>2. QED
            BY <1>2, <4>1, <5>1
        <4>3. Coming(r, m)'
          BY <1>0, <4>1, <4>2 DEF Coming, Brings
        <4>4. QED
          BY <4>3
      <3>3. ASSUME NEW g \in Handlers \ {h}, Owes(g, m) PROVE Owes(g, m)'
        BY <1>0, <1>7, <3>3 DEF Owes
      <3>4. QED
        BY <2>1, <3>1, <3>2, <3>3 DEF CatchUpInv, CaughtUp
    <2>2. QED
      BY <1>0, <2>1 DEF CatchUpInv, CaughtUp, IsOld, Existing, Newest, viewVars
  <1>11. TypeOK' /\ DOMAIN lists' = Readers
    BY <1>0, <1>4 DEF CatchUpInv, ServerInv, ServerTypes, TypeOK, Event, viewVars
  <1>12. QED
    BY <1>8, <1>9, <1>10, <1>11 DEF CatchUpInv

\* A handler has ended; it is not to publish any more.
LEMMA DoneStep ==
  ASSUME CatchUpInv, UNCHANGED row, NEW h \in Handlers, Done(h)
  PROVE  /\ \A g \in Handlers : HandlerInv(g)'
         /\ \A g \in Handlers \ {h}, m \in Messages : Owes(g, m) => Owes(g, m)'
  <1>1. job'[h] = Ended /\ \A g \in Handlers \ {h} : job'[g] = job[g]
    BY CatchUpTypes DEF Done
  <1>2. HandlerInv(h)'
    BY <1>1 DEF HandlerInv, Ended, Idle
  <1>3. \A g \in Handlers \ {h} : HandlerInv(g)'
    BY <1>1, CatchUpTypes DEF HandlerInv
  <1>4. QED
    BY <1>1, <1>2, <1>3 DEF Owes

\* A command is cut short.
LEMMA FailStep ==
  ASSUME CatchUpInv, ServerInv', NEW h \in Handlers, Fail(h)
  PROVE  CatchUpInv'
  <1>1. /\ UNCHANGED <<row, socketVars, loaded, view, asked, lists, missed>> /\ Done(h)
        /\ incidents' = incidents + 1 /\ incidents < MaxIncidents
        /\ excused' = IF job[h].pc \in {"reread", "publish"}
                      THEN [r \in Readers |-> excused[r] \union {job[h].msg}] ELSE excused
    BY DEF Fail, Incident
  <1>2. job[h].pc \in {"reread", "publish"} => job[h].msg \in Messages
    BY CatchUpTypes DEF JobInv
  <1>3. /\ excused' \in [Readers -> SUBSET Messages]
        /\ \A r \in Readers : excused[r] \subseteq excused'[r]
        /\ \A r \in Readers, m \in Messages : Owes(h, m) => m \in excused'[r]
    BY <1>1, <1>2, CatchUpTypes DEF Owes
  <1>4. incidents' \in 0..MaxIncidents
    BY <1>1, CatchUpTypes, ChatAssumption
  <1>5. TypeOK' /\ DOMAIN lists' = Readers
    BY <1>1, <1>3, <1>4 DEF CatchUpInv, ServerInv, ServerTypes, TypeOK, socketVars
  <1>6. ASSUME NEW r \in Readers PROVE NotAhead(r)' /\ IsOld(r)'
    BY <1>1 DEF CatchUpInv, NotAhead, IsOld, Existing, Newest, socketVars
  <1>7. ASSUME NEW r \in Readers PROVE CaughtUp(r)'
    <2>1. ASSUME room[r], NEW m \in Existing \ (excused'[r] \union missed[r])
          PROVE  view[r][m] = row[m] \/ Coming(r, m)' \/ \E g \in Handlers : Owes(g, m)'
      <3>1. view[r][m] = row[m] \/ Coming(r, m) \/ \E g \in Handlers \ {h} : Owes(g, m)
        BY <1>3, <2>1 DEF CatchUpInv, CaughtUp, Existing
      <3>2. Coming(r, m) => Coming(r, m)'
        BY <1>1 DEF Coming, Brings, socketVars
      <3>3. QED
        BY <1>1, <2>1, <3>1, <3>2, DoneStep DEF Existing
    <2>2. QED
      BY <1>1, <2>1 DEF CaughtUp, Existing, socketVars
  <1>8. QED
    BY <1>1, <1>5, <1>6, <1>7, DoneStep DEF CatchUpInv

\* A desktop gets the answer to its command.
LEMMA AnswerStep ==
  ASSUME CatchUpInv, ServerInv', NEW h \in Handlers, Answer(h)
  PROVE  CatchUpInv'
  <1> DEFINE m == job[h].msg
             by == job[h].by
  <1>1. /\ UNCHANGED <<row, socketVars, loaded, asked, lists, incidents>> /\ Done(h)
        /\ job[h].pc = "answer"
        /\ \/ Merge(by, m, job[h].ver)
           \/ job[h].op = "delete" /\ Merge(by, m, Tombstone)
           \/ UNCHANGED <<view, excused, missed>>
    BY Zenon DEF Answer
  <1>2. /\ m \in Messages /\ by \in Readers /\ job[h].ver \in Version /\ job[h].ver <= row[m]
        /\ job[h].op = "delete" => Tombstone <= row[m]
    BY <1>1, CatchUpTypes DEF JobInv, HandlerInv, JobType
  <1> DEFINE Shown ==
        /\ view' \in [Readers -> [Messages -> Version]]
        /\ excused' \in [Readers -> SUBSET Messages] /\ missed' \in [Readers -> SUBSET Messages]
        /\ \A r \in Readers : \A n \in Messages : view'[r][n] <= row[n]
        /\ \A r \in Readers : missed'[r] \subseteq missed[r]
        /\ \A r \in Readers : \A n \in Messages \ (excused'[r] \union missed'[r]) :
             view'[r][n] = row[n] \/ (n \notin excused[r] \union missed[r] /\ view[r][n] # row[n])
  <1>3. Shown
    <2>1. ASSUME NEW v \in Version, v <= row[m], Merge(by, m, v) PROVE Shown
      <3> DEFINE D == {m}
                 shown == [n \in D |-> v]
      <3>1. D \in SUBSET Messages /\ shown \in [D -> Version] /\ \A n \in D : shown[n] <= row[n]
        BY <1>2, <2>1
      <3>2. Show(by, shown)
        BY <2>1 DEF Merge
      <3> HIDE DEF D, shown, m, by
      <3>3. /\ view' \in [Readers -> [Messages -> Version]]
            /\ excused' \in [Readers -> SUBSET Messages] /\ missed' \in [Readers -> SUBSET Messages]
            /\ \A q \in Readers \ {by} :
                 view'[q] = view[q] /\ excused'[q] = excused[q] /\ missed'[q] = missed[q]
            /\ \A n \in Messages : view'[by][n] <= row[n]
            /\ missed'[by] \subseteq missed[by]
            /\ \A n \in Messages \ (excused'[by] \union missed'[by]) :
                 view'[by][n] = row[n] \/ (n \notin excused[by] \union missed[by] /\ view[by][n] # row[n])
        BY <1>1, <1>2, <3>1, <3>2, ShowStep
      <3>4. ASSUME NEW q \in Readers \ {by} PROVE \A n \in Messages : view[q][n] <= row[n]
        BY DEF CatchUpInv, NotAhead
      <3>5. QED
        BY <3>3, <3>4
    <2>2. CASE UNCHANGED <<view, excused, missed>>
      BY <2>2, CatchUpTypes DEF CatchUpInv, NotAhead
    <2>3. QED
      BY <1>1, <1>2, <2>1, <2>2, CatchUpTypes
  <1>4. TypeOK' /\ DOMAIN lists' = Readers
    BY <1>1, <1>3 DEF CatchUpInv, ServerInv, ServerTypes, TypeOK, socketVars
  <1>5. ASSUME NEW r \in Readers PROVE NotAhead(r)' /\ IsOld(r)'
    <2>1. NotAhead(r)'
      BY <1>1, <1>3 DEF CatchUpInv, NotAhead, socketVars
    <2>2. IsOld(r)'
      BY <1>1, <1>3 DEF CatchUpInv, IsOld, Existing, Newest
    <2>3. QED
      BY <2>1, <2>2
  <1>6. ASSUME NEW r \in Readers PROVE CaughtUp(r)'
    <2>1. ASSUME room[r], NEW n \in Existing \ (excused'[r] \union missed'[r])
          PROVE  view'[r][n] = row[n] \/ Coming(r, n)' \/ \E g \in Handlers : Owes(g, n)'
      <3>1. \/ view'[r][n] = row[n]
            \/ n \notin excused[r] \union missed[r] /\ view[r][n] # row[n]
        BY <1>3, <2>1 DEF Existing
      <3>2. CaughtUp(r)
        BY DEF CatchUpInv
      <3>3. \/ view'[r][n] = row[n]
            \/ Coming(r, n) \/ \E g \in Handlers : Owes(g, n)
        BY <2>1, <3>1, <3>2 DEF CaughtUp
      <3>4. ~Owes(h, n)
        BY <1>1 DEF Owes
      <3>5. Coming(r, n) => Coming(r, n)'
        BY <1>1 DEF Coming, Brings, socketVars
      <3>6. QED
        BY <1>1, <2>1, <3>3, <3>4, <3>5, DoneStep DEF Existing
    <2>2. QED
      BY <1>1, <2>1 DEF CaughtUp, Existing, socketVars
  <1>7. QED
    BY <1>1, <1>4, <1>5, <1>6, DoneStep DEF CatchUpInv

\* A step of one conversation leaves the others and the servers alone.
LEMMA ReaderStep ==
  ASSUME CatchUpInv, ServerInv', UNCHANGED serverVars, TypeOK', DOMAIN lists' = Readers,
         NEW r \in Readers, NotAhead(r)', CaughtUp(r)', IsOld(r)',
         \A q \in Readers \ {r} :
           /\ view'[q] = view[q] /\ excused'[q] = excused[q] /\ missed'[q] = missed[q] /\ room'[q] = room[q]
           /\ inbox'[q] = inbox[q] /\ asked'[q] = asked[q] /\ lists'[q] = lists[q]
  PROVE  CatchUpInv'
  <1>1. \A h \in Handlers : HandlerInv(h)'
    BY DEF CatchUpInv, HandlerInv, serverVars
  <1>2. ASSUME NEW q \in Readers \ {r} PROVE NotAhead(q)' /\ IsOld(q)'
    BY DEF CatchUpInv, NotAhead, IsOld, Existing, Newest, serverVars
  <1>3. ASSUME NEW q \in Readers \ {r} PROVE CaughtUp(q)'
    <2>1. CaughtUp(q)
      BY DEF CatchUpInv
    <2>2. \A m \in Messages : Coming(q, m) => Coming(q, m)'
      BY DEF Coming, Brings, serverVars
    <2>3. \A m \in Messages, h \in Handlers : Owes(h, m) => Owes(h, m)'
      BY DEF Owes, serverVars
    <2>4. QED
      BY <2>1, <2>2, <2>3 DEF CaughtUp, Existing, serverVars
  <1>4. QED
    BY <1>1, <1>2, <1>3 DEF CatchUpInv

\* What is shown stays, and whatever was coming still is.
LEMMA CalmReader ==
  ASSUME CatchUpInv, UNCHANGED serverVars, NEW r \in Readers,
         view'[r] = view[r], excused[r] \subseteq excused'[r], missed'[r] = missed[r], room[r],
         \A m \in Existing \ (excused'[r] \union missed[r]) : Coming(r, m) => Coming(r, m)'
  PROVE  CaughtUp(r)'
  <1>1. \A m \in Messages, h \in Handlers : Owes(h, m) => Owes(h, m)'
    BY DEF Owes, serverVars
  <1>2. QED
    BY <1>1 DEF CatchUpInv, CaughtUp, Existing, serverVars

\* A page is read.  What is not on it is missed, unless it is shown as it is.
LEMMA ListReadStep ==
  ASSUME CatchUpInv, ServerInv', NEW r \in Readers, ListRead(r)
  PROVE  CatchUpInv'
  <1> DEFINE older == {m \in Existing \ Newest : view[r][m] # row[m]}
  <1>1. /\ asked[r] > 0 /\ asked' = [asked EXCEPT ![r] = @ - 1]
        /\ lists' = [lists EXCEPT ![r] = @ (+) SetToBag({Page})]
        /\ missed' = [missed EXCEPT ![r] = @ \union older]
        /\ UNCHANGED <<serverVars, socketVars, loaded, view, excused, incidents>>
    BY DEF ListRead
  <1>2. /\ lists'[r] = lists[r] (+) SetToBag({Page}) /\ asked'[r] \in Nat /\ asked' \in [Readers -> Nat]
        /\ \A q \in Readers \ {r} : lists'[q] = lists[q] /\ asked'[q] = asked[q]
        /\ DOMAIN lists' = Readers
    BY <1>1, CatchUpTypes DEF CatchUpInv
  <1>3. /\ IsABag(lists[r])' /\ BagToSet(lists'[r]) = BagToSet(lists[r]) \union {Page}
        /\ \A q \in Readers \ {r} : IsABag(lists[q])' /\ BagToSet(lists[q])' = BagToSet(lists[q])
    <2>1. IsABag(lists[r])
      BY CatchUpTypes
    <2>2. LET B == lists[r] (+) SetToBag({Page}) IN
          IsABag(B) /\ BagToSet(B) = BagToSet(lists[r]) \union {Page}
      BY <2>1, BagSteps, Zenon
    <2>3. QED
      BY <1>2, <2>2, CatchUpTypes
  <1>4. /\ Page \in [Messages -> Version]
        /\ \A m \in Messages : Page[m] <= row[m] /\ (m \in Newest => Page[m] = row[m])
    <2>1. 0 \in Version /\ \A m \in Messages : row[m] \in Version /\ row[m] \in Nat
      BY CatchUpTypes, ChatAssumption DEF Version
    <2>2. QED
      BY <2>1 DEF Page
  <1>5. /\ missed' \in [Readers -> SUBSET Messages] /\ missed'[r] = missed[r] \union older
        /\ \A q \in Readers \ {r} : missed'[q] = missed[q]
    <2>1. older \subseteq Messages
      BY DEF Existing
    <2> HIDE DEF older
    <2>2. QED
      BY <1>1, <2>1, CatchUpTypes
  <1>6. TypeOK'
    BY <1>1, <1>2, <1>3, <1>4, <1>5, CatchUpTypes DEF ServerInv, ServerTypes, TypeOK, Event, socketVars
  <1>7. NotAhead(r)'
    BY <1>1, <1>3, <1>4 DEF CatchUpInv, NotAhead, serverVars, socketVars
  <1>8. \A m \in Newest : Coming(r, m)'
    BY <1>1, <1>3, <1>4 DEF Coming, Newest, Existing, serverVars
  <1>9. CaughtUp(r)'
    BY <1>1, <1>5, <1>8 DEF CaughtUp, Existing, serverVars
  <1>10. IsOld(r)'
    BY <1>1, <1>5 DEF CatchUpInv, IsOld, Existing, Newest, serverVars
  <1>11. QED
    BY <1>1, <1>2, <1>5, <1>6, <1>7, <1>9, <1>10, ReaderStep DEF serverVars, socketVars

\* A page is not read.
LEMMA ListFailsStep ==
  ASSUME CatchUpInv, ServerInv', NEW r \in Readers, ListFails(r)
  PROVE  CatchUpInv'
  <1>1. /\ asked[r] > 0 /\ asked' = [asked EXCEPT ![r] = @ - 1]
        /\ excused' = [excused EXCEPT ![r] = @ \union Existing]
        /\ incidents' = incidents + 1 /\ incidents < MaxIncidents
        /\ UNCHANGED <<serverVars, socketVars, loaded, view, lists, missed>>
    BY DEF ListFails, Incident
  <1>2. /\ asked' \in [Readers -> Nat] /\ excused' \in [Readers -> SUBSET Messages]
        /\ incidents' \in 0..MaxIncidents /\ excused'[r] = excused[r] \union Existing
        /\ \A q \in Readers \ {r} : excused'[q] = excused[q] /\ asked'[q] = asked[q]
    BY <1>1, CatchUpTypes, ChatAssumption DEF Existing
  <1>3. TypeOK' /\ DOMAIN lists' = Readers
    BY <1>1, <1>2 DEF CatchUpInv, ServerInv, ServerTypes, TypeOK, socketVars
  <1>4. NotAhead(r)' /\ IsOld(r)'
    BY <1>1 DEF CatchUpInv, NotAhead, IsOld, Existing, Newest, serverVars, socketVars
  <1>5. CaughtUp(r)'
    BY <1>1, <1>2 DEF CaughtUp, Existing, serverVars
  <1>6. QED
    BY <1>1, <1>2, <1>3, <1>4, <1>5, ReaderStep DEF serverVars, socketVars

\* The socket enters the room, is refused, or is connected.
LEMMA JoinStep ==
  ASSUME CatchUpInv, ServerInv', NEW r \in Readers,
         JoinChannel(r) \/ JoinRefused(r) \/ Connect(r)
  PROVE  CatchUpInv'
  <1>1. CASE JoinChannel(r)
    <2>1. /\ joining' = [joining EXCEPT ![r] = FALSE] /\ room' = [room EXCEPT ![r] = TRUE]
          /\ inbox' = [inbox EXCEPT ![r] = Append(@, Joined)]
          /\ UNCHANGED <<serverVars, online, viewVars, incidents>>
      BY <1>1 DEF JoinChannel
    <2>2. /\ joining' \in [Readers -> BOOLEAN] /\ room' \in [Readers -> BOOLEAN]
          /\ inbox' \in [Readers -> Seq(Event)] /\ inbox'[r] = Append(inbox[r], Joined)
          /\ \A q \in Readers \ {r} : room'[q] = room[q] /\ inbox'[q] = inbox[q]
      BY <2>1, CatchUpTypes
    <2>3. TypeOK' /\ DOMAIN lists' = Readers
      BY <2>1, <2>2 DEF CatchUpInv, ServerInv, ServerTypes, TypeOK, Event, viewVars
    <2>4. /\ \A i \in 1..Len(inbox'[r]) :
               inbox'[r][i] = Joined \/ (i \in 1..Len(inbox[r]) /\ inbox'[r][i] = inbox[r][i])
          /\ Len(inbox[r]) + 1 \in 1..Len(inbox'[r]) /\ inbox'[r][Len(inbox[r]) + 1] = Joined
      <3>1. inbox[r] \in Seq(Event) /\ Joined \in Event
        BY CatchUpTypes
      <3>2. QED
        BY <2>2, <3>1
    <2>5. NotAhead(r)' /\ IsOld(r)'
      BY <2>1, <2>4 DEF CatchUpInv, NotAhead, IsOld, Existing, Newest, serverVars, viewVars
    <2>6. \A m \in Messages : Coming(r, m)'
      BY <2>4 DEF Coming, Brings
    <2>7. CaughtUp(r)'
      BY <2>6 DEF CaughtUp, Existing
    <2>8. QED
      BY <2>1, <2>2, <2>3, <2>5, <2>7, ReaderStep DEF viewVars
  <1>2. CASE JoinRefused(r)
    <2>1. /\ joining' = [joining EXCEPT ![r] = FALSE]
          /\ incidents' = incidents + 1 /\ incidents < MaxIncidents
          /\ UNCHANGED <<serverVars, online, room, inbox, viewVars>>
      BY <1>2 DEF JoinRefused, Incident
    <2>2. incidents' \in 0..MaxIncidents /\ joining' \in [Readers -> BOOLEAN]
      BY <2>1, CatchUpTypes, ChatAssumption
    <2>3. TypeOK' /\ DOMAIN lists' = Readers
      BY <2>1, <2>2 DEF CatchUpInv, ServerInv, ServerTypes, TypeOK, viewVars
    <2>4. NotAhead(r)' /\ IsOld(r)'
      BY <2>1 DEF CatchUpInv, NotAhead, IsOld, Existing, Newest, serverVars, viewVars
    <2>5. \A m \in Messages : Coming(r, m) => Coming(r, m)'
      BY <2>1 DEF Coming, Brings, serverVars, viewVars
    <2>6. CaughtUp(r)'
      BY <2>1, <2>5, CalmReader DEF CaughtUp, Existing, viewVars
    <2>7. QED
      BY <2>1, <2>3, <2>4, <2>6, ReaderStep DEF viewVars
  <1>3. CASE Connect(r)
    <2>1. /\ online' = [online EXCEPT ![r] = TRUE]
          /\ Subscribe(r) \/ UNCHANGED <<joining, asked>>
          /\ UNCHANGED <<serverVars, room, inbox, loaded, view, lists, excused, missed, incidents>>
      BY <1>3 DEF Connect
    <2>2. /\ online' \in [Readers -> BOOLEAN] /\ joining' \in [Readers -> BOOLEAN]
          /\ asked' \in [Readers -> Nat]
          /\ asked[r] > 0 => asked'[r] > 0
          /\ \A q \in Readers \ {r} : asked'[q] = asked[q]
      <3>1. CASE Subscribe(r)
        BY <2>1, <3>1, CatchUpTypes DEF Subscribe
      <3>2. CASE UNCHANGED <<joining, asked>>
        BY <2>1, <3>2, CatchUpTypes
      <3>3. QED
        BY <2>1, <3>1, <3>2
    <2>3. TypeOK' /\ DOMAIN lists' = Readers
      BY <2>1, <2>2 DEF CatchUpInv, ServerInv, ServerTypes, TypeOK
    <2>4. NotAhead(r)' /\ IsOld(r)'
      BY <2>1 DEF CatchUpInv, NotAhead, IsOld, Existing, Newest, serverVars
    <2>5. \A m \in Messages : Coming(r, m) => Coming(r, m)'
      BY <2>1, <2>2 DEF Coming, Brings, serverVars
    <2>6. CaughtUp(r)'
      BY <2>1, <2>5, CalmReader DEF CaughtUp, Existing
    <2>7. QED
      BY <2>1, <2>2, <2>3, <2>4, <2>6, ReaderStep
  <1>4. QED
    BY <1>1, <1>2, <1>3

\* The connection breaks.
LEMMA DisconnectStep ==
  ASSUME CatchUpInv, ServerInv', NEW r \in Readers, Disconnect(r)
  PROVE  CatchUpInv'
  <1>1. /\ online' = [online EXCEPT ![r] = FALSE] /\ room' = [room EXCEPT ![r] = FALSE]
        /\ joining' = [joining EXCEPT ![r] = FALSE] /\ inbox' = [inbox EXCEPT ![r] = <<>>]
        /\ incidents' = incidents + 1 /\ incidents < MaxIncidents
        /\ UNCHANGED <<serverVars, viewVars>>
    BY DEF Disconnect, Incident
  <1>2. /\ online' \in [Readers -> BOOLEAN] /\ room' \in [Readers -> BOOLEAN]
        /\ joining' \in [Readers -> BOOLEAN] /\ inbox' \in [Readers -> Seq(Event)]
        /\ incidents' \in 0..MaxIncidents /\ ~room'[r] /\ inbox'[r] = <<>>
        /\ \A q \in Readers \ {r} : room'[q] = room[q] /\ inbox'[q] = inbox[q]
    BY <1>1, CatchUpTypes, ChatAssumption
  <1>3. TypeOK' /\ DOMAIN lists' = Readers
    BY <1>1, <1>2 DEF CatchUpInv, ServerInv, ServerTypes, TypeOK, Event, viewVars
  <1>4. NotAhead(r)' /\ CaughtUp(r)' /\ IsOld(r)'
    <2>1. NotAhead(r)'
      BY <1>1, <1>2 DEF CatchUpInv, NotAhead, serverVars, viewVars
    <2>2. CaughtUp(r)'
      BY <1>2 DEF CaughtUp
    <2>3. IsOld(r)'
      BY <1>1 DEF CatchUpInv, IsOld, Existing, Newest, serverVars, viewVars
    <2>4. QED
      BY <2>1, <2>2, <2>3
  <1>5. QED
    BY <1>1, <1>2, <1>3, <1>4, ReaderStep DEF viewVars

\* An event arrives: chat.joined asks for a list, another is shown.
LEMMA ReceiveStep ==
  ASSUME CatchUpInv, ServerInv', NEW r \in Readers, Receive(r)
  PROVE  CatchUpInv'
  <1> DEFINE e == Head(inbox[r])
             D == {e.msg}
             shown == [n \in D |-> e.ver]
  <1>1. /\ inbox[r] # <<>> /\ inbox' = [inbox EXCEPT ![r] = Tail(@)]
        /\ IF e = Joined
           THEN asked' = [asked EXCEPT ![r] = asked[r] + 1] /\ UNCHANGED <<view, excused, missed>>
           ELSE Show(r, shown) /\ UNCHANGED asked
        /\ UNCHANGED <<serverVars, online, joining, room, loaded, lists, incidents>>
    BY DEF Receive, Relist, Merge
  <1>2. /\ inbox' \in [Readers -> Seq(Event)] /\ inbox'[r] = Tail(inbox[r])
        /\ \A q \in Readers \ {r} : inbox'[q] = inbox[q]
    BY <1>1, CatchUpTypes
  <1>3. /\ e \in Event /\ e = inbox[r][1]
        /\ \A i \in 1..Len(inbox'[r]) : i + 1 \in 1..Len(inbox[r]) /\ inbox'[r][i] = inbox[r][i + 1]
        /\ \A i \in 1..Len(inbox[r]) : i # 1 =>
             i - 1 \in 1..Len(inbox'[r]) /\ inbox'[r][i - 1] = inbox[r][i]
        /\ 1 \in 1..Len(inbox[r])
    <2>1. inbox[r] \in Seq(Event) /\ inbox[r] # <<>>
      BY <1>1, CatchUpTypes
    <2>2. QED
      BY <1>2, <2>1
  <1>4. \A i \in 1..Len(inbox'[r]) :
          \/ inbox'[r][i] = Joined
          \/ inbox'[r][i].msg \in Messages /\ inbox'[r][i].ver <= row[inbox'[r][i].msg]
    BY <1>3 DEF CatchUpInv, NotAhead
  <1>5. CASE e = Joined
    <2>1. /\ asked' \in [Readers -> Nat] /\ asked'[r] > 0
          /\ \A q \in Readers \ {r} : asked'[q] = asked[q]
      <3>1. asked' = [asked EXCEPT ![r] = asked[r] + 1]
        BY <1>1, <1>5
      <3>2. asked \in [Readers -> Nat]
        BY CatchUpTypes
      <3>3. QED
        BY <3>1, <3>2
    <2>2. UNCHANGED <<view, excused, missed>>
      BY <1>1, <1>5
    <2>3. TypeOK' /\ DOMAIN lists' = Readers
      BY <1>1, <1>2, <2>1, <2>2 DEF CatchUpInv, ServerInv, ServerTypes, TypeOK, Event
    <2>4. NotAhead(r)' /\ IsOld(r)'
      BY <1>1, <1>4, <2>2 DEF CatchUpInv, NotAhead, IsOld, Existing, Newest, serverVars
    <2>5. \A m \in Messages : Coming(r, m)'
      BY <2>1 DEF Coming
    <2>6. CaughtUp(r)'
      BY <2>5 DEF CaughtUp, Existing
    <2>7. QED
      BY <1>1, <1>2, <2>1, <2>2, <2>3, <2>4, <2>6, ReaderStep
  <1>6. CASE e # Joined
    <2>1. e.msg \in Messages /\ e.ver <= row[e.msg] /\ e.ver \in Version
      BY <1>3, <1>6 DEF CatchUpInv, NotAhead, Event
    <2>2. D \in SUBSET Messages /\ shown \in [D -> Version] /\ \A n \in D : shown[n] <= row[n]
      BY <2>1
    <2>3. Show(r, shown) /\ UNCHANGED <<asked, row>>
      BY <1>1, <1>6 DEF serverVars
    <2>4. \A m \in Messages : e = [msg |-> m, ver |-> row[m]] => m \in D /\ shown[m] = row[m]
      OBVIOUS
    <2> HIDE DEF D, shown
    <2>5. /\ view' \in [Readers -> [Messages -> Version]]
          /\ excused' \in [Readers -> SUBSET Messages] /\ missed' \in [Readers -> SUBSET Messages]
          /\ \A q \in Readers \ {r} :
               view'[q] = view[q] /\ excused'[q] = excused[q] /\ missed'[q] = missed[q]
          /\ \A m \in Messages : view'[r][m] <= row[m]
          /\ \A m \in D : shown[m] = row[m] => view'[r][m] = row[m]
          /\ missed'[r] \subseteq missed[r]
          /\ \A m \in Messages \ (excused'[r] \union missed'[r]) :
               view'[r][m] = row[m] \/ (m \notin excused[r] \union missed[r] /\ view[r][m] # row[m])
      BY <2>2, <2>3, ShowStep
    <2>6. TypeOK' /\ DOMAIN lists' = Readers
      BY <1>1, <1>2, <2>3, <2>5 DEF CatchUpInv, ServerInv, ServerTypes, TypeOK, Event
    <2>7. NotAhead(r)' /\ IsOld(r)'
      <3>1. NotAhead(r)'
        BY <1>1, <1>4, <2>3, <2>5 DEF CatchUpInv, NotAhead
      <3>2. IsOld(r)'
        BY <2>3, <2>5 DEF CatchUpInv, IsOld, Existing, Newest
      <3>3. QED
        BY <3>1, <3>2
    <2>8. CaughtUp(r)'
      <3>1. ASSUME room[r], NEW m \in Existing \ (excused'[r] \union missed'[r]), view'[r][m] # row[m]
            PROVE  Coming(r, m)' \/ \E h \in Handlers : Owes(h, m)
        <4>1. m \notin excused[r] \union missed[r] /\ view[r][m] # row[m] /\ e # [msg |-> m, ver |-> row[m]]
          BY <2>4, <2>5, <3>1 DEF Existing
        <4>2. CASE asked[r] > 0
          BY <2>3, <4>2 DEF Coming
        <4>3. ASSUME NEW i \in 1..Len(inbox[r]), Brings(inbox[r][i], m) PROVE Coming(r, m)'
          <5>1. i # 1
            BY <1>3, <1>6, <4>1, <4>3 DEF Brings
          <5>2. QED
            BY <1>3, <2>3, <4>3, <5>1 DEF Coming, Brings
        <4>4. ASSUME NEW l \in BagToSet(lists[r]), l[m] = row[m] PROVE Coming(r, m)'
          BY <1>1, <2>3, <4>4 DEF Coming
        <4>5. QED
          BY <3>1, <4>1, <4>2, <4>3, <4>4 DEF CatchUpInv, CaughtUp, Coming, Existing
      <3>2. \A m \in Messages, h \in Handlers : Owes(h, m) => Owes(h, m)'
        BY <1>1 DEF Owes, serverVars
      <3>3. QED
        BY <1>1, <2>3, <3>1, <3>2 DEF CaughtUp, Existing
    <2>9. QED
      BY <1>1, <1>2, <2>3, <2>5, <2>6, <2>7, <2>8, ReaderStep
  <1>7. QED
    BY <1>5, <1>6

\* A list arrives and is shown.
LEMMA ListArrivesStep ==
  ASSUME CatchUpInv, ServerInv', NEW r \in Readers, NEW rows \in BagToSet(lists[r]),
         ListArrives(r, rows)
  PROVE  CatchUpInv'
  <1> DEFINE D == {n \in Messages : rows[n] # 0}
             shown == [m \in D |-> rows[m]]
  <1>1. /\ Show(r, shown) /\ lists' = [lists EXCEPT ![r] = @ (-) SetToBag({rows})]
        /\ loaded' = [loaded EXCEPT ![r] = TRUE]
        /\ Subscribe(r) \/ UNCHANGED <<joining, asked>>
        /\ UNCHANGED <<serverVars, online, room, inbox, incidents>> /\ UNCHANGED row
    BY DEF ListArrives, serverVars
  <1>2. rows \in [Messages -> Version] /\ \A m \in Messages : rows[m] <= row[m]
    BY CatchUpTypes DEF CatchUpInv, NotAhead
  <1>3. D \in SUBSET Messages /\ shown \in [D -> Version] /\ \A n \in D : shown[n] <= row[n]
    BY <1>2
  <1>4. \A m \in Existing : rows[m] = row[m] => m \in D /\ shown[m] = row[m]
    BY DEF Existing
  <1> HIDE DEF D, shown
  <1>5. /\ view' \in [Readers -> [Messages -> Version]]
        /\ excused' \in [Readers -> SUBSET Messages] /\ missed' \in [Readers -> SUBSET Messages]
        /\ \A q \in Readers \ {r} :
             view'[q] = view[q] /\ excused'[q] = excused[q] /\ missed'[q] = missed[q]
        /\ \A m \in Messages : view'[r][m] <= row[m]
        /\ \A m \in D : shown[m] = row[m] => view'[r][m] = row[m]
        /\ missed'[r] \subseteq missed[r]
        /\ \A m \in Messages \ (excused'[r] \union missed'[r]) :
             view'[r][m] = row[m] \/ (m \notin excused[r] \union missed[r] /\ view[r][m] # row[m])
    BY <1>1, <1>3, ShowStep
  <1>6. /\ DOMAIN lists' = Readers /\ lists'[r] = lists[r] (-) SetToBag({rows})
        /\ \A q \in Readers \ {r} : lists'[q] = lists[q]
    BY <1>1 DEF CatchUpInv
  <1>7. /\ IsABag(lists[r])' /\ BagToSet(lists'[r]) \subseteq BagToSet(lists[r])
        /\ \A l \in BagToSet(lists[r]) : l = rows \/ l \in BagToSet(lists'[r])
        /\ \A q \in Readers \ {r} : IsABag(lists[q])' /\ BagToSet(lists[q])' = BagToSet(lists[q])
    <2>1. IsABag(lists[r])
      BY CatchUpTypes
    <2>2. LET B == lists[r] (-) SetToBag({rows}) IN
          /\ IsABag(B) /\ BagToSet(B) \subseteq BagToSet(lists[r])
          /\ BagToSet(lists[r]) \ {rows} \subseteq BagToSet(B)
      BY <2>1, BagSteps, Zenon
    <2>3. QED
      BY <1>6, <2>2, CatchUpTypes
  <1>8. /\ loaded' \in [Readers -> BOOLEAN] /\ joining' \in [Readers -> BOOLEAN]
        /\ asked' \in [Readers -> Nat]
        /\ asked[r] > 0 => asked'[r] > 0
        /\ \A q \in Readers \ {r} : asked'[q] = asked[q]
    <2>1. CASE Subscribe(r)
      BY <1>1, <2>1, CatchUpTypes DEF Subscribe
    <2>2. CASE UNCHANGED <<joining, asked>>
      BY <1>1, <2>2, CatchUpTypes
    <2>3. QED
      BY <1>1, <2>1, <2>2
  <1>9. TypeOK'
    BY <1>1, <1>5, <1>7, <1>8, CatchUpTypes DEF ServerInv, ServerTypes, TypeOK, Event
  <1>10. NotAhead(r)' /\ IsOld(r)'
    <2>1. NotAhead(r)'
      BY <1>1, <1>5, <1>7 DEF CatchUpInv, NotAhead
    <2>2. IsOld(r)'
      BY <1>1, <1>5 DEF CatchUpInv, IsOld, Existing, Newest
    <2>3. QED
      BY <2>1, <2>2
  <1>11. CaughtUp(r)'
    <2>1. ASSUME room[r], NEW m \in Existing \ (excused'[r] \union missed'[r]), view'[r][m] # row[m]
          PROVE  Coming(r, m)' \/ \E h \in Handlers : Owes(h, m)
      <3>1. m \notin excused[r] \union missed[r] /\ view[r][m] # row[m] /\ rows[m] # row[m]
        BY <1>4, <1>5, <2>1 DEF Existing
      <3>2. Coming(r, m) => Coming(r, m)'
        BY <1>1, <1>7, <1>8, <3>1 DEF Coming, Brings
      <3>3. QED
        BY <2>1, <3>1, <3>2 DEF CatchUpInv, CaughtUp, Existing
    <2>2. \A m \in Messages, h \in Handlers : Owes(h, m) => Owes(h, m)'
      BY <1>1 DEF Owes, serverVars
    <2>3. QED
      BY <1>1, <2>1, <2>2 DEF CaughtUp, Existing
  <1>12. QED
    BY <1>1, <1>5, <1>6, <1>8, <1>9, <1>10, <1>11, ReaderStep

LEMMA CatchUpStep == CatchUpInv /\ [Next]_vars => CatchUpInv'
  <1> SUFFICES ASSUME CatchUpInv, [Next]_vars PROVE CatchUpInv'
    OBVIOUS
  <1>1. ServerInv'
    BY ServerStep DEF CatchUpInv
  <1>2. ASSUME NEW h \in Handlers, Execute(h) PROVE CatchUpInv'
    BY <1>1, <1>2, CommitStep, PublishStep, AnswerStep, FailStep DEF Execute
  <1>3. ASSUME NEW r \in Readers, Conversation(r) PROVE CatchUpInv'
    BY <1>1, <1>3, ListReadStep, ListFailsStep, JoinStep, ReceiveStep, DisconnectStep,
       ListArrivesStep DEF Conversation
  <1>4. CASE UNCHANGED vars
    <2>1. TypeOK' /\ \A h \in Handlers : HandlerInv(h)'
      BY <1>4 DEF CatchUpInv, TypeOK, HandlerInv, vars, serverVars, socketVars, viewVars
    <2>2. \A r \in Readers : NotAhead(r)' /\ CaughtUp(r)' /\ IsOld(r)'
      BY <1>4 DEF CatchUpInv, NotAhead, CaughtUp, IsOld, Existing, Newest, Coming, Brings, Owes,
                  vars, serverVars, socketVars, viewVars
    <2>3. QED
      BY <1>1, <1>4, <2>1, <2>2 DEF CatchUpInv, vars, viewVars
  <1>5. QED
    BY <1>1, <1>2, <1>3, <1>4, TakeStep DEF Next

LEMMA CatchUpInvariant == Spec => []CatchUpInv
  <1>1. Init => CatchUpInv
    <2> SUFFICES ASSUME Init PROVE CatchUpInv
      OBVIOUS
    <2>1. ServerInv
      BY InitServerInv
    <2>2. 0 \in Version /\ 0 \in 0..MaxIncidents
      BY ChatAssumption DEF Version
    <2>3. TypeOK /\ DOMAIN lists = Readers
      BY <2>1, <2>2, EmptyBagStep DEF Init, ServerInv, ServerTypes, TypeOK
    <2>4. \A h \in Handlers : HandlerInv(h)
      BY DEF Init, HandlerInv, Idle
    <2>5. \A r \in Readers : NotAhead(r) /\ CaughtUp(r) /\ IsOld(r)
      <3>1. \A m \in Messages : row[m] \in Nat
        BY ChatAssumption DEF Init
      <3>2. QED
        BY <3>1, EmptyBagStep DEF Init, NotAhead, CaughtUp, IsOld
    <2>6. QED
      BY <2>1, <2>3, <2>4, <2>5 DEF CatchUpInv
  <1>2. QED
    BY <1>1, CatchUpStep, PTL DEF Spec

\* Type correctness of the channel.
THEOREM TypeCorrect == Spec => []TypeOK
  <1>1. CatchUpInv => TypeOK
    BY DEF CatchUpInv
  <1>2. QED
    BY <1>1, CatchUpInvariant, PTL

\* A conversation that has joined, and has nothing more to receive, shows the newest page as
\* the database has it, in whatever order events, answers and lists arrived, and an older
\* message too unless it was not shown as it was when a list was last read; only a message
\* whose event was lost or overtaken may be old.
THEOREM ConversationsCatchUp == Spec => []ViewsCatchUp
  <1>1. CatchUpInv => ViewsCatchUp
    <2> SUFFICES ASSUME CatchUpInv, NEW r \in Readers, AtRest(r),
                        NEW m \in Existing \ (excused[r] \union (missed[r] \ Newest))
                 PROVE  view[r][m] = row[m]
      BY DEF ViewsCatchUp
    <2>1. m \notin missed[r]
      BY DEF CatchUpInv, IsOld
    <2>2. view[r][m] = row[m] \/ Coming(r, m) \/ \E h \in Handlers : Owes(h, m)
      BY <2>1 DEF CatchUpInv, CaughtUp, AtRest
    <2>3. \A h \in Handlers : ~Owes(h, m)
      BY DEF AtRest, Owes
    <2>4. ~Coming(r, m)
      BY EmptyBagStep, CatchUpTypes DEF Coming, AtRest
    <2>5. QED
      BY <2>2, <2>3, <2>4
  <1>2. QED
    BY <1>1, CatchUpInvariant, PTL
=============================================================================
