-------------------------------- MODULE Pages --------------------------------
(***************************************************************************)
(* The lists of the API, read page by page while the rows change.          *)
(*                                                                         *)
(* A list sorts its rows by a rank, a time and an id.  A page is one       *)
(* query: the rows beyond the cursor, in order, one more than the page     *)
(* holds.  The cursor the service hands out is made from a row of the page *)
(* as the server read it.  Times count half milliseconds: the database     *)
(* keeps more digits than a Date of the server, so that a time given by    *)
(* the database is cut when it goes into a cursor.                         *)
(***************************************************************************)
EXTENDS Integers, FiniteSets

CONSTANTS
    MaxRow,      \* rows are numbered: their ids in order
    MaxTime,     \* bound on the times
    Limits,      \* the page sizes a reader asks for
    MaxChanges   \* bound on the changes to the rows while he reads

ASSUME PagesAssumption ==
    /\ MaxRow \in Nat /\ MaxTime \in Nat /\ MaxChanges \in Nat
    /\ Limits \subseteq Nat \ {0}

Rows == 1..MaxRow

-----------------------------------------------------------------------------
(* The lists.  ranks: what comes before the time in the order; fine: the    *)
(* time is the database's, not a Date; ascending: first the smallest; moves,*)
(* leaves, hides: a row may get another key, leave the list, or be dropped  *)
(* from the page after the query; cursor: what the cursor is made of.       *)

Plain == [ranks |-> {0}, fine |-> TRUE, ascending |-> FALSE,
          moves |-> FALSE, leaves |-> TRUE, hides |-> FALSE, cursor |-> "last"]

LatestTopics  == [Plain EXCEPT !.ranks = {0, 1}, !.fine = FALSE, !.moves = TRUE]   \* pinned
PopularTopics == [Plain EXCEPT !.ranks = {0, 1}, !.fine = FALSE, !.moves = TRUE]   \* replies
Feed          == [Plain EXCEPT !.ranks = 0..3, !.fine = FALSE, !.moves = TRUE, !.cursor = "rounded"]
TopicPosts    == [Plain EXCEPT !.fine = FALSE, !.ascending = TRUE, !.leaves = FALSE]
SavedTopics   == [Plain EXCEPT !.moves = TRUE, !.hides = TRUE]
SavedPosts    == [Plain EXCEPT !.moves = TRUE, !.hides = TRUE]
PublicPlaces  == Plain
MyPlaces      == Plain
Members       == Plain
Invites       == Plain
Bans          == Plain
Roles         == [Plain EXCEPT !.ranks = {0, 1}, !.fine = FALSE, !.ascending = TRUE, !.moves = TRUE]
Messages      == [Plain EXCEPT !.leaves = FALSE, !.cursor = "first"]
Notifications == Plain
Reports       == Plain
SearchResults == [Plain EXCEPT !.fine = FALSE, !.hides = TRUE, !.cursor = "offset"]

Lists == {LatestTopics, PopularTopics, Feed, TopicPosts, SavedTopics, SavedPosts, PublicPlaces,
          MyPlaces, Members, Invites, Bans, Roles, Messages, Notifications, Reports,
          SearchResults}

Start == [rank |-> 0, time |-> 0, id |-> 0]          \* no cursor yet
End   == [rank |-> -1, time |-> 0, id |-> 0]         \* no cursor any more

VARIABLES
    list,      \* the list the reader reads
    rows,      \* each row: whether it is in the list and shown, its rank and time
    cursor,    \* the cursor he holds: a key, Start or End
    offset,    \* rows before it: the cursor of the search
    got,       \* rows he got
    again,     \* rows he got more than once
    steady,    \* history: rows there when he began, shown and not changed since
    blurred,   \* history: rows a cut or rounded cursor cannot tell from the row it is of
    changes    \* how many changes there were

vars == <<list, rows, cursor, offset, got, again, steady, blurred, changes>>

Key(x)     == [rank |-> rows[x].rank, time |-> rows[x].time, id |-> x]
Listed     == {x \in Rows : rows[x].in}
Times      == {t \in 0..MaxTime : list.fine \/ t % 2 = 0}
Cut(t)     == t - (t % 2)                            \* toISOString

Less(k, l) ==
    \/ k.rank < l.rank
    \/ k.rank = l.rank /\ k.time < l.time
    \/ k.rank = l.rank /\ k.time = l.time /\ k.id < l.id

Precedes(k, l) == IF list.ascending THEN Less(k, l) ELSE Less(l, k)

RowsOf(l) ==
    [in : BOOLEAN, shown : BOOLEAN, rank : l.ranks, time : {t \in 0..MaxTime : l.fine \/ t % 2 = 0}]

Init ==
    /\ list \in Lists
    /\ rows \in [Rows -> {r \in RowsOf(list) : r.in \/ (r.rank = 0 /\ r.time = 0 /\ r.shown)}]
    /\ \A x \in Rows : ~list.hides => rows[x].shown
    /\ cursor = Start /\ offset = 0
    /\ got = {} /\ again = {}
    /\ steady = {x \in Listed : rows[x].shown}
    /\ blurred = {} /\ changes = 0

-----------------------------------------------------------------------------
(* A page.                                                                 *)

\* The rows a query selects: those beyond the cursor; the search counts them off.
Beyond_From(x) == ~Precedes(Key(x), cursor)    \* mutated: from the cursor on
Beyond(x) == Precedes(cursor, Key(x))

Rank(x) == Cardinality({y \in Listed : Precedes(Key(y), Key(x))})

Selected ==
    IF list.cursor = "offset" THEN {x \in Listed : Rank(x) >= offset}
    ELSE {x \in Listed : cursor = Start \/ Beyond(x)}

Page(n) == {x \in Selected : Cardinality({y \in Selected : Precedes(Key(y), Key(x))}) < n}

FirstOf(S) == CHOOSE x \in S : \A y \in S \ {x} : Precedes(Key(x), Key(y))
LastOf(S)  == CHOOSE x \in S : \A y \in S \ {x} : Precedes(Key(y), Key(x))

\* The row the cursor is made of.  listMessages reverses the page before it takes the last.
CursorRow_Next(S) ==                   \* mutated: the row that did not fit
    LET rest == Selected \ S IN IF rest = {} THEN LastOf(S) ELSE FirstOf(rest)
CursorRow(S) == IF list.cursor = "first" THEN FirstOf(S) ELSE LastOf(S)

\* The keys the cursor may carry: the time of a Date; the score of the feed, an exact
\* number in the database, as a double.
CursorKeys(x) ==
    {[rank |-> r, time |-> Cut(rows[x].time), id |-> x] :
        r \in IF list.cursor = "rounded" /\ rows[x].rank % 2 = 1
              THEN {rows[x].rank - 1, rows[x].rank + 1} ELSE {rows[x].rank}}

Confusable(x) ==
    {y \in Rows :
        \/ list.fine /\ rows[y].rank = rows[x].rank /\ Cut(rows[y].time) = Cut(rows[x].time)
        \/ list.cursor = "rounded" /\ rows[x].rank % 2 = 1 /\ rows[y].rank - rows[x].rank \in -1..1}

Read(n) ==
    /\ cursor # End
    /\ LET page == Page(n)
           items == {x \in page : rows[x].shown} IN
       /\ again' = again \union (got \intersect items)
       /\ got' = got \union items
       /\ offset' = IF list.cursor = "offset" THEN offset + Cardinality(page) ELSE 0
       /\ IF page = Selected THEN cursor' = End /\ UNCHANGED blurred
          ELSE /\ cursor' \in CursorKeys(CursorRow(page))
               /\ blurred' = blurred \union Confusable(CursorRow(page))
    /\ UNCHANGED <<list, rows, steady, changes>>

-----------------------------------------------------------------------------
(* What happens to the rows meanwhile.                                     *)

\* For the search a change of one row shifts all the others.
Change(x, r) ==
    /\ cursor # End
    /\ changes < MaxChanges /\ changes' = changes + 1
    /\ rows' = [rows EXCEPT ![x] = r]
    /\ steady' = IF list.cursor = "offset" THEN {} ELSE steady \ {x}
    /\ UNCHANGED <<list, cursor, offset, got, again, blurred>>

\* A row appears; its time is that of the request or transaction, which may have begun
\* long before.  A saved topic or post may come back after it left.
Appear(x) ==
    /\ x \notin Listed /\ (x \in got => list.moves)
    /\ \E r \in RowsOf(list) : r.in /\ r.shown /\ Change(x, r)

Disappear(x) ==
    /\ list.leaves /\ x \in Listed
    /\ Change(x, [rows[x] EXCEPT !.in = FALSE])

\* A reply, a reaction, a view, a pin, another position.
Move(x) ==
    /\ list.moves /\ x \in Listed
    /\ \E k \in list.ranks, t \in Times : Change(x, [rows[x] EXCEPT !.rank = k, !.time = t])

\* The reader loses access to what a row shows, or gets it back.
Hide(x) ==
    /\ list.hides /\ x \in Listed
    /\ Change(x, [rows[x] EXCEPT !.shown = ~@])

Next ==
    \/ \E n \in Limits : Read(n)
    \/ \E x \in Rows : Appear(x) \/ Disappear(x) \/ Move(x) \/ Hide(x)

Spec == Init /\ [][Next]_vars

-----------------------------------------------------------------------------
(* Properties.                                                             *)

\* Every variable has its type.
TypeOK ==
    /\ list \in Lists
    /\ rows \in [Rows -> RowsOf(list)]
    /\ cursor \in [rank : -1..4, time : 0..MaxTime, id : 0..MaxRow]
    /\ offset \in Nat
    /\ got \subseteq Rows /\ again \subseteq Rows /\ steady \subseteq Rows /\ blurred \subseteq Rows
    /\ changes \in 0..MaxChanges

\* Who reads a list to its end has got every row that was there all along, whatever
\* appears, leaves and moves between the pages and whatever page sizes he asks for.  Only
\* rows of the millisecond in which a page ended, or within the rounding of its score, can
\* be missed; and the results of the search while its index changes.
NothingSkipped == cursor = End => steady \ blurred \subseteq got

\* No row that stays where it is comes twice; but in the chat, whose cursor is that of the
\* newest message of the page.
NothingTwice == list.cursor # "first" => again \intersect steady \subseteq blurred
=============================================================================
