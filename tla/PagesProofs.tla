----------------------------- MODULE PagesProofs -----------------------------
(***************************************************************************)
(* Reading a list to its end: no row that stays is missed and none comes   *)
(* twice, for any number of rows, any times, page sizes and changes.       *)
(* PagesInv is inductive.  It relates the cursor to the rows got: of the   *)
(* rows that stayed and that the cursor can tell apart, those it has       *)
(* passed were got and those beyond it were not; the search counts them    *)
(* off instead.  A page takes the first of the rows beyond the cursor, so  *)
(* that its last row is where the next one goes on.                        *)
(***************************************************************************)
EXTENDS Pages, FiniteSetTheorems, TLAPS

\* Rows that stayed are in the list, shown.
SteadyShown == \A x \in steady : x \in Listed /\ rows[x].shown

\* Before the first page nothing was got.
FreshStart == cursor = Start => got = {} /\ offset = 0

\* What the cursor has passed was got, and what is beyond it was not; but the chat's, which
\* goes back, gives again what was got.
Passed(x) == cursor # Start /\ (cursor = End \/ ~Beyond(x))
CursorInv ==
  list.cursor # "offset" => \A x \in steady \ blurred :
    /\ Passed(x) => x \in got
    /\ list.cursor # "first" /\ x \in got => Passed(x)

\* The search: as long as nothing changes, the rows counted off are the first ones.
CountedOff == {y \in Listed : Rank(y) < offset}
OffsetInv ==
  list.cursor = "offset" =>
    /\ blurred = {}
    /\ cursor # End /\ steady # {} => Cardinality(CountedOff) = offset
    /\ \A x \in steady : x \in got <=> cursor = End \/ Rank(x) < offset

PagesInv ==
  /\ TypeOK
  /\ SteadyShown /\ FreshStart
  /\ CursorInv /\ OffsetInv /\ NothingTwice

-----------------------------------------------------------------------------
(* The order of the rows.                                                   *)

Keys == [rank : Int, time : Int, id : Int]
Before(x, y) == Precedes(Key(x), Key(y))

LEMMA PrecedesOrder ==
  /\ \A k \in Keys : ~Precedes(k, k)
  /\ \A k, l, m \in Keys : Precedes(k, l) /\ Precedes(l, m) => Precedes(k, m)
  /\ \A k, l \in Keys : Precedes(k, l) \/ k = l \/ Precedes(l, k)
  <1>1. \A k \in Keys : ~Less(k, k)
    BY DEF Keys, Less
  <1>2. \A k, l, m \in Keys : Less(k, l) /\ Less(l, m) => Less(k, m)
    BY DEF Keys, Less
  <1>3. \A k, l \in Keys : Less(k, l) \/ k = l \/ Less(l, k)
    BY DEF Keys, Less
  <1>4. CASE list.ascending
    BY <1>1, <1>2, <1>3, <1>4 DEF Precedes
  <1>5. CASE ~list.ascending
    BY <1>1, <1>2, <1>3, <1>5 DEF Precedes
  <1>6. QED
    BY <1>4, <1>5

\* What the lists have in common.
LEMMA ListFacts ==
  ASSUME NEW l \in Lists
  PROVE  /\ l.ranks \subseteq 0..3 /\ l.ranks # {} /\ 0 \in l.ranks
         /\ l.cursor = "rounded" => ~l.fine
         /\ l.cursor = "offset" => ~l.fine
         /\ l.fine \in BOOLEAN /\ l.ascending \in BOOLEAN
  <1>1. CASE l = LatestTopics
    BY <1>1 DEF LatestTopics, Plain
  <1>2. CASE l = Feed
    BY <1>2 DEF Feed, Plain
  <1>3. CASE l = TopicPosts
    BY <1>3 DEF TopicPosts, Plain
  <1>4. CASE l = SavedTopics
    BY <1>4 DEF SavedTopics, Plain
  <1>5. CASE l = Plain
    BY <1>5 DEF Plain
  <1>6. CASE l = Roles
    BY <1>6 DEF Roles, Plain
  <1>7. CASE l = Messages
    BY <1>7 DEF Messages, Plain
  <1>8. CASE l = SearchResults
    BY <1>8 DEF SearchResults, Plain
  <1>9. QED
    BY <1>1, <1>2, <1>3, <1>4, <1>5, <1>6, <1>7, <1>8
    DEF Lists, LatestTopics, PopularTopics, SavedTopics, SavedPosts, PublicPlaces, MyPlaces,
        Members, Invites, Bans, Notifications, Reports

LEMMA RowFacts ==
  ASSUME TypeOK, NEW x \in Rows
  PROVE  /\ Key(x) \in Keys /\ rows[x].rank \in 0..3 /\ rows[x].time \in 0..MaxTime
         /\ ~list.fine => rows[x].time % 2 = 0
         /\ Key(x).id = x /\ x \in 1..MaxRow
  BY ListFacts, PagesAssumption DEF TypeOK, RowsOf, Key, Keys, Rows

LEMMA BeforeOrder ==
  ASSUME TypeOK
  PROVE  /\ \A x \in Rows : ~Before(x, x)
         /\ \A x, y, z \in Rows : Before(x, y) /\ Before(y, z) => Before(x, z)
         /\ \A x, y \in Rows : Before(x, y) \/ x = y \/ Before(y, x)
  BY RowFacts, PrecedesOrder DEF Before

LEMMA RowsFinite ==
  /\ IsFiniteSet(Rows)
  /\ \A S \in SUBSET Rows : IsFiniteSet(S) /\ Cardinality(S) \in Nat
  <1>1. IsFiniteSet(Rows)
    BY PagesAssumption, FS_Interval DEF Rows
  <1>2. ASSUME NEW S \in SUBSET Rows PROVE IsFiniteSet(S) /\ Cardinality(S) \in Nat
    BY <1>1, FS_Subset, FS_CardinalityType
  <1>3. QED
    BY <1>1, <1>2

Preds(S, x) == {y \in S : Before(y, x)}
Succs(S, x) == {y \in S : Before(x, y)}

\* Rows have a first and a last.
LEMMA Extrema ==
  ASSUME TypeOK, NEW S \in SUBSET Rows, S # {}
  PROVE  /\ FirstOf(S) \in S /\ \A y \in S \ {FirstOf(S)} : Before(FirstOf(S), y)
         /\ LastOf(S) \in S /\ \A y \in S \ {LastOf(S)} : Before(y, LastOf(S))
  <1> DEFINE R == StrictSubsetOrdering(S)
  <1>1. IsWellFoundedOn(R, FiniteSubsetsOf(S)) /\ FiniteSubsetsOf(S) = SUBSET S
    BY RowsFinite, FS_StrictSubsetOrderingWellFounded, FS_FiniteSubsetsOfFinite
  <1>2. \E x \in S : \A y \in S \ {x} : Before(x, y)
    <2> DEFINE T == {Preds(S, x) : x \in S}
    <2>1. T \subseteq SUBSET S /\ T # {}
      BY DEF Preds
    <2> HIDE DEF T, R
    <2>2. PICK P \in T : \A Q \in T : <<Q, P>> \notin R
      BY <1>1, <2>1, WFMin
    <2> USE DEF T, R
    <2>3. PICK x \in S : P = Preds(S, x)
      BY <2>2
    <2>4. ASSUME NEW y \in Preds(S, x) PROVE FALSE
      <3>1. y \in S /\ Preds(S, y) \in T
        BY DEF Preds
      <3>2. Preds(S, y) \subseteq Preds(S, x) /\ y \notin Preds(S, y)
        BY <2>3, <2>4, BeforeOrder DEF Preds
      <3>3. <<Preds(S, y), P>> \in R
        BY <2>3, <2>4, <3>2 DEF StrictSubsetOrdering, Preds
      <3>4. QED
        BY <2>2, <3>1, <3>3
    <2>5. QED
      BY <2>3, <2>4, BeforeOrder DEF Preds
  <1>3. \E x \in S : \A y \in S \ {x} : Before(y, x)
    <2> DEFINE T == {Succs(S, x) : x \in S}
    <2>1. T \subseteq SUBSET S /\ T # {}
      BY DEF Succs
    <2> HIDE DEF T, R
    <2>2. PICK P \in T : \A Q \in T : <<Q, P>> \notin R
      BY <1>1, <2>1, WFMin
    <2> USE DEF T, R
    <2>3. PICK x \in S : P = Succs(S, x)
      BY <2>2
    <2>4. ASSUME NEW y \in Succs(S, x) PROVE FALSE
      <3>1. y \in S /\ Succs(S, y) \in T
        BY DEF Succs
      <3>2. Succs(S, y) \subseteq Succs(S, x) /\ y \notin Succs(S, y)
        BY <2>3, <2>4, BeforeOrder DEF Succs
      <3>3. <<Succs(S, y), P>> \in R
        BY <2>3, <2>4, <3>2 DEF StrictSubsetOrdering, Succs
      <3>4. QED
        BY <2>2, <3>1, <3>3
    <2>5. QED
      BY <2>3, <2>4, BeforeOrder DEF Succs
  <1>4. QED
    BY <1>2, <1>3 DEF FirstOf, LastOf, Before

-----------------------------------------------------------------------------
(* A page.                                                                  *)

\* A page holds the first of the rows selected, and it is empty only if they are.
LEMMA PageFacts ==
  ASSUME TypeOK, NEW n \in Limits
  PROVE  /\ Selected \subseteq Listed /\ Listed \subseteq Rows /\ Page(n) \subseteq Selected
         /\ \A x \in Page(n), y \in Selected : Before(y, x) => y \in Page(n)
         /\ \A x \in Page(n), y \in Selected \ Page(n) : Before(x, y)
         /\ Page(n) # Selected => Page(n) # {}
         /\ Page(n) # Selected =>
              CursorRow(Page(n)) \in Page(n)
         /\ Page(n) # Selected /\ list.cursor = "first" =>
              \A y \in Page(n) \ {CursorRow(Page(n))} : Before(CursorRow(Page(n)), y)
         /\ Page(n) # Selected /\ list.cursor # "first" =>
              \A y \in Page(n) \ {CursorRow(Page(n))} : Before(y, CursorRow(Page(n)))
  <1> DEFINE page == Page(n)
  <1>1. Selected \subseteq Listed /\ Listed \subseteq Rows
    BY DEF Selected, Listed
  <1>2. page = {x \in Selected : Cardinality(Preds(Selected, x)) < n}
    BY DEF Page, Preds, Before
  <1> HIDE DEF page
  <1>3. n \in Nat /\ n > 0
    BY PagesAssumption
  <1>4. ASSUME NEW x \in page, NEW y \in Selected, Before(y, x) PROVE y \in page
    <2>1. Preds(Selected, y) \subseteq Preds(Selected, x) /\ Preds(Selected, x) \subseteq Rows
      BY <1>1, <1>2, <1>4, BeforeOrder DEF Preds
    <2>2. /\ Cardinality(Preds(Selected, y)) <= Cardinality(Preds(Selected, x))
          /\ Cardinality(Preds(Selected, y)) \in Nat /\ Cardinality(Preds(Selected, x)) \in Nat
      BY <2>1, RowsFinite, FS_Subset
    <2>3. QED
      BY <1>2, <1>3, <2>2
  <1>5. ASSUME NEW x \in page, NEW y \in Selected \ page PROVE Before(x, y)
    BY <1>1, <1>2, <1>4, BeforeOrder
  <1>6. ASSUME page # Selected PROVE page # {}
    <2>1. Selected # {} /\ Selected \in SUBSET Rows
      BY <1>1, <1>2, <1>6
    <2> DEFINE f == FirstOf(Selected)
    <2>2. f \in Selected /\ \A y \in Selected \ {f} : Before(f, y)
      BY <2>1, Extrema
    <2>3. Preds(Selected, f) = {}
      BY <1>1, <2>2, BeforeOrder DEF Preds
    <2>4. QED
      BY <1>2, <1>3, <2>2, <2>3, FS_EmptySet
  <1>7. page \in SUBSET Rows
    BY <1>1, <1>2
  <1>8. ASSUME page # Selected PROVE
          /\ FirstOf(page) \in page /\ \A y \in page \ {FirstOf(page)} : Before(FirstOf(page), y)
          /\ LastOf(page) \in page /\ \A y \in page \ {LastOf(page)} : Before(y, LastOf(page))
    BY <1>6, <1>7, <1>8, Extrema
  <1>9. QED
    BY <1>1, <1>2, <1>4, <1>5, <1>6, <1>8 DEF page, CursorRow

\* A cursor tells the row it is made of from the rows it is not confused with.
LEMMA CursorTells ==
  ASSUME TypeOK, NEW x \in Rows, NEW k \in CursorKeys(x)
  PROVE  /\ k \in [rank : -1..4, time : 0..MaxTime, id : 0..MaxRow]
         /\ k # Start /\ k # End
         /\ \A y \in Rows \ Confusable(x) : Precedes(k, Key(y)) <=> Before(x, y)
  <1>1. /\ rows[x].rank \in 0..3 /\ rows[x].time \in 0..MaxTime /\ x \in 1..MaxRow
        /\ ~list.fine => rows[x].time % 2 = 0
        /\ MaxRow \in Nat /\ MaxTime \in Nat /\ list.fine \in BOOLEAN
        /\ list.cursor = "rounded" => ~list.fine
    BY RowFacts, ListFacts, PagesAssumption DEF TypeOK
  <1>2. /\ k = [rank |-> k.rank, time |-> Cut(rows[x].time), id |-> x]
        /\ k.time = Cut(rows[x].time) /\ k.id = x
        /\ \/ k.rank = rows[x].rank
           \/ /\ list.cursor = "rounded" /\ rows[x].rank % 2 = 1
              /\ k.rank = rows[x].rank - 1 \/ k.rank = rows[x].rank + 1
        /\ list.cursor = "rounded" /\ rows[x].rank % 2 = 1 => k.rank # rows[x].rank
    BY <1>1 DEF CursorKeys
  <1>3. Cut(rows[x].time) \in 0..MaxTime /\ (~list.fine => Cut(rows[x].time) = rows[x].time)
    BY <1>1 DEF Cut
  <1>4. k.rank \in -1..4
    BY <1>1, <1>2
  <1>5. k \in [rank : -1..4, time : 0..MaxTime, id : 0..MaxRow] /\ k # Start /\ k # End
    BY <1>1, <1>2, <1>3, <1>4 DEF Start, End
  <1>6. ASSUME NEW y \in Rows \ Confusable(x) PROVE Precedes(k, Key(y)) <=> Before(x, y)
    <2>1. /\ rows[y].rank \in 0..3 /\ rows[y].time \in 0..MaxTime /\ y \in 1..MaxRow
          /\ ~list.fine => rows[y].time % 2 = 0
      BY <1>6, RowFacts
    <2>2. /\ Key(x).rank = rows[x].rank /\ Key(x).time = rows[x].time /\ Key(x).id = x
          /\ Key(y).rank = rows[y].rank /\ Key(y).time = rows[y].time /\ Key(y).id = y
      BY DEF Key
    <2>3. /\ list.fine => rows[y].rank # rows[x].rank \/ Cut(rows[y].time) # Cut(rows[x].time)
          /\ list.cursor = "rounded" /\ rows[x].rank % 2 = 1 => rows[y].rank - rows[x].rank \notin -1..1
      BY <1>6 DEF Confusable
    <2>4. (Less(k, Key(y)) <=> Less(Key(x), Key(y))) /\ (Less(Key(y), k) <=> Less(Key(y), Key(x)))
      <3>1. CASE k.rank # rows[x].rank
        <4>1. rows[y].rank - rows[x].rank \notin -1..1
          BY <1>2, <2>3, <3>1
        <4>2. rows[y].rank < rows[x].rank - 1 \/ rows[y].rank > rows[x].rank + 1
          BY <1>1, <2>1, <4>1
        <4>3. k.rank = rows[x].rank - 1 \/ k.rank = rows[x].rank + 1
          BY <1>2, <3>1
        <4>4. QED
          BY <1>1, <2>1, <2>2, <4>2, <4>3 DEF Less
      <3>2. CASE k.rank = rows[x].rank /\ ~list.fine
        BY <1>2, <1>3, <2>2, <3>2 DEF Less
      <3>3. CASE k.rank = rows[x].rank /\ list.fine
        BY <1>1, <1>2, <2>1, <2>2, <2>3, <3>3 DEF Less, Cut
      <3>4. QED
        BY <1>1, <3>1, <3>2, <3>3
    <2>5. QED
      BY <2>4 DEF Precedes, Before
  <1>7. QED
    BY <1>5, <1>6

-----------------------------------------------------------------------------
(* The steps.                                                               *)

\* A page of a list with a cursor.
LEMMA ReadByCursor ==
  ASSUME PagesInv, NEW n \in Limits, Read(n), list.cursor # "offset"
  PROVE  CursorInv' /\ NothingTwice'
  <1> DEFINE page == Page(n)
             items == {x \in page : rows[x].shown}
             l == CursorRow(page)
  <1>0. TypeOK /\ SteadyShown /\ CursorInv /\ NothingTwice
    BY DEF PagesInv
  <1>1. /\ cursor # End /\ again' = again \union (got \intersect items) /\ got' = got \union items
        /\ \/ page = Selected /\ cursor' = End /\ UNCHANGED blurred
           \/ /\ page # Selected /\ cursor' \in CursorKeys(l)
              /\ blurred' = blurred \union Confusable(l)
        /\ UNCHANGED <<list, rows, steady, changes>>
    BY DEF Read
  <1>2. /\ Selected \subseteq Listed /\ Listed \subseteq Rows /\ page \subseteq Selected
        /\ \A x \in page, y \in Selected \ page : Before(x, y)
        /\ page # Selected => l \in page
        /\ page # Selected /\ list.cursor # "first" => \A y \in page \ {l} : Before(y, l)
    BY <1>0, PageFacts
  <1> HIDE DEF page, l
  <1>3. ASSUME NEW x \in steady \ blurred
        PROVE  /\ x \in Rows /\ rows[x].shown
               /\ x \in Selected <=> ~Passed(x)
               /\ Passed(x) => x \in got
               /\ list.cursor # "first" /\ x \in got => Passed(x)
    BY <1>0, <1>1, <1>2 DEF SteadyShown, CursorInv, Passed, Selected, Listed
  <1>4. blurred \subseteq blurred'
    BY <1>1
  <1>5. CASE page = Selected
    <2>1. cursor' = End /\ cursor' # Start
      BY <1>1, <1>5 DEF Start, End
    <2>2. ASSUME NEW x \in steady \ blurred PROVE x \in got'
      BY <1>1, <1>3, <1>5
    <2>3. QED
      BY <1>0, <1>1, <1>2, <1>3, <1>4, <2>1, <2>2 DEF CursorInv, Passed, NothingTwice
  <1>6. CASE page # Selected
    <2>1. l \in Rows /\ l \in page /\ l \in Selected
      BY <1>2, <1>6
    <2>2. /\ cursor' # Start /\ cursor' # End
          /\ \A y \in Rows \ Confusable(l) : Precedes(cursor', Key(y)) <=> Before(l, y)
      BY <1>0, <1>1, <1>6, <2>1, CursorTells
    <2>3. \A y \in Rows : Beyond(y)' <=> Precedes(cursor', Key(y))
      BY <1>1 DEF Beyond, Precedes, Key
    <2>4. ASSUME NEW x \in steady \ blurred' PROVE Passed(x)' <=> ~Before(l, x)
      <3>1. x \in Rows \ Confusable(l)
        BY <1>1, <1>3, <1>6, <2>4
      <3>2. QED
        BY <2>2, <2>3, <3>1 DEF Passed
    <2>5. ASSUME NEW x \in steady \ blurred', ~Before(l, x) PROVE x \in got'
      <3>1. x \in steady \ blurred
        BY <1>4, <2>5
      <3>2. CASE x \in Selected
        BY <1>1, <1>2, <1>3, <2>1, <2>5, <3>1, <3>2
      <3>3. CASE x \notin Selected
        BY <1>1, <1>3, <3>1, <3>3
      <3>4. QED
        BY <3>2, <3>3
    <2>6. ASSUME NEW x \in steady \ blurred', list.cursor # "first", x \in got'
          PROVE  ~Before(l, x)
      <3>1. x \in steady \ blurred /\ x \in Rows
        BY <1>3, <1>4, <2>6
      <3>2. CASE x \in page
        BY <1>0, <1>2, <1>6, <2>1, <2>6, <3>1, <3>2, BeforeOrder
      <3>3. CASE x \in got /\ x \notin page
        <4>1. Passed(x) /\ cursor # Start /\ ~Beyond(x)
          BY <1>1, <1>3, <2>6, <3>1, <3>3 DEF Passed
        <4>2. Beyond(l) /\ cursor \in Keys
          <5>1. cursor \in Keys
            BY <1>0, PagesAssumption DEF TypeOK, Keys
          <5>2. Beyond(l)
            BY <2>1, <2>6, <4>1 DEF Selected, PagesInv
          <5>3. QED
            BY <5>1, <5>2
        <4>3. Key(l) \in Keys /\ Key(x) \in Keys
          BY <1>0, <2>1, <3>1, RowFacts
        <4>4. QED
          BY <4>1, <4>2, <4>3, PrecedesOrder DEF Beyond, Before
      <3>4. QED
        BY <1>1, <2>6, <3>2, <3>3
    <2>7. CursorInv'
      BY <1>1, <2>4, <2>5, <2>6 DEF CursorInv
    <2>8. NothingTwice'
      BY <1>0, <1>1, <1>2, <1>3, <1>4 DEF NothingTwice
    <2>9. QED
      BY <2>7, <2>8
  <1>7. QED
    BY <1>5, <1>6

\* A page of the search: the rows counted off grow by the page.
LEMMA ReadByOffset ==
  ASSUME PagesInv, NEW n \in Limits, Read(n), list.cursor = "offset"
  PROVE  OffsetInv' /\ NothingTwice'
  <1> DEFINE page == Page(n)
             items == {x \in page : rows[x].shown}
             l == CursorRow(page)
  <1>0. TypeOK /\ SteadyShown /\ OffsetInv /\ NothingTwice
    BY DEF PagesInv
  <1>1. /\ cursor # End /\ again' = again \union (got \intersect items) /\ got' = got \union items
        /\ offset' = offset + Cardinality(page)
        /\ \/ page = Selected /\ cursor' = End /\ UNCHANGED blurred
           \/ /\ page # Selected /\ cursor' \in CursorKeys(l)
              /\ blurred' = blurred \union Confusable(l)
        /\ UNCHANGED <<list, rows, steady, changes>>
    BY DEF Read
  <1>2. /\ Selected \subseteq Listed /\ Listed \subseteq Rows /\ page \subseteq Selected
        /\ \A x \in page, y \in Selected : Before(y, x) => y \in page
        /\ \A x \in page, y \in Selected \ page : Before(x, y)
        /\ page # Selected => l \in page
    BY <1>0, PageFacts
  <1> HIDE DEF page, l
  <1>3. Selected = {x \in Listed : Rank(x) >= offset}
    BY DEF Selected
  <1>4. /\ \A x \in Listed : Rank(x) \in Nat /\ Rank(x)' = Rank(x)
        /\ Listed' = Listed /\ offset \in Nat
        /\ \A x, y \in Listed : Rank(x) < Rank(y) => Before(x, y)
    <2>1. \A x \in Listed : Rank(x) = Cardinality(Preds(Listed, x)) /\ Preds(Listed, x) \in SUBSET Rows
      BY <1>2 DEF Rank, Preds, Before
    <2>2. \A x \in Listed : Rank(x) \in Nat
      BY <2>1, RowsFinite
    <2>3. Listed' = Listed /\ \A x \in Listed : Rank(x)' = Rank(x)
      BY <1>1 DEF Listed, Rank, Precedes, Key
    <2>4. ASSUME NEW x \in Listed, NEW y \in Listed, ~Before(x, y) PROVE ~(Rank(x) < Rank(y))
      <3>1. Preds(Listed, y) \subseteq Preds(Listed, x)
        BY <1>0, <1>2, <2>4, BeforeOrder DEF Preds
      <3>2. Rank(y) <= Rank(x)
        BY <2>1, <3>1, RowsFinite, FS_Subset
      <3>3. QED
        BY <2>2, <3>2
    <2>5. QED
      BY <1>0, <2>2, <2>3, <2>4 DEF TypeOK
  <1>5. blurred = {} /\ blurred' = {}
    <2>1. ~list.fine
      BY <1>0, ListFacts DEF TypeOK
    <2>2. Confusable(l) = {}
      BY <2>1 DEF Confusable
    <2>3. QED
      BY <1>0, <1>1, <2>2 DEF OffsetInv
  <1>6. \A x \in steady : x \in Listed /\ rows[x].shown /\ (x \in got <=> Rank(x) < offset)
    BY <1>0, <1>1 DEF SteadyShown, OffsetInv
  <1>7. NothingTwice'
    BY <1>0, <1>1, <1>2, <1>3, <1>4, <1>5, <1>6 DEF NothingTwice
  <1>8. CASE page = Selected
    <2>1. cursor' = End
      BY <1>1, <1>8
    <2>2. \A x \in steady : x \in got'
      BY <1>1, <1>3, <1>4, <1>6, <1>8
    <2>3. QED
      BY <1>1, <1>5, <1>7, <2>1, <2>2 DEF OffsetInv
  <1>9. CASE page # Selected /\ steady = {}
    BY <1>1, <1>5, <1>7, <1>9 DEF OffsetInv
  <1>10. CASE page # Selected /\ steady # {}
    <2> DEFINE D == CountedOff
    <2>1. /\ D = {x \in Listed : Rank(x) < offset} /\ Cardinality(D) = offset
          /\ D \subseteq Rows /\ D \intersect Selected = {} /\ Listed = D \union Selected
      BY <1>0, <1>1, <1>2, <1>3, <1>4, <1>10 DEF CountedOff, OffsetInv
    <2> HIDE DEF D
    <2>2. /\ IsFiniteSet(D) /\ IsFiniteSet(page) /\ Cardinality(page) \in Nat
          /\ page \in SUBSET Rows
      BY <1>2, <2>1, RowsFinite
    <2>3. ASSUME NEW x \in Selected
          PROVE  /\ Rank(x) = offset + Cardinality(Preds(Selected, x))
                 /\ Cardinality(Preds(Selected, x)) \in Nat
                 /\ Preds(Selected, x) \in SUBSET Rows
      <3>1. Preds(Listed, x) = D \union Preds(Selected, x)
        BY <1>2, <1>3, <1>4, <2>1, <2>3 DEF Preds
      <3>2. D \intersect Preds(Selected, x) = {} /\ Preds(Selected, x) \in SUBSET Rows
        BY <1>2, <2>1 DEF Preds
      <3>3. IsFiniteSet(Preds(Selected, x)) /\ Cardinality(Preds(Selected, x)) \in Nat
        BY <3>2, RowsFinite
      <3>4. Cardinality(D \union Preds(Selected, x)) = offset + Cardinality(Preds(Selected, x))
        <4>1. Cardinality(D \union Preds(Selected, x)) =
                Cardinality(D) + Cardinality(Preds(Selected, x)) - Cardinality(D \intersect Preds(Selected, x))
          BY <2>2, <3>3, FS_Union
        <4>2. Cardinality(D \intersect Preds(Selected, x)) = 0
          BY <3>2, FS_EmptySet
        <4>3. QED
          BY <1>4, <2>1, <3>3, <4>1, <4>2
      <3>5. QED
        BY <3>1, <3>2, <3>3, <3>4 DEF Rank, Preds, Before
    <2>4. ASSUME NEW x \in page PROVE Rank(x) < offset'
      <3>1. x \in Selected /\ Preds(Selected, x) \subseteq page \ {x}
        BY <1>0, <1>2, <2>4, BeforeOrder DEF Preds
      <3>2. /\ IsFiniteSet(page \ {x}) /\ Cardinality(page \ {x}) = Cardinality(page) - 1
        BY <2>2, <2>4, FS_RemoveElement
      <3>3. Cardinality(Preds(Selected, x)) <= Cardinality(page \ {x})
        BY <3>1, <3>2, FS_Subset
      <3>4. QED
        BY <1>1, <1>4, <2>2, <2>3, <3>1, <3>2, <3>3
    <2>5. ASSUME NEW x \in Selected \ page PROVE ~(Rank(x) < offset')
      <3>1. page \subseteq Preds(Selected, x)
        BY <1>2, <2>5 DEF Preds
      <3>2. Cardinality(page) <= Cardinality(Preds(Selected, x))
        BY <2>3, <2>5, <3>1, RowsFinite, FS_Subset
      <3>3. QED
        BY <1>1, <1>4, <2>2, <2>3, <2>5, <3>2
    <2>6. \A x \in D : Rank(x) < offset'
      BY <1>1, <1>4, <2>1, <2>2
    <2>7. \A x \in Listed : Rank(x) < offset' <=> x \in D \union page
      BY <2>1, <2>4, <2>5, <2>6
    <2>8. CountedOff' = D \union page
      BY <1>2, <1>4, <2>1, <2>7 DEF CountedOff
    <2>9. Cardinality(D \union page) = offset + Cardinality(page)
      <3>1. D \intersect page = {}
        BY <1>2, <2>1
      <3>2. QED
        BY <1>4, <2>1, <2>2, <3>1, FS_Union, FS_EmptySet
    <2>10. ASSUME NEW x \in steady PROVE x \in got' <=> Rank(x)' < offset'
      BY <1>1, <1>2, <1>4, <1>6, <2>1, <2>7
    <2>11. cursor' # End
      BY <1>0, <1>1, <1>2, <1>10, CursorTells
    <2>12. QED
      BY <1>1, <1>5, <1>7, <2>8, <2>9, <2>10, <2>11 DEF OffsetInv
  <1>11. QED
    BY <1>8, <1>9, <1>10

LEMMA ReadStep ==
  ASSUME PagesInv, NEW n \in Limits, Read(n)
  PROVE  PagesInv'
  <1>0. TypeOK /\ SteadyShown /\ cursor # End
    BY DEF PagesInv, Read
  <1> DEFINE page == Page(n)
             items == {x \in page : rows[x].shown}
             l == CursorRow(page)
  <1>1. /\ again' = again \union (got \intersect items) /\ got' = got \union items
        /\ offset' = IF list.cursor = "offset" THEN offset + Cardinality(page) ELSE 0
        /\ \/ page = Selected /\ cursor' = End /\ UNCHANGED blurred
           \/ /\ page # Selected /\ cursor' \in CursorKeys(l)
              /\ blurred' = blurred \union Confusable(l)
        /\ UNCHANGED <<list, rows, steady, changes>>
    BY DEF Read
  <1>2. page \in SUBSET Rows /\ (page # Selected => l \in Rows)
    BY <1>0, PageFacts
  <1> HIDE DEF page, l
  <1>3. cursor' \in [rank : -1..4, time : 0..MaxTime, id : 0..MaxRow] /\ cursor' # Start
    <2>1. CASE cursor' = End
      BY <2>1, PagesAssumption DEF End, Start
    <2>2. CASE page # Selected /\ cursor' \in CursorKeys(l)
      BY <1>0, <1>2, <2>2, CursorTells
    <2>3. QED
      BY <1>1, <2>1, <2>2
  <1>4. offset' \in Nat
    BY <1>0, <1>1, <1>2, RowsFinite DEF TypeOK
  <1>5. Confusable(l) \subseteq Rows
    BY DEF Confusable
  <1>6. TypeOK'
    BY <1>0, <1>1, <1>2, <1>3, <1>4, <1>5 DEF TypeOK
  <1>7. SteadyShown' /\ FreshStart'
    BY <1>0, <1>1, <1>3 DEF SteadyShown, FreshStart, Listed
  <1>8. CursorInv' /\ OffsetInv' /\ NothingTwice'
    <2>1. CASE list.cursor # "offset"
      BY <1>1, <2>1, ReadByCursor DEF OffsetInv
    <2>2. CASE list.cursor = "offset"
      BY <1>1, <2>2, ReadByOffset DEF CursorInv
    <2>3. QED
      BY <2>1, <2>2
  <1>9. QED
    BY <1>6, <1>7, <1>8 DEF PagesInv

\* A row changes: it has not stayed, and for the search none has.
LEMMA ChangeStep ==
  ASSUME PagesInv, NEW x \in Rows, NEW r \in RowsOf(list), Change(x, r)
  PROVE  PagesInv'
  <1>0. TypeOK /\ SteadyShown /\ FreshStart /\ CursorInv /\ OffsetInv /\ NothingTwice
    BY DEF PagesInv
  <1>1. /\ changes < MaxChanges /\ changes' = changes + 1
        /\ rows' = [rows EXCEPT ![x] = r]
        /\ steady' = IF list.cursor = "offset" THEN {} ELSE steady \ {x}
        /\ UNCHANGED <<list, cursor, offset, got, again, blurred>>
    BY DEF Change
  <1>2. /\ rows' \in [Rows -> RowsOf(list)] /\ changes' \in 0..MaxChanges
        /\ \A y \in Rows \ {x} : rows'[y] = rows[y]
    BY <1>0, <1>1, PagesAssumption DEF TypeOK
  <1>3. TypeOK'
    BY <1>0, <1>1, <1>2 DEF TypeOK, RowsOf
  <1>4. SteadyShown' /\ FreshStart' /\ NothingTwice'
    BY <1>0, <1>1, <1>2 DEF SteadyShown, FreshStart, NothingTwice, Listed
  <1>5. \A y \in Rows \ {x} : Passed(y)' <=> Passed(y)
    BY <1>1, <1>2 DEF Passed, Beyond, Precedes, Key
  <1>6. CursorInv'
    BY <1>0, <1>1, <1>5 DEF CursorInv, TypeOK
  <1>7. OffsetInv'
    BY <1>0, <1>1 DEF OffsetInv
  <1>8. QED
    BY <1>3, <1>4, <1>6, <1>7 DEF PagesInv

LEMMA PagesStep == PagesInv /\ [Next]_vars => PagesInv'
  <1> SUFFICES ASSUME PagesInv, [Next]_vars PROVE PagesInv'
    OBVIOUS
  <1>1. \A x \in Rows : rows[x] \in RowsOf(list)
    BY DEF PagesInv, TypeOK
  <1>2. ASSUME NEW x \in Rows, Appear(x) \/ Disappear(x) \/ Move(x) \/ Hide(x) PROVE PagesInv'
    <2>1. CASE Appear(x)
      BY <2>1, ChangeStep DEF Appear
    <2>2. CASE Disappear(x)
      <3>1. [rows[x] EXCEPT !.in = FALSE] \in RowsOf(list)
        BY <1>1 DEF RowsOf
      <3>2. QED
        BY <2>2, <3>1, ChangeStep DEF Disappear
    <2>3. CASE Move(x)
      <3>1. PICK k \in list.ranks, t \in Times : Change(x, [rows[x] EXCEPT !.rank = k, !.time = t])
        BY <2>3 DEF Move
      <3>2. [rows[x] EXCEPT !.rank = k, !.time = t] \in RowsOf(list)
        BY <1>1, <3>1 DEF RowsOf, Times
      <3>3. QED
        BY <3>1, <3>2, ChangeStep
    <2>4. CASE Hide(x)
      <3>1. [rows[x] EXCEPT !.shown = ~@] \in RowsOf(list)
        BY <1>1 DEF RowsOf
      <3>2. QED
        BY <2>4, <3>1, ChangeStep DEF Hide
    <2>5. QED
      BY <1>2, <2>1, <2>2, <2>3, <2>4
  <1>3. CASE UNCHANGED vars
    BY <1>3 DEF vars, PagesInv, TypeOK, SteadyShown, FreshStart, CursorInv, OffsetInv, NothingTwice,
                Passed, Beyond, Precedes, Key, CountedOff, Rank, Listed, RowsOf
  <1>4. QED
    BY <1>2, <1>3, ReadStep DEF Next

LEMMA PagesInvariant == Spec => []PagesInv
  <1>1. Init => PagesInv
    <2> SUFFICES ASSUME Init PROVE PagesInv
      OBVIOUS
    <2>1. rows \in [Rows -> RowsOf(list)] /\ list \in Lists
      BY DEF Init
    <2>2. cursor \in [rank : -1..4, time : 0..MaxTime, id : 0..MaxRow] /\ changes \in 0..MaxChanges
      BY PagesAssumption DEF Init, Start
    <2>3. TypeOK
      BY <2>1, <2>2 DEF Init, TypeOK, Listed
    <2>4. SteadyShown /\ FreshStart /\ CursorInv /\ NothingTwice
      BY DEF Init, SteadyShown, FreshStart, CursorInv, NothingTwice, Passed, Listed
    <2>5. OffsetInv
      <3>1. \A x \in Listed : Rank(x) \in Nat
        <4>1. ASSUME NEW x \in Listed PROVE {y \in Listed : Precedes(Key(y), Key(x))} \in SUBSET Rows
          BY DEF Listed
        <4>2. QED
          BY <4>1, RowsFinite DEF Rank
      <3>2. CountedOff = {} /\ offset = 0 /\ cursor # End
        BY <3>1 DEF Init, CountedOff, Start, End
      <3>3. QED
        BY <3>1, <3>2, FS_EmptySet DEF Init, OffsetInv
    <2>6. QED
      BY <2>3, <2>4, <2>5 DEF PagesInv
  <1>2. QED
    BY <1>1, PagesStep, PTL DEF Spec

\* Type correctness of the lists.
THEOREM TypeCorrect == Spec => []TypeOK
  <1>1. PagesInv => TypeOK
    BY DEF PagesInv
  <1>2. QED
    BY <1>1, PagesInvariant, PTL

\* Who has read a list to its end has got every row that stayed, whatever the page sizes
\* and whatever changed meanwhile, but for rows the cursor could not tell apart.
THEOREM EveryRowComes == Spec => []NothingSkipped
  <1>1. PagesInv => NothingSkipped
    BY DEF PagesInv, NothingSkipped, CursorInv, OffsetInv, Passed, Start, End
  <1>2. QED
    BY <1>1, PagesInvariant, PTL

\* No row that stayed comes twice, but for rows the cursor could not tell apart.
THEOREM NoRowComesTwice == Spec => []NothingTwice
  <1>1. PagesInv => NothingTwice
    BY DEF PagesInv
  <1>2. QED
    BY <1>1, PagesInvariant, PTL
=============================================================================
