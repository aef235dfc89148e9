----------------------------- MODULE TopicViews -----------------------------
(***************************************************************************)
(* What topic view counting promises, apart from how Redis and PostgreSQL  *)
(* share the work: a view that arrives is either dropped or waits, and a   *)
(* waiting view leaves the wait once, either credited to its topic exactly *)
(* once or given up.  ViewCounter implements this specification.           *)
(***************************************************************************)
EXTENDS Naturals

CONSTANT Views             \* the page views that readers produce

VARIABLES
    seen,                  \* views that have happened
    waiting,               \* views accepted but not yet credited
    credited               \* how often a view was added to its topic's count

viewVars == <<seen, waiting, credited>>

Init ==
    /\ seen = {}
    /\ waiting = {}
    /\ credited = [v \in Views |-> 0]

\* A view happens; buffering it is best effort.
Arrive(v) ==
    /\ v \notin seen
    /\ seen' = seen \union {v}
    /\ waiting' \in {waiting, waiting \union {v}}
    /\ UNCHANGED credited

\* Some waiting views are settled together: all credited, or all given up.
Settle(S) ==
    /\ S # {}
    /\ waiting' = waiting \ S
    /\ \/ credited' = [v \in Views |-> IF v \in S THEN credited[v] + 1 ELSE credited[v]]
       \/ UNCHANGED credited
    /\ UNCHANGED seen

Next ==
    \/ \E v \in Views : Arrive(v)
    \/ \E S \in SUBSET waiting : Settle(S)

Spec == Init /\ [][Next]_viewVars
=============================================================================
