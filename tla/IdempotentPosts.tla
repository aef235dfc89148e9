--------------------------- MODULE IdempotentPosts ---------------------------
(***************************************************************************)
(* What an idempotency key promises, apart from the rows, claims and       *)
(* transactions that keep it: however its deliveries overlap, each request *)
(* is decided at one instant.  It is refused, or answered with the latest  *)
(* post of its key that is younger than the key's lifetime, or, if there   *)
(* is none, with a post of its own.  Threads implements this.              *)
(***************************************************************************)
EXTENDS Naturals

CONSTANTS
    Requests,  \* deliveries of creation; a post is the request that made it
    Keys,      \* idempotency keys
    Bodies,    \* contents a request may carry
    Window,    \* lifetime of a key
    None       \* no answer

VARIABLES
    now,            \* the clock
    phase,          \* a request: "new", "asked" or "decided"
    key, body, at,  \* what it asked for, and when
    posts,          \* requests that made a post
    answer          \* the post a request was answered with

postVars == <<now, phase, key, body, at, posts, answer>>

Init ==
    /\ now = 0
    /\ phase = [r \in Requests |-> "new"]
    /\ key = [r \in Requests |-> None]
    /\ body = [r \in Requests |-> None]
    /\ at = [r \in Requests |-> 0]
    /\ posts = {}
    /\ answer = [r \in Requests |-> None]

Tick ==
    /\ now' = now + 1
    /\ UNCHANGED <<phase, key, body, at, posts, answer>>

Ask(r, k, b) ==
    /\ phase[r] = "new"
    /\ phase' = [phase EXCEPT ![r] = "asked"]
    /\ key' = [key EXCEPT ![r] = k]
    /\ body' = [body EXCEPT ![r] = b]
    /\ at' = [at EXCEPT ![r] = now]
    /\ UNCHANGED <<now, posts, answer>>

\* The posts that answer for the key of request r.
Live(r) == {p \in posts : key[p] = key[r] /\ at[r] < at[p] + Window}

Replay(r) ==
    /\ \E p \in Live(r) : /\ \A q \in Live(r) : at[q] <= at[p]
                          /\ body[p] = body[r]
                          /\ answer' = [answer EXCEPT ![r] = p]
    /\ UNCHANGED posts

Post(r) ==
    /\ Live(r) = {}
    /\ posts' = posts \union {r}
    /\ answer' = [answer EXCEPT ![r] = r]

\* Another content under a live key, or any other reason.
Refuse == UNCHANGED <<posts, answer>>

Decide(r) ==
    /\ phase[r] = "asked"
    /\ phase' = [phase EXCEPT ![r] = "decided"]
    /\ Replay(r) \/ Post(r) \/ Refuse
    /\ UNCHANGED <<now, key, body, at>>

Next ==
    \/ Tick
    \/ \E r \in Requests : Decide(r) \/ \E k \in Keys, b \in Bodies : Ask(r, k, b)

Spec == Init /\ [][Next]_postVars
=============================================================================
