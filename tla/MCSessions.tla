----------------------------- MODULE MCSessions -----------------------------
(* A small instance of Sessions: one client of an account, two requests in     *)
(* the server at once, three rows of sessions.                                 *)
EXTENDS Sessions, TLC

Symmetry == Permutations(Clients) \union Permutations(Handlers) \union Permutations(Rows)
=============================================================================
