----------------------------- MODULE MCThreads -----------------------------
(* A small instance of Threads: two creation requests, replies and topics,     *)
(* before and after their key expires, and two edits or deletions, while the   *)
(* topic is locked, unlocked, deleted and restored and posts are moderated.    *)
EXTENDS Threads, TLC

Symmetry == Permutations(Requests) \union Permutations(Editors) \union Permutations(Bodies)
            \union Permutations(ReplyKeys)
=============================================================================
