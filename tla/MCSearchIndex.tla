--------------------------- MODULE MCSearchIndex ---------------------------
(***************************************************************************)
(* A topic with a reply, a process with two workers and one event that     *)
(* meets failures, restarts, moderation and reindexing.  No symmetry: the  *)
(* run checks progress.  MCSearchIndexReopen.cfg shows a claim of the      *)
(* documentation failing.                                                  *)
(***************************************************************************)
EXTENDS SearchIndex, TLC

CONSTANTS t1, p1

WithReply == p1 :> t1
NoReplies == <<>>
OneProcess == [w \in Workers |-> "p"]
=============================================================================
