-------------------------------- MODULE MCChat --------------------------------
(* A small instance of Chat: a desktop that reads, a channel in any state of  *)
(* two messages, two commands executed at once, two command identifiers that  *)
(* clients repeat, and pages of one message, so that the other is older.      *)
EXTENDS Chat, TLC

Symmetry == Permutations(Handlers) \union Permutations(Commands)
=============================================================================
