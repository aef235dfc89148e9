------------------------------ MODULE MCInbox ------------------------------
(***************************************************************************)
(* One user with a desktop and other clients, notifications two to a page. *)
(***************************************************************************)
EXTENDS Inbox
=============================================================================
