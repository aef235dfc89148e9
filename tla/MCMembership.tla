---------------------------- MODULE MCMembership ----------------------------
(***************************************************************************)
(* The owner and one more user, one role made later, at most as high as    *)
(* the owner's, and one invite, used once or twice.  A custom role that    *)
(* grants a Moderator's permissions takes the Moderator role's part.       *)
(***************************************************************************)
EXTENDS Membership
=============================================================================
