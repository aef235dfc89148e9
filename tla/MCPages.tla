------------------------------- MODULE MCPages -------------------------------
(* A small instance of Pages: every list, holding up to three rows with any    *)
(* keys of two milliseconds, read with pages of one or two rows while two      *)
(* changes happen.                                                             *)
EXTENDS Pages
=============================================================================
