--------------------------- MODULE MCViewCounter ---------------------------
(***************************************************************************)
(* A view that is counted twice in a burst, two batches to stage it in and *)
(* two workers that fail and die; ledger rows get old enough to be pruned. *)
(* No symmetry: the run checks progress.                                   *)
(***************************************************************************)
EXTENDS ViewCounter
=============================================================================
