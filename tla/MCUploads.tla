----------------------------- MODULE MCUploads -----------------------------
(* Small instances of Uploads.  MCUploads.cfg: one intent is completed by two  *)
(* requests while two cleaners look for what lapsed, and two workers can have  *)
(* its job after a stall.  MCUploadsQuota.cfg (two intents share a quota) and  *)
(* MCUploadsRetry.cfg show two claims of the documentation failing.            *)
EXTENDS Uploads
=============================================================================
