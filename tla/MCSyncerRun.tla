---------------------------- MODULE MCSyncerRun ----------------------------
(* Model-checking instance of SyncerRun; the runs give its constants model  *)
(* values.                                                                  *)
EXTENDS SyncerRun
=============================================================================
