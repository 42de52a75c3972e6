--------------------------- MODULE MC_RemoteBuild ---------------------------
(* Small instance of RemoteBuild for TLC: three edits, enough for an edit *)
(* before start_build, one during the build and one while the watch       *)
(* command syncs.                                                          *)
EXTENDS RemoteBuild

=============================================================================
