---------------------------- MODULE MC_RTLBuild ----------------------------
(* Small instance of RTLBuild for TLC: three contents of the RTL tree.     *)
EXTENDS RTLBuild

CONSTANTS v1, v2, v3

MCVersions == {v1, v2, v3}

AllOutcomes == {"success", "failed", "timeout", "error"}

=============================================================================
