------------------------------ MODULE RemoteJob ------------------------------
(***************************************************************************)
(* What the remote builder promises its caller (remote_build.py,           *)
(* RemoteBuilder.start_build and get_status/wait_for_build): a build job   *)
(* is idle, running, or ended in success or failure; no job starts while   *)
(* one runs; and a job that ends in success leaves on the build server a   *)
(* bitstream of the local sources as they were when the job started, or   *)
(* of newer ones.  Nothing else changes the server's bitstream.            *)
(*                                                                         *)
(* The local tree is a version number that only grows: each edit is a     *)
(* new version.                                                            *)
(***************************************************************************)
EXTENDS Integers

CONSTANT MaxEdits   \* bound on the developer's edits

NoBit == -1   \* no bitstream yet

VARIABLES
  job,    \* "idle", "running", "success" or "failed"
  bit,    \* the version of the local tree the server's bitstream was built from
  tree,   \* the local tree
  base    \* the local tree when the current or last job started

jvars == <<job, bit, tree, base>>

JInit ==
  /\ job = "idle"
  /\ bit = NoBit
  /\ tree = 0
  /\ base = 0

JEdit ==
  /\ tree < MaxEdits
  /\ tree' = tree + 1
  /\ UNCHANGED <<job, bit, base>>

JStart ==
  /\ job # "running"
  /\ job' = "running"
  /\ base' = tree
  /\ UNCHANGED <<bit, tree>>

JSucceed ==
  /\ job = "running"
  /\ job' = "success"
  /\ bit' \in base..tree
  /\ UNCHANGED <<tree, base>>

JFail ==
  /\ job = "running"
  /\ job' = "failed"
  /\ UNCHANGED <<bit, tree, base>>

JNext == JEdit \/ JStart \/ JSucceed \/ JFail

JSpec == JInit /\ [][JNext]_jvars

=============================================================================
