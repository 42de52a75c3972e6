------------------------- MODULE RemoteBuildProofs -------------------------
(***************************************************************************)
(* Proof that the remote builder implements RemoteJob for every bound on   *)
(* the edits: every step of the build and watch commands is a step of the *)
(* abstract job or leaves it unchanged.                                     *)
(*                                                                         *)
(* The refinement rests on one fact that is not in the state's shape: the *)
(* server's tree only moves forward, to versions the local tree has had,  *)
(* so what Vivado reads after the build's own rsync is at least the tree  *)
(* start_build saw, whatever the watch command syncs in between.           *)
(***************************************************************************)
EXTENDS RemoteBuild, TLAPS

Statuses == {"idle", "starting", "syncing", "building", "success", "failed",
             "sync_failed"}

(* The inductive invariant: the trees are ordered, and each place of the  *)
(* worker carries the status it set and what its tree is at least.         *)
RInv ==
  /\ local \in Nat /\ remote \in Nat /\ started \in Nat /\ vsrc \in Int
  /\ rbit \in Int
  /\ status \in Statuses
  /\ remote <= local /\ started <= local /\ vsrc <= local
  /\ mpc = "start" => status = "idle"
  /\ bpc = "sync" => status = "starting"
  /\ bpc = "launch" => status = "building" /\ started <= remote
  /\ bpc = "run" => status = "building" /\ started <= vsrc

LEMMA RInit == Init => RInv
BY DEF Init, RInv, NoBit, Statuses

LEMMA RStep == RInv /\ [Next]_vars => RInv'
<1> SUFFICES ASSUME RInv, [Next]_vars PROVE RInv'
  OBVIOUS
<1>1. CASE Edit
  BY <1>1 DEF Edit, RInv, buildVars, watchVars
<1>2. CASE StartBuild
  BY <1>2 DEF StartBuild, RInv, Statuses, watchVars
<1>3. CASE WorkerSync
  BY <1>3 DEF WorkerSync, RInv, Statuses, watchVars
<1>4. CASE Launch
  BY <1>4 DEF Launch, RInv, watchVars
<1>5. CASE Finish
  BY <1>5 DEF Finish, RInv, Statuses, watchVars
<1>6. CASE Fetch
  BY <1>6 DEF Fetch, RInv, watchVars
<1>7. CASE MainWait
  BY <1>7 DEF MainWait, RInv, Alive, watchVars
<1>8. CASE WatchPoll
  BY <1>8 DEF WatchPoll, RInv, buildVars
<1>9. CASE WatchSync
  BY <1>9 DEF WatchSync, RInv, buildVars
<1>10. CASE WatchRehash
  BY <1>10 DEF WatchRehash, RInv, buildVars
<1>11. CASE UNCHANGED vars
  BY <1>11 DEF vars, RInv
<1>12. QED
  BY <1>1, <1>2, <1>3, <1>4, <1>5, <1>6, <1>7, <1>8, <1>9, <1>10, <1>11
     DEF Next

(* The remote builder is well ordered in every reachable state.           *)
THEOREM RemoteInvariant == Spec => []RInv
BY RInit, RStep, PTL DEF Spec

-----------------------------------------------------------------------------
(* The refinement mapping at the initial state.                            *)
LEMMA JobInit == Init => Job!JInit
BY DEF Init, Job!JInit, JobOf, NoBit, Job!NoBit

(* Every step of the two commands is a step of RemoteJob or a stutter.    *)
LEMMA JobStep == RInv /\ [Next]_vars => [Job!JNext]_Job!jvars
<1> SUFFICES ASSUME RInv, [Next]_vars PROVE [Job!JNext]_Job!jvars
  OBVIOUS
<1>1. CASE Edit
  <2>1. Job!JEdit
    BY <1>1, RemoteConstantsAssumption DEF Edit, Job!JEdit, JobOf, buildVars, RInv
  <2>2. QED
    BY <2>1 DEF Job!JNext
<1>2. CASE StartBuild
  <2>1. Job!JStart
    BY <1>2 DEF StartBuild, Job!JStart, JobOf, RInv
  <2>2. QED
    BY <2>1 DEF Job!JNext
<1>3. CASE WorkerSync
  <2>1. CASE status' = "building"
    <3>1. status = "starting"
      BY <1>3 DEF WorkerSync, RInv
    <3>2. QED
      BY <1>3, <2>1, <3>1 DEF WorkerSync, Job!jvars, JobOf
  <2>2. CASE status' = "sync_failed"
    <3>1. status = "starting"
      BY <1>3 DEF WorkerSync, RInv
    <3>2. Job!JFail
      BY <1>3, <2>2, <3>1 DEF WorkerSync, Job!JFail, JobOf
    <3>3. QED
      BY <3>2 DEF Job!JNext
  <2>3. QED
    BY <1>3, <2>1, <2>2 DEF WorkerSync
<1>4. CASE Finish
  <2>1. status = "building" /\ started <= vsrc /\ vsrc <= local
    BY <1>4 DEF Finish, RInv
  <2>2. CASE status' = "success"
    <3>1. Job!JSucceed
      BY <1>4, <2>1, <2>2 DEF Finish, Job!JSucceed, JobOf, RInv
    <3>2. QED
      BY <3>1 DEF Job!JNext
  <2>3. CASE status' = "failed"
    <3>1. Job!JFail
      BY <1>4, <2>1, <2>3 DEF Finish, Job!JFail, JobOf
    <3>2. QED
      BY <3>1 DEF Job!JNext
  <2>4. QED
    BY <1>4, <2>2, <2>3 DEF Finish
<1>5. CASE Launch \/ Fetch \/ MainWait
  BY <1>5 DEF Launch, Fetch, MainWait, Job!jvars, JobOf
<1>6. CASE WatchPoll \/ WatchSync \/ WatchRehash
  BY <1>6 DEF WatchPoll, WatchSync, WatchRehash, buildVars, Job!jvars, JobOf
<1>7. CASE UNCHANGED vars
  BY <1>7 DEF vars, Job!jvars, JobOf
<1>8. QED
  BY <1>1, <1>2, <1>3, <1>4, <1>5, <1>6, <1>7 DEF Next

(* The remote builder keeps RemoteJob's promise (JobRefined), for every   *)
(* bound on the edits: a build that ends in "success" leaves on the       *)
(* server a bitstream of the sources start_build saw or newer ones, and   *)
(* nothing else changes the server's bitstream.                           *)
THEOREM RemoteImplementsJob == Spec => JobRefined
<1>1. Init => Job!JInit
  BY JobInit
<1>2. RInv /\ [Next]_vars => [Job!JNext]_Job!jvars
  BY JobStep
<1>3. QED
  BY <1>1, <1>2, RInit, RStep, PTL DEF Spec, JobRefined, Job!JSpec

=============================================================================
