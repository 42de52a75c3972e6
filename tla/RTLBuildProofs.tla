--------------------------- MODULE RTLBuildProofs ---------------------------
(***************************************************************************)
(* Proofs about the background RTL build, for every set of source          *)
(* versions, every set of Vivado outcomes and every edit bound: the type   *)
(* invariant, and that a set bitstream_ready always stands for a finished, *)
(* successful build whose bitstream is on disk.                            *)
(***************************************************************************)
EXTENDS RTLBuild, TLAPS

LEMMA RTLTypeInit == Init => RTLTypeOK
<1> SUFFICES ASSUME Init PROVE RTLTypeOK
  OBVIOUS
<1>1. edits \in 0..MaxEdits
  BY RTLConstantsAssumption DEF Init
<1>2. snap \in Hashes /\ lastHash \in Hashes /\ bitstream \in Hashes /\ announced \in Hashes
  BY DEF Init, Hashes
<1>3. status \in Statuses
  BY DEF Init, Statuses
<1>4. QED
  BY <1>1, <1>2, <1>3 DEF Init, RTLTypeOK

LEMMA RTLTypeStep == RTLTypeOK /\ [Next]_vars => RTLTypeOK'
<1> SUFFICES ASSUME RTLTypeOK, [Next]_vars PROVE RTLTypeOK'
  OBVIOUS
<1>1. CASE Edit
  BY <1>1, RTLConstantsAssumption DEF Edit, RTLTypeOK
<1>2. CASE WatchRtl
  BY <1>2 DEF WatchRtl, StartBuild, IsBuilding, RTLTypeOK
<1>3. CASE WatchReady
  BY <1>3 DEF WatchReady, RTLTypeOK
<1>4. CASE WorkerRun
  BY <1>4 DEF WorkerRun, RTLTypeOK, Hashes, Statuses
<1>5. CASE WorkerFinish
  BY <1>5 DEF WorkerFinish, RTLTypeOK, Hashes, Statuses
<1>6. CASE WorkerExit
  BY <1>6 DEF WorkerExit, RTLTypeOK
<1>7. CASE UNCHANGED vars
  BY <1>7 DEF vars, RTLTypeOK
<1>8. QED
  BY <1>1, <1>2, <1>3, <1>4, <1>5, <1>6, <1>7 DEF Next

(* The RTL builder's state is well typed in every reachable state.        *)
THEOREM RTLTypeCorrect == Spec => []RTLTypeOK
<1>1. Init => RTLTypeOK
  BY RTLTypeInit
<1>2. RTLTypeOK /\ [Next]_vars => RTLTypeOK'
  BY RTLTypeStep
<1>3. QED
  BY <1>1, <1>2, PTL DEF Spec

-----------------------------------------------------------------------------
(* ReadyMeansFinishedSuccess is inductive: the only step that sets the     *)
(* event is a successful WorkerFinish, which also sets the status and the  *)
(* bitstream; start_build clears it before a new worker runs, so           *)
(* WorkerRun and a failed WorkerFinish find it clear.                      *)
LEMMA ReadyStep ==
  ReadyMeansFinishedSuccess /\ [Next]_vars => ReadyMeansFinishedSuccess'
<1> SUFFICES ASSUME ReadyMeansFinishedSuccess, [Next]_vars
             PROVE  ReadyMeansFinishedSuccess'
  OBVIOUS
<1>1. CASE Edit
  BY <1>1 DEF Edit, ReadyMeansFinishedSuccess
<1>2. CASE WatchRtl
  BY <1>2 DEF WatchRtl, StartBuild, ReadyMeansFinishedSuccess
<1>3. CASE WatchReady
  BY <1>3 DEF WatchReady, ReadyMeansFinishedSuccess
<1>4. CASE WorkerRun
  <2>1. ~ready
    BY <1>4 DEF WorkerRun, ReadyMeansFinishedSuccess
  <2>2. QED
    BY <1>4, <2>1 DEF WorkerRun, ReadyMeansFinishedSuccess
<1>5. CASE WorkerFinish
  <2>1. ~ready
    BY <1>5 DEF WorkerFinish, ReadyMeansFinishedSuccess
  <2>2. PICK outcome \in Outcomes :
          /\ status' = outcome
          /\ IF outcome = "success"
               THEN lastHash' = src /\ bitstream' = snap /\ ready' = TRUE
               ELSE UNCHANGED <<lastHash, bitstream, ready>>
    BY <1>5 DEF WorkerFinish
  <2>3. wpc' = "exit" /\ snap' = snap
    BY <1>5 DEF WorkerFinish
  <2>4. QED
    BY <2>1, <2>2, <2>3 DEF ReadyMeansFinishedSuccess
<1>6. CASE WorkerExit
  BY <1>6 DEF WorkerExit, ReadyMeansFinishedSuccess
<1>7. CASE UNCHANGED vars
  BY <1>7 DEF vars, ReadyMeansFinishedSuccess
<1>8. QED
  BY <1>1, <1>2, <1>3, <1>4, <1>5, <1>6, <1>7 DEF Next

(* Whenever the watch loop can see bitstream_ready set, the last Vivado    *)
(* run ended in success, no newer worker is past start_build, and the      *)
(* bitstream on disk is the one that run produced.                         *)
THEOREM ReadyIsFinishedSuccess == Spec => []ReadyMeansFinishedSuccess
<1>1. Init => ReadyMeansFinishedSuccess
  BY DEF Init, ReadyMeansFinishedSuccess
<1>2. ReadyMeansFinishedSuccess /\ [Next]_vars => ReadyMeansFinishedSuccess'
  BY ReadyStep
<1>3. QED
  BY <1>1, <1>2, PTL DEF Spec

=============================================================================
