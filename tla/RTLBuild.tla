------------------------------ MODULE RTLBuild ------------------------------
(***************************************************************************)
(* The background RTL build of the development loop: class RTLBuilder in  *)
(* src/tools/devloop/fluxripper_dev.py (lines 332-415) and the RTL half of *)
(* DevLoop.watch_and_reload (lines 707-746).                               *)
(*                                                                         *)
(* Three actors:                                                           *)
(*   - the developer edits the RTL sources at any time;                    *)
(*   - the watch loop polls the source hash, starts a build when it sees   *)
(*     a change and no build is alive, and announces bitstream_ready;      *)
(*   - the worker thread runs Vivado for up to an hour, then records the   *)
(*     outcome, the hash and the completion event.                         *)
(*                                                                         *)
(* The contents of the RTL tree are a member of Versions; its hash, the    *)
(* first 16 hex digits of a SHA-256, is taken to be injective, so a hash   *)
(* is the version it was computed from.  An edit may restore an earlier    *)
(* version.  The firmware half of the loop works on disjoint resources and *)
(* is left out.                                                            *)
(***************************************************************************)
EXTENDS Naturals

CONSTANTS
  Versions,   \* possible contents of the RTL tree
  Outcomes,   \* what a Vivado run can end in: "success", "failed", "timeout", "error"
  MaxEdits,   \* bound on the number of edits the developer makes
  NoHash      \* model value: None in the code, and "no bitstream yet"

ASSUME RTLConstantsAssumption ==
  /\ Versions # {}
  /\ NoHash \notin Versions
  /\ Outcomes \subseteq {"success", "failed", "timeout", "error"}
  /\ Outcomes # {}
  /\ MaxEdits \in Nat

VARIABLES
  src,        \* current contents of the RTL tree
  edits,      \* number of edits made so far
  lastRtl,    \* watch_and_reload's local last_rtl_hash
  cpc,        \* the watch loop: "rtl" (RTL check next) or "ready" (event check next)
  wpc,        \* the worker: "none" (no live thread), "start", "vivado", "exit"
  snap,       \* the sources the running Vivado read
  status,     \* RTLBuilder.build_status
  lastHash,   \* RTLBuilder.last_hash
  ready,      \* RTLBuilder.bitstream_ready is set
  bitstream,  \* the sources build/fluxripper.bit was built from
  announced   \* history: the bitstream the loop last told the operator about

vars == <<src, edits, lastRtl, cpc, wpc, snap, status, lastHash, ready,
          bitstream, announced>>

Hashes == Versions \cup {NoHash}

Statuses == {"idle", "running"} \cup Outcomes

(* RTLBuilder.is_building: the worker thread exists and is alive.          *)
IsBuilding == wpc # "none"

(* Mutant: a watch loop that starts without a baseline hash (None).       *)
InitNoBaseline ==
  /\ src \in Versions
  /\ edits = 0
  /\ lastRtl = NoHash
  /\ cpc = "rtl"
  /\ wpc = "none"
  /\ snap = NoHash
  /\ status = "idle"
  /\ lastHash = NoHash
  /\ ready = FALSE
  /\ bitstream = NoHash
  /\ announced = NoHash

Init ==
  /\ src \in Versions
  /\ edits = 0
  /\ lastRtl = src
  /\ cpc = "rtl"
  /\ wpc = "none"
  /\ snap = NoHash
  /\ status = "idle"
  /\ lastHash = NoHash
  /\ ready = FALSE
  /\ bitstream = NoHash
  /\ announced = NoHash

(* The developer saves a change to the RTL tree.                           *)
Edit ==
  /\ edits < MaxEdits
  /\ src' \in Versions \ {src}
  /\ edits' = edits + 1
  /\ UNCHANGED <<lastRtl, cpc, wpc, snap, status, lastHash, ready, bitstream,
                 announced>>

(* Mutant: start_build that forgets to clear the completion event.         *)
StartBuildKeepsEvent ==
  /\ ready' = ready
  /\ wpc' = "start"

(* RTLBuilder.start_build, called with no live worker: clear the event and *)
(* start the thread.                                                       *)
StartBuild ==
  /\ ready' = FALSE
  /\ wpc' = "start"

(* The RTL check of one pass of the watch loop: on a changed hash, start a *)
(* build unless one is alive, and remember the hash in either case.        *)
WatchRtl ==
  /\ cpc = "rtl"
  /\ cpc' = "ready"
  /\ \/ /\ src = lastRtl
        /\ UNCHANGED <<lastRtl, wpc, ready>>
     \/ /\ src # lastRtl
        /\ ~IsBuilding
        /\ StartBuild
        /\ lastRtl' = src
     \/ /\ src # lastRtl
        /\ IsBuilding
        /\ lastRtl' = src
        /\ UNCHANGED <<wpc, ready>>
  /\ UNCHANGED <<src, edits, snap, status, lastHash, bitstream, announced>>

(* Mutant: an event check that clears the event without announcing it.    *)
WatchReadyClearsOnly ==
  /\ cpc = "ready"
  /\ cpc' = "rtl"
  /\ ready' = FALSE
  /\ UNCHANGED <<src, edits, lastRtl, wpc, snap, status, lastHash, bitstream,
                 announced>>

(* The event check of one pass of the watch loop: announce the new         *)
(* bitstream and clear the event.                                          *)
WatchReady ==
  /\ cpc = "ready"
  /\ cpc' = "rtl"
  /\ IF ready
       THEN /\ announced' = bitstream
            /\ ready' = FALSE
       ELSE UNCHANGED <<announced, ready>>
  /\ UNCHANGED <<src, edits, lastRtl, wpc, snap, status, lastHash, bitstream>>

(* _build_worker up to the Vivado run: status "running", and Vivado reads  *)
(* the sources as they are now.                                            *)
WorkerRun ==
  /\ wpc = "start"
  /\ wpc' = "vivado"
  /\ status' = "running"
  /\ snap' = src
  /\ UNCHANGED <<src, edits, lastRtl, cpc, lastHash, ready, bitstream, announced>>

(* Vivado ends.  On success the worker hashes the sources as they are      *)
(* after the build, records the status and sets the event; otherwise it    *)
(* records the failure.                                                    *)
WorkerFinish ==
  /\ wpc = "vivado"
  /\ wpc' = "exit"
  /\ \E outcome \in Outcomes :
       /\ status' = outcome
       /\ IF outcome = "success"
            THEN /\ lastHash' = src
                 /\ bitstream' = snap
                 /\ ready' = TRUE
            ELSE UNCHANGED <<lastHash, bitstream, ready>>
  /\ UNCHANGED <<src, edits, lastRtl, cpc, snap, announced>>

(* _build_worker returns and the thread is no longer alive.                *)
WorkerExit ==
  /\ wpc = "exit"
  /\ wpc' = "none"
  /\ UNCHANGED <<src, edits, lastRtl, cpc, snap, status, lastHash, ready,
                 bitstream, announced>>

Next ==
  \/ Edit
  \/ WatchRtl
  \/ WatchReady
  \/ WorkerRun
  \/ WorkerFinish
  \/ WorkerExit

(* The watch loop polls once a second and the worker thread runs to its    *)
(* end (Vivado is bounded by rtl_build_timeout).  The developer is not     *)
(* obliged to edit.                                                        *)
Fairness ==
  /\ WF_vars(WatchRtl)
  /\ WF_vars(WatchReady)
  /\ WF_vars(WorkerRun)
  /\ WF_vars(WorkerFinish)
  /\ WF_vars(WorkerExit)

Spec == Init /\ [][Next]_vars /\ Fairness

-----------------------------------------------------------------------------
RTLTypeOK ==
  /\ src \in Versions
  /\ edits \in 0..MaxEdits
  /\ lastRtl \in Versions
  /\ cpc \in {"rtl", "ready"}
  /\ wpc \in {"none", "start", "vivado", "exit"}
  /\ snap \in Hashes
  /\ status \in Statuses
  /\ lastHash \in Hashes
  /\ ready \in BOOLEAN
  /\ bitstream \in Hashes
  /\ announced \in Hashes

(* When the watch loop finds bitstream_ready set, the last build to end    *)
(* succeeded, no newer build is under way and the bitstream on disk is the *)
(* one that build produced: start_build clears the event before a new      *)
(* worker can change the status.                                           *)
ReadyMeansFinishedSuccess ==
  ready => /\ status = "success"
           /\ wpc \in {"exit", "none"}
           /\ bitstream = snap

(* A bitstream_ready that the watch loop has not yet seen is announced,    *)
(* unless start_build clears it for a newer build first: a completed build *)
(* is never silently forgotten while the loop is idle.                     *)
ReadyAnnounced == ready ~> (announced = bitstream \/ IsBuilding)

(* The promise of watch mode: once the developer stops editing, and the    *)
(* loop has acted on a change at all (a build has run), the operator is    *)
(* eventually told of a bitstream of the final sources (assuming the       *)
(* builds succeed).                                                        *)
FinalSourcesAnnounced == <>[](status # "idle" => announced = src)

=============================================================================
