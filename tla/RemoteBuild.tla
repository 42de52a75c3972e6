----------------------------- MODULE RemoteBuild -----------------------------
(***************************************************************************)
(* The remote build of src/tools/devloop/remote_build.py, as two commands *)
(* run side by side against one build server:                              *)
(*   - "build" (main, lines 450-454): start_build starts the daemon worker *)
(*     thread _build_worker, which rsyncs the project to the server        *)
(*     (sync_to_remote), runs Vivado there over ssh and, on success,       *)
(*     fetches the bitstream back (sync_from_remote); the main thread      *)
(*     waits for it with wait_for_build(timeout=3600) and exits with 0     *)
(*     when build_status is "success";                                     *)
(*   - "watch" (FileWatcher.watch): polls the newest mtime of the RTL      *)
(*     sources and rsyncs the project when it grew.                        *)
(*                                                                         *)
(* The local tree is a version number that every edit increments; as an   *)
(* edit gives a file the newest mtime, get_mtime() is the version.  An     *)
(* rsync copies the local tree as it is when it runs, or fails (ssh or     *)
(* network error) and changes nothing.  Vivado reads the server's tree     *)
(* once it runs and may fail.  When the build command exits, the daemon   *)
(* thread dies with it, and with it the ssh session running Vivado.        *)
(***************************************************************************)
EXTENDS Integers

CONSTANT MaxEdits   \* bound on the developer's edits

ASSUME RemoteConstantsAssumption == MaxEdits \in Nat

NoBit == -1    \* no bitstream, no tree read yet

NoExit == -1   \* the build command has not exited

VARIABLES
  local,     \* the local project tree
  remote,    \* the tree on the build server
  vsrc,      \* the tree Vivado read in the current or last run
  rbit,      \* the tree the server's bitstream was built from
  lbit,      \* the tree the local bitstream (build/*.bit) was built from
  status,    \* RemoteBuilder.build_status
  bpc,       \* where the worker thread is; "none" before start_build
  mpc,       \* the build command's main thread: "start", "wait", "exited"
  exitCode,  \* the build command's exit status
  wpc,       \* where the watch loop is: "poll", "sync", "rehash"
  lastM,     \* FileWatcher.watch's last_mtime
  started    \* history: the local tree when start_build ran

vars == <<local, remote, vsrc, rbit, lbit, status, bpc, mpc, exitCode, wpc,
          lastM, started>>

buildVars == <<vsrc, rbit, lbit, status, bpc, mpc, exitCode, started>>

watchVars == <<wpc, lastM>>

(* The worker thread is alive (build_thread.is_alive()).                   *)
Alive == bpc \in {"sync", "launch", "run", "fetch"}

(* RemoteBuilder.__init__ (94-98); FileWatcher.watch takes last_mtime      *)
(* before its loop (305).  The server holds an earlier sync of the tree.   *)
Init ==
  /\ local = 0
  /\ remote = 0
  /\ vsrc = NoBit
  /\ rbit = NoBit
  /\ lbit = NoBit
  /\ status = "idle"
  /\ bpc = "none"
  /\ mpc = "start"
  /\ exitCode = NoExit
  /\ wpc = "poll"
  /\ lastM = 0
  /\ started = 0

(* The developer saves a file.                                             *)
Edit ==
  /\ local < MaxEdits
  /\ local' = local + 1
  /\ UNCHANGED <<remote, buildVars, watchVars>>

-----------------------------------------------------------------------------
(* start_build: status "starting" and a new daemon worker.  Its refusal   *)
(* while a worker is alive cannot happen here: the command calls it once. *)
StartBuild ==
  /\ mpc = "start"
  /\ mpc' = "wait"
  /\ status' = "starting"
  /\ bpc' = "sync"
  /\ started' = local
  /\ UNCHANGED <<local, remote, vsrc, rbit, lbit, exitCode, watchVars>>

(* Mutant: the worker goes on to Vivado whatever rsync returned.          *)
WorkerSyncIgnoresFailure ==
  /\ bpc = "sync"
  /\ remote' \in {remote, local}
  /\ status' = "building"
  /\ bpc' = "launch"
  /\ UNCHANGED <<local, vsrc, rbit, lbit, mpc, exitCode, watchVars, started>>

(* _build_worker: status "syncing", then sync_to_remote; a failed rsync   *)
(* ends the worker with "sync_failed".                                     *)
WorkerSync ==
  /\ bpc = "sync"
  /\ \/ /\ remote' = local
        /\ status' = "building"
        /\ bpc' = "launch"
     \/ /\ status' = "sync_failed"
        /\ bpc' = "done"
        /\ UNCHANGED remote
  /\ UNCHANGED <<local, vsrc, rbit, lbit, mpc, exitCode, watchVars, started>>

(* The ssh session runs Vivado in the server's build directory; Vivado    *)
(* reads the sources there.                                                *)
Launch ==
  /\ bpc = "launch"
  /\ vsrc' = remote
  /\ bpc' = "run"
  /\ UNCHANGED <<local, remote, rbit, lbit, status, mpc, exitCode, watchVars,
                 started>>

(* The output stream ends and process.wait() returns: on returncode 0 the *)
(* server holds a bitstream of what Vivado read, the status is "success"  *)
(* and the worker goes on to fetch it; otherwise "failed".                 *)
Finish ==
  /\ bpc = "run"
  /\ \/ /\ rbit' = vsrc
        /\ status' = "success"
        /\ bpc' = "fetch"
     \/ /\ status' = "failed"
        /\ bpc' = "done"
        /\ UNCHANGED rbit
  /\ UNCHANGED <<local, remote, vsrc, lbit, mpc, exitCode, watchVars, started>>

(* sync_from_remote("*.bit"): rsync the bitstream back; its result is     *)
(* ignored.                                                                *)
Fetch ==
  /\ bpc = "fetch"
  /\ lbit' \in {lbit, rbit}
  /\ bpc' = "done"
  /\ UNCHANGED <<local, remote, vsrc, rbit, status, mpc, exitCode, watchVars,
                 started>>

(* Mutant: wait_for_build() without a timeout.                           *)
MainWaitNoTimeout ==
  /\ mpc = "wait"
  /\ ~Alive
  /\ mpc' = "exited"
  /\ exitCode' = IF status = "success" THEN 0 ELSE 1
  /\ UNCHANGED <<local, remote, vsrc, rbit, lbit, status, bpc, watchVars, started>>

(* wait_for_build returns when the worker has ended, or when the hour is  *)
(* up while it is still alive; either way with build_status == "success". *)
(* The command exits, and the daemon worker dies with it.                  *)
MainWait ==
  /\ mpc = "wait"
  /\ mpc' = "exited"
  /\ exitCode' = IF status = "success" THEN 0 ELSE 1
  /\ bpc' = IF Alive THEN "killed" ELSE bpc
  /\ UNCHANGED <<local, remote, vsrc, rbit, lbit, status, watchVars, started>>

-----------------------------------------------------------------------------
(* FileWatcher.watch: a newer mtime than last_mtime starts a sync after   *)
(* the debounce delay.                                                     *)
WatchPoll ==
  /\ wpc = "poll"
  /\ local > lastM
  /\ wpc' = "sync"
  /\ UNCHANGED <<local, remote, buildVars, lastM>>

(* builder.sync_to_remote(); its result is ignored.                        *)
WatchSync ==
  /\ wpc = "sync"
  /\ remote' \in {remote, local}
  /\ wpc' = "rehash"
  /\ UNCHANGED <<local, buildVars, lastM>>

(* last_mtime = self.get_mtime(), read after the sync.                     *)
WatchRehash ==
  /\ wpc = "rehash"
  /\ lastM' = local
  /\ wpc' = "poll"
  /\ UNCHANGED <<local, remote, buildVars>>

Next ==
  \/ Edit
  \/ StartBuild \/ WorkerSync \/ Launch \/ Finish \/ Fetch \/ MainWait
  \/ WatchPoll \/ WatchSync \/ WatchRehash

(* The main thread is scheduled, and an hour passes: wait_for_build       *)
(* returns.  rsync, Vivado and the developer may stall for ever.           *)
Spec == Init /\ [][Next]_vars /\ WF_vars(StartBuild) /\ WF_vars(MainWait)

-----------------------------------------------------------------------------
(* What build_status says of the job, as RemoteJob states it.              *)
JobOf ==
  CASE status \in {"starting", "syncing", "building"} -> "running"
    [] status = "success"                           -> "success"
    [] status \in {"failed", "sync_failed"}         -> "failed"
    [] status = "idle"                              -> "idle"

Job == INSTANCE RemoteJob WITH job <- JobOf, bit <- rbit, tree <- local,
                               base <- started

(* The remote builder keeps RemoteJob's promise: a build that ends in     *)
(* "success" has left on the server a bitstream of the local sources as   *)
(* they were when start_build ran, or of newer ones, whatever the watch   *)
(* command syncs meanwhile; and the server's bitstream changes only when  *)
(* a build succeeds.                                                       *)
JobRefined == Job!JSpec

(* The build command always exits, even when rsync or Vivado hangs:       *)
(* wait_for_build's one-hour timeout ends the wait.                        *)
BuildCommandEnds == <>(mpc = "exited")

=============================================================================
