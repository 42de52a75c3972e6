# Formal models of the FluxRipper development loop

This directory holds the TLA+ models, the TLC configurations and the TLAPS
proofs for the host-side development loop of FluxRipper:
`src/tools/devloop/fluxripper_dev.py`, `rtl_tools.py`, `remote_build.py`
and `tests/test_hardware.py`, and for the option-ROM checksum tools under
`src/bios/*/tools`. The models are written from that source. The
firmware at the other end of the serial port is not under `src/`, so its
side is modelled from `spec.md` section 6.

## 1. The system

| Part | Source | State | Operations | Concurrency |
|---|---|---|---|---|
| Console protocol engine (`CDCConsole`) | fluxripper_dev.py 64-235 | serial port, `response_queue`, reader thread, `running` | connect, disconnect, `_reader_loop`, send, command | a reader thread runs beside the caller and shares the queue with it; the target answers asynchronously |
| Register access layer | fluxripper_dev.py 160-235 | none of its own | read_memory, write_memory, write_block, get_layer, get_status, probe, trace, cpu_halt/run/reset | through send |
| Firmware builder (`FirmwareBuilder`) | fluxripper_dev.py 242-325 | `last_hash` | get_source_hash, needs_rebuild, build, deploy (halt, block write, reset, run) | synchronous; source edits happen during make |
| RTL builder (`RTLBuilder`) | fluxripper_dev.py 332-415 | `build_thread`, `build_status`, `last_hash`, `bitstream_ready` | start_build, `_build_worker`, is_building, wait_for_build | a worker thread beside the watch loop |
| Test runner (`TestRunner`) | fluxripper_dev.py 422-508, test_hardware.py | test list, results | run_all (layer queried once), run_quick (layer queried per test, fail-fast) | through the console |
| Dev loop controller (`DevLoop`) | fluxripper_dev.py 622-806 | the last firmware and RTL hashes | status, fw_reload, run_tests, watch_and_reload, interactive | polling loop composing all of the above |
| Change detection and smart build | rtl_tools.py 61-136, 454-483 | `build/.rtl_cache.json` | scan, get_changed_modules, save_module_cache, smart_build | the cache file is overwritten non-atomically |
| Vivado build decisions | rtl_tools.py 263-381 | none | generate_incremental_tcl, estimate_build_time | pure |
| Remote build (`RemoteBuilder`, `FileWatcher`) | remote_build.py 91-321, 450-454 | `build_thread`, `build_status`; the watcher's `last_mtime`; the server's tree | start_build, `_build_worker`, sync_to_remote, sync_from_remote, wait_for_build; watch | a daemon worker beside the main thread; a separate watch process rsyncs the same server tree |
| ROM checksum tools | bios/fdd/tools/romsum.py, bios/hdd/tools/romsum.py, rominfo.py | the ROM file | fix, check, info | one tool at a time on one file |
| Simulator, dashboards | rtl_tools.py 143-250, tools/tui | — | subprocess wrappers, presentation | — |

How the parts interact: `DevLoop.watch_and_reload` polls both source hashes
once a second. A firmware change runs `FirmwareBuilder.build`, then `deploy`
(over the console), then `TestRunner.run_quick` (over the console). An RTL
change starts `RTLBuilder`'s worker unless one is already running, and the
loop later notices the worker's `bitstream_ready` event. Every register
access goes through `CDCConsole.send`.

The behaviours that make this code hard to test are these:
- the reader thread interleaves with send's drain and collection;
- a reply can arrive after send's 2 s deadline has expired;
- a prompt line ends any collection, whichever command it belongs to;
- the RTL worker runs for an hour while the sources change and the watch loop keeps polling;
- the cache is written non-atomically;
- a failed layer read quietly turns every test into SKIP;
- make reads the firmware tree after the loop hashed it, and a console reply can be lost after the target acted.

PROJECT.json lists each of these at its source line under "hazards".

The properties each part needs:

- **Console.** A command's result is computed from that command's own reply.
  As long as every command has ended at its own prompt, a read returns the
  register and a write lands.
- **RTL builder.** At most one worker. The recorded `last_hash` is the hash
  that was built. Every RTL edit is eventually built, and its completion is
  eventually reported.
- **Test runner.** SKIP is emitted exactly for the gated tests. Aggregate
  success means that no test failed. An unresponsive target is never
  reported as a pass.
- **Change detection.** The cache is committed only after a successful
  build. The changed set is empty exactly when the sources are unchanged
  since the last commit.
- **Firmware loop.** A deploy that reports success leaves the CPU running
  over the whole image. Build and transport errors never end watch mode.

## 2. What is modelled now

### CDCConsole.tla: the console, the reader thread and the target

The state is an append-only `log` of every line the target printed, plus
two cursors into it:
- `queued`: `_reader_loop` has put `log[1..queued]` on `response_queue`;
- `consumed`: send has taken `log[1..consumed]` off the queue.

So `response_queue` is `log[consumed+1..queued]`, and the lines still in
the serial driver or in the reader's partial-line buffer are
`log[queued+1..]`. The commands form the append-only `cmds`; the target has
answered the first `served` of them. `hpc` is the caller's position
(`idle`, or `collect` inside send's wait loop) and `resp` is send's local
`responses` list.

Two history variables are never read by the code:
- each line's `tag` is the index of the command it answers;
- `late` is the set of commands whose collection did not end at their own
  prompt.

A reply is abstracted to its kind (`OKVAL` for `OK:<hex>`, `OK`, `PROMPT`),
a value and the tag. Addresses and data words are model values or small
sets.

| Action | Code |
|---|---|
| `ReadMemory(a)` / `WriteMemory(a, v)` via `Send(c)` | read_memory / write_memory call send: drain the queue (lines 130-134: `consumed' = queued`), write the command, start collecting (`hpc' = "collect"`). Guarded by `Len(cmds) < MaxCmds`. |
| `TargetServe` | the firmware answers the oldest unanswered command with one reply line and a prompt line, and applies a write to `mem` (spec section 6). |
| `Reader` | `_reader_loop` moves the next complete line onto the queue (102-122). |
| `CollectLine` | send takes a non-prompt line and appends it to `responses` (144-151). |
| `CollectPrompt` | send takes a prompt line and returns (147-148). |
| `Deadline` | the 2 s deadline expires (144, 153). Enabled only when `TargetMayBeLate`. |

In `Finish`, send's return value goes through `command` (`'\n'.join`) and
the helper's parse:
- read_memory succeeds only if the joined text is one `OK:<hex>` line, because `int()` fails on anything longer (160-168);
- write_memory succeeds if any line contains `OK` (173).

**Fairness.** Weak fairness is assumed on `TargetServe`, `Reader`,
`CollectLine`, `CollectPrompt` and `Deadline`:
- the firmware answers every command;
- the reader thread loops forever while connected;
- send polls the queue every 100 ms;
- the deadline is wall-clock time.

Nothing is assumed of the caller: the program may stop issuing commands at
any time. No console run checks a liveness property; the fairness records
what the code's threads guarantee.

### MC_CDCConsole.tla and the runs

The MC module fixes `Addrs = {a1, a2}` (model values) and `Vals = {0, 1}`.

| Run | cfg | Bounds | Checks | Result |
|---|---|---|---|---|
| console_late | CDCConsole_late.cfg | MaxCmds 4, late replies allowed | `TypeOK`; `RegisterConsistency`: as long as no command has missed its prompt (`late = {}`), after each helper a read returned the register and a write is in the register | passes |
| console_leak | CDCConsole_leak.cfg | MaxCmds 3, late replies allowed | `ReadReturnsOwnValue`: a successful read's value came from its own reply | **violated** (below) |

**Why the bounds are enough.** A leak needs three commands:
1. a first command whose reply is late;
2. a second command that picks the reply up;
3. a third command to show that the chain continues.

Two addresses make a leaked value observably wrong, and two data values
distinguish the written value from the old one. Deadlock checking is off:
the model's caller stops after `MaxCmds` commands, and that stop is not a
deadlock of the code. send itself cannot hang: its loop is bounded by the
2 s deadline whatever the target does.

**Finding: a timed-out reply leaks into the next command.** Spec 4.1 says
that the drain before each command protects against exactly this. It does
not: the drain empties only what the reader thread has already queued.

TLC's trace:
1. read a1;
2. the target answers;
3. the deadline fires before the reader has queued the reply;
4. read a1 again: the drain finds the queue empty;
5. the reader queues the old reply;
6. the second read collects it;
7. the deadline fires;
8. the second read returns the first read's value.

With two addresses the value can belong to another register. The firing
depends on the reader thread's timing relative to the drain, so a unit test
would hardly reach it.

### Mutants

Each property of a passing run is broken by one plausible bug in a mapped
definition. The check runs each mutant under the run's own cfg.

| Mutant | Bug | Property broken |
|---|---|---|
| `ReaderAhead` | the reader queues a line that has not arrived | `TypeOK` |
| `CollectPromptKept` | a prompt kept in `responses` | `RegisterConsistency` |

### RTLBuild.tla: the RTL builder and the RTL half of the watch loop

The contents of the RTL tree are a member of `Versions`. The hash, a
truncated SHA-256, is taken to be injective. An edit may restore an earlier
tree.

Three actors interleave:

- **The developer.** `Edit`, up to `MaxEdits` times, with no fairness.
- **The watch loop.** One pass is two steps:
  - `WatchRtl` (728-734): on a changed hash, call `StartBuild` (357-365:
    clear `bitstream_ready`, start the thread) unless `IsBuilding` (402-404);
    set `last_rtl_hash` in either case.
  - `WatchReady` (736-740): if the event is set, announce the bitstream and
    clear the event.
- **The worker thread.**
  - `WorkerRun`: `build_status = "running"`; Vivado reads the sources (`snap`).
  - `WorkerFinish`: one of `Outcomes`. On success it sets `last_hash` to the
    hash of the sources as they are *after* the build, puts the bitstream of
    `snap` on disk and sets the event.
  - `WorkerExit`: the thread is no longer alive.

`announced` is a history variable: the bitstream the operator was last told
about.

**Fairness.** Weak fairness on the loop and the worker:
- the loop sleeps one second per pass and never blocks;
- Vivado is bounded by `rtl_build_timeout`.

| Run | cfg | Bounds | Checks | Result |
|---|---|---|---|---|
| rtl_watch | RTLBuild_watch.cfg | 3 versions, all four outcomes, 3 edits | `RTLTypeOK`; `ReadyMeansFinishedSuccess`: a set event means the last run succeeded, no newer worker has started, and the bitstream on disk is its own; `ReadyAnnounced`: a set event is announced unless a newer build clears it | passes |
| rtl_lost_change | RTLBuild_lost.cfg | 3 versions, builds always succeed, 2 edits | `FinalSourcesAnnounced`: once edits stop and a build has run, the operator is eventually told of a bitstream of the final sources | **violated** |

The bounds are chosen so that each case happens:
- three edits cover an edit before a build, an edit during it, and a
  revert;
- three versions let a revert differ from the last edit.

**Finding: a change saved during a build is lost.** The trace TLC prints
with one worker (`-workers 1`; with more workers it may print another
interleaving of the same kind):
1. edit v1→v2;
2. the loop starts a build (`WatchRtl`), and Vivado reads v2 (`WorkerRun`);
3. edit v2→v1, reverting the change while Vivado runs;
4. the loop sees the new hash while the build is running: no build, but
   `last_rtl_hash = v1`;
5. the build succeeds (`WorkerFinish`) and the loop announces v2;
6. the thread exits, and every later pass finds `last_rtl_hash` equal to
   the tree's hash.

The tree is v1 from then on and nothing ever builds it. An edit made after
`WorkerFinish` but while the thread is still alive is lost the same way:
`IsBuilding` is the thread's liveness, not the build's status.

The same clear at line 363 also costs a notification, which is what
`ReadyAnnounced` bounds. If a build completes right after an event check
and the next pass starts a newer build, that next pass clears the event
first. The operator then hears only of the newer build.

The stale `last_hash` (line 387 hashes the sources after the build) is
recorded in the model but is latent: nothing calls `needs_rebuild`.

Mutants:

| Mutant | Bug | Property broken |
|---|---|---|
| `InitNoBaseline` | the watch loop starts with no baseline hash | `RTLTypeOK` |
| `StartBuildKeepsEvent` | start_build without the clear | `ReadyMeansFinishedSuccess` |
| `WatchReadyClearsOnly` | the event is cleared but never announced | `ReadyAnnounced` |

### TestRun.tla: the test runner and the verdicts drawn from it

A registered test is its required layer and whether its timeout is under
5 s (`TestList`). The target is either responsive, reporting `tlayer`, or
hung:
- `Hang` can happen at any time;
- on a hung target, `GetLayer` (get_layer, 191-194) returns -1;
- a test that runs on a hung target returns FAIL or raises (`Ends`).

`results` is the runner's persistent dictionary. `runOut` (the outcomes of
the current run) and `answered` (the target answered this run) are history
variables.

The actions, with their lines in fluxripper_dev.py unless noted:

| Action | Code |
|---|---|
| `BeginAll` | 452-460: one layer snapshot |
| `AllSkip` | 462-467 |
| `AllBelowMin` | 469-470: the entry in results is left as it was |
| `AllRun` | 472-489: an exception is recorded as ERROR |
| `AllEnd` | the verdict `Passed`. run_tests (705) accepts only PASS and SKIP; test_hardware.py (470) counts FAILs. |
| `BeginQuick` / `QuickGated` / `QuickRun` / `QuickEnd` | run_quick, 496-508: a fresh layer query per test, and a return at the first non-PASS |

The program is a constant `prog` chosen from `Programs`: the development
loop (`"dev"`, run_tests, any number of runs up to `MaxRuns`, no minimum
layer) or test_hardware.py (`"hw"`, one run_all with `--layer`, then exit:
`RunBound`, `MinLayer`).

`TestTypeOK` bounds each loop index by the list its loop walks: `i <= N + 1`
in run_all and `i <= Len(QuickTests) + 1` in run_quick. The number of runs
is bounded by `RunBound`, the caller's own bound (`MaxRuns` for the
development loop, one run for the script).

| Run | cfg | Bounds | Checks | Result |
|---|---|---|---|---|
| tests_dev | TestRun_dev.cfg | tests at layers 2, 4 (quick) and 7; the development loop with 3 runs, or test_hardware.py `--layer 3` | `TestTypeOK`; `VerdictMatchesRun`: a finished run of the development loop reports success exactly when no test of *that* run failed or raised, despite the results dict kept across runs | passes |
| tests_vacuous_pass | TestRun_vacuous.cfg | run_tests, one run | `NoPassWithoutTarget`: a reported success has heard from the target | **violated** |

**Why the bounds are enough.** Three runs let a quick run fall between two
full runs on one runner. The three tests are placed so that each case
occurs:
- one below the script's `--layer`;
- one that is quick but above low target layers;
- one that run_quick leaves out.

Deadlock checking is off because the operator stops after the last run.

**Finding: a hung target passes the tests.** Spec section 7 says that
transport errors surface as failed test outcomes. In the code, a hung
target makes `get_layer()` return -1. Every test is then skipped, and
`run_tests` returns True: "Quick tests passed" after a reload that killed
the target.

test_hardware.py's exit status counts only FAIL results, while spec 4.5
says aggregate success means no FAIL and no ERROR. The model has it
(`Passed` for the `"hw"` caller, which tests_dev runs), and
`VerdictMatchesRun` is stated for the development loop only.

Mutants:

| Mutant | Bug | Property broken |
|---|---|---|
| `AllRunUncaught` | the exception escapes the mapping to ERROR | `TestTypeOK` |
| `AllSkipKeepsResult` | a stale result survives a SKIP | `VerdictMatchesRun` |

### ChangeCache.tla: change detection and smart_build

This models rtl_tools.py's change-detection engine and
`RTLWorkflow.smart_build`, with the developer editing the tree meanwhile.

**State.**
- The tree `src` maps each file to its contents, or to `Absent`. A file has
  a stem (`Stem`) and an extension (`Ext`).
- A module hash is taken to be injective, so the cache maps a module name
  to the contents it was scanned with. A missing cache file reads as the
  empty dict (Absent everywhere).
- `corrupt` is a cache file truncated by a crash inside `write_text`.
- `vsnap` is the tree as Vivado read it, and `bit` is what the bitstream on
  disk was compiled from.
- `scanSrc` (the tree at this call's scan) and `committed` (the tree at the
  scan of the last committed build) are history variables.

The operators and actions, with their lines in rtl_tools.py:

| Definition | Code |
|---|---|
| `Winners`, `Scans` | scan_rtl_modules, 91-113: names are stems, and the `*.sv` pass overwrites the `*.v` pass. Within a pass, rglob's order is a nondeterministic choice. |
| `Changed` | get_changed_modules, 116-130: absent from the cache or a different hash. Deleted names are ignored. |
| `Checkable` | quick_check, 397-417: it finds `<name>.v` only, then needs a testbench |
| `Scan` | smart_build 454-467. A corrupt cache raises from `json.loads` (123); an empty changed list returns at once. |
| `SimCheck` | 469-474: aborts at the first module that is not found, has no testbench, or fails simulation |
| `VivadoStart` / `VivadoEnd` | VivadoBuilder.build, 340-366 |
| `Save` | 476-483: the hashes scanned *before* the build replace the cache wholesale |
| `Crash` | the process dies. During save_module_cache (133-136) it leaves a truncated file. |

`Edit` (create, change or delete a file) is the developer. The model has no
fairness, because smart_build is called by the operator.

| Run | cfg | Bounds | Checks | Result |
|---|---|---|---|---|
| cache_distinct | ChangeCache_distinct.cfg | a.v, b.v; 2 contents; 3 edits, 3 builds, 1 crash | `CacheTypeOK`; `EditedIsChanged`: a file created or modified since the last committed build is in the changed list | passes |
| cache_stale_bitstream | ChangeCache_stale.cfg | as cache_distinct | `NoChangeMeansCurrent`: a skipped build means the bitstream is of the current tree | **violated** |

**Why the bounds are enough.** Three builds and three edits cover these
cases:
- a first build, then an edit racing a second build between the scan and
  Vivado's read, then a third call that sees the result;
- a failed simulation or Vivado run followed by a retry;
- a crash at every step, one of them inside the save.

Two contents suffice for an edit and its revert.

**A .v file beside a .sv of the same stem is invisible.** The scan keys
modules by stem, and the `.sv` entry overwrites the `.v` one. An edit to
`foo.v` is therefore never reported while `foo.sv` exists. Spec 8 says that
modifying one tracked file changes that module's membership, independent
of scan order. Give the model a.v and a.sv (stem map `fa :> na, fb :> na`)
and TLC finds `EditedIsChanged` violated in two steps: edit a.v, then
smart_build reports no change. The runs and the proof take distinct stems,
as the repository's RTL has them. This case is listed as a hazard and is
not kept as a run.

**Finding: the cache can misdescribe the bitstream.** The trace runs:
1. smart_build scans v1;
2. the developer saves v2 before Vivado reads the sources;
3. Vivado builds v2;
4. the cache records v1;
5. the developer reverts to v1;
6. the next smart_build reports no changes and skips the build, over a
   bitstream of v2.

Spec 3 calls the cache "the last successfully built state".

Mutants:

| Mutant | Bug | Property broken |
|---|---|---|
| `SaveByFile` | the cache keyed by file path, not module name | `CacheTypeOK` |
| `SaveRescanned` | the cache written from a fresh scan after the build | `EditedIsChanged`: an edit during the build is then never reported |

### FwLoop.tla: firmware build, deploy and the firmware half of the watch loop

This models the firmware half of `DevLoop.watch_and_reload`. It covers
`fw_reload`, `FirmwareBuilder.build`, `get_binary` and `deploy`, and the
console commands deploy issues: `cpu_halt`, `write_block` over
`write_memory`, `cpu_reset` and `cpu_run`. All are in fluxripper_dev.py.
The RTL half is in RTLBuild and shares no state with this one (spec 5).

**State.**
- `src` is the firmware tree, a member of `Versions`. The source hash is
  taken to be injective.
- `lastFw` and `cur` are watch_and_reload's `last_fw_hash` and
  `current_fw_hash`.
- `snap` is the tree make read. `built` is the version `firmware.bin` was
  made from, and `lastHash` is `FirmwareBuilder.last_hash`.
- `pc` is where the loop is. `wi` is write_block's word index.
- `cpu` and `mem` are the target: whether the CPU runs, and the BRAM bytes
  from `fw_base` on, `MaxWords` words of them.
- `deployOK` (the last deploy returned True) is a history variable.

Each console command gets its OK line, or its reply is lost. A lost reply
may still have acted on the target, which `done` chooses. When `Raises`
holds, the command can also raise a serial exception, and make can raise
`TimeoutExpired`.

| Definition | Code (fluxripper_dev.py) |
|---|---|
| `Init` | 707-713: `last_fw_hash` is the hash of the tree at start |
| `Poll` | 715-719: a changed hash starts `fw_reload` |
| `MakeRead`, `MakeEnd` | build, 264-284. make reads the tree while it runs. On success `last_hash` is a fresh hash taken *after* make (279). The timeout is not caught. |
| `Halt` | get_binary and deploy, 286-298: no or empty binary returns False |
| `HaltCmd`, `Reset`, `Run` | deploy 300-326 over cpu_halt/reset/run (225-235). Each step short-circuits. |
| `NWords`, `ByteAt`, `WordOf` | write_block 177-183: 4-byte chunks, zero-padded, `int.from_bytes(chunk, 'little')` |
| `WriteWord` | write_block 185-189 over write_memory 170-173: one `dbg w` per word at `fw_base + 4 i`, stopping at the first failure |
| `Store` | the target stores a word little-endian (spec 4.2; the firmware is not under src/) |
| `Quick` | fw_reload's `get_layer` (688-693), then run_quick (495-508) as watch_and_reload calls it (720-724), with the CPU running. The verdict is only printed, but get_layer's serial I/O is outside any try. Of the quick tests only memory_walking writes the BRAM; memory_basic writes 0x44A8006C, outside it, and the others only read. The test word therefore ends as it was (memory_walking did not run, or its first write failed) or holding one of its patterns. |
| `TestAddr`, `TestWord`, `WalkStore` | test_memory_walking_ones, 530-541: `dbg w 40000100` of `1 << bit` for bit in range(32), stopping at the first failed write or read-back. `WalkStore` writes the pattern byte by byte (byte `bit // 8` is `2^(bit % 8)`), which is what `Store` of `1 << bit` gives and keeps 2^31 out of TLC's 32-bit integers. |
| `Finish`, `Fail`, `Abort` | `last_fw_hash = current_fw_hash` (725); fw_reload's `return False`; an exception leaving the loop, which catches only KeyboardInterrupt (744) |

No fairness is assumed: the firmware runs check safety only.

| Run | cfg | Bounds | Checks | Result |
|---|---|---|---|---|
| fw_deploy | FwLoop_deploy.cfg | images of 261, 2 and 0 bytes (the 2-byte one fails to compile); 66 words of BRAM; 2 edits; exceptions on | `FwTypeOK`; `DeployedImage`: after deploy returned True the CPU runs over the padded image, every byte outside the walking-ones test word as written; `WritesWhileHalted` (an action property): no step changes a BRAM byte outside that word unless the CPU is halted before and after it | passes, 30,439 states |
| fw_abort | FwLoop_abort.cfg | 1 edit; exceptions on | `WatchKeepsRunning` | **violated** |

**Why the bounds are enough.** The images cover these cases:
- a partial last word (261 bytes, 66 words), long enough to reach the
  quick test's word at `fw_base + 0x100` (word 64);
- a version that fails to build;
- an empty binary, the early return.

66 words of BRAM hold the largest image. The bytes of the image stay below
128 so that every packed word fits TLC's 32-bit integers. Two edits give a
deploy over junk and a deploy over a BRAM a previous reload and its quick
test have written. The fw_deploy run lets every command be lost, act
silently, or raise, at every step.

**The quick test overwrites the firmware.** test_memory_walking_ones calls
0x40000100 a "test area in BRAM", but deploy loads firmware.bin at
`fw_base = 0x40000000`, so for any image over 256 bytes the quick check
that follows every reload rewrites word 64 of the firmware that has just
been started, with the CPU running it. The model does what the code does:
with `DeployedImage` stated without the exception for the test word, TLC
finds a reload whose quick test leaves `1 << bit` in word 64. The two
fw_deploy properties are therefore stated for the rest of the BRAM, and
the overwrite is recorded as a hazard.

**Finding: exceptions end watch mode.** `build` calls `subprocess.run` with a
timeout and does not catch `TimeoutExpired`. Nothing up to watch_and_reload
does either, since it catches only `KeyboardInterrupt`. The same holds for a
serial exception in cpu_halt, write_memory or get_layer. Spec 7 says build
and transport errors never abort the watch loop.

The model also records the tree make reads (`snap`) apart from the hash
the loop stores (`cur`), so the revert-during-make trace that rtl_lost_change
shows for the RTL half exists here too; no run is spent on it.

Mutants:

| Mutant | Bug | Property broken |
|---|---|---|
| `WriteWordPastEnd` | the loop ends one word late (`i == len(words)`) | `FwTypeOK`: `wi` passes the BRAM |
| `WordOfBig` | big-endian packing | `DeployedImage` |
| `HaltCmdUnchecked` | deploy goes on to write_block without checking cpu_halt's result | `WritesWhileHalted` |

### RemoteJob.tla and RemoteBuild.tla: the remote build

**RemoteJob** is the abstract specification: what `RemoteBuilder` promises
to whoever calls start_build and reads build_status.
- A job is idle, running, or ended in success or failure (`job`).
- No job starts while one runs (`JStart`).
- A job that succeeds sets the server's bitstream (`bit`) to some version of
  the local tree between the one when the job started (`base`) and the
  current one (`JSucceed`).
- Nothing else changes `bit`.

**RemoteBuild** models two commands of remote_build.py running side by
side against one server. The local tree is a version number that each
`Edit` increments. An edit gives its file the newest mtime, so
`get_mtime()` is that version.

| Action | Code (remote_build.py) |
|---|---|
| `StartBuild` | start_build, 185-200. main ("build", 450-454) calls it once, so its alive refusal cannot happen. |
| `WorkerSync` | `_build_worker` 204-209, with sync_to_remote 135-161. The rsync copies the tree as it is when it runs, or fails and ends the worker with "sync_failed". |
| `Launch` | 211-229: the ssh session starts Vivado, which reads the server's tree (`vsrc`) |
| `Finish` | 231-253. On returncode 0 the server's bitstream is of `vsrc`, and the status is "success"; otherwise "failed". |
| `Fetch` | sync_from_remote, 163-183, called at 247. Its result is ignored. |
| `MainWait` | wait_for_build(timeout=3600), 255-260, then sys.exit. It exits 0 exactly when build_status is "success". The daemon worker dies with the process. |
| `WatchPoll` / `WatchSync` / `WatchRehash` | FileWatcher.watch, 301-317: a newer mtime, sync_to_remote with its result ignored, then last_mtime re-read |

The refinement mapping is `JobOf` (build_status as get_status reports it,
262-268). It sends `rbit` to `bit`, `local` to `tree`, and the history
variable `started` to `base`.

| Run | cfg | Bounds | Checks | Result |
|---|---|---|---|---|
| remote_build | RemoteBuild_build.cfg | 3 edits; every rsync, Vivado and fetch outcome | `JobRefined`: `Job!JSpec`, RemoteBuild implements RemoteJob; `BuildCommandEnds`: the build command eventually exits | passes, 3,250 states |

**Why the bounds are enough.** Three edits allow an edit before the build,
one between the worker's rsync and a watch rsync, and one while Vivado
runs. A watch sync can then land before or after the build's own.

**Fairness.** The spec assumes only `WF_vars(StartBuild)` and
`WF_vars(MainWait)`: the main thread gets scheduled, and
`join(timeout=3600)` returns once the hour is up, whatever the worker does.
rsync, ssh, Vivado and the developer get no fairness, because any of them
may hang. `BuildCommandEnds` therefore rests on the timeout alone.

Deadlock checking is off: once the build command has exited and the edits
are used up, nothing is left to do.

Mutants:

| Mutant | Bug | Property broken |
|---|---|---|
| `WorkerSyncIgnoresFailure` | the worker goes on to Vivado after a failed rsync. Vivado then builds an older tree, and the "success" maps to no RemoteJob step. | `JobRefined` |
| `MainWaitNoTimeout` | wait_for_build without a timeout | `BuildCommandEnds` |

Two promises the code does not keep were found with ad hoc invariants on
this model. They are recorded as hazards rather than runs.
- **Exit 0 without a bitstream.** build_status becomes "success" before
  the fetch. If the fetch fails, or the hour runs out during it, `build`
  exits 0 with no new `.bit` under build/. TLC finds
  `exitCode = 0 => lbit = rbit` violated in five steps: start, sync, launch,
  finish, then the timeout.
- **A failed watch sync is forgotten.** `watch` ignores sync_to_remote's
  result and still re-reads `last_mtime`. TLC finds
  `wpc = "poll" /\ lastM = local => remote = local` violated in three
  steps: the change is not synced until another file is saved.

### RomTools.tla: the option-ROM checksum tools

This models one ROM file (a byte sequence) and the five command lines run
on it in any order:
- fdd romsum.py in fix mode (`FddFix`), `--check` (`FddCheck`) and `--info`
  (`FddInfo`);
- hdd romsum.py (`HddFix`);
- hdd rominfo.py (`HddInfo`).

`Assemble` is the BIOS build writing a new image, from `Images`.

The arithmetic follows the code:
- `ByteSum` is `sum(data)`;
- `Checksum` is `sum & 0xFF`;
- `FixByte` is `(256 - sum(data[:-1]) & 0xFF) & 0xFF`;
- `Fixed` stores it in the last byte.

A write opens the file with "wb", which empties it. If the open fails, the
file is untouched; if the write fails part-way, the file holds a prefix
(`TornWrites`). fdd romsum.py catches the IOError and exits 1; hdd romsum.py
does not, so it crashes.

The exceptions the code does not catch are outcomes ("crash"):
- fix mode on an empty file (`data[-1]`);
- `--info` on an empty file (`code_size / len(data)`).

The hdd tools refuse files under 3 bytes. What the info tools print is left
out; only how they end is kept.

| Run | cfg | Bounds | Checks | Result |
|---|---|---|---|---|
| rom_fix | RomTools_fix.cfg | 5 images of 1 to 8 bytes: a short and a near entry jump, a header alone, a bad signature, a single byte | `RomTypeOK`; `FixSucceeds`: a fix whose write went through always verifies, and leaves a ROM whose bytes sum to 0 modulo 256 | passes, 218 states |

**Why the bounds are enough.** The images give every length class the code
tells apart: 1 byte (the hdd tools refuse it, the fdd fixer accepts it), 3
bytes, and 4 or more. Their sums differ modulo 256, and the one-byte image
has a front that sums to 0, the case a missing mask gets wrong. Torn
writes add every prefix, down to the empty file.

Mutants:

| Mutant | Bug | Property broken |
|---|---|---|
| `FixByteUnmasked` | `256 - sum`, without the final mask | `RomTypeOK`: a 256 in the file |
| `FixByteWholeSum` | the old checksum byte included in the sum | `FixSucceeds` |

Both fixers checksum the whole file. The BIOS ROM scan sums the size the
header declares (`data[2] * 512`). The BIOS sources are not in the
repository, so this is a hazard with no property.

## 3. What is proved

### CDCConsoleProofs.tla

The constants are assumed only to satisfy `ConstantsAssumption`: non-empty
address and value sets, `NoValue` distinct from both, and `MaxCmds` a
natural number.

- **`TypeCorrect`:** `Spec => []TypeOK`. The proof has one step per action,
  and the read and write commands are shown to be in `Command` by their own
  lemmas.
- **`CleanRegistersConsistent`:** `Spec => []RegisterConsistency`, for every
  number of addresses, values and commands, with or without late replies.

`RegisterConsistency` is not inductive: it speaks only of idle states, and
what makes it hold is where the log and the cursors stand while a command
is collected. The strengthening `RegInv` says, while `late = {}`:
- `CleanIdle`: an idle caller has seen every command served and every line
  consumed, and `RegisterConsistency` holds;
- `CleanCollect`: a collecting caller is in one of two places. Either the
  target has not served the current command and nothing is left to read,
  or it has, the log ends with that command's reply and prompt, the caller
  is at most past the reply, and a write is in the register.

`late` only grows (`LateGrows`), so a step that ends with `late = {}`
started with it, and every other step has nothing to show. At the
command's own prompt, `responses` is exactly the reply. Nothing is served
after the current command, so the reply still shows the register. TLC
checked `RegInv` as an invariant of console_late (2,071,212 states) before
it was proved.

### RTLBuildProofs.tla

The constants are assumed only to satisfy `RTLConstantsAssumption`.

- **`RTLTypeCorrect`:** `Spec => []RTLTypeOK`.
- **`ReadyIsFinishedSuccess`:** `Spec => []ReadyMeansFinishedSuccess`.

This invariant is inductive as it stands, and the proof has one step per
action. Only a successful `WorkerFinish` sets the event, and it sets the
status and the bitstream in the same step. `WorkerRun` and a failed
`WorkerFinish` find the event clear, because the invariant puts a set event
only with a worker in `exit` or `none`, and start_build clears the event.

### TestRunProofs.tla

The constants are assumed only to satisfy `TestConstantsAssumption`: any
test list of records with layers in `0..MaxLayer`, and `MinLayer = 0` for
run_tests.

- **`DevVerdictMatchesRun`:** `Spec => []VerdictMatchesRun`, for either
  program.

The test script does not keep the promise (see above), so
`VerdictMatchesRun` says nothing of it. Its caller-free form `RunVerdict` is
inductive (with `RunInv`) only for the development loop. `DevInv`
(`Caller = "dev" => RunInv`) is preserved by every step, because `prog`
never changes.

The strengthening `RunInv` has two parts:
- while run_all walks the tests, every entry before `i` was written in this
  run, and the written entries other than SKIP are exactly `runOut`;
- a quick run in progress has seen only PASS.

At `AllEnd`, `i = N + 1`, so `results.values()` are this run's entries
alone, and "all PASS or SKIP" is "no FAIL or ERROR in `runOut`". Before it
was proved, TLC checked `RunInv` as an invariant of the tests_dev
configuration.

`LayerNat` cites `ElementOfSeq` from SequenceTheorems.

- **`TestTypeCorrect`:** `Spec => []TestTypeOK`. `RunBoundNat` gives the
  caller's bound on the runs. `TypeInit` and `TypeStep` take one step per
  group of conjuncts, and one case per action.

### ChangeCacheProofs.tla

The constants are assumed only to satisfy `CacheConstantsAssumption`.

- **`CacheTypeCorrect`:** `Spec => []CacheTypeOK`.
- **`EditedAlwaysChanged`:** under `StemInjective` (no two files share a
  stem), `Spec => []EditedIsChanged`. This holds for any number of files,
  contents, edits, builds and crashes.

The strengthening `CInv` adds two facts:
- `CacheIsCommitted`: the cache holds, under each file's name, the contents
  that file had at the scan of the last committed build;
- `CallIsScan`: during a call, `scanned` is the scan of `scanSrc`, and
  `changed` is its diff against the cache.

The lemma `ScanOfFile` says that, with injective stems, a scan gives each
file's name exactly its contents. Only `Save` changes the cache, and only
`Scan` starts a call. The lemma `FrameStep` covers every other step. The
shared-stem instance above shows that `StemInjective` is needed. TLC checked `CInv`
on the cache_distinct instance before it was proved.

### FwLoopProofs.tla and LittleEndian.tla

The constants are assumed only to satisfy `FwConstantsAssumption`: images
are byte sequences no longer than `MaxWords` words, and `Base` is a natural.

- **`FwTypeCorrect`:** `Spec => []FwTypeOK`.
- **`DeployedImageHolds`:** `Spec => []DeployedImage`, for any images, load
  address and BRAM size: the image is in place, but for the quick test's
  word, from the moment deploy returns True until the next reload.

`DeployedImage` is not inductive. The strengthening `Progress` says what the
BRAM holds at each point of the reload, every statement about a byte
excepting the test word (`Loaded`):
- while writing, the first `wi` words are in place, and `wi` is below the
  word count;
- at reset and run, all words are in place;
- after a True deploy, the loop is in quick, poll or aborted, and the CPU
  runs over the whole image.

The quick step keeps `Progress` because `WalkStore` changes no byte outside
the test word (`WalkStoreKeeps`), and keeps `FwTypeOK` because its patterns
are bytes (`WalkStoreType`; `PowTwoByte` splits `2^(bit % 8)` into its
eight literal cases, since the SMT backend evaluates `^` only on
literals).

The arithmetic rests on these lemmas:
- `StoreLoads`: storing word `k+1` at `fw_base + 4k` keeps the first `k`
  words and adds the next;
- `WordBytes`: byte `j` of the stored word is `ByteAt(image, 4k + j)`;
- LittleEndian's `Unpack`: four bytes packed least significant first come
  back out under `\div 256^j` and `% 256`.

- **`BramWrittenOnlyHalted`:** `Spec => WritesWhileHalted`. It rests on
  `WriteHalted` (`pc = "write" => cpu = "halted"`), which is inductive by
  itself (`WriteHaltedStep`). Only `HaltCmd` with an OK enters `write`, and
  it halts the CPU. Only `Run` restarts the CPU, and it is never in
  `write`. `MemOnlyWhileHalted` adds that, outside the test word, only
  `WriteWord` changes the BRAM: `Quick` writes while the CPU runs, but
  only the test word. It uses `FwTypeOK` (the BRAM's domain), so the
  theorem carries `FwInv` along with `WriteHalted`.

LittleEndian states its ranges as inequalities. The SMT backend does not
prove membership in a large literal interval such as `0..65535`. TLC
checked `FwInv` on the fw_deploy instance before it was proved.

### RemoteBuildProofs.tla

The constants are assumed only to satisfy `RemoteConstantsAssumption`
(`MaxEdits \in Nat`).

- **`RemoteInvariant`:** `Spec => []RInv`.
- **`RemoteImplementsJob`:** `Spec => JobRefined`, for every bound on the
  edits.

The step that needs an argument is `Finish` mapped to `JSucceed`. It needs
`started <= vsrc <= local` when Vivado finishes, and that is not in the
state's shape. `RInv` carries these facts:
- the server's tree never runs ahead of the local tree (`remote <= local`),
  and neither does Vivado's source (`vsrc <= local`);
- the worker's place determines its status;
- at `launch`, `started <= remote`, because the worker's own rsync copied a
  tree at least as new as start_build saw, and a later watch sync only
  copies a newer one;
- at `run`, `started <= vsrc`.

`JobInit` maps the initial state, and `JobStep` maps every step to a
RemoteJob step or a stutter, one case per action. The theorem combines them
with `RInit` and `RStep` by PTL.

### Only model-checked

Only TLC checks the following:
- liveness (`ReadyAnnounced`, `FinalSourcesAnnounced`), because it needs fairness and ENABLED;
- the violations of `ReadReturnsOwnValue`, `FinalSourcesAnnounced`, `NoPassWithoutTarget`, `EditedIsChanged` with a shared stem, `NoChangeMeansCurrent` and `WatchKeepsRunning`, and the two remote-build traces below;
- `BuildCommandEnds` (liveness);
- everything about the ROM tools (`RomTypeOK`, `FixSucceeds`). RomTools computes sums with `FoldLeft` of SequencesExt, which is recursive, so no theorem can be stated in RomTools or in a module that extends it. `FixSucceeds` is, besides, a fact about a sum over every byte of every image. Proving it would need induction over the sequence, and the provers cannot instantiate the library's induction theorems.

## 4. What is not modelled yet, and the plan

| Order | Module (planned) | Content | Properties |
|---|---|---|---|
| 1 | `RTLBuild`: done, see above | — | — |
| 2 | `TestRun`: done, see above | — | — |
| 3 | `ChangeCache`: done, see above. The VivadoBuilder decisions remain. | the `< 10` / `<= 10` threshold of generate_incremental_tcl and estimate_build_time | the estimate matches the build it describes |
| 4 | `FwLoop`: done, see above. Composing it with `CDCConsole`'s reply mechanics remains. | deploy's commands over the late-reply console | a late OK accepted for the wrong command |
| 5 | console helpers | disconnect/reconnect, probe and status parsing | composed with `CDCConsole` |
| 6 | abstract console | a register file that read_memory and write_memory refine, with a promise that still says something once a call has timed out | refinement |

These parts stay unmodelled, for the reasons given:
- The Simulator wrapper, beyond quick_check's lookup and pass/fail, is a
  subprocess wrapper.
- remote_build.py's setup wizard, its config file and check_connection are
  interactive prompts and read-only ssh probes. They change no state that
  the build or watch commands read.
- The dashboards (tools/tui/dashboards.py) are curses drawing over
  `generate_mock_data()`. They hold no state that a property could be
  about, and formatting is left out of every model.
- The text the ROM info tools print (entry jump, PnP header, strings, code
  size) is formatting of bytes the tools never change.
- The bodies of the hardware tests enter the test-runner model only as
  their outcomes.
