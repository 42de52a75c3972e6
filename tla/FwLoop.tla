------------------------------- MODULE FwLoop -------------------------------
(***************************************************************************)
(* The firmware half of the development loop, src/tools/devloop/          *)
(* fluxripper_dev.py: the firmware check of DevLoop.watch_and_reload       *)
(* (lines 715-725), fw_reload (674-693), FirmwareBuilder.build and deploy   *)
(* (264-329) and CDCConsole.write_block and the cpu commands (170-235).    *)
(*                                                                         *)
(* The firmware tree is a member of Versions, its hash taken to be         *)
(* injective.  make reads the tree at some point while it runs, and       *)
(* Image[v] is the firmware.bin it produces from version v when           *)
(* Compiles[v].  Each console command gets its OK line or not; a command   *)
(* whose reply is lost may still have taken effect on the target.  When    *)
(* Raises, make may time out and a serial write may raise, and nothing on  *)
(* the way up catches either exception.  The RTL half of the loop is in    *)
(* RTLBuild and touches none of this state.                                *)
(***************************************************************************)
EXTENDS Naturals, Sequences

CONSTANTS
  Versions,   \* possible contents of the firmware tree
  Image,      \* Image[v]: the bytes of firmware.bin built from v
  Compiles,   \* Compiles[v]: make succeeds on v
  Base,       \* fw_base, the BRAM load address
  Junk,       \* what the BRAM holds before the first deploy
  Raises,     \* whether make can time out and the serial port can fail
  MaxEdits,   \* bound on the developer's edits
  MaxWords,   \* words of BRAM modelled from fw_base on
  NoVersion   \* model value: no hash / no binary yet

Byte == 0..255

(* write_block's words: range(0, len(data), 4).                           *)
NWords(d) == (Len(d) + 3) \div 4

ASSUME FwConstantsAssumption ==
  /\ NoVersion \notin Versions
  /\ Image \in [Versions -> Seq(Byte)]
  /\ Compiles \in [Versions -> BOOLEAN]
  /\ Base \in Nat /\ Junk \in Byte
  /\ Raises \in BOOLEAN
  /\ MaxEdits \in Nat
  /\ MaxWords \in Nat
  /\ \A v \in Versions : NWords(Image[v]) <= MaxWords

VARIABLES
  src,        \* the firmware tree
  edits,      \* number of edits so far
  lastFw,     \* watch_and_reload's last_fw_hash
  cur,        \* watch_and_reload's current_fw_hash of the reload under way
  snap,       \* the tree make read
  built,      \* the version build/firmware.bin was made from
  lastHash,   \* FirmwareBuilder.last_hash
  pc,         \* "poll", "make", "made", "halt", "write", "reset", "run", "quick", "aborted"
  wi,         \* write_block's word index
  cpu,        \* the target CPU: "running" or "halted"
  mem,        \* the BRAM bytes at fw_base onwards
  deployOK    \* history: the last deploy returned True

vars == <<src, edits, lastFw, cur, snap, built, lastHash, pc, wi, cpu, mem,
          deployOK>>

Mem == Base .. Base + 4 * MaxWords - 1

(* The byte at offset x of data, zero past its end (the padding).         *)
ByteAt(d, x) == IF x < Len(d) THEN d[x + 1] ELSE 0

(* Mutant: words packed most significant byte first.                      *)
WordOfBig(d, k) ==
  LET x == 4 * (k - 1)
  IN  ByteAt(d, x + 3) + 256 * ByteAt(d, x + 2)
        + 65536 * ByteAt(d, x + 1) + 16777216 * ByteAt(d, x)

(* int.from_bytes(chunk, 'little') of the k-th chunk, padded with zeros.  *)
WordOf(d, k) ==
  LET x == 4 * (k - 1)
  IN  ByteAt(d, x) + 256 * ByteAt(d, x + 1)
        + 65536 * ByteAt(d, x + 2) + 16777216 * ByteAt(d, x + 3)

(* dbg w on the target: the word lands little-endian at addr..addr+3.     *)
Store(m, addr, w) ==
  [a \in DOMAIN m |-> IF a \in addr .. addr + 3
                        THEN (w \div (256 ^ (a - addr))) % 256
                        ELSE m[a]]

(* What a console command can come back with.                              *)
Reply == IF Raises THEN {"ok", "lost", "raise"} ELSE {"ok", "lost"}

Init ==
  /\ src \in Versions
  /\ edits = 0
  /\ lastFw = src
  /\ cur = NoVersion
  /\ snap = NoVersion
  /\ built = NoVersion
  /\ lastHash = NoVersion
  /\ pc = "poll"
  /\ wi = 0
  /\ cpu = "running"
  /\ mem = [a \in Mem |-> Junk]
  /\ deployOK = FALSE

(* The developer saves a change to the firmware tree.                      *)
Edit ==
  /\ edits < MaxEdits
  /\ src' \in Versions \ {src}
  /\ edits' = edits + 1
  /\ UNCHANGED <<lastFw, cur, snap, built, lastHash, pc, wi, cpu, mem, deployOK>>

(* fw_reload has returned, either way: last_fw_hash = current_fw_hash.     *)
Finish ==
  /\ lastFw' = cur
  /\ pc' = "poll"

(* A step of fw_reload returned False.                                     *)
Fail ==
  /\ Finish
  /\ deployOK' = FALSE

(* An exception leaves watch_and_reload (only KeyboardInterrupt is caught). *)
Abort ==
  /\ pc' = "aborted"
  /\ UNCHANGED <<lastFw, deployOK>>

(* The firmware check of one pass: a changed hash starts fw_reload.        *)
Poll ==
  /\ pc = "poll"
  /\ src # lastFw
  /\ cur' = src
  /\ pc' = "make"
  /\ deployOK' = FALSE
  /\ UNCHANGED <<src, edits, lastFw, snap, built, lastHash, wi, cpu, mem>>

(* make reads the sources.                                                 *)
MakeRead ==
  /\ pc = "make"
  /\ snap' = src
  /\ pc' = "made"
  /\ UNCHANGED <<src, edits, lastFw, cur, built, lastHash, wi, cpu, mem, deployOK>>

(* make exits: on success last_hash is the hash of the tree as it is now;  *)
(* a timeout raises TimeoutExpired.                                        *)
MakeEnd ==
  /\ pc = "made"
  /\ \/ /\ Compiles[snap]
        /\ built' = snap
        /\ lastHash' = src
        /\ pc' = "halt"
        /\ UNCHANGED <<lastFw, deployOK>>
     \/ /\ ~Compiles[snap]
        /\ Fail
        /\ UNCHANGED <<built, lastHash>>
     \/ /\ Raises
        /\ Abort
        /\ UNCHANGED <<built, lastHash>>
  /\ UNCHANGED <<src, edits, cur, snap, wi, cpu, mem>>

(* deploy: get_binary, then dbg cpu halt.                                  *)
Halt ==
  /\ pc = "halt"
  /\ Image[built] = << >>
  /\ Fail
  /\ UNCHANGED <<src, edits, cur, snap, built, lastHash, wi, cpu, mem>>

(* Mutant of HaltCmd: deploy goes on to write_block without checking       *)
(* cpu_halt's result.                                                      *)
HaltCmdUnchecked ==
  /\ pc = "halt"
  /\ Image[built] # << >>
  /\ \E r \in Reply, done \in BOOLEAN :
       /\ cpu' = IF r = "ok" \/ done THEN "halted" ELSE cpu
       /\ CASE r \in {"ok", "lost"} -> pc' = "write" /\ wi' = 0 /\ UNCHANGED <<lastFw, deployOK>>
            [] r = "raise"         -> Abort /\ UNCHANGED wi
  /\ UNCHANGED <<src, edits, cur, snap, built, lastHash, mem>>

HaltCmd ==
  /\ pc = "halt"
  /\ Image[built] # << >>
  /\ \E r \in Reply, done \in BOOLEAN :
       /\ cpu' = IF r = "ok" \/ done THEN "halted" ELSE cpu
       /\ CASE r = "ok"    -> pc' = "write" /\ wi' = 0 /\ UNCHANGED <<lastFw, deployOK>>
            [] r = "lost"  -> Fail /\ UNCHANGED wi
            [] r = "raise" -> Abort /\ UNCHANGED wi
  /\ UNCHANGED <<src, edits, cur, snap, built, lastHash, mem>>

(* Mutant: a write loop that runs one word past the end of the data.    *)
WriteWordPastEnd ==
  /\ pc = "write"
  /\ \E r \in Reply, done \in BOOLEAN :
       /\ mem' = IF r = "ok" \/ done
                   THEN Store(mem, Base + wi * 4, WordOf(Image[built], wi + 1))
                   ELSE mem
       /\ CASE r = "ok"    -> /\ wi' = wi + 1
                              /\ pc' = IF wi = NWords(Image[built]) THEN "reset" ELSE "write"
                              /\ UNCHANGED <<lastFw, deployOK>>
            [] r = "lost"  -> Fail /\ UNCHANGED wi
            [] r = "raise" -> Abort /\ UNCHANGED wi
  /\ UNCHANGED <<src, edits, cur, snap, built, lastHash, cpu>>

(* write_block: one dbg w per word, at fw_base + 4 i, stopping at the      *)
(* first write without an OK.                                              *)
WriteWord ==
  /\ pc = "write"
  /\ \E r \in Reply, done \in BOOLEAN :
       /\ mem' = IF r = "ok" \/ done
                   THEN Store(mem, Base + wi * 4, WordOf(Image[built], wi + 1))
                   ELSE mem
       /\ CASE r = "ok"    -> /\ wi' = wi + 1
                              /\ pc' = IF wi + 1 = NWords(Image[built]) THEN "reset" ELSE "write"
                              /\ UNCHANGED <<lastFw, deployOK>>
            [] r = "lost"  -> Fail /\ UNCHANGED wi
            [] r = "raise" -> Abort /\ UNCHANGED wi
  /\ UNCHANGED <<src, edits, cur, snap, built, lastHash, cpu>>

(* deploy: dbg cpu reset (the CPU restarts at its reset vector and stays   *)
(* as it was, halted or running).                                          *)
Reset ==
  /\ pc = "reset"
  /\ \E r \in Reply :
       CASE r = "ok"    -> pc' = "run" /\ UNCHANGED <<lastFw, deployOK>>
         [] r = "lost"  -> Fail
         [] r = "raise" -> Abort
  /\ UNCHANGED <<src, edits, cur, snap, built, lastHash, wi, cpu, mem>>

(* deploy: dbg cpu run; deploy returns True on its OK.                     *)
Run ==
  /\ pc = "run"
  /\ \E r \in Reply, done \in BOOLEAN :
       /\ cpu' = IF r = "ok" \/ done THEN "running" ELSE cpu
       /\ CASE r = "ok"    -> pc' = "quick" /\ deployOK' = TRUE /\ UNCHANGED lastFw
            [] r = "lost"  -> Fail
            [] r = "raise" -> Abort
  /\ UNCHANGED <<src, edits, cur, snap, built, lastHash, wi, mem>>

(* test_memory_walking_ones' test word, 0x40000100 in the BRAM.          *)
TestAddr == 1073742080

TestWord == TestAddr .. TestAddr + 3

(* dbg w of the pattern 1 << b at the test word: byte b \div 8 of the     *)
(* little-endian word holds 2^(b % 8), the other three hold zero.         *)
WalkStore(m, b) ==
  [a \in DOMAIN m |-> IF a \in TestWord
                        THEN IF a - TestAddr = b \div 8 THEN 2 ^ (b % 8) ELSE 0
                        ELSE m[a]]

(* fw_reload's get_layer, then run_quick, with the CPU running.  Of the    *)
(* quick tests only memory_walking writes the BRAM: one dbg w per pattern, *)
(* stopping at the first failed write or read-back, so the test word ends  *)
(* up as it was or holding one of the patterns.  Whether it runs at all    *)
(* depends on memory_basic and on the layer the target reports.  The       *)
(* verdict is only printed, but get_layer's serial write is outside any    *)
(* try.                                                                    *)
Quick ==
  /\ pc = "quick"
  /\ mem' \in {mem} \cup {WalkStore(mem, b) : b \in 0 .. 31}
  /\ \/ Finish /\ UNCHANGED deployOK
     \/ Raises /\ Abort
  /\ UNCHANGED <<src, edits, cur, snap, built, lastHash, wi, cpu>>

Next ==
  \/ Edit
  \/ Poll
  \/ MakeRead \/ MakeEnd
  \/ Halt \/ HaltCmd \/ WriteWord \/ Reset \/ Run
  \/ Quick

Spec == Init /\ [][Next]_vars

-----------------------------------------------------------------------------
FwTypeOK ==
  /\ src \in Versions
  /\ edits \in 0..MaxEdits
  /\ {lastFw, cur, snap, built, lastHash} \subseteq Versions \cup {NoVersion}
  /\ pc \in {"poll", "make", "made", "halt", "write", "reset", "run", "quick", "aborted"}
  /\ wi \in 0..MaxWords
  /\ cpu \in {"running", "halted"}
  /\ DOMAIN mem = Mem /\ \A a \in Mem : mem[a] \in Byte
  /\ deployOK \in BOOLEAN

(* Once deploy has returned True, and until the next reload starts, the    *)
(* CPU runs and the BRAM at fw_base holds firmware.bin byte for byte,     *)
(* zero-padded to a whole word, except for the walking-ones test word the  *)
(* quick tests overwrite: write_block's little-endian packing, its stride  *)
(* and its stop at the first failed write, deploy's order of halt, write, *)
(* reset and run, and that no quick test writes elsewhere in the image    *)
(* (spec 4.2, 4.4).                                                        *)
DeployedImage ==
  deployOK =>
    /\ cpu = "running"
    /\ \A x \in 0 .. 4 * NWords(Image[built]) - 1 :
         Base + x \notin TestWord => mem[Base + x] = ByteAt(Image[built], x)

(* The watch loop keeps running: spec 7 says build errors (a timeout       *)
(* among them) and transport errors never abort it.                        *)
WatchKeepsRunning == pc # "aborted"

(* Outside the walking-ones test word, the BRAM changes only between a    *)
(* cpu_halt that got its OK and the cpu_run: no step that changes such a   *)
(* byte starts or ends with the CPU running, whatever replies were lost on *)
(* the way (spec 4.2).                                                     *)
WritesWhileHalted ==
  [][\A a \in Mem \ TestWord : mem'[a] # mem[a] => cpu = "halted" /\ cpu' = "halted"]_vars

=============================================================================
