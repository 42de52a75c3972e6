---------------------------- MODULE ChangeCache ----------------------------
(***************************************************************************)
(* Change detection and RTLWorkflow.smart_build, src/tools/devloop/       *)
(* rtl_tools.py: scan_rtl_modules, get_changed_modules and                 *)
(* save_module_cache (lines 61-136), quick_check (397-424) and smart_build *)
(* (454-483), with the developer editing the RTL tree meanwhile.           *)
(*                                                                         *)
(* A source file has a stem (the module name scan_rtl_modules keys it by)  *)
(* and an extension; its contents are a member of Contents, or Absent when *)
(* the file does not exist.  A module hash is taken to be injective, so    *)
(* the cache maps a module name to the contents it was scanned with; a    *)
(* missing cache file reads as the empty dict, Absent everywhere.  The     *)
(* file can also be corrupt: write_text truncates the file before writing  *)
(* it, so a crash in between leaves a file json.loads rejects.  Vivado reads the whole tree when it starts   *)
(* synthesis; bit records what the bitstream on disk was compiled from.    *)
(***************************************************************************)
EXTENDS Naturals

CONSTANTS
  Files,      \* RTL source files
  Names,      \* module names (file stems)
  Stem,       \* Stem[f]: the module name of file f
  Ext,        \* Ext[f]: "v" or "sv"
  HasTB,      \* HasTB[n]: a testbench tb_<n>.v exists
  Contents,   \* possible contents of a file
  Absent,     \* model value: the file does not exist / the name is not in the cache
  MaxEdits,   \* bound on the developer's edits
  MaxBuilds,  \* bound on the number of smart_build calls
  MaxCrashes  \* bound on the number of crashes of the build process

ASSUME CacheConstantsAssumption ==
  /\ Stem \in [Files -> Names]
  /\ Ext \in [Files -> {"v", "sv"}]
  /\ HasTB \in [Names -> BOOLEAN]
  /\ Absent \notin Contents
  /\ MaxEdits \in Nat /\ MaxBuilds \in Nat /\ MaxCrashes \in Nat

VARIABLES
  src,        \* the RTL tree: file -> contents or Absent
  cache,      \* .rtl_cache.json: name -> contents or Absent
  corrupt,    \* .rtl_cache.json is truncated
  pc,         \* smart_build: "idle", "sim", "vivado", "run", "save"
  scanned,    \* the modules dict of the current call: name -> contents or Absent
  changed,    \* the changed list of the current call
  vsnap,      \* the tree as Vivado read it
  bit,        \* the tree the bitstream on disk was compiled from
  result,     \* how the last call ended
  counts,     \* [edits, builds, crashes] so far
  scanSrc,    \* history: the tree at the scan of the current or last call
  committed   \* history: the tree at the scan of the last committed build

vars == <<src, cache, corrupt, pc, scanned, changed, vsnap, bit, result, counts,
          scanSrc, committed>>

Tree == [Files -> Contents \cup {Absent}]

ModuleMap == [Names -> Contents \cup {Absent}]

(* The modules dicts scan_rtl_modules can return for tree s: a name is     *)
(* given the contents of one of its files; the *.sv pass comes after the   *)
(* *.v pass and overwrites it, and within a pass rglob's order decides.   *)
Winners(s, n) ==
  LET present == {f \in Files : Stem[f] = n /\ s[f] # Absent}
      sv      == {f \in present : Ext[f] = "sv"}
  IN  IF sv # {} THEN sv ELSE present

Scans(s) ==
  {m \in ModuleMap :
     \A n \in Names :
       IF Winners(s, n) = {} THEN m[n] = Absent
                             ELSE \E f \in Winners(s, n) : m[n] = s[f]}

(* get_changed_modules: the names scanned whose hash is not in the cache  *)
(* or differs from it.                                                      *)
Changed(m, c) ==
  {n \in Names : m[n] # Absent /\ c[n] # m[n]}

(* Every module comes from one file: no two RTL files share a stem.        *)
StemInjective == \A f, g \in Files : Stem[f] = Stem[g] => f = g

(* quick_check finds the module only as <name>.v, then needs a testbench.  *)
Checkable(n, s) ==
  /\ \E f \in Files : Stem[f] = n /\ Ext[f] = "v" /\ s[f] # Absent
  /\ HasTB[n]

Init ==
  /\ src \in Tree
  /\ cache = [n \in Names |-> Absent]
  /\ corrupt = FALSE
  /\ pc = "idle"
  /\ scanned = [n \in Names |-> Absent]
  /\ changed = {}
  /\ vsnap = [f \in Files |-> Absent]
  /\ bit = [f \in Files |-> Absent]
  /\ result = "none"
  /\ counts = [edits |-> 0, builds |-> 0, crashes |-> 0]
  /\ scanSrc = [f \in Files |-> Absent]
  /\ committed = [f \in Files |-> Absent]

(* The developer creates, changes or deletes a file.                       *)
Edit ==
  /\ counts.edits < MaxEdits
  /\ \E f \in Files, c \in Contents \cup {Absent} :
       /\ c # src[f]
       /\ src' = [src EXCEPT ![f] = c]
  /\ counts' = [counts EXCEPT !.edits = @ + 1]
  /\ UNCHANGED <<cache, corrupt, pc, scanned, changed, vsnap, bit, result, scanSrc, committed>>

(* smart_build starts: scan the tree, load the cache and compare.  A      *)
(* corrupt cache makes json.loads raise out of smart_build; an empty      *)
(* changed list returns True at once.                                      *)
Scan ==
  /\ pc = "idle"
  /\ counts.builds < MaxBuilds
  /\ counts' = [counts EXCEPT !.builds = @ + 1]
  /\ \/ /\ corrupt
        /\ result' = "raised"
        /\ UNCHANGED <<pc, scanned, changed, scanSrc>>
     \/ /\ ~corrupt
        /\ \E m \in Scans(src) :
             /\ scanned' = m
             /\ changed' = Changed(m, cache)
        /\ scanSrc' = src
        /\ IF changed' = {}
             THEN pc' = "idle" /\ result' = "nochange"
             ELSE pc' = "sim" /\ result' = "none"
  /\ UNCHANGED <<src, cache, corrupt, vsnap, bit, committed>>

(* The simulations of the changed modules: the build is aborted at the    *)
(* first module quick_check cannot find, has no testbench for, or whose   *)
(* simulation reports a failure.                                           *)
SimCheck ==
  /\ pc = "sim"
  /\ \/ /\ \A n \in changed : Checkable(n, src)
        /\ pc' = "vivado"
        /\ UNCHANGED result
     \/ /\ pc' = "idle"
        /\ result' = "simfail"
  /\ UNCHANGED <<src, cache, corrupt, scanned, changed, vsnap, bit, counts, scanSrc, committed>>

(* VivadoBuilder.build: Vivado starts and reads the tree.                  *)
VivadoStart ==
  /\ pc = "vivado"
  /\ pc' = "run"
  /\ vsnap' = src
  /\ UNCHANGED <<src, cache, corrupt, scanned, changed, bit, result, counts, scanSrc, committed>>

(* Vivado exits: on success the bitstream is the tree it read.             *)
VivadoEnd ==
  /\ pc = "run"
  /\ \/ /\ bit' = vsnap
        /\ pc' = "save"
        /\ UNCHANGED result
     \/ /\ pc' = "idle"
        /\ result' = "failed"
        /\ UNCHANGED bit
  /\ UNCHANGED <<src, cache, corrupt, scanned, changed, vsnap, counts, scanSrc, committed>>

(* Mutant: a cache keyed by file rather than by module name.               *)
SaveByFile ==
  /\ pc = "save"
  /\ pc' = "idle"
  /\ cache' = scanSrc
  /\ result' = "built"
  /\ committed' = scanSrc
  /\ UNCHANGED <<src, corrupt, scanned, changed, vsnap, bit, counts, scanSrc>>

(* Mutant: a cache written from a fresh scan after the build.              *)
SaveRescanned ==
  /\ pc = "save"
  /\ pc' = "idle"
  /\ cache' \in Scans(src)
  /\ result' = "built"
  /\ committed' = scanSrc
  /\ UNCHANGED <<src, corrupt, scanned, changed, vsnap, bit, counts, scanSrc>>

(* save_module_cache: the hashes scanned before the build replace the     *)
(* cache file wholesale.                                                   *)
Save ==
  /\ pc = "save"
  /\ pc' = "idle"
  /\ cache' = scanned
  /\ result' = "built"
  /\ committed' = scanSrc
  /\ UNCHANGED <<src, corrupt, scanned, changed, vsnap, bit, counts, scanSrc>>

(* The build process dies.  In the middle of save_module_cache it leaves  *)
(* a truncated cache file; anywhere else the cache is untouched.           *)
Crash ==
  /\ pc # "idle"
  /\ counts.crashes < MaxCrashes
  /\ counts' = [counts EXCEPT !.crashes = @ + 1]
  /\ pc' = "idle"
  /\ result' = "crashed"
  /\ corrupt' = (pc = "save")
  /\ UNCHANGED <<src, cache, scanned, changed, vsnap, bit, scanSrc, committed>>

Next ==
  \/ Edit
  \/ Scan
  \/ SimCheck
  \/ VivadoStart
  \/ VivadoEnd
  \/ Save
  \/ Crash

Spec == Init /\ [][Next]_vars

-----------------------------------------------------------------------------
CacheTypeOK ==
  /\ src \in Tree
  /\ cache \in ModuleMap
  /\ corrupt \in BOOLEAN
  /\ pc \in {"idle", "sim", "vivado", "run", "save"}
  /\ scanned \in ModuleMap
  /\ changed \subseteq Names
  /\ vsnap \in Tree
  /\ bit \in Tree
  /\ result \in {"none", "nochange", "raised", "simfail", "failed", "built", "crashed"}
  /\ counts \in [edits : 0..MaxEdits, builds : 0..MaxBuilds, crashes : 0..MaxCrashes]
  /\ scanSrc \in Tree
  /\ committed \in Tree

(* Spec 8: a file created or modified since the last committed build is   *)
(* reported as changed by the next get_changed_modules (deletions are out *)
(* of scope, spec 4.3).                                                    *)
EditedIsChanged ==
  (pc # "idle" \/ result = "nochange")
    => \A f \in Files :
         scanSrc[f] # Absent /\ scanSrc[f] # committed[f] => Stem[f] \in changed

(* When smart_build finds no changes and skips the build, the bitstream   *)
(* on disk was compiled from the tree as it is (deleted files aside): spec *)
(* 3 says the cache represents the last successfully built state.          *)
NoChangeMeansCurrent ==
  result = "nochange"
    => \A f \in Files : scanSrc[f] # Absent => bit[f] = scanSrc[f]

=============================================================================
