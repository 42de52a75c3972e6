------------------------- MODULE ChangeCacheProofs -------------------------
(***************************************************************************)
(* Proofs about ChangeCache: the type invariant, and that with one file   *)
(* per module name a file edited since the last committed build is in the  *)
(* changed list of the next smart_build (EditedIsChanged).                 *)
(***************************************************************************)
EXTENDS ChangeCache, TLAPS

(* The region where changed and scanned describe the current call.        *)
InCall == pc # "idle" \/ result = "nochange"

(* The cache holds, under each file's module name, the contents the file   *)
(* had at the scan of the last committed build.                            *)
CacheIsCommitted == \A f \in Files : cache[Stem[f]] = committed[f]

(* Within a call, scanned is the scan of scanSrc and changed its diff      *)
(* against the cache.                                                      *)
CallIsScan ==
  InCall => /\ \A f \in Files : scanned[Stem[f]] = scanSrc[f]
            /\ changed = Changed(scanned, cache)

CInv == CacheTypeOK /\ CacheIsCommitted /\ CallIsScan

-----------------------------------------------------------------------------
LEMMA CacheTypeInit == Init => CacheTypeOK
<1> SUFFICES ASSUME Init PROVE CacheTypeOK
  OBVIOUS
<1>1. cache \in ModuleMap /\ scanned \in ModuleMap
  BY DEF Init, ModuleMap
<1>2. vsnap \in Tree /\ bit \in Tree /\ scanSrc \in Tree /\ committed \in Tree
  BY DEF Init, Tree
<1>3. counts \in [edits : 0..MaxEdits, builds : 0..MaxBuilds, crashes : 0..MaxCrashes]
  BY CacheConstantsAssumption DEF Init
<1>4. QED
  BY <1>1, <1>2, <1>3 DEF Init, CacheTypeOK

(* A scan maps every name to contents or Absent.                           *)
LEMMA ScansType ==
  ASSUME NEW s \in Tree PROVE Scans(s) \subseteq ModuleMap
BY DEF Scans

(* With one file per name, a scan gives each file's name its contents.     *)
LEMMA ScanOfFile ==
  ASSUME StemInjective, NEW s \in Tree, NEW m \in Scans(s), NEW f \in Files
  PROVE  m[Stem[f]] = s[f]
<1> DEFINE n == Stem[f]
<1>1. \A g \in Files : Stem[g] = n => g = f
  BY DEF StemInjective
<1>2. n \in Names
  BY CacheConstantsAssumption
<1>3. IF Winners(s, n) = {} THEN m[n] = Absent
                            ELSE \E g \in Winners(s, n) : m[n] = s[g]
  BY <1>2 DEF Scans
<1>4. CASE s[f] = Absent
  <2>1. Winners(s, n) = {}
    BY <1>1, <1>4 DEF Winners
  <2>2. QED
    BY <1>3, <1>4, <2>1
<1>5. CASE s[f] # Absent
  <2>1. Winners(s, n) = {f}
    BY <1>1, <1>5 DEF Winners
  <2>2. QED
    BY <1>3, <2>1
<1>6. QED
  BY <1>4, <1>5

LEMMA CacheTypeStep == CacheTypeOK /\ [Next]_vars => CacheTypeOK'
<1> SUFFICES ASSUME CacheTypeOK, [Next]_vars PROVE CacheTypeOK'
  OBVIOUS
<1> DEFINE CountsType ==
       [edits : 0..MaxEdits, builds : 0..MaxBuilds, crashes : 0..MaxCrashes]
<1>1. CASE Edit
  <2>1. counts' \in CountsType
    BY <1>1, CacheConstantsAssumption DEF Edit, CacheTypeOK
  <2>2. src' \in Tree
    BY <1>1 DEF Edit, CacheTypeOK, Tree
  <2>3. QED
    BY <1>1, <2>1, <2>2 DEF Edit, CacheTypeOK
<1>2. CASE Scan
  <2>0. counts' \in CountsType
    BY <1>2, CacheConstantsAssumption DEF Scan, CacheTypeOK
  <2>1. CASE corrupt
    BY <1>2, <2>0, <2>1 DEF Scan, CacheTypeOK
  <2>2. CASE ~corrupt
    <3>1. PICK m \in Scans(src) : scanned' = m /\ changed' = Changed(m, cache)
      BY <1>2, <2>2 DEF Scan
    <3>2. m \in ModuleMap
      BY <3>1, ScansType DEF CacheTypeOK
    <3>3. QED
      BY <1>2, <2>0, <2>2, <3>1, <3>2 DEF Scan, CacheTypeOK, Changed
  <2>3. QED
    BY <2>1, <2>2
<1>3. CASE SimCheck
  BY <1>3 DEF SimCheck, CacheTypeOK
<1>4. CASE VivadoStart
  BY <1>4 DEF VivadoStart, CacheTypeOK
<1>5. CASE VivadoEnd
  BY <1>5 DEF VivadoEnd, CacheTypeOK
<1>6. CASE Save
  BY <1>6 DEF Save, CacheTypeOK
<1>7. CASE Crash
  <2>1. counts' \in CountsType
    BY <1>7, CacheConstantsAssumption DEF Crash, CacheTypeOK
  <2>2. QED
    BY <1>7, <2>1 DEF Crash, CacheTypeOK
<1>8. CASE UNCHANGED vars
  BY <1>8 DEF vars, CacheTypeOK
<1>9. QED
  BY <1>1, <1>2, <1>3, <1>4, <1>5, <1>6, <1>7, <1>8 DEF Next

(* The change-detection state is well typed in every reachable state.     *)
THEOREM CacheTypeCorrect == Spec => []CacheTypeOK
BY CacheTypeInit, CacheTypeStep, PTL DEF Spec

-----------------------------------------------------------------------------
LEMMA CInvInit == Init => CInv
<1> SUFFICES ASSUME Init PROVE CInv
  OBVIOUS
<1>1. CacheTypeOK
  BY CacheTypeInit
<1>2. CacheIsCommitted
  BY CacheConstantsAssumption DEF Init, CacheIsCommitted
<1>3. ~InCall
  BY DEF Init, InCall
<1>4. QED
  BY <1>1, <1>2, <1>3 DEF CInv, CallIsScan

(* A step that leaves the scan, the diff, the cache and the history alone, *)
(* and does not enter a call, keeps the two invariants.                    *)
LEMMA FrameStep ==
  ASSUME CInv, InCall' => InCall,
         scanned' = scanned, changed' = changed, cache' = cache,
         scanSrc' = scanSrc, committed' = committed
  PROVE  CacheIsCommitted' /\ CallIsScan'
<1>1. CacheIsCommitted'
  BY DEF CInv, CacheIsCommitted
<1>2. Changed(scanned, cache)' = Changed(scanned, cache)
  BY DEF Changed
<1>3. CallIsScan'
  BY <1>2 DEF CInv, CallIsScan
<1>4. QED
  BY <1>1, <1>3

(* Each step of smart_build keeps the cache equal to the last committed    *)
(* scan, and changed equal to the diff of the current scan against it.    *)
LEMMA CInvStep ==
  ASSUME StemInjective, CInv, [Next]_vars PROVE CInv'
<1> USE DEF CInv
<1>1. CacheTypeOK'
  BY CacheTypeStep
<1>2. CASE Edit
  <2>1. InCall' => InCall
    BY <1>2 DEF Edit, InCall
  <2>2. QED
    BY <1>2, <1>1, <2>1, FrameStep DEF Edit
<1>3. CASE Scan
  <2>1. CASE corrupt
    <3>1. ~InCall'
      BY <1>3, <2>1 DEF Scan, InCall
    <3>2. QED
      BY <1>3, <1>1, <3>1 DEF Scan, CacheIsCommitted, CallIsScan
  <2>2. CASE ~corrupt
    <3>1. PICK m \in Scans(src) : scanned' = m /\ changed' = Changed(m, cache)
      BY <1>3, <2>2 DEF Scan
    <3>2. scanSrc' = src /\ cache' = cache /\ committed' = committed
      BY <1>3, <2>2 DEF Scan
    <3>3. \A f \in Files : scanned'[Stem[f]] = scanSrc'[f]
      BY <3>1, <3>2, ScanOfFile DEF CacheTypeOK
    <3>4. changed' = Changed(scanned', cache')
      BY <3>1, <3>2
    <3>5. QED
      BY <1>1, <3>2, <3>3, <3>4 DEF CacheIsCommitted, CallIsScan
  <2>3. QED
    BY <2>1, <2>2
<1>4. CASE SimCheck
  <2>1. InCall' => InCall
    BY <1>4 DEF SimCheck, InCall
  <2>2. QED
    BY <1>4, <1>1, <2>1, FrameStep DEF SimCheck
<1>5. CASE VivadoStart
  <2>1. InCall' => InCall
    BY <1>5 DEF VivadoStart, InCall
  <2>2. QED
    BY <1>5, <1>1, <2>1, FrameStep DEF VivadoStart
<1>6. CASE VivadoEnd
  <2>1. InCall' => InCall
    BY <1>6 DEF VivadoEnd, InCall
  <2>2. QED
    BY <1>6, <1>1, <2>1, FrameStep DEF VivadoEnd
<1>7. CASE Save
  <2>1. \A f \in Files : scanned[Stem[f]] = scanSrc[f]
    BY <1>7 DEF Save, CallIsScan, InCall
  <2>2. CacheIsCommitted'
    BY <1>7, <2>1 DEF Save, CacheIsCommitted
  <2>3. ~InCall'
    BY <1>7 DEF Save, InCall
  <2>4. QED
    BY <1>1, <2>2, <2>3 DEF CallIsScan
<1>8. CASE Crash
  <2>1. ~InCall'
    BY <1>8 DEF Crash, InCall
  <2>2. QED
    BY <1>1, <1>8, <2>1 DEF Crash, CacheIsCommitted, CallIsScan
<1>9. CASE UNCHANGED vars
  <2>1. InCall' => InCall
    BY <1>9 DEF vars, InCall
  <2>2. QED
    BY <1>9, <1>1, <2>1, FrameStep DEF vars
<1>10. QED
  BY <1>2, <1>3, <1>4, <1>5, <1>6, <1>7, <1>8, <1>9 DEF Next

LEMMA CInvEdited == CInv => EditedIsChanged
<1> SUFFICES ASSUME CInv, InCall, NEW f \in Files,
                    scanSrc[f] # Absent, scanSrc[f] # committed[f]
             PROVE  Stem[f] \in changed
  BY DEF EditedIsChanged, InCall
<1>1. scanned[Stem[f]] = scanSrc[f] /\ changed = Changed(scanned, cache)
  BY DEF CInv, CallIsScan
<1>2. cache[Stem[f]] = committed[f]
  BY DEF CInv, CacheIsCommitted
<1>3. Stem[f] \in Names
  BY CacheConstantsAssumption
<1>4. QED
  BY <1>1, <1>2, <1>3 DEF Changed

(* With one file per module name, a file created or modified since the    *)
(* last committed build is always in smart_build's changed list, through   *)
(* failed builds, crashes and a truncated cache file alike: the cache only *)
(* ever holds the hashes of the last committed scan.                       *)
THEOREM EditedAlwaysChanged ==
  ASSUME StemInjective PROVE Spec => []EditedIsChanged
<1>1. Init => CInv
  BY CInvInit
<1>2. CInv /\ [Next]_vars => CInv'
  BY CInvStep
<1>3. CInv => EditedIsChanged
  BY CInvEdited
<1>4. QED
  BY <1>1, <1>2, <1>3, PTL DEF Spec

=============================================================================
