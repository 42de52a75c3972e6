---------------------------- MODULE FwLoopProofs ----------------------------
(***************************************************************************)
(* Proofs about the firmware reload: the type invariant, that a deploy    *)
(* that returned True left the CPU running firmware.bin, written          *)
(* little-endian and zero-padded at fw_base, and that only the quick      *)
(* tests' word is overwritten after it (DeployedImage), and that the rest *)
(* of the BRAM changes only while the CPU is halted (WritesWhileHalted),  *)
(* for every set of versions and images and whether or not make and the   *)
(* serial port can raise.                                                  *)
(***************************************************************************)
EXTENDS FwLoop, LittleEndian, SequenceTheorems, TLAPS

Img == Image[built]

(* The first n bytes at fw_base are the image's (padded) bytes, save those *)
(* of the quick tests' word.                                              *)
Loaded(n) ==
  \A x \in 0 .. n - 1 : Base + x \notin TestWord => mem[Base + x] = ByteAt(Img, x)

(* Where the reload is, what the BRAM already holds.                       *)
Progress ==
  /\ pc = "made" => snap \in Versions
  /\ pc \in {"halt", "write", "reset", "run", "quick"} => built \in Versions
  /\ pc = "write" => /\ wi < NWords(Img)
                     /\ Loaded(4 * wi)
  /\ pc \in {"reset", "run"} => Loaded(4 * NWords(Img))
  /\ deployOK => /\ pc \in {"quick", "poll", "aborted"}
                 /\ built \in Versions
                 /\ cpu = "running"
                 /\ Loaded(4 * NWords(Img))

FwInv == FwTypeOK /\ Progress

-----------------------------------------------------------------------------
(* A byte of the data, or the zero padding, is a byte.                     *)
LEMMA ByteAtType ==
  ASSUME NEW d \in Seq(Byte), NEW x \in Nat PROVE ByteAt(d, x) \in Byte
<1>1. CASE x < Len(d)
  <2>1. x + 1 \in 1 .. Len(d)
    BY <1>1
  <2>2. d[x + 1] \in Byte
    BY <2>1, ElementOfSeq
  <2>3. QED
    BY <1>1, <2>2 DEF ByteAt
<1>2. CASE ~(x < Len(d))
  BY <1>2 DEF ByteAt, Byte
<1>3. QED
  BY <1>1, <1>2

(* A byte is a natural number below 256.                                   *)
LEMMA ByteBound ==
  ASSUME NEW x \in Byte PROVE x \in Nat /\ x <= 255
BY DEF Byte

(* A byte of the data, or the padding, is a natural number below 256.     *)
LEMMA ByteAtNat ==
  ASSUME NEW d \in Seq(Byte), NEW x \in Nat
  PROVE  ByteAt(d, x) \in Nat /\ ByteAt(d, x) <= 255
<1>1. ByteAt(d, x) \in Byte
  BY ByteAtType
<1>2. QED
  BY <1>1, ByteBound

(* Word k + 1 of the data, packed and taken apart again byte by byte.      *)
LEMMA WordUnpack ==
  ASSUME NEW d \in Seq(Byte), NEW k \in Nat
  PROVE  /\ WordOf(d, k + 1) \in Nat
         /\ (WordOf(d, k + 1) \div 1) % 256 = ByteAt(d, 4 * k)
         /\ (WordOf(d, k + 1) \div 256) % 256 = ByteAt(d, 4 * k + 1)
         /\ (WordOf(d, k + 1) \div 65536) % 256 = ByteAt(d, 4 * k + 2)
         /\ (WordOf(d, k + 1) \div 16777216) % 256 = ByteAt(d, 4 * k + 3)
<1>1. PICK b0, b1, b2, b3 :
        /\ b0 = ByteAt(d, 4 * k) /\ b1 = ByteAt(d, 4 * k + 1)
        /\ b2 = ByteAt(d, 4 * k + 2) /\ b3 = ByteAt(d, 4 * k + 3)
  OBVIOUS
<1>2. /\ b0 \in Nat /\ b0 <= 255 /\ b1 \in Nat /\ b1 <= 255
      /\ b2 \in Nat /\ b2 <= 255 /\ b3 \in Nat /\ b3 <= 255
  BY <1>1, ByteAtNat
<1>3. WordOf(d, k + 1) = b0 + 256 * b1 + 65536 * b2 + 16777216 * b3
  BY <1>1 DEF WordOf
<1>4. WordOf(d, k + 1) \in Nat
  BY <1>2, <1>3
<1>5. /\ ((b0 + 256 * b1 + 65536 * b2 + 16777216 * b3) \div 1) % 256 = b0
      /\ ((b0 + 256 * b1 + 65536 * b2 + 16777216 * b3) \div 256) % 256 = b1
      /\ ((b0 + 256 * b1 + 65536 * b2 + 16777216 * b3) \div 65536) % 256 = b2
      /\ ((b0 + 256 * b1 + 65536 * b2 + 16777216 * b3) \div 16777216) % 256 = b3
  BY <1>2, Unpack
<1>6. QED
  BY <1>1, <1>3, <1>4, <1>5

(* Byte j of word w, as Store writes it to address addr + j.              *)
ByteOfWord(w, j) == (w \div (256 ^ j)) % 256

(* The target's copy of word k + 1 of the data gives back its bytes.       *)
LEMMA WordBytes ==
  ASSUME NEW d \in Seq(Byte), NEW k \in Nat, NEW j \in 0 .. 3
  PROVE  ByteOfWord(WordOf(d, k + 1), j) = ByteAt(d, 4 * k + j)
<1>1. 256 ^ 0 = 1 /\ 256 ^ 1 = 256 /\ 256 ^ 2 = 65536 /\ 256 ^ 3 = 16777216
  BY SMT
<1>2. 4 * k + 0 = 4 * k
  BY SMT
<1>3. CASE j = 0
  BY <1>1, <1>2, <1>3, WordUnpack DEF ByteOfWord
<1>4. CASE j = 1
  BY <1>1, <1>4, WordUnpack DEF ByteOfWord
<1>5. CASE j = 2
  BY <1>1, <1>5, WordUnpack DEF ByteOfWord
<1>6. CASE j = 3
  BY <1>1, <1>6, WordUnpack DEF ByteOfWord
<1>7. QED
  BY <1>3, <1>4, <1>5, <1>6, SMT

(* The powers of 256 that pick the bytes of a word.                       *)
LEMMA PowNat ==
  ASSUME NEW j \in 0 .. 3 PROVE 256 ^ j \in Nat \ {0}
<1>1. 256 ^ 0 = 1 /\ 256 ^ 1 = 256 /\ 256 ^ 2 = 65536 /\ 256 ^ 3 = 16777216
  BY SMT
<1>2. j = 0 \/ j = 1 \/ j = 2 \/ j = 3
  BY SMT
<1>3. CASE j = 0
  BY <1>1, <1>3
<1>4. CASE j = 1
  BY <1>1, <1>4
<1>5. CASE j = 2
  BY <1>1, <1>5
<1>6. CASE j = 3
  BY <1>1, <1>6
<1>7. QED
  BY <1>2, <1>3, <1>4, <1>5, <1>6

(* Storing a word keeps the BRAM a map from its addresses to bytes.        *)
LEMMA StoreType ==
  ASSUME NEW m, DOMAIN m = Mem, \A a \in Mem : m[a] \in Byte,
         NEW addr \in Nat, NEW w \in Nat
  PROVE  LET m2 == Store(m, addr, w)
         IN  DOMAIN m2 = Mem /\ \A a \in Mem : m2[a] \in Byte
<1>1. \A a \in addr .. addr + 3 : (w \div (256 ^ (a - addr))) % 256 \in Byte
  <2> SUFFICES ASSUME NEW a \in addr .. addr + 3
               PROVE  (w \div (256 ^ (a - addr))) % 256 \in Byte
    OBVIOUS
  <2>1. 256 ^ (a - addr) \in Nat \ {0}
    <3>1. a - addr \in 0 .. 3
      BY SMT
    <3>2. QED
      BY <3>1, PowNat
  <2>2. QED
    BY <2>1, SMT DEF Byte
<1>2. DOMAIN Store(m, addr, w) = Mem
  BY DEF Store
<1>3. \A a \in Mem : Store(m, addr, w)[a] \in Byte
  <2> SUFFICES ASSUME NEW a \in Mem PROVE Store(m, addr, w)[a] \in Byte
    OBVIOUS
  <2>1. CASE a \in addr .. addr + 3
    BY <1>1, <2>1 DEF Store
  <2>2. CASE a \notin addr .. addr + 3
    BY <2>2 DEF Store
  <2>3. QED
    BY <2>1, <2>2
<1>4. QED
  BY <1>2, <1>3

(* Writing word k + 1 of the data at fw_base + 4 k, after the first k      *)
(* words, leaves the first k + 1 words in place.                           *)
LEMMA StoreLoads ==
  ASSUME NEW m, DOMAIN m = Mem, NEW d \in Seq(Byte), NEW k \in Nat,
         k + 1 <= MaxWords,
         \A x \in 0 .. 4 * k - 1 : Base + x \notin TestWord => m[Base + x] = ByteAt(d, x)
  PROVE  \A x \in 0 .. 4 * (k + 1) - 1 :
           Base + x \notin TestWord =>
             Store(m, Base + k * 4, WordOf(d, k + 1))[Base + x] = ByteAt(d, x)
<1> SUFFICES ASSUME NEW x \in 0 .. 4 * (k + 1) - 1, Base + x \notin TestWord
             PROVE  Store(m, Base + k * 4, WordOf(d, k + 1))[Base + x] = ByteAt(d, x)
  OBVIOUS
<1>1. Base + x \in Mem
  BY FwConstantsAssumption, SMT DEF Mem
<1>2. CASE x < 4 * k
  <2>1. Base + x \notin Base + k * 4 .. Base + k * 4 + 3
    BY <1>2, FwConstantsAssumption, SMT
  <2>2. x \in 0 .. 4 * k - 1
    BY <1>2, SMT
  <2>3. QED
    BY <1>1, <2>1, <2>2 DEF Store
<1>3. CASE x >= 4 * k
  <2>1. \E i \in 0 .. 3 : x = 4 * k + i
    BY <1>3, SMT
  <2>2. PICK i \in 0 .. 3 : x = 4 * k + i
    BY <2>1
  <2>3. Base + x \in Base + k * 4 .. Base + k * 4 + 3
        /\ (Base + x) - (Base + k * 4) = i
    BY <2>2, FwConstantsAssumption, SMT
  <2>4. ByteOfWord(WordOf(d, k + 1), i) = ByteAt(d, 4 * k + i)
    BY WordBytes
  <2>5. ByteAt(d, 4 * k + i) = ByteAt(d, x)
    BY <2>2
  <2>6. QED
    BY <1>1, <2>3, <2>4, <2>5 DEF Store, ByteOfWord
<1>4. QED
  BY <1>2, <1>3, SMT

(* The walking-ones byte 2^e, for e in range(8), is a byte.               *)
LEMMA PowTwoByte ==
  ASSUME NEW e \in 0 .. 7 PROVE 2 ^ e \in Byte
<1>1. e = 0 \/ e = 1 \/ e = 2 \/ e = 3 \/ e = 4 \/ e = 5 \/ e = 6 \/ e = 7
  BY SMT
<1>2. /\ 2 ^ 0 \in Byte /\ 2 ^ 1 \in Byte /\ 2 ^ 2 \in Byte /\ 2 ^ 3 \in Byte
      /\ 2 ^ 4 \in Byte /\ 2 ^ 5 \in Byte /\ 2 ^ 6 \in Byte /\ 2 ^ 7 \in Byte
  BY SMT DEF Byte
<1>3. QED
  BY <1>1, <1>2, Zenon

(* A walking-ones write keeps the BRAM a map from its addresses to bytes. *)
LEMMA WalkStoreType ==
  ASSUME NEW m, DOMAIN m = Mem, \A a \in Mem : m[a] \in Byte, NEW b \in 0 .. 31
  PROVE  /\ DOMAIN WalkStore(m, b) = Mem
         /\ \A a \in Mem : WalkStore(m, b)[a] \in Byte
<1>1. 2 ^ (b % 8) \in Byte
  <2>1. b % 8 \in 0 .. 7
    BY SMT
  <2>2. QED
    BY <2>1, PowTwoByte
<1>2. 0 \in Byte
  BY DEF Byte
<1>3. QED
  BY <1>1, <1>2 DEF WalkStore

(* A walking-ones write leaves every byte outside the test word alone.    *)
LEMMA WalkStoreKeeps ==
  ASSUME NEW m, NEW b, NEW a \in DOMAIN m \ TestWord
  PROVE  WalkStore(m, b)[a] = m[a]
BY DEF WalkStore

(* write_block's word count: whole, and positive for non-empty data.      *)
LEMMA WordCount ==
  ASSUME NEW n \in Nat
  PROVE  /\ (n + 3) \div 4 \in Nat
         /\ n # 0 => (n + 3) \div 4 > 0
BY SMT

(* Every image has a whole number of words, at least one if it is not    *)
(* empty, and no more than the BRAM modelled holds.                        *)
LEMMA NWordsBounds ==
  ASSUME NEW v \in Versions
  PROVE  /\ Image[v] \in Seq(Byte)
         /\ NWords(Image[v]) \in Nat
         /\ NWords(Image[v]) <= MaxWords
         /\ Image[v] # << >> => NWords(Image[v]) > 0
<1>1. Image[v] \in Seq(Byte) /\ NWords(Image[v]) <= MaxWords
  BY FwConstantsAssumption
<1>2. Len(Image[v]) \in Nat
  BY <1>1, LenProperties
<1>3. Image[v] # << >> => Len(Image[v]) \in Nat \ {0}
  BY <1>1, EmptySeq
<1>4. QED
  BY <1>1, <1>2, <1>3, WordCount DEF NWords

-----------------------------------------------------------------------------
(* The invariant holds initially.                                          *)
LEMMA FwInvInit == Init => FwInv
<1> SUFFICES ASSUME Init PROVE FwInv
  OBVIOUS
<1>1. FwTypeOK
  <2>1. Junk \in Byte /\ MaxEdits \in Nat /\ MaxWords \in Nat
    BY FwConstantsAssumption
  <2>2. DOMAIN mem = Mem /\ \A a \in Mem : mem[a] \in Byte
    BY <2>1 DEF Init
  <2>3. edits \in 0 .. MaxEdits /\ wi \in 0 .. MaxWords
    BY <2>1 DEF Init
  <2>4. QED
    BY <2>2, <2>3 DEF Init, FwTypeOK
<1>2. Progress
  BY DEF Init, Progress
<1>3. QED
  BY <1>1, <1>2 DEF FwInv

(* A step that leaves the reload's state alone preserves Progress.         *)
LEMMA ProgressFrame ==
  ASSUME Progress, UNCHANGED <<snap, built, pc, wi, cpu, mem, deployOK>>
  PROVE  Progress'
BY DEF Progress, Loaded, Img

(* A reload that ends, or aborts, before deploy returned True leaves no    *)
(* obligation behind.                                                      *)
LEMMA ProgressLeave ==
  ASSUME pc' \in {"poll", "aborted"}, deployOK' = FALSE
  PROVE  Progress'
BY DEF Progress

(* The invariant is preserved by every step.                               *)
LEMMA FwInvStep == FwInv /\ [Next]_vars => FwInv'
<1> SUFFICES ASSUME FwInv, [Next]_vars PROVE FwInv'
  OBVIOUS
<1>0. FwTypeOK /\ Progress
  BY DEF FwInv
<1>1. CASE Edit
  <2>0. MaxEdits \in Nat
    BY FwConstantsAssumption
  <2>1. FwTypeOK'
    BY <1>0, <1>1, <2>0 DEF Edit, FwTypeOK
  <2>2. Progress'
    BY <1>0, <1>1, ProgressFrame DEF Edit
  <2>3. QED
    BY <2>1, <2>2 DEF FwInv
<1>2. CASE Poll
  <2>1. FwTypeOK'
    BY <1>0, <1>2 DEF Poll, FwTypeOK
  <2>2. Progress'
    BY <1>2 DEF Poll, Progress
  <2>3. QED
    BY <2>1, <2>2 DEF FwInv
<1>3. CASE MakeRead
  <2>1. FwTypeOK'
    BY <1>0, <1>3 DEF MakeRead, FwTypeOK
  <2>2. deployOK = FALSE
    BY <1>0, <1>3 DEF MakeRead, Progress
  <2>3. Progress'
    BY <1>0, <1>3, <2>2 DEF MakeRead, Progress, FwTypeOK
  <2>4. QED
    BY <2>1, <2>3 DEF FwInv
<1>4. CASE MakeEnd
  <2>1. snap \in Versions /\ deployOK = FALSE
    BY <1>0, <1>4 DEF MakeEnd, Progress
  <2>2. CASE Compiles[snap] /\ built' = snap /\ lastHash' = src /\ pc' = "halt"
             /\ UNCHANGED <<lastFw, deployOK>>
    <3>1. FwTypeOK'
      BY <1>0, <1>4, <2>1, <2>2 DEF MakeEnd, FwTypeOK
    <3>2. Progress'
      BY <2>1, <2>2 DEF Progress
    <3>3. QED
      BY <3>1, <3>2 DEF FwInv
  <2>3. CASE Fail /\ UNCHANGED <<built, lastHash>>
    <3>1. FwTypeOK'
      BY <1>0, <1>4, <2>3 DEF MakeEnd, Fail, Finish, FwTypeOK
    <3>2. Progress'
      BY <2>3, ProgressLeave DEF Fail, Finish
    <3>3. QED
      BY <3>1, <3>2 DEF FwInv
  <2>4. CASE Abort /\ UNCHANGED <<built, lastHash>>
    <3>1. FwTypeOK'
      BY <1>0, <1>4, <2>4 DEF MakeEnd, Abort, FwTypeOK
    <3>2. Progress'
      BY <2>1, <2>4, ProgressLeave DEF Abort
    <3>3. QED
      BY <3>1, <3>2 DEF FwInv
  <2>5. QED
    BY <1>4, <2>2, <2>3, <2>4 DEF MakeEnd
<1>5. CASE Halt
  <2>1. FwTypeOK'
    BY <1>0, <1>5 DEF Halt, Fail, Finish, FwTypeOK
  <2>2. Progress'
    BY <1>5, ProgressLeave DEF Halt, Fail, Finish
  <2>3. QED
    BY <2>1, <2>2 DEF FwInv
<1>6. CASE HaltCmd
  <2>0. /\ built \in Versions /\ deployOK = FALSE
        /\ MaxWords \in Nat /\ Image[built] # << >>
    BY <1>0, <1>6, FwConstantsAssumption DEF HaltCmd, Progress
  <2>1. PICK r \in Reply, done \in BOOLEAN :
          /\ cpu' = IF r = "ok" \/ done THEN "halted" ELSE cpu
          /\ CASE r = "ok"    -> pc' = "write" /\ wi' = 0 /\ UNCHANGED <<lastFw, deployOK>>
               [] r = "lost"  -> Fail /\ UNCHANGED wi
               [] r = "raise" -> Abort /\ UNCHANGED wi
    BY <1>6 DEF HaltCmd
  <2>2. UNCHANGED <<src, edits, cur, snap, built, lastHash, mem>>
    BY <1>6 DEF HaltCmd
  <2>3. cpu' \in {"running", "halted"}
    BY <1>0, <2>1 DEF FwTypeOK
  <2>4. CASE r = "ok"
    <3>1. pc' = "write" /\ wi' = 0 /\ UNCHANGED <<lastFw, deployOK>>
      BY <2>1, <2>4
    <3>2. FwTypeOK'
      BY <1>0, <2>0, <2>2, <2>3, <3>1 DEF FwTypeOK
    <3>3. NWords(Img) > 0
      BY <2>0, NWordsBounds DEF Img
    <3>4. Progress'
      BY <2>0, <2>2, <3>1, <3>3 DEF Progress, Loaded, Img
    <3>5. QED
      BY <3>2, <3>4 DEF FwInv
  <2>5. CASE r = "lost"
    <3>1. Fail /\ UNCHANGED wi
      BY <2>1, <2>5
    <3>2. FwTypeOK'
      BY <1>0, <2>2, <2>3, <3>1 DEF Fail, Finish, FwTypeOK
    <3>3. Progress'
      BY <3>1, ProgressLeave DEF Fail, Finish
    <3>4. QED
      BY <3>2, <3>3 DEF FwInv
  <2>6. CASE r = "raise"
    <3>1. Abort /\ UNCHANGED wi
      BY <2>1, <2>6
    <3>2. FwTypeOK'
      BY <1>0, <2>2, <2>3, <3>1 DEF Abort, FwTypeOK
    <3>3. Progress'
      BY <2>0, <3>1, ProgressLeave DEF Abort
    <3>4. QED
      BY <3>2, <3>3 DEF FwInv
  <2>7. QED
    BY <2>4, <2>5, <2>6 DEF Reply
<1>7. CASE WriteWord
  <2>0. /\ built \in Versions /\ deployOK = FALSE
        /\ wi \in Nat /\ wi < NWords(Img) /\ Loaded(4 * wi)
    BY <1>0, <1>7 DEF WriteWord, Progress, FwTypeOK
  <2>1. /\ Image[built] \in Seq(Byte) /\ NWords(Image[built]) \in Nat
        /\ NWords(Image[built]) <= MaxWords /\ MaxWords \in Nat
    BY <2>0, NWordsBounds, FwConstantsAssumption
  <2>2. PICK r \in Reply, done \in BOOLEAN :
          /\ mem' = IF r = "ok" \/ done THEN Store(mem, Base + wi * 4, WordOf(Image[built], wi + 1)) ELSE mem
          /\ CASE r = "ok"    -> /\ wi' = wi + 1
                                 /\ pc' = IF wi + 1 = NWords(Image[built]) THEN "reset" ELSE "write"
                                 /\ UNCHANGED <<lastFw, deployOK>>
               [] r = "lost"  -> Fail /\ UNCHANGED wi
               [] r = "raise" -> Abort /\ UNCHANGED wi
    BY <1>7 DEF WriteWord
  <2>3. UNCHANGED <<src, edits, cur, snap, built, lastHash, cpu>>
    BY <1>7 DEF WriteWord
  <2>4. DOMAIN Store(mem, Base + wi * 4, WordOf(Image[built], wi + 1)) = Mem /\ \A a \in Mem : Store(mem, Base + wi * 4, WordOf(Image[built], wi + 1))[a] \in Byte
    <3>1. WordOf(Image[built], wi + 1) \in Nat
      BY <2>0, <2>1, WordUnpack
    <3>2. Base + wi * 4 \in Nat
      BY <2>0, FwConstantsAssumption
    <3>3. QED
      BY <1>0, <3>1, <3>2, StoreType DEF FwTypeOK
  <2>5. DOMAIN mem' = Mem /\ \A a \in Mem : mem'[a] \in Byte
    BY <1>0, <2>2, <2>4 DEF FwTypeOK
  <2>6. CASE r = "ok"
    <3>1. /\ mem' = Store(mem, Base + wi * 4, WordOf(Image[built], wi + 1)) /\ wi' = wi + 1
          /\ pc' = IF wi + 1 = NWords(Image[built]) THEN "reset" ELSE "write"
          /\ UNCHANGED <<lastFw, deployOK>>
      BY <2>2, <2>6
    <3>2. FwTypeOK'
      BY <1>0, <2>0, <2>1, <2>3, <2>5, <3>1 DEF FwTypeOK, Img
    <3>3. \A x \in 0 .. 4 * (wi + 1) - 1 :
            Base + x \notin TestWord =>
              Store(mem, Base + wi * 4, WordOf(Image[built], wi + 1))[Base + x] = ByteAt(Image[built], x)
      <4>1. \A x \in 0 .. 4 * wi - 1 : Base + x \notin TestWord => mem[Base + x] = ByteAt(Image[built], x)
        BY <2>0 DEF Loaded, Img
      <4>2. wi + 1 <= MaxWords
        BY <2>0, <2>1 DEF Img
      <4>3. DOMAIN mem = Mem
        BY <1>0 DEF FwTypeOK
      <4>4. wi \in Nat /\ Image[built] \in Seq(Byte)
        BY <2>0, <2>1
      <4>5. QED
        BY <4>1, <4>2, <4>3, <4>4, StoreLoads, Zenon
    <3>4. Loaded(4 * wi)'
      BY <2>0, <2>3, <3>1, <3>3 DEF Loaded, Img
    <3>5. Progress'
      <4>1. CASE wi + 1 = NWords(Image[built])
        BY <2>0, <2>3, <3>1, <3>4, <4>1 DEF Progress, Img
      <4>2. CASE wi + 1 # NWords(Image[built])
        <5>1. wi' < NWords(Img)'
          BY <2>0, <2>1, <2>3, <3>1, <4>2 DEF Img
        <5>2. QED
          BY <2>0, <2>3, <3>1, <3>4, <4>2, <5>1 DEF Progress
      <4>3. QED
        BY <4>1, <4>2
    <3>6. QED
      BY <3>2, <3>5 DEF FwInv
  <2>7. CASE r = "lost"
    <3>1. Fail /\ UNCHANGED wi
      BY <2>2, <2>7
    <3>2. FwTypeOK'
      BY <1>0, <2>3, <2>5, <3>1 DEF Fail, Finish, FwTypeOK
    <3>3. Progress'
      BY <3>1, ProgressLeave DEF Fail, Finish
    <3>4. QED
      BY <3>2, <3>3 DEF FwInv
  <2>8. CASE r = "raise"
    <3>1. Abort /\ UNCHANGED wi
      BY <2>2, <2>8
    <3>2. FwTypeOK'
      BY <1>0, <2>3, <2>5, <3>1 DEF Abort, FwTypeOK
    <3>3. Progress'
      BY <2>0, <3>1, ProgressLeave DEF Abort
    <3>4. QED
      BY <3>2, <3>3 DEF FwInv
  <2>9. QED
    BY <2>6, <2>7, <2>8 DEF Reply
<1>8. CASE Reset
  <2>0. deployOK = FALSE /\ built \in Versions /\ Loaded(4 * NWords(Img))
    BY <1>0, <1>8 DEF Reset, Progress
  <2>1. UNCHANGED <<src, edits, cur, snap, built, lastHash, wi, cpu, mem>>
    BY <1>8 DEF Reset
  <2>2. PICK r \in Reply :
          CASE r = "ok"    -> pc' = "run" /\ UNCHANGED <<lastFw, deployOK>>
            [] r = "lost"  -> Fail
            [] r = "raise" -> Abort
    BY <1>8 DEF Reset
  <2>3. CASE r = "ok"
    <3>1. pc' = "run" /\ UNCHANGED <<lastFw, deployOK>>
      BY <2>2, <2>3
    <3>2. FwTypeOK'
      BY <1>0, <2>1, <3>1 DEF FwTypeOK
    <3>3. Progress'
      BY <2>0, <2>1, <3>1 DEF Progress, Loaded, Img
    <3>4. QED
      BY <3>2, <3>3 DEF FwInv
  <2>4. CASE r = "lost"
    <3>1. FwTypeOK'
      BY <1>0, <2>1, <2>2, <2>4 DEF Fail, Finish, FwTypeOK
    <3>2. Progress'
      BY <2>2, <2>4, ProgressLeave DEF Fail, Finish
    <3>3. QED
      BY <3>1, <3>2 DEF FwInv
  <2>5. CASE r = "raise"
    <3>1. FwTypeOK'
      BY <1>0, <2>1, <2>2, <2>5 DEF Abort, FwTypeOK
    <3>2. Progress'
      BY <2>0, <2>2, <2>5, ProgressLeave DEF Abort
    <3>3. QED
      BY <3>1, <3>2 DEF FwInv
  <2>6. QED
    BY <2>3, <2>4, <2>5 DEF Reply
<1>9. CASE Run
  <2>0. deployOK = FALSE /\ built \in Versions /\ Loaded(4 * NWords(Img))
    BY <1>0, <1>9 DEF Run, Progress
  <2>1. UNCHANGED <<src, edits, cur, snap, built, lastHash, wi, mem>>
    BY <1>9 DEF Run
  <2>2. PICK r \in Reply, done \in BOOLEAN :
          /\ cpu' = IF r = "ok" \/ done THEN "running" ELSE cpu
          /\ CASE r = "ok"    -> pc' = "quick" /\ deployOK' = TRUE /\ UNCHANGED lastFw
               [] r = "lost"  -> Fail
               [] r = "raise" -> Abort
    BY <1>9 DEF Run
  <2>3. cpu' \in {"running", "halted"}
    BY <1>0, <2>2 DEF FwTypeOK
  <2>4. CASE r = "ok"
    <3>1. /\ pc' = "quick" /\ deployOK' = TRUE /\ UNCHANGED lastFw
          /\ cpu' = "running"
      BY <2>2, <2>4
    <3>2. FwTypeOK'
      BY <1>0, <2>1, <3>1 DEF FwTypeOK
    <3>3. Progress'
      BY <2>0, <2>1, <3>1 DEF Progress, Loaded, Img
    <3>4. QED
      BY <3>2, <3>3 DEF FwInv
  <2>5. CASE r = "lost"
    <3>1. FwTypeOK'
      BY <1>0, <2>1, <2>2, <2>3, <2>5 DEF Fail, Finish, FwTypeOK
    <3>2. Progress'
      BY <2>2, <2>5, ProgressLeave DEF Fail, Finish
    <3>3. QED
      BY <3>1, <3>2 DEF FwInv
  <2>6. CASE r = "raise"
    <3>1. FwTypeOK'
      BY <1>0, <2>1, <2>2, <2>3, <2>6 DEF Abort, FwTypeOK
    <3>2. Progress'
      BY <2>0, <2>2, <2>6, ProgressLeave DEF Abort
    <3>3. QED
      BY <3>1, <3>2 DEF FwInv
  <2>7. QED
    BY <2>4, <2>5, <2>6 DEF Reply
<1>10. CASE Quick
  <2>0. built \in Versions /\ DOMAIN mem = Mem /\ \A a \in Mem : mem[a] \in Byte
    BY <1>0, <1>10 DEF Quick, Progress, FwTypeOK
  <2>1. UNCHANGED <<src, edits, cur, snap, built, lastHash, wi, cpu>>
    BY <1>10 DEF Quick
  <2>2. DOMAIN mem' = Mem /\ \A a \in Mem : mem'[a] \in Byte
    <3>1. CASE mem' = mem
      BY <2>0, <3>1
    <3>2. CASE \E b \in 0 .. 31 : mem' = WalkStore(mem, b)
      BY <2>0, <3>2, WalkStoreType
    <3>3. QED
      BY <1>10, <3>1, <3>2 DEF Quick
  <2>3. \A a \in Mem \ TestWord : mem'[a] = mem[a]
    BY <1>10, <2>0, WalkStoreKeeps DEF Quick
  <2>4. CASE Finish /\ UNCHANGED deployOK
    <3>1. FwTypeOK'
      BY <1>0, <2>0, <2>1, <2>2, <2>4 DEF Finish, FwTypeOK
    <3>2. deployOK => Loaded(4 * NWords(Img))'
      <4> SUFFICES ASSUME deployOK, NEW x \in 0 .. 4 * NWords(Img) - 1,
                          Base + x \notin TestWord
                   PROVE  mem'[Base + x] = ByteAt(Img, x)
        BY <2>1 DEF Loaded, Img
      <4>1. NWords(Img) \in Nat /\ NWords(Img) <= MaxWords /\ Base \in Nat /\ MaxWords \in Nat
        BY <2>0, NWordsBounds, FwConstantsAssumption DEF Img
      <4>2. Base + x \in Mem
        BY <4>1, SMT DEF Mem
      <4>3. mem[Base + x] = ByteAt(Img, x)
        BY <1>0 DEF Progress, Loaded
      <4>4. QED
        BY <2>3, <4>2, <4>3
    <3>3. Progress'
      BY <1>0, <2>1, <2>4, <3>2 DEF Finish, Progress
    <3>4. QED
      BY <3>1, <3>3 DEF FwInv
  <2>5. CASE Abort
    <3>1. FwTypeOK'
      BY <1>0, <2>1, <2>2, <2>5 DEF Abort, FwTypeOK
    <3>2. deployOK => Loaded(4 * NWords(Img))'
      <4> SUFFICES ASSUME deployOK, NEW x \in 0 .. 4 * NWords(Img) - 1,
                          Base + x \notin TestWord
                   PROVE  mem'[Base + x] = ByteAt(Img, x)
        BY <2>1 DEF Loaded, Img
      <4>1. NWords(Img) \in Nat /\ NWords(Img) <= MaxWords /\ Base \in Nat /\ MaxWords \in Nat
        BY <2>0, NWordsBounds, FwConstantsAssumption DEF Img
      <4>2. Base + x \in Mem
        BY <4>1, SMT DEF Mem
      <4>3. mem[Base + x] = ByteAt(Img, x)
        BY <1>0 DEF Progress, Loaded
      <4>4. QED
        BY <2>3, <4>2, <4>3
    <3>3. Progress'
      BY <1>0, <2>1, <2>5, <3>2 DEF Abort, Progress
    <3>4. QED
      BY <3>1, <3>3 DEF FwInv
  <2>6. QED
    BY <1>10, <2>4, <2>5 DEF Quick
<1>20. CASE UNCHANGED vars
  <2>1. FwTypeOK'
    BY <1>0, <1>20 DEF vars, FwTypeOK
  <2>2. Progress'
    BY <1>0, <1>20, ProgressFrame DEF vars
  <2>3. QED
    BY <2>1, <2>2 DEF FwInv
<1>21. QED
  BY <1>1, <1>2, <1>3, <1>4, <1>5, <1>6, <1>7, <1>8, <1>9, <1>10, <1>20 DEF Next

-----------------------------------------------------------------------------
(* The firmware loop's state keeps its types: among them, write_block     *)
(* never writes past the BRAM modelled and every BRAM cell holds a byte.  *)
THEOREM FwTypeCorrect == Spec => []FwTypeOK
<1>1. FwInv => FwTypeOK
  BY DEF FwInv
<1>2. QED
  BY <1>1, FwInvInit, FwInvStep, PTL DEF Spec

(* Once deploy has returned True, and until the next reload starts, the    *)
(* CPU runs and the BRAM at fw_base holds firmware.bin byte for byte,     *)
(* zero-padded to a whole word, but for the quick tests' word            *)
(* (DeployedImage), for every set of versions, images, load address and   *)
(* BRAM size.                                                              *)
THEOREM DeployedImageHolds == Spec => []DeployedImage
<1>1. FwInv => DeployedImage
  BY DEF FwInv, Progress, Loaded, Img, DeployedImage
<1>2. QED
  BY <1>1, FwInvInit, FwInvStep, PTL DEF Spec

-----------------------------------------------------------------------------
(* write_block runs only after cpu_halt got its OK, and nothing restarts   *)
(* the CPU before cpu_run.                                                 *)
WriteHalted == pc = "write" => cpu = "halted"

LEMMA WriteHaltedStep == WriteHalted /\ [Next]_vars => WriteHalted'
<1> SUFFICES ASSUME WriteHalted, [Next]_vars, pc' = "write" PROVE cpu' = "halted"
  BY DEF WriteHalted
<1>1. CASE Edit
  BY <1>1 DEF Edit, WriteHalted
<1>2. CASE Poll \/ MakeRead
  BY <1>2 DEF Poll, MakeRead
<1>3. CASE MakeEnd
  BY <1>3 DEF MakeEnd, Fail, Finish, Abort
<1>4. CASE Halt
  BY <1>4 DEF Halt, Fail, Finish
<1>5. CASE HaltCmd
  <2>1. PICK r \in Reply, done \in BOOLEAN :
          /\ cpu' = IF r = "ok" \/ done THEN "halted" ELSE cpu
          /\ CASE r = "ok"    -> pc' = "write" /\ wi' = 0 /\ UNCHANGED <<lastFw, deployOK>>
               [] r = "lost"  -> Fail /\ UNCHANGED wi
               [] r = "raise" -> Abort /\ UNCHANGED wi
    BY <1>5 DEF HaltCmd
  <2>2. r = "ok"
    BY <2>1 DEF Reply, Fail, Finish, Abort
  <2>3. QED
    BY <2>1, <2>2
<1>6. CASE WriteWord
  <2>1. pc = "write" /\ cpu' = cpu
    BY <1>6 DEF WriteWord
  <2>2. QED
    BY <2>1 DEF WriteHalted
<1>7. CASE Reset
  BY <1>7 DEF Reset, Reply, Fail, Finish, Abort
<1>8. CASE Run
  BY <1>8 DEF Run, Reply, Fail, Finish, Abort
<1>9. CASE Quick
  BY <1>9 DEF Quick, Fail, Finish, Abort
<1>10. CASE UNCHANGED vars
  BY <1>10 DEF vars, WriteHalted
<1>11. QED
  BY <1>1, <1>2, <1>3, <1>4, <1>5, <1>6, <1>7, <1>8, <1>9, <1>10 DEF Next

(* Outside the quick tests' word only write_block changes the BRAM, so    *)
(* with the CPU halted around it.                                          *)
LEMMA MemOnlyWhileHalted ==
  WriteHalted /\ FwTypeOK /\ [Next]_vars =>
    [\A a \in Mem \ TestWord : mem'[a] # mem[a] => cpu = "halted" /\ cpu' = "halted"]_vars
<1> SUFFICES ASSUME WriteHalted, FwTypeOK, [Next]_vars,
                    NEW a \in Mem \ TestWord, mem'[a] # mem[a]
             PROVE  cpu = "halted" /\ cpu' = "halted"
  BY DEF vars
<1>1. ~Quick
  <2> SUFFICES ASSUME Quick PROVE FALSE
    OBVIOUS
  <2>1. DOMAIN mem = Mem
    BY DEF FwTypeOK
  <2>2. QED
    BY <2>1, WalkStoreKeeps DEF Quick
<1>2. WriteWord
  BY <1>1 DEF Next, vars, Edit, Poll, MakeRead, MakeEnd, Halt, HaltCmd, Reset, Run
<1>3. QED
  BY <1>2 DEF WriteWord, WriteHalted

(* For every set of versions, images, load address and BRAM size, and      *)
(* whatever replies are lost or raise: outside the quick tests' word, the  *)
(* BRAM changes only while the CPU is halted (WritesWhileHalted).          *)
THEOREM BramWrittenOnlyHalted == Spec => WritesWhileHalted
<1>1. Init => WriteHalted /\ FwInv
  BY FwInvInit DEF Init, WriteHalted
<1>2. WriteHalted /\ FwInv /\ [Next]_vars => (WriteHalted /\ FwInv)'
  BY WriteHaltedStep, FwInvStep
<1>3. WriteHalted /\ FwInv /\ [Next]_vars =>
        [\A a \in Mem \ TestWord : mem'[a] # mem[a] => cpu = "halted" /\ cpu' = "halted"]_vars
  BY MemOnlyWhileHalted DEF FwInv
<1>4. QED
  BY <1>1, <1>2, <1>3, PTL DEF Spec, WritesWhileHalted

=============================================================================
