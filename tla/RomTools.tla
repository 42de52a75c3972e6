------------------------------- MODULE RomTools -------------------------------
(***************************************************************************)
(* The option-ROM checksum tools of the BIOS builds, run one after another *)
(* on one ROM file:                                                        *)
(*   - src/bios/fdd/tools/romsum.py: fix the checksum in place (main's    *)
(*     default), --check and --info;                                       *)
(*   - src/bios/hdd/tools/romsum.py: fix the checksum in place;            *)
(*   - src/bios/hdd/tools/rominfo.py: print what the header says.          *)
(*                                                                         *)
(* The file is a sequence of bytes.  The assembler writes one of a set of  *)
(* ROM images.  A write opens the file with 'wb', which empties it, and    *)
(* may then fail part-way, leaving a prefix of the new contents; or the    *)
(* open itself fails and the file is untouched.  What the tools print is   *)
(* left out: a tool run ends "ok" (exit 0), "fail" (exit 1) or "crash" (an *)
(* uncaught exception, a traceback and exit 1).                            *)
(***************************************************************************)
EXTENDS Integers, Sequences, SequencesExt

CONSTANT Images   \* the ROM images the assembler may write

ASSUME RomConstantsAssumption == Images \subseteq Seq(0..255)

Tools == {"fddFix", "fddCheck", "fddInfo", "hddFix", "hddInfo"}

VARIABLES
  rom,      \* the contents of the ROM file
  tool,     \* the last tool run, "none" before any
  outcome,  \* how it ended: "ok", "fail" or "crash"
  wrote     \* history: the last fix wrote the whole file

vars == <<rom, tool, outcome, wrote>>

(* sum(data): the bytes added up.                                          *)
ByteSum(d) == FoldLeft(LAMBDA acc, b : acc + b, 0, d)

(* calculate_checksum (fdd 33-35, hdd 15-17; rominfo 51): sum & 0xFF.      *)
Checksum(d) == ByteSum(d) % 256

(* Mutant: the sum taken over the whole file, old checksum byte included. *)
FixByteWholeSum(d) == (256 - (ByteSum(d) % 256)) % 256

(* Mutant: the required byte is not masked back into 0..255.              *)
FixByteUnmasked(d) == 256 - (ByteSum(Front(d)) % 256)

(* fix_checksum: the last byte becomes (256 - sum(data[:-1]) & 0xFF) &    *)
(* 0xFF, which makes the whole sum 0 modulo 256.                           *)
FixByte(d) ==
  (256 - (ByteSum(Front(d)) % 256)) % 256

Fixed(d) == [d EXCEPT ![Len(d)] = FixByte(d)]

(* write_rom / open(rom_path, 'wb').write(data) failing: the file was     *)
(* emptied and holds a prefix of data, or, when open failed, the old       *)
(* contents.                                                               *)
TornWrites(d) == {rom} \cup {SubSeq(d, 1, k) : k \in 0..Len(d) - 1}

Init ==
  /\ rom \in Images
  /\ tool = "none"
  /\ outcome = "ok"
  /\ wrote = FALSE

(* The BIOS build writes a new image.                                      *)
Assemble ==
  /\ rom' \in Images
  /\ tool' = "none"
  /\ outcome' = "ok"
  /\ wrote' = FALSE

-----------------------------------------------------------------------------
(* fdd romsum.py main, default mode: data[-1] of an empty file raises      *)
(* IndexError before anything is written; otherwise fix_checksum, then     *)
(* write_rom, whose IOError is caught (exit 1), then the checksum is       *)
(* verified again.  A bad signature only warns.                            *)
FddFix ==
  /\ tool' = "fddFix"
  /\ IF rom = <<>>
       THEN /\ outcome' = "crash"
            /\ wrote' = FALSE
            /\ UNCHANGED rom
       ELSE \/ /\ rom' = Fixed(rom)
               /\ wrote' = TRUE
               /\ outcome' = IF Checksum(rom') = 0 THEN "ok" ELSE "fail"
            \/ /\ rom' \in TornWrites(Fixed(rom))
               /\ wrote' = FALSE
               /\ outcome' = "fail"

(* fdd romsum.py --check: exit 0 exactly when the bytes sum to 0.          *)
FddCheck ==
  /\ tool' = "fddCheck"
  /\ outcome' = IF Checksum(rom) = 0 THEN "ok" ELSE "fail"
  /\ UNCHANGED <<rom, wrote>>

(* fdd romsum.py --info: show_info prints the header, the checksum, the    *)
(* entry jump, the PnP header and the code size; the utilisation divides   *)
(* by len(data), so an empty file raises ZeroDivisionError.                *)
FddInfo ==
  /\ tool' = "fddInfo"
  /\ outcome' = IF rom = <<>> THEN "crash" ELSE "ok"
  /\ UNCHANGED <<rom, wrote>>

(* hdd romsum.py fix_checksum: under 3 bytes is refused; the write's       *)
(* IOError is not caught; the result is final_sum == 0.                    *)
HddFix ==
  /\ tool' = "hddFix"
  /\ IF Len(rom) < 3
       THEN /\ outcome' = "fail"
            /\ wrote' = FALSE
            /\ UNCHANGED rom
       ELSE \/ /\ rom' = Fixed(rom)
               /\ wrote' = TRUE
               /\ outcome' = IF Checksum(rom') = 0 THEN "ok" ELSE "fail"
            \/ /\ rom' \in TornWrites(Fixed(rom))
               /\ wrote' = FALSE
               /\ outcome' = "crash"

(* hdd rominfo.py dump_rom_info: under 3 bytes is refused; otherwise it    *)
(* prints what the header says and returns True.                           *)
HddInfo ==
  /\ tool' = "hddInfo"
  /\ outcome' = IF Len(rom) < 3 THEN "fail" ELSE "ok"
  /\ UNCHANGED <<rom, wrote>>

Next == Assemble \/ FddFix \/ FddCheck \/ FddInfo \/ HddFix \/ HddInfo

Spec == Init /\ [][Next]_vars

-----------------------------------------------------------------------------
(* Every tool leaves a file of bytes: in particular the checksum byte the  *)
(* fixers store is in 0..255 (bytearray would raise on anything else).    *)
RomTypeOK ==
  /\ rom \in Seq(0..255)
  /\ tool \in Tools \cup {"none"}
  /\ outcome \in {"ok", "fail", "crash"}
  /\ wrote \in BOOLEAN

(* A fix whose write went through always passes its own verification and *)
(* leaves a ROM whose bytes sum to 0 modulo 256, for every image either   *)
(* tool accepts: the checksum byte is computed from the other bytes only. *)
FixSucceeds ==
  (tool \in {"fddFix", "hddFix"} /\ wrote) => outcome = "ok" /\ Checksum(rom) = 0

=============================================================================
