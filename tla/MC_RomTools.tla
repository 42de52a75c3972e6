----------------------------- MODULE MC_RomTools -----------------------------
EXTENDS RomTools

(* ROM images as the BIOS builds leave them before the checksum is fixed: *)
(* a valid header with a short and with a near entry jump and 0xFF        *)
(* padding, a header alone, a file with a bad signature, and a one-byte   *)
(* file; their sums differ modulo 256.                                     *)
MCImages ==
  { <<85, 170, 1, 235, 16, 255>>,
    <<85, 170, 1, 233, 253, 255, 195, 0>>,
    <<85, 170, 1>>,
    <<18, 52, 86, 120>>,
    <<7>> }

=============================================================================
