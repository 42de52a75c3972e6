----------------------------- MODULE MC_FwLoop -----------------------------
(* An instance of FwLoop: a 261-byte image (66 words, the last padded),    *)
(* long enough to reach the quick tests' word at fw_base + 0x100, a       *)
(* version that does not compile, and one whose firmware.bin is empty.     *)
(* Its bytes stay below 128 so that every word fits TLC's integers.        *)
EXTENDS FwLoop, TLC

CONSTANTS v1, v2, v3

MCVersions == {v1, v2, v3}

MCImage == (v1 :> [i \in 1 .. 261 |-> i % 128]) @@ (v2 :> <<9, 8>>) @@ (v3 :> << >>)

MCCompiles == (v1 :> TRUE) @@ (v2 :> FALSE) @@ (v3 :> TRUE)

=============================================================================
