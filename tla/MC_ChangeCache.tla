--------------------------- MODULE MC_ChangeCache ---------------------------
(* Instances of ChangeCache: two files with distinct stems.               *)
EXTENDS ChangeCache, TLC

CONSTANTS fa, fb, na, nb, c1, c2

MCFiles == {fa, fb}

MCContents == {c1, c2}

(* a.v and b.v *)
DistinctNames == {na, nb}
DistinctStem == (fa :> na) @@ (fb :> nb)
DistinctExt == (fa :> "v") @@ (fb :> "v")

AllTB(names) == [n \in names |-> TRUE]
DistinctTB == AllTB(DistinctNames)

=============================================================================
