---------------------------- MODULE MCEmailBlast ----------------------------
(* Instances of the email blast.  Workers and clients are interchangeable.  *)
EXTENDS EmailBlast, TLC

MCSelections == {{}, 1 .. 6, 2 .. 6}
MCBatchSizes == {2, 3}
MCOneSelection == {1 .. 2}
MCUnitBatches == {1}

MCSymmetry == Permutations(Workers)
=============================================================================
