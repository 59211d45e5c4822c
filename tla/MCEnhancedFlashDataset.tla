------------------------ MODULE MCEnhancedFlashDataset ------------------------
(* Small stores for TLC: a value takes one unit or two.                      *)
EXTENDS EnhancedFlashDataset

CONSTANTS small, big

Sizes == [v \in Value |-> IF v = small THEN 1 ELSE 2]
=============================================================================
