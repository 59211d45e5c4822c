---------------------------- MODULE MCFlashDataSet ----------------------------
(* Small data sets for TLC.                                                  *)
EXTENDS FlashDataSet, TLC

Values == Permutations(Value)
=============================================================================
