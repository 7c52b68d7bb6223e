--------------------------- MODULE MCLevelLedger ---------------------------
(* LevelLedger on a small instance: a candle of one instant, one of two    *)
(* and the next; the reported window opens in the middle of the second and *)
(* drops the first whole.                                                  *)
EXTENDS LevelLedger, TLC

MCCandleOf(t) == IF t = 0 THEN 1 ELSE IF t <= 2 THEN 2 ELSE 3

LevelSymmetry == Permutations(Levels)

=============================================================================
