----------------------------- MODULE MCPromotion -----------------------------
(* Instances of PromotionHistory for TLC: refreshers and snapshot ids are  *)
(* interchangeable.                                                        *)
EXTENDS PromotionHistory, TLC

Symmetric == Permutations(Refreshers) \cup Permutations(Snapshots)
=============================================================================
