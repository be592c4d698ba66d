---------------------------- MODULE MCBuyIntake ----------------------------
(***************************************************************************)
(* A small instance of BuyIntake, with the instructions of Pumpfun.        *)
(***************************************************************************)
EXTENDS Buying, TLC

TaskSymmetry == Permutations(Tasks) \cup Permutations(Keys)
=============================================================================
