----------------------------- MODULE MCAutoSell -----------------------------
(***************************************************************************)
(* Instances of AutoSell for TLC.  The groups are interchangeable, which   *)
(* the safety runs with two of them use.                                   *)
(***************************************************************************)
EXTENDS AutoSell, TLC

GroupSymmetry == Permutations(Groups)
=============================================================================
