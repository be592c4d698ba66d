---------------------------- MODULE MCConsensus ----------------------------
(* Small instances of Consensus.                                           *)
EXTENDS Consensus, TLC

MCShape(ins, acc, sol, wrapper, pass) ==
  [ins |-> ins, acc |-> acc, sol |-> sol, wrapper |-> wrapper, pass |-> pass]

\* A trade known by its accounts only, which does not count, a complete one,
\* which does, and one a filter turns away.
MCShapes ==
  {MCShape(FALSE, TRUE, FALSE, FALSE, TRUE), MCShape(TRUE, TRUE, TRUE, FALSE, TRUE),
   MCShape(FALSE, FALSE, TRUE, FALSE, FALSE)}

WalletSymmetry == Permutations(Wallets)
=============================================================================
