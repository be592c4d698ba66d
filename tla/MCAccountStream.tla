-------------------------- MODULE MCAccountStream --------------------------
(***************************************************************************)
(* Small instances of AccountStream.  In account_stream.cfg one task is    *)
(* both a cleaner and the pruner: it takes turns, which lets TLC check the *)
(* liveness properties; the proofs are for any number of tasks at a time.  *)
(***************************************************************************)
EXTENDS AccountStream, TLC
=============================================================================
