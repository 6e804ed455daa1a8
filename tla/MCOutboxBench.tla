---------------------------- MODULE MCOutboxBench ----------------------------
(***************************************************************************)
(* Instances of OutboxBench for TLC.                                       *)
(***************************************************************************)
EXTENDS OutboxBench, TLC

WorkerSymmetry == Permutations(Workers)
=============================================================================
