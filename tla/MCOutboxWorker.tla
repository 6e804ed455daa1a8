---------------------------- MODULE MCOutboxWorker ----------------------------
(***************************************************************************)
(* Instances of OutboxWorker for TLC.  Rows are numbers, whose order is    *)
(* that of created_at; workers are interchangeable model values.           *)
(***************************************************************************)
EXTENDS OutboxInvariant, TLC

WorkerSymmetry == Permutations(Workers)
=============================================================================
