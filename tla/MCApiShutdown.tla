---------------------------- MODULE MCApiShutdown ----------------------------
(***************************************************************************)
(* Instances of ApiShutdown for TLC.  Workers are interchangeable where    *)
(* none of them is stubborn.                                               *)
(***************************************************************************)
EXTENDS ShutdownInvariant, TLC

WorkerSymmetry == Permutations(Workers)
=============================================================================
