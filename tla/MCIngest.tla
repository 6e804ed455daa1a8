------------------------------- MODULE MCIngest -------------------------------
(***************************************************************************)
(* Instances of Ingest for TLC.  Requests are interchangeable model        *)
(* values, and so are event ids.                                           *)
(***************************************************************************)
EXTENDS IngestInvariant, TLC

IngestSymmetry == Permutations(Requests) \union Permutations(EventIds)
=============================================================================
