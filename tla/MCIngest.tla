------------------------------ MODULE MCIngest ------------------------------
(***************************************************************************)
(* Instances of Ingest for TLC.                                            *)
(***************************************************************************)
EXTENDS Ingest, TLC

Symmetry == Permutations(Forwarding) \cup Permutations(Events)
=============================================================================
