---------------------------- MODULE MCPublisher -----------------------------
(***************************************************************************)
(* Instances of Publisher for TLC: two environments whose names have       *)
(* different slugs.                                                        *)
(***************************************************************************)
EXTENDS Publisher, TLC

CONSTANTS dev, prod

TwoSlugs == (dev :> "dev") @@ (prod :> "prod")

Symmetry == Permutations(Publishers) \cup Permutations(Revisions)
              \cup Permutations(Stamps) \cup Permutations(Assets)
=============================================================================
