--------------------------- MODULE MCControlPlane ---------------------------
(***************************************************************************)
(* Instances of ControlPlane for TLC.                                      *)
(***************************************************************************)
EXTENDS ControlPlane, TLC

CONSTANTS c1, c2, v4, v1, v2, v3, good, bad, prod

NoDocs == {}

\* Clients are interchangeable, and so are versions no document mentions.
Symmetry == Permutations(Clients) \cup Permutations({v3, v4})

ClientSymmetry == Permutations(Clients)

\* A document another store exported: two valid revisions, the
\* second active in prod and the first the one a rollback returns to.
OneDoc ==
  {[source |-> c1,
    revs |-> {[version |-> v1, number |-> 1, parent |-> NoVersion, payload |-> good],
              [version |-> v2, number |-> 2, parent |-> v1, payload |-> good]},
    envs |-> [e \in EnvNames |->
                [protected |-> FALSE, current |-> v2, previous |-> v1]]]}

ASSUME ExportedByThisCode == ForeignDocsSound
=============================================================================
