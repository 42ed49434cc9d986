---------------------------- MODULE ImmutableCdn ----------------------------
(***************************************************************************)
(* What the published tree promises a client that reads it while others    *)
(* publish (distribution/publisher.py, "immutable revisions and atomic     *)
(* pointers"): an artefact, once there, never changes and never goes away, *)
(* and a pointer always carries the checksum of an artefact that is there. *)
(***************************************************************************)
CONSTANTS
  Revisions,  \* config versions: the names of the artefacts
  Slugs,      \* the names of the pointers
  Documents,  \* what an artefact may hold; a checksum stands for its document
  Absent      \* no such file

VARIABLES
  artefact,   \* [Revisions -> Documents or Absent]
  pointer     \* [Slugs -> a revision and the checksum it is to have, or Absent]

Init ==
  /\ artefact = [r \in Revisions |-> Absent]
  /\ pointer = [s \in Slugs |-> Absent]

\* A new artefact appears.
Store ==
  \E r \in Revisions, d \in Documents :
    /\ artefact[r] = Absent
    /\ artefact' = [artefact EXCEPT ![r] = d]
    /\ UNCHANGED pointer

\* A pointer is moved to an artefact that is there.
Point ==
  \E s \in Slugs, r \in Revisions :
    /\ artefact[r] # Absent
    /\ pointer' = [pointer EXCEPT ![s] = [rev |-> r, sum |-> artefact[r]]]
    /\ UNCHANGED artefact

Next == Store \/ Point

Spec == Init /\ [][Next]_<<artefact, pointer>>
=============================================================================
