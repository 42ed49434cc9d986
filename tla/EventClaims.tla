---------------------------- MODULE EventClaims -----------------------------
(***************************************************************************)
(* What a dedupe store promises its callers (the protocol DedupeStore of   *)
(* ingest/dedupe.py): an event is claimed by one handler at a time, never  *)
(* while it is remembered as completed, and a claim ends by completing or  *)
(* releasing the event.  Any step may also forget completed events.        *)
(***************************************************************************)
CONSTANTS
  Events,   \* event ids
  Workers,  \* handlers
  Nobody    \* an event nobody has claimed

VARIABLES
  claimant,   \* [Events -> Workers or Nobody]
  remembered  \* completed events that are still known

Init ==
  /\ claimant = [e \in Events |-> Nobody]
  /\ remembered = {}

Claim(w, e) ==
  /\ claimant[e] = Nobody
  /\ remembered' \subseteq remembered \ {e}
  /\ claimant' = [claimant EXCEPT ![e] = w]

Complete(w, e) ==
  /\ claimant[e] = w
  /\ claimant' = [claimant EXCEPT ![e] = Nobody]
  /\ remembered' \subseteq remembered \cup {e}

Release(w, e) ==
  /\ claimant[e] = w
  /\ claimant' = [claimant EXCEPT ![e] = Nobody]
  /\ remembered' \subseteq remembered

Forget ==
  /\ remembered' \subseteq remembered
  /\ UNCHANGED claimant

\* The store is lost with its process.
Reset ==
  /\ claimant' = [e \in Events |-> Nobody]
  /\ remembered' = {}

Next ==
  \/ \E w \in Workers, e \in Events : Claim(w, e) \/ Complete(w, e) \/ Release(w, e)
  \/ Forget
  \/ Reset

Spec == Init /\ [][Next]_<<claimant, remembered>>
=============================================================================
