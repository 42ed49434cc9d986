------------------------------ MODULE MCWebSdk ------------------------------
(***************************************************************************)
(* Instances of WebSdk for TLC: two event names, one that needs consent to *)
(* analytics and one that needs nothing, and configurations that grant     *)
(* analytics by default, grant nothing, or say nothing about consent.      *)
(***************************************************************************)
EXTENDS WebSdk, TLC

CONSTANTS e1, e2, e3, analytics

EventName == (e1 :> "purchase") @@ (e2 :> "page_view") @@ (e3 :> "purchase")

AllNeeds == [n \in {"purchase", "page_view"} |-> IF n = "purchase" THEN {analytics} ELSE {}]

\* A published configuration, and an older one that does not list purchase.
Cfg(needs, defaults, intact) ==
  [needs |-> needs, defaults |-> defaults, intact |-> intact, compatible |-> TRUE]

Granting == Cfg(AllNeeds, {analytics}, TRUE)
Silent   == Cfg([n \in {"page_view"} |-> {}], None, TRUE)
TooNew   == [Cfg(AllNeeds, {}, TRUE) EXCEPT !.compatible = FALSE]
Damaged  == Cfg(AllNeeds, {analytics}, FALSE)

Served == {Granting, Silent, TooNew}
Kept   == {Silent, TooNew}
KeptDamaged == {Damaged}

\* A page without the consent option, and one that passes a refusal.
PassedConsents == {None, {}}

\* Filtered is the filter of the language, SelectSeq, on every short sequence.
ASSUME FilteredIsSelectSeq ==
  \A q \in UNION {[1 .. n -> {1, 2, 3}] : n \in 0 .. 4}, K \in SUBSET {1, 2, 3} :
    LET Keep(x) == x \in K IN Filtered(q, K) = SelectSeq(q, Keep)
=============================================================================
