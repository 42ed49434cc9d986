---------------------------- MODULE MCDiagnosis -----------------------------
(***************************************************************************)
(* What is concluded from watching a site, for TLC: the recording of a     *)
(* session, the correlation of its events into journeys with the rules     *)
(* about them, and the audit of a consent platform, side by side.  part    *)
(* says which of them a behaviour is about; journeys come in two           *)
(* instances, one with few events and time to tell them apart, one with an *)
(* event of every kind a rule looks for.  The recording and the audit are  *)
(* the modules themselves, whose properties are also proved: the one that  *)
(* a behaviour is not about stays as it starts.                            *)
(***************************************************************************)
EXTENDS CmpAudit, Observation

VARIABLES
  part,
  seen, stateDiffs, journeys, faults, correlation  \* the journeys

(* Journeys *)

Event(type, name, sel, params) ==
  [type |-> type, name |-> name, sel |-> sel, params |-> params,
   denied |-> FALSE, pii |-> FALSE, tx |-> ""]

ClickOn(s) == Event("click", "", s, {})
Pushed(name, params) == Event("datalayer_push", name, "", params)
Purchase == [Pushed("purchase", {"value"}) EXCEPT !.tx = "t1"]
Requested(params) == Event("network_request", "", "", params)
Denial == [Event("consent_change", "update", "", {}) EXCEPT !.denied = TRUE]
GtmEvent == Event("gtm_event", "gtm.", "", {})

\* Interactions and purchases: what correlation tells apart.
StreamPool == {ClickOn("s1"), ClickOn("s2"), Event("scroll_depth", "", "", {}),
               Event("dom_insert", "", "s1", {}), Purchase}

\* One of every kind of event a rule looks for.
RulePool == {ClickOn("s1"), ClickOn("s2"), Pushed("add_to_cart", {"items", "value"}),
             Pushed("AddToCart", {"value"}), Pushed("page_view", {}), Requested({"value"}),
             [Requested({}) EXCEPT !.pii = TRUE], GtmEvent, Denial, Event("js_error", "", "", {}),
             Event("route_change", "", "", {}), Event("api_call", "", "", {})}

SomeExpected == [s1 |-> "add_to_cart", s2 |-> "any"]
SomeNormal == [n \in {"add_to_cart", "AddToCart", "purchase", "page_view"} |->
                 IF n = "AddToCart" THEN "add_to_cart" ELSE n]
SomeIngested == [add_to_cart |-> "no", purchase |-> "yes"]
SomeRequired == [add_to_cart |-> {"items", "value"}, purchase |-> {"tx", "items", "value"}]
SomeDiffs == {{}, {[sel |-> "s1", before |-> 0, after |-> 2, changed |-> TRUE],
                   [sel |-> "s1", before |-> 1, after |-> 1, changed |-> FALSE]}}

Stream == INSTANCE Journeys WITH
  events <- seen, diffs <- stateDiffs, findings <- faults, pc <- correlation,
  Pool <- StreamPool, MaxEvents <- 4, MaxTime <- 2, Window <- 2, DiffSets <- {{}},
  Expected <- SomeExpected, PageViews <- {"page_view"}, Normal <- SomeNormal, Gtm <- TRUE,
  Triggers <- {"add_to_cart", "page_view"}, Tagged <- {"add_to_cart"}, Ingested <- SomeIngested,
  Required <- SomeRequired, Delay <- 1, Recommended <- {"s1", "s2"}

Rules == INSTANCE Journeys WITH
  events <- seen, diffs <- stateDiffs, findings <- faults, pc <- correlation,
  Pool <- RulePool, MaxEvents <- 3, MaxTime <- 1, Window <- 1, DiffSets <- SomeDiffs,
  Expected <- SomeExpected, PageViews <- {"page_view"}, Normal <- SomeNormal, Gtm <- TRUE,
  Triggers <- {"add_to_cart", "page_view"}, Tagged <- {"add_to_cart"}, Ingested <- SomeIngested,
  Required <- SomeRequired, Delay <- 1, Recommended <- {"s1", "s2"}

(* Recording: the values are of two shapes. *)

ShapeOf == [v \in Values |-> IF v = "10" THEN "number" ELSE "string"]

(* The audit: no source; a state without the two categories; sources that agree, disagree or change. *)

Says(analytics, advertising) == {[analytics |-> analytics, advertising |-> advertising]}

ConsentOf(vendor, google) ==
  [s \in {"cookiebot", "onetrust", "tcf", "gpp", "google"} |->
     CASE s = "cookiebot" -> vendor [] s = "google" -> google [] OTHER -> {}]

SomeConsents ==
  {ConsentOf({}, {}), ConsentOf(Says("unknown", "unknown"), {}),
   ConsentOf(Says("denied", "denied"), Says("granted", "unknown")),
   ConsentOf(Says("granted", "unknown"), Says("granted", "denied"))}

SomeKinds == {{}, {"cookie"}, {"script", "network"}, {"inline"}}

SomeRequests == {[category |-> "analytics", google |-> TRUE],
                 [category |-> "advertising", google |-> FALSE]}

ASSUME Parameters == /\ Stream!JourneyBounds /\ Rules!JourneyBounds
                     /\ ObservationBounds /\ CmpBounds

-----------------------------------------------------------------------------
journeyVars == <<seen, stateDiffs, journeys, faults, correlation>>
vars == <<part, journeyVars, recordVars, auditVars>>

\* What the other parts are about stays at one of its first states.
NoJourney == seen = 0 /\ stateDiffs = 0 /\ journeys = 0 /\ faults = 0 /\ correlation = 0
NoAudit ==
  /\ traces = [a \in Adapters |-> {}] /\ consent = ConsentOf({}, {})
  /\ asked = "none" /\ authorized = FALSE /\ reload = FALSE
  /\ AuditInit

Init ==
  \/ part = "stream" /\ Stream!Init /\ RecordInit /\ NoAudit
  \/ part = "rules" /\ Rules!Init /\ RecordInit /\ NoAudit
  \/ part = "record" /\ NoJourney /\ RecordInit /\ NoAudit
  \/ part = "audit" /\ NoJourney /\ RecordInit /\ AuditInit

Next ==
  \/ part = "stream" /\ Stream!Next /\ UNCHANGED <<part, recordVars, auditVars>>
  \/ part = "rules" /\ Rules!Next /\ UNCHANGED <<part, recordVars, auditVars>>
  \/ part = "record" /\ RecordNext /\ UNCHANGED <<part, journeyVars, auditVars>>
  \/ part = "audit" /\ AuditNext /\ UNCHANGED <<part, journeyVars, recordVars>>

Spec == Init /\ [][Next]_vars

-----------------------------------------------------------------------------
(* What the run checks, with RecordFaithful of Observation and AuditJust of CmpAudit *)

\* Every event belongs to the last interaction before it, the timeline of a journey
\* shows its events, two purchases are called duplicates only if they are, and an
\* element untested only if nothing touched it; a journey is called healthy only if
\* all of it was seen, and a missing request is explained by one cause.
JourneysSound ==
  /\ part = "stream" =>
       /\ Stream!TypeOK /\ Stream!AttributedToLastInteraction /\ Stream!TimelineMatchesJourney
       /\ Stream!DuplicatePurchaseIsReal /\ Stream!UntestedMeansNeverTouched
  /\ part = "rules" => Rules!HealthyMeansEndToEnd /\ Rules!NoRequestExplainedOnce
=============================================================================
