------------------------------ MODULE Journeys ------------------------------
(***************************************************************************)
(* What `diagnose` does with the events of one observed page:              *)
(* correlation/journey.py groups them into one journey per interaction,    *)
(* diagnostics/rules.py runs its rules over every journey, and             *)
(* diagnostics/trace.py lays a journey out as a timeline.                  *)
(*                                                                         *)
(* An event keeps what the rules look at: its type, its name, the second   *)
(* it happened in, its selector, the parameters that have a value, and     *)
(* whether its payload denies consent or holds personal data.  Events are  *)
(* recorded in any order of their time stamps: the page stamps its own,    *)
(* Python stamps the requests when it hears of them.                       *)
(***************************************************************************)
EXTENDS Naturals, Sequences, FiniteSets, SequencesExt

CONSTANTS
  Pool,        \* the events the page can produce, without time and identity
  MaxEvents,   \* bound on the events of a session
  MaxTime,     \* bound on the time stamps 0 .. MaxTime
  Window,      \* window_seconds of correlate_events
  Expected,    \* selector -> the expectation of its scenario: "", "any", a name
  PageViews,   \* event names that contain "page_view"
  Normal,      \* event name -> its lower-case form without separators
  Gtm,         \* whether GTM triggers and tags were fetched
  Triggers,    \* the event names GTM triggers listen to
  Tagged,      \* those of them that fire a tag
  Ingested,    \* event name -> "yes", "no", "unknown": the realtime report
  Required,    \* event name -> its required ecommerce parameters
  DiffSets,    \* the sets of state diffs a session may have recorded
  Delay,       \* _TIMING_DELAY_THRESHOLD_SECONDS
  Recommended  \* selectors of the statically found recommendations

JourneyBounds == /\ {MaxEvents, MaxTime, Window, Delay} \subseteq Nat
                        /\ Tagged \subseteq Triggers

VARIABLES events, diffs, journeys, findings, pc

vars == <<events, diffs, journeys, findings, pc>>

Interactions == {"click", "submit", "change", "scroll_depth"}

IsInteraction(e) == e.type \in Interactions

StageOf(type) ==
  CASE type \in Interactions -> "interaction"
    [] type \in {"dom_insert", "dom_remove"} -> "mutation"
    [] type = "api_call" -> "application"
    [] type = "datalayer_push" -> "datalayer"
    [] type = "gtm_event" -> "gtm"
    [] type = "network_request" -> "network"
    [] OTHER -> "other"

Init ==
  /\ events = <<>>
  /\ diffs \in DiffSets
  /\ journeys = <<>>
  /\ findings = {}
  /\ pc = "observing"

\* An event reaches the session; its position is its identity.
Record(k, t) ==
  /\ pc = "observing"
  /\ Len(events) < MaxEvents
  /\ events' = Append(events, k @@ [ts |-> t, id |-> Len(events) + 1])
  /\ UNCHANGED <<diffs, journeys, findings, pc>>

Close ==
  /\ pc = "observing"
  /\ pc' = "correlating"
  /\ UNCHANGED <<events, diffs, journeys, findings>>

-----------------------------------------------------------------------------
(* correlate_events *)

\* sorted(events, key=timestamp), which keeps the order of equal time stamps.
Ordered ==
  FlattenSeq([t \in 1..(MaxTime + 1) |->
                SelectSeq(events, LAMBDA e : e.ts = t - 1)])

Anchors == SelectSeq(Ordered, IsInteraction)

LesserOf(a, b) == IF a < b THEN a ELSE b

\* Mutant of Boundary: the next interaction does not end a journey.
BoundaryWindow(i) == Anchors[i].ts + Window

\* Where the events of the i-th interaction end.
Boundary(i) ==
  LET end == Anchors[i].ts + Window
  IN  IF i < Len(Anchors) THEN LesserOf(end, Anchors[i + 1].ts) ELSE end

Related(i) ==
  LET a == Anchors[i]
  IN  SelectSeq(Ordered, LAMBDA e : \/ e = a
                                    \/ /\ a.ts <= e.ts
                                       /\ e.ts < Boundary(i)
                                       /\ ~IsInteraction(e))

\* "gtm." stands for every name that starts so: GTM's own events.
BusinessEvent(a, related) ==
  LET pushes == SelectSeq(related,
                  LAMBDA e : e.type = "datalayer_push" /\ e.name # "")
      tags   == SelectSeq(related,
                  LAMBDA e : e.type = "gtm_event" /\ e.name \notin {"", "gtm."})
  IN  CASE pushes # <<>> -> Head(pushes).name
        [] pushes = <<>> /\ tags # <<>> -> Head(tags).name
        [] OTHER -> a.type

EndOf(related) == related[Len(related)].ts

CorrelateNext ==
  /\ pc = "correlating"
  /\ Len(journeys) < Len(Anchors)
  /\ LET i == Len(journeys) + 1
         related == Related(i)
     IN  journeys' = Append(journeys,
           [event |-> BusinessEvent(Anchors[i], related),
            start |-> Anchors[i].ts,
            end   |-> EndOf(related),
            obs   |-> related,
            diag  |-> <<>>])
  /\ UNCHANGED <<events, diffs, findings, pc>>

Correlated ==
  /\ pc = "correlating"
  /\ Len(journeys) = Len(Anchors)
  /\ pc' = "diagnosing"
  /\ UNCHANGED <<events, diffs, journeys, findings>>

-----------------------------------------------------------------------------
(* The rules *)

Of(j, type) == SelectSeq(j.obs, LAMBDA e : e.type = type)

StagePresent(j, stage) == \E e \in Range(j.obs) : StageOf(e.type) = stage

AnchorSelector(j) == Head(j.obs).sel

Expectation(j) ==
  IF AnchorSelector(j) \in DOMAIN Expected THEN Expected[AnchorSelector(j)] ELSE ""

ExpectsAny(j) == Expectation(j) # ""

ExpectedName(j) == IF Expectation(j) = "any" THEN "" ELSE Expectation(j)

\* _first_event_name of the pushes; "" when there is none or it has no name.
Observed(j) ==
  LET pushes == Of(j, "datalayer_push")
  IN  IF pushes = <<>> THEN "" ELSE Head(pushes).name

SpaNavigationMissingPageview(j) ==
  /\ Of(j, "route_change") # <<>>
  /\ \A e \in Range(Of(j, "datalayer_push")) : e.name \notin PageViews

MissingDatalayerEvent(j) == ExpectsAny(j) /\ ~StagePresent(j, "datalayer")

ApiCallWithoutTrackingEvent(j) ==
  /\ Of(j, "api_call") # <<>>
  /\ ~StagePresent(j, "datalayer") /\ ~StagePresent(j, "gtm")
  /\ ExpectsAny(j)

EventNameMismatch(j) ==
  /\ Observed(j) # ""
  /\ ExpectedName(j) \notin {"", Observed(j)}

GtmTriggerMismatch(j) ==
  /\ Observed(j) # "" /\ ~EventNameMismatch(j)
  /\ Gtm /\ Observed(j) \notin Triggers
  /\ \E t \in Triggers : Normal[t] = Normal[Observed(j)]

GtmTagNotExecuted(j) ==
  /\ Gtm /\ Observed(j) \in Tagged
  /\ ~StagePresent(j, "network") /\ ~StagePresent(j, "gtm")

ConsentDenied(j) == \E e \in Range(Of(j, "consent_change")) : e.denied

Reported(j) == IF Observed(j) = "" THEN j.event ELSE Observed(j)

MissingGa4Request(j) ==
  /\ StagePresent(j, "datalayer") \/ StagePresent(j, "gtm")
  /\ ~StagePresent(j, "network") /\ ~ConsentDenied(j)

Ga4IngestionNotConfirmed(j) ==
  /\ StagePresent(j, "datalayer") \/ StagePresent(j, "gtm")
  /\ StagePresent(j, "network")
  /\ Reported(j) \in DOMAIN Ingested /\ Ingested[Reported(j)] = "no"

DuplicateAnalyticsRequest(j) == Len(Of(j, "network_request")) > 1

DuplicateDatalayerEvent(j) ==
  Len(SelectSeq(Of(j, "datalayer_push"), LAMBDA e : e.name = j.event)) > 1

ConsentBlocking(j) ==
  /\ ~StagePresent(j, "network") /\ StagePresent(j, "datalayer")
  /\ ConsentDenied(j)

JsErrorBlocking(j) ==
  /\ ExpectsAny(j) /\ ~StagePresent(j, "datalayer")
  /\ Of(j, "js_error") # <<>>

\* Upstream parameters other than the items reach some request.
ParameterLoss(j) ==
  LET pushes == Of(j, "datalayer_push")
      requests == Of(j, "network_request")
  IN  /\ pushes # <<>> /\ requests # <<>>
      /\ ~(Head(pushes).params \ {"items"}
             \subseteq UNION {e.params : e \in Range(requests)})

EcommerceMissingParameters(j) ==
  /\ Observed(j) \in DOMAIN Required
  /\ ~(Required[Observed(j)] \subseteq Head(Of(j, "datalayer_push")).params)

Distance(a, b) == IF a < b THEN b - a ELSE a - b

\* state_diff_for_journey: the closest diffs of the journey's selector (the code
\* takes the first of them).
DiffsFor(j) ==
  LET own == {d \in diffs : d.sel = AnchorSelector(j)}
  IN  {d \in own : \A o \in own :
         Distance(d.before, j.start) <= Distance(o.before, j.start)}

TimingDelay(j) ==
  LET pushes == Of(j, "datalayer_push")
  IN  /\ pushes # <<>>
      /\ \E d \in DiffsFor(j) : d.changed /\ d.after > Head(pushes).ts + Delay

PiiLeak(j) ==
  \E e \in Range(j.obs) : e.type \in {"datalayer_push", "network_request"} /\ e.pii

Rule(cause, severity, fires) == [cause |-> cause, severity |-> severity, fires |-> fires]

\* REGISTRY, in its order; the name mismatch rule has two outcomes.
Registry(j) ==
  <<Rule("spa_navigation_missing_pageview", 3, SpaNavigationMissingPageview(j)),
    Rule("missing_datalayer_event", 3, MissingDatalayerEvent(j)),
    Rule("api_call_without_tracking_event", 2, ApiCallWithoutTrackingEvent(j)),
    Rule("event_name_mismatch", 3, EventNameMismatch(j)),
    Rule("gtm_trigger_mismatch", 3, GtmTriggerMismatch(j)),
    Rule("gtm_tag_not_executed", 3, GtmTagNotExecuted(j)),
    Rule("missing_ga4_request", 2, MissingGa4Request(j)),
    Rule("ga4_ingestion_not_confirmed", 2, Ga4IngestionNotConfirmed(j)),
    Rule("duplicate_analytics_request", 2, DuplicateAnalyticsRequest(j)),
    Rule("duplicate_datalayer_event", 2, DuplicateDatalayerEvent(j)),
    Rule("consent_blocked", 2, ConsentBlocking(j)),
    Rule("js_error_blocking", 3, JsErrorBlocking(j)),
    Rule("parameter_loss", 2, ParameterLoss(j)),
    Rule("ecommerce_missing_parameters", 2, EcommerceMissingParameters(j)),
    Rule("timing_delay", 2, TimingDelay(j)),
    Rule("pii_leak_detected", 2, PiiLeak(j))>>

Causes(j) == {d.cause : d \in Range(j.diag)}

\* primary_diagnosis: the first of the most severe ones; 0 is healthy.
Severity(j) == IF j.diag = <<>> THEN 0
               ELSE CHOOSE s \in 2..3 : /\ \E d \in Range(j.diag) : d.severity = s
                                       /\ \A d \in Range(j.diag) : d.severity <= s

\* diagnose_journeys
Diagnose ==
  /\ pc = "diagnosing"
  /\ journeys' = [i \in DOMAIN journeys |-> [journeys[i] EXCEPT !.diag =
                    SelectSeq(Registry(journeys[i]), LAMBDA r : r.fires)]]
  /\ pc' = "concluding"
  /\ UNCHANGED <<events, diffs, findings>>

Purchases(tx) ==
  [i \in DOMAIN journeys |->
     SelectSeq(Of(journeys[i], "datalayer_push"),
               LAMBDA e : e.name = "purchase" /\ e.tx = tx)]

\* find_duplicate_purchases
DuplicatePurchases ==
  {tx \in {k.tx : k \in Pool} \ {""} : Len(FlattenSeq(Purchases(tx))) > 1}

\* The selectors find_untested_recommendations takes for exercised.
Tested ==
  UNION {{e.sel : e \in {o \in Range(journeys[i].obs) :
            o.type \in {"click", "submit", "change"}}} : i \in DOMAIN journeys}

Conclude ==
  /\ pc = "concluding"
  /\ findings' = {<<"duplicate_purchase", tx>> : tx \in DuplicatePurchases}
                   \cup {<<"untested", s>> : s \in Recommended \ Tested}
  /\ pc' = "done"
  /\ UNCHANGED <<events, diffs, journeys>>

\* build_interaction_trace: the time line of a journey.
TraceSteps(j) ==
  FlattenSeq([t \in 1..(MaxTime + 1) |->
                SelectSeq(j.obs, LAMBDA e : e.ts = t - 1)])

Done == pc = "done" /\ UNCHANGED vars

Next ==
  \/ \E k \in Pool, t \in 0..MaxTime : Record(k, t)
  \/ Close
  \/ CorrelateNext
  \/ Correlated
  \/ Diagnose
  \/ Conclude
  \/ Done

Spec == Init /\ [][Next]_vars

-----------------------------------------------------------------------------
(* Properties *)

\* The state keeps its shape, and no more journeys than events exist.
TypeOK ==
  /\ Len(events) <= MaxEvents
  /\ \A i \in DOMAIN events : events[i].id = i /\ events[i].ts \in 0..MaxTime
  /\ diffs \in DiffSets
  /\ Len(journeys) <= Len(events)
  /\ pc \in {"observing", "correlating", "diagnosing", "concluding", "done"}

\* The interaction an event belongs to: the last one that did not come after it.
Owner(e) ==
  {a \in {o \in Range(events) : IsInteraction(o)} :
     /\ a.ts <= e.ts /\ e.ts < a.ts + Window
     /\ \A b \in {o \in Range(events) : IsInteraction(o)} : b.ts <= e.ts =>
          b.ts < a.ts \/ (b.ts = a.ts /\ b.id <= a.id)}

\* correlate_events attributes every event to one journey, that of the last
\* interaction before it, unless the window of that one has passed; it does so
\* whatever the order the events were recorded in and however many interactions
\* share a time stamp.
AttributedToLastInteraction ==
  pc = "diagnosing" =>
    \A e \in {o \in Range(events) : ~IsInteraction(o)} :
      {i \in DOMAIN journeys : e \in Range(journeys[i].obs)}
        = {i \in DOMAIN journeys : \E a \in Owner(e) : a \in Range(journeys[i].obs)}

\* A journey starts and ends with its time line: build_interaction_trace, which
\* sorts again, agrees with the start and end times the journey carries.
TimelineMatchesJourney ==
  \A i \in DOMAIN journeys :
    LET j == journeys[i]
        steps == TraceSteps(j)
    IN  /\ steps = j.obs
        /\ steps[1].ts = j.start /\ steps[Len(steps)].ts = j.end

\* No request after a push is explained once: rule_missing_analytics_request
\* leaves the denied consent to rule_consent_blocking, and one of the two speaks.
NoRequestExplainedOnce ==
  pc \in {"concluding", "done"} =>
    \A i \in DOMAIN journeys :
      LET j == journeys[i]
      IN  StagePresent(j, "datalayer") /\ ~StagePresent(j, "network")
            => Cardinality(Causes(j) \cap {"missing_ga4_request", "consent_blocked"}) = 1

\* find_duplicate_purchases reports a transaction only if two pushes of the
\* session carry it: no push is counted in two journeys.
DuplicatePurchaseIsReal ==
  \A f \in findings : f[1] = "duplicate_purchase" =>
    \E a, b \in Range(events) : a.id # b.id /\ a.tx = f[2] /\ b.tx = f[2]

\* A recommendation is reported untested exactly if no click, submit or change on
\* its selector was recorded, wherever that event ended up in a journey.
UntestedMeansNeverTouched ==
  pc = "done" =>
    \A s \in Recommended :
      <<"untested", s>> \in findings <=>
        ~\E e \in Range(events) : e.type \in {"click", "submit", "change"} /\ e.sel = s

\* "Tracking behaved as expected end to end": a journey without a diagnosis whose
\* selector was expected to push has a push under the expected name and a request.
HealthyMeansEndToEnd ==
  pc \in {"concluding", "done"} =>
    \A i \in DOMAIN journeys :
      LET j == journeys[i]
      IN  ExpectsAny(j) /\ Severity(j) = 0 =>
            /\ StagePresent(j, "datalayer") /\ StagePresent(j, "network")
            /\ Observed(j) \in {"", ExpectedName(j)} \/ ExpectedName(j) = ""

\* anchor_selector is the selector of the interaction that started the journey.
AnchorSelectorIsTheAnchors ==
  \A i \in DOMAIN journeys : AnchorSelector(journeys[i]) = Anchors[i].sel

\* When a denied consent keeps rule_missing_analytics_request silent,
\* rule_consent_blocking explains the missing request.
DeniedConsentExplained ==
  pc \in {"concluding", "done"} =>
    \A i \in DOMAIN journeys :
      LET j == journeys[i]
      IN  /\ StagePresent(j, "datalayer") \/ StagePresent(j, "gtm")
          /\ ~StagePresent(j, "network") /\ ConsentDenied(j)
          => "consent_blocked" \in Causes(j)

\* A transaction pushed twice anywhere in the session is reported.
DuplicatePurchaseFound ==
  pc = "done" =>
    \A a, b \in Range(events) :
      /\ a.id # b.id /\ a.type = "datalayer_push" /\ b.type = "datalayer_push"
      /\ a.name = "purchase" /\ b.name = "purchase" /\ a.tx # "" /\ a.tx = b.tx
      => <<"duplicate_purchase", a.tx>> \in findings

=============================================================================
