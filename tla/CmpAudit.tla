------------------------------- MODULE CmpAudit -------------------------------
(***************************************************************************)
(* A consent-platform audit (cmp/collector.py, CmpAuditRunner.run): the    *)
(* runner loads a page, reads its consent state, operates a consent        *)
(* control if it was told and authorized to, reads the state again, may    *)
(* reload, and derives findings (cmp/rules.py) from the recorded requests, *)
(* the states (cmp/adapters.py) and the detections.  The page goes on      *)
(* sending requests and changing its consent signals between any two       *)
(* steps.                                                                  *)
(*                                                                         *)
(* Time is the order of steps: a recorded request carries the number of    *)
(* time stamps the runner had taken, which is all the phases depend on.    *)
(***************************************************************************)
EXTENDS Naturals, Sequences, FiniteSets, SequencesExt, FiniteSetsExt

CONSTANTS
  Adapters,      \* the registry of consent platforms
  SignalKinds,   \* sets of traces a platform may leave on the page
  ConsentSets,   \* what the consent sources of a page may say
  RequestKinds,  \* the tracking requests a page sends: category, Google or not
  Selectors,     \* how many controls there are to try
  MaxNetwork,    \* max_network_events
  MaxActivity    \* bound on what the page does by itself

CmpBounds == {Selectors, MaxNetwork, MaxActivity} \subseteq Nat

\* The categories a tracking request falls in; the runner treats preferences alike.
Tracking == {"analytics", "advertising"}

\* The sources in the order _current_consent_state merges them; the first two are
\* read through the adapter of a platform, if it was detected when the page loaded.
Sources == <<"cookiebot", "onetrust", "tcf", "gpp", "google">>

VARIABLES
  traces,    \* the page: adapter -> the kinds of traces it shows
  consent,   \* the page: source -> category -> "granted", "denied", "unknown"; or {}
  activity,  \* what the page has done by itself
  requests,  \* recorded requests: kind, stamps, and (ghost) clicked
  asked, authorized, reload,  \* the runner's arguments
  pc, stamps, tries, clicked, \* the runner; stamps: 1 with action_timestamp, 2 with reload_timestamp
  initial, afterAction, afterReload, \* the merged states that were read
  detections, findings

arguments == <<asked, authorized, reload>>
states == <<initial, afterAction, afterReload>>
auditVars == <<traces, consent, activity, requests, arguments, pc, stamps, tries, clicked,
               states, detections, findings>>

NotRead == [known |-> FALSE]

-----------------------------------------------------------------------------
(* Detection and consent states (cmp/adapters.py) *)

\* CmpAdapter.detect: the rank of the confidence, 0 for no detection.
Confidence(kinds) ==
  CASE kinds \cap {"script", "global"} # {} -> 3
    [] kinds \cap {"script", "global"} = {} /\ kinds \cap {"network", "cookie"} # {} -> 2
    [] kinds = {"inline"} -> 1
    [] OTHER -> 0

Detect == [a \in Adapters |-> Confidence(traces[a])]

\* _merge_detections
MergeDetections(first, second) ==
  [a \in Adapters |-> IF second[a] > first[a] THEN second[a] ELSE first[a]]

Detected(d) == \E a \in Adapters : d[a] > 0

\* merge_consent_states: per category the first source that has a value.
Merge(d) ==
  LET readable == SelectSeq(Sources, LAMBDA s : consent[s] # {} /\ (s \in Adapters => d[s] > 0))
      says(c) == SelectSeq(readable, LAMBDA s : \E v \in consent[s] : v[c] # "unknown")
  IN  [known    |-> TRUE,
       sources  |-> Range(readable),
       google   |-> consent["google"],
       category |-> [c \in Tracking |->
         IF says(c) = <<>> THEN "unknown" ELSE (CHOOSE v \in consent[Head(says(c))] : TRUE)[c]]]

\* ConsentState.has_categories: every source but the cookies calls the necessary
\* category granted, so any answer counts.
HasCategories(state) == state.sources # {} \/ \E c \in Tracking : state.category[c] # "unknown"

-----------------------------------------------------------------------------
AuditInit ==
  /\ traces \in [Adapters -> SignalKinds]
  /\ consent \in ConsentSets
  /\ activity = 0 /\ requests = <<>>
  /\ asked \in {"none", "accept", "reject"}
  /\ authorized \in BOOLEAN /\ reload \in BOOLEAN
  /\ pc = "start" /\ stamps = 0 /\ tries = Selectors /\ clicked = FALSE
  /\ initial = NotRead /\ afterAction = NotRead /\ afterReload = NotRead
  /\ detections = [a \in Adapters |-> 0] /\ findings = {}

(* The page *)

PageActs == /\ pc \notin {"start", "refused", "done"}
            /\ activity < MaxActivity
            /\ activity' = activity + 1

\* _on_network_request with capture_all_network on.
Send(kind) ==
  /\ PageActs
  /\ requests' = IF Len(requests) < MaxNetwork
                 THEN Append(requests, [kind |-> kind, stamps |-> stamps, clicked |-> clicked])
                 ELSE requests
  /\ UNCHANGED <<traces, consent, arguments, pc, stamps, tries, clicked, states, detections, findings>>

ChangeConsent(c) ==
  /\ PageActs /\ consent # c
  /\ consent' = c
  /\ UNCHANGED <<traces, requests, arguments, pc, stamps, tries, clicked, states, detections, findings>>

LoadPlatform(a, kinds) ==
  /\ PageActs /\ traces[a] # kinds
  /\ traces' = [traces EXCEPT ![a] = kinds]
  /\ UNCHANGED <<consent, requests, arguments, pc, stamps, tries, clicked, states, detections, findings>>

-----------------------------------------------------------------------------
(* The runner *)

Unauthorized == asked # "none" /\ ~authorized

Refuse ==
  /\ pc = "start" /\ Unauthorized
  /\ pc' = "refused"
  /\ UNCHANGED <<traces, consent, activity, requests, arguments, stamps, tries, clicked, states, detections, findings>>

Load ==
  /\ pc = "start" /\ ~Unauthorized
  /\ pc' = "loaded"
  /\ UNCHANGED <<traces, consent, activity, requests, arguments, stamps, tries, clicked, states, detections, findings>>

\* The initial detections and the initial consent state.
Inspect ==
  /\ pc = "loaded"
  /\ detections' = Detect
  /\ initial' = Merge(Detect)
  /\ pc' = IF asked = "none" THEN "final" ELSE "inspected"
  /\ UNCHANGED <<traces, consent, activity, requests, arguments, stamps, tries, clicked, afterAction, afterReload, findings>>

\* action_timestamp is taken before the first control is tried.
StampAction ==
  /\ pc = "inspected"
  /\ stamps' = 1
  /\ pc' = IF tries > 0 THEN "clicking" ELSE "final"
  /\ UNCHANGED <<traces, consent, activity, requests, arguments, tries, clicked, states, detections, findings>>

\* session.click: one control, which works or times out.
Click(works) ==
  /\ pc = "clicking"
  /\ clicked' = works
  /\ tries' = tries - 1
  /\ pc' = IF works THEN "acted" ELSE IF tries > 1 THEN "clicking" ELSE "final"
  /\ UNCHANGED <<traces, consent, activity, requests, arguments, stamps, states, detections, findings>>

\* The state after the choice; reload_timestamp follows when a reload was asked for.
ReadAfterAction ==
  /\ pc = "acted"
  /\ afterAction' = Merge(detections)
  /\ stamps' = IF reload THEN 2 ELSE stamps
  /\ pc' = IF reload THEN "reloading" ELSE "final"
  /\ UNCHANGED <<traces, consent, activity, requests, arguments, tries, clicked, initial, afterReload, detections, findings>>

\* The page starts again from what it stored.
Reload(c) ==
  /\ pc = "reloading"
  /\ consent' = c
  /\ pc' = "reloaded"
  /\ UNCHANGED <<traces, activity, requests, arguments, stamps, tries, clicked, states, detections, findings>>

ReadAfterReload ==
  /\ pc = "reloaded"
  /\ afterReload' = Merge(detections)
  /\ pc' = "final"
  /\ UNCHANGED <<traces, consent, activity, requests, arguments, stamps, tries, clicked, initial, afterAction, detections, findings>>

-----------------------------------------------------------------------------
(* _request_observations and the rules (cmp/rules.py) *)

\* Without a performed action its time stamp is dropped and everything is initial.
Phase(r) == IF clicked THEN r.stamps ELSE 0

\* Mutant of AfterChoice: what follows the reload is left out.
AfterChoiceOnce == {r \in Range(requests) : Phase(r) = 1}

AfterChoice == {r \in Range(requests) : Phase(r) \in {1, 2}}

Finding(rule, severity) == <<rule, severity, "">>

DetectionFindings(d) ==
  IF Detected(d)
  THEN IF HasCategories(initial) THEN {} ELSE {Finding("consent_state_unavailable", "low")}
  ELSE {Finding("no_supported_cmp_detected", "informational")} \cup
       (IF requests # <<>> THEN {Finding("tracking_without_supported_cmp", "low")} ELSE {})

\* _recognized_cookie_names_without_detection, over the final cookies.
CookieFindings(d) ==
  IF \E a \in Adapters : "cookie" \in traces[a] /\ d[a] = 0
  THEN {Finding("consent_cookie_without_detection", "informational")} ELSE {}

InitialCategories == {r.kind.category : r \in {q \in Range(requests) : Phase(q) = 0}}

PreConsentFindings(d) ==
  {<<"tracking_before_consent", IF initial.category[c] = "denied" THEN "high" ELSE "medium", c>> :
     c \in {x \in InitialCategories : /\ initial.category[x] # "granted"
                                      /\ Detected(d) \/ initial.category[x] # "unknown"}}

LifecycleFindings ==
  CASE asked = "none" -> {}
    [] asked # "none" /\ ~clicked -> {Finding("consent_control_unavailable", "medium")}
    [] asked = "accept" /\ clicked ->
         IF \E c \in Tracking : afterAction.category[c] = "denied"
         THEN {Finding("accept_not_effective", "medium")} ELSE {}
    [] asked = "reject" /\ clicked ->
         (IF AfterChoice # {} THEN {Finding("tracking_after_reject", "critical")} ELSE {}) \cup
         (IF \E c \in Tracking : afterAction.category[c] = "granted"
          THEN {Finding("reject_not_effective", "high")} ELSE {})

ConsentModeFindings ==
  IF initial.google = {} /\ \E r \in Range(requests) : r.kind.google
  THEN {Finding("google_consent_mode_missing", "medium")} ELSE {}

Contrary(x, y) == {x, y} = {"granted", "denied"}

\* Cookiebot's state against Google's.
ConflictFindings ==
  IF /\ "cookiebot" \in initial.sources
     /\ \E g \in initial.google, c \in Tracking : Contrary(initial.category[c], g[c])
  THEN {Finding("consent_signal_conflict", "medium")} ELSE {}

StateFindings ==
  CASE ~clicked \/ ~afterReload.known -> {}
    [] clicked /\ afterReload.known ->
         IF ~HasCategories(afterAction) \/ ~HasCategories(afterReload)
         THEN {Finding("consent_persistence_unverified", "informational")}
         ELSE IF \E c \in Tracking : Contrary(afterAction.category[c], afterReload.category[c])
              THEN {Finding("consent_not_persisted", "medium")} ELSE {}

\* The final detections and analyze_cmp.
Conclude ==
  /\ pc = "final"
  /\ LET d == MergeDetections(detections, Detect)
     IN  /\ detections' = d
         /\ findings' = DetectionFindings(d) \cup CookieFindings(d) \cup PreConsentFindings(d)
                          \cup LifecycleFindings \cup ConsentModeFindings
                          \cup ConflictFindings \cup StateFindings
  /\ pc' = "done"
  /\ UNCHANGED <<traces, consent, activity, requests, arguments, stamps, tries, clicked, states>>

Runner ==
  \/ Refuse \/ Load \/ Inspect \/ StampAction \/ Click(TRUE) \/ Click(FALSE)
  \/ ReadAfterAction \/ (\E c \in ConsentSets : Reload(c)) \/ ReadAfterReload \/ Conclude

AuditNext ==
  \/ \E k \in RequestKinds : Send(k)
  \/ \E c \in ConsentSets : ChangeConsent(c)
  \/ \E a \in Adapters, k \in SignalKinds : LoadPlatform(a, k)
  \/ Runner

\* Every call of the runner returns: page loads, clicks and reads have time-outs.
AuditSpec == AuditInit /\ [][AuditNext]_auditVars /\ WF_auditVars(Runner)

-----------------------------------------------------------------------------
(* Properties *)

\* The runner's state keeps its shape.
AuditTypeOK ==
  /\ Len(requests) <= MaxNetwork /\ activity \in 0..MaxActivity
  /\ stamps \in 0..2 /\ tries \in 0..Selectors
  /\ detections \in [Adapters -> 0..3]

\* A consent control is operated only on an explicit, authorized request, and a
\* refused run never touches the page.
ReadOnlyUnlessAuthorized ==
  /\ clicked \/ tries < Selectors => asked # "none" /\ authorized
  /\ pc = "refused" => requests = <<>> /\ ~initial.known

\* A finding of high or critical severity rests on a denial that was read for its
\* category or on a rejection that was made.
AccusationsHaveEvidence ==
  \A f \in findings :
    f[2] \in {"high", "critical"} =>
      \/ f[1] = "tracking_before_consent" /\ initial.category[f[3]] = "denied"
      \/ asked = "reject" /\ clicked

Reported(rule) == \E f \in findings : f[1] = rule

\* Once a rejection went through, a recorded tracking request is reported, also
\* when it came only after the reload.
TrackingAfterRejectReported ==
  pc = "done" /\ asked = "reject" /\ (\E r \in Range(requests) : r.clicked)
    => Reported("tracking_after_reject")

\* Nothing is operated without authorization, a severe finding rests on a state that
\* was read or a choice that was made, and tracking that was recorded after a rejection
\* is reported.
AuditJust ==
  /\ AuditTypeOK /\ ReadOnlyUnlessAuthorized
  /\ AccusationsHaveEvidence /\ TrackingAfterRejectReported

\* Every audit that is not refused ends in a report.
AuditEnds == <>(pc \in {"refused", "done"})

\* Tracking reported after a rejection was sent after the rejection.
AfterRejectMeansAfter ==
  Reported("tracking_after_reject") => \E r \in Range(requests) : r.clicked

\* A platform whose categories cannot be read is reported so.
UnreadableIsReported ==
  pc = "done" /\ Detected(detections) /\ (\A c \in Tracking : initial.category[c] = "unknown")
    => Reported("consent_state_unavailable")

\* A platform's cookie without its script or global is reported.
StaleCookieReported ==
  pc = "done" /\ (\E a \in Adapters : traces[a] = {"cookie"} /\ detections[a] < 3)
    => Reported("consent_cookie_without_detection")

===============================================================================
