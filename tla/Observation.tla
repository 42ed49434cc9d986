----------------------------- MODULE Observation -----------------------------
(***************************************************************************)
(* One ObservationSession (observability/session.py) driving a scenario on *)
(* a page that goes on running: it snapshots the runtime state before and  *)
(* after every step, in two reads (storage and dataLayer through the       *)
(* page's agent, cookies through the browser), and diffs the snapshots     *)
(* (observability/state.py).  Agent events and requests arrive meanwhile.  *)
(*                                                                         *)
(* A stored value is told apart by the shape the capture keeps of it (its  *)
(* type and length) and by the value itself.                               *)
(***************************************************************************)
EXTENDS SeqFilter, Naturals, Sequences, FiniteSets

CONSTANTS
  Keys, Sensitive,  \* storage keys, and those is_sensitive_key names
  Values, Shape,    \* stored values, and the type and length of each
  Items,            \* what the page pushes to the dataLayer
  CaptureValues,    \* capture_storage_values
  CaptureAll,       \* capture_all_network
  MaxNetworkEvents, \* max_network_events
  LayerCap,         \* DATALAYER_SNAPSHOT_CAP of the agent
  Steps,            \* number of steps of the scenario
  MaxPageSteps,     \* bound on what the page does by itself
  Absent, Redacted  \* no value, and what stands for one that is kept back

ObservationBounds ==
  /\ {MaxNetworkEvents, LayerCap, Steps, MaxPageSteps} \subseteq Nat
  /\ Sensitive \subseteq Keys /\ MaxNetworkEvents > 0 /\ LayerCap > 0
  /\ {Absent, Redacted} \cap Values = {}

VARIABLES
  cookies, local, layer,  \* the page: key -> value or Absent, pushed items
  pageSteps,              \* what the page has done by itself
  doing, step, half,      \* the session: where, which step, storage half of a snapshot
  snaps, diffs,           \* _state_snapshots, _state_diffs
  events, networkCount,   \* _events (their kinds), _network_event_count
  touched                 \* ghost: what changed since the last "before" reads;
                          \* half keeps it as it was when the storage was read

page == <<cookies, local, layer>>
recordVars == <<page, pageSteps, doing, step, half, snaps, diffs, events, networkCount, touched>>

StateEntry(v, captured) == [shape |-> IF v = Absent THEN Absent ELSE Shape[v], value |-> captured]

RedactIfSensitive(k, v) == IF k \in Sensitive /\ v # Absent THEN Redacted ELSE v

\* _entries_from_js: the agent sends values only when they were asked for.
EntriesFromJs(store) ==
  [k \in Keys |-> StateEntry(store[k],
     RedactIfSensitive(k, IF CaptureValues THEN store[k] ELSE Absent))]

\* _entries_from_cookie_list
EntriesFromCookies(store) ==
  [k \in Keys |-> StateEntry(store[k], RedactIfSensitive(k, store[k]))]

\* captureDataLayerSnapshot: the last LayerCap items.
LayerSnapshot == IF Len(layer) > LayerCap
                 THEN SubSeq(layer, Len(layer) - LayerCap + 1, Len(layer)) ELSE layer

\* _diff_entries: the keys added, removed or modified.
DiffEntries(before, after) == {k \in Keys : before[k] # after[k]}

\* _new_data_layer_event_names
NewItems(before, after) == Filtered(after, Items \ Elements(before))

\* Mutant of DiffSnapshots: the storage is compared with the page as it was loaded.
DiffSnapshotsFromLoad(before, after) ==
  [cookies |-> DiffEntries(before.cookies, after.cookies),
   local   |-> DiffEntries(snaps[1].local, after.local),
   items   |-> NewItems(before.layer, after.layer),
   touched |-> [half.touched EXCEPT !.cookies = touched.cookies]]

\* diff_state_snapshots
DiffSnapshots(before, after) ==
  [cookies |-> DiffEntries(before.cookies, after.cookies),
   local   |-> DiffEntries(before.local, after.local),
   items   |-> NewItems(before.layer, after.layer),
   touched |-> [half.touched EXCEPT !.cookies = touched.cookies]]

RecordInit ==
  /\ cookies = [k \in Keys |-> Absent] /\ local = [k \in Keys |-> Absent]
  /\ layer = <<>> /\ pageSteps = 0
  /\ doing = "goto" /\ step = 0 /\ half = <<>>
  /\ snaps = <<>> /\ diffs = <<>>
  /\ events = <<>> /\ networkCount = 0
  /\ touched = [cookies |-> {}, local |-> {}, items |-> <<>>]

-----------------------------------------------------------------------------
(* The page, between any two reads of the session *)

PageStep == pageSteps < MaxPageSteps /\ doing # "closed" /\ pageSteps' = pageSteps + 1

SetCookie(k, v) ==
  /\ PageStep /\ cookies[k] # v
  /\ cookies' = [cookies EXCEPT ![k] = v]
  /\ touched' = [touched EXCEPT !.cookies = @ \cup {k}]
  /\ UNCHANGED <<local, layer, doing, step, half, snaps, diffs, events, networkCount>>

SetLocal(k, v) ==
  /\ PageStep /\ local[k] # v
  /\ local' = [local EXCEPT ![k] = v]
  /\ touched' = [touched EXCEPT !.local = @ \cup {k}]
  /\ UNCHANGED <<cookies, layer, doing, step, half, snaps, diffs, events, networkCount>>

\* A push: the agent reports it (_on_agent_event) and lets it through.
Push(i) ==
  /\ PageStep
  /\ layer' = Append(layer, i)
  /\ events' = Append(events, "datalayer_push")
  /\ touched' = [touched EXCEPT !.items = Append(@, i)]
  /\ UNCHANGED <<cookies, local, doing, step, half, snaps, diffs, networkCount>>

Counted == networkCount < MaxNetworkEvents

\* _on_network_request, for a known analytics URL and for any other.
Request(analytics) ==
  /\ PageStep
  /\ LET kept == (analytics \/ CaptureAll) /\ (CaptureAll => Counted)
     IN  /\ networkCount' = networkCount + (IF kept /\ CaptureAll THEN 1 ELSE 0)
         /\ events' = IF kept THEN Append(events, "network_request") ELSE events
  /\ UNCHANGED <<page, doing, step, half, snaps, diffs, touched>>

-----------------------------------------------------------------------------
(* The session *)

Goto ==
  /\ doing = "goto"
  /\ doing' = "load_js"
  /\ UNCHANGED <<page, pageSteps, step, half, snaps, diffs, events, networkCount, touched>>

\* capture_state, first half: the agent's captureState.
CaptureJs ==
  /\ doing \in {"load_js", "before_js", "after_js"}
  /\ half' = [local |-> EntriesFromJs(local), layer |-> LayerSnapshot, touched |-> touched]
  /\ doing' = CASE doing = "load_js" -> "load_cookies"
                [] doing = "before_js" -> "before_cookies"
                [] doing = "after_js" -> "after_cookies"
  /\ touched' = IF doing = "before_js"
                THEN [cookies |-> touched.cookies, local |-> {}, items |-> <<>>] ELSE touched
  /\ UNCHANGED <<page, pageSteps, step, snaps, diffs, events, networkCount>>

NextStep == IF step < Steps THEN "before_js" ELSE "reported"

\* capture_state, second half: the cookies complete the snapshot; after a step the
\* diff follows at once.
CaptureCookies ==
  /\ doing \in {"load_cookies", "before_cookies", "after_cookies"}
  /\ LET snap == [cookies |-> EntriesFromCookies(cookies), local |-> half.local, layer |-> half.layer]
     IN  /\ snaps' = Append(snaps, snap)
         /\ diffs' = IF doing = "after_cookies"
                     THEN Append(diffs, DiffSnapshots(snaps[Len(snaps)], snap)) ELSE diffs
  /\ touched' = IF doing = "before_cookies" THEN [touched EXCEPT !.cookies = {}] ELSE touched
  /\ doing' = IF doing = "before_cookies" THEN "act" ELSE NextStep
  /\ UNCHANGED <<page, pageSteps, step, half, events, networkCount>>

\* The click, submit or change of _run_step, or the error it ends in.
Act(outcome) ==
  /\ doing = "act"
  /\ events' = Append(events, outcome)
  /\ step' = step + 1
  /\ doing' = "after_js"
  /\ UNCHANGED <<page, pageSteps, half, snaps, diffs, networkCount, touched>>

\* __exit__, at the end or when a call of the session raised.
Close ==
  /\ doing # "closed"
  /\ doing' = "closed"
  /\ UNCHANGED <<page, pageSteps, step, half, snaps, diffs, events, networkCount, touched>>

Session == Goto \/ CaptureJs \/ CaptureCookies \/ Act("click") \/ Act("scenario_step_failed")

RecordNext ==
  \/ \E k \in Keys, v \in Values \cup {Absent} : SetCookie(k, v) \/ SetLocal(k, v)
  \/ \E i \in Items : Push(i)
  \/ \E a \in BOOLEAN : Request(a)
  \/ Session
  \/ Close

RecordSpec == RecordInit /\ [][RecordNext]_recordVars

-----------------------------------------------------------------------------
(* Properties *)

\* The session's records keep their shape: two snapshots per step after the first.
RecordTypeOK ==
  /\ pageSteps \in 0..MaxPageSteps /\ step \in 0..Steps
  /\ Len(diffs) <= step /\ Len(snaps) <= 1 + 2 * Steps
  /\ networkCount <= Len(events)

\* A diff names only what changed between the two reads it compares, although the
\* storage and the cookies are read at different times and the page runs between.
DiffOnlyWhatChanged ==
  \A d \in Elements(diffs) :
    /\ d.cookies \subseteq d.touched.cookies /\ d.local \subseteq d.touched.local
    /\ Elements(d.items) \subseteq Elements(d.touched.items)

\* _redact_value_if_sensitive: no snapshot ever holds the value of a key whose name
\* looks sensitive, whatever was asked for.
SensitiveValueNeverKept ==
  \A s \in Elements(snaps), k \in Sensitive :
    {s.cookies[k].value, s.local[k].value} \cap Values = {}

NetworkEvidence == {i \in DOMAIN events : events[i] = "network_request"}

\* With capture_all_network on, at most max_network_events requests are recorded.
NetworkEvidenceBounded == CaptureAll => Cardinality(NetworkEvidence) <= MaxNetworkEvents

\* A recorded difference is one between the two reads around its step, the value of
\* a sensitive key is never kept, and recording stays within its bounds.
RecordFaithful ==
  RecordTypeOK /\ DiffOnlyWhatChanged /\ SensitiveValueNeverKept /\ NetworkEvidenceBounded

\* Raw values are captured only when they were asked for.
ValuesOnlyOnRequest ==
  ~CaptureValues =>
    \A s \in Elements(snaps), k \in Keys :
      {s.cookies[k].value, s.local[k].value} \cap Values = {}

\* What was pushed to the dataLayer during a step is in the step's diff.
PushesReported ==
  \A d \in Elements(diffs) : Elements(d.touched.items) \subseteq Elements(d.items)

==============================================================================
