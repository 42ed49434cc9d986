------------------------------ MODULE Preview -------------------------------
(***************************************************************************)
(* What a payload means for one event: validate_config_payload             *)
(* (control/validation.py), preview_event (control/preview.py) with the    *)
(* adapters (control/adapters.py), and the event list of the public        *)
(* document (distribution/public_config.py).                               *)
(*                                                                         *)
(* Tags, triggers and destinations refer to each other by number; a number *)
(* that is not there is a missing reference.  Variables have a module of   *)
(* their own; here only the reference of a condition to one counts.        *)
(***************************************************************************)
EXTENDS Conditions, SequencesExt, FiniteSetsExt

CONSTANTS
  Payloads,   \* [tags, triggers, destinations] records of sequences
  Events,     \* [name, type]
  Purposes,   \* consent purposes
  Layerings,  \* what the defaults, the stored consent, the event and the override say
  NoPurpose   \* consent_purpose None

VARIABLES
  payload, event, other,  \* other: what conditions beyond the name say of the event
  layers,    \* the consent layers, the last one counting most
  report,    \* codes of the errors of validate_config_payload, or "none yet"
  consent,   \* the consent in force
  matched,   \* triggers that matched
  trace,     \* [tags done -> [selected, why, result]]
  phase

vars == <<payload, event, other, layers, report, consent, matched, trace, phase>>

PreviewAssumption ==
  /\ \A p \in Payloads : \A i \in DOMAIN p.triggers : WellFormed(p.triggers[i].conditions, 32)
  /\ Layerings \subseteq [1 .. 4 -> [Purposes -> {"unset", "granted", "denied"}]]

Init ==
  /\ payload \in Payloads
  /\ event \in Events
  /\ other \in BOOLEAN
  /\ layers \in Layerings
  /\ report = {} /\ consent = [p \in Purposes |-> "unset"] /\ matched = {} /\ trace = <<>>
  /\ phase = "validate"

Tags == payload.tags
Destinations == payload.destinations

\* The registry: the destination kind of an adapter.
Adapters == {"ga4", "segment", "http_webhook"}

\* Adapter.validate_destination, and config.py: a destination of a known kind
\* carries what the adapter reads from it.
DestinationErrors(d) ==
  IF d.kind \in {"ga4", "http_webhook"} /\ ~d.complete THEN {"setting_required"} ELSE {}

\* _referenced_destinations: those a tag may use, and what is wrong with the others.
Referenced(tag) ==
  LET all == [i \in DOMAIN Destinations |-> i]
      asked == IF tag.dests = <<>> THEN SelectSeq(all, LAMBDA i : Destinations[i].kind = tag.type)
               ELSE SelectSeq(tag.dests, LAMBDA i : i \in DOMAIN Destinations
                                                     /\ Destinations[i].kind = tag.type)
  IN [selected |-> SelectSeq(asked, LAMBDA i : Destinations[i].enabled),
      errors |-> UNION {IF i \notin DOMAIN Destinations THEN {"destination_missing"}
                        ELSE IF Destinations[i].kind # tag.type THEN {"destination_kind_mismatch"}
                        ELSE {} : i \in ToSet(tag.dests)}]

\* validate_config_payload for one tag: references, adapter and its destinations.
TagErrors(tag) ==
  (IF ToSet(tag.triggers) \subseteq DOMAIN payload.triggers THEN {} ELSE {"trigger_missing"})
    \cup (IF ToSet(tag.dests) \subseteq DOMAIN Destinations THEN {} ELSE {"destination_missing"})
    \cup (IF tag.type \notin Adapters THEN {"unknown_adapter"}
          ELSE Referenced(tag).errors
                 \cup (IF tag.event = "none" THEN {"event_name_required"} ELSE {})
                 \cup UNION {DestinationErrors(Destinations[i]) : i \in ToSet(Referenced(tag).selected)})

Validate ==
  /\ phase = "validate"
  /\ report' = UNION {TagErrors(Tags[i]) : i \in DOMAIN Tags}
                 \cup UNION {DestinationErrors(Destinations[i]) : i \in DOMAIN Destinations}
  /\ phase' = "consent"
  /\ UNCHANGED <<payload, event, other, layers, consent, matched, trace>>

\* The layers that say something of a purpose.
Speaking(p) == {i \in DOMAIN layers : layers[i][p] # "unset"}

\* _consent_state: a later layer overrules an earlier one, purpose by purpose.
ConsentState ==
  [p \in Purposes |-> IF Speaking(p) = {} THEN "unset" ELSE layers[Max(Speaking(p))][p]]

ResolveConsent ==
  /\ phase = "consent"
  /\ consent' = ConsentState
  /\ phase' = "triggers"
  /\ UNCHANGED <<payload, event, other, layers, report, matched, trace>>

\* _trigger_type_matches: some types ask for no type of event.
TypeMatches(t) == t.type \in {"dom_condition", "variable_condition"} \/ t.type = event.type

MatchTriggers ==
  /\ phase = "triggers"
  /\ matched' = {i \in DOMAIN payload.triggers :
                   LET t == payload.triggers[i] IN
                   t.enabled /\ TypeMatches(t) /\ Holds(t.conditions, event.name, other)}
  /\ phase' = "tags"
  /\ UNCHANGED <<payload, event, other, layers, report, consent, trace>>

\* Why a tag is not selected, "none" when it is.
BlockedReason(tag) ==
  CASE ~tag.enabled -> "disabled"
    [] tag.enabled /\ tag.triggers = <<>> -> "no_trigger"
    [] tag.enabled /\ tag.triggers # <<>> ->
         IF ToSet(tag.triggers) \cap matched = {} THEN "conditions_not_met"
         ELSE IF tag.purpose = NoPurpose \/ consent[tag.purpose] = "granted" THEN "none"
         ELSE IF consent[tag.purpose] = "unset" THEN "consent_missing" ELSE "consent_denied"

\* Adapter.build: a missing setting raises, everything else is an error result.
BuildResult(tag) ==
  LET r == Referenced(tag) IN
  CASE tag.type \notin Adapters -> "no adapter"
    [] tag.type \in Adapters /\ r.errors # {} -> "error"
    [] OTHER -> IF r.selected = <<>> THEN "no destination"
                ELSE IF DestinationErrors(Destinations[Head(r.selected)]) # {} THEN "raised"
                ELSE IF tag.type = "ga4" /\ ~tag.object THEN "no object"
                ELSE "built"

PreviewTag ==
  /\ phase = "tags" /\ Len(trace) < Len(Tags)
  /\ LET tag == Tags[Len(trace) + 1]
         why == BlockedReason(tag)
     IN trace' = Append(trace, [why |-> why,
                                result |-> IF why = "none" THEN BuildResult(tag) ELSE "not built"])
  /\ UNCHANGED <<payload, event, other, layers, report, consent, matched, phase>>

Next == Validate \/ ResolveConsent \/ MatchTriggers \/ PreviewTag

Spec == Init /\ [][Next]_vars

\* _trigger_event_names: the names a trigger is listed under.
TriggerEventNames(t) ==
  CASE t.type \in {"page_view", "route_change"} -> {"page_view"}
    [] t.type = "custom_event" -> EventNames(t.conditions)
    [] t.type \in {"click", "link_click"} -> {"click"}
    [] t.type \in {"form_submit", "consent_change"} -> {t.type}
    [] OTHER -> {}

\* _build_event_index, turned round: the names one tag is listed under.
IndexNames(tag) ==
  IF ~tag.enabled THEN {}
  ELSE (IF tag.event = "none" THEN {} ELSE {tag.event})
         \cup UNION {TriggerEventNames(payload.triggers[i]) :
                       i \in {j \in ToSet(tag.triggers) \cap DOMAIN payload.triggers :
                                payload.triggers[j].enabled}}

\* The purposes the public document asks for an event name.
IndexPurposes(name) ==
  {Tags[i].purpose : i \in {j \in DOMAIN Tags : name \in IndexNames(Tags[j])}} \ {NoPurpose}

-----------------------------------------------------------------------------
(* Properties.                                                             *)

\* A payload that passed the validation never makes an adapter raise or miss its
\* reference: what is left to fail is a destination that is switched off, and GA4
\* parameters that are no object, which the validation does not look at.
ValidNeverRaises ==
  report = {} /\ phase = "tags" =>
    \A i \in DOMAIN trace : trace[i].result \notin {"raised", "error", "no adapter"}

\* The condition names the events it is about: no branch holds for a name that
\* it does not mention.
RECURSIVE Named(_)
Named(c) ==
  CASE c.op \in {"equals", "in"} -> TRUE
    [] c.op = "all" -> \E i \in DOMAIN c.conditions : Named(c.conditions[i])
    [] c.op = "any" -> \A i \in DOMAIN c.conditions : Named(c.conditions[i])
    [] OTHER -> FALSE

\* The public document lists a custom event for every tag that a trigger which names
\* its events would fire on it, with the purpose of that tag: an SDK that holds
\* the listed purposes has consent for all of those tags.
IndexCoversNamed ==
  \A i \in DOMAIN trace :
    LET tag == Tags[i]
        why == {t \in ToSet(tag.triggers) \cap matched :
                  payload.triggers[t].type = "custom_event" /\ Named(payload.triggers[t].conditions)}
    IN tag.enabled /\ why # {} =>
         /\ event.name \in IndexNames(tag)
         /\ tag.purpose # NoPurpose => tag.purpose \in IndexPurposes(event.name)
=============================================================================
