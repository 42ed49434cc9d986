---------------------------- MODULE ShieldExport ----------------------------
(***************************************************************************)
(* project_to_pytagshield of control/pytagshield.py: a managed payload is  *)
(* projected onto PyTagShield destinations and routes, tag by tag.         *)
(*                                                                         *)
(* An event is its name and type; see Conditions for the conditions of     *)
(* triggers.                                                               *)
(***************************************************************************)
EXTENDS Conditions, SequencesExt

CONSTANTS
  Names,         \* event names
  Types,         \* types of events
  Payloads,      \* the payloads to project
  Resolvers      \* what the secret resolver may do

VARIABLES
  payload,   \* [tags, triggers, destinations]: sequences of
             \*   [purpose, enabled, dests, triggers], the last two by number,
             \*   [type, enabled, conditions] and [kind, complete, credential, name]
  resolver,
  done,      \* tags projected
  entries,   \* shield_destinations: [alias, dest, purpose]
  routes,    \* [tag, aliases, enabled, events]
  errors     \* codes of the issues with severity error

vars == <<payload, resolver, done, entries, routes, errors>>

ExportAssumption ==
  /\ "*" \in Names
  /\ \A p \in Payloads : \A i \in DOMAIN p.triggers : WellFormed(p.triggers[i].conditions, 32)
  /\ Resolvers \subseteq {"absent", "answers", "raises", "empty"}

\* _trigger_patterns: a page view trigger may do without a name.
TriggerPatterns(t) ==
  LET p == PatternsFromCondition(t.conditions) IN
  IF p # AnyName THEN p ELSE IF t.type = "page_view" THEN {"page_view"} ELSE Unsupported

Init ==
  /\ payload \in Payloads
  /\ resolver \in Resolvers
  /\ done = 0 /\ entries = {} /\ routes = {} /\ errors = {}

\* _secret: a reference is resolved by the callback, a literal is taken as it is.
SecretError(d) ==
  CASE d.credential = "ref" -> IF resolver = "answers" THEN {} ELSE {"secret_" \o resolver}
    [] d.credential = "literal" -> {}
    [] d.credential = "none" -> {"credential_missing"}

\* _destination_settings: why a destination has no projection, {} when it has one.
SettingsError(d) ==
  CASE d.kind \in {"log", "debug"} -> {}
    [] d.kind \in {"sgtm", "webhook", "http_webhook"} ->
         IF d.complete THEN {} ELSE {"setting_missing"}
    [] d.kind \in {"ga4", "posthog", "meta"} ->
         IF d.complete THEN SecretError(d) ELSE {"setting_missing"}
    [] OTHER -> {"destination_kind_unsupported"}

Dest(i) == payload.destinations[i]
Tag == payload.tags[done + 1]
Known(i) == i \in DOMAIN payload.destinations

\* aliases.get: the entry of a destination for a purpose.
EntryFor(i, purpose, table) == {x \in table : x.dest = i /\ x.purpose = purpose}

\* _alias_name: the name and purpose where they are free, and otherwise more.
AliasName(i, purpose, table) ==
  LET base == <<Dest(i).name, purpose>> IN
  IF \A x \in table : x.alias # base THEN base ELSE Append(base, i)

\* The entries after the destinations of a tag were projected, in order.
WithEntries(tag) ==
  FoldLeft(LAMBDA table, i :
             IF Known(i) /\ EntryFor(i, tag.purpose, table) = {} /\ SettingsError(Dest(i)) = {}
               THEN table \cup {[alias |-> AliasName(i, tag.purpose, table),
                                 dest |-> i, purpose |-> tag.purpose]}
               ELSE table, entries, tag.dests)

\* What is wrong with the destinations and the triggers of a tag.
DestinationErrors(tag) ==
  (IF tag.dests = <<>> THEN {"tag_without_destination"} ELSE {})
    \cup UNION {IF ~Known(i) THEN {"destination_missing"} ELSE SettingsError(Dest(i)) :
                  i \in Range(tag.dests)}

EnabledTriggers(tag) ==
  {payload.triggers[i] : i \in {j \in Range(tag.triggers) \cap DOMAIN payload.triggers :
                                  payload.triggers[j].enabled}}

\* The patterns of a tag's enabled triggers.
Patterns(tag) == UNION {TriggerPatterns(t) : t \in EnabledTriggers(tag)} \ Unsupported

TriggerErrors(tag) ==
  (IF Range(tag.triggers) \subseteq DOMAIN payload.triggers THEN {} ELSE {"trigger_missing"})
    \cup (IF \E t \in EnabledTriggers(tag) : TriggerPatterns(t) = Unsupported
            THEN {"trigger_not_projectable"} ELSE {})
    \cup (IF Patterns(tag) = {} THEN {"event_name_unresolved"} ELSE {})

\* One tag: its entries stay even when the tag itself gets no route.
ProjectTag ==
  /\ done < Len(payload.tags)
  /\ done' = done + 1
  /\ entries' = WithEntries(Tag)
  /\ LET found == DestinationErrors(Tag) \cup TriggerErrors(Tag) IN
       /\ errors' = errors \cup found
       /\ routes' = IF found # {} THEN routes
            ELSE routes \cup
              {[tag |-> done + 1, enabled |-> Tag.enabled, events |-> Patterns(Tag),
                aliases |-> {(CHOOSE x \in EntryFor(i, Tag.purpose, WithEntries(Tag)) : TRUE).alias :
                               i \in Range(Tag.dests)}]}
  /\ UNCHANGED <<payload, resolver>>

\* The whole: an export without routes is an error.
Conclude ==
  /\ done = Len(payload.tags)
  /\ done' = done + 1
  /\ errors' = IF routes = {} THEN errors \cup {"no_exportable_routes"} ELSE errors
  /\ UNCHANGED <<payload, resolver, entries, routes>>

Next == ProjectTag \/ Conclude

Spec == Init /\ [][Next]_vars

-----------------------------------------------------------------------------
(* Properties.                                                             *)

\* The conditions of a trigger hold; some types of triggers ask for no type of event.
Meets(t, name, other) == Holds(t.conditions, name, other)
TypeMatches(t, type) == t.type \in {"dom_condition", "variable_condition"} \/ t.type = type

\* An event the tag is meant for: one of its enabled triggers fires on it (preview_event).
Fires(tag, name, type, other) ==
  \E t \in EnabledTriggers(tag) : TypeMatches(t, type) /\ Meets(t, name, other)

\* What the projection does not carry over: the type of event a trigger is for, and
\* that the star of a comparison is a star.
TypeLost(tag, name, type, other) ==
  \E t \in EnabledTriggers(tag) : ~TypeMatches(t, type) /\ Meets(t, name, other)
StarBecomesPattern(tag) ==
  \E t \in EnabledTriggers(tag) : "*" \in EventNames(t.conditions) \cap TriggerPatterns(t)

\* "a partial export can never broaden delivery" (docstring of the module), as far as
\* it goes: an event a route matches fires the tag of the route, whatever else is the
\* case, unless it meets the conditions of a trigger for another type of event, or
\* a trigger compares the name with one that PyTagShield reads as a pattern.
NeverBroadens ==
  \A r \in routes, name \in Names, type \in Types, other \in BOOLEAN :
    LET tag == payload.tags[r.tag] IN
    (\E p \in r.events : Match(p, name)) =>
      Fires(tag, name, type, other) \/ TypeLost(tag, name, type, other) \/ StarBecomesPattern(tag)

\* "without weakening destination-level consent" (docs/architecture/
\* pytagshield-integration.md): every destination a route names is gated by the
\* purpose of the tag, and no alias means two destinations.
ConsentKept ==
  \A r \in routes : \A a \in r.aliases :
    /\ \A x \in entries : x.alias = a => x.purpose = payload.tags[r.tag].purpose
    /\ Cardinality({x \in entries : x.alias = a}) = 1
=============================================================================
