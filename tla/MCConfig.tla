------------------------------ MODULE MCConfig ------------------------------
(***************************************************************************)
(* Configurations for TLC: the glob matcher, the resolution of variables,  *)
(* the validation and preview of a payload and its export to PyTagShield,  *)
(* side by side.  part says which of them a behaviour is about; the        *)
(* matcher and the resolver stay in an initial state while it is about     *)
(* another one.                                                            *)
(***************************************************************************)
EXTENDS Glob, Variables

CONSTANTS v1, v2, v3, unknown, NoPurpose

VARIABLES
  part,
  payload, event, other, layers, report, consent, matched, trace, phase,  \* the preview
  resolver, done, entries, routes, errors                              \* the export (and payload)

(* Variables: sources with and without a value, every expression of one or two references. *)

Plain(source, default, fits, sensitive, enabled) ==
  [source |-> source, op |-> "none", args |-> <<>>, default |-> default, fits |-> fits,
   sensitive |-> sensitive, enabled |-> enabled]

Computed(op, args, default) ==
  [source |-> "computed", op |-> op, args |-> args, default |-> default, fits |-> TRUE,
   sensitive |-> FALSE, enabled |-> TRUE]

Ids == {v1, v2, v3}
SomeOrders == {<<v1, v2, v3>>, <<v3, v2, v1>>}

SomeDefinitions ==
  {Plain("present", FALSE, TRUE, FALSE, TRUE), Plain("present", FALSE, TRUE, TRUE, TRUE),
   Plain("absent", FALSE, TRUE, FALSE, TRUE), Plain("absent", TRUE, TRUE, TRUE, TRUE),
   Plain("present", FALSE, FALSE, FALSE, TRUE), Plain("present", FALSE, TRUE, TRUE, FALSE)}
    \cup {Computed(op, <<a>>, FALSE) : op \in {"coalesce", "concat"}, a \in Ids \cup {unknown}}
    \cup {Computed("convert", <<a>>, FALSE) : a \in Ids}
    \cup {Computed(op, <<a, b>>, op = "coalesce") : op \in {"coalesce", "concat"}, a, b \in Ids}

(* Conditions: leaves on the event name and on other fields, nested once. *)

Leaf(op, values) == [op |-> op, value |-> values, conditions |-> <<>>]
Node(op, children) == [op |-> op, value |-> {}, conditions |-> children]

Leaves == {Leaf("equals", {"a"}), Leaf("equals", {"b"}), Leaf("in", {"a", "b"}),
           Leaf("matches_glob", {"*"}), Leaf("other", {})}

ConditionsOver(leaves) ==
  leaves \cup {Node("all", <<>>), Node("any", <<>>)}
    \cup {Node("not", <<l>>) : l \in leaves}
    \cup {Node(op, <<l, m>>) : op \in {"all", "any"}, l, m \in leaves}
SomeConditions == ConditionsOver(Leaves)

Trigger(conditions, type, enabled) == [type |-> type, enabled |-> enabled, conditions |-> conditions]

(* Payloads to validate and preview. *)

Dest(kind, complete, enabled) == [kind |-> kind, complete |-> complete, enabled |-> enabled]

\* Every condition, with tags that fire on it.
OverConditions ==
  {[tags |-> <<[type |-> "ga4", event |-> "b", purpose |-> "ads", enabled |-> e, dests |-> <<1>>,
                object |-> TRUE, triggers |-> ts]>>,
    triggers |-> <<Trigger(c, ty, TRUE), Trigger(Leaf("equals", {"b"}), "custom_event", f)>>,
    destinations |-> <<Dest("ga4", TRUE, TRUE)>>] :
      e, f \in BOOLEAN, ts \in {<<>>, <<1>>, <<2, 1>>}, c \in SomeConditions,
      ty \in {"custom_event", "click", "dom_condition"}}

\* Every way a tag and its destinations can fit or not.
OverDestinations ==
  {[tags |-> <<[type |-> ty, event |-> ev, purpose |-> NoPurpose, enabled |-> TRUE, dests |-> ds,
                object |-> ob, triggers |-> ts]>>,
    triggers |-> <<Trigger(Node("all", <<>>), "custom_event", TRUE)>>,
    destinations |-> <<d, e>>] :
      ty \in {"ga4", "segment", "unheard"}, ev \in {"none", "a"}, ob \in BOOLEAN,
      ds \in {<<>>, <<1>>, <<2, 1>>, <<1, 3>>}, ts \in {<<1>>, <<1, 2>>},
      d, e \in {Dest(k, c, f) : k \in {"ga4", "segment"}, c, f \in BOOLEAN}}

SomeEvents ==
  {[name |-> n, type |-> "custom_event"] : n \in {"a", "b", "c"}} \cup {[name |-> "a", type |-> "click"]}

\* Two layers speak: the defaults and the event, or the stored consent and the override.
Says(p) == [q \in {"ads"} |-> p]
SomeLayerings ==
  {<<Says("unset"), Says("granted"), Says("unset"), Says("denied")>>}
    \cup {<<Says(x), Says("unset"), Says(y), Says("unset")>> :
            x \in {"unset", "granted"}, y \in {"unset", "granted", "denied"}}

(* Payloads to export. *)

\* A comparison with a star is a comparison, but becomes a pattern.
ExportConditions == ConditionsOver(Leaves \cup {Leaf("equals", {"*"})})

\* One tag with any trigger, and a second trigger that is plain, mixed or off.
OneTag ==
  {[tags |-> <<[purpose |-> "ads", enabled |-> TRUE, dests |-> <<1>>, triggers |-> used]>>,
    triggers |-> <<Trigger(c, t, TRUE), second>>,
    destinations |-> <<[kind |-> "log", complete |-> TRUE, credential |-> "none", name |-> "d"]>>] :
     used \in {<<1>>, <<2, 1>>, <<1, 3>>}, c \in ExportConditions,
     t \in {"page_view", "custom_event", "dom_condition"},
     second \in {Trigger(d, "custom_event", e) : d \in {Leaf("equals", {"b"}), Leaf("other", {})},
                                                e \in BOOLEAN}}

\* Everything that can be wrong with a destination, two tags and a plain trigger.
TwoTags ==
  {[tags |-> <<a, b>>, triggers |-> <<Trigger(Leaf("equals", {"a"}), "custom_event", TRUE)>>,
    destinations |-> <<d, e>>] :
     a, b \in [purpose : {"ads", "none"}, enabled : {TRUE},
               dests : {<<>>, <<1>>, <<2, 1>>, <<3>>}, triggers : {<<1>>}],
     d \in [kind : {"log", "ga4", "webhook", "segment"}, complete : BOOLEAN,
            credential : {"ref", "literal", "none"}, name : {"d"}],
     e \in [kind : {"log", "posthog"}, complete : {TRUE}, credential : {"ref"}, name : {"d", "e"}]}

-----------------------------------------------------------------------------
P == INSTANCE Preview WITH
       Payloads <- OverConditions \cup OverDestinations, Events <- SomeEvents,
       Purposes <- {"ads"}, Layerings <- SomeLayerings

X == INSTANCE ShieldExport WITH
       Names <- {"a", "b", "page_view", "*"},
       Types <- {"page_view", "custom_event", "click"}, Payloads <- OneTag \cup TwoTags,
       Resolvers <- {"absent", "answers", "raises", "empty"}

ASSUME Parameters ==
  GlobAssumption /\ VariablesAssumption /\ P!PreviewAssumption /\ X!ExportAssumption

previewVars == <<event, other, layers, report, consent, matched, trace, phase>>
exportVars == <<resolver, done, entries, routes, errors>>
vars == <<part, globVars, resolverVars, payload, previewVars, exportVars>>

NoGlob == pattern = <<>> /\ value = <<>> /\ GlobInit
NoVariables == /\ def = [v \in Vars |-> Plain("absent", FALSE, TRUE, FALSE, TRUE)]
               /\ order = <<v1, v2, v3>> /\ ResolverInit
NoPreview == /\ event = 0 /\ other = 0 /\ layers = 0 /\ report = 0 /\ consent = 0
             /\ matched = 0 /\ trace = 0 /\ phase = 0
NoExport == resolver = 0 /\ done = 0 /\ entries = 0 /\ routes = 0 /\ errors = 0

Init ==
  \/ part = "glob" /\ GlobInit /\ NoVariables /\ payload = 0 /\ NoPreview /\ NoExport
  \/ part = "variables" /\ ResolverInit /\ NoGlob /\ payload = 0 /\ NoPreview /\ NoExport
  \/ part = "preview" /\ P!Init /\ NoGlob /\ NoVariables /\ NoExport
  \/ part = "export" /\ X!Init /\ NoGlob /\ NoVariables /\ NoPreview

Next ==
  \/ part = "glob" /\ GlobNext /\ UNCHANGED <<part, resolverVars, payload, previewVars, exportVars>>
  \/ part = "variables" /\ ResolverNext /\ UNCHANGED <<part, globVars, payload, previewVars, exportVars>>
  \/ part = "preview" /\ P!Next /\ UNCHANGED <<part, globVars, resolverVars, exportVars>>
  \/ part = "export" /\ X!Next /\ UNCHANGED <<part, globVars, resolverVars, previewVars>>

Spec == Init /\ [][Next]_vars

-----------------------------------------------------------------------------
(* What the run checks: MatchesAsMeant of Glob, ResolutionSound of Variables, and *)
(* the properties of the other parts, as their modules state them.                *)

\* What a payload is turned into covers it: the preview of a payload that validates
\* raises nothing and looks at every tag the event can fire; and an exported route
\* sends no event that would not have fired its tag, but for events of another type
\* and for names with a star, and none under another purpose than its tag's.
PayloadCarriedOver ==
  /\ part = "preview" => P!ValidNeverRaises /\ P!IndexCoversNamed
  /\ part = "export" => X!NeverBroadens /\ X!ConsentKept
=============================================================================
