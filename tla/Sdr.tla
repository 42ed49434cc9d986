--------------------------------- MODULE Sdr --------------------------------
(***************************************************************************)
(* `diagnose --sdr`: a Solution Design Reference is loaded from rows       *)
(* (sdr/schema.py) and the journeys that were observed are judged by it    *)
(* (sdr/validate.py).                                                      *)
(*   row:     [event, page, selector, network, param, types, required,     *)
(*            allowed], an empty cell being None; a cell that says yes or  *)
(*            no may hold something else ("junk")                          *)
(*   journey: [selector, network, pushes], pushes being a sequence of      *)
(*            [event, page, payload]                                       *)
(*   payload: [own, nested]: values by key, and by path through objects    *)
(*   value:   [type, num, text]: num is what float() makes of it, or None, *)
(*            text what str() does                                         *)
(* Selectors are [name, quote], quote being the quotation mark they use.   *)
(***************************************************************************)
EXTENDS Naturals, Sequences, FiniteSets, SequencesExt

CONSTANT None

(* Loading *)

NewEvent == [page |-> None, selector |-> None, network |-> FALSE, params |-> [n \in {} |-> None]]

Events(s) == DOMAIN s.events
EventOf(s, name) == IF name \in Events(s) THEN s.events[name] ELSE NewEvent

Filled(value, default) == IF value = None THEN default ELSE value

AsBool(cell) == cell = "yes"

SupportedTypes == {"any", "string", "number", "integer", "boolean", "array", "object"}
Aliases == [str |-> "string", text |-> "string", float |-> "number", int |-> "integer",
            bool |-> "boolean", list |-> "array", dict |-> "object"]
Alias(t) == IF t \in DOMAIN Aliases THEN Aliases[t] ELSE t
Normalized(row) == {Alias(t) : t \in Filled(row.types, {"any"})}
Types(row) == IF "any" \in Normalized(row) \/ Normalized(row) = {} THEN {"any"} ELSE Normalized(row)

\* A row no event can be made of.
Malformed(row) ==
  \/ row.event = None
  \/ row.network = "junk"
  \/ row.param # None /\ (row.required = "junk" \/ ~(Normalized(row) \subseteq SupportedTypes))

\* An event says where it fires once; rows that repeat it must agree.
Conflict(event, row) ==
  \/ None \notin {row.page, event.page} /\ row.page # event.page
  \/ None \notin {row.selector, event.selector} /\ row.selector # event.selector
  \/ row.param \in DOMAIN event.params

Required(row) == AsBool(Filled(row.required, "yes"))

Parameter(row) ==
  [types |-> Types(row), required |-> Required(row), allowed |-> Filled(row.allowed, {})]

\* The last row that mentions the network request decides on it.
MergedRow(event, row) ==
  [page |-> Filled(row.page, event.page), selector |-> Filled(row.selector, event.selector),
   network |-> IF row.network = None THEN event.network ELSE AsBool(row.network),
   params |-> IF row.param = None THEN event.params
              ELSE [n \in DOMAIN event.params \cup {row.param} |->
                      IF n = row.param THEN Parameter(row) ELSE event.params[n]]]

MergeEvent(s, row) ==
  IF s.error THEN s
  ELSE IF Malformed(row) \/ Conflict(EventOf(s, row.event), row) THEN [s EXCEPT !.error = TRUE]
  ELSE [s EXCEPT !.events = [n \in Events(s) \cup {row.event} |->
          IF n = row.event THEN MergedRow(EventOf(s, n), row) ELSE s.events[n]]]

\* The events of the SDR by name, or None for a file that is refused.
SchemaFromRows(rows) ==
  LET s == FoldLeft(MergeEvent, [events |-> [n \in {} |-> None], error |-> FALSE], rows)
  IN IF s.error \/ Events(s) = {} THEN None ELSE s.events

(* Judging *)

\* A key of the payload, before a path with the same spelling.
Has(payload, name) == name \in DOMAIN payload.own \cup DOMAIN payload.nested
Lookup(payload, name) == IF name \in DOMAIN payload.own THEN payload.own[name] ELSE payload.nested[name]

MatchesType(v, types) ==
  \/ "any" \in types
  \/ v.type \in types
  \/ v.type = "integer" /\ "number" \in types

\* Booleans are equal to booleans only, numbers to what reads as the same number.
AllowedMatches(v, allowed) ==
  \/ allowed = {}
  \/ \E c \in allowed :
       CASE "boolean" \in {v.type, c.type} -> v = c
         [] "boolean" \notin {v.type, c.type} /\ v.type \in {"integer", "number"} -> v.num = c.num
         [] OTHER -> v.text = c.text

\* The query and the fragment of an address are not looked at.
SafePage(page) == IF page = None THEN None ELSE [page EXCEPT !.query = None]
NormalizeSelector(selector) == selector.name

Pushes(journey, event) == {i \in DOMAIN journey.pushes : journey.pushes[i].event = event}
Matches(journeys, event) == {k \in DOMAIN journeys : Pushes(journeys[k], event) # {}}

AllPushes(journeys, event) ==
  UNION {{<<k, i>> : i \in Pushes(journeys[k], event)} : k \in Matches(journeys, event)}
At(journeys, at) == journeys[at[1]].pushes[at[2]]

Check(kind, param, ok) == [kind |-> kind, param |-> param, ok |-> ok]

\* Mutant of ParameterResult: what is missing somewhere is not judged where it is.
ParameterResultComplete(name, p, payloads) ==
  LET present == {x \in payloads : Has(x, name)}
      values == {Lookup(x, name) : x \in present}
      missing == present # payloads
  IN (IF missing /\ ~p.required THEN {} ELSE {Check("present", name, ~missing)})
     \cup (IF missing THEN {}
           ELSE {Check("type", name, \A v \in values : MatchesType(v, p.types)),
                 Check("allowed", name, \A v \in values : AllowedMatches(v, p.allowed))})

ParameterResult(name, p, payloads) ==
  LET present == {x \in payloads : Has(x, name)}
      values == {Lookup(x, name) : x \in present}
      missing == present # payloads
  IN (IF missing /\ ~p.required THEN {} ELSE {Check("present", name, ~missing)})
     \cup (IF missing /\ present = {} THEN {}
           ELSE {Check("type", name, \A v \in values : MatchesType(v, p.types))}
                \cup (IF p.allowed = {} THEN {}
                      ELSE {Check("allowed", name, \A v \in values : AllowedMatches(v, p.allowed))}))

\* Where the event fired and from what.
PlaceConditions(name, spec, journeys) ==
  LET pages == {SafePage(At(journeys, a).page) : a \in AllPushes(journeys, name)} \ {None}
      anchored == {k \in Matches(journeys, name) : journeys[k].selector # None}
      selectors == {NormalizeSelector(journeys[k].selector) : k \in anchored}
      wanted == IF spec.selector = None THEN {} ELSE {NormalizeSelector(spec.selector)}
  IN {c \in {Check("page", spec.page, pages # {} /\ \A p \in pages : spec.page \in {p.path, p.query}),
             Check("selector", spec.selector, selectors = wanted)} : c.param # None}

\* A request was seen in one of its journeys, and no journey fired it twice.
DeliveryConditions(name, spec, journeys) ==
  LET matches == Matches(journeys, name)
  IN {Check("single", None, \A k \in matches : Cardinality(Pushes(journeys[k], name)) = 1)}
     \cup (IF spec.network THEN {Check("network", None, \E k \in matches : journeys[k].network)} ELSE {})

EventResult(name, spec, journeys) ==
  IF Matches(journeys, name) = {} THEN {Check("event", None, FALSE)}
  ELSE LET payloads == {At(journeys, a).payload : a \in AllPushes(journeys, name)}
       IN {Check("event", None, TRUE)}
          \cup PlaceConditions(name, spec, journeys) \cup DeliveryConditions(name, spec, journeys)
          \cup UNION {ParameterResult(n, spec.params[n], payloads) : n \in DOMAIN spec.params}

\* The checks of every event; an SDR is aligned when none of them failed.
ValidateSdr(schema, journeys) == [name \in DOMAIN schema |-> EventResult(name, schema[name], journeys)]

IsAligned(schema, journeys) == \A name \in DOMAIN schema : \A c \in ValidateSdr(schema, journeys)[name] : c.ok

-----------------------------------------------------------------------------
(* Properties *)

\* A push is as its event and the rows about it demand.
PushConforms(push, rows) ==
  \A r \in rows :
    /\ r.page # None => push.page = None \/ push.page.path = r.page
    /\ r.param # None =>
         IF ~Has(push.payload, r.param) THEN ~Required(r)
         ELSE LET v == Lookup(push.payload, r.param)
              IN MatchesType(v, Types(r)) /\ AllowedMatches(v, Filled(r.allowed, {}))

\* An SDR that is called aligned is aligned row by row and push by push: each row of
\* the file that was not refused is met by every push of its event, one a journey, in
\* whatever order rows and journeys came; nothing is judged on a sample or on the
\* last row only.
AlignedMeansConforming(rows, journeys) ==
  LET schema == SchemaFromRows(rows)
  IN schema # None /\ IsAligned(schema, journeys) =>
       \A name \in {r.event : r \in ToSet(rows)} :
         /\ Matches(journeys, name) # {}
         /\ \A k \in Matches(journeys, name) : Cardinality(Pushes(journeys[k], name)) = 1
         /\ \A a \in AllPushes(journeys, name) :
              PushConforms(At(journeys, a), {r \in ToSet(rows) : r.event = name})
         /\ \A r \in ToSet(rows) : r.event = name /\ r.selector # None =>
              \A k \in Matches(journeys, name) :
                journeys[k].selector # None => journeys[k].selector.name = r.selector.name
         /\ \A i \in DOMAIN rows :
              /\ rows[i].event = name /\ rows[i].network = "yes"
              /\ \A j \in i + 1 .. Len(rows) : rows[j].event = name => rows[j].network = None
              => \E k \in Matches(journeys, name) : journeys[k].network

\* A check found something wrong, and not just nothing: an event or a request that was
\* not seen, and a page or a selector no push told, may be there in the next journey.
FoundWrong(c, name, journeys) ==
  /\ ~c.ok /\ c.kind \notin {"event", "network"}
  /\ c.kind = "page" => \E a \in AllPushes(journeys, name) : At(journeys, a).page # None
  /\ c.kind = "selector" => \E k \in Matches(journeys, name) : journeys[k].selector # None

\* More evidence never hides a fault: what was found wrong with a parameter, a page, a
\* selector or the number of pushes in some journeys is wrong in all journeys that
\* include them.
FaultsStay(rows, journeys) ==
  LET schema == SchemaFromRows(rows)
      earlier == SubSeq(journeys, 1, Len(journeys) - 1)
  IN schema # None /\ journeys # <<>> =>
       \A name \in DOMAIN schema : \A c \in ValidateSdr(schema, earlier)[name] :
         FoundWrong(c, name, earlier) => c \in ValidateSdr(schema, journeys)[name]
=============================================================================
