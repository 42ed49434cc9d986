----------------------------- MODULE Conditions -----------------------------
(***************************************************************************)
(* The condition trees of triggers (control/conditions.py) and what is     *)
(* read from them: their value for an event, the event names a public      *)
(* document lists for them, the patterns PyTagShield is given.             *)
(*                                                                         *)
(* A node is [op, value, conditions].  A leaf on event.name holds a set of *)
(* names; "*" is a legal name and, as a glob, the one that matches every   *)
(* name (see Glob for patterns at large).  A leaf on anything else has op  *)
(* "other".                                                                *)
(***************************************************************************)
EXTENDS Naturals, Sequences, FiniteSets

\* pattern_matches, for the patterns above.
Match(pattern, name) == pattern = "*" \/ pattern = name

Logical == {"all", "any", "not"}
OnName == {"equals", "in", "matches_glob"}

\* _validate: the shape of a tree, with the bound on its depth.
RECURSIVE WellFormed(_, _)
WellFormed(c, depth) ==
  /\ depth >= 0
  /\ c.op \in Logical \cup OnName \cup {"other"}
  /\ c.op = "equals" => Cardinality(c.value) = 1
  /\ c.op = "not" => Len(c.conditions) = 1
  /\ c.op \notin Logical => c.conditions = <<>>
  /\ \A i \in DOMAIN c.conditions : WellFormed(c.conditions[i], depth - 1)

\* evaluate_condition for an event name; other is what the other leaves say.
RECURSIVE Holds(_, _, _)
Holds(c, name, other) ==
  CASE c.op \in {"equals", "in"} -> name \in c.value
    [] c.op = "matches_glob" -> \E p \in c.value : Match(p, name)
    [] c.op = "all" -> \A i \in DOMAIN c.conditions : Holds(c.conditions[i], name, other)
    [] c.op = "any" -> \E i \in DOMAIN c.conditions : Holds(c.conditions[i], name, other)
    [] c.op = "not" -> ~Holds(c.conditions[1], name, other)
    [] c.op = "other" -> other

\* _event_names_from_condition: the names a condition mentions.
RECURSIVE EventNames(_)
EventNames(c) ==
  IF c.op \in Logical THEN UNION {EventNames(c.conditions[i]) : i \in DOMAIN c.conditions}
  ELSE IF c.op \in {"equals", "in"} THEN c.value ELSE {}

Unsupported == {"unsupported"}
AnyName == {"any name"}

\* Mutant of PatternsFromCondition: the children of all are united.
RECURSIVE PatternsUnited(_)
PatternsUnited(c) ==
  LET children == {PatternsUnited(c.conditions[i]) : i \in DOMAIN c.conditions} IN
  CASE c.op \in OnName -> c.value
    [] c.op \in {"all", "any"} ->
         IF children = {} THEN (IF c.op = "all" THEN AnyName ELSE Unsupported)
         ELSE IF Unsupported \in children \/ AnyName \in children THEN Unsupported
         ELSE UNION children
    [] OTHER -> Unsupported

\* _patterns_from_condition: the event names a condition asks for, AnyName where
\* it asks for none, Unsupported where it asks for something else.
RECURSIVE PatternsFromCondition(_)
PatternsFromCondition(c) ==
  LET children == {PatternsFromCondition(c.conditions[i]) : i \in DOMAIN c.conditions}
      common == {p \in UNION children : \A s \in children : p \in s}
      mixed == Unsupported \in children \/ AnyName \in children
  IN CASE c.op \in OnName -> c.value
       [] c.op = "all" /\ children = {} -> AnyName
       [] c.op = "all" /\ children # {} -> IF mixed \/ common = {} THEN Unsupported ELSE common
       [] c.op = "any" /\ children # {} -> IF mixed THEN Unsupported ELSE UNION children
       [] OTHER -> Unsupported
=============================================================================
