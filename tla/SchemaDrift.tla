----------------------------- MODULE SchemaDrift ----------------------------
(***************************************************************************)
(* diff_dictionaries of dictionary/schema_drift.py: what changed between   *)
(* two data dictionaries, and which fields may have been renamed.  A       *)
(* variable is [source, event, leaf, rank, share]: the event is the first  *)
(* part of its path and the leaf the last, rank is the place of its path   *)
(* in the order of paths, share maps the types seen to percentages.        *)
(* Similarity of two leaf names is external: difflib's ratio, in percent.  *)
(***************************************************************************)
EXTENDS Naturals, Sequences, FiniteSets, SequencesExt

CONSTANT Similarity(_, _)

Key(v) == <<v.source, v.event, v.leaf, v.rank>>
Keys(d) == {Key(v) : v \in d}

Share(v, t) == IF t \in DOMAIN v.share THEN v.share[t] ELSE 0

\* A type whose share moved by five percent; nothing is said of a variable that
\* one side never saw with a value.
TypeShift(old, new) ==
  /\ DOMAIN old.share # {} /\ DOMAIN new.share # {}
  /\ \E t \in DOMAIN old.share \cup DOMAIN new.share :
       Share(old, t) >= Share(new, t) + 5 \/ Share(new, t) >= Share(old, t) + 5

SameTypes(v, w) == DOMAIN v.share = DOMAIN w.share /\ DOMAIN v.share # {}

Score(v, w) == Similarity(v.leaf, w.leaf) + (IF SameTypes(v, w) THEN 20 ELSE 0)

Candidate(v, w) == v.event = w.event /\ (Similarity(v.leaf, w.leaf) >= 50 \/ SameTypes(v, w))

Fields(d) == SetToSortSeq({v \in d : v.source = "datalayer_field"}, LAMBDA v, w : v.rank < w.rank)

\* The best new field that no earlier old one has claimed; the first one of a draw.
Best(old, added, claimed) ==
  LET open == SelectSeq(added, LAMBDA w : w \notin claimed /\ Candidate(old, w))
      top == {i \in DOMAIN open : \A j \in DOMAIN open : Score(old, open[j]) <= Score(old, open[i])}
  IN IF open = <<>> THEN {} ELSE {open[Min(top)]}

PossibleRenames(removed, added) ==
  LET Claim(pairs, old) == pairs \cup {<<old, w>> : w \in Best(old, Fields(added), {p[2] : p \in pairs})}
  IN FoldLeft(Claim, {}, Fields(removed))

DiffDictionaries(old, new) ==
  LET added == {v \in new : Key(v) \notin Keys(old)}
      removed == {v \in old : Key(v) \notin Keys(new)}
  IN [added |-> added, removed |-> removed,
      shifts |-> {<<v, w>> \in old \X new : Key(v) = Key(w) /\ TypeShift(v, w)},
      renames |-> PossibleRenames(removed, added)]

\* The report lists a renamed field under the renames only.
RenderDriftReport(drift) ==
  [drift EXCEPT !.added = @ \ {p[2] : p \in drift.renames},
                !.removed = @ \ {p[1] : p \in drift.renames}]

HasChanges(drift) == \E f \in DOMAIN drift : drift[f] # {}

-----------------------------------------------------------------------------
(* Properties *)

\* The report accounts for every field once: what appeared and what disappeared is
\* added, removed or half of one rename, renames stay within the dataLayer fields of
\* an event, none is missed while both halves are free, and dictionaries that are
\* the same have no drift.
DriftAccountsForAll(old, new) ==
  LET drift == DiffDictionaries(old, new)
      report == RenderDriftReport(drift)
      from == {p[1] : p \in report.renames}
      to == {p[2] : p \in report.renames}
  IN /\ Cardinality(from) = Cardinality(report.renames) /\ Cardinality(to) = Cardinality(report.renames)
     /\ from \cup report.removed = {v \in old : Key(v) \notin Keys(new)} /\ from \cap report.removed = {}
     /\ to \cup report.added = {v \in new : Key(v) \notin Keys(old)} /\ to \cap report.added = {}
     /\ \A p \in report.renames : p[1].event = p[2].event /\ {p[1].source, p[2].source} = {"datalayer_field"}
     /\ \A v \in report.removed, w \in report.added :
          ~(v.source = "datalayer_field" /\ w.source = "datalayer_field" /\ Candidate(v, w))
     /\ old = new => ~HasChanges(drift)
     /\ ~HasChanges(drift) => Keys(old) = Keys(new)
=============================================================================
