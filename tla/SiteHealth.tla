----------------------------- MODULE SiteHealth -----------------------------
(***************************************************************************)
(* What diagnose --site-wide says of a crawl (sitewide/aggregation.py,     *)
(* anomalies.py and interaction_consistency.py).  A journey is [page,      *)
(* event, status, stages, id, selector]: id is the container or            *)
(* measurement identifier its requests carry, or None.  Templates are sets *)
(* of crawled pages; the page of a journey is the address the browser      *)
(* showed, which need not be one that was crawled.                         *)
(***************************************************************************)
EXTENDS Naturals, Sequences, FiniteSets, SequencesExt

CONSTANT None

On(journeys, page) == {i \in DOMAIN journeys : journeys[i].page = page}
Of(journeys, template) == {i \in DOMAIN journeys : journeys[i].page \in template}
Among(journeys, is, status) == Cardinality({i \in is : journeys[i].status = status})

\* Python rounds half to even.
Round(n, d) ==
  LET q == n \div d
      r == n % d
  IN CASE 2 * r < d -> q [] 2 * r > d -> q + 1 [] OTHER -> q + (q % 2)

(* Health *)

\* Healthy journeys count fully, warnings half.
TemplateScore(journeys, template) ==
  LET is == Of(journeys, template)
  IN IF is = {} THEN 100
     ELSE Round(200 * Among(journeys, is, "healthy") + 100 * Among(journeys, is, "warning"), 2 * Cardinality(is))

\* The scores of the templates, weighted by their journeys, over all journeys.
OverallScore(journeys, templates) ==
  IF journeys = <<>> THEN 100
  ELSE Round(MapThenSumSet(LAMBDA t : TemplateScore(journeys, t) * Cardinality(Of(journeys, t)), templates),
             Len(journeys))

Passes(journeys, page, event) ==
  \E i \in On(journeys, page) : journeys[i].event = event /\ journeys[i].status = "healthy"

\* Events seen on a fifth of the pages and on two, that more pages pass than fail.
Regressions(journeys, template) ==
  {e \in {journeys[i].event : i \in Of(journeys, template)} :
     LET with == {p \in template : \E i \in On(journeys, p) : journeys[i].event = e}
         passing == {p \in template : Passes(journeys, p, e)}
         failing == Cardinality(template) - Cardinality(passing)
     IN /\ 5 * Cardinality(with) >= Cardinality(template) /\ Cardinality(with) >= 2
        /\ failing > 0 /\ Cardinality(passing) > failing}

(* Anomalies *)

Count(journeys, page, event) == Cardinality({i \in On(journeys, page) : journeys[i].event = event})

\* Pages that fire an event at least three times and three times the average of
\* the pages that fire it at all.
Repetitions(journeys, template, event) ==
  LET firing == {p \in template : Count(journeys, p, event) > 0}
      sum == MapThenSumSet(LAMBDA p : Count(journeys, p, event), firing)
      n == Cardinality(firing)
  IN IF n < 2 THEN {}
     ELSE {p \in template : Count(journeys, p, event) >= 3 /\ n * Count(journeys, p, event) >= 3 * sum}

IdsOf(journeys, page) == {journeys[i].id : i \in On(journeys, page)} \ {None}
Users(journeys, template, id) == {p \in template : id \in IdsOf(journeys, p)}

\* Identifiers most pages of the template use; the first one counted wins a draw.
Majorities(journeys, template) ==
  LET ids == UNION {IdsOf(journeys, p) : p \in template}
  IN {m \in ids : \A id \in ids : Cardinality(Users(journeys, template, id))
                                    <= Cardinality(Users(journeys, template, m))}

ConfigDrift(journeys, template, majority) ==
  IF Cardinality(UNION {IdsOf(journeys, p) : p \in template}) < 2 THEN {}
  ELSE {p \in template : IdsOf(journeys, p) # {} /\ majority \notin IdsOf(journeys, p)}

(* The same business action on several pages *)

Fired(j) == j.stages \cap {"datalayer", "gtm"} # {}

\* recs are [page, selector, objective]; the last journey of a page and selector
\* is the one compared.
ImplementationOf(journeys, rec) ==
  LET is == {i \in DOMAIN journeys : journeys[i].page = rec.page /\ journeys[i].selector = rec.selector}
  IN IF is # {} /\ Fired(journeys[Max(is)]) THEN {journeys[Max(is)].event} ELSE {}

EventNames(journeys, recs, objective) ==
  UNION {ImplementationOf(journeys, r) : r \in {r \in recs : r.objective = objective}}

\* Objectives with more than one recommendation, and more than one name fired.
Inconsistent(journeys, recs) ==
  {o \in {r.objective : r \in recs} :
     /\ Cardinality({r \in recs : r.objective = o}) > 1
     /\ Cardinality(EventNames(journeys, recs, o)) > 1}

-----------------------------------------------------------------------------
(* Properties *)

\* When all journeys are on crawled pages, the score of the site lies between the
\* scores of its templates, and however the site is divided into templates it is at
\* most one point off the mean of the journeys: it is rounded twice, so that 100 does
\* not mean that nothing is wrong, only that no more than a hundredth is lost.
ScoresAgree(journeys, templates) ==
  LET scored == {t \in templates : Of(journeys, t) # {}}
      scores == {TemplateScore(journeys, t) : t \in scored}
      overall == OverallScore(journeys, templates)
      all == DOMAIN journeys
      n == 2 * Len(journeys)
      mean == 200 * Among(journeys, all, "healthy") + 100 * Among(journeys, all, "warning")
  IN journeys # <<>> /\ (\A i \in DOMAIN journeys : journeys[i].page \in UNION templates) =>
       /\ Min(scores) <= overall /\ overall <= Max(scores)
       /\ n * overall <= mean + n /\ mean <= n * overall + n

\* An outlier is a minority: fewer than half of the pages are said to lack an event
\* the others have, at most a third to repeat one, and no page to drift from an
\* identifier that fewer pages use than its own.
OutliersAreFew(journeys, templates) ==
  \A t \in templates :
    /\ \A e \in Regressions(journeys, t) : 2 * Cardinality({p \in t : ~Passes(journeys, p, e)}) < Cardinality(t)
    /\ \A e \in {journeys[i].event : i \in DOMAIN journeys} :
         3 * Cardinality(Repetitions(journeys, t, e)) <= Cardinality({p \in t : Count(journeys, p, e) > 0})
    /\ \A m \in Majorities(journeys, t), p \in t : p \in ConfigDrift(journeys, t, m) =>
         \A id \in IdsOf(journeys, p) :
           Cardinality(Users(journeys, t, id)) <= Cardinality(Users(journeys, t, m))

\* How often a page has a journey like the i-th one.
Copies(journeys, page, i) ==
  Cardinality({k \in On(journeys, page) : [journeys[k] EXCEPT !.page = None] = [journeys[i] EXCEPT !.page = None]})

\* A healthy site is quiet: when every page of a template has the same healthy
\* journeys, the same number of times, nothing is reported of it.
UniformIsQuiet(journeys, templates) ==
  \A t \in templates :
    (\A i \in Of(journeys, t) : journeys[i].status = "healthy")
    /\ (\A p, q \in t, i \in Of(journeys, t) : Copies(journeys, p, i) = Copies(journeys, q, i))
    => /\ TemplateScore(journeys, t) = 100
       /\ Regressions(journeys, t) = {}
       /\ \A e \in {journeys[i].event : i \in Of(journeys, t)} : Repetitions(journeys, t, e) = {}
       /\ \A m \in Majorities(journeys, t) : ConfigDrift(journeys, t, m) = {}

\* Two names are called inconsistent only if both were fired for that objective.
InconsistencyWasSeen(journeys, recs) ==
  \A o \in Inconsistent(journeys, recs) :
    \E i, j \in DOMAIN journeys :
      /\ journeys[i].event # journeys[j].event /\ Fired(journeys[i]) /\ Fired(journeys[j])
      /\ \E r, s \in recs : /\ r.objective = o /\ s.objective = o
                            /\ journeys[i].page = r.page /\ journeys[j].page = s.page
=============================================================================
