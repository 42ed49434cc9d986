---------------------------- MODULE PageTemplates ---------------------------
(***************************************************************************)
(* detect_templates of sitewide/templates.py: crawled pages are grouped by *)
(* the pattern of their URL, and groups whose first pages look alike are   *)
(* merged.  A page is [path, count]: path is a sequence of segments [name, *)
(* kind] with kind "number", "dashed" or "plain", count says how many      *)
(* elements have each CSS class.                                           *)
(***************************************************************************)
EXTENDS Naturals, Sequences, FiniteSets, SequencesExt, Relation

\* A number or a UUID always stands for an item, a dashed last segment of a
\* deep path does.
IsDynamicSegment(path, i) ==
  \/ path[i].kind = "number"
  \/ (i = Len(path) /\ Len(path) >= 2 /\ path[i].kind = "dashed")

UrlTemplate(path) == [i \in DOMAIN path |-> IF IsDynamicSegment(path, i) THEN "{param}" ELSE path[i].name]

\* Classes of components recur on a page.
DomFingerprint(page) == {c \in DOMAIN page.count : page.count[c] >= 2}

\* Jaccard similarity of at least 0.6; two empty fingerprints are not alike.
Alike(a, b) == a # {} /\ b # {} /\ 5 * Cardinality(a \cap b) >= 3 * Cardinality(a \cup b)

\* The keys of the groups in the order of their first pages.
GroupKeys(pages) ==
  FoldLeft(LAMBDA keys, page : LET k == UrlTemplate(page.path)
                               IN IF Contains(keys, k) THEN keys ELSE Append(keys, k),
           <<>>, pages)

FirstPage(pages, key) == pages[Min({i \in DOMAIN pages : UrlTemplate(pages[i].path) = key})]

\* Mutant of Join: only the group itself moves.
JoinOne(merged, a, b) == [merged EXCEPT ![b] = merged[a]]

\* Every pair of groups in turn: if they look alike, the template of the second
\* becomes the template of the first, with all groups it had.
Join(merged, a, b) == [k \in DOMAIN merged |-> IF merged[k] = merged[b] THEN merged[a] ELSE merged[k]]

Pairs(n) == SetToSortSeq({<<i, j>> \in (1 .. n) \X (1 .. n) : i < j},
                         LAMBDA p, q : p[1] < q[1] \/ (p[1] = q[1] /\ p[2] < q[2]))

MergedInto(pages) ==
  LET keys == GroupKeys(pages)
      Step(merged, pair) ==
        LET a == keys[pair[1]]
            b == keys[pair[2]]
        IN IF merged[a] # merged[b]
              /\ Alike(DomFingerprint(FirstPage(pages, a)), DomFingerprint(FirstPage(pages, b)))
             THEN Join(merged, a, b) ELSE merged
  IN FoldLeft(Step, [k \in ToSet(keys) |-> k], Pairs(Len(keys)))

\* A template is the set of its pages (by position in the crawl).
DetectTemplates(pages) ==
  LET merged == MergedInto(pages)
      Of(i) == merged[UrlTemplate(pages[i].path)]
  IN {{j \in DOMAIN pages : Of(j) = Of(i)} : i \in DOMAIN pages}

-----------------------------------------------------------------------------
(* Properties *)

\* Whatever the order of the crawl: every page is in one template, and two pages
\* share a template exactly when a chain of groups that look alike links theirs.
TemplatesAreComponents(pages) ==
  LET keys == ToSet(GroupKeys(pages))
      similar == [x, y \in keys |-> Alike(DomFingerprint(FirstPage(pages, x)), DomFingerprint(FirstPage(pages, y)))]
      linked == ReflexiveTransitiveClosure(similar, keys)
      templates == DetectTemplates(pages)
  IN /\ UNION templates = DOMAIN pages
     /\ \A s, t \in templates : s # t => s \cap t = {}
     /\ \A i, j \in DOMAIN pages :
          (\E t \in templates : {i, j} \subseteq t)
            <=> linked[UrlTemplate(pages[i].path), UrlTemplate(pages[j].path)]
=============================================================================
