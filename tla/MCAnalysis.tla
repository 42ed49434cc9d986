----------------------------- MODULE MCAnalysis -----------------------------
(***************************************************************************)
(* Reports, histories and scopes, for TLC, side by side: the templates and *)
(* the health of a site, the drift of its data dictionary, isolation       *)
(* experiments, its design reference, its tag graph, scheduled jobs over a *)
(* history file, and the default scope of the control plane.               *)
(* part says which of them a behaviour is about.  The reports are          *)
(* functions of what was observed: their input grows by one observation a  *)
(* step, and the report of every input is checked.  The graph, the jobs    *)
(* and the scopes stay in their initial state while a behaviour is about   *)
(* another part.                                                           *)
(***************************************************************************)
EXTENDS ScopeBootstrap, HistoryJobs, TagGraph, Integers, Sequences, FiniteSets

VARIABLES part, input

(* Pages: fingerprints that form a chain, one that is empty, and URLs of one pattern. *)

Seg(name, kind) == [name |-> name, kind |-> kind]
PageOf(path, classes) == [path |-> path, count |-> [c \in 1 .. 6 |-> IF c \in classes THEN 2 ELSE 1]]

PagePool ==
  {PageOf(<<Seg("deals", "plain")>>, 1 .. 3), PageOf(<<Seg("new-in", "dashed")>>, 1 .. 4),
   PageOf(<<Seg("sale", "plain")>>, 1 .. 6), PageOf(<<Seg("about", "plain")>>, {}),
   PageOf(<<Seg("p", "plain"), Seg("7", "number")>>, {}),
   PageOf(<<Seg("p", "plain"), Seg("red-shoe", "dashed")>>, 4 .. 6)}

Templates == INSTANCE PageTemplates

(* Journeys on three crawled pages, and on an address that was not crawled. *)

Health == INSTANCE SiteHealth

Journey(page, event, status, stages, id) ==
  [page |-> page, event |-> event, status |-> status, stages |-> stages, id |-> id, selector |-> "s"]

JourneyPool ==
  {Journey(p, "buy", "healthy", {"datalayer", "network"}, "G1") : p \in {1, 2, 3, 9}}
    \cup {Journey(p, "cart", "warning", {"gtm"}, "G2") : p \in 1 .. 3}
    \cup {Journey(p, "buy", "critical", {}, None) : p \in 1 .. 3}

Crawls == {{{1, 2}, {3}}, {{1, 2, 3}}}
Recommended == {[page |-> 1, selector |-> "s", objective |-> "Purchase"],
                [page |-> 2, selector |-> "s", objective |-> "Purchase"],
                [page |-> 3, selector |-> "s", objective |-> "Engagement"]}

\* Five pages that fire one event a given number of times each.
Repeated(counts) ==
  LET Of(i) == [k \in 1 .. counts[i] |-> Journey(i, "buy", "healthy", {"gtm"}, "G1")]
  IN Of(1) \o Of(2) \o Of(3) \o Of(4) \o Of(5)

(* Two pages of up to three elements, and traces to the site's own host and two others. *)

SiteOf == [h \in {"page1", "page2", "own", "ads", "stats"} |-> IF h \in {"ads", "stats"} THEN h ELSE "site"]
MeasurementHosts == {"own", "ads"}
BothDetectors == {"duplicate-tags", "server-side-tagging"}

Ga4(id) == [vendor |-> "GA4", category |-> "analytics", evidence |-> id]
Element(container, loaded, vendor) == [container |-> container, loaded |-> loaded, vendor |-> vendor]
Elements ==
  {Element("GTM-1", TRUE, Nil), Element("GTM-1", FALSE, Nil), Element("GTM-2", TRUE, Nil),
   Element(Nil, FALSE, Ga4("G-1")), Element(Nil, FALSE, Ga4("G-2")),
   Element(Nil, FALSE, [vendor |-> "Chat", category |-> "chat", evidence |-> "w"])}

\* An interaction of page1 may have led to page2 before it sent anything.
TraceOf(id, page, event, steps) == [id |-> id, page |-> page, event |-> event, steps |-> steps]
FirstTraces ==
  {TraceOf("t1", "page1", "buy", <<Nil, "own">>), TraceOf("t2", "page2", "buy", <<Nil, "own", "ads", "stats">>)}
SecondTraces ==
  {TraceOf("t3", "page2", "cart", <<Nil>>), TraceOf("t4", "page2", "cart", <<Nil, "own", Nil, "own">>)}

VisitsOf(page, most, seen) ==
  {[page |-> page, elements |-> e, traces |-> t] :
     e \in {e \in SUBSET Elements : Cardinality(e) <= most}, t \in SUBSET seen}
SomeVisits == VisitsOf("page1", 3, FirstTraces) \cup VisitsOf("page2", 2, SecondTraces)

(* Requests for three URLs, each by the parser, by an unknown script or by another URL. *)

Isolation == INSTANCE ScriptIsolation WITH Page <- "page"

Urls == {"gtm", "ga4", "app"}
GroupOf == [u \in Urls |-> CASE u = "gtm" -> "tag_management" [] u = "ga4" -> "analytics" [] OTHER -> None]
RequestPool ==
  {[url |-> u, type |-> t, by |-> b, group |-> GroupOf[u]] :
     u \in Urls, t \in {"parser", "script"}, b \in Urls \cup {None}}
Inventory == {r \in RequestPool : r.by # r.url /\ (r.type = "parser" => r.by = None)}

(* Dictionaries of up to three variables out of these. *)

LeafSimilarity(a, b) ==
  CASE a = b -> 100 [] {a, b} = {"price", "prices"} -> 91 [] {a, b} = {"price", "amount"} -> 18 [] OTHER -> 33

Drift == INSTANCE SchemaDrift WITH Similarity <- LeafSimilarity

Variable(source, event, leaf, rank, share) ==
  [source |-> source, event |-> event, leaf |-> leaf, rank |-> rank, share |-> share]
VariablePool ==
  {Variable("datalayer_field", "buy", "price", 2, [number |-> 100]),
   Variable("datalayer_field", "buy", "price", 2, [number |-> 96, string |-> 4]),
   Variable("datalayer_field", "buy", "price", 2, [number |-> 90, string |-> 10]),
   Variable("datalayer_field", "buy", "amount", 1, [number |-> 100]),
   Variable("datalayer_field", "buy", "prices", 3, [array |-> 100]),
   Variable("datalayer_field", "buy", "price", 4, [n \in {} |-> 0]),
   Variable("datalayer_field", "view", "price", 5, [number |-> 100]),
   Variable("cookie", "price", "price", 6, [n \in {} |-> 0])}
Dictionaries ==
  {d \in SUBSET VariablePool : Cardinality(d) <= 3 /\ \A v, w \in d : v.rank = w.rank => v = w}

(* Rows for two events, and journeys that push them well, badly, twice or not at all. *)

Design == INSTANCE Sdr

Value(type, num, text) == [type |-> type, num |-> num, text |-> text]
One == Value("integer", 1, "1")
Row(event, page, selector, network, param, types, required, allowed) ==
  [event |-> event, page |-> page, selector |-> selector, network |-> network, param |-> param,
   types |-> types, required |-> required, allowed |-> allowed]
Selector(quote) == [name |-> "buy", quote |-> quote]

RowPool ==
  {Row("buy", None, None, None, "price", {"float"}, None, None),
   Row("buy", "cart", Selector("single"), "yes", "coupon", {"string", "int"}, "no", {Value("string", 1, "1")}),
   Row("buy", "home", None, "no", None, None, None, None), Row("view", None, None, None, None, None, None, None),
   Row(None, None, None, None, "price", None, None, None), Row("buy", None, None, "junk", None, None, None, None),
   Row("view", None, None, None, "price", {"any", "money"}, None, None)}

Own(f) == [own |-> f, nested |-> [n \in {} |-> None]]
Payloads ==
  {Own([price |-> One]), Own([coupon |-> One]),
   [own |-> [price |-> Value("boolean", None, "True")], nested |-> [coupon |-> Value("string", None, "x")]],
   [own |-> [price |-> Value("number", 1, "1.0")], nested |-> [price |-> Value("null", None, "None")]]}
Push(event, page, payload) == [event |-> event, page |-> page, payload |-> payload]
Address(path, query) == [path |-> path, query |-> query]
PushPool ==
  {Push("buy", a, p) : a \in {Address("cart", None), Address("home", "cart"), None}, p \in Payloads}
PushedJourneys ==
  {[selector |-> s, network |-> n, pushes |-> <<p>>] :
     s \in {None, Selector("double"), [name |-> "nav", quote |-> "single"]}, n \in BOOLEAN, p \in PushPool}
    \cup {[selector |-> None, network |-> TRUE, pushes |-> <<p, Push("view", None, Own([price |-> One]))>>] : p \in PushPool}
    \cup {[selector |-> None, network |-> TRUE, pushes |-> <<p, p>>] : p \in PushPool}
    \cup {[selector |-> None, network |-> TRUE, pushes |-> <<>>]}

(* Jobs and scopes *)

Scores == {[site |-> s, templates |-> [t \in {"cart"} |-> s]] : s \in {0, 1}}
Medians == {[lcp |-> Nothing, tbt |-> 0], [lcp |-> 1, tbt |-> 1]}

ASSUME Parameters == HistoryBounds /\ TagGraphAssumption

-----------------------------------------------------------------------------
allVars == <<part, input, graphVars, historyVars, vars>>

PartsInit ==
  /\ Init /\ HistoryInit /\ GraphInit
  /\ \/ part = "templates" /\ input = <<>>
     \/ part = "site" /\ input = <<>>
     \/ part = "counts" /\ input \in [1 .. 5 -> {0, 1, 3, 6}]
     \/ part = "isolation" /\ input = {}
     \/ part = "runs" /\ input = <<>>
     \/ part = "drift" /\ input \in Dictionaries \X Dictionaries
     \/ part = "design" /\ input = [rows |-> <<>>, journeys |-> <<>>]
     \/ part \in {"graph", "scopes", "history"} /\ input = 0

\* One more page, journey, trace, request or measurement.
Grown(pool, bound) == \E x \in pool : Len(input) < bound /\ input' = Append(input, x)

Observe ==
  \/ part = "templates" /\ Grown(PagePool, 4)
  \/ part = "site" /\ Grown(JourneyPool, 4)
  \/ part = "runs" /\ Grown({None, 0, 1, 5}, 5)
  \/ part = "isolation" /\ \E r \in Inventory \ input : input' = input \cup {r}
  \/ /\ part = "design" /\ input.journeys = <<>> /\ Len(input.rows) < 3
     /\ \E r \in RowPool : input' = [input EXCEPT !.rows = Append(@, r)]
  \/ /\ part = "design" /\ input.rows # <<>> /\ Design!SchemaFromRows(input.rows) # None
     /\ Len(input.journeys) < 2
     /\ \E j \in PushedJourneys : input' = [input EXCEPT !.journeys = Append(@, j)]

PartsNext ==
  \/ Observe /\ UNCHANGED <<part, graphVars, historyVars, vars>>
  \/ part = "graph" /\ GraphNext /\ UNCHANGED <<part, input, historyVars, vars>>
  \/ part = "history" /\ HistoryNext /\ UNCHANGED <<part, input, graphVars, vars>>
  \/ part = "scopes" /\ Next /\ UNCHANGED <<part, input, graphVars, historyVars>>

PartsSpec == PartsInit /\ [][PartsNext]_allVars

\* The behaviours about jobs only.
JobsSpec == part = "history" /\ PartsSpec

-----------------------------------------------------------------------------
(* What the run checks: ScopesSound of ScopeBootstrap, HistoryKept of      *)
(* HistoryJobs, EvidenceNeverOverstated of TagGraph, and the properties of *)
(* the other parts, as their modules state them.                           *)

\* Templates are the components of pages that look alike, the score of a site lies
\* between those of its templates and next to the mean of its journeys, outliers are
\* few, a uniform site is quiet, and the drift between two dictionaries accounts for
\* every field once.
SiteReportSound ==
  /\ part = "templates" => Templates!TemplatesAreComponents(input)
  /\ part = "site" => \A crawl \in Crawls :
       /\ Health!ScoresAgree(input, crawl) /\ Health!OutliersAreFew(input, crawl)
       /\ Health!UniformIsQuiet(input, crawl) /\ Health!InconsistencyWasSeen(input, Recommended)
  /\ part = "counts" => /\ Health!OutliersAreFew(Repeated(input), {1 .. 5})
                        /\ Health!UniformIsQuiet(Repeated(input), {1 .. 5})
  /\ part = "drift" => Drift!DriftAccountsForAll(input[1], input[2])

\* An experiment blocks what follows from its target, which is what would not load
\* without it when every script has one parent; groups compose, and medians are
\* medians.
ExperimentsIsolate ==
  /\ part = "isolation" => Isolation!BlocksWhatDepends(input) /\ Isolation!GroupsCompose(input)
  /\ part = "runs" => Isolation!MedianIsMiddle(input)

\* A design reference called aligned is met by every row and every push, and more
\* evidence never hides a fault.
AlignmentMeansConformance ==
  part = "design" => /\ Design!AlignedMeansConforming(input.rows, input.journeys)
                     /\ Design!FaultsStay(input.rows, input.journeys)
=============================================================================
