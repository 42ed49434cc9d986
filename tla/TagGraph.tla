------------------------------ MODULE TagGraph ------------------------------
(***************************************************************************)
(* The Tag Execution Graph of `diagnose --tag-graph` (tagexec/, and the    *)
(* loop over pages in cli.py): the tags found in the HTML of each page,    *)
(* the traces of its interactions, and the duplicates and server-side      *)
(* indicators concluded page by page; the graph is built from all of them. *)
(* An element of a page is [container, loaded, vendor]: the container it   *)
(* names, whether the element itself loads it, and the vendor code in it   *)
(* ([vendor, category, evidence]), each or Nil.  A trace is [id, page,     *)
(* event, steps], steps being the hosts requests went to, or Nil for a     *)
(* step that is not a request.  Edges of a group of peers have the order   *)
(* of their sorted names, which is left open here.                         *)
(***************************************************************************)
EXTENDS Naturals, Sequences, FiniteSetsExt, TLC

CONSTANTS
  Nil,
  Site,         \* [page or host -> registrable domain]
  Relayed,      \* hosts whose requests look like GA4 measurement hits
  Detectors,    \* --detect-duplicate-tags, --detect-server-side-tagging
  Observations  \* what visits may see: [page, elements, traces]

VARIABLES
  visits,      \* ghost: what was seen on each page
  scans,       \* all_scans
  captured,    \* the traces of all journeys
  duplicates,  \* all_duplicate_findings: the names involved in each
  indicators   \* all_server_side_indicators

graphVars == <<visits, scans, captured, duplicates, indicators>>

\* Containers, vendors and the snippets that gave vendors away are spelled differently.
Containers == {x.container : x \in UNION {v.elements : v \in Observations}} \ {Nil}
VendorCode == {x.vendor : x \in UNION {v.elements : v \in Observations}} \ {Nil}

TagGraphAssumption ==
  /\ \A v \in Observations : \A t \in v.traces : t.steps \in Seq(DOMAIN Site \cup {Nil})
  /\ Containers \cap {c.vendor : c \in VendorCode} = {}
  /\ {c.evidence : c \in VendorCode} \cap (Containers \cup {c.vendor : c \in VendorCode}) = {}

(* What a page holds *)

\* A container counts when an element loads it, never for its name in a script.
DetectGtmContainers(elements) == {e.container : e \in {e \in elements : e.loaded}} \ {Nil}

\* A vendor counts wherever its code is.
DetectVendors(elements) == {e.vendor : e \in elements} \ {Nil}

ScanHtml(page, elements) ==
  [page |-> page, containers |-> DetectGtmContainers(elements), vendors |-> DetectVendors(elements)]

(* Duplicates *)

\* What looks like the same tag twice: two containers, a container with an
\* analytics vendor beside it, a vendor with two identifiers.
DuplicateCandidates(scan) ==
  LET twice == {n \in {v.vendor : v \in scan.vendors} :
                  Cardinality({v \in scan.vendors : v.vendor = n}) > 1}
  IN {c \in {scan.containers} : Cardinality(c) > 1}
     \cup {scan.containers \cup {v.vendor} :
             v \in {v \in scan.vendors : scan.containers # {} /\ v.category = "analytics"}}
     \cup {{v.evidence : v \in {v \in scan.vendors : v.vendor = n}} : n \in twice}

Requests(trace) == {i \in DOMAIN trace.steps : trace.steps[i] # Nil}
Hosts(trace) == {trace.steps[i] : i \in Requests(trace)}

\* Mutant of RuntimeEvidence: one request is enough.
RuntimeEvidenceAny(traces) == {t \in traces : Cardinality(Requests(t)) >= 1}

\* An interaction with two requests is the evidence for every candidate of its page.
RuntimeEvidence(traces) == {t \in traces : Cardinality(Requests(t)) >= 2}

AnalyzeDuplicates(scan, traces) ==
  IF RuntimeEvidence(traces) = {} THEN {} ELSE DuplicateCandidates(scan)

(* Server-side indicators: never certain *)

IsFirstParty(host, page) == Site[host] = Site[page]

Indicator(t, kind, hosts, evidence) ==
  [kind |-> kind, page |-> t.page, event |-> t.event, hosts |-> hosts, evidence |-> evidence]

DetectFirstPartyCollectionEndpoints(t) ==
  {Indicator(t, "relay", {h}, "Inferred") : h \in {h \in Hosts(t) \cap Relayed : IsFirstParty(h, t.page)}}

DetectFanout(t) ==
  {Indicator(t, "fanout", x, "Suspected") :
     x \in {x \in {{h \in Hosts(t) : ~IsFirstParty(h, t.page)}} : Cardinality(x) >= 2}}

Indicators(traces) == UNION {DetectFirstPartyCollectionEndpoints(t) \cup DetectFanout(t) : t \in traces}

(* The graph: nodes are [kind, name, more] *)

Node(kind, name, more) == [kind |-> kind, name |-> name, more |-> more]
Edge(from, to, evidence, why) == [from |-> from, to |-> to, evidence |-> evidence, why |-> why]

Pairwise(nodes, evidence, why) ==
  LET rank == CHOOSE f \in [nodes -> 1 .. Cardinality(nodes)] : IsInjective(f)
  IN {Edge(p[1], p[2], evidence, why) : p \in {p \in nodes \X nodes : rank[p[1]] < rank[p[2]]}}

ScanNodes(scan) ==
  {Node("container", c, Nil) : c \in scan.containers}
    \cup {Node("vendor", v.vendor, v.evidence) : v \in scan.vendors}

StepNode(t, i) == Node("step", t.id, ToString(i))
Endpoint(h) == Node("endpoint", h, Nil)
Relay(ind) == Node("relay", ind.event, ind.page)

\* Steps are chained in the order they were seen ...
TraceChain(t) ==
  {Edge(StepNode(t, i), StepNode(t, i + 1), "Observed", "next") : i \in 1 .. Len(t.steps) - 1}

\* ... and requests lead to their host.
EndpointEdges(t) ==
  {Edge(StepNode(t, i), Endpoint(t.steps[i]), "Observed", "sent") : i \in Requests(t)}

TraceNodes(t) == {StepNode(t, i) : i \in DOMAIN t.steps} \cup {Endpoint(h) : h \in Hosts(t)}

\* Hosts are looked up among those seen on the indicator's page.
ServerSideEdges(ind, traces) ==
  LET seen == ind.hosts \cap UNION {Hosts(t) : t \in {t \in traces : t.page = ind.page}}
  IN IF ind.kind = "relay" THEN {Edge(Endpoint(h), Relay(ind), ind.evidence, "relay") : h \in seen}
     ELSE Pairwise({Endpoint(h) : h \in seen}, ind.evidence, "fanout")

\* A name is resolved to the first node with that label on any page scanned; the
\* identifiers of a vendor wired in twice are labels of no node.
FindNode(all, name) ==
  LET with == {i \in DOMAIN all : \E n \in ScanNodes(all[i]) : n.name = name}
  IN IF with = {} THEN {} ELSE {CHOOSE n \in ScanNodes(all[Min(with)]) : n.name = name}

DuplicateEdges(involved, all) ==
  Pairwise(UNION {FindNode(all, name) : name \in involved}, "Observed", "duplicate")

GraphEdges ==
  (UNION {TraceChain(t) \cup EndpointEdges(t) : t \in captured})
    \cup (UNION {ServerSideEdges(ind, captured) : ind \in indicators})
    \cup (UNION {DuplicateEdges(names, scans) : names \in duplicates})

GraphNodes ==
  (UNION {ScanNodes(scans[i]) : i \in DOMAIN scans}) \cup (UNION {TraceNodes(t) : t \in captured})
    \cup {e.to : e \in {e \in GraphEdges : e.why = "relay"}}

-----------------------------------------------------------------------------
GraphInit ==
  visits = <<>> /\ scans = <<>> /\ captured = {} /\ duplicates = {} /\ indicators = {}

\* One page: its session is recorded, its HTML scanned, and the detectors that were
\* asked for run over this page and this session.
DiagnosePage(v) ==
  LET scan == ScanHtml(v.page, v.elements) IN
  /\ \A i \in DOMAIN visits : visits[i].page # v.page
  /\ visits' = Append(visits, v)
  /\ scans' = Append(scans, scan)
  /\ captured' = captured \cup v.traces
  /\ duplicates' = duplicates \cup
       IF "duplicate-tags" \in Detectors THEN AnalyzeDuplicates(scan, v.traces) ELSE {}
  /\ indicators' = indicators \cup
       IF "server-side-tagging" \in Detectors THEN Indicators(v.traces) ELSE {}

GraphNext == \E v \in Observations : DiagnosePage(v)

GraphSpec == GraphInit /\ [][GraphNext]_graphVars

-----------------------------------------------------------------------------
(* Properties *)

\* The element implements what the node stands for: it loads the container itself, or
\* holds the code of the vendor.
Implements(x, n) ==
  \/ n.kind = "container" /\ x.container = n.name /\ x.loaded
  \/ n.kind = "vendor" /\ x.vendor # Nil /\ x.vendor.vendor = n.name

\* One visit saw both ends of the edge implemented, and an interaction that sent twice.
SeenTwice(v, e) ==
  /\ \E t \in v.traces : Cardinality(Requests(t)) >= 2
  /\ \A n \in {e.from, e.to} : \E x \in v.elements : Implements(x, n)

\* What cannot be seen from a browser is never labelled as seen.  Every edge joins
\* two nodes of the graph; one that leads to a relay, or joins endpoints, is never
\* "Observed"; one that joins implementations, although nodes are looked up among those
\* of all pages, joins two that one page has, with an interaction of that page behind it;
\* and every endpoint and relay follows from a request.
EvidenceNeverOverstated ==
  /\ \A e \in GraphEdges :
       /\ {e.from, e.to} \subseteq GraphNodes
       /\ e.from.kind = "endpoint" => e.evidence # "Observed"
       /\ e.why = "duplicate" => \E i \in DOMAIN visits : SeenTwice(visits[i], e)
  /\ \A n \in GraphNodes : n.kind \in {"endpoint", "relay"} =>
       \E e \in GraphEdges : e.to = n /\ e.from.kind \in {"step", "endpoint"}
=============================================================================
