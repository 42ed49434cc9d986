--------------------------- MODULE ScopeBootstrap ---------------------------
(***************************************************************************)
(* Organizations, workspaces and the default scope of the control plane    *)
(* (control/service.py and control/store.py).  Every call runs under the   *)
(* store lock: what it read decides a sequence of document writes, each of *)
(* which is atomic, and an answer.  A process can stop, and a write can    *)
(* fail, between two of them; the next call finds what is on disk.         *)
(***************************************************************************)
EXTENDS Naturals, Sequences, FiniteSets

CONSTANTS
  Clients,      \* processes that share the store
  Orgs, Spaces, \* identifiers of organizations and workspaces
  Ids,          \* container identifiers
  None,
  MaxCalls,     \* bound: calls in a behaviour
  MaxStops      \* bound: stops and failed writes in a behaviour

VARIABLES
  meta,       \* store.json: the default scope, or None before initialize
  orgs,       \* organization.json files
  spaces,     \* workspace files: <<organization, workspace>>
  containers, \* container files
  job,        \* per process: the writes left and the answer, or None
  calls, stops,
  acked       \* what calls returned

vars == <<meta, orgs, spaces, containers, job, calls, stops, acked>>

\* The documents of store.json and of the files, and what a process has in hand.
Meta == [org : Orgs \cup {None}, ws : Spaces \cup {None}]
Container == [id : Ids, org : Orgs, ws : Spaces]
Documents ==
  [doc : {"meta"}, org : Orgs \cup {None}, ws : Spaces \cup {None}]
    \cup [doc : {"organization"}, org : Orgs]
    \cup [doc : {"workspace"}, org : Orgs, ws : Spaces]
    \cup [doc : {"container"}, container : Container]
Errors == {"corrupt", "missing", "empty", "ambiguous"}
Answers ==
  [kind : Errors \cup {"initialized", "conflict", "found", "organization", "workspace", "container"},
   org : Orgs \cup {None}, id : Ids \cup {None}, ws : Spaces \cup {None}, scoped : BOOLEAN]
Job == [writes : Seq(Documents), answer : Answers]

\* None is none of the things it stands for the lack of.
ScopeBounds ==
  /\ MaxCalls \in Nat /\ MaxStops \in Nat
  /\ None \notin Orgs \cup Spaces \cup Ids \cup Errors
  /\ None \notin Meta /\ None \notin Job

ASSUME ScopeAssumption == ScopeBounds

SpacesOf(o) == {w \in Spaces : <<o, w>> \in spaces}
UsedSpaces == {s[2] : s \in spaces}

SaveMeta(o, w) == [doc |-> "meta", org |-> o, ws |-> w]
SaveOrganization(o) == [doc |-> "organization", org |-> o]
SaveWorkspace(o, w) == [doc |-> "workspace", org |-> o, ws |-> w]
SaveContainer(c) == [doc |-> "container", container |-> c]

\* A resolved scope with the writes that came before it; error is None or why
\* the call fails after those writes.
Scope(writes, o, w) == [writes |-> writes, org |-> o, ws |-> w, error |-> None]
Failed(writes, why) == [writes |-> writes, org |-> None, ws |-> None, error |-> why]

\* The first organization and workspace listed, or new ones; files are listed in
\* the order of random identifiers.
FirstOrgs == IF orgs = {} THEN Orgs \ orgs ELSE orgs
FirstSpaces(o) == IF SpacesOf(o) = {} THEN Spaces \ UsedSpaces ELSE SpacesOf(o)

NewOrg(o) == IF o \in orgs THEN <<>> ELSE <<SaveOrganization(o)>>
NewSpace(o, w) == IF <<o, w>> \in spaces THEN <<>> ELSE <<SaveWorkspace(o, w)>>

\* Mutant of DefaultScopes: the metadata first, then what it names.
DefaultScopesMetaFirst ==
  {IF d.writes = <<>> THEN d
   ELSE [d EXCEPT !.writes = <<SaveMeta(d.org, d.ws)>> \o SubSeq(@, 1, Len(@) - 1)] :
     d \in IF meta.org = None
             THEN UNION {{Scope(NewOrg(o) \o NewSpace(o, w) \o <<SaveMeta(o, w)>>, o, w) : w \in FirstSpaces(o)}
                           : o \in FirstOrgs}
             ELSE {IF <<meta.org, meta.ws>> \in spaces THEN Scope(<<>>, meta.org, meta.ws)
                   ELSE Failed(<<>>, "corrupt")}}

DefaultScopes ==
  IF meta.org = None
    THEN UNION {{Scope(NewOrg(o) \o NewSpace(o, w) \o <<SaveMeta(o, w)>>, o, w) : w \in FirstSpaces(o)}
                  : o \in FirstOrgs}
  ELSE IF meta.org \notin orgs THEN {Failed(<<>>, "corrupt")}
  ELSE IF meta.ws = None
    THEN {Scope(NewSpace(meta.org, w) \o <<SaveMeta(meta.org, w)>>, meta.org, w) : w \in FirstSpaces(meta.org)}
  ELSE {IF <<meta.org, meta.ws>> \in spaces THEN Scope(<<>>, meta.org, meta.ws) ELSE Failed(<<>>, "corrupt")}

\* A workspace that was named, or found by default, must exist.
InWorkspace(writes, o, w) ==
  IF <<o, w>> \in spaces THEN Scope(writes, o, w) ELSE Failed(writes, "missing")

ResolveScope(o, w) ==
  IF o = None
    THEN {IF w = None \/ d.error # None THEN d ELSE InWorkspace(d.writes, d.org, w) : d \in DefaultScopes}
  ELSE IF o \notin orgs THEN {Failed(<<>>, "missing")}
  ELSE LET named == IF w = None /\ meta.org = o THEN meta.ws ELSE w IN
    CASE named # None -> {InWorkspace(<<>>, o, named)}
      [] named = None /\ Cardinality(SpacesOf(o)) = 1 -> {Scope(<<>>, o, s) : s \in SpacesOf(o)}
      [] OTHER -> {Failed(<<>>, IF SpacesOf(o) = {} THEN "empty" ELSE "ambiguous")}

-----------------------------------------------------------------------------
Init ==
  /\ meta = None /\ orgs = {} /\ spaces = {} /\ containers = {}
  /\ job = [p \in Clients |-> None]
  /\ calls = 0 /\ stops = 0 /\ acked = {}

\* A call gets the lock; what it reads decides its writes and its answer.
Call(p, writes, answer) ==
  /\ \A q \in Clients : job[q] = None
  /\ calls < MaxCalls
  /\ calls' = calls + 1
  /\ job' = [job EXCEPT ![p] = [writes |-> writes, answer |-> answer]]
  /\ UNCHANGED <<meta, orgs, spaces, containers, stops, acked>>

Answer(kind, org, id, ws, scoped) == [kind |-> kind, org |-> org, id |-> id, ws |-> ws, scoped |-> scoped]
Refusal(why) == Answer(why, None, None, None, TRUE)

Initialize(p) == meta = None /\ Call(p, <<SaveMeta(None, None)>>, Refusal("initialized"))

EnsureDefaultScope(p) ==
  /\ meta # None
  /\ \E d \in DefaultScopes :
       Call(p, d.writes, IF d.error # None THEN Refusal(d.error)
                         ELSE Answer("organization", d.org, None, d.ws, FALSE))

CreateOrganization(p) ==
  /\ meta # None
  /\ \E o \in Orgs \ orgs, w \in Spaces \ UsedSpaces :
       Call(p, <<SaveOrganization(o), SaveWorkspace(o, w)>>
                 \o (IF meta.org = None THEN <<SaveMeta(o, w)>> ELSE <<>>),
            Answer("organization", o, None, w, TRUE))

CreateWorkspace(p, o) ==
  /\ meta # None
  /\ IF o \notin orgs THEN Call(p, <<>>, Refusal("missing"))
     ELSE \E w \in Spaces \ UsedSpaces :
            Call(p, <<SaveWorkspace(o, w)>>
                      \o (IF meta.org = o /\ meta.ws = None THEN <<SaveMeta(o, w)>> ELSE <<>>),
                 Answer("workspace", o, None, w, TRUE))

\* _assert_container_id_available looks in the whole organization.
Available(o, c) == \A k \in containers : k.org = o => k.id # c

CreateContainer(p, c, o, w) ==
  /\ meta # None
  /\ \E d \in ResolveScope(o, w) :
       CASE d.error # None -> Call(p, d.writes, Refusal(d.error))
         [] d.error = None /\ ~Available(d.org, c) -> Call(p, d.writes, Refusal("conflict"))
         [] OTHER -> Call(p, Append(d.writes, SaveContainer([id |-> c, org |-> d.org, ws |-> d.ws])),
                          Answer("container", d.org, c, d.ws, o # None))

\* get_container and list_containers: without a scope they create the default one.
FindContainer(p, c, o) ==
  /\ meta # None
  /\ \E d \in IF o = None THEN DefaultScopes
              ELSE {IF o \in orgs THEN Scope(<<>>, o, None) ELSE Failed(<<>>, "missing")} :
       Call(p, d.writes, Refusal(CASE d.error # None -> d.error
                                   [] d.error = None /\ Available(d.org, c) -> "missing"
                                   [] OTHER -> "found"))

\* _write_document replaces one file.
Write(p) ==
  /\ job[p] # None /\ job[p].writes # <<>>
  /\ LET d == Head(job[p].writes) IN
       /\ meta' = IF d.doc = "meta" THEN [org |-> d.org, ws |-> d.ws] ELSE meta
       /\ orgs' = IF d.doc = "organization" THEN orgs \cup {d.org} ELSE orgs
       /\ spaces' = IF d.doc = "workspace" THEN spaces \cup {<<d.org, d.ws>>} ELSE spaces
       /\ containers' = IF d.doc = "container"
                          THEN {k \in containers : ~(k.org = d.container.org /\ k.id = d.container.id)}
                                 \cup {d.container}
                          ELSE containers
  /\ job' = [job EXCEPT ![p].writes = Tail(@)]
  /\ UNCHANGED <<calls, stops, acked>>

Return(p) ==
  /\ job[p] # None /\ job[p].writes = <<>>
  /\ acked' = acked \cup {job[p].answer}
  /\ job' = [job EXCEPT ![p] = None]
  /\ UNCHANGED <<meta, orgs, spaces, containers, calls, stops>>

\* The process ends, or a write raises: the lock is free, the files stay.
Stop(p) ==
  /\ job[p] # None /\ stops < MaxStops
  /\ stops' = stops + 1
  /\ job' = [job EXCEPT ![p] = None]
  /\ UNCHANGED <<meta, orgs, spaces, containers, calls, acked>>

Next ==
  \E p \in Clients :
    \/ Initialize(p) \/ EnsureDefaultScope(p) \/ CreateOrganization(p)
    \/ \E o \in Orgs : CreateWorkspace(p, o)
    \/ \E c \in Ids, o \in orgs \cup {None}, w \in UsedSpaces \cup {None} : CreateContainer(p, c, o, w)
    \/ \E c \in Ids, o \in orgs \cup {None} : FindContainer(p, c, o)
    \/ Write(p) \/ Return(p) \/ Stop(p)

Spec == Init /\ [][Next]_vars

-----------------------------------------------------------------------------
(* Properties *)

\* Wherever a call stopped, the default scope names an organization and a
\* workspace that are stored: no call ever reports a corrupt store, and nothing
\* has to be repaired by hand.
DefaultResolves ==
  /\ meta # None /\ meta.org # None => <<meta.org, meta.ws>> \in spaces /\ meta.org \in orgs
  /\ \A a \in acked : a.kind # "corrupt"

\* The default never moves: what was created without naming an organization is
\* found without naming one, whatever was created since.
FoundWithoutScope ==
  \A a \in acked : ~a.scoped => a.org = meta.org

\* A container that a call returned keeps its organization and workspace: a later
\* call with the same identifier does not replace it.
AckedContainerKept ==
  \A a \in acked : a.kind = "container" => [id |-> a.id, org |-> a.org, ws |-> a.ws] \in containers

\* An organization that a call returned has a workspace to create containers in.
AckedOrganizationUsable ==
  \A a \in acked : a.kind \in {"organization", "workspace"} =>
    a.org \in orgs /\ <<a.org, a.ws>> \in spaces

\* Wherever calls stopped, the default scope resolves and does not move, and what calls
\* returned is stored and stays where it was put.
ScopesSound ==
  DefaultResolves /\ FoundWithoutScope /\ AckedContainerKept /\ AckedOrganizationUsable
=============================================================================
