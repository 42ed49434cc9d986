---------------------------- MODULE PartsProofs -----------------------------
(***************************************************************************)
(* Proofs about the parts that stand beside the big components, each for   *)
(* every value of its constants: the default scope of the control plane    *)
(* (ScopeBootstrap), the jobs that share a history file (HistoryJobs), the *)
(* matching of patterns (Glob), the audit of a consent platform            *)
(* (CmpAudit), the recording of a session (Observation), the resolution of *)
(* variables (Variables) and the Tag Execution Graph (TagGraph).           *)
(***************************************************************************)
EXTENDS ScopeBootstrap, HistoryJobs, Glob, CmpAudit, Observation, Variables,
        TagGraph, SequenceTheorems, FiniteSetTheorems, NaturalsInduction, TLAPS

-----------------------------------------------------------------------------
(***************************************************************************)
(* The default scope (ScopeBootstrap). A call decides under the store lock *)
(* on a sequence of documents, and a process can stop between any two of   *)
(* them. What is on disk is therefore right together with what is left to  *)
(* write (Pending): store.json comes after the documents it names and      *)
(* never moves a default, a container goes where none is. An answer is     *)
(* right once what is left is written (AnswerSound), which is when the     *)
(* call returns.                                                           *)
(***************************************************************************)

\* The i-th of the writes comes after x.
After(ws, i, x) == \E j \in 1 .. i - 1 : ws[j] = x

\* store.json is written last, once, and does not move the default.
MetaSound(ws, i, m, os, ss) ==
  LET o == ws[i].org
      w == ws[i].ws
  IN  \/ o = None /\ m = None
      \/ /\ o # None /\ m # None /\ m.org \in {None, o}
         /\ <<o, w>> \in ss \/ After(ws, i, SaveWorkspace(o, w))
         /\ o \in os \/ After(ws, i, SaveOrganization(o))

SameId(k, c) == k.org = c.org /\ k.id = c.id

\* The writes an operation has left, over what is on disk.
Pending(ws, m, os, ss, cs) ==
  /\ ws \in Seq(Documents)
  /\ \A i, j \in 1 .. Len(ws) : ws[i].doc = ws[j].doc => i = j
  /\ \A i \in 1 .. Len(ws) : ws[i].doc = "meta" => MetaSound(ws, i, m, os, ss)
  /\ \A i \in 1 .. Len(ws) : ws[i].doc = "container" => \A k \in cs : ~ SameId(k, ws[i].container)

\* x is one of the writes left.
Left(ws, x) == \E i \in 1 .. Len(ws) : ws[i] = x

\* The answer a is right once ws are written.
AnswerSound(ws, a, m, os, ss, cs) ==
  /\ a.kind # "corrupt"
  /\ ~ a.scoped => /\ a.org # None
                   /\ \/ m # None /\ m.org = a.org
                      \/ \E w \in Spaces \cup {None} : Left(ws, SaveMeta(a.org, w))
  /\ a.kind = "container" =>
       \/ [id |-> a.id, org |-> a.org, ws |-> a.ws] \in cs
       \/ Left(ws, SaveContainer([id |-> a.id, org |-> a.org, ws |-> a.ws]))
  /\ a.kind \in {"organization", "workspace"} =>
       /\ a.org \in os \/ Left(ws, SaveOrganization(a.org))
       /\ <<a.org, a.ws>> \in ss \/ Left(ws, SaveWorkspace(a.org, a.ws))

\* The default of store.json is stored.
DiskSound(m, os, ss) ==
  /\ m \in Meta \cup {None} /\ os \subseteq Orgs /\ ss \subseteq Orgs \X Spaces
  /\ m # None /\ m.org # None => <<m.org, m.ws>> \in ss /\ m.org \in os

ScopeInv ==
  /\ DiskSound(meta, orgs, spaces)
  /\ job \in [Clients -> Job \cup {None}]
  /\ \A p, q \in Clients : job[p] # None /\ job[q] # None => p = q
  /\ \A p \in Clients : job[p] # None =>
       /\ Pending(job[p].writes, meta, orgs, spaces, containers)
       /\ AnswerSound(job[p].writes, job[p].answer, meta, orgs, spaces, containers)
  /\ \A a \in acked : AnswerSound(<<>>, a, meta, orgs, spaces, containers)

-----------------------------------------------------------------------------

\* What is on disk after one document is written.
MetaWith(m, d) == IF d.doc = "meta" THEN [org |-> d.org, ws |-> d.ws] ELSE m
OrgsWith(os, d) == IF d.doc = "organization" THEN os \cup {d.org} ELSE os
SpacesWith(ss, d) == IF d.doc = "workspace" THEN ss \cup {<<d.org, d.ws>>} ELSE ss
PlacedWith(cs, d) ==
  IF d.doc = "container" THEN {k \in cs : ~(k.org = d.container.org /\ k.id = d.container.id)} \cup {d.container}
  ELSE cs

\* Only the first of the writes is done now.
LEMMA FirstWrite ==
  ASSUME NEW m, NEW os, NEW ss, NEW cs, NEW ws, Pending(ws, m, os, ss, cs), ws # <<>>,
         NEW d, d = Head(ws)
  PROVE  /\ d \in Documents /\ d = ws[1]
         /\ d.doc = "meta" => \/ d.org = None /\ m = None
                              \/ /\ d.org # None /\ m # None /\ m.org \in {None, d.org}
                                 /\ <<d.org, d.ws>> \in ss /\ d.org \in os
         /\ d.doc = "container" => \A k \in cs : ~ SameId(k, d.container)
<1>1. ws \in Seq(Documents) /\ Len(ws) \in Nat /\ Len(ws) # 0 /\ Head(ws) = ws[1] /\ 1 \in 1 .. Len(ws)
  BY HeadTailProperties DEF Pending
<1>2. Head(ws) \in Documents
  BY <1>1
<1>3. \A x : ~ After(ws, 1, x)
  BY DEF After
<1>4. ws[1].doc = "meta" => MetaSound(ws, 1, m, os, ss)
  BY <1>1 DEF Pending
<1>5. ws[1].doc = "container" => \A k \in cs : ~ SameId(k, ws[1].container)
  BY <1>1 DEF Pending
<1> QED BY <1>1, <1>2, <1>3, <1>4, <1>5 DEF MetaSound

\* A write leaves a sound store, and nothing that was there is lost or moved.
LEMMA WrittenSound ==
  ASSUME NEW m, NEW os, NEW ss, NEW cs, NEW ws, Pending(ws, m, os, ss, cs), ws # <<>>,
         DiskSound(m, os, ss), ScopeBounds, NEW d, d = Head(ws)
  PROVE  /\ DiskSound(MetaWith(m, d), OrgsWith(os, d), SpacesWith(ss, d))
         /\ os \subseteq OrgsWith(os, d) /\ ss \subseteq SpacesWith(ss, d) /\ cs \subseteq PlacedWith(cs, d)
         /\ m # None /\ m.org # None => MetaWith(m, d) # None /\ MetaWith(m, d).org = m.org
<1>1. /\ d \in Documents
      /\ d.doc = "meta" => \/ d.org = None /\ m = None
                           \/ /\ d.org # None /\ m # None /\ m.org \in {None, d.org}
                              /\ <<d.org, d.ws>> \in ss /\ d.org \in os
      /\ d.doc = "container" => \A k \in cs : ~ SameId(k, d.container)
  BY FirstWrite
<1>2. os \subseteq OrgsWith(os, d) /\ ss \subseteq SpacesWith(ss, d)
  BY DEF OrgsWith, SpacesWith
<1>3. cs \subseteq PlacedWith(cs, d)
  BY <1>1 DEF PlacedWith, SameId
<1>4. OrgsWith(os, d) \subseteq Orgs
  BY <1>1 DEF OrgsWith, DiskSound, Documents
<1>5. SpacesWith(ss, d) \subseteq Orgs \X Spaces
  BY <1>1 DEF SpacesWith, DiskSound, Documents
<1>6. CASE d.doc = "meta"
  <2>1. MetaWith(m, d) \in Meta /\ MetaWith(m, d).org = d.org /\ MetaWith(m, d).ws = d.ws
    BY <1>1, <1>6 DEF MetaWith, Documents, Meta
  <2>2. MetaWith(m, d) # None
    BY <2>1 DEF ScopeBounds
  <2> QED BY <1>1, <1>2, <1>3, <1>4, <1>5, <1>6, <2>1, <2>2 DEF DiskSound
<1>7. CASE d.doc # "meta"
  <2>1. MetaWith(m, d) = m
    BY <1>7 DEF MetaWith
  <2> QED BY <1>2, <1>3, <1>4, <1>5, <2>1 DEF DiskSound
<1> QED BY <1>6, <1>7

\* The writes left after the first, over what is then on disk.
LEMMA RestPending ==
  ASSUME NEW m, NEW os, NEW ss, NEW cs, NEW ws, Pending(ws, m, os, ss, cs), ws # <<>>,
         DiskSound(m, os, ss), ScopeBounds, NEW d, d = Head(ws)
  PROVE  Pending(Tail(ws), MetaWith(m, d), OrgsWith(os, d), SpacesWith(ss, d), PlacedWith(cs, d))
<1> DEFINE t == Tail(ws)
           m2 == MetaWith(m, d)
           os2 == OrgsWith(os, d)
           ss2 == SpacesWith(ss, d)
           cs2 == PlacedWith(cs, d)
<1>1. /\ ws \in Seq(Documents) /\ Len(ws) \in Nat /\ Len(ws) # 0 /\ d = ws[1]
      /\ t \in Seq(Documents) /\ Len(t) = Len(ws) - 1 /\ \A i \in 1 .. Len(t) : t[i] = ws[i + 1]
  BY HeadTailProperties DEF Pending
<1>2. /\ \A i, j \in 1 .. Len(ws) : ws[i].doc = ws[j].doc => i = j
      /\ \A i \in 1 .. Len(ws) : ws[i].doc = "meta" => MetaSound(ws, i, m, os, ss)
      /\ \A i \in 1 .. Len(ws) : ws[i].doc = "container" => \A k \in cs : ~ SameId(k, ws[i].container)
  BY DEF Pending
<1>3. os \subseteq os2 /\ ss \subseteq ss2
  BY WrittenSound
<1> HIDE DEF t, m2, os2, ss2, cs2
<1>4. \A i \in 1 .. Len(t) : i + 1 \in 1 .. Len(ws) /\ 1 \in 1 .. Len(ws) /\ i + 1 # 1
  BY <1>1
<1>5. \A i \in 1 .. Len(t) : t[i].doc # d.doc
  BY <1>1, <1>2, <1>4
<1>6. ASSUME NEW i \in 1 .. Len(t), NEW j \in 1 .. Len(t), t[i].doc = t[j].doc PROVE i = j
  <2>1. i + 1 = j + 1
    BY <1>1, <1>2, <1>4, <1>6
  <2> QED BY <1>1, <2>1
<1>7. ASSUME NEW i \in 1 .. Len(t), t[i].doc = "container" PROVE \A k \in cs2 : ~ SameId(k, t[i].container)
  <2>1. cs2 = cs
    BY <1>5, <1>7 DEF cs2, PlacedWith
  <2> QED BY <1>1, <1>2, <1>4, <1>7, <2>1
<1>8. ASSUME NEW i \in 1 .. Len(t), NEW x, After(ws, i + 1, x) PROVE x = d \/ After(t, i, x)
  <2>1. PICK j \in 1 .. i : ws[j] = x
    BY <1>1, <1>8 DEF After
  <2>2. CASE j = 1
    BY <1>1, <2>1, <2>2
  <2>3. CASE j # 1
    <3>1. j - 1 \in 1 .. i - 1 /\ j - 1 \in 1 .. Len(t) /\ (j - 1) + 1 = j
      BY <1>1, <2>1, <2>3
    <3>2. t[j - 1] = x
      BY <1>1, <2>1, <3>1
    <3> QED BY <3>1, <3>2 DEF After
  <2> QED BY <2>2, <2>3
<1>9. ASSUME NEW i \in 1 .. Len(t), t[i].doc = "meta" PROVE MetaSound(t, i, m2, os2, ss2)
  <2> DEFINE o == t[i].org
             w == t[i].ws
  <2>1. t[i] = ws[i + 1] /\ MetaSound(ws, i + 1, m, os, ss)
    BY <1>1, <1>2, <1>4, <1>9
  <2>2. m2 = m
    BY <1>5, <1>9 DEF m2, MetaWith
  <2>3. \/ o = None /\ m = None
        \/ /\ o # None /\ m # None /\ m.org \in {None, o}
           /\ <<o, w>> \in ss \/ After(ws, i + 1, SaveWorkspace(o, w))
           /\ o \in os \/ After(ws, i + 1, SaveOrganization(o))
    BY <2>1 DEF MetaSound
  <2> HIDE DEF o, w
  <2>4. d = SaveWorkspace(o, w) => <<o, w>> \in ss2
    BY DEF ss2, SpacesWith, SaveWorkspace
  <2>5. d = SaveOrganization(o) => o \in os2
    BY DEF os2, OrgsWith, SaveOrganization
  <2>6. <<o, w>> \in ss \/ After(ws, i + 1, SaveWorkspace(o, w)) =>
          <<o, w>> \in ss2 \/ After(t, i, SaveWorkspace(o, w))
    BY <1>3, <1>8, <2>4
  <2>7. o \in os \/ After(ws, i + 1, SaveOrganization(o)) =>
          o \in os2 \/ After(t, i, SaveOrganization(o))
    BY <1>3, <1>8, <2>5
  <2>8. \/ o = None /\ m2 = None
        \/ /\ o # None /\ m2 # None /\ m2.org \in {None, o}
           /\ <<o, w>> \in ss2 \/ After(t, i, SaveWorkspace(o, w))
           /\ o \in os2 \/ After(t, i, SaveOrganization(o))
    BY <2>2, <2>3, <2>6, <2>7
  <2> QED BY <2>8 DEF MetaSound, o, w
<1>10. Pending(t, m2, os2, ss2, cs2)
  BY <1>1, <1>6, <1>7, <1>9 DEF Pending
<1> QED BY <1>10 DEF t, m2, os2, ss2, cs2

\* A write that is left is done now or is still left.
LEMMA LeftRest ==
  ASSUME NEW ws \in Seq(Documents), ws # <<>>, NEW x, Left(ws, x)
  PROVE  x = Head(ws) \/ Left(Tail(ws), x)
<1>1. PICK i \in 1 .. Len(ws) : ws[i] = x
  BY DEF Left
<1>2. /\ Len(ws) \in Nat \ {0} /\ Head(ws) = ws[1] /\ Len(Tail(ws)) = Len(ws) - 1
      /\ \A j \in 1 .. Len(Tail(ws)) : Tail(ws)[j] = ws[j + 1]
  BY HeadTailProperties
<1>3. CASE i = 1
  BY <1>1, <1>2, <1>3
<1>4. CASE i # 1
  <2>1. i - 1 \in 1 .. Len(Tail(ws)) /\ (i - 1) + 1 = i
    BY <1>1, <1>2, <1>4
  <2> QED BY <1>1, <1>2, <2>1 DEF Left
<1> QED BY <1>3, <1>4

\* What is promised of an answer stays promised when the first write is done.
LEMMA AnswerStays ==
  ASSUME NEW m, NEW os, NEW ss, NEW cs, NEW ws, Pending(ws, m, os, ss, cs), ws # <<>>,
         DiskSound(m, os, ss), ScopeBounds, NEW d, d = Head(ws),
         NEW a, AnswerSound(ws, a, m, os, ss, cs)
  PROVE  AnswerSound(Tail(ws), a, MetaWith(m, d), OrgsWith(os, d), SpacesWith(ss, d), PlacedWith(cs, d))
<1> DEFINE m2 == MetaWith(m, d)
           os2 == OrgsWith(os, d)
           ss2 == SpacesWith(ss, d)
           cs2 == PlacedWith(cs, d)
           c == [id |-> a.id, org |-> a.org, ws |-> a.ws]
<1>1. \A x : Left(ws, x) => x = d \/ Left(Tail(ws), x)
  BY LeftRest DEF Pending
<1>2. /\ os \subseteq os2 /\ ss \subseteq ss2 /\ cs \subseteq cs2
      /\ m # None /\ m.org # None => m2 # None /\ m2.org = m.org
  BY WrittenSound
<1> HIDE DEF c
<1>3. d = SaveContainer(c) => c \in cs2
  BY DEF PlacedWith, SaveContainer
<1>4. d = SaveOrganization(a.org) => a.org \in os2
  BY DEF OrgsWith, SaveOrganization
<1>5. d = SaveWorkspace(a.org, a.ws) => <<a.org, a.ws>> \in ss2
  BY DEF SpacesWith, SaveWorkspace
<1>6. ASSUME NEW w \in Spaces \cup {None}, d = SaveMeta(a.org, w) PROVE m2 # None /\ m2.org = a.org
  <2>1. d \in Documents
    BY FirstWrite
  <2>2. m2 = [org |-> d.org, ws |-> d.ws] /\ d.org = a.org
    BY <1>6 DEF MetaWith, SaveMeta
  <2>3. m2 \in Meta
    BY <1>6, <2>1, <2>2 DEF Documents, Meta, SaveMeta
  <2> QED BY <2>2, <2>3 DEF ScopeBounds
<1> HIDE DEF m2, os2, ss2, cs2
<1>7. a.kind # "corrupt"
  BY DEF AnswerSound
<1>8. ASSUME ~ a.scoped
      PROVE  /\ a.org # None
             /\ \/ m2 # None /\ m2.org = a.org
                \/ \E w \in Spaces \cup {None} : Left(Tail(ws), SaveMeta(a.org, w))
  <2>1. /\ a.org # None
        /\ \/ m # None /\ m.org = a.org
           \/ \E w \in Spaces \cup {None} : Left(ws, SaveMeta(a.org, w))
    BY <1>8 DEF AnswerSound
  <2>2. CASE m # None /\ m.org = a.org
    BY <1>2, <2>1, <2>2
  <2>3. CASE \E w \in Spaces \cup {None} : Left(ws, SaveMeta(a.org, w))
    BY <1>1, <1>6, <2>1, <2>3
  <2> QED BY <2>1, <2>2, <2>3
<1>9. a.kind = "container" => c \in cs2 \/ Left(Tail(ws), SaveContainer(c))
  <2>1. a.kind = "container" => c \in cs \/ Left(ws, SaveContainer(c))
    BY DEF AnswerSound, c
  <2> QED BY <1>1, <1>2, <1>3, <2>1
<1>10. a.kind \in {"organization", "workspace"} =>
         /\ a.org \in os2 \/ Left(Tail(ws), SaveOrganization(a.org))
         /\ <<a.org, a.ws>> \in ss2 \/ Left(Tail(ws), SaveWorkspace(a.org, a.ws))
  <2>1. a.kind \in {"organization", "workspace"} =>
          /\ a.org \in os \/ Left(ws, SaveOrganization(a.org))
          /\ <<a.org, a.ws>> \in ss \/ Left(ws, SaveWorkspace(a.org, a.ws))
    BY DEF AnswerSound
  <2> QED BY <1>1, <1>2, <1>4, <1>5, <2>1
<1>11. AnswerSound(Tail(ws), a, m2, os2, ss2, cs2)
  BY <1>7, <1>8, <1>9, <1>10 DEF AnswerSound, c
<1> QED BY <1>11 DEF m2, os2, ss2, cs2

\* What was answered stays right as the store grows.
LEMMA AnswersKept ==
  ASSUME NEW m, NEW os, NEW ss, NEW cs, NEW m2, NEW os2, NEW ss2, NEW cs2,
         os \subseteq os2, ss \subseteq ss2, cs \subseteq cs2,
         m # None /\ m.org # None => m2 # None /\ m2.org = m.org,
         NEW a, AnswerSound(<<>>, a, m, os, ss, cs)
  PROVE  AnswerSound(<<>>, a, m2, os2, ss2, cs2)
<1>1. \A x : ~ Left(<<>>, x)
  BY DEF Left
<1> QED BY <1>1 DEF AnswerSound

-----------------------------------------------------------------------------
(* The writes a call decides on *)

\* One of the writes is of this kind.
Holds(ws, kind) == \E i \in 1 .. Len(ws) : ws[i].doc = kind

\* Nothing to write.
LEMMA EmptyPending ==
  ASSUME NEW m, NEW os, NEW ss, NEW cs
  PROVE  Pending(<<>>, m, os, ss, cs) /\ (\A k : ~ Holds(<<>>, k)) /\ \A x : ~ Left(<<>>, x)
<1>1. <<>> \in Seq(Documents) /\ Len(<<>>) = 0
  OBVIOUS
<1> QED BY <1>1 DEF Pending, Holds, Left

\* One more write of a kind there is none of.
LEMMA AppendPending ==
  ASSUME NEW m, NEW os, NEW ss, NEW cs, NEW ws, Pending(ws, m, os, ss, cs),
         NEW x \in Documents, ~ Holds(ws, x.doc),
         x.doc = "meta" => /\ x.org # None /\ m # None /\ m.org \in {None, x.org}
                           /\ <<x.org, x.ws>> \in ss \/ Left(ws, SaveWorkspace(x.org, x.ws))
                           /\ x.org \in os \/ Left(ws, SaveOrganization(x.org)),
         x.doc = "container" => \A k \in cs : ~ SameId(k, x.container)
  PROVE  /\ Pending(Append(ws, x), m, os, ss, cs)
         /\ \A k : Holds(Append(ws, x), k) => Holds(ws, k) \/ k = x.doc
         /\ \A y : Left(ws, y) \/ y = x => Left(Append(ws, x), y)
<1> DEFINE u == Append(ws, x)
           n == Len(ws)
<1>1. /\ ws \in Seq(Documents) /\ n \in Nat /\ u \in Seq(Documents) /\ Len(u) = n + 1
      /\ u[n + 1] = x /\ \A i \in 1 .. n : u[i] = ws[i]
  BY AppendProperties DEF Pending
<1>2. \A i \in 1 .. Len(u) : i \in 1 .. n \/ i = n + 1
  BY <1>1
<1>3. \A i \in 1 .. n : ws[i].doc # x.doc
  BY DEF Holds
<1>4. /\ \A i, j \in 1 .. n : ws[i].doc = ws[j].doc => i = j
      /\ \A i \in 1 .. n : ws[i].doc = "meta" => MetaSound(ws, i, m, os, ss)
      /\ \A i \in 1 .. n : ws[i].doc = "container" => \A k \in cs : ~ SameId(k, ws[i].container)
  BY DEF Pending
<1>5. \A y : Left(ws, y) <=> After(u, n + 1, y)
  BY <1>1 DEF Left, After
<1> HIDE DEF u, n
<1>6. \A i, j \in 1 .. Len(u) : u[i].doc = u[j].doc => i = j
  BY <1>1, <1>2, <1>3, <1>4
<1>7. \A i \in 1 .. Len(u) : u[i].doc = "container" => \A k \in cs : ~ SameId(k, u[i].container)
  BY <1>1, <1>2, <1>4
<1>8. ASSUME NEW i \in 1 .. Len(u), u[i].doc = "meta" PROVE MetaSound(u, i, m, os, ss)
  <2>1. CASE i \in 1 .. n
    <3>1. MetaSound(ws, i, m, os, ss) /\ u[i] = ws[i]
      BY <1>1, <1>4, <1>8, <2>1
    <3>2. \A y : After(ws, i, y) => After(u, i, y)
      <4>1. \A j \in 1 .. i - 1 : j \in 1 .. n
        BY <1>1, <2>1
      <4> QED BY <1>1, <4>1 DEF After
    <3> QED BY <3>1, <3>2 DEF MetaSound
  <2>2. CASE i = n + 1
    <3>1. u[i] = x /\ x.doc = "meta"
      BY <1>1, <1>8, <2>2
    <3> QED BY <1>5, <2>2, <3>1 DEF MetaSound
  <2> QED BY <1>2, <2>1, <2>2
<1>9. Pending(u, m, os, ss, cs)
  BY <1>1, <1>6, <1>7, <1>8 DEF Pending
<1>10. \A k : Holds(u, k) => Holds(ws, k) \/ k = x.doc
  BY <1>1, <1>2 DEF Holds, n
<1>11. \A y : Left(ws, y) \/ y = x => Left(u, y)
  <2>1. n + 1 \in 1 .. Len(u) /\ \A i \in 1 .. n : i \in 1 .. Len(u)
    BY <1>1
  <2> QED BY <1>1, <2>1 DEF Left, n
<1> QED BY <1>9, <1>10, <1>11 DEF u

\* Concatenations the calls make.
LEMMA Joined ==
  ASSUME NEW s \in Seq(Documents), NEW x
  PROVE  s \o <<x>> = Append(s, x) /\ s \o <<>> = s /\ <<x>> = Append(<<>>, x) /\ <<>> \o s = s
<1>1. s \o <<>> = s /\ <<>> \o s = s
  BY ConcatEmptySeq
<1>2. s \o <<x>> = Append(s, x) /\ <<x>> = Append(<<>>, x)
  OBVIOUS
<1> QED BY <1>1, <1>2

\* The scope a call resolved, with the writes before it.
ScopeSound(d) ==
  /\ Pending(d.writes, meta, orgs, spaces, containers) /\ ~ Holds(d.writes, "container")
  /\ d.error \in {None, "missing", "empty", "ambiguous"}
  /\ d.error = None => d.org \in Orgs /\ d.ws \in Spaces

\* The default scope will be store.json's.
IsDefault(d) ==
  d.error = None =>
    \/ meta.org = d.org
    \/ \E w \in Spaces \cup {None} : Left(d.writes, SaveMeta(d.org, w))

\* The scope is or will be there.
IsStored(d) ==
  d.error = None =>
    /\ d.org \in orgs \/ Left(d.writes, SaveOrganization(d.org))
    /\ <<d.org, d.ws>> \in spaces \/ Left(d.writes, SaveWorkspace(d.org, d.ws))

\* The documents are of their kinds.
LEMMA DocumentsTyped ==
  ASSUME NEW o \in Orgs, NEW w \in Spaces
  PROVE  /\ SaveOrganization(o) \in Documents /\ SaveOrganization(o).doc = "organization"
         /\ SaveWorkspace(o, w) \in Documents /\ SaveWorkspace(o, w).doc = "workspace"
         /\ SaveMeta(o, w) \in Documents /\ SaveMeta(o, w).doc = "meta"
         /\ SaveMeta(o, w).org = o /\ SaveMeta(o, w).ws = w
BY DEF SaveOrganization, SaveWorkspace, SaveMeta, Documents

\* A new default is written from the inside out: organization, workspace, store.json.
LEMMA NewDefault ==
  ASSUME ScopeBounds, NEW o \in Orgs, NEW w \in Spaces, meta # None, meta.org = None,
         NEW ws, ws = NewOrg(o) \o NewSpace(o, w) \o <<SaveMeta(o, w)>>
  PROVE  /\ Pending(ws, meta, orgs, spaces, containers) /\ ~ Holds(ws, "container")
         /\ Left(ws, SaveMeta(o, w))
         /\ o \in orgs \/ Left(ws, SaveOrganization(o))
         /\ <<o, w>> \in spaces \/ Left(ws, SaveWorkspace(o, w))
<1> DEFINE P(s) == Pending(s, meta, orgs, spaces, containers)
           a == NewOrg(o)
           b == NewOrg(o) \o NewSpace(o, w)
           so == SaveOrganization(o)
           sw == SaveWorkspace(o, w)
           sm == SaveMeta(o, w)
<1>1. /\ so \in Documents /\ so.doc = "organization" /\ sw \in Documents /\ sw.doc = "workspace"
      /\ sm \in Documents /\ sm.doc = "meta" /\ sm.org = o /\ sm.ws = w /\ o # None
  BY DocumentsTyped DEF ScopeBounds
<1>2. (a = <<>> /\ o \in orgs) \/ a = <<so>>
  BY DEF NewOrg
<1>3. (NewSpace(o, w) = <<>> /\ <<o, w>> \in spaces) \/ NewSpace(o, w) = <<sw>>
  BY DEF NewSpace
<1> HIDE DEF so, sw, sm, a
<1>4. P(<<>>) /\ (\A k : ~ Holds(<<>>, k)) /\ \A x : ~ Left(<<>>, x)
  BY EmptyPending
<1>5. /\ P(a) /\ (\A k : Holds(a, k) => k = "organization") /\ (o \in orgs \/ Left(a, so))
  <2>1. CASE a = <<>> /\ o \in orgs
    BY <1>4, <2>1
  <2>2. CASE a = <<so>>
    <3>1. <<so>> = Append(<<>>, so)
      OBVIOUS
    <3>2. /\ P(Append(<<>>, so)) /\ \A k : Holds(Append(<<>>, so), k) => Holds(<<>>, k) \/ k = so.doc
          /\ \A y : Left(<<>>, y) \/ y = so => Left(Append(<<>>, so), y)
      BY <1>1, <1>4, AppendPending
    <3> QED BY <1>1, <1>4, <2>2, <3>1, <3>2
  <2> QED BY <1>2, <2>1, <2>2
<1>6. /\ P(b) /\ (\A k : Holds(b, k) => k \in {"organization", "workspace"}) /\ (o \in orgs \/ Left(b, so))
      /\ (<<o, w>> \in spaces \/ Left(b, sw))
  <2>1. a \in Seq(Documents) /\ b = a \o NewSpace(o, w)
    BY <1>5 DEF Pending, a
  <2> HIDE DEF b
  <2>2. CASE NewSpace(o, w) = <<>> /\ <<o, w>> \in spaces
    <3>1. b = a
      BY <2>1, <2>2, Joined
    <3> QED BY <1>5, <2>2, <3>1
  <2>3. CASE NewSpace(o, w) = <<sw>>
    <3>1. b = Append(a, sw)
      BY <2>1, <2>3, Joined
    <3>2. /\ P(Append(a, sw)) /\ \A k : Holds(Append(a, sw), k) => Holds(a, k) \/ k = sw.doc
          /\ \A y : Left(a, y) \/ y = sw => Left(Append(a, sw), y)
      <4>1. ~ Holds(a, sw.doc)
        BY <1>1, <1>5
      <4> QED BY <1>1, <1>5, <4>1, AppendPending
    <3> QED BY <1>1, <1>5, <3>1, <3>2
  <2> QED BY <1>3, <2>2, <2>3
<1>7. ws = Append(b, sm)
  <2>1. b \in Seq(Documents) /\ ws = b \o <<sm>>
    BY <1>6 DEF Pending, sm
  <2> HIDE DEF b
  <2> QED BY <2>1, Joined
<1> HIDE DEF b
<1>8. /\ P(Append(b, sm)) /\ \A k : Holds(Append(b, sm), k) => Holds(b, k) \/ k = sm.doc
      /\ \A y : Left(b, y) \/ y = sm => Left(Append(b, sm), y)
  <2>1. ~ Holds(b, sm.doc)
    BY <1>1, <1>6
  <2>2. /\ sm.org # None /\ meta # None /\ meta.org \in {None, sm.org}
        /\ <<sm.org, sm.ws>> \in spaces \/ Left(b, SaveWorkspace(sm.org, sm.ws))
        /\ sm.org \in orgs \/ Left(b, SaveOrganization(sm.org))
    BY <1>1, <1>6 DEF so, sw
  <2> QED BY <1>1, <1>6, <2>1, <2>2, AppendPending
<1> QED BY <1>1, <1>6, <1>7, <1>8 DEF so, sw, sm

\* The fields of a resolved scope.
LEMMA ScopeFields ==
  ASSUME NEW ws, NEW o, NEW w
  PROVE  /\ Scope(ws, o, w).writes = ws /\ Scope(ws, o, w).org = o
         /\ Scope(ws, o, w).ws = w /\ Scope(ws, o, w).error = None
         /\ Failed(ws, w).writes = ws /\ Failed(ws, w).error = w
BY DEF Scope, Failed

\* _ensure_default_scope_locked never finds a default that is not stored, and what it
\* resolves to is, or is about to be, stored and named by store.json.
LEMMA DefaultScopesSound ==
  ASSUME ScopeBounds, DiskSound(meta, orgs, spaces), meta # None,
         NEW d \in DefaultScopes
  PROVE  ScopeSound(d) /\ IsDefault(d) /\ IsStored(d)
<1>1. orgs \subseteq Orgs /\ spaces \subseteq Orgs \X Spaces
  BY DEF DiskSound
<1>2. CASE meta.org = None
  <2>1. PICK o \in FirstOrgs : \E w \in FirstSpaces(o) :
          d = Scope(NewOrg(o) \o NewSpace(o, w) \o <<SaveMeta(o, w)>>, o, w)
    BY <1>2 DEF DefaultScopes
  <2>6. PICK w \in FirstSpaces(o) :
          d = Scope(NewOrg(o) \o NewSpace(o, w) \o <<SaveMeta(o, w)>>, o, w)
    BY <2>1
  <2>2. o \in Orgs
    BY <1>1, <2>1 DEF FirstOrgs
  <2>3. w \in Spaces
    BY <2>6 DEF FirstSpaces, SpacesOf
  <2> DEFINE ws == NewOrg(o) \o NewSpace(o, w) \o <<SaveMeta(o, w)>>
  <2>4. /\ Pending(ws, meta, orgs, spaces, containers) /\ ~ Holds(ws, "container")
        /\ Left(ws, SaveMeta(o, w))
        /\ o \in orgs \/ Left(ws, SaveOrganization(o))
        /\ <<o, w>> \in spaces \/ Left(ws, SaveWorkspace(o, w))
    BY <1>2, <2>2, <2>3, NewDefault
  <2>10. d = Scope(ws, o, w)
    BY <2>6
  <2> HIDE DEF ws
  <2>5. d.writes = ws /\ d.org = o /\ d.ws = w /\ d.error = None
    BY <2>10, ScopeFields
  <2>7. ScopeSound(d)
    BY <2>2, <2>3, <2>4, <2>5 DEF ScopeSound
  <2>8. IsDefault(d)
    BY <2>3, <2>4, <2>5 DEF IsDefault
  <2>9. IsStored(d)
    BY <2>4, <2>5 DEF IsStored
  <2> QED BY <2>7, <2>8, <2>9
<1>3. CASE meta.org # None
  <2>1. <<meta.org, meta.ws>> \in spaces /\ meta.org \in orgs
    BY <1>3 DEF DiskSound
  <2>2. meta.org \in Orgs /\ meta.ws \in Spaces /\ meta.ws # None
    BY <1>1, <2>1 DEF ScopeBounds
  <2>3. d = Scope(<<>>, meta.org, meta.ws)
    BY <1>3, <2>1, <2>2 DEF DefaultScopes
  <2>4. d.writes = <<>> /\ d.org = meta.org /\ d.ws = meta.ws /\ d.error = None
    BY <2>3, ScopeFields
  <2> QED BY <2>1, <2>2, <2>4, EmptyPending DEF ScopeSound, IsDefault, IsStored
<1> QED BY <1>2, <1>3

\* A workspace that is looked up is found or reported.
LEMMA InWorkspaceSound ==
  ASSUME ScopeBounds, spaces \subseteq Orgs \X Spaces, NEW ws,
         Pending(ws, meta, orgs, spaces, containers), ~ Holds(ws, "container"), NEW o, NEW w,
         NEW d, d = InWorkspace(ws, o, w)
  PROVE  ScopeSound(d) /\ d.writes = ws /\ (d.error = None => d.org = o)
<1>1. CASE <<o, w>> \in spaces
  <2>1. d = Scope(ws, o, w)
    BY <1>1 DEF InWorkspace
  <2>2. o \in Orgs /\ w \in Spaces
    BY <1>1
  <2>3. d.writes = ws /\ d.org = o /\ d.ws = w /\ d.error = None
    BY <2>1, ScopeFields
  <2> QED BY <2>2, <2>3 DEF ScopeSound
<1>2. CASE <<o, w>> \notin spaces
  <2>1. d = Failed(ws, "missing")
    BY <1>2 DEF InWorkspace
  <2>2. None # "missing"
    BY DEF ScopeBounds, Errors
  <2>3. d.writes = ws /\ d.error = "missing"
    BY <2>1, ScopeFields
  <2> QED BY <2>2, <2>3 DEF ScopeSound
<1> QED BY <1>1, <1>2

\* _resolve_scope_locked: an organization that is not named is the default one.
LEMMA ResolveSound ==
  ASSUME ScopeBounds, DiskSound(meta, orgs, spaces), meta # None,
         NEW o \in orgs \cup {None}, NEW w, NEW d \in ResolveScope(o, w)
  PROVE  ScopeSound(d) /\ (o = None => IsDefault(d))
<1>1. orgs \subseteq Orgs /\ spaces \subseteq Orgs \X Spaces
  BY DEF DiskSound
<1>2. CASE o = None
  <2>1. PICK e \in DefaultScopes :
          d = IF w = None \/ e.error # None THEN e ELSE InWorkspace(e.writes, e.org, w)
    BY <1>2 DEF ResolveScope
  <2>2. ScopeSound(e) /\ IsDefault(e)
    BY <2>1, DefaultScopesSound
  <2>3. CASE w = None \/ e.error # None
    BY <2>1, <2>2, <2>3
  <2>4. CASE w # None /\ e.error = None
    <3>1. d = InWorkspace(e.writes, e.org, w)
      BY <2>1, <2>4
    <3>2. ScopeSound(d) /\ d.writes = e.writes /\ (d.error = None => d.org = e.org)
      BY <1>1, <2>2, <3>1, InWorkspaceSound DEF ScopeSound
    <3> QED BY <2>2, <2>4, <3>2 DEF IsDefault
  <2> QED BY <2>3, <2>4
<1>3. CASE o # None
  <2> DEFINE named == IF w = None /\ meta.org = o THEN meta.ws ELSE w
  <2>1. o \in orgs /\ o \in Orgs
    BY <1>1, <1>3
  <2>2. d \in CASE named # None -> {InWorkspace(<<>>, o, named)}
                 [] named = None /\ Cardinality(SpacesOf(o)) = 1 ->
                      {Scope(<<>>, o, x) : x \in SpacesOf(o)}
                 [] OTHER -> {Failed(<<>>, IF SpacesOf(o) = {} THEN "empty" ELSE "ambiguous")}
    BY <1>3, <2>1 DEF ResolveScope
  <2> HIDE DEF named
  <2>3. Pending(<<>>, meta, orgs, spaces, containers) /\ ~ Holds(<<>>, "container")
    BY EmptyPending
  <2>4. CASE named # None
    <3>1. d = InWorkspace(<<>>, o, named)
      BY <2>2, <2>4
    <3> QED BY <1>1, <1>3, <2>3, <3>1, InWorkspaceSound
  <2>5. CASE named = None /\ Cardinality(SpacesOf(o)) = 1
    <3>1. PICK x \in SpacesOf(o) : d = Scope(<<>>, o, x)
      BY <2>2, <2>5
    <3>2. x \in Spaces
      BY <3>1 DEF SpacesOf
    <3>3. d.writes = <<>> /\ d.org = o /\ d.ws = x /\ d.error = None
      BY <3>1, ScopeFields
    <3> QED BY <1>3, <2>1, <2>3, <3>2, <3>3 DEF ScopeSound
  <2>6. CASE named = None /\ Cardinality(SpacesOf(o)) # 1
    <3>1. d = Failed(<<>>, "empty") \/ d = Failed(<<>>, "ambiguous")
      BY <2>2, <2>6
    <3>2. None # "empty" /\ None # "ambiguous"
      BY DEF ScopeBounds, Errors
    <3>3. d.writes = <<>> /\ d.error \in {"empty", "ambiguous"}
      BY <3>1, ScopeFields
    <3> QED BY <1>3, <2>3, <3>2, <3>3 DEF ScopeSound
  <2> QED BY <2>4, <2>5, <2>6
<1> QED BY <1>2, <1>3

-----------------------------------------------------------------------------
(* Calls *)

\* An error says nothing that could be wrong, as long as it is not a corrupt store.
LEMMA RefusalSound ==
  ASSUME NEW why \in (Errors \ {"corrupt"}) \cup {"initialized", "conflict", "found"},
         NEW ws, NEW m, NEW os, NEW ss, NEW cs
  PROVE  Refusal(why) \in Answers /\ AnswerSound(ws, Refusal(why), m, os, ss, cs)
<1>1. /\ Refusal(why) \in Answers /\ Refusal(why).kind = why
      /\ Refusal(why).scoped = TRUE
  BY DEF Refusal, Answer, Answers, Errors
<1> QED BY <1>1 DEF AnswerSound, Errors

\* A call that decides on sound writes and a sound answer keeps the invariant.
LEMMA CallKeeps ==
  ASSUME ScopeBounds, ScopeInv, NEW p \in Clients, NEW ws, NEW a \in Answers,
         Call(p, ws, a), Pending(ws, meta, orgs, spaces, containers),
         AnswerSound(ws, a, meta, orgs, spaces, containers)
  PROVE  ScopeInv'
<1> DEFINE j == [writes |-> ws, answer |-> a]
<1>1. /\ \A q \in Clients : job[q] = None
      /\ job' = [job EXCEPT ![p] = j]
      /\ UNCHANGED <<meta, orgs, spaces, containers, stops, acked>>
  BY DEF Call
<1>2. j \in Job /\ j.writes = ws /\ j.answer = a
  BY DEF Pending, Job
<1> HIDE DEF j
<1>3. job \in [Clients -> Job \cup {None}]
  BY DEF ScopeInv
<1>4. job' \in [Clients -> Job \cup {None}]
  BY <1>1, <1>2, <1>3
<1>5. job'[p] = j /\ \A q \in Clients \ {p} : job'[q] = None
  BY <1>1, <1>3
<1>6. \A q, r \in Clients : job'[q] # None /\ job'[r] # None => q = r
  BY <1>5
<1>7. ASSUME NEW q \in Clients, job'[q] # None
      PROVE  /\ Pending(job'[q].writes, meta, orgs, spaces, containers)
             /\ AnswerSound(job'[q].writes, job'[q].answer, meta, orgs, spaces, containers)
  BY <1>2, <1>5, <1>7
<1> QED BY <1>1, <1>4, <1>6, <1>7 DEF ScopeInv

\* initialize writes the first store.json.
LEMMA InitializeKeeps ==
  ASSUME ScopeBounds, ScopeInv, NEW p \in Clients, Initialize(p)
  PROVE  ScopeInv'
<1> DEFINE x == SaveMeta(None, None)
           ws == <<x>>
<1>1. meta = None /\ Call(p, ws, Refusal("initialized"))
  BY DEF Initialize
<1>2. x \in Documents /\ x.doc = "meta" /\ x.org = None
  BY DEF SaveMeta, Documents
<1> HIDE DEF x
<1>3. ws \in Seq(Documents) /\ Len(ws) = 1 /\ ws[1] = x
  BY <1>2
<1> HIDE DEF ws
<1>4. MetaSound(ws, 1, meta, orgs, spaces)
  BY <1>1, <1>2, <1>3 DEF MetaSound
<1>5. \A i \in 1 .. Len(ws) : i = 1
  BY <1>3
<1>6. \A i, j \in 1 .. Len(ws) : ws[i].doc = ws[j].doc => i = j
  BY <1>5
<1>7. \A i \in 1 .. Len(ws) : ws[i].doc # "container"
  BY <1>2, <1>3, <1>5
<1>8. Pending(ws, meta, orgs, spaces, containers)
  BY <1>3, <1>4, <1>5, <1>6, <1>7 DEF Pending
<1>9. /\ Refusal("initialized") \in Answers
      /\ AnswerSound(ws, Refusal("initialized"), meta, orgs, spaces, containers)
  BY RefusalSound
<1> QED BY <1>1, <1>8, <1>9, CallKeeps

\* ensure_default_scope answers with what store.json names or is about to name.
LEMMA EnsureDefaultScopeKeeps ==
  ASSUME ScopeBounds, ScopeInv, NEW p \in Clients, EnsureDefaultScope(p)
  PROVE  ScopeInv'
<1>1. PICK d \in DefaultScopes :
        Call(p, d.writes, IF d.error # None THEN Refusal(d.error)
                                 ELSE Answer("organization", d.org, None, d.ws, FALSE))
  BY DEF EnsureDefaultScope
<1>2. meta # None /\ DiskSound(meta, orgs, spaces)
  BY DEF EnsureDefaultScope, ScopeInv
<1>3. ScopeSound(d) /\ IsDefault(d) /\ IsStored(d)
  BY <1>1, <1>2, DefaultScopesSound
<1>4. CASE d.error # None
  <2>1. Call(p, d.writes, Refusal(d.error))
    BY <1>1, <1>4
  <2>2. d.error \in (Errors \ {"corrupt"}) \cup {"initialized", "conflict", "found"}
    BY <1>3, <1>4 DEF ScopeSound, Errors
  <2>3. /\ Refusal(d.error) \in Answers
        /\ AnswerSound(d.writes, Refusal(d.error), meta, orgs, spaces, containers)
    BY <2>2, RefusalSound
  <2> QED BY <1>3, <2>1, <2>3, CallKeeps DEF ScopeSound
<1>5. CASE d.error = None
  <2> DEFINE a == Answer("organization", d.org, None, d.ws, FALSE)
  <2>1. Call(p, d.writes, a)
    BY <1>1, <1>5
  <2>2. d.org \in Orgs /\ d.ws \in Spaces /\ d.org # None /\ Pending(d.writes, meta, orgs, spaces, containers)
    BY <1>3, <1>5 DEF ScopeSound, ScopeBounds
  <2>3. /\ a \in Answers /\ a.kind = "organization" /\ a.org = d.org /\ a.ws = d.ws
        /\ a.scoped = FALSE
    BY <2>2 DEF Answer, Answers
  <2> HIDE DEF a
  <2>4. meta.org = d.org \/ \E w \in Spaces \cup {None} : Left(d.writes, SaveMeta(d.org, w))
    BY <1>3, <1>5 DEF IsDefault
  <2>5. /\ d.org \in orgs \/ Left(d.writes, SaveOrganization(d.org))
        /\ <<d.org, d.ws>> \in spaces \/ Left(d.writes, SaveWorkspace(d.org, d.ws))
    BY <1>3, <1>5 DEF IsStored
  <2>6. AnswerSound(d.writes, a, meta, orgs, spaces, containers)
    BY <1>2, <2>2, <2>3, <2>4, <2>5 DEF AnswerSound
  <2> QED BY <2>1, <2>2, <2>3, <2>6, CallKeeps
<1> QED BY <1>4, <1>5

\* The writes of a new organization or workspace: the files, then store.json if it has no
\* default yet.
LEMMA NewScopeWrites ==
  ASSUME ScopeBounds, NEW o \in Orgs, NEW w \in Spaces, meta # None,
         NEW ws, Pending(ws, meta, orgs, spaces, containers),
         \A k : Holds(ws, k) => k \in {"organization", "workspace"},
         o \in orgs \/ Left(ws, SaveOrganization(o)),
         <<o, w>> \in spaces \/ Left(ws, SaveWorkspace(o, w)),
         NEW first \in BOOLEAN, first => meta.org \in {None, o},
         NEW v, v = ws \o (IF first THEN <<SaveMeta(o, w)>> ELSE <<>>),
         NEW kind \in {"organization", "workspace"}
  PROVE  /\ Pending(v, meta, orgs, spaces, containers)
         /\ Answer(kind, o, None, w, TRUE) \in Answers
         /\ AnswerSound(v, Answer(kind, o, None, w, TRUE), meta, orgs, spaces, containers)
<1> DEFINE x == SaveMeta(o, w)
           a == Answer(kind, o, None, w, TRUE)
<1>1. x \in Documents /\ x.doc = "meta" /\ x.org = o /\ x.ws = w /\ o # None
  BY DocumentsTyped DEF ScopeBounds
<1>2. a \in Answers /\ a.kind = kind /\ a.org = o /\ a.ws = w /\ a.scoped = TRUE
  BY DEF Answer, Answers
<1>3. v = IF first THEN Append(ws, x) ELSE ws
  <2>1. ws \in Seq(Documents)
    BY DEF Pending
  <2> HIDE DEF x
  <2> QED BY <2>1, Joined DEF x
<1> HIDE DEF a, x
<1>4. /\ Pending(v, meta, orgs, spaces, containers)
      /\ \A y : Left(ws, y) => Left(v, y)
  <2>1. CASE first
    <3>1. ~ Holds(ws, x.doc)
      BY <1>1
    <3>2. /\ x.org # None /\ meta # None /\ meta.org \in {None, x.org}
          /\ <<x.org, x.ws>> \in spaces \/ Left(ws, SaveWorkspace(x.org, x.ws))
          /\ x.org \in orgs \/ Left(ws, SaveOrganization(x.org))
      BY <1>1, <2>1
    <3>3. /\ Pending(Append(ws, x), meta, orgs, spaces, containers)
          /\ \A y : Left(ws, y) \/ y = x => Left(Append(ws, x), y)
      BY <1>1, <3>1, <3>2, AppendPending
    <3> QED BY <1>3, <2>1, <3>3
  <2>2. CASE ~ first
    BY <1>3, <2>2
  <2> QED BY <2>1, <2>2
<1>5. AnswerSound(v, a, meta, orgs, spaces, containers)
  BY <1>2, <1>4 DEF AnswerSound
<1> QED BY <1>2, <1>4, <1>5 DEF a

\* The documents of a new organization or workspace.
LEMMA NewDocuments ==
  ASSUME NEW o \in Orgs, NEW w \in Spaces
  PROVE  LET one == <<SaveWorkspace(o, w)>>
             two == <<SaveOrganization(o), SaveWorkspace(o, w)>>
         IN
         /\ Pending(one, meta, orgs, spaces, containers) /\ Pending(two, meta, orgs, spaces, containers)
         /\ \A k : Holds(one, k) \/ Holds(two, k) => k \in {"organization", "workspace"}
         /\ Left(one, SaveWorkspace(o, w))
         /\ Left(two, SaveOrganization(o)) /\ Left(two, SaveWorkspace(o, w))
<1> DEFINE so == SaveOrganization(o)
           sw == SaveWorkspace(o, w)
           one == <<sw>>
           two == <<so, sw>>
<1>1. so \in Documents /\ so.doc = "organization" /\ sw \in Documents /\ sw.doc = "workspace"
  BY DocumentsTyped
<1> HIDE DEF so, sw
<1>3. /\ one \in Seq(Documents) /\ Len(one) = 1 /\ one[1] = sw
      /\ two \in Seq(Documents) /\ Len(two) = 2 /\ two[1] = so /\ two[2] = sw
  BY <1>1
<1> HIDE DEF one, two
<1>4. (\A i \in 1 .. Len(one) : i = 1) /\ (\A i \in 1 .. Len(two) : i = 1 \/ i = 2)
  BY <1>3
<1>5. /\ \A i \in 1 .. Len(one) : one[i].doc \notin {"meta", "container"}
      /\ \A i \in 1 .. Len(two) : two[i].doc \notin {"meta", "container"}
  BY <1>1, <1>3, <1>4
<1>6. \A i, j \in 1 .. Len(one) : one[i].doc = one[j].doc => i = j
  BY <1>4
<1>7. \A i, j \in 1 .. Len(two) : two[i].doc = two[j].doc => i = j
  BY <1>1, <1>3, <1>4
<1>8. Pending(one, meta, orgs, spaces, containers)
  BY <1>3, <1>5, <1>6 DEF Pending
<1>9. Pending(two, meta, orgs, spaces, containers)
  BY <1>3, <1>5, <1>7 DEF Pending
<1>10. \A k : Holds(one, k) \/ Holds(two, k) => k \in {"organization", "workspace"}
  BY <1>1, <1>3, <1>4 DEF Holds
<1>11. 1 \in 1 .. Len(one) /\ 1 \in 1 .. Len(two) /\ 2 \in 1 .. Len(two)
  BY <1>3
<1>12. Left(one, sw) /\ Left(two, so) /\ Left(two, sw)
  BY <1>3, <1>11 DEF Left
<1> QED BY <1>8, <1>9, <1>10, <1>12 DEF one, two, so, sw

\* create_organization writes the organization, its workspace and perhaps store.json.
LEMMA CreateOrganizationKeeps ==
  ASSUME ScopeBounds, ScopeInv, NEW p \in Clients, CreateOrganization(p)
  PROVE  ScopeInv'
<1>1. PICK o \in Orgs \ orgs : \E w \in Spaces \ UsedSpaces :
        Call(p, <<SaveOrganization(o), SaveWorkspace(o, w)>>
                         \o (IF meta.org = None THEN <<SaveMeta(o, w)>> ELSE <<>>),
                    Answer("organization", o, None, w, TRUE))
  BY DEF CreateOrganization
<1>2. PICK w \in Spaces \ UsedSpaces :
        Call(p, <<SaveOrganization(o), SaveWorkspace(o, w)>>
                         \o (IF meta.org = None THEN <<SaveMeta(o, w)>> ELSE <<>>),
                    Answer("organization", o, None, w, TRUE))
  BY <1>1
<1> DEFINE ws == <<SaveOrganization(o), SaveWorkspace(o, w)>>
           first == meta.org = None
           v == ws \o (IF first THEN <<SaveMeta(o, w)>> ELSE <<>>)
           a == Answer("organization", o, None, w, TRUE)
<1>3. Call(p, v, a) /\ meta # None
  BY <1>2 DEF CreateOrganization
<1>4. /\ Pending(ws, meta, orgs, spaces, containers) /\ \A k : Holds(ws, k) => k \in {"organization", "workspace"}
      /\ Left(ws, SaveOrganization(o)) /\ Left(ws, SaveWorkspace(o, w))
  BY NewDocuments
<1> HIDE DEF ws
<1>5. v = ws \o (IF first THEN <<SaveMeta(o, w)>> ELSE <<>>) /\ first \in BOOLEAN
      /\ (first => meta.org \in {None, o})
  OBVIOUS
<1> HIDE DEF v, first
<1>6. /\ Pending(v, meta, orgs, spaces, containers) /\ a \in Answers
      /\ AnswerSound(v, a, meta, orgs, spaces, containers)
  BY <1>3, <1>4, <1>5, NewScopeWrites
<1> HIDE DEF a
<1> QED BY <1>3, <1>6, CallKeeps

\* create_workspace writes the workspace and perhaps store.json.
LEMMA CreateWorkspaceKeeps ==
  ASSUME ScopeBounds, ScopeInv, NEW p \in Clients, NEW o \in Orgs, CreateWorkspace(p, o)
  PROVE  ScopeInv'
<1>1. CASE o \notin orgs
  <2>1. Call(p, <<>>, Refusal("missing"))
    BY <1>1 DEF CreateWorkspace
  <2>2. "missing" \in (Errors \ {"corrupt"}) \cup {"initialized", "conflict", "found"}
    BY DEF Errors
  <2>3. /\ Refusal("missing") \in Answers
        /\ AnswerSound(<<>>, Refusal("missing"), meta, orgs, spaces, containers)
    BY <2>2, RefusalSound
  <2>4. Pending(<<>>, meta, orgs, spaces, containers)
    BY EmptyPending
  <2> QED BY <2>1, <2>3, <2>4, CallKeeps
<1>2. CASE o \in orgs
  <2>1. PICK w \in Spaces \ UsedSpaces :
          Call(p, <<SaveWorkspace(o, w)>>
                           \o (IF meta.org = o /\ meta.ws = None THEN <<SaveMeta(o, w)>> ELSE <<>>),
                      Answer("workspace", o, None, w, TRUE))
    BY <1>2 DEF CreateWorkspace
  <2> DEFINE ws == <<SaveWorkspace(o, w)>>
             first == meta.org = o /\ meta.ws = None
             v == ws \o (IF first THEN <<SaveMeta(o, w)>> ELSE <<>>)
             a == Answer("workspace", o, None, w, TRUE)
  <2>2. Call(p, v, a) /\ meta # None
    BY <2>1 DEF CreateWorkspace
  <2>3. /\ Pending(ws, meta, orgs, spaces, containers) /\ \A k : Holds(ws, k) => k \in {"organization", "workspace"}
        /\ Left(ws, SaveWorkspace(o, w))
    BY NewDocuments
  <2> HIDE DEF ws
  <2>4. v = ws \o (IF first THEN <<SaveMeta(o, w)>> ELSE <<>>) /\ first \in BOOLEAN
        /\ (first => meta.org \in {None, o})
    OBVIOUS
  <2> HIDE DEF v, first
  <2>5. /\ Pending(v, meta, orgs, spaces, containers) /\ a \in Answers
        /\ AnswerSound(v, a, meta, orgs, spaces, containers)
    BY <1>2, <2>2, <2>3, <2>4, NewScopeWrites
  <2> HIDE DEF a
  <2> QED BY <2>2, <2>5, CallKeeps
<1> QED BY <1>1, <1>2

\* A call that fails, or only looks, writes what its scope needed.
LEMMA RefusalKeeps ==
  ASSUME ScopeBounds, ScopeInv, NEW p \in Clients, NEW d, ScopeSound(d),
         NEW why \in (Errors \ {"corrupt"}) \cup {"initialized", "conflict", "found"},
         Call(p, d.writes, Refusal(why))
  PROVE  ScopeInv'
<1>1. /\ Refusal(why) \in Answers
      /\ AnswerSound(d.writes, Refusal(why), meta, orgs, spaces, containers)
  BY RefusalSound
<1> QED BY <1>1, CallKeeps DEF ScopeSound

\* create_container writes the container last, under an identifier no container has.
LEMMA CreateContainerKeeps ==
  ASSUME ScopeBounds, ScopeInv, NEW p \in Clients, NEW c \in Ids, NEW o \in orgs \cup {None},
         NEW w, CreateContainer(p, c, o, w)
  PROVE  ScopeInv'
<1>1. PICK d \in ResolveScope(o, w) :
        CASE d.error # None -> Call(p, d.writes, Refusal(d.error))
          [] d.error = None /\ ~ Available(d.org, c) ->
               Call(p, d.writes, Refusal("conflict"))
          [] OTHER ->
               Call(p, Append(d.writes, SaveContainer([id |-> c, org |-> d.org, ws |-> d.ws])),
                           Answer("container", d.org, c, d.ws, o # None))
  BY DEF CreateContainer
<1>2. meta # None /\ DiskSound(meta, orgs, spaces)
  BY DEF CreateContainer, ScopeInv
<1>3. ScopeSound(d) /\ (o = None => IsDefault(d))
  BY <1>1, <1>2, ResolveSound
<1>4. CASE d.error # None
  <2>1. Call(p, d.writes, Refusal(d.error))
    BY <1>1, <1>4
  <2>2. d.error \in (Errors \ {"corrupt"}) \cup {"initialized", "conflict", "found"}
    BY <1>3, <1>4 DEF ScopeSound, Errors
  <2> QED BY <1>3, <2>1, <2>2, RefusalKeeps
<1>5. CASE d.error = None /\ ~ Available(d.org, c)
  <2>1. Call(p, d.writes, Refusal("conflict"))
    BY <1>1, <1>5
  <2> QED BY <1>3, <2>1, RefusalKeeps
<1>6. CASE d.error = None /\ Available(d.org, c)
  <2> DEFINE k == [id |-> c, org |-> d.org, ws |-> d.ws]
             x == SaveContainer(k)
             v == Append(d.writes, x)
             a == Answer("container", d.org, c, d.ws, o # None)
  <2>1. Call(p, v, a)
    BY <1>1, <1>6
  <2>2. /\ d.org \in Orgs /\ d.ws \in Spaces /\ d.org # None
        /\ Pending(d.writes, meta, orgs, spaces, containers) /\ ~ Holds(d.writes, "container")
    BY <1>3, <1>6 DEF ScopeSound, ScopeBounds
  <2>3. k \in Container /\ k.org = d.org /\ k.id = c
    BY <2>2 DEF Container
  <2>4. /\ a \in Answers /\ a.kind = "container" /\ a.org = d.org /\ a.id = c /\ a.ws = d.ws
        /\ (a.scoped <=> o # None)
    <3>1. (o # None) \in BOOLEAN
      OBVIOUS
    <3>2. a = [kind |-> "container", org |-> d.org, id |-> c, ws |-> d.ws, scoped |-> o # None]
      BY DEF Answer
    <3> HIDE DEF a
    <3> QED BY <2>2, <3>1, <3>2 DEF Answers
  <2> HIDE DEF k
  <2>5. x \in Documents /\ x.doc = "container" /\ x.container = k
    BY <2>3 DEF SaveContainer, Documents
  <2>6. \A y \in containers : ~ SameId(y, k)
    BY <1>6, <2>3 DEF Available, SameId
  <2>7. [id |-> a.id, org |-> a.org, ws |-> a.ws] = k
    BY <2>4 DEF k
  <2> HIDE DEF x, a
  <2>8. /\ Pending(Append(d.writes, x), meta, orgs, spaces, containers)
        /\ \A y : Left(d.writes, y) \/ y = x => Left(Append(d.writes, x), y)
    <3>1. ~ Holds(d.writes, x.doc)
      BY <2>2, <2>5
    <3>2. x.doc # "meta" /\ \A y \in containers : ~ SameId(y, x.container)
      BY <2>5, <2>6
    <3> DEFINE u == d.writes
    <3>3. Pending(u, meta, orgs, spaces, containers) /\ ~ Holds(u, x.doc)
      BY <2>2, <3>1
    <3> HIDE DEF u
    <3>4. /\ Pending(Append(u, x), meta, orgs, spaces, containers)
          /\ \A y : Left(u, y) \/ y = x => Left(Append(u, x), y)
      BY <2>5, <3>2, <3>3, AppendPending
    <3> QED BY <3>4 DEF u
  <2> HIDE DEF v
  <2>9. Pending(v, meta, orgs, spaces, containers) /\ Left(v, x) /\ \A y : Left(d.writes, y) => Left(v, y)
    BY <2>8 DEF v
  <2>10. ~ a.scoped => \/ meta.org = d.org
                       \/ \E z \in Spaces \cup {None} : Left(v, SaveMeta(d.org, z))
    BY <1>3, <1>6, <2>4, <2>9 DEF IsDefault
  <2>11. Left(v, SaveContainer([id |-> a.id, org |-> a.org, ws |-> a.ws]))
    BY <2>7, <2>9 DEF x
  <2>12. AnswerSound(v, a, meta, orgs, spaces, containers)
    BY <1>2, <2>2, <2>4, <2>10, <2>11 DEF AnswerSound
  <2> QED BY <2>1, <2>4, <2>9, <2>12, CallKeeps
<1> QED BY <1>4, <1>5, <1>6

\* get_container and list_containers may create the default scope, and write nothing else.
LEMMA FindContainerKeeps ==
  ASSUME ScopeBounds, ScopeInv, NEW p \in Clients, NEW c \in Ids, NEW o \in orgs \cup {None},
         FindContainer(p, c, o)
  PROVE  ScopeInv'
<1> DEFINE why(d) == CASE d.error # None -> d.error
                       [] d.error = None /\ Available(d.org, c) -> "missing"
                       [] OTHER -> "found"
<1>1. PICK d \in IF o = None THEN DefaultScopes
                 ELSE {IF o \in orgs THEN Scope(<<>>, o, None) ELSE Failed(<<>>, "missing")} :
        Call(p, d.writes, Refusal(why(d)))
  BY DEF FindContainer
<1>2. meta # None /\ DiskSound(meta, orgs, spaces)
  BY DEF FindContainer, ScopeInv
<1>3. d.error \in {None} \cup (Errors \ {"corrupt"}) /\ Pending(d.writes, meta, orgs, spaces, containers)
  <2>1. CASE o = None
    <3>1. ScopeSound(d)
      BY <1>1, <1>2, <2>1, DefaultScopesSound
    <3> QED BY <3>1 DEF ScopeSound, Errors
  <2>2. CASE o # None
    <3>1. d = Scope(<<>>, o, None)
      BY <1>1, <2>2
    <3>2. d.writes = <<>> /\ d.error = None
      BY <3>1, ScopeFields
    <3> QED BY <3>2, EmptyPending
  <2> QED BY <2>1, <2>2
<1>4. why(d) \in (Errors \ {"corrupt"}) \cup {"initialized", "conflict", "found"}
  BY <1>3 DEF Errors
<1> HIDE DEF why
<1>5. /\ Refusal(why(d)) \in Answers
      /\ AnswerSound(d.writes, Refusal(why(d)), meta, orgs, spaces, containers)
  BY <1>4, RefusalSound
<1> QED BY <1>1, <1>3, <1>5, CallKeeps

\* _write_document: one more of the writes a call decided on is done.
LEMMA WriteKeeps ==
  ASSUME ScopeBounds, ScopeInv, NEW p \in Clients, Write(p)
  PROVE  ScopeInv'
<1> DEFINE ws == job[p].writes
           a == job[p].answer
           d == Head(ws)
           j == [job[p] EXCEPT !.writes = Tail(ws)]
<1>1. /\ job[p] # None /\ ws # <<>>
      /\ meta' = MetaWith(meta, d) /\ orgs' = OrgsWith(orgs, d) /\ spaces' = SpacesWith(spaces, d)
      /\ containers' = PlacedWith(containers, d)
      /\ job' = [job EXCEPT ![p] = j] /\ acked' = acked
  BY DEF Write, MetaWith, OrgsWith, SpacesWith, PlacedWith
<1>2. /\ DiskSound(meta, orgs, spaces) /\ job \in [Clients -> Job \cup {None}]
      /\ \A q, r \in Clients : job[q] # None /\ job[r] # None => q = r
      /\ Pending(ws, meta, orgs, spaces, containers) /\ AnswerSound(ws, a, meta, orgs, spaces, containers)
      /\ \A b \in acked : AnswerSound(<<>>, b, meta, orgs, spaces, containers)
  BY <1>1 DEF ScopeInv
<1>3. job[p] \in Job
  BY <1>1, <1>2
<1>4. j \in Job /\ j.writes = Tail(ws) /\ j.answer = a
  <2>1. ws \in Seq(Documents) /\ Tail(ws) \in Seq(Documents)
    BY <1>1, <1>3, HeadTailProperties DEF Job
  <2> QED BY <1>3, <2>1 DEF Job
<1> HIDE DEF ws, a, d, j
<1>5. /\ DiskSound(meta', orgs', spaces')
      /\ orgs \subseteq orgs' /\ spaces \subseteq spaces' /\ containers \subseteq containers'
      /\ meta # None /\ meta.org # None => meta' # None /\ meta'.org = meta.org
  BY <1>1, <1>2, WrittenSound DEF d
<1>6. Pending(Tail(ws), meta', orgs', spaces', containers')
  BY <1>1, <1>2, RestPending DEF d
<1>7. AnswerSound(Tail(ws), a, meta', orgs', spaces', containers')
  BY <1>1, <1>2, AnswerStays DEF d
<1>8. \A b \in acked' : AnswerSound(<<>>, b, meta', orgs', spaces', containers')
  BY <1>1, <1>2, <1>5, AnswersKept
<1>9. job' \in [Clients -> Job \cup {None}] /\ job'[p] = j /\ \A q \in Clients \ {p} : job'[q] = None
  BY <1>1, <1>2, <1>4
<1>10. \A q, r \in Clients : job'[q] # None /\ job'[r] # None => q = r
  BY <1>9
<1>11. ASSUME NEW q \in Clients, job'[q] # None
       PROVE  /\ Pending(job'[q].writes, meta', orgs', spaces', containers')
              /\ AnswerSound(job'[q].writes, job'[q].answer, meta', orgs', spaces', containers')
  <2>1. q = p
    BY <1>9, <1>11
  <2> QED BY <1>4, <1>6, <1>7, <1>9, <2>1
<1>12. DiskSound(meta', orgs', spaces')
  BY <1>5
<1> QED BY <1>8, <1>9, <1>10, <1>11, <1>12 DEF ScopeInv

\* A call returns when all it decided on is written.
LEMMA ReturnKeeps ==
  ASSUME ScopeBounds, ScopeInv, NEW p \in Clients, Return(p)
  PROVE  ScopeInv'
<1>1. /\ job[p] # None /\ job[p].writes = <<>>
      /\ acked' = acked \cup {job[p].answer} /\ job' = [job EXCEPT ![p] = None]
      /\ UNCHANGED <<meta, orgs, spaces, containers>>
  BY DEF Return
<1>2. AnswerSound(<<>>, job[p].answer, meta, orgs, spaces, containers)
  BY <1>1 DEF ScopeInv
<1>3. \A b \in acked' : AnswerSound(<<>>, b, meta, orgs, spaces, containers)
  BY <1>1, <1>2 DEF ScopeInv
<1>4. /\ job' \in [Clients -> Job \cup {None}]
      /\ \A q \in Clients : job'[q] # None => job'[q] = job[q]
  BY <1>1 DEF ScopeInv
<1> QED BY <1>1, <1>3, <1>4 DEF ScopeInv

\* A call that stops leaves what it wrote, and no answer.
LEMMA StopKeeps ==
  ASSUME ScopeBounds, ScopeInv, NEW p \in Clients, Stop(p)
  PROVE  ScopeInv'
<1>1. job' = [job EXCEPT ![p] = None] /\ UNCHANGED <<meta, orgs, spaces, containers, acked>>
  BY DEF Stop
<1>2. /\ job' \in [Clients -> Job \cup {None}]
      /\ \A q \in Clients : job'[q] # None => job'[q] = job[q]
  BY <1>1 DEF ScopeInv
<1> QED BY <1>1, <1>2 DEF ScopeInv

\* What holds between any two writes gives what is promised to callers.
LEMMA ScopeInvSuffices ==
  ASSUME ScopeInv
  PROVE  ScopesSound
<1>1. \A x : ~ Left(<<>>, x)
  BY EmptyPending
<1>2. ASSUME NEW a \in acked
      PROVE  /\ a.kind # "corrupt"
             /\ ~ a.scoped => a.org = meta.org
             /\ a.kind = "container" => [id |-> a.id, org |-> a.org, ws |-> a.ws] \in containers
             /\ a.kind \in {"organization", "workspace"} => a.org \in orgs /\ <<a.org, a.ws>> \in spaces
  <2>1. AnswerSound(<<>>, a, meta, orgs, spaces, containers)
    BY DEF ScopeInv
  <2> QED BY <1>1, <2>1 DEF AnswerSound
<1>3. DefaultResolves
  BY <1>2 DEF ScopeInv, DiskSound, DefaultResolves
<1>4. FoundWithoutScope /\ AckedContainerKept /\ AckedOrganizationUsable
  BY <1>2 DEF FoundWithoutScope, AckedContainerKept, AckedOrganizationUsable
<1> QED BY <1>3, <1>4 DEF ScopesSound

\* Wherever calls and processes stop, the default scope of store.json names what is
\* stored and does not move, and what a call returned is where the call said.
THEOREM ScopesSoundHolds == Spec => []ScopesSound
<1> USE ScopeAssumption
<1>1. Init => ScopeInv
  BY DEF Init, ScopeInv, DiskSound
<1>2. ScopeInv /\ [Next]_vars => ScopeInv'
  <2> SUFFICES ASSUME ScopeInv, [Next]_vars PROVE ScopeInv'
    OBVIOUS
  <2>1. CASE UNCHANGED vars
    BY <2>1 DEF vars, ScopeInv
  <2>2. CASE Next
    <3>1. PICK p \in Clients :
            \/ Initialize(p) \/ EnsureDefaultScope(p) \/ CreateOrganization(p)
            \/ \E o \in Orgs : CreateWorkspace(p, o)
            \/ \E c \in Ids, o \in orgs \cup {None}, w \in UsedSpaces \cup {None} :
                  CreateContainer(p, c, o, w)
            \/ \E c \in Ids, o \in orgs \cup {None} : FindContainer(p, c, o)
            \/ Write(p) \/ Return(p) \/ Stop(p)
      BY <2>2 DEF Next
    <3>2. CASE Initialize(p)
      BY <3>2, InitializeKeeps
    <3>3. CASE EnsureDefaultScope(p)
      BY <3>3, EnsureDefaultScopeKeeps
    <3>4. CASE CreateOrganization(p)
      BY <3>4, CreateOrganizationKeeps
    <3>5. ASSUME NEW o \in Orgs, CreateWorkspace(p, o) PROVE ScopeInv'
      BY <3>5, CreateWorkspaceKeeps
    <3>6. ASSUME NEW c \in Ids, NEW o \in orgs \cup {None}, NEW w \in UsedSpaces \cup {None},
                 CreateContainer(p, c, o, w)
          PROVE  ScopeInv'
      BY <3>6, CreateContainerKeeps
    <3>7. ASSUME NEW c \in Ids, NEW o \in orgs \cup {None}, FindContainer(p, c, o) PROVE ScopeInv'
      BY <3>7, FindContainerKeeps
    <3>8. CASE Write(p)
      BY <3>8, WriteKeeps
    <3>9. CASE Return(p)
      BY <3>9, ReturnKeeps
    <3>10. CASE Stop(p)
      BY <3>10, StopKeeps
    <3> QED BY <3>1, <3>2, <3>3, <3>4, <3>5, <3>6, <3>7, <3>8, <3>9, <3>10
  <2> QED BY <2>1, <2>2
<1>3. ScopeInv => ScopesSound
  BY ScopeInvSuffices
<1> QED BY <1>1, <1>2, <1>3, PTL DEF Spec

-----------------------------------------------------------------------------
(***************************************************************************)
(* Jobs over a history file (HistoryJobs). A job that is through with the  *)
(* file finds its entry in it and in everything another job is about to    *)
(* write over it (SettledKept); before that, what it compared itself with  *)
(* is still the file (ComparedFresh) or the part of its own write before   *)
(* its entry (UnwrittenFresh), unless another job wrote meanwhile, which   *)
(* then counts it as raced. No other write holds an entry of a job that    *)
(* has not written (NotYetIn).                                             *)
(***************************************************************************)

HasCompared == {"compared", "appended", "truncated"}
NotWritten == {"idle", "measured"} \cup HasCompared

\* The entries a history holds, and what an alert can name.
HistoryEntries == [job : Jobs, reading : SiteReadings \cup PerfReadings]
AlertNames == {"site", "lcp", "tbt"} \cup UNION {DOMAIN r.templates : r \in SiteReadings}

JobRecords ==
  [stage : NotWritten \cup {"alert", "report", "ended"}, cmd : Commands, opts : SUBSET UNION OptionSets,
   reading : SiteReadings \cup PerfReadings \cup {Nothing}, aligned : BOOLEAN,
   alerts : SUBSET AlertNames, entries : Seq(HistoryEntries),
   attempt : Nat, received : Nat, lost : Nat, warned : BOOLEAN, exit : {Nothing, 0, 1, 2}]

HistoryTyped ==
  /\ file \in [Commands -> Seq(HistoryEntries)] /\ torn \subseteq Commands
  /\ run \in [Jobs -> JobRecords]
  /\ jobStops \in Nat /\ raced \subseteq Jobs

\* A job on its way.
JobInOrder(r) ==
  /\ r.exit = 0 => r.stage = "ended"
  /\ r.stage \in {"measured"} \cup HasCompared \cup {"alert"} =>
       r.reading \in Readings(r.cmd) /\ "history" \in r.opts
  /\ r.stage = "alert" => /\ r.alerts # {} /\ r.received = r.lost
                          /\ r.attempt <= MaxRetries
  /\ r.stage \in NotWritten => r.attempt = 0 /\ r.received = 0 /\ r.lost = 0
  /\ r.received <= 1 + r.lost /\ r.attempt <= MaxRetries + 1
  /\ r.received > 0 => r.alerts # {}
  /\ (r.stage = "report" \/ r.exit = 0) =>
       IF "history" \notin r.opts THEN r.alerts = {}
       ELSE r.alerts = {} \/ "alert-webhook" \notin r.opts \/ r.warned \/ r.received > 0

\* The history holds no entry of j.
WithoutJob(es, j) == \A i \in DOMAIN es : es[i].job # j

EntryOf(j, r) == [job |-> j, reading |-> r.reading]

Against(es, r) == r.alerts = Regressions(r.cmd, es, r.reading)

\* The history holds one entry of j, behind the ones j was compared with.
HoldsJob(es, j, r) ==
  \E i \in DOMAIN es :
    /\ es[i] = EntryOf(j, r)
    /\ \A k \in DOMAIN es : k # i => es[k].job # j
    /\ Against(SubSeq(es, 1, i - 1), r)

\* A job with the record r is through with the history.
Through(r) == (r.stage \in {"alert", "report"} \/ r.exit = 0) /\ "history" \in r.opts

Unwritten(r) == r.stage \in {"appended", "truncated"}

SettledKept ==
  \A j \in Jobs : Through(run[j]) /\ j \notin raced =>
    /\ Readable(run[j].cmd) => HoldsJob(file[run[j].cmd], j, run[j])
    /\ \A k \in Jobs : Unwritten(run[k]) /\ run[k].cmd = run[j].cmd => HoldsJob(run[k].entries, j, run[j])

ComparedFresh ==
  \A j \in Jobs : run[j].stage = "compared" /\ j \notin raced /\ Readable(run[j].cmd) =>
    Against(file[run[j].cmd], run[j])

UnwrittenFresh ==
  \A j \in Jobs : Unwritten(run[j]) =>
    \E es \in Seq(HistoryEntries) :
      /\ run[j].entries = Append(es, EntryOf(j, run[j])) /\ WithoutJob(es, j)
      /\ j \notin raced => Against(es, run[j])

NotYetIn ==
  \A j \in Jobs : run[j].stage \in NotWritten =>
    /\ \A cmd \in Commands : WithoutJob(file[cmd], j)
    /\ \A k \in Jobs : k # j /\ Unwritten(run[k]) => WithoutJob(run[k].entries, j)

HistoryInv ==
  /\ HistoryTyped /\ \A j \in Jobs : JobInOrder(run[j])
  /\ SettledKept /\ ComparedFresh /\ UnwrittenFresh /\ NotYetIn
  /\ TornOnlyByStop

-----------------------------------------------------------------------------
\* The entry of another job does not make j's appear.
LEMMA LacksGrows ==
  ASSUME NEW es \in Seq(HistoryEntries), NEW e \in HistoryEntries, NEW j, WithoutJob(es, j), e.job # j
  PROVE  Append(es, e) \in Seq(HistoryEntries) /\ WithoutJob(Append(es, e), j)
BY DEF WithoutJob

\* An entry of another job behind it leaves the entry of j where it is.
LEMMA HoldsGrows ==
  ASSUME NEW es \in Seq(HistoryEntries), NEW e \in HistoryEntries, NEW j, NEW r,
         HoldsJob(es, j, r), e.job # j
  PROVE  HoldsJob(Append(es, e), j, r)
<1> DEFINE fs == Append(es, e)
<1>1. PICK i \in DOMAIN es :
        /\ es[i] = EntryOf(j, r)
        /\ \A k \in DOMAIN es : k # i => es[k].job # j
        /\ Against(SubSeq(es, 1, i - 1), r)
  BY DEF HoldsJob
<1>2. /\ fs \in Seq(HistoryEntries) /\ Len(fs) = Len(es) + 1
      /\ \A k \in 1 .. Len(es) : fs[k] = es[k]
      /\ fs[Len(es) + 1] = e
  OBVIOUS
<1>3. i \in DOMAIN fs /\ i \in 1 .. Len(es)
  BY <1>2
<1> HIDE DEF fs
<1>4. SubSeq(fs, 1, i - 1) = SubSeq(es, 1, i - 1)
  <2>1. \A k \in 1 .. i - 1 : fs[k] = es[k]
    BY <1>2, <1>3
  <2> QED BY <1>2, <1>3, <2>1
<1>5. \A k \in DOMAIN fs : k # i => fs[k].job # j
  BY <1>1, <1>2
<1>6. fs[i] = EntryOf(j, r)
  BY <1>1, <1>2, <1>3
<1> QED BY <1>1, <1>3, <1>4, <1>5, <1>6 DEF HoldsJob, fs

\* An entry appended to what its job was compared with.
LEMMA HoldsNew ==
  ASSUME NEW es \in Seq(HistoryEntries), NEW j, NEW r, EntryOf(j, r) \in HistoryEntries,
         WithoutJob(es, j), Against(es, r)
  PROVE  HoldsJob(Append(es, EntryOf(j, r)), j, r)
<1> DEFINE e == EntryOf(j, r)
           fs == Append(es, e)
           i == Len(es) + 1
<1>1. /\ fs \in Seq(HistoryEntries) /\ Len(fs) = Len(es) + 1
      /\ \A k \in 1 .. Len(es) : fs[k] = es[k]
      /\ fs[i] = e
  OBVIOUS
<1> HIDE DEF fs, e
<1>2. i \in DOMAIN fs
  BY <1>1
<1>3. SubSeq(fs, 1, i - 1) = es
  BY <1>1
<1>4. \A k \in DOMAIN fs : k # i => fs[k].job # j
  BY <1>1 DEF WithoutJob
<1> QED BY <1>1, <1>2, <1>3, <1>4 DEF HoldsJob, fs, e

\* What the history knows of a job is its command, its reading and its alerts.
SameRun(r, s) == s.cmd = r.cmd /\ s.opts = r.opts /\ s.reading = r.reading /\ s.alerts = r.alerts

\* Where a job is does not matter to what the history knows of it.
LEMMA SameRunHolds ==
  ASSUME NEW r, NEW s, SameRun(r, s)
  PROVE  /\ \A es, j : HoldsJob(es, j, s) <=> HoldsJob(es, j, r)
         /\ \A es : Against(es, s) <=> Against(es, r)
         /\ \A j : EntryOf(j, s) = EntryOf(j, r)
BY DEF SameRun, HoldsJob, Against, EntryOf

\* A step of j that leaves the file alone: what j knows of it stays right, j may only have
\* read it just now, and no other job changes.
LEMMA FileStays ==
  ASSUME HistoryTyped, SettledKept, ComparedFresh, UnwrittenFresh, NotYetIn, 
         \A k \in Jobs : JobInOrder(run[k]),
         NEW j \in Jobs, NEW r \in JobRecords, run' = [run EXCEPT ![j] = r],
         file' = file, torn \subseteq torn', raced' = raced,
         Through(r) => Through(run[j]) /\ SameRun(run[j], r),
         Unwritten(r) => SameRun(run[j], r) /\
           \/ Unwritten(run[j]) /\ r.entries = run[j].entries
           \/ /\ run[j].stage = "compared" /\ Readable(r.cmd)
              /\ r.entries = Append(file[r.cmd], EntryOf(j, run[j])),
         r.stage \in NotWritten => run[j].stage \in NotWritten,
         r.stage = "compared" => Against(file[r.cmd], r)
  PROVE  SettledKept' /\ ComparedFresh' /\ UnwrittenFresh' /\ NotYetIn'
<1>1. /\ \A k \in Jobs : k # j => run'[k] = run[k]
      /\ run'[j] = r
      /\ \A k \in Jobs : run[k] \in JobRecords
      /\ \A cmd \in Commands : file[cmd] \in Seq(HistoryEntries)
      /\ r.cmd \in Commands
  BY DEF HistoryTyped, JobRecords
<1>2. \A k \in Jobs : Through(run'[k]) => Through(run[k]) /\ SameRun(run[k], run'[k])
  BY <1>1 DEF SameRun
<1>3. \A cmd : cmd \notin torn' => cmd \notin torn
  OBVIOUS
<1>4. \A k \in Jobs : run'[k].stage \in NotWritten => run[k].stage \in NotWritten
  BY <1>1
<1>5. \A k \in Jobs : Unwritten(run'[k]) /\ Unwritten(run[k]) =>
        run'[k].entries = run[k].entries /\ SameRun(run[k], run'[k])
  BY <1>1 DEF Unwritten, SameRun
\* The entry j brings, if it has read the history just now.
<1>6. \A k \in Jobs : Unwritten(run'[k]) /\ ~Unwritten(run[k]) =>
        /\ k = j /\ SameRun(run[j], r) /\ run[j].stage = "compared" /\ r.cmd \notin torn
        /\ EntryOf(j, run[j]) \in HistoryEntries
        /\ r.entries = Append(file[r.cmd], EntryOf(j, run[j]))
  <2> SUFFICES ASSUME Unwritten(r), ~Unwritten(run[j])
               PROVE  /\ SameRun(run[j], r) /\ run[j].stage = "compared" /\ r.cmd \notin torn
                      /\ EntryOf(j, run[j]) \in HistoryEntries
                      /\ r.entries = Append(file[r.cmd], EntryOf(j, run[j]))
    BY <1>1
  <2>1. /\ SameRun(run[j], r) /\ run[j].stage = "compared" /\ r.cmd \notin torn
        /\ r.entries = Append(file[r.cmd], EntryOf(j, run[j]))
    BY DEF Readable
  <2>2. EntryOf(j, run[j]) \in HistoryEntries
    BY <2>1, <1>1 DEF JobInOrder, HasCompared, EntryOf, HistoryEntries, Readings
  <2> QED BY <2>1, <2>2
<1>7. SettledKept'
  <2> SUFFICES ASSUME NEW i \in Jobs, Through(run'[i]), i \notin raced
               PROVE  /\ run'[i].cmd \notin torn' => HoldsJob(file[run'[i].cmd], i, run'[i])
                      /\ \A k \in Jobs : Unwritten(run'[k]) /\ run'[k].cmd = run'[i].cmd =>
                           HoldsJob(run'[k].entries, i, run'[i])
    BY DEF SettledKept, Readable
  <2>1. Through(run[i]) /\ SameRun(run[i], run'[i]) /\ run'[i].cmd = run[i].cmd
    BY <1>2 DEF SameRun
  <2>2. /\ run[i].cmd \notin torn => HoldsJob(file[run[i].cmd], i, run[i])
        /\ \A k \in Jobs : Unwritten(run[k]) /\ run[k].cmd = run[i].cmd => HoldsJob(run[k].entries, i, run[i])
    BY <2>1 DEF SettledKept, Readable
  <2>3. \A es : HoldsJob(es, i, run[i]) => HoldsJob(es, i, run'[i])
    BY <2>1, SameRunHolds
  <2>4. run'[i].cmd \notin torn' => HoldsJob(file[run'[i].cmd], i, run'[i])
    BY <2>1, <2>2, <2>3, <1>3
  <2>5. ASSUME NEW k \in Jobs, Unwritten(run'[k]), run'[k].cmd = run'[i].cmd
        PROVE  HoldsJob(run'[k].entries, i, run'[i])
    <3>1. CASE Unwritten(run[k])
      BY <3>1, <2>5, <1>5, <2>1, <2>2, <2>3 DEF SameRun
    <3>2. CASE ~Unwritten(run[k])
      <4>1. /\ k = j /\ SameRun(run[j], r) /\ run[j].stage = "compared" /\ r.cmd \notin torn
            /\ EntryOf(j, run[j]) \in HistoryEntries
            /\ r.entries = Append(file[r.cmd], EntryOf(j, run[j]))
        BY <3>2, <2>5, <1>6
      <4>2. i # j
        BY <4>1, <2>1 DEF Through, JobInOrder
      <4>3. r.cmd = run[i].cmd /\ HoldsJob(file[r.cmd], i, run[i])
        BY <4>1, <2>5, <2>1, <2>2, <1>1
      <4>4. EntryOf(j, run[j]).job # i
        BY <4>2 DEF EntryOf
      <4>5. HoldsJob(r.entries, i, run[i])
        BY <4>1, <4>3, <4>4, <1>1, HoldsGrows
      <4> QED BY <4>5, <4>1, <2>3, <1>1
    <3> QED BY <3>1, <3>2
  <2> QED BY <2>4, <2>5
<1>8. ComparedFresh'
  BY <1>1, <1>3 DEF ComparedFresh, Readable
<1>9. UnwrittenFresh'
  <2> SUFFICES ASSUME NEW i \in Jobs, Unwritten(run'[i])
               PROVE  \E es \in Seq(HistoryEntries) :
                        /\ run'[i].entries = Append(es, EntryOf(i, run'[i])) /\ WithoutJob(es, i)
                        /\ i \notin raced => Against(es, run'[i])
    BY DEF UnwrittenFresh
  <2>1. CASE Unwritten(run[i])
    <3>1. PICK es \in Seq(HistoryEntries) :
            /\ run[i].entries = Append(es, EntryOf(i, run[i])) /\ WithoutJob(es, i)
            /\ i \notin raced => Against(es, run[i])
      BY <2>1 DEF UnwrittenFresh
    <3>2. run'[i].entries = run[i].entries /\ SameRun(run[i], run'[i])
      BY <2>1, <1>5
    <3> QED BY <3>1, <3>2, SameRunHolds
  <2>2. CASE ~Unwritten(run[i])
    <3>1. /\ i = j /\ SameRun(run[j], r) /\ run[j].stage = "compared" /\ r.cmd \notin torn
          /\ r.entries = Append(file[r.cmd], EntryOf(j, run[j]))
      BY <2>2, <1>6
    <3>2. r.cmd = run[j].cmd
      BY <3>1 DEF SameRun
    <3>3. WithoutJob(file[r.cmd], j)
      BY <3>1, <1>1 DEF NotYetIn, NotWritten, HasCompared
    <3>4. j \notin raced => Against(file[r.cmd], run[j])
      BY <3>1, <3>2 DEF ComparedFresh, Readable
    <3>5. EntryOf(j, r) = EntryOf(j, run[j])
          /\ (Against(file[r.cmd], run[j]) => Against(file[r.cmd], r))
      BY <3>1, SameRunHolds
    <3>6. run'[i] = r /\ file[r.cmd] \in Seq(HistoryEntries)
      BY <3>1, <1>1
    <3> DEFINE before == file[r.cmd]
    <3>7. /\ r.entries = Append(before, EntryOf(i, r)) /\ WithoutJob(before, i)
          /\ i \notin raced => Against(before, r)
      BY <3>1, <3>3, <3>4, <3>5
    <3> HIDE DEF before
    <3>8. /\ run'[i].entries = Append(before, EntryOf(i, run'[i])) /\ WithoutJob(before, i)
          /\ i \notin raced => Against(before, run'[i])
      BY <3>6, <3>7
    <3>9. before \in Seq(HistoryEntries)
      BY <3>6 DEF before
    <3> QED BY <3>8, <3>9
  <2> QED BY <2>1, <2>2
<1>10. NotYetIn'
  <2> SUFFICES ASSUME NEW i \in Jobs, run'[i].stage \in NotWritten
               PROVE  /\ \A cmd \in Commands : WithoutJob(file[cmd], i)
                      /\ \A k \in Jobs : k # i /\ Unwritten(run'[k]) => WithoutJob(run'[k].entries, i)
    BY DEF NotYetIn
  <2>1. /\ \A cmd \in Commands : WithoutJob(file[cmd], i)
        /\ \A k \in Jobs : k # i /\ Unwritten(run[k]) => WithoutJob(run[k].entries, i)
    BY <1>4 DEF NotYetIn
  <2>2. ASSUME NEW k \in Jobs, k # i, Unwritten(run'[k])
        PROVE  WithoutJob(run'[k].entries, i)
    <3>1. CASE Unwritten(run[k])
      BY <3>1, <2>2, <2>1, <1>5
    <3>2. CASE ~Unwritten(run[k])
      <4>1. /\ k = j /\ EntryOf(j, run[j]) \in HistoryEntries
            /\ r.entries = Append(file[r.cmd], EntryOf(j, run[j]))
        BY <3>2, <2>2, <1>6
      <4>2. EntryOf(j, run[j]).job # i
        BY <4>1, <2>2 DEF EntryOf
      <4>3. WithoutJob(file[r.cmd], i)
        BY <2>1, <1>1
      <4> QED BY <4>1, <4>2, <4>3, <1>1, LacksGrows
    <3> QED BY <3>1, <3>2
  <2> QED BY <2>1, <2>2
<1> QED BY <1>7, <1>8, <1>9, <1>10

\* The job j goes on with the record r and leaves the file alone.
LEMMA JobGoesOn ==
  ASSUME HistoryInv, NEW j \in Jobs, NEW r \in JobRecords, run' = [run EXCEPT ![j] = r],
         file' = file, torn \subseteq torn', torn' \subseteq Commands, raced' = raced, jobStops' \in Nat,
         JobInOrder(r),
         TornOnlyByStop',
         Through(r) => Through(run[j]) /\ SameRun(run[j], r),
         Unwritten(r) => SameRun(run[j], r) /\
           \/ Unwritten(run[j]) /\ r.entries = run[j].entries
           \/ /\ run[j].stage = "compared" /\ Readable(r.cmd)
              /\ r.entries = Append(file[r.cmd], EntryOf(j, run[j])),
         r.stage \in NotWritten => run[j].stage \in NotWritten,
         r.stage = "compared" => Against(file[r.cmd], r)
  PROVE  HistoryInv'
<1>1. HistoryTyped'
  BY DEF HistoryInv, HistoryTyped
<1>2. \A k \in Jobs : JobInOrder(run'[k])
  BY DEF HistoryInv, HistoryTyped
<1>3. SettledKept' /\ ComparedFresh' /\ UnwrittenFresh' /\ NotYetIn'
  BY FileStays DEF HistoryInv
<1> QED BY <1>1, <1>2, <1>3 DEF HistoryInv

\* Only Fill mends a torn file.
LEMMA TornKept ==
  ASSUME HistoryTyped, TornOnlyByStop, NEW j \in Jobs, NEW r \in JobRecords,
         run' = [run EXCEPT ![j] = r], torn' = torn,
         r.cmd = run[j].cmd \/ run[j].stage = "idle",
         \/ jobStops' > 0
         \/ jobStops' = jobStops /\ run[j].stage # "truncated"
  PROVE  TornOnlyByStop'
<1> SUFFICES ASSUME NEW cmd \in Commands, cmd \in torn, ~(jobStops' > 0)
             PROVE  \E k \in Jobs : run'[k].cmd = cmd /\ run'[k].stage = "truncated"
  BY DEF TornOnlyByStop, Readable
<1>1. PICK k \in Jobs : run[k].cmd = cmd /\ run[k].stage = "truncated"
  BY DEF TornOnlyByStop, Readable
<1>2. k # j /\ run'[k] = run[k]
  BY <1>1 DEF HistoryTyped
<1> QED BY <1>1, <1>2

JobFields == {"stage", "cmd", "opts", "reading", "aligned", "alerts", "entries",
           "attempt", "received", "lost", "warned", "exit"}

\* The fields of a job's record, one by one.
LEMMA IsJobRecord ==
  ASSUME NEW r, r = [x \in JobFields |-> r[x]],
         r.stage \in NotWritten \cup {"alert", "report", "ended"}, r.cmd \in Commands,
         r.opts \in SUBSET UNION OptionSets,
         r.reading \in SiteReadings \cup PerfReadings \cup {Nothing}, r.aligned \in BOOLEAN,
         r.alerts \in SUBSET AlertNames, r.entries \in Seq(HistoryEntries),
         r.attempt \in Nat, r.received \in Nat, r.lost \in Nat,
         r.warned \in BOOLEAN, r.exit \in {Nothing, 0, 1, 2}
  PROVE  r \in JobRecords
BY DEF JobRecords, JobFields

\* A job's record is made of its fields.
LEMMA JobRecordFields ==
  ASSUME NEW r \in JobRecords
  PROVE  r = [x \in JobFields |-> r[x]]
BY DEF JobRecords, JobFields

\* A job that starts has compared and written nothing.
LEMMA StartsAs ==
  ASSUME HistoryBounds, HistoryInv, NEW j \in Jobs, run[j].stage = "idle", Quiet,
         NEW r, run' = [run EXCEPT ![j] = r], r = [x \in JobFields |-> r[x]],
         r.stage \in {"measured", "report", "ended"}, r.cmd \in Commands, r.opts \in OptionSets,
         r.reading \in Readings(r.cmd) \cup {Nothing}, r.aligned \in BOOLEAN,
         r.exit \in {Nothing, 2}, r.alerts = {}, r.entries = <<>>,
         r.attempt = 0, r.received = 0, r.lost = 0, r.warned = FALSE,
         r.stage = "measured" => r.reading \in Readings(r.cmd) /\ "history" \in r.opts,
         r.stage = "report" => "history" \notin r.opts
  PROVE  HistoryInv'
<1>1. /\ file' = file /\ torn' = torn /\ raced' = raced /\ jobStops' = jobStops
      /\ torn \subseteq Commands /\ jobStops \in Nat /\ HistoryTyped /\ TornOnlyByStop
  BY DEF Quiet, HistoryInv, HistoryTyped
<1>2. r.exit # 0
  BY DEF HistoryBounds
<1>3. r.opts \in SUBSET UNION OptionSets
  OBVIOUS
<1>4. r.reading \in SiteReadings \cup PerfReadings \cup {Nothing}
  BY DEF Readings
<1>5. r \in JobRecords
  <2>1. <<>> \in Seq(HistoryEntries) /\ {} \in SUBSET AlertNames /\ 0 \in Nat
    OBVIOUS
  <2>2. r.stage \in NotWritten \cup {"alert", "report", "ended"} /\ r.warned \in BOOLEAN
        /\ r.exit \in {Nothing, 0, 1, 2}
    BY DEF NotWritten, HasCompared
  <2> QED BY <1>3, <1>4, <2>1, <2>2, IsJobRecord
<1>6. JobInOrder(r)
  <2>1. /\ r.received <= 1 + r.lost /\ r.attempt <= MaxRetries + 1 /\ ~(r.received > 0)
        /\ r.stage \notin HasCompared \cup {"alert"}
    BY DEF HasCompared, HistoryBounds
  <2> QED BY <1>2, <2>1 DEF JobInOrder
<1>7. /\ ~Through(r) /\ ~Unwritten(r) /\ r.stage # "compared"
      /\ run[j].stage \in NotWritten
  BY <1>2 DEF Through, Unwritten, NotWritten, HasCompared
<1>8. TornOnlyByStop'
  BY <1>1, <1>5, TornKept
<1> QED BY <1>1, <1>5, <1>6, <1>7, <1>8, JobGoesOn

\* Start: a usage error ends the job, a job without a history goes on to its report.
LEMMA StartKeeps ==
  ASSUME HistoryBounds, HistoryInv, NEW j \in Jobs, Start(j)
  PROVE  HistoryInv'
<1>1. run[j].stage = "idle" /\ Quiet
  BY DEF Start
<1> SUFFICES ASSUME NEW cmd \in Commands, NEW opts \in OptionSets, NEW aligned \in BOOLEAN,
                    NEW reading \in Readings(cmd),
                    Set(j, IF cmd = "diagnose" /\ UsageError(opts)
                             THEN [Idle EXCEPT !.stage = "ended", !.opts = opts, !.exit = 2]
                             ELSE [Idle EXCEPT !.stage = IF "history" \in opts THEN "measured" ELSE "report",
                                               !.cmd = cmd, !.opts = opts, !.reading = reading,
                                               !.aligned = aligned])
             PROVE  HistoryInv'
  BY DEF Start
<1>2. CASE cmd = "diagnose" /\ UsageError(opts)
  <2> DEFINE r == [Idle EXCEPT !.stage = "ended", !.opts = opts, !.exit = 2]
  <2>1. /\ r = [x \in JobFields |-> r[x]] /\ r.stage = "ended" /\ r.cmd = "diagnose" /\ r.opts = opts
        /\ r.reading = Nothing /\ r.aligned = TRUE /\ r.exit = 2 /\ r.alerts = {}
        /\ r.entries = <<>> /\ r.attempt = 0 /\ r.received = 0 /\ r.lost = 0 /\ r.warned = FALSE
    BY DEF Idle, JobFields
  <2>2. run' = [run EXCEPT ![j] = r]
    BY <1>2 DEF Set
  <2> HIDE DEF r
  <2> QED BY <2>1, <2>2, <1>1, StartsAs DEF Commands
<1>3. CASE ~(cmd = "diagnose" /\ UsageError(opts))
  <2> DEFINE stage == IF "history" \in opts THEN "measured" ELSE "report"
             r == [Idle EXCEPT !.stage = stage, !.cmd = cmd, !.opts = opts, !.reading = reading,
                               !.aligned = aligned]
  <2>1. /\ stage \in {"measured", "report", "ended"}
        /\ stage = "measured" => "history" \in opts
        /\ stage = "report" => "history" \notin opts
    OBVIOUS
  <2>2. run' = [run EXCEPT ![j] = r]
    BY <1>3 DEF Set
  <2> HIDE DEF stage
  <2>3. /\ r = [x \in JobFields |-> r[x]] /\ r.stage = stage /\ r.cmd = cmd /\ r.opts = opts
        /\ r.reading = reading /\ r.aligned = aligned /\ r.exit = Nothing /\ r.alerts = {}
        /\ r.entries = <<>> /\ r.attempt = 0 /\ r.received = 0 /\ r.lost = 0 /\ r.warned = FALSE
    BY DEF Idle, JobFields
  <2> HIDE DEF r
  <2> QED BY <2>1, <2>2, <2>3, <1>1, StartsAs
<1> QED BY <1>2, <1>3

\* The facts about a job whose record every other step changes.
LEMMA JobAt ==
  ASSUME HistoryInv, NEW j \in Jobs
  PROVE  /\ HistoryTyped /\ TornOnlyByStop /\ JobInOrder(run[j]) /\ run[j] \in JobRecords
         /\ torn \subseteq Commands /\ jobStops \in Nat
         /\ \A cmd \in Commands : file[cmd] \in Seq(HistoryEntries)
BY DEF HistoryInv, HistoryTyped

\* A job that fails or is stopped; if it had emptied the file, that was a stop.
LEMMA AbortKeeps ==
  ASSUME HistoryBounds, HistoryInv, NEW j \in Jobs, run' = [run EXCEPT ![j] = Aborted(j)],
         file' = file, torn' = torn, raced' = raced,
         \/ jobStops' = jobStops + 1
         \/ jobStops' = jobStops /\ run[j].stage # "truncated"
  PROVE  HistoryInv'
<1> DEFINE r == Aborted(j)
<1>1. /\ HistoryTyped /\ TornOnlyByStop /\ JobInOrder(run[j]) /\ run[j] \in JobRecords
      /\ torn \subseteq Commands /\ jobStops \in Nat
  BY JobAt
<1>2. /\ r \in JobRecords /\ r.stage = "ended" /\ r.exit = 1 /\ r.cmd = run[j].cmd
      /\ r.received = run[j].received /\ r.lost = run[j].lost /\ r.attempt = run[j].attempt
      /\ r.alerts = run[j].alerts
  BY <1>1 DEF JobRecords, Aborted
<1> HIDE DEF r
<1>3. JobInOrder(r)
  BY <1>1, <1>2 DEF JobInOrder, NotWritten, HasCompared
<1>4. ~Through(r) /\ ~Unwritten(r) /\ r.stage \notin NotWritten
  BY <1>2 DEF Through, Unwritten, NotWritten, HasCompared
<1>5. run' = [run EXCEPT ![j] = r] /\ jobStops' \in Nat
  BY <1>1 DEF r
<1>6. \/ jobStops' > 0
      \/ jobStops' = jobStops /\ run[j].stage # "truncated"
  BY <1>1
<1>7. TornOnlyByStop'
  BY <1>1, <1>2, <1>5, <1>6, TornKept
<1> QED BY <1>1, <1>2, <1>3, <1>4, <1>5, <1>7, JobGoesOn DEF NotWritten

\* Compare: the alerts are those against the file as it is.
LEMMA CompareKeeps ==
  ASSUME HistoryBounds, HistoryInv, NEW j \in Jobs, Compare(j)
  PROVE  HistoryInv'
<1> DEFINE cmd == run[j].cmd
           r == [run[j] EXCEPT !.stage = "compared", !.alerts = Regressions(cmd, file[cmd], run[j].reading)]
<1>1. /\ HistoryTyped /\ TornOnlyByStop /\ JobInOrder(run[j]) /\ run[j] \in JobRecords
      /\ torn \subseteq Commands /\ jobStops \in Nat
  BY JobAt
<1>2. /\ run[j].stage = "measured" /\ file' = file /\ torn' = torn /\ raced' = raced
      /\ jobStops' = jobStops
  BY DEF Compare, Quiet
<1>3. CASE ~Readable(cmd)
  BY <1>2, <1>3, AbortKeeps DEF Compare, Set
<1>4. CASE Readable(cmd)
  <2>1. run' = [run EXCEPT ![j] = r]
    BY <1>4 DEF Compare, Set
  <2>2. Regressions(cmd, file[cmd], run[j].reading) \in SUBSET AlertNames
    <3>1. cmd \in Commands /\ run[j].reading \in Readings(cmd)
      BY <1>1, <1>2 DEF JobRecords, JobInOrder
    <3>2. \A previous : cmd = "diagnose" =>
            DetectRegression(previous, run[j].reading) \subseteq AlertNames
      BY <3>1 DEF Readings, DetectRegression, AlertNames
    <3>3. \A previous : DetectPerformanceRegression(previous, run[j].reading) \subseteq AlertNames
      BY DEF DetectPerformanceRegression, AlertNames
    <3> QED BY <3>2, <3>3 DEF Regressions
  <2>3. /\ r \in JobRecords /\ r.stage = "compared" /\ r.exit = run[j].exit
        /\ r.cmd = cmd /\ r.reading = run[j].reading /\ r.opts = run[j].opts
        /\ r.received = run[j].received /\ r.lost = run[j].lost /\ r.attempt = run[j].attempt
        /\ r.alerts = Regressions(cmd, file[cmd], run[j].reading)
    BY <1>1, <2>2 DEF JobRecords, NotWritten, HasCompared
  <2> HIDE DEF r
  <2>4. JobInOrder(r)
    BY <1>1, <1>2, <2>3 DEF JobInOrder, NotWritten, HasCompared, HistoryBounds
  <2>5. ~Through(r) /\ ~Unwritten(r) /\ run[j].stage \in NotWritten /\ Against(file[r.cmd], r)
    BY <1>1, <1>2, <2>3 DEF Through, Unwritten, NotWritten, HasCompared, Against, JobInOrder
  <2>6. TornOnlyByStop'
    BY <1>1, <1>2, <2>1, <2>3, TornKept
  <2> QED BY <1>1, <1>2, <2>1, <2>3, <2>4, <2>5, <2>6, JobGoesOn
<1> QED BY <1>3, <1>4

\* Append_: the file is read again; if it has changed since Compare, j was raced.
LEMMA AppendKeeps ==
  ASSUME HistoryBounds, HistoryInv, NEW j \in Jobs, Append_(j)
  PROVE  HistoryInv'
<1> DEFINE cmd == run[j].cmd
           r == [run[j] EXCEPT !.stage = "appended", !.entries = Append(file[cmd], Entry(j))]
<1>1. /\ HistoryTyped /\ TornOnlyByStop /\ JobInOrder(run[j]) /\ run[j] \in JobRecords
      /\ torn \subseteq Commands /\ jobStops \in Nat
      /\ cmd \in Commands /\ file[cmd] \in Seq(HistoryEntries)
  BY JobAt DEF JobRecords
<1>2. /\ run[j].stage = "compared" /\ file' = file /\ torn' = torn /\ raced' = raced
      /\ jobStops' = jobStops
  BY DEF Append_, Quiet
<1>3. CASE ~Readable(cmd)
  BY <1>2, <1>3, AbortKeeps DEF Append_, Set
<1>4. CASE Readable(cmd)
  <2>1. run' = [run EXCEPT ![j] = r]
    BY <1>4 DEF Append_, Set
  <2>2. Entry(j) = EntryOf(j, run[j]) /\ Entry(j) \in HistoryEntries
    BY <1>1, <1>2 DEF Entry, EntryOf, HistoryEntries, JobInOrder, HasCompared, Readings
  <2>3. Append(file[cmd], Entry(j)) \in Seq(HistoryEntries)
    BY <1>1, <2>2
  <2>4. /\ r \in JobRecords /\ r.stage = "appended" /\ r.exit = run[j].exit
        /\ r.cmd = cmd /\ r.reading = run[j].reading /\ r.opts = run[j].opts /\ r.alerts = run[j].alerts
        /\ r.received = run[j].received /\ r.lost = run[j].lost /\ r.attempt = run[j].attempt
        /\ r.entries = Append(file[cmd], Entry(j))
    BY <1>1, <2>3 DEF JobRecords, NotWritten, HasCompared
  <2> HIDE DEF r
  <2>5. JobInOrder(r)
    BY <1>1, <1>2, <2>4 DEF JobInOrder, NotWritten, HasCompared, HistoryBounds
  <2>6. ~Through(r) /\ SameRun(run[j], r) /\ run[j].stage \in NotWritten
    BY <1>1, <1>2, <2>4 DEF Through, SameRun, NotWritten, HasCompared, JobInOrder
  <2>7. TornOnlyByStop'
    BY <1>1, <1>2, <2>1, <2>4, TornKept
  <2> QED BY <1>1, <1>2, <1>4, <2>1, <2>2, <2>4, <2>5, <2>6, <2>7, JobGoesOn
<1> QED BY <1>3, <1>4

\* Truncate: from now on j accounts for the torn file.
LEMMA TruncateKeeps ==
  ASSUME HistoryBounds, HistoryInv, NEW j \in Jobs, Truncate(j)
  PROVE  HistoryInv'
<1> DEFINE r == [run[j] EXCEPT !.stage = "truncated"]
<1>1. /\ HistoryTyped /\ TornOnlyByStop /\ JobInOrder(run[j]) /\ run[j] \in JobRecords
      /\ torn \subseteq Commands /\ jobStops \in Nat
  BY JobAt
<1>2. /\ run[j].stage = "appended" /\ run' = [run EXCEPT ![j] = r] /\ file' = file
      /\ torn' = torn \cup {run[j].cmd} /\ raced' = raced /\ jobStops' = jobStops
  BY DEF Truncate, Set
<1>3. /\ r \in JobRecords /\ r.stage = "truncated" /\ r.exit = run[j].exit
      /\ SameRun(run[j], r) /\ r.entries = run[j].entries /\ r.cmd = run[j].cmd
      /\ r.reading = run[j].reading /\ r.opts = run[j].opts
      /\ r.received = run[j].received /\ r.lost = run[j].lost /\ r.attempt = run[j].attempt
  BY <1>1 DEF JobRecords, SameRun, NotWritten, HasCompared
<1>4. torn \subseteq torn' /\ torn' \subseteq Commands
  BY <1>1, <1>2 DEF JobRecords
<1> HIDE DEF r
<1>5. JobInOrder(r)
  BY <1>1, <1>2, <1>3 DEF JobInOrder, NotWritten, HasCompared, HistoryBounds
<1>6. ~Through(r) /\ Unwritten(run[j]) /\ run[j].stage \in NotWritten
  BY <1>1, <1>2, <1>3 DEF Through, Unwritten, NotWritten, HasCompared, JobInOrder
<1>7. TornOnlyByStop'
  <2> SUFFICES ASSUME NEW cmd \in Commands, cmd \in torn', ~(jobStops > 0)
               PROVE  \E k \in Jobs : run'[k].cmd = cmd /\ run'[k].stage = "truncated"
    BY <1>2 DEF TornOnlyByStop, Readable
  <2>1. CASE cmd = run[j].cmd
    BY <2>1, <1>1, <1>2, <1>3 DEF HistoryTyped
  <2>2. CASE cmd # run[j].cmd
    <3>1. PICK k \in Jobs : run[k].cmd = cmd /\ run[k].stage = "truncated"
      BY <2>2, <1>1, <1>2 DEF TornOnlyByStop, Readable
    <3>2. k # j /\ run'[k] = run[k]
      BY <3>1, <1>1, <1>2 DEF HistoryTyped
    <3> QED BY <3>1, <3>2
  <2> QED BY <2>1, <2>2
<1> QED BY <1>1, <1>2, <1>3, <1>4, <1>5, <1>6, <1>7, JobGoesOn

\* Notify: each attempt but the last leaves as many alerts received as answers lost.
LEMMA NotifyKeeps ==
  ASSUME HistoryBounds, HistoryInv, NEW j \in Jobs, Notify(j)
  PROVE  HistoryInv'
<1>1. /\ HistoryTyped /\ TornOnlyByStop /\ JobInOrder(run[j]) /\ run[j] \in JobRecords
      /\ torn \subseteq Commands /\ jobStops \in Nat
  BY JobAt
<1>2. PICK answer \in {"accepted", "refused", "later", "lost"} :
        LET last == run[j].attempt = MaxRetries
            over == answer \in {"accepted", "refused"} \/ last
        IN run' = [run EXCEPT ![j] =
             [run[j] EXCEPT !.attempt = @ + 1,
                            !.received = IF answer \in {"accepted", "lost"} THEN @ + 1 ELSE @,
                            !.lost = IF answer = "lost" THEN @ + 1 ELSE @,
                            !.warned = over /\ answer # "accepted",
                            !.stage = IF over THEN "report" ELSE "alert"]]
  BY DEF Notify, Set
<1> DEFINE over == answer \in {"accepted", "refused"} \/ run[j].attempt = MaxRetries
           received == IF answer \in {"accepted", "lost"} THEN run[j].received + 1 ELSE run[j].received
           lost == IF answer = "lost" THEN run[j].lost + 1 ELSE run[j].lost
           warned == over /\ answer # "accepted"
           stage == IF over THEN "report" ELSE "alert"
           r == [run[j] EXCEPT !.attempt = run[j].attempt + 1, !.received = received, !.lost = lost,
                               !.warned = warned, !.stage = stage]
<1>3. run' = [run EXCEPT ![j] = r]
  BY <1>1, <1>2 DEF JobRecords
<1>4. /\ run[j].stage = "alert" /\ file' = file /\ torn' = torn /\ raced' = raced
      /\ jobStops' = jobStops
  BY DEF Notify, Quiet
<1>5. run[j].attempt \in Nat /\ run[j].received \in Nat /\ run[j].lost \in Nat
  BY <1>1 DEF JobRecords
<1>6. /\ received \in Nat /\ lost \in Nat /\ warned \in BOOLEAN /\ stage \in {"report", "alert"}
  BY <1>5
<1>7. run[j].received = run[j].lost =>
        /\ received <= 1 + lost
        /\ stage = "alert" => received = lost /\ run[j].attempt # MaxRetries
        /\ stage = "report" => warned \/ received > 0
  BY <1>5
<1> HIDE DEF received, lost, warned, stage, over
<1>8. run[j] = [x \in JobFields |-> run[j][x]]
  BY <1>1, JobRecordFields
<1>9. /\ r.stage = stage /\ r.exit = run[j].exit
      /\ SameRun(run[j], r) /\ r.cmd = run[j].cmd /\ r.opts = run[j].opts
      /\ r.reading = run[j].reading /\ r.alerts = run[j].alerts
      /\ r.attempt = run[j].attempt + 1 /\ r.received = received /\ r.lost = lost
      /\ r.warned = warned /\ r.aligned = run[j].aligned /\ r.entries = run[j].entries
  BY <1>8, Zenon DEF SameRun, JobFields
<1>10. r = [x \in JobFields |-> r[x]]
  BY <1>8 DEF JobFields
<1>11. r \in JobRecords
  <2>1. run[j].attempt + 1 \in Nat
    BY <1>5
  <2>2. /\ run[j].cmd \in Commands /\ run[j].opts \in SUBSET UNION OptionSets
        /\ run[j].reading \in SiteReadings \cup PerfReadings \cup {Nothing} /\ run[j].aligned \in BOOLEAN
        /\ run[j].alerts \in SUBSET AlertNames /\ run[j].entries \in Seq(HistoryEntries)
        /\ run[j].exit \in {Nothing, 0, 1, 2}
    BY <1>1 DEF JobRecords
  <2> QED BY <1>6, <1>9, <1>10, <2>1, <2>2, IsJobRecord
<1> HIDE DEF r
<1>12. JobInOrder(r)
  <2>1. run[j].received = run[j].lost /\ run[j].attempt <= MaxRetries /\ run[j].alerts # {}
        /\ run[j].exit # 0 /\ "history" \in run[j].opts /\ run[j].reading \in Readings(run[j].cmd)
    BY <1>1, <1>4 DEF JobInOrder
  <2>2. /\ r.stage \in {"report", "alert"} /\ r.exit # 0 /\ "history" \in r.opts
        /\ r.reading \in Readings(r.cmd) /\ r.alerts # {} /\ r.received <= 1 + r.lost
        /\ r.attempt <= MaxRetries + 1
        /\ r.stage = "alert" => r.received = r.lost /\ r.attempt <= MaxRetries
        /\ r.stage = "report" => r.warned \/ r.received > 0
    BY <1>5, <1>6, <1>7, <1>9, <2>1 DEF HistoryBounds
  <2> QED BY <2>2 DEF JobInOrder, NotWritten, HasCompared
<1>13. Through(run[j]) /\ ~Unwritten(r) /\ r.stage \notin NotWritten /\ r.stage # "compared"
  BY <1>1, <1>4, <1>6, <1>9 DEF Through, Unwritten, NotWritten, HasCompared, JobInOrder
<1>14. TornOnlyByStop'
  BY <1>1, <1>3, <1>4, <1>9, <1>11, TornKept
<1> QED BY <1>1, <1>3, <1>4, <1>9, <1>11, <1>12, <1>13, <1>14, JobGoesOn

\* Report: nothing the history or the webhook knows changes.
LEMMA ReportKeeps ==
  ASSUME HistoryBounds, HistoryInv, NEW j \in Jobs, Report(j)
  PROVE  HistoryInv'
<1> DEFINE code == IF "fail-on-sdr-mismatch" \in run[j].opts /\ ~run[j].aligned THEN 1 ELSE 0
           r == [run[j] EXCEPT !.stage = "ended", !.exit = code]
<1>1. /\ HistoryTyped /\ TornOnlyByStop /\ JobInOrder(run[j]) /\ run[j] \in JobRecords
      /\ torn \subseteq Commands /\ jobStops \in Nat
  BY JobAt
<1>2. /\ run[j].stage = "report" /\ run' = [run EXCEPT ![j] = r] /\ file' = file
      /\ torn' = torn /\ raced' = raced /\ jobStops' = jobStops
  BY DEF Report, Set, Quiet
<1>3. /\ r \in JobRecords /\ r.stage = "ended"
      /\ SameRun(run[j], r) /\ r.cmd = run[j].cmd /\ r.opts = run[j].opts
      /\ r.reading = run[j].reading /\ r.alerts = run[j].alerts /\ r.warned = run[j].warned
      /\ r.received = run[j].received /\ r.lost = run[j].lost /\ r.attempt = run[j].attempt
  BY <1>1 DEF JobRecords, SameRun, NotWritten, HasCompared
<1> HIDE DEF r
<1>4. JobInOrder(r)
  BY <1>1, <1>2, <1>3 DEF JobInOrder, NotWritten, HasCompared, HistoryBounds
<1>5. /\ Through(r) => Through(run[j])
      /\ ~Unwritten(r) /\ r.stage \notin NotWritten /\ r.stage # "compared"
  BY <1>1, <1>2, <1>3 DEF Through, Unwritten, NotWritten, HasCompared, JobInOrder
<1>6. TornOnlyByStop'
  BY <1>1, <1>2, <1>3, TornKept
<1> QED BY <1>1, <1>2, <1>3, <1>4, <1>5, <1>6, JobGoesOn

\* Fill: what j writes holds the entry of every job that is through, and none of a job that
\* has not written; who was between its read and its write is raced from now on.
LEMMA FillKeeps ==
  ASSUME HistoryBounds, HistoryInv, NEW j \in Jobs, Fill(j)
  PROVE  HistoryInv'
<1> DEFINE cmd == run[j].cmd
           stage == IF run[j].alerts # {} /\ "alert-webhook" \in run[j].opts THEN "alert" ELSE "report"
           r == [run[j] EXCEPT !.entries = <<>>, !.stage = stage]
<1>1. /\ HistoryTyped /\ TornOnlyByStop /\ JobInOrder(run[j]) /\ run[j] \in JobRecords
      /\ torn \subseteq Commands /\ jobStops \in Nat
      /\ cmd \in Commands /\ \A c \in Commands : file[c] \in Seq(HistoryEntries)
  BY JobAt DEF JobRecords
<1>2. /\ run[j].stage = "truncated" /\ run' = [run EXCEPT ![j] = r]
      /\ file' = [file EXCEPT ![cmd] = run[j].entries] /\ torn' = torn \ {cmd}
      /\ raced' = (IF Busy(cmd) = {j} THEN raced ELSE raced \cup Busy(cmd))
      /\ jobStops' = jobStops
  BY DEF Fill, Set
<1>3. /\ stage \in {"alert", "report"}
      /\ stage = "alert" <=> run[j].alerts # {} /\ "alert-webhook" \in run[j].opts
  OBVIOUS
<1> HIDE DEF stage
<1>4. /\ r \in JobRecords /\ r.stage = stage /\ r.exit = run[j].exit
      /\ SameRun(run[j], r) /\ r.cmd = cmd /\ r.opts = run[j].opts
      /\ r.reading = run[j].reading /\ r.alerts = run[j].alerts
      /\ r.attempt = run[j].attempt /\ r.received = run[j].received /\ r.lost = run[j].lost
  <2>1. <<>> \in Seq(HistoryEntries)
    OBVIOUS
  <2> QED BY <1>1, <1>3, <2>1 DEF JobRecords, SameRun, NotWritten, HasCompared
<1> HIDE DEF r
<1>5. JobInOrder(r)
  BY <1>1, <1>2, <1>3, <1>4 DEF JobInOrder, NotWritten, HasCompared, HistoryBounds
<1>6. /\ \A k \in Jobs : k # j => run'[k] = run[k]
      /\ run'[j] = r
      /\ file'[cmd] = run[j].entries
      /\ \A c \in Commands : c # cmd => file'[c] = file[c]
      /\ \A k \in Jobs : run[k] \in JobRecords
  BY <1>1, <1>2 DEF HistoryTyped
<1>7. r.stage \notin NotWritten /\ ~Unwritten(r) /\ Unwritten(run[j])
  BY <1>2, <1>3, <1>4 DEF NotWritten, HasCompared, Unwritten
<1>8. /\ raced \subseteq raced' /\ Busy(cmd) \subseteq Jobs
      /\ Busy(cmd) # {j} => Busy(cmd) \subseteq raced'
      /\ j \in Busy(cmd)
  BY <1>2 DEF Busy
<1>9. \A k \in Jobs : run[k].cmd = cmd /\ (Unwritten(run[k]) \/ run[k].stage = "compared") => k \in Busy(cmd)
  BY DEF Busy, Unwritten
<1>10. HistoryTyped'
  <2>1. file' \in [Commands -> Seq(HistoryEntries)]
    BY <1>1, <1>2 DEF HistoryTyped, JobRecords
  <2>2. run' \in [Jobs -> JobRecords]
    BY <1>1, <1>2, <1>4 DEF HistoryTyped
  <2> QED BY <1>1, <1>2, <1>8, <2>1, <2>2 DEF HistoryTyped
<1>11. \A k \in Jobs : JobInOrder(run'[k])
  BY <1>5, <1>6 DEF HistoryInv
<1>12. SettledKept'
  <2> SUFFICES ASSUME NEW i \in Jobs, Through(run'[i]), i \notin raced'
               PROVE  /\ run'[i].cmd \notin torn' => HoldsJob(file'[run'[i].cmd], i, run'[i])
                      /\ \A k \in Jobs : Unwritten(run'[k]) /\ run'[k].cmd = run'[i].cmd =>
                           HoldsJob(run'[k].entries, i, run'[i])
    BY DEF SettledKept, Readable
  <2>1. CASE i # j
    <3>1. run'[i] = run[i] /\ i \notin raced /\ run[i].cmd \in Commands
      BY <2>1, <1>6, <1>8 DEF JobRecords
    <3>2. /\ run[i].cmd \notin torn => HoldsJob(file[run[i].cmd], i, run[i])
          /\ \A k \in Jobs : Unwritten(run[k]) /\ run[k].cmd = run[i].cmd => HoldsJob(run[k].entries, i, run[i])
      BY <3>1 DEF HistoryInv, SettledKept, Readable
    <3>3. CASE run[i].cmd = cmd
      BY <3>1, <3>2, <3>3, <1>6, <1>7
    <3>4. CASE run[i].cmd # cmd
      BY <3>1, <3>2, <3>4, <1>2, <1>6, <1>7
    <3> QED BY <3>3, <3>4
  <2>2. CASE i = j
    <3>1. Busy(cmd) = {j} /\ j \notin raced
      BY <2>2, <1>8
    <3>2. PICK es \in Seq(HistoryEntries) :
            /\ run[j].entries = Append(es, EntryOf(j, run[j])) /\ WithoutJob(es, j)
            /\ j \notin raced => Against(es, run[j])
      BY <1>7 DEF HistoryInv, UnwrittenFresh
    <3>3. EntryOf(j, run[j]) \in HistoryEntries
      BY <1>1, <1>2 DEF EntryOf, HistoryEntries, JobInOrder, HasCompared, Readings
    <3>4. HoldsJob(run[j].entries, j, run[j])
      BY <3>1, <3>2, <3>3, HoldsNew
    <3>5. HoldsJob(run[j].entries, j, r)
      BY <3>4, <1>4, SameRunHolds
    <3>6. \A k \in Jobs : Unwritten(run'[k]) => run'[k].cmd # cmd
      BY <3>1, <1>6, <1>7, <1>9
    <3> QED BY <2>2, <3>5, <3>6, <1>4, <1>6
  <2> QED BY <2>1, <2>2
<1>13. ComparedFresh'
  <2> SUFFICES ASSUME NEW i \in Jobs, run'[i].stage = "compared", i \notin raced', run'[i].cmd \notin torn'
               PROVE  Against(file'[run'[i].cmd], run'[i])
    BY DEF ComparedFresh, Readable
  <2>1. i # j /\ run'[i] = run[i] /\ i \notin raced /\ run[i].cmd \in Commands
    BY <1>3, <1>4, <1>6, <1>8 DEF JobRecords
  <2>2. run[i].cmd # cmd
    BY <2>1, <1>8, <1>9
  <2>3. Against(file[run[i].cmd], run[i])
    BY <2>1, <2>2, <1>2 DEF HistoryInv, ComparedFresh, Readable
  <2> QED BY <2>1, <2>2, <2>3, <1>6
<1>14. UnwrittenFresh'
  <2> SUFFICES ASSUME NEW i \in Jobs, Unwritten(run'[i])
               PROVE  \E es \in Seq(HistoryEntries) :
                        /\ run'[i].entries = Append(es, EntryOf(i, run'[i])) /\ WithoutJob(es, i)
                        /\ i \notin raced' => Against(es, run'[i])
    BY DEF UnwrittenFresh
  <2>1. i # j /\ run'[i] = run[i]
    BY <1>6, <1>7
  <2>2. PICK es \in Seq(HistoryEntries) :
          /\ run[i].entries = Append(es, EntryOf(i, run[i])) /\ WithoutJob(es, i)
          /\ i \notin raced => Against(es, run[i])
    BY <2>1 DEF HistoryInv, UnwrittenFresh
  <2> QED BY <2>1, <2>2, <1>8
<1>15. NotYetIn'
  <2> SUFFICES ASSUME NEW i \in Jobs, run'[i].stage \in NotWritten
               PROVE  /\ \A c \in Commands : WithoutJob(file'[c], i)
                      /\ \A k \in Jobs : k # i /\ Unwritten(run'[k]) => WithoutJob(run'[k].entries, i)
    BY DEF NotYetIn
  <2>1. i # j /\ run'[i] = run[i]
    BY <1>6, <1>7
  <2>2. /\ \A c \in Commands : WithoutJob(file[c], i)
        /\ \A k \in Jobs : k # i /\ Unwritten(run[k]) => WithoutJob(run[k].entries, i)
    BY <2>1 DEF HistoryInv, NotYetIn
  <2> QED BY <2>1, <2>2, <1>6, <1>7
<1>16. TornOnlyByStop'
  <2> SUFFICES ASSUME NEW c \in Commands, c \in torn', ~(jobStops > 0)
               PROVE  \E k \in Jobs : run'[k].cmd = c /\ run'[k].stage = "truncated"
    BY <1>2 DEF TornOnlyByStop, Readable
  <2>1. PICK k \in Jobs : run[k].cmd = c /\ run[k].stage = "truncated"
    BY <1>1, <1>2 DEF TornOnlyByStop, Readable
  <2> QED BY <2>1, <1>2, <1>6
<1> QED BY <1>10, <1>11, <1>12, <1>13, <1>14, <1>15, <1>16 DEF HistoryInv

\* No job has started and no file is there.
LEMMA HistoryInvInit ==
  ASSUME HistoryBounds, HistoryInit
  PROVE  HistoryInv
<1>1. \A j \in Jobs : run[j] = Idle
  BY DEF HistoryInit
<1>2. /\ Idle.stage = "idle" /\ Idle.exit = Nothing /\ Idle.attempt = 0 /\ Idle.received = 0 /\ Idle.lost = 0
      /\ Idle.alerts = {}
  BY DEF Idle
<1>3. Idle \in JobRecords
  <2>1. <<>> \in Seq(HistoryEntries)
    OBVIOUS
  <2> QED BY <2>1 DEF Idle, JobRecords, NotWritten, Commands
<1>4. HistoryTyped
  <2>1. file \in [Commands -> Seq(HistoryEntries)]
    <3>1. <<>> \in Seq(HistoryEntries)
      OBVIOUS
    <3> QED BY <3>1 DEF HistoryInit
  <2> QED BY <1>3, <2>1 DEF HistoryInit, HistoryTyped
<1>5. JobInOrder(Idle)
  BY <1>2 DEF JobInOrder, HasCompared, HistoryBounds
<1>6. ~Through(Idle) /\ ~Unwritten(Idle)
  BY <1>2 DEF Through, Unwritten, HistoryBounds
<1>7. \A cmd \in Commands : file[cmd] = <<>>
  BY DEF HistoryInit
<1>8. NotYetIn
  BY <1>1, <1>6, <1>7 DEF NotYetIn, WithoutJob
<1>9. SettledKept /\ ComparedFresh /\ UnwrittenFresh
  BY <1>1, <1>2, <1>6 DEF SettledKept, ComparedFresh, UnwrittenFresh
<1>10. TornOnlyByStop
  BY DEF HistoryInit, TornOnlyByStop, Readable
<1> QED BY <1>1, <1>4, <1>5, <1>8, <1>9, <1>10 DEF HistoryInv

\* Every step keeps the invariant.
LEMMA HistoryInvPreserved ==
  ASSUME HistoryBounds, HistoryInv, [HistoryNext]_historyVars
  PROVE  HistoryInv'
<1>1. CASE UNCHANGED historyVars
  BY <1>1 DEF historyVars, HistoryInv, HistoryTyped, SettledKept, ComparedFresh, UnwrittenFresh,
              NotYetIn, TornOnlyByStop, Readable
<1>2. ASSUME NEW j \in Jobs, StopJob(j)
      PROVE  HistoryInv'
  BY <1>2, AbortKeeps DEF StopJob, Set
<1> QED BY <1>1, <1>2, StartKeeps, CompareKeeps, AppendKeeps, TruncateKeeps, FillKeeps,
           NotifyKeeps, ReportKeeps DEF HistoryNext

\* What the invariant says of the jobs that ended well.
LEMMA HistoryInvMeans ==
  ASSUME HistoryBounds, HistoryInv
  PROVE  HistoryKept
<1>1. HistoryFaithful
  <2> SUFFICES ASSUME NEW j \in Jobs, run[j].exit = 0, "history" \in run[j].opts,
                      run[j].cmd \notin torn, j \notin raced
               PROVE  LET cmd == run[j].cmd
                          mine == {i \in 1 .. Len(file[cmd]) : file[cmd][i].job = j}
                      IN /\ Cardinality(mine) = 1
                         /\ \A i \in mine : run[j].alerts = Regressions(cmd, SubSeq(file[cmd], 1, i - 1), run[j].reading)
                         /\ \A i \in mine : i > 1 /\ run[j].alerts = {} /\ cmd = "diagnose" =>
                              ~Dropped(file[cmd][i - 1].reading.site, run[j].reading.site)
    BY DEF HistoryFaithful, Readable
  <2> DEFINE cmd == run[j].cmd
             es == file[cmd]
             mine == {i \in 1 .. Len(es) : es[i].job = j}
  <2>1. es \in Seq(HistoryEntries)
    BY DEF HistoryInv, HistoryTyped, JobRecords
  <2>2. PICK i \in DOMAIN es :
          /\ es[i] = EntryOf(j, run[j])
          /\ \A k \in DOMAIN es : k # i => es[k].job # j
          /\ Against(SubSeq(es, 1, i - 1), run[j])
    BY DEF HistoryInv, SettledKept, Through, Readable, HoldsJob
  <2> HIDE DEF es
  <2>3. mine = {i}
    BY <2>1, <2>2 DEF EntryOf
  <2>4. Cardinality(mine) = 1
    BY <2>3, FS_Singleton
  <2>5. run[j].alerts = Regressions(cmd, SubSeq(es, 1, i - 1), run[j].reading)
    BY <2>2 DEF Against
  <2>6. ASSUME i > 1, run[j].alerts = {}, cmd = "diagnose"
        PROVE  ~Dropped(es[i - 1].reading.site, run[j].reading.site)
    <3> DEFINE before == SubSeq(es, 1, i - 1)
    <3>1. Len(before) = i - 1 /\ before # <<>> /\ before[Len(before)] = es[i - 1]
      BY <2>1, <2>2, <2>6
    <3> HIDE DEF before
    <3>2. DetectRegression(es[i - 1].reading, run[j].reading) = {}
      BY <3>1, <2>5, <2>6 DEF Regressions, before
    <3> QED BY <3>2 DEF DetectRegression
  <2> QED BY <2>3, <2>4, <2>5, <2>6 DEF es
<1>2. AlertedOnce
  BY DEF HistoryInv, AlertedOnce, JobInOrder, HistoryTyped, JobRecords
<1> QED BY <1>1, <1>2 DEF HistoryInv, HistoryKept

\* Whatever the jobs, their options, readings and interleaving: a job that had the history
\* to itself is recorded once, right behind the run it was compared with; only a stop leaves
\* a torn file; an alert is received again only after a lost answer, or is warned of.
THEOREM HistoryKeptHolds ==
  ASSUME HistoryBounds
  PROVE  HistorySpec => []HistoryKept
<1>1. HistoryInit => HistoryInv
  BY HistoryInvInit
<1>2. HistoryInv /\ [HistoryNext]_historyVars => HistoryInv'
  BY HistoryInvPreserved
<1>3. HistoryInv => HistoryKept
  BY HistoryInvMeans
<1> QED BY <1>1, <1>2, <1>3, PTL DEF HistorySpec

-----------------------------------------------------------------------------
(***************************************************************************)
(* Matching a pattern (Glob). The loop remembers only its last star. That  *)
(* is enough, because any way to divide the value among the elements of    *)
(* the pattern gives that star at least what the loop has given it (the    *)
(* last conjunct of GlobInv): what the loop gave to the elements before it *)
(* was as little as possible.                                              *)
(***************************************************************************)

\* No element of p after s, up to e, is a star.
NoStar(p, s, e) == \A i \in s + 1 .. e : p[i] # "*"

\* Any division of the whole value gives the last star at least what it has.
GlobInv ==
  /\ pattern \in Seq(Letters \cup {"*", "?"}) /\ value \in Seq(Letters \cup Special)
  /\ result \in {"running", "yes", "no"}
  /\ pi \in 0 .. Len(pattern) /\ vi \in 0 .. Len(value)
  /\ starAt \in 0 .. pi /\ starVi \in 0 .. vi
  /\ IF starAt = 0 THEN starVi = 0 ELSE pattern[starAt] = "*"
  /\ NoStar(pattern, starAt, pi)
  /\ vi - starVi = pi - starAt
  /\ MeansUpTo(pattern, value, pi, vi) /\ MeansUpTo(pattern, value, starAt, starVi)
  /\ \A cut \in [0 .. Len(pattern) -> 0 .. Len(value)] :
       Divides(pattern, value, Len(pattern), Len(value), cut) => starVi <= cut[starAt]
  /\ MatchesAsMeant

\* Between two stars a division gives each element one character.
LEMMA RunOfOnes ==
  ASSUME NEW p, NEW v, NEW n \in Nat, NEW w \in Nat, NEW cut \in [0 .. n -> 0 .. w],
         Divides(p, v, n, w, cut), NEW s \in 0 .. n, NEW e \in s .. n,
         NoStar(p, s, e)
  PROVE  cut[e] = cut[s] + (e - s)
<1> DEFINE T == {d \in Nat : s + d <= e => cut[s + d] = cut[s] + d}
<1>1. 0 \in T
  OBVIOUS
<1>2. ASSUME NEW d \in Nat, d \in T PROVE d + 1 \in T
  <2> SUFFICES ASSUME s + (d + 1) <= e PROVE cut[s + (d + 1)] = cut[s] + (d + 1)
    OBVIOUS
  <2> DEFINE i == s + (d + 1)
  <2>1. i \in s + 1 .. e /\ i \in 1 .. n /\ i - 1 = s + d /\ s + d <= e
    OBVIOUS
  <2>2. cut[i - 1] = cut[s] + d
    BY <1>2, <2>1
  <2>3. StandsFor(p, v, i, cut[i - 1], cut[i]) /\ p[i] # "*"
    BY <2>1 DEF Divides, NoStar
  <2>4. cut[i] = cut[i - 1] + 1
    BY <2>3 DEF StandsFor
  <2>5. cut[s] \in Nat
    OBVIOUS
  <2> QED BY <2>2, <2>4, <2>5
<1>3. Nat \subseteq T
  <2> HIDE DEF T
  <2> QED BY <1>1, <1>2, NatSetInduction
<1>4. e - s \in Nat /\ s + (e - s) = e
  OBVIOUS
<1> QED BY <1>3, <1>4

\* The cuts of a division go to the right.
LEMMA CutsGoRight ==
  ASSUME NEW p, NEW v, NEW n \in Nat, NEW w \in Nat, NEW cut \in [0 .. n -> 0 .. w],
         Divides(p, v, n, w, cut), NEW s \in 0 .. n, NEW e \in s .. n
  PROVE  cut[s] <= cut[e]
<1> DEFINE T == {d \in Nat : s + d <= e => cut[s] <= cut[s + d]}
<1>1. 0 \in T
  <2>1. cut[s] \in Nat /\ s + 0 = s
    OBVIOUS
  <2> QED BY <2>1
<1>2. ASSUME NEW d \in Nat, d \in T PROVE d + 1 \in T
  <2> SUFFICES ASSUME s + (d + 1) <= e PROVE cut[s] <= cut[s + (d + 1)]
    OBVIOUS
  <2> DEFINE i == s + (d + 1)
  <2>1. i \in 1 .. n /\ i - 1 = s + d /\ s + d <= e
    OBVIOUS
  <2>2. cut[s] <= cut[i - 1]
    BY <1>2, <2>1
  <2>3. StandsFor(p, v, i, cut[i - 1], cut[i])
    BY <2>1 DEF Divides
  <2>4. cut[i] \in Nat /\ cut[i - 1] \in Nat /\ cut[s] \in Nat
    BY <2>1
  <2>5. cut[i - 1] <= cut[i]
    BY <2>3, <2>4 DEF StandsFor
  <2> QED BY <2>2, <2>4, <2>5
<1>3. Nat \subseteq T
  <2> HIDE DEF T
  <2> QED BY <1>1, <1>2, NatSetInduction
<1>4. e - s \in Nat /\ s + (e - s) = e
  OBVIOUS
<1> QED BY <1>3, <1>4

\* Stars at the end may stand for nothing.
LEMMA StarsMayBeEmpty ==
  ASSUME NEW p, NEW v, NEW n \in Nat, NEW w \in Nat, MeansUpTo(p, v, n, w),
         NEW e \in Nat, n <= e, \A i \in n + 1 .. e : p[i] = "*"
  PROVE  MeansUpTo(p, v, e, w)
<1>1. PICK cut \in [0 .. n -> 0 .. w] : Divides(p, v, n, w, cut)
  BY DEF MeansUpTo
<1> DEFINE c == [i \in 0 .. e |-> IF i <= n THEN cut[i] ELSE w]
<1>2. c \in [0 .. e -> 0 .. w]
  OBVIOUS
<1>3. c[0] = 0 /\ c[e] = w
  BY <1>1 DEF Divides
<1>4. ASSUME NEW i \in 1 .. e PROVE StandsFor(p, v, i, c[i - 1], c[i])
  <2>1. CASE i <= n
    <3>1. i \in 1 .. n /\ c[i - 1] = cut[i - 1] /\ c[i] = cut[i]
      BY <2>1
    <3> QED BY <1>1, <3>1 DEF Divides
  <2>2. CASE i > n
    <3>1. p[i] = "*" /\ c[i] = w /\ c[i - 1] \in 0 .. w
      BY <2>2
    <3> QED BY <3>1 DEF StandsFor
  <2> QED BY <2>1, <2>2
<1> HIDE DEF c
<1> QED BY <1>2, <1>3, <1>4 DEF MeansUpTo, Divides

\* One more element that stands for one more character.
LEMMA OneMoreEach ==
  ASSUME NEW p, NEW v, NEW n \in Nat, NEW w \in Nat, MeansUpTo(p, v, n, w),
         p[n + 1] # "*", p[n + 1] = "?" \/ p[n + 1] = v[w + 1]
  PROVE  MeansUpTo(p, v, n + 1, w + 1)
<1>1. PICK cut \in [0 .. n -> 0 .. w] : Divides(p, v, n, w, cut)
  BY DEF MeansUpTo
<1> DEFINE c == [i \in 0 .. n + 1 |-> IF i <= n THEN cut[i] ELSE w + 1]
<1>2. c \in [0 .. n + 1 -> 0 .. w + 1]
  OBVIOUS
<1>3. c[0] = 0 /\ c[n] = w /\ c[n + 1] = w + 1
  BY <1>1 DEF Divides
<1>4. ASSUME NEW i \in 1 .. n + 1 PROVE StandsFor(p, v, i, c[i - 1], c[i])
  <2>1. CASE i <= n
    <3>1. i \in 1 .. n /\ c[i - 1] = cut[i - 1] /\ c[i] = cut[i]
      BY <2>1
    <3> QED BY <1>1, <3>1 DEF Divides
  <2>2. CASE i = n + 1
    <3>1. c[i] = c[i - 1] + 1 /\ c[i] = w + 1
      BY <1>3, <2>2
    <3> QED BY <2>2, <3>1 DEF StandsFor
  <2> QED BY <2>1, <2>2
<1> HIDE DEF c
<1> QED BY <1>2, <1>3, <1>4 DEF MeansUpTo, Divides

\* A star at the end may take one character more.
LEMMA StarTakesMore ==
  ASSUME NEW p, NEW v, NEW n \in Nat \ {0}, NEW w \in Nat, MeansUpTo(p, v, n, w), p[n] = "*"
  PROVE  MeansUpTo(p, v, n, w + 1)
<1>1. PICK cut \in [0 .. n -> 0 .. w] : Divides(p, v, n, w, cut)
  BY DEF MeansUpTo
<1> DEFINE c == [i \in 0 .. n |-> IF i < n THEN cut[i] ELSE w + 1]
<1>2. c \in [0 .. n -> 0 .. w + 1]
  OBVIOUS
<1>3. c[0] = 0 /\ c[n] = w + 1
  BY <1>1 DEF Divides
<1>4. ASSUME NEW i \in 1 .. n PROVE StandsFor(p, v, i, c[i - 1], c[i])
  <2>1. CASE i < n
    <3>1. c[i - 1] = cut[i - 1] /\ c[i] = cut[i]
      BY <2>1
    <3> QED BY <1>1, <3>1 DEF Divides
  <2>2. CASE i = n
    <3>1. c[i] = w + 1 /\ c[i - 1] \in 0 .. w
      BY <1>3, <2>2
    <3> QED BY <2>2, <3>1 DEF StandsFor
  <2> QED BY <2>1, <2>2
<1> HIDE DEF c
<1> QED BY <1>2, <1>3, <1>4 DEF MeansUpTo, Divides

\* The loop starts with nothing consumed.
LEMMA GlobInvInit == GlobInit => GlobInv
<1> SUFFICES ASSUME GlobInit PROVE GlobInv
  OBVIOUS
<1>1. pattern \in Seq(Letters \cup {"*", "?"}) /\ value \in Seq(Letters \cup Special)
  <2>1. ASSUME NEW S, NEW n, NEW s \in SeqOf(S, n) PROVE s \in Seq(S)
    <3>1. PICK m \in 0 .. n : s \in [1 .. m -> S]
      BY <2>1 DEF SeqOf
    <3> QED BY <3>1
  <2> QED BY <2>1 DEF GlobInit
<1>2. pi = 0 /\ vi = 0 /\ starAt = 0 /\ starVi = 0 /\ result = "running"
  BY DEF GlobInit
<1>3. MeansUpTo(pattern, value, 0, 0)
  <2> DEFINE c == [i \in 0 .. 0 |-> 0]
  <2>1. c \in [0 .. 0 -> 0 .. 0] /\ c[0] = 0
    OBVIOUS
  <2>2. Divides(pattern, value, 0, 0, c)
    BY <2>1 DEF Divides
  <2> QED BY <2>1, <2>2 DEF MeansUpTo
<1>4. MatchesAsMeant
  BY <1>2 DEF MatchesAsMeant
<1>5. ASSUME NEW cut \in [0 .. Len(pattern) -> 0 .. Len(value)] PROVE 0 <= cut[0]
  BY <1>1
<1>6. Len(pattern) \in Nat /\ Len(value) \in Nat
  BY <1>1
<1>7. NoStar(pattern, 0, 0)
  BY DEF NoStar
<1> QED BY <1>1, <1>2, <1>3, <1>4, <1>5, <1>6, <1>7 DEF GlobInv

\* Where the loop stands, every division of the whole value has consumed as much; and
\* if the next element is none that fits, some more was for the last star.
LEMMA NothingIsMissed ==
  ASSUME GlobInv, NEW cut \in [0 .. Len(pattern) -> 0 .. Len(value)],
         Divides(pattern, value, Len(pattern), Len(value), cut)
  PROVE  /\ vi <= cut[pi]
         /\ vi < Len(value) /\ ~Fits /\ ~AtStar => starAt # 0 /\ starVi + 1 <= cut[starAt]
<1> DEFINE P == Len(pattern)
           V == Len(value)
<1>1. P \in Nat /\ V \in Nat
  BY DEF GlobInv
<1>2. /\ pi \in 0 .. P /\ vi \in 0 .. V /\ starAt \in 0 .. pi /\ starVi \in 0 .. vi
      /\ vi - starVi = pi - starAt /\ starVi <= cut[starAt]
      /\ starAt = 0 => starVi = 0
  BY DEF GlobInv
<1>3. /\ cut \in [0 .. P -> 0 .. V] /\ cut[0] = 0 /\ cut[P] = V
      /\ \A i \in 1 .. P : StandsFor(pattern, value, i, cut[i - 1], cut[i])
  BY DEF Divides
<1>4. cut[pi] = cut[starAt] + (pi - starAt)
  <2>1. NoStar(pattern, starAt, pi)
    BY DEF GlobInv
  <2>2. starAt \in 0 .. P /\ pi \in starAt .. P
    BY <1>1, <1>2
  <2>3. Divides(pattern, value, P, V, cut) /\ cut \in [0 .. P -> 0 .. V]
    OBVIOUS
  <2> HIDE DEF P, V
  <2> QED BY <1>1, <2>1, <2>2, <2>3, RunOfOnes
<1>5. cut[starAt] \in Nat /\ cut[pi] \in Nat
  <2>1. starAt \in 0 .. P /\ pi \in 0 .. P
    BY <1>1, <1>2
  <2> HIDE DEF P, V
  <2> QED BY <1>1, <1>3, <2>1
<1>6. vi <= cut[pi]
  BY <1>1, <1>2, <1>4, <1>5
<1>7. ASSUME vi < V, ~Fits, ~AtStar PROVE cut[starAt] # starVi
  <2> SUFFICES ASSUME cut[starAt] = starVi PROVE FALSE
    OBVIOUS
  <2>1. cut[pi] = vi
    BY <1>1, <1>2, <1>4
  <2>2. pi < P
    BY <1>1, <1>2, <1>3, <1>7, <2>1
  <2>3. StandsFor(pattern, value, pi + 1, cut[pi], cut[pi + 1])
    <3>1. pi + 1 \in 1 .. P /\ (pi + 1) - 1 = pi
      BY <1>1, <1>2, <2>2
    <3> QED BY <1>3, <3>1
  <2>4. pattern[pi + 1] # "*" /\ pattern[pi + 1] # "?" /\ pattern[pi + 1] # value[vi + 1]
    BY <1>7, <2>2 DEF Fits, AtStar
  <2> QED BY <2>1, <2>3, <2>4 DEF StandsFor
<1> QED BY <1>1, <1>2, <1>3, <1>5, <1>6, <1>7

\* A step of the loop that goes on keeps its bounds; what is then left to show.
LEMMA GlobInvGoesOn ==
  ASSUME GlobInv, UNCHANGED <<pattern, value, result>>, result = "running",
         pi' \in 0 .. Len(pattern), vi' \in 0 .. Len(value), starAt' \in 0 .. pi', starVi' \in 0 .. vi',
         IF starAt' = 0 THEN starVi' = 0 ELSE pattern[starAt'] = "*",
         NoStar(pattern, starAt', pi'),
         vi' - starVi' = pi' - starAt',
         MeansUpTo(pattern, value, pi', vi'), MeansUpTo(pattern, value, starAt', starVi'),
         \A cut \in [0 .. Len(pattern) -> 0 .. Len(value)] :
           Divides(pattern, value, Len(pattern), Len(value), cut) => starVi' <= cut[starAt']
  PROVE  GlobInv'
<1>1. MatchesAsMeant'
  BY DEF MatchesAsMeant
<1>2. pattern' = pattern /\ value' = value /\ result' = result
  OBVIOUS
<1>3. pattern \in Seq(Letters \cup {"*", "?"}) /\ value \in Seq(Letters \cup Special)
  BY DEF GlobInv
<1> QED BY <1>1, <1>2, <1>3 DEF GlobInv

\* One step of the loop.
LEMMA GlobInvPreserved ==
  ASSUME GlobAssumption, "*" \notin Special, GlobInv, [GlobNext]_globVars
  PROVE  GlobInv'
<1> DEFINE P == Len(pattern)
           V == Len(value)
<1>1. pattern \in Seq(Letters \cup {"*", "?"}) /\ value \in Seq(Letters \cup Special)
  BY DEF GlobInv
<1>2. P \in Nat /\ V \in Nat
  BY <1>1
<1>3. /\ pi \in 0 .. P /\ vi \in 0 .. V /\ starAt \in 0 .. pi /\ starVi \in 0 .. vi
      /\ IF starAt = 0 THEN starVi = 0 ELSE pattern[starAt] = "*"
      /\ NoStar(pattern, starAt, pi)
      /\ vi - starVi = pi - starAt
      /\ MeansUpTo(pattern, value, pi, vi) /\ MeansUpTo(pattern, value, starAt, starVi)
  BY DEF GlobInv
<1>4. \A cut \in [0 .. P -> 0 .. V] : Divides(pattern, value, P, V, cut) => starVi <= cut[starAt]
  BY DEF GlobInv
<1>5. CASE Consume
  <2>1. /\ pi' = pi + 1 /\ vi' = vi + 1 /\ starAt' = starAt /\ starVi' = starVi
        /\ UNCHANGED <<pattern, value, result>> /\ result = "running"
        /\ vi < V /\ pi < P /\ (pattern[pi + 1] = "?" \/ pattern[pi + 1] = value[vi + 1])
    BY <1>5 DEF Consume, Looping, Fits
  <2>2. pattern[pi + 1] # "*"
    <3>1. value[vi + 1] \in Letters \cup Special
      BY <1>1, <1>2, <1>3, <2>1
    <3> QED BY <2>1, <3>1 DEF GlobAssumption
  <2>3. MeansUpTo(pattern, value, pi + 1, vi + 1)
    <3>1. pi \in Nat /\ vi \in Nat
      BY <1>2, <1>3
    <3> QED BY <1>3, <2>1, <2>2, <3>1, OneMoreEach
  <2>4. NoStar(pattern, starAt, pi + 1)
    <3>1. \A i \in starAt + 1 .. pi + 1 : i = pi + 1 \/ i \in starAt + 1 .. pi
      BY <1>2, <1>3
    <3> QED BY <1>3, <2>2, <3>1 DEF NoStar
  <2>5. /\ pi + 1 \in 0 .. P /\ vi + 1 \in 0 .. V /\ starAt \in 0 .. pi + 1 /\ starVi \in 0 .. vi + 1
        /\ (vi + 1) - starVi = (pi + 1) - starAt
    BY <1>2, <1>3, <2>1
  <2>6. /\ pi' \in 0 .. P /\ vi' \in 0 .. V /\ starAt' \in 0 .. pi' /\ starVi' \in 0 .. vi'
        /\ vi' - starVi' = pi' - starAt'
    BY <2>1, <2>5
  <2>7. /\ IF starAt' = 0 THEN starVi' = 0 ELSE pattern[starAt'] = "*"
        /\ MeansUpTo(pattern, value, starAt', starVi')
    BY <1>3, <2>1
  <2>8. MeansUpTo(pattern, value, pi', vi') /\ NoStar(pattern, starAt', pi')
    BY <2>1, <2>3, <2>4
  <2>9. \A cut \in [0 .. P -> 0 .. V] : Divides(pattern, value, P, V, cut) => starVi' <= cut[starAt']
    BY <1>4, <2>1
  <2>10. UNCHANGED <<pattern, value, result>> /\ result = "running"
    BY <2>1
  <2> QED BY <2>6, <2>7, <2>8, <2>9, <2>10, GlobInvGoesOn
<1>6. CASE MeetStar
  <2>1. /\ starAt' = pi + 1 /\ pi' = pi + 1 /\ starVi' = vi /\ vi' = vi
        /\ UNCHANGED <<pattern, value, result>> /\ result = "running"
        /\ pi < P /\ pattern[pi + 1] = "*"
    BY <1>6 DEF MeetStar, Looping, AtStar
  <2>2. MeansUpTo(pattern, value, pi + 1, vi)
    <3>1. \A i \in pi + 1 .. pi + 1 : i = pi + 1
      BY <1>2, <1>3
    <3>2. pi \in Nat /\ vi \in Nat /\ pi + 1 \in Nat /\ pi <= pi + 1
      BY <1>2, <1>3
    <3> QED BY <1>3, <2>1, <3>1, <3>2, StarsMayBeEmpty
  <2>3. ASSUME NEW cut \in [0 .. P -> 0 .. V], Divides(pattern, value, P, V, cut)
        PROVE  vi <= cut[pi + 1]
    <3>1. vi <= cut[pi]
      BY <2>3, NothingIsMissed
    <3>2. cut[pi] <= cut[pi + 1]
      <4>1. pi \in 0 .. P /\ pi + 1 \in pi .. P
        BY <1>2, <1>3, <2>1
      <4> HIDE DEF P, V
      <4> QED BY <1>2, <2>3, <4>1, CutsGoRight
    <3>3. cut[pi] \in Nat /\ cut[pi + 1] \in Nat /\ vi \in Nat
      BY <1>2, <1>3, <2>1
    <3> QED BY <3>1, <3>2, <3>3
  <2>4. /\ pi + 1 \in 0 .. P /\ vi \in 0 .. V /\ pi + 1 \in 0 .. pi + 1 /\ vi \in 0 .. vi
        /\ vi - vi = (pi + 1) - (pi + 1) /\ pi + 1 # 0
        /\ NoStar(pattern, pi + 1, pi + 1)
    BY <1>2, <1>3, <2>1 DEF NoStar
  <2> QED BY <2>1, <2>2, <2>3, <2>4, GlobInvGoesOn
<1>7. CASE Backtrack
  <2>1. /\ pi' = starAt /\ starAt' = starAt /\ starVi' = starVi + 1 /\ vi' = starVi + 1
        /\ UNCHANGED <<pattern, value, result>> /\ result = "running"
        /\ starAt # 0 /\ vi < V /\ ~Fits /\ ~AtStar
    BY <1>7 DEF Backtrack, Looping
  <2>2. MeansUpTo(pattern, value, starAt, starVi + 1)
    <3>1. starAt \in Nat \ {0} /\ starVi \in Nat
      BY <1>2, <1>3, <2>1
    <3> QED BY <1>3, <2>1, <3>1, StarTakesMore
  <2>3. ASSUME NEW cut \in [0 .. P -> 0 .. V], Divides(pattern, value, P, V, cut)
        PROVE  starVi + 1 <= cut[starAt]
    BY <2>1, <2>3, NothingIsMissed
  <2>4. /\ starAt \in 0 .. P /\ starVi + 1 \in 0 .. V /\ starAt \in 0 .. starAt
        /\ starVi + 1 \in 0 .. starVi + 1
        /\ (starVi + 1) - (starVi + 1) = starAt - starAt
        /\ NoStar(pattern, starAt, starAt)
    BY <1>2, <1>3, <2>1 DEF NoStar
  <2> QED BY <1>3, <2>1, <2>2, <2>3, <2>4, GlobInvGoesOn
<1>8. CASE Fail \/ Finish
  <2>1. UNCHANGED <<pattern, value, pi, vi, starAt, starVi>> /\ result' \in {"yes", "no"}
    BY <1>8 DEF Fail, Finish
  <2>2. result' = "yes" <=> Means
    <3>1. ASSUME Fail PROVE result' = "no" /\ ~Means
      <4>1. starAt = 0 /\ vi < V /\ ~Fits /\ ~AtStar /\ result' = "no"
        BY <3>1 DEF Fail, Looping
      <4>2. ASSUME NEW cut \in [0 .. P -> 0 .. V], Divides(pattern, value, P, V, cut) PROVE FALSE
        BY <4>1, <4>2, NothingIsMissed
      <4> QED BY <4>1, <4>2 DEF Means, MeansUpTo
    <3>2. ASSUME Finish, \A i \in pi + 1 .. P : pattern[i] = "*" PROVE result' = "yes" /\ Means
      <4>1. vi = V /\ result' = "yes"
        BY <3>2 DEF Finish
      <4>2. pi \in Nat /\ pi <= P
        BY <1>2, <1>3
      <4>3. MeansUpTo(pattern, value, P, V)
        <5> HIDE DEF P, V
        <5> QED BY <1>2, <1>3, <3>2, <4>1, <4>2, StarsMayBeEmpty
      <4> QED BY <4>1, <4>3 DEF Means
    <3>3. ASSUME Finish, NEW i \in pi + 1 .. P, pattern[i] # "*" PROVE result' = "no" /\ ~Means
      <4>1. vi = V /\ result' = "no"
        BY <3>3 DEF Finish
      <4>2. i \in 1 .. P /\ pi \in 0 .. P /\ i - 1 \in pi .. P
        BY <1>2, <1>3
      <4>3. ASSUME NEW cut \in [0 .. P -> 0 .. V], Divides(pattern, value, P, V, cut) PROVE FALSE
        <5>1. V <= cut[pi]
          BY <4>1, <4>3, NothingIsMissed
        <5>2. cut[pi] <= cut[i - 1]
          <6> HIDE DEF P, V
          <6> QED BY <1>2, <4>2, <4>3, CutsGoRight
        <5>3. StandsFor(pattern, value, i, cut[i - 1], cut[i])
          <6> HIDE DEF P, V
          <6> QED BY <4>2, <4>3 DEF Divides
        <5>4. cut[i] = cut[i - 1] + 1
          BY <3>3, <5>3 DEF StandsFor
        <5>5. cut[i] \in 0 .. V /\ cut[i - 1] \in 0 .. V /\ cut[pi] \in 0 .. V
          <6> HIDE DEF P, V
          <6> QED BY <1>2, <4>2
        <5> QED BY <1>2, <5>1, <5>2, <5>4, <5>5
      <4> QED BY <4>1, <4>3 DEF Means, MeansUpTo
    <3> QED BY <1>8, <3>1, <3>2, <3>3
  <2>3. MatchesAsMeant'
    BY <2>1, <2>2 DEF MatchesAsMeant, Means
  <2>4. /\ pattern' = pattern /\ value' = value /\ pi' = pi /\ vi' = vi /\ starAt' = starAt
        /\ starVi' = starVi /\ result' \in {"running", "yes", "no"}
    BY <2>1
  <2> QED BY <1>1, <1>3, <1>4, <2>3, <2>4 DEF GlobInv
<1>9. CASE UNCHANGED globVars
  <2>1. /\ pattern' = pattern /\ value' = value /\ pi' = pi /\ vi' = vi /\ starAt' = starAt
        /\ starVi' = starVi /\ result' = result
    BY <1>9 DEF globVars
  <2>2. MatchesAsMeant' /\ result \in {"running", "yes", "no"}
    BY <2>1 DEF GlobInv, MatchesAsMeant, Means
  <2> QED BY <1>1, <1>3, <1>4, <2>1, <2>2 DEF GlobInv
<1> QED BY <1>5, <1>6, <1>7, <1>8, <1>9 DEF GlobNext

\* The glob loop, which comes back to the last star only, answers what the pattern means,
\* for every value that holds no star.  (A star of the value is taken for the star of the
\* pattern, and then the loop forgets that this stands for more: "*a" does not match "*ba".)
THEOREM MatchesAsMeantHolds ==
  ASSUME GlobAssumption, "*" \notin Special
  PROVE  GlobSpec => []MatchesAsMeant
<1>1. GlobInit => GlobInv
  BY GlobInvInit
<1>2. GlobInv /\ [GlobNext]_globVars => GlobInv'
  BY GlobInvPreserved
<1>3. GlobInv => MatchesAsMeant
  BY DEF GlobInv
<1> QED BY <1>1, <1>2, <1>3, PTL DEF GlobSpec

-----------------------------------------------------------------------------
(***************************************************************************)
(* The audit of a consent platform (CmpAudit). A request is recorded with  *)
(* how many time stamps the runner had taken, and one that followed the    *)
(* click always came after the first (RequestsSound), which is what the    *)
(* rules go by at the end.                                                 *)
(***************************************************************************)

\* A recorded request: the last component counts only for one sent after the click.
Recorded == [kind : RequestKinds, stamps : 0 .. 2, clicked : BOOLEAN]

\* What is recorded, and by when it was.
RequestsSound ==
  /\ requests \in Seq(Recorded) /\ Len(requests) <= MaxNetwork
  /\ activity \in 0 .. MaxActivity
  /\ \A i \in 1 .. Len(requests) : requests[i].clicked => clicked /\ requests[i].stamps # 0

\* Where the runner is, and what it may have done by then.
RunnerSound ==
  /\ asked \in {"none", "accept", "reject"} /\ clicked \in BOOLEAN
  /\ stamps \in 0 .. 2 /\ tries \in 0 .. Selectors
  /\ pc \in {"start", "refused", "loaded", "inspected", "clicking", "acted", "reloading", "reloaded",
             "final", "done"}
  /\ pc \in {"start", "refused"} => requests = << >> /\ ~initial.known
  /\ pc \in {"start", "refused", "loaded"} => ~clicked /\ tries = Selectors
  /\ pc \notin {"start", "refused"} => ~Unauthorized
  /\ pc \in {"inspected", "clicking", "acted", "reloading", "reloaded"} => asked # "none"
  /\ pc \in {"inspected", "clicking"} => ~clicked
  /\ pc = "clicking" => stamps = 1 /\ tries > 0
  /\ clicked => stamps # 0
  /\ clicked \/ tries < Selectors => asked # "none"

AuditInv ==
  /\ RequestsSound /\ RunnerSound
  /\ detections \in [Adapters -> 0 .. 3]
  /\ pc # "done" => findings = {}
  /\ AccusationsHaveEvidence /\ TrackingAfterRejectReported

\* Ranks of confidence.
LEMMA DetectTyped ==
  /\ Detect \in [Adapters -> 0 .. 3]
  /\ \A d \in [Adapters -> 0 .. 3] : MergeDetections(d, Detect) \in [Adapters -> 0 .. 3]
<1>1. ASSUME NEW kinds PROVE Confidence(kinds) \in 0 .. 3
  BY DEF Confidence
<1>2. Detect \in [Adapters -> 0 .. 3]
  BY <1>1 DEF Detect
<1>3. ASSUME NEW d \in [Adapters -> 0 .. 3] PROVE MergeDetections(d, Detect) \in [Adapters -> 0 .. 3]
  BY <1>2 DEF MergeDetections
<1> QED BY <1>2, <1>3

\* An audit starts with nothing read, nothing recorded and nothing found.
LEMMA AuditInvInit == CmpBounds /\ AuditInit => AuditInv
<1> SUFFICES ASSUME CmpBounds, AuditInit PROVE AuditInv
  OBVIOUS
<1>1. RequestsSound
  BY DEF AuditInit, RequestsSound, CmpBounds
<1>2. RunnerSound
  <2>1. initial = NotRead /\ NotRead.known = FALSE
    BY DEF AuditInit, NotRead
  <2>2. /\ asked \in {"none", "accept", "reject"} /\ clicked = FALSE /\ stamps = 0 /\ tries = Selectors
        /\ pc = "start" /\ requests = << >> /\ Selectors \in Nat
    BY DEF AuditInit, CmpBounds
  <2>3. ~initial.known
    BY <2>1
  <2>4. 0 \in 0 .. 2 /\ tries \in 0 .. Selectors /\ ~(tries < Selectors)
    BY <2>2
  <2> HIDE DEF NotRead
  <2> QED BY <2>2, <2>3, <2>4 DEF RunnerSound
<1>3. detections \in [Adapters -> 0 .. 3] /\ findings = {} /\ pc = "start"
  BY DEF AuditInit
<1> QED BY <1>1, <1>2, <1>3 DEF AuditInv, AccusationsHaveEvidence, TrackingAfterRejectReported

\* A step that finds nothing keeps what the findings say.
LEMMA NothingFound ==
  ASSUME AuditInv, pc # "done", pc' # "done", UNCHANGED findings,
         RequestsSound', RunnerSound', detections' \in [Adapters -> 0 .. 3]
  PROVE  AuditInv'
<1>1. findings' = {}
  BY DEF AuditInv
<1> QED BY <1>1 DEF AuditInv, AccusationsHaveEvidence, TrackingAfterRejectReported

\* What the page does by itself.
LEMMA PagePreserves ==
  ASSUME CmpBounds, AuditInv,
         \/ \E k \in RequestKinds : Send(k)
         \/ \E c \in ConsentSets : ChangeConsent(c)
         \/ \E a \in Adapters, k \in SignalKinds : LoadPlatform(a, k)
  PROVE  AuditInv'
<1>1. RequestsSound /\ RunnerSound /\ detections \in [Adapters -> 0 .. 3]
  BY DEF AuditInv
<1>2. PageActs /\ UNCHANGED <<arguments, pc, stamps, tries, clicked, states, detections, findings>>
  BY DEF Send, ChangeConsent, LoadPlatform
<1>3. pc \notin {"start", "refused", "done"} /\ activity' \in 0 .. MaxActivity
  BY <1>1, <1>2 DEF PageActs, RequestsSound, CmpBounds
<1>4. /\ asked' = asked /\ authorized' = authorized /\ pc' = pc /\ stamps' = stamps /\ tries' = tries
      /\ clicked' = clicked /\ initial' = initial /\ detections' = detections
  BY <1>2 DEF arguments, states
<1>5. RunnerSound'
  BY <1>1, <1>3, <1>4 DEF RunnerSound, Unauthorized
<1>6. RequestsSound'
  <2>1. CASE requests' = requests
    BY <1>1, <1>3, <1>4, <2>1 DEF RequestsSound
  <2>2. ASSUME NEW k \in RequestKinds, Send(k), requests' # requests PROVE RequestsSound'
    <3> DEFINE r == [kind |-> k, stamps |-> stamps, clicked |-> clicked]
    <3>1. Len(requests) < MaxNetwork /\ requests' = Append(requests, r)
      BY <2>2 DEF Send
    <3>2. r \in Recorded /\ (r.clicked => clicked /\ r.stamps # 0)
      BY <1>1 DEF Recorded, RunnerSound
    <3> HIDE DEF r
    <3>3. requests \in Seq(Recorded) /\ MaxNetwork \in Nat
      BY <1>1 DEF RequestsSound, CmpBounds
    <3>4. requests' \in Seq(Recorded) /\ Len(requests') = Len(requests) + 1
      BY <3>1, <3>2, <3>3
    <3>5. \A i \in 1 .. Len(requests') : requests'[i] = IF i <= Len(requests) THEN requests[i] ELSE r
      BY <3>1, <3>2, <3>3
    <3>6. ASSUME NEW i \in 1 .. Len(requests'), requests'[i].clicked PROVE clicked /\ requests'[i].stamps # 0
      <4>1. CASE i <= Len(requests)
        <5>1. i \in 1 .. Len(requests) /\ requests'[i] = requests[i]
          BY <3>3, <3>5, <4>1
        <5> QED BY <1>1, <3>6, <5>1 DEF RequestsSound
      <4>2. CASE ~(i <= Len(requests))
        BY <3>2, <3>5, <3>6, <4>2
      <4> QED BY <4>1, <4>2
    <3>7. Len(requests') <= MaxNetwork
      BY <3>1, <3>3, <3>4
    <3> QED BY <1>3, <1>4, <3>4, <3>6, <3>7 DEF RequestsSound
  <2> QED BY <2>1, <2>2 DEF ChangeConsent, LoadPlatform
<1> QED BY <1>1, <1>2, <1>3, <1>4, <1>5, <1>6, NothingFound

\* What the runner does before it concludes.
LEMMA RunnerPreserves ==
  ASSUME CmpBounds, AuditInv,
         \/ Refuse \/ Load \/ Inspect \/ StampAction \/ Click(TRUE) \/ Click(FALSE)
         \/ ReadAfterAction \/ (\E c \in ConsentSets : Reload(c)) \/ ReadAfterReload
  PROVE  AuditInv'
<1>1. RequestsSound /\ RunnerSound /\ detections \in [Adapters -> 0 .. 3] /\ Selectors \in Nat
  BY DEF AuditInv, CmpBounds
<1>2. /\ requests' = requests /\ activity' = activity /\ findings' = findings
      /\ asked' = asked /\ authorized' = authorized
  BY DEF Refuse, Load, Inspect, StampAction, Click, ReadAfterAction, Reload, ReadAfterReload, arguments
<1>3. ASSUME RunnerSound', clicked => clicked', detections' = detections, pc # "done", pc' # "done"
      PROVE  AuditInv'
  <2>1. RequestsSound'
    BY <1>1, <1>2, <1>3 DEF RequestsSound
  <2> QED BY <1>1, <1>2, <1>3, <2>1, NothingFound
<1>4. CASE Refuse
  <2>1. /\ pc = "start" /\ Unauthorized /\ pc' = "refused" /\ stamps' = stamps /\ tries' = tries
        /\ clicked' = clicked /\ initial' = initial /\ detections' = detections
    BY <1>4 DEF Refuse, states
  <2> QED BY <1>1, <1>2, <1>3, <2>1 DEF RunnerSound
<1>5. CASE Load
  <2>1. /\ pc = "start" /\ ~Unauthorized /\ pc' = "loaded" /\ stamps' = stamps /\ tries' = tries
        /\ clicked' = clicked /\ initial' = initial /\ detections' = detections
    BY <1>5 DEF Load, states
  <2> QED BY <1>1, <1>2, <1>3, <2>1 DEF RunnerSound, Unauthorized
<1>6. CASE Inspect
  <2>1. /\ pc = "loaded" /\ pc' = (IF asked = "none" THEN "final" ELSE "inspected")
        /\ stamps' = stamps /\ tries' = tries /\ clicked' = clicked /\ detections' = Detect
    BY <1>6 DEF Inspect
  <2>2. RunnerSound'
    BY <1>1, <1>2, <2>1 DEF RunnerSound, Unauthorized
  <2>3. RequestsSound'
    BY <1>1, <1>2, <2>1 DEF RequestsSound
  <2>4. pc # "done" /\ pc' # "done"
    BY <2>1
  <2> QED BY <1>2, <2>1, <2>2, <2>3, <2>4, DetectTyped, NothingFound
<1>7. CASE StampAction
  <2>1. /\ pc = "inspected" /\ pc' = (IF tries > 0 THEN "clicking" ELSE "final") /\ stamps' = 1
        /\ tries' = tries /\ clicked' = clicked /\ initial' = initial /\ detections' = detections
    BY <1>7 DEF StampAction, states
  <2>2. RunnerSound'
    BY <1>1, <1>2, <2>1 DEF RunnerSound, Unauthorized
  <2> QED BY <1>3, <2>1, <2>2
<1>8. ASSUME NEW works \in BOOLEAN, Click(works) PROVE AuditInv'
  <2>1. /\ pc = "clicking" /\ clicked' = works /\ tries' = tries - 1
        /\ pc' = (IF works THEN "acted" ELSE IF tries > 1 THEN "clicking" ELSE "final")
        /\ stamps' = stamps /\ initial' = initial /\ detections' = detections
    BY <1>8 DEF Click, states
  <2>2. RunnerSound'
    BY <1>1, <1>2, <2>1 DEF RunnerSound, Unauthorized
  <2>3. ~clicked
    BY <1>1, <2>1 DEF RunnerSound
  <2> QED BY <1>3, <2>1, <2>2, <2>3
<1>9. CASE ReadAfterAction
  <2>1. /\ pc = "acted" /\ pc' = (IF reload THEN "reloading" ELSE "final")
        /\ stamps' = (IF reload THEN 2 ELSE stamps)
        /\ tries' = tries /\ clicked' = clicked /\ initial' = initial /\ detections' = detections
    BY <1>9 DEF ReadAfterAction
  <2>2. RunnerSound'
    BY <1>1, <1>2, <2>1 DEF RunnerSound, Unauthorized
  <2> QED BY <1>3, <2>1, <2>2
<1>10. CASE (\E c \in ConsentSets : Reload(c)) \/ ReadAfterReload
  <2>1. /\ pc \in {"reloading", "reloaded"} /\ pc' \in {"reloaded", "final"} /\ stamps' = stamps
        /\ tries' = tries /\ clicked' = clicked /\ initial' = initial /\ detections' = detections
    BY <1>10 DEF Reload, ReadAfterReload, states
  <2>2. RunnerSound'
    BY <1>1, <1>2, <2>1 DEF RunnerSound, Unauthorized
  <2> QED BY <1>3, <2>1, <2>2
<1> QED BY <1>4, <1>5, <1>6, <1>7, <1>8, <1>9, <1>10

\* The report: what it accuses of, and what it must say.
LEMMA ConcludePreserves ==
  ASSUME CmpBounds, AuditInv, Conclude
  PROVE  AuditInv'
<1> DEFINE d == MergeDetections(detections, Detect)
<1>1. /\ pc = "final" /\ pc' = "done" /\ detections' = d
      /\ findings' = DetectionFindings(d) \cup CookieFindings(d) \cup PreConsentFindings(d)
                       \cup LifecycleFindings \cup ConsentModeFindings
                       \cup ConflictFindings \cup StateFindings
      /\ UNCHANGED <<activity, requests, arguments, stamps, tries, clicked, states>>
  BY DEF Conclude
<1>2. /\ requests' = requests /\ activity' = activity /\ asked' = asked /\ authorized' = authorized
      /\ stamps' = stamps /\ tries' = tries /\ clicked' = clicked /\ initial' = initial
  BY <1>1 DEF arguments, states
<1>3. RequestsSound /\ RunnerSound /\ d \in [Adapters -> 0 .. 3]
  BY DetectTyped DEF AuditInv
<1> HIDE DEF d
<1>4. RequestsSound' /\ RunnerSound' /\ detections' \in [Adapters -> 0 .. 3]
  <2>1. RequestsSound'
    BY <1>2, <1>3 DEF RequestsSound
  <2>2. RunnerSound'
    BY <1>1, <1>2, <1>3 DEF RunnerSound, Unauthorized
  <2> QED BY <1>1, <1>3, <2>1, <2>2
<1>5. ASSUME NEW f \in findings', f[2] \in {"high", "critical"}
      PROVE  \/ f[1] = "tracking_before_consent" /\ initial.category[f[3]] = "denied"
             \/ asked = "reject" /\ clicked
  <2> DEFINE mild(g) == g[2] \in {"informational", "low", "medium"}
  <2>1. \A rule, severity : Finding(rule, severity)[1] = rule /\ Finding(rule, severity)[2] = severity
    BY DEF Finding
  <2>2. \A g \in DetectionFindings(d) : mild(g)
    BY <2>1 DEF DetectionFindings
  <2>3. \A g \in CookieFindings(d) \cup ConsentModeFindings \cup ConflictFindings : mild(g)
    BY <2>1 DEF CookieFindings, ConsentModeFindings, ConflictFindings
  <2>4. \A g \in StateFindings : mild(g)
    <3>1. CASE ~clicked \/ ~afterReload.known
      BY <3>1 DEF StateFindings
    <3>2. CASE clicked /\ afterReload.known
      BY <2>1, <3>2 DEF StateFindings
    <3> QED BY <1>3, <3>1, <3>2 DEF RunnerSound
  <2>5. CASE f \in PreConsentFindings(d)
    BY <1>5, <2>5 DEF PreConsentFindings
  <2>6. CASE f \in LifecycleFindings
    <3>1. asked \in {"none", "accept", "reject"} /\ clicked \in BOOLEAN
      BY <1>3 DEF RunnerSound
    <3>2. CASE asked = "none" \/ ~clicked
      BY <1>5, <2>1, <2>6, <3>1, <3>2 DEF LifecycleFindings
    <3>3. CASE asked = "accept" /\ clicked
      BY <1>5, <2>1, <2>6, <3>3 DEF LifecycleFindings
    <3> QED BY <3>1, <3>2, <3>3
  <2> QED BY <1>1, <1>5, <2>2, <2>3, <2>4, <2>5, <2>6
<1>6. AccusationsHaveEvidence'
  BY <1>2, <1>5 DEF AccusationsHaveEvidence
<1>7. ASSUME asked = "reject", NEW r \in Range(requests), r.clicked
      PROVE  \E f \in findings' : f[1] = "tracking_after_reject"
  <2>1. PICK i \in 1 .. Len(requests) : r = requests[i]
    BY <1>3 DEF Range, RequestsSound
  <2>2. r \in Recorded /\ clicked /\ r.stamps # 0
    BY <1>3, <1>7, <2>1 DEF RequestsSound
  <2>3. Phase(r) \in {1, 2}
    BY <2>2 DEF Phase, Recorded
  <2>4. AfterChoice # {}
    BY <1>7, <2>3 DEF AfterChoice
  <2>5. Finding("tracking_after_reject", "critical") \in LifecycleFindings
    BY <1>7, <2>2, <2>4 DEF LifecycleFindings
  <2>6. Finding("tracking_after_reject", "critical")[1] = "tracking_after_reject"
    BY DEF Finding
  <2> QED BY <1>1, <2>5, <2>6
<1>8. TrackingAfterRejectReported'
  BY <1>2, <1>7 DEF TrackingAfterRejectReported, Reported, Range
<1> QED BY <1>1, <1>4, <1>6, <1>8 DEF AuditInv

\* One step of the page or the runner.
LEMMA AuditInvPreserved ==
  ASSUME CmpBounds, AuditInv, [AuditNext]_auditVars
  PROVE  AuditInv'
<1>1. CASE UNCHANGED auditVars
  <2>1. /\ requests' = requests /\ activity' = activity /\ asked' = asked /\ authorized' = authorized
        /\ stamps' = stamps /\ tries' = tries /\ clicked' = clicked /\ initial' = initial
        /\ pc' = pc /\ detections' = detections /\ findings' = findings
    BY <1>1 DEF auditVars, arguments, states
  <2> QED BY <2>1 DEF AuditInv, RequestsSound, RunnerSound, Unauthorized, AccusationsHaveEvidence,
                      TrackingAfterRejectReported, Reported, Range
<1> QED BY <1>1, PagePreserves, RunnerPreserves, ConcludePreserves DEF AuditNext, Runner

\* The invariant says what the properties say.
LEMMA AuditInvJust == AuditInv => AuditJust
<1> SUFFICES ASSUME AuditInv PROVE AuditJust
  OBVIOUS
<1>1. AuditTypeOK
  BY DEF AuditInv, AuditTypeOK, RequestsSound, RunnerSound
<1>2. ReadOnlyUnlessAuthorized
  BY DEF AuditInv, ReadOnlyUnlessAuthorized, RunnerSound, Unauthorized
<1> QED BY <1>1, <1>2 DEF AuditJust, AuditInv

\* However the page acts between the steps of an audit, the audit operates nothing
\* without authorization, accuses of nothing it has no evidence for, and reports the
\* tracking it recorded after a rejection.
THEOREM AuditJustHolds == ASSUME CmpBounds PROVE AuditSpec => []AuditJust
<1>1. AuditInit => AuditInv
  BY AuditInvInit
<1>2. AuditInv /\ [AuditNext]_auditVars => AuditInv'
  BY AuditInvPreserved
<1>3. AuditSpec => AuditInit /\ [][AuditNext]_auditVars
  BY PTL DEF AuditSpec
<1> QED BY <1>1, <1>2, <1>3, AuditInvJust, PTL

-----------------------------------------------------------------------------
(***************************************************************************)
(* The recording of a session (Observation). A snapshot is two reads and   *)
(* the page runs on between them; what differs between a read and the page *)
(* as it is now was touched since that read (Accounted), separately for    *)
(* the storage, the layer and the cookies, until the read after the step   *)
(* turns it into a difference.                                             *)
(***************************************************************************)

Store == [Keys -> Values \cup {Absent}]
Entries == [shape : {Shape[v] : v \in Values} \cup {Absent}, value : Values \cup {Absent, Redacted}]
Touched == [cookies : SUBSET Keys, local : SUBSET Keys, items : Seq(Items)]
Snapshot == [cookies : [Keys -> Entries], local : [Keys -> Entries], layer : Seq(Items)]
Half == [local : [Keys -> Entries], layer : Seq(Items), touched : Touched]
Difference == [cookies : SUBSET Keys, local : SUBSET Keys, items : Seq(Items), touched : Touched]
EventKinds == {"datalayer_push", "network_request", "click", "scenario_step_failed"}

RecordTyped ==
  /\ cookies \in Store /\ local \in Store /\ layer \in Seq(Items) /\ touched \in Touched
  /\ snaps \in Seq(Snapshot) /\ diffs \in Seq(Difference) /\ events \in Seq(EventKinds)
  /\ networkCount \in Nat /\ pageSteps \in 0 .. MaxPageSteps /\ step \in 0 .. Steps
  /\ doing \in {"load_cookies", "before_cookies", "after_cookies"} => half \in Half

\* How many snapshots and differences there are, by where the session is.
Counts(ls, ld) ==
  /\ doing \in {"goto", "load_js", "load_cookies", "before_js", "before_cookies", "act", "after_js",
                "after_cookies", "reported", "closed"}
  /\ doing \in {"goto", "load_js", "load_cookies"} => ls = 0 /\ ld = 0 /\ step = 0
  /\ doing \in {"before_js", "before_cookies"} => ls = 1 + 2 * step /\ ld = step /\ step < Steps
  /\ doing = "act" => ls = 2 + 2 * step /\ ld = step /\ step < Steps
  /\ doing \in {"after_js", "after_cookies"} => ls = 2 * step /\ ld = step - 1 /\ step > 0
  /\ doing = "reported" => ls = 1 + 2 * step /\ ld = step
  /\ doing = "closed" => ls <= 1 + 2 * Steps /\ ld <= step

\* The end of now that a snapshot shows was in base or was pushed since.
LayerSince(base, items, now) ==
  \A i \in 1 .. Len(now) :
    i + LayerCap + Len(items) > Len(now) => now[i] \in Elements(base) \cup Elements(items)

\* All that the storage and the layer hold and did not hold in b was touched since.
StorageAccounted(b, t) ==
  /\ DiffEntries(b.local, EntriesFromJs(local)) \subseteq t.local
  /\ LayerSince(b.layer, t.items, layer)

\* The two halves of the snapshot before the step, against the page as it is now or, once
\* the half after the step was read, against that.
Accounted ==
  LET last == snaps[Len(snaps)] IN
  /\ doing \in {"act", "after_js", "after_cookies"} =>
       DiffEntries(last.cookies, EntriesFromCookies(cookies)) \subseteq touched.cookies
  /\ doing = "before_cookies" => StorageAccounted(half, touched)
  /\ doing \in {"act", "after_js"} => StorageAccounted(last, touched)
  /\ doing = "after_cookies" =>
       /\ DiffEntries(last.local, half.local) \subseteq half.touched.local
       /\ Elements(half.layer) \subseteq Elements(last.layer) \cup Elements(half.touched.items)

\* A store that keeps the values of sensitive keys back.
KeptBack(entries) == \A k \in Sensitive : entries[k].value \in {Absent, Redacted}

RedactionSound ==
  /\ \A i \in 1 .. Len(snaps) : KeptBack(snaps[i].cookies) /\ KeptBack(snaps[i].local)
  /\ doing \in {"load_cookies", "before_cookies", "after_cookies"} => KeptBack(half.local)

\* A difference that names only what was touched.
DifferenceSound(d) ==
  /\ d.cookies \subseteq d.touched.cookies /\ d.local \subseteq d.touched.local
  /\ Elements(d.items) \subseteq Elements(d.touched.items)

EvidenceSound ==
  /\ networkCount <= Len(events) /\ IsFiniteSet(NetworkEvidence)
  /\ CaptureAll => Cardinality(NetworkEvidence) = networkCount /\ networkCount <= MaxNetworkEvents

RecordInv ==
  /\ RecordTyped /\ Counts(Len(snaps), Len(diffs)) /\ Accounted /\ RedactionSound
  /\ (\A i \in 1 .. Len(diffs) : DifferenceSound(diffs[i])) /\ EvidenceSound

-----------------------------------------------------------------------------
\* What is captured of a store is typed, and the value of a sensitive key is not in it.
LEMMA EntriesSound ==
  ASSUME NEW store \in Store, Sensitive \subseteq Keys
  PROVE  /\ EntriesFromJs(store) \in [Keys -> Entries] /\ KeptBack(EntriesFromJs(store))
         /\ EntriesFromCookies(store) \in [Keys -> Entries] /\ KeptBack(EntriesFromCookies(store))
<1>1. ASSUME NEW k \in Keys, NEW c \in Values \cup {Absent}
      PROVE  StateEntry(store[k], RedactIfSensitive(k, c)) \in Entries
  <2>1. store[k] \in Values \cup {Absent}
    BY DEF Store
  <2> QED BY <1>1, <2>1 DEF StateEntry, RedactIfSensitive, Entries
<1>2. ASSUME NEW k \in Sensitive, NEW c
      PROVE  StateEntry(store[k], RedactIfSensitive(k, c)).value \in {Absent, Redacted}
  BY DEF StateEntry, RedactIfSensitive
<1>3. \A k \in Keys : store[k] \in Values \cup {Absent}
  BY DEF Store
<1>4. EntriesFromJs(store) \in [Keys -> Entries]
  <2>1. ASSUME NEW k \in Keys PROVE (IF CaptureValues THEN store[k] ELSE Absent) \in Values \cup {Absent}
    BY <1>3
  <2> QED BY <1>1, <2>1 DEF EntriesFromJs
<1>5. EntriesFromCookies(store) \in [Keys -> Entries]
  BY <1>1, <1>3 DEF EntriesFromCookies
<1>6. KeptBack(EntriesFromJs(store)) /\ KeptBack(EntriesFromCookies(store))
  BY <1>2 DEF KeptBack, EntriesFromJs, EntriesFromCookies
<1> QED BY <1>4, <1>5, <1>6

\* The snapshot of the layer is its end.
LEMMA LayerSnapshotFacts ==
  ASSUME layer \in Seq(Items), LayerCap \in Nat \ {0}
  PROVE  /\ LayerSnapshot \in Seq(Items)
         /\ \A i \in 1 .. Len(layer) : i + LayerCap > Len(layer) => layer[i] \in Elements(LayerSnapshot)
         /\ \A x \in Elements(LayerSnapshot) :
              \E i \in 1 .. Len(layer) : i + LayerCap > Len(layer) /\ x = layer[i]
<1> DEFINE n == Len(layer)
           m == n - LayerCap + 1
           S == SubSeq(layer, m, n)
<1>1. n \in Nat
  OBVIOUS
<1>2. CASE n > LayerCap
  <2>1. LayerSnapshot = S
    BY <1>2 DEF LayerSnapshot
  <2>2. m \in 1 .. n /\ n \in 1 .. n /\ n - m + 1 = LayerCap
    BY <1>1, <1>2
  <2>3. S \in Seq(Items) /\ Len(S) = LayerCap /\ \A j \in 1 .. LayerCap : S[j] = layer[m + j - 1]
    BY <2>2, SubSeqProperties
  <2> HIDE DEF S
  <2>4. ASSUME NEW i \in 1 .. n, i + LayerCap > n PROVE layer[i] \in Elements(S)
    <3>1. i - m + 1 \in 1 .. LayerCap /\ m + (i - m + 1) - 1 = i
      BY <1>1, <1>2, <2>4
    <3>2. S[i - m + 1] = layer[i] /\ i - m + 1 \in DOMAIN S
      BY <2>3, <3>1
    <3> QED BY <3>2 DEF Elements
  <2>5. ASSUME NEW x \in Elements(S) PROVE \E i \in 1 .. n : i + LayerCap > n /\ x = layer[i]
    <3>1. PICK j \in 1 .. LayerCap : x = S[j]
      BY <2>3, <2>5 DEF Elements
    <3>2. m + j - 1 \in 1 .. n /\ (m + j - 1) + LayerCap > n
      BY <1>1, <1>2, <3>1
    <3> QED BY <2>3, <3>1, <3>2
  <2> QED BY <2>1, <2>3, <2>4, <2>5
<1>3. CASE ~(n > LayerCap)
  <2>1. LayerSnapshot = layer
    BY <1>3 DEF LayerSnapshot
  <2>2. \A i \in 1 .. n : i + LayerCap > n
    BY <1>1, <1>3
  <2> QED BY <1>1, <2>1, <2>2 DEF Elements
<1> QED BY <1>2, <1>3

\* Nothing is recorded at first.
LEMMA RecordInvInit == ObservationBounds /\ RecordInit => RecordInv
<1> SUFFICES ASSUME ObservationBounds, RecordInit PROVE RecordInv
  OBVIOUS
<1>1. Len(snaps) = 0 /\ Len(diffs) = 0 /\ Len(events) = 0 /\ doing = "goto" /\ step = 0 /\ networkCount = 0
  BY DEF RecordInit
<1>2. RecordTyped
  BY <1>1 DEF RecordInit, ObservationBounds, RecordTyped, Store, Touched
<1>3. Counts(Len(snaps), Len(diffs)) /\ Accounted /\ RedactionSound
  BY <1>1 DEF Counts, Accounted, RedactionSound
<1>4. EvidenceSound
  <2>1. NetworkEvidence = {}
    BY DEF NetworkEvidence, RecordInit
  <2>2. IsFiniteSet(NetworkEvidence) /\ Cardinality(NetworkEvidence) = 0
    BY <2>1, FS_EmptySet
  <2> QED BY <1>1, <2>2 DEF EvidenceSound, ObservationBounds
<1>5. \A i \in 1 .. Len(diffs) : DifferenceSound(diffs[i])
  BY <1>1
<1> QED BY <1>2, <1>3, <1>4, <1>5 DEF RecordInv

\* An event other than a request changes the evidence in nothing.
LEMMA OtherEvent ==
  ASSUME RecordTyped, EvidenceSound, NEW e \in EventKinds, e # "network_request",
         events' = Append(events, e), networkCount' = networkCount
  PROVE  events' \in Seq(EventKinds) /\ EvidenceSound'
<1>1. events \in Seq(EventKinds)
  BY DEF RecordTyped
<1>2. /\ events' \in Seq(EventKinds) /\ Len(events') = Len(events) + 1
      /\ \A i \in 1 .. Len(events) : events'[i] = events[i]
      /\ events'[Len(events) + 1] = e
  BY <1>1
<1>3. NetworkEvidence' = NetworkEvidence
  BY <1>1, <1>2 DEF NetworkEvidence
<1>4. networkCount \in Nat /\ networkCount' <= Len(events')
  BY <1>1, <1>2 DEF EvidenceSound, RecordTyped
<1> QED BY <1>2, <1>3, <1>4 DEF EvidenceSound

\* A change of one key shows at that key only.
LEMMA OneKeyChanges ==
  ASSUME NEW store \in Store, NEW k \in Keys, NEW v, NEW b
  PROVE  /\ DiffEntries(b, EntriesFromJs([store EXCEPT ![k] = v]))
              \subseteq DiffEntries(b, EntriesFromJs(store)) \cup {k}
         /\ DiffEntries(b, EntriesFromCookies([store EXCEPT ![k] = v]))
              \subseteq DiffEntries(b, EntriesFromCookies(store)) \cup {k}
<1> DEFINE other == [store EXCEPT ![k] = v]
<1>1. \A j \in Keys : j # k => other[j] = store[j]
  BY DEF Store
<1> HIDE DEF other
<1>2. \A j \in Keys : j # k => EntriesFromJs(other)[j] = EntriesFromJs(store)[j]
  BY <1>1 DEF EntriesFromJs
<1>3. \A j \in Keys : j # k => EntriesFromCookies(other)[j] = EntriesFromCookies(store)[j]
  BY <1>1 DEF EntriesFromCookies
<1> QED BY <1>2, <1>3 DEF DiffEntries, other

\* A change of a cookie or of a stored value.
LEMMA StorePreserves ==
  ASSUME ObservationBounds, RecordInv, NEW k \in Keys, NEW v \in Values \cup {Absent},
         SetCookie(k, v) \/ SetLocal(k, v)
  PROVE  RecordInv'
<1>1. /\ RecordTyped /\ Counts(Len(snaps), Len(diffs)) /\ Accounted /\ RedactionSound
      /\ (\A i \in 1 .. Len(diffs) : DifferenceSound(diffs[i])) /\ EvidenceSound
  BY DEF RecordInv
<1>2. /\ cookies \in Store /\ local \in Store /\ touched \in Touched /\ pageSteps \in 0 .. MaxPageSteps
      /\ MaxPageSteps \in Nat
  BY <1>1 DEF RecordTyped, ObservationBounds
<1>3. /\ layer' = layer /\ doing' = doing /\ step' = step /\ half' = half /\ snaps' = snaps
      /\ diffs' = diffs /\ events' = events /\ networkCount' = networkCount
      /\ pageSteps' \in 0 .. MaxPageSteps
  BY <1>2 DEF SetCookie, SetLocal, PageStep
<1>4. /\ cookies' \in Store /\ local' \in Store /\ touched' \in Touched
      /\ touched.cookies \subseteq touched'.cookies /\ touched.local \subseteq touched'.local
      /\ touched'.items = touched.items
      /\ \A b : /\ DiffEntries(b, EntriesFromCookies(cookies'))
                     \subseteq DiffEntries(b, EntriesFromCookies(cookies)) \cup touched'.cookies
                /\ DiffEntries(b, EntriesFromJs(local'))
                     \subseteq DiffEntries(b, EntriesFromJs(local)) \cup touched'.local
  <2>1. CASE SetCookie(k, v)
    <3>1. /\ cookies' = [cookies EXCEPT ![k] = v] /\ local' = local
          /\ touched' = [touched EXCEPT !.cookies = touched.cookies \cup {k}]
      BY <2>1 DEF SetCookie
    <3>2. cookies' \in Store
      BY <1>2, <3>1 DEF Store
    <3>3. /\ touched' \in Touched /\ touched'.cookies = touched.cookies \cup {k}
          /\ touched'.local = touched.local /\ touched'.items = touched.items
      BY <1>2, <3>1 DEF Touched
    <3>4. \A b : DiffEntries(b, EntriesFromCookies(cookies'))
                   \subseteq DiffEntries(b, EntriesFromCookies(cookies)) \cup {k}
      BY <1>2, <3>1, OneKeyChanges
    <3> QED BY <1>2, <3>1, <3>2, <3>3, <3>4
  <2>2. CASE SetLocal(k, v)
    <3>1. /\ local' = [local EXCEPT ![k] = v] /\ cookies' = cookies
          /\ touched' = [touched EXCEPT !.local = touched.local \cup {k}]
      BY <2>2 DEF SetLocal
    <3>2. local' \in Store
      BY <1>2, <3>1 DEF Store
    <3>3. /\ touched' \in Touched /\ touched'.local = touched.local \cup {k}
          /\ touched'.cookies = touched.cookies /\ touched'.items = touched.items
      BY <1>2, <3>1 DEF Touched
    <3>4. \A b : DiffEntries(b, EntriesFromJs(local'))
                   \subseteq DiffEntries(b, EntriesFromJs(local)) \cup {k}
      BY <1>2, <3>1, OneKeyChanges
    <3> QED BY <1>2, <3>1, <3>2, <3>3, <3>4
  <2> QED BY <2>1, <2>2
<1>5. RecordTyped'
  BY <1>1, <1>3, <1>4 DEF RecordTyped
<1>6. ASSUME NEW b, StorageAccounted(b, touched) PROVE StorageAccounted(b, touched)'
  BY <1>3, <1>4, <1>6 DEF StorageAccounted
<1>7. Accounted'
  <2> DEFINE last == snaps[Len(snaps)]
  <2>1. doing \in {"act", "after_js", "after_cookies"} =>
          DiffEntries(last.cookies, EntriesFromCookies(cookies')) \subseteq touched'.cookies
    BY <1>1, <1>4 DEF Accounted
  <2>2. /\ doing = "before_cookies" => StorageAccounted(half, touched)'
        /\ doing \in {"act", "after_js"} => StorageAccounted(last, touched)'
    BY <1>1, <1>3, <1>6 DEF Accounted
  <2> QED BY <1>1, <1>3, <2>1, <2>2 DEF Accounted
<1>8. Counts(Len(snaps), Len(diffs))' /\ RedactionSound' /\ EvidenceSound'
  BY <1>1, <1>3 DEF Counts, RedactionSound, EvidenceSound, NetworkEvidence
<1> QED BY <1>1, <1>3, <1>5, <1>7, <1>8 DEF RecordInv

\* A push, which the agent reports.
LEMMA PushPreserves ==
  ASSUME ObservationBounds, RecordInv, NEW x \in Items, Push(x)
  PROVE  RecordInv'
<1>1. /\ RecordTyped /\ Counts(Len(snaps), Len(diffs)) /\ Accounted /\ RedactionSound
      /\ (\A i \in 1 .. Len(diffs) : DifferenceSound(diffs[i])) /\ EvidenceSound
  BY DEF RecordInv
<1>2. /\ layer \in Seq(Items) /\ touched \in Touched /\ pageSteps \in 0 .. MaxPageSteps
      /\ MaxPageSteps \in Nat /\ LayerCap \in Nat
  BY <1>1 DEF RecordTyped, ObservationBounds
<1>3. /\ cookies' = cookies /\ local' = local /\ doing' = doing /\ step' = step /\ half' = half
      /\ snaps' = snaps /\ diffs' = diffs /\ networkCount' = networkCount
      /\ pageSteps' \in 0 .. MaxPageSteps
  BY <1>2 DEF Push, PageStep
<1>4. events' \in Seq(EventKinds) /\ EvidenceSound'
  BY <1>1, OtherEvent DEF Push, EventKinds
<1>5. layer' = Append(layer, x) /\ touched' = [touched EXCEPT !.items = Append(touched.items, x)]
  BY DEF Push
<1>6. touched.items \in Seq(Items)
  BY <1>2 DEF Touched
<1>7. /\ touched' \in Touched /\ touched'.items = Append(touched.items, x)
      /\ touched'.cookies = touched.cookies /\ touched'.local = touched.local
  <2> DEFINE more == Append(touched.items, x)
  <2>1. more \in Seq(Items) /\ touched' = [touched EXCEPT !.items = more]
    BY <1>5, <1>6
  <2> HIDE DEF more
  <2>2. touched' \in Touched /\ touched'.items = more
    BY <1>2, <2>1 DEF Touched
  <2>3. touched'.cookies = touched.cookies /\ touched'.local = touched.local
    BY <1>2, <2>1 DEF Touched
  <2> QED BY <2>2, <2>3 DEF more
<1>8. /\ layer' \in Seq(Items) /\ Len(layer') = Len(layer) + 1 /\ layer'[Len(layer) + 1] = x
      /\ \A i \in 1 .. Len(layer) : layer'[i] = layer[i]
  BY <1>2, <1>5
<1>9. /\ Len(touched'.items) = Len(touched.items) + 1
      /\ x \in Elements(touched'.items) /\ Elements(touched.items) \subseteq Elements(touched'.items)
  <2>1. /\ touched'.items \in Seq(Items) /\ Len(touched'.items) = Len(touched.items) + 1
        /\ touched'.items[Len(touched.items) + 1] = x
        /\ \A i \in 1 .. Len(touched.items) : touched'.items[i] = touched.items[i]
    BY <1>6, <1>7
  <2> QED BY <1>6, <2>1 DEF Elements
<1>10. ASSUME NEW b, LayerSince(b, touched.items, layer) PROVE LayerSince(b, touched'.items, layer')
  <2> SUFFICES ASSUME NEW i \in 1 .. Len(layer'), i + LayerCap + Len(touched'.items) > Len(layer')
               PROVE  layer'[i] \in Elements(b) \cup Elements(touched'.items)
    BY DEF LayerSince
  <2>1. CASE i = Len(layer) + 1
    BY <1>8, <1>9, <2>1
  <2>2. CASE i \in 1 .. Len(layer)
    <3>1. Len(layer) \in Nat /\ Len(touched.items) \in Nat /\ i \in Nat /\ LayerCap \in Nat
      BY <1>2, <1>6, <2>2 DEF ObservationBounds
    <3> DEFINE before == Len(touched.items)
               after == Len(touched'.items)
    <3>2. after = before + 1 /\ i + LayerCap + after > Len(layer) + 1
      BY <1>8, <1>9
    <3> HIDE DEF before, after
    <3>3. before \in Nat
      BY <3>1 DEF before
    <3>4. i + LayerCap + before > Len(layer)
      BY <3>1, <3>2, <3>3
    <3>5. i + LayerCap + Len(touched.items) > Len(layer)
      BY <3>4 DEF before
    <3>6. layer[i] \in Elements(b) \cup Elements(touched.items)
      BY <1>10, <2>2, <3>5 DEF LayerSince
    <3> QED BY <1>8, <1>9, <2>2, <3>6
  <2> QED BY <1>2, <1>8, <2>1, <2>2
<1>11. RecordTyped'
  BY <1>1, <1>3, <1>4, <1>7, <1>8 DEF RecordTyped
<1>12. ASSUME NEW b, StorageAccounted(b, touched) PROVE StorageAccounted(b, touched)'
  <2>1. DiffEntries(b.local, EntriesFromJs(local)) \subseteq touched'.local
    BY <1>7, <1>12 DEF StorageAccounted
  <2>2. LayerSince(b.layer, touched'.items, layer')
    BY <1>10, <1>12 DEF StorageAccounted
  <2> QED BY <1>3, <2>1, <2>2 DEF StorageAccounted
<1>13. Accounted'
  <2> DEFINE last == snaps[Len(snaps)]
  <2>1. doing \in {"act", "after_js", "after_cookies"} =>
          DiffEntries(last.cookies, EntriesFromCookies(cookies)) \subseteq touched'.cookies
    BY <1>1, <1>7 DEF Accounted
  <2>2. /\ doing = "before_cookies" => StorageAccounted(half, touched)'
        /\ doing \in {"act", "after_js"} => StorageAccounted(last, touched)'
    BY <1>1, <1>3, <1>12 DEF Accounted
  <2> QED BY <1>1, <1>3, <2>1, <2>2 DEF Accounted
<1>14. Counts(Len(snaps), Len(diffs))' /\ RedactionSound'
  BY <1>1, <1>3 DEF Counts, RedactionSound
<1> QED BY <1>1, <1>3, <1>4, <1>11, <1>13, <1>14 DEF RecordInv

\* A step that leaves the page, the snapshots and the place of the session alone.
LEMMA ElsewherePreserves ==
  ASSUME RecordInv,
         UNCHANGED <<page, doing, step, half, snaps, diffs, touched>>,
         pageSteps' \in 0 .. MaxPageSteps, networkCount' \in Nat, events' \in Seq(EventKinds), EvidenceSound'
  PROVE  RecordInv'
<1>1. /\ cookies' = cookies /\ local' = local /\ layer' = layer /\ doing' = doing /\ step' = step
      /\ half' = half /\ snaps' = snaps /\ diffs' = diffs /\ touched' = touched
  BY DEF page
<1>2. RecordTyped'
  BY <1>1 DEF RecordInv, RecordTyped
<1>3. Accounted'
  BY <1>1 DEF RecordInv, Accounted, StorageAccounted
<1>4. Counts(Len(snaps), Len(diffs))' /\ RedactionSound'
  BY <1>1 DEF RecordInv, Counts, RedactionSound
<1>5. \A i \in 1 .. Len(diffs') : DifferenceSound(diffs'[i])
  BY <1>1 DEF RecordInv
<1> QED BY <1>2, <1>3, <1>4, <1>5 DEF RecordInv

\* A request of the page.
LEMMA RequestPreserves ==
  ASSUME ObservationBounds, RecordInv, NEW analytics \in BOOLEAN, Request(analytics)
  PROVE  RecordInv'
<1> DEFINE kept == (analytics \/ CaptureAll) /\ (CaptureAll => Counted)
<1>1. /\ events \in Seq(EventKinds) /\ networkCount \in Nat /\ pageSteps \in 0 .. MaxPageSteps
      /\ MaxPageSteps \in Nat /\ MaxNetworkEvents \in Nat /\ EvidenceSound
  BY DEF RecordInv, RecordTyped, ObservationBounds
<1>2. /\ networkCount' = networkCount + (IF kept /\ CaptureAll THEN 1 ELSE 0)
      /\ events' = (IF kept THEN Append(events, "network_request") ELSE events)
      /\ UNCHANGED <<page, doing, step, half, snaps, diffs, touched>>
      /\ pageSteps' \in 0 .. MaxPageSteps
  BY <1>1 DEF Request, PageStep
<1>3. CASE ~kept
  <2>1. events' = events /\ networkCount' = networkCount
    BY <1>1, <1>2, <1>3
  <2>2. EvidenceSound'
    BY <1>1, <2>1 DEF EvidenceSound, NetworkEvidence
  <2> QED BY <1>1, <1>2, <2>1, <2>2, ElsewherePreserves
<1>4. CASE kept
  <2>1. /\ events' \in Seq(EventKinds) /\ Len(events') = Len(events) + 1
        /\ events'[Len(events) + 1] = "network_request"
        /\ \A i \in 1 .. Len(events) : events'[i] = events[i]
    BY <1>1, <1>2, <1>4 DEF EventKinds
  <2>2. NetworkEvidence' = NetworkEvidence \cup {Len(events) + 1}
    BY <1>1, <2>1 DEF NetworkEvidence
  <2>3. Len(events) + 1 \notin NetworkEvidence
    BY <1>1 DEF NetworkEvidence
  <2>4. IsFiniteSet(NetworkEvidence') /\ Cardinality(NetworkEvidence') = Cardinality(NetworkEvidence) + 1
    BY <1>1, <2>2, <2>3, FS_AddElement DEF EvidenceSound
  <2>5. CASE CaptureAll
    <3>1. networkCount' = networkCount + 1 /\ networkCount < MaxNetworkEvents
      BY <1>2, <1>4, <2>5 DEF Counted
    <3>2. networkCount' <= Len(events') /\ networkCount' <= MaxNetworkEvents /\ networkCount' \in Nat
      BY <1>1, <2>1, <3>1 DEF EvidenceSound
    <3>3. Cardinality(NetworkEvidence') = networkCount'
      BY <1>1, <2>4, <2>5, <3>1 DEF EvidenceSound
    <3>4. EvidenceSound'
      BY <2>4, <3>2, <3>3 DEF EvidenceSound
    <3> QED BY <1>2, <2>1, <3>2, <3>4, ElsewherePreserves
  <2>6. CASE ~CaptureAll
    <3>1. networkCount' = networkCount
      BY <1>1, <1>2, <2>6
    <3>2. networkCount' <= Len(events') /\ networkCount' \in Nat
      BY <1>1, <2>1, <3>1 DEF EvidenceSound
    <3>3. EvidenceSound'
      BY <2>4, <2>6, <3>2 DEF EvidenceSound
    <3> QED BY <1>2, <2>1, <3>2, <3>3, ElsewherePreserves
  <2> QED BY <2>5, <2>6
<1> QED BY <1>3, <1>4

\* The page is loaded, a step is taken, or the session ends.
LEMMA MovesPreserve ==
  ASSUME ObservationBounds, RecordInv,
         Goto \/ Act("click") \/ Act("scenario_step_failed") \/ Close
  PROVE  RecordInv'
<1>1. /\ RecordTyped /\ Counts(Len(snaps), Len(diffs)) /\ Accounted /\ RedactionSound
      /\ (\A i \in 1 .. Len(diffs) : DifferenceSound(diffs[i])) /\ EvidenceSound
      /\ Steps \in Nat
  BY DEF RecordInv, ObservationBounds
<1>2. /\ cookies' = cookies /\ local' = local /\ layer' = layer /\ half' = half /\ snaps' = snaps
      /\ diffs' = diffs /\ networkCount' = networkCount /\ touched' = touched /\ pageSteps' = pageSteps
  BY DEF Goto, Act, Close, page
<1>3. /\ step' \in 0 .. Steps /\ Counts(Len(snaps), Len(diffs))'
      /\ doing' \in {"load_js", "after_js", "closed"}
      /\ doing' = "after_js" => doing = "act"
  <2>1. step \in 0 .. Steps
    BY <1>1 DEF RecordTyped
  <2>2. CASE Goto
    BY <1>1, <1>2, <2>1, <2>2 DEF Goto, Counts
  <2>3. ASSUME NEW e, Act(e)
        PROVE  /\ step' \in 0 .. Steps /\ Counts(Len(snaps), Len(diffs))'
               /\ doing' = "after_js" /\ doing = "act"
    <3>1. doing = "act" /\ doing' = "after_js" /\ step' = step + 1
      BY <2>3 DEF Act
    <3>2. Len(snaps') = 2 + 2 * step /\ Len(diffs') = step /\ step < Steps
      BY <1>1, <1>2, <3>1 DEF Counts
    <3> QED BY <1>1, <2>1, <3>1, <3>2 DEF Counts
  <2>4. CASE Close
    <3>1. doing' = "closed" /\ step' = step
      BY <2>4 DEF Close
    <3>2. Len(snaps) <= 1 + 2 * Steps /\ Len(diffs) <= step
      BY <1>1, <2>1 DEF Counts
    <3> QED BY <1>2, <2>1, <3>1, <3>2 DEF Counts
  <2> QED BY <2>2, <2>3, <2>4
<1>4. events' \in Seq(EventKinds) /\ EvidenceSound'
  <2>1. CASE events' = events
    BY <1>1, <1>2, <2>1 DEF RecordTyped, EvidenceSound, NetworkEvidence
  <2>2. ASSUME NEW e \in {"click", "scenario_step_failed"}, Act(e)
        PROVE  events' \in Seq(EventKinds) /\ EvidenceSound'
    <3>1. e \in EventKinds /\ e # "network_request" /\ events' = Append(events, e)
      BY <2>2 DEF EventKinds, Act
    <3> QED BY <1>1, <1>2, <3>1, OtherEvent
  <2> QED BY <2>1, <2>2 DEF Goto, Close
<1>5. RecordTyped'
  BY <1>1, <1>2, <1>3, <1>4 DEF RecordTyped
<1>6. Accounted'
  <2>1. CASE doing' # "after_js"
    BY <1>3, <2>1 DEF Accounted
  <2>2. CASE doing' = "after_js"
    BY <1>1, <1>2, <1>3, <2>2 DEF Accounted, StorageAccounted
  <2> QED BY <2>1, <2>2
<1>7. RedactionSound'
  BY <1>1, <1>2, <1>3 DEF RedactionSound
<1> QED BY <1>1, <1>2, <1>3, <1>4, <1>5, <1>6, <1>7 DEF RecordInv

\* A store against its own capture, and the layer against its own snapshot.
LEMMA JustCaptured ==
  ASSUME ObservationBounds, layer \in Seq(Items), NEW b,
         b.local = EntriesFromJs(local), b.layer = LayerSnapshot,
         NEW t, t.items = << >>
  PROVE  StorageAccounted(b, t)
<1>1. DiffEntries(b.local, EntriesFromJs(local)) \subseteq t.local
  BY DEF DiffEntries
<1>2. LayerSince(b.layer, t.items, layer)
  BY LayerSnapshotFacts DEF LayerSince, ObservationBounds
<1> QED BY <1>1, <1>2 DEF StorageAccounted

\* The first half of a snapshot is read.
LEMMA CaptureJsPreserves ==
  ASSUME ObservationBounds, RecordInv, CaptureJs
  PROVE  RecordInv'
<1>1. /\ RecordTyped /\ Counts(Len(snaps), Len(diffs)) /\ Accounted /\ RedactionSound
      /\ (\A i \in 1 .. Len(diffs) : DifferenceSound(diffs[i])) /\ EvidenceSound
      /\ LayerCap \in Nat \ {0} /\ Sensitive \subseteq Keys
  BY DEF RecordInv, ObservationBounds
<1>2. /\ cookies' = cookies /\ local' = local /\ layer' = layer /\ step' = step /\ snaps' = snaps
      /\ diffs' = diffs /\ networkCount' = networkCount /\ pageSteps' = pageSteps /\ events' = events
  BY DEF CaptureJs, page
<1>3. /\ doing \in {"load_js", "before_js", "after_js"}
      /\ half' = [local |-> EntriesFromJs(local), layer |-> LayerSnapshot, touched |-> touched]
      /\ doing = "load_js" => doing' = "load_cookies"
      /\ doing = "before_js" => doing' = "before_cookies"
      /\ doing = "after_js" => doing' = "after_cookies"
      /\ touched' = IF doing = "before_js"
                     THEN [cookies |-> touched.cookies, local |-> {}, items |-> << >>] ELSE touched
  BY DEF CaptureJs
<1>4. cookies \in Store /\ local \in Store /\ layer \in Seq(Items) /\ touched \in Touched
  BY <1>1 DEF RecordTyped
<1>5. EntriesFromJs(local) \in [Keys -> Entries] /\ KeptBack(EntriesFromJs(local))
  BY <1>1, <1>4, EntriesSound
<1>6. /\ LayerSnapshot \in Seq(Items)
      /\ \A x \in Elements(LayerSnapshot) :
           \E i \in 1 .. Len(layer) : i + LayerCap > Len(layer) /\ x = layer[i]
  BY <1>1, <1>4, LayerSnapshotFacts
<1>7. half' \in Half
  BY <1>3, <1>4, <1>5, <1>6 DEF Half
<1>8. touched' \in Touched /\ touched'.cookies = touched.cookies
  BY <1>3, <1>4 DEF Touched
<1>9. RecordTyped'
  BY <1>1, <1>2, <1>7, <1>8 DEF RecordTyped
<1>10. Counts(Len(snaps), Len(diffs))'
  BY <1>1, <1>2, <1>3 DEF Counts
<1>11. RedactionSound'
  BY <1>1, <1>2, <1>3, <1>5 DEF RedactionSound
<1>12. Accounted'
  <2>1. CASE doing = "load_js"
    BY <1>3, <2>1 DEF Accounted
  <2>2. CASE doing = "before_js"
    <3>1. touched'.items = << >>
      BY <1>3, <1>4, <2>2 DEF Touched
    <3>2. half'.local = EntriesFromJs(local) /\ half'.layer = LayerSnapshot
      BY <1>3
    <3>3. StorageAccounted(half', touched')
      BY <1>4, <3>1, <3>2, JustCaptured
    <3>4. StorageAccounted(half, touched)'
      BY <1>2, <3>3 DEF StorageAccounted
    <3> QED BY <1>3, <2>2, <3>4 DEF Accounted
  <2>3. CASE doing = "after_js"
    <3> DEFINE last == snaps[Len(snaps)]
    <3>1. StorageAccounted(last, touched) /\ touched' = touched
      BY <1>1, <1>3, <2>3 DEF Accounted
    <3>2. /\ half'.local = EntriesFromJs(local) /\ half'.layer = LayerSnapshot
          /\ half'.touched = touched
      BY <1>3
    <3>3. DiffEntries(last.local, half'.local) \subseteq half'.touched.local
      BY <3>1, <3>2 DEF StorageAccounted
    <3>4. ASSUME NEW x \in Elements(LayerSnapshot)
          PROVE  x \in Elements(last.layer) \cup Elements(touched.items)
      <4>1. PICK i \in 1 .. Len(layer) : i + LayerCap > Len(layer) /\ x = layer[i]
        BY <1>6
      <4>2. Len(touched.items) \in Nat /\ Len(layer) \in Nat /\ LayerCap \in Nat
        BY <1>1, <1>4 DEF Touched
      <4> DEFINE n == Len(touched.items)
                 l == Len(layer)
      <4>3. i \in Nat /\ n \in Nat /\ l \in Nat /\ i + LayerCap > l
        BY <4>1, <4>2
      <4> HIDE DEF n, l
      <4>4. i + LayerCap + n > l
        BY <4>2, <4>3
      <4>5. LayerSince(last.layer, touched.items, layer)
        BY <3>1 DEF StorageAccounted
      <4> HIDE DEF last
      <4>6. layer[i] \in Elements(last.layer) \cup Elements(touched.items)
        BY <4>1, <4>4, <4>5 DEF LayerSince, n, l
      <4> QED BY <4>1, <4>6
    <3>5. DiffEntries(last.cookies, EntriesFromCookies(cookies)) \subseteq touched.cookies
      BY <1>1, <2>3 DEF Accounted
    <3>6. doing' = "after_cookies" /\ snaps' = snaps /\ cookies' = cookies
      BY <1>2, <1>3, <2>3
    <3>7. EntriesFromCookies(cookies)' = EntriesFromCookies(cookies)
      BY <1>2 DEF EntriesFromCookies
    <3> HIDE DEF last
    <3>8. Elements(half'.layer) \subseteq Elements(last.layer) \cup Elements(half'.touched.items)
      BY <3>2, <3>4
    <3>9. snaps'[Len(snaps')] = last
      BY <3>6 DEF last
    <3>10. /\ DiffEntries(snaps'[Len(snaps')].cookies, EntriesFromCookies(cookies)') \subseteq touched'.cookies
           /\ DiffEntries(snaps'[Len(snaps')].local, half'.local) \subseteq half'.touched.local
           /\ Elements(half'.layer) \subseteq Elements(snaps'[Len(snaps')].layer) \cup Elements(half'.touched.items)
      BY <3>1, <3>3, <3>5, <3>7, <3>8, <3>9
    <3> QED BY <3>6, <3>10 DEF Accounted
  <2> QED BY <1>3, <2>1, <2>2, <2>3
<1>13. EvidenceSound'
  BY <1>1, <1>2 DEF EvidenceSound, NetworkEvidence
<1> QED BY <1>1, <1>2, <1>9, <1>10, <1>11, <1>12, <1>13 DEF RecordInv

\* A difference between two snapshots, typed and, if the touched keys account for what it
\* compares, sound.
LEMMA DifferenceFacts ==
  ASSUME NEW before \in Snapshot, NEW after \in Snapshot, half \in Half, touched \in Touched
  PROVE  /\ DiffSnapshots(before, after) \in Difference
         /\ /\ DiffEntries(before.cookies, after.cookies) \subseteq touched.cookies
            /\ DiffEntries(before.local, after.local) \subseteq half.touched.local
            /\ Elements(after.layer) \subseteq Elements(before.layer) \cup Elements(half.touched.items)
            => DifferenceSound(DiffSnapshots(before, after))
<1> DEFINE c == DiffEntries(before.cookies, after.cookies)
           l == DiffEntries(before.local, after.local)
           n == NewItems(before.layer, after.layer)
           t == [half.touched EXCEPT !.cookies = touched.cookies]
<1>1. DiffSnapshots(before, after) = [cookies |-> c, local |-> l, items |-> n, touched |-> t]
  BY DEF DiffSnapshots
<1>2. c \subseteq Keys /\ l \subseteq Keys
  BY DEF DiffEntries
<1>3. n \in Seq(Items) /\ Elements(n) = Elements(after.layer) \cap (Items \ Elements(before.layer))
  BY FilteredFacts DEF NewItems, Snapshot
<1>4. /\ t \in Touched /\ t.cookies = touched.cookies /\ t.local = half.touched.local
      /\ t.items = half.touched.items
  BY DEF Half, Touched
<1> HIDE DEF c, l, n, t
<1>5. DiffSnapshots(before, after) \in Difference
  BY <1>1, <1>2, <1>3, <1>4 DEF Difference
<1>6. ASSUME c \subseteq touched.cookies, l \subseteq half.touched.local,
             Elements(after.layer) \subseteq Elements(before.layer) \cup Elements(half.touched.items)
      PROVE  DifferenceSound(DiffSnapshots(before, after))
  <2>1. Elements(n) \subseteq Elements(t.items)
    BY <1>3, <1>4, <1>6
  <2> QED BY <1>1, <1>4, <1>6, <2>1 DEF DifferenceSound
<1> QED BY <1>5, <1>6 DEF c, l

\* The second half of a snapshot is read, and after a step the difference is taken.
LEMMA CaptureCookiesPreserves ==
  ASSUME ObservationBounds, RecordInv, CaptureCookies
  PROVE  RecordInv'
<1> DEFINE snap == [cookies |-> EntriesFromCookies(cookies), local |-> half.local, layer |-> half.layer]
           last == snaps[Len(snaps)]
<1>1. /\ RecordTyped /\ Counts(Len(snaps), Len(diffs)) /\ Accounted /\ RedactionSound
      /\ (\A i \in 1 .. Len(diffs) : DifferenceSound(diffs[i])) /\ EvidenceSound
      /\ Sensitive \subseteq Keys /\ Steps \in Nat
  BY DEF RecordInv, ObservationBounds
<1>2. /\ cookies' = cookies /\ local' = local /\ layer' = layer /\ step' = step /\ half' = half
      /\ networkCount' = networkCount /\ pageSteps' = pageSteps /\ events' = events
  BY DEF CaptureCookies, page
<1>3. /\ doing \in {"load_cookies", "before_cookies", "after_cookies"}
      /\ snaps' = Append(snaps, snap)
      /\ diffs' = (IF doing = "after_cookies" THEN Append(diffs, DiffSnapshots(last, snap)) ELSE diffs)
      /\ touched' = (IF doing = "before_cookies" THEN [touched EXCEPT !.cookies = {}] ELSE touched)
      /\ doing' = (IF doing = "before_cookies" THEN "act" ELSE NextStep)
  BY DEF CaptureCookies
<1>4. /\ cookies \in Store /\ touched \in Touched /\ half \in Half /\ snaps \in Seq(Snapshot)
      /\ diffs \in Seq(Difference) /\ step \in 0 .. Steps
  BY <1>1, <1>3 DEF RecordTyped
<1>5. EntriesFromCookies(cookies) \in [Keys -> Entries] /\ KeptBack(EntriesFromCookies(cookies))
  BY <1>1, <1>4, EntriesSound
<1>6. /\ snap \in Snapshot /\ KeptBack(snap.cookies) /\ KeptBack(snap.local)
      /\ snap.cookies = EntriesFromCookies(cookies) /\ snap.local = half.local /\ snap.layer = half.layer
  BY <1>1, <1>3, <1>4, <1>5 DEF Snapshot, Half, RedactionSound
<1>7. /\ touched' \in Touched /\ touched'.local = touched.local /\ touched'.items = touched.items
  BY <1>3, <1>4 DEF Touched
<1> HIDE DEF snap
<1>8. /\ snaps' \in Seq(Snapshot) /\ Len(snaps') = Len(snaps) + 1 /\ snaps'[Len(snaps')] = snap
      /\ \A i \in 1 .. Len(snaps) : snaps'[i] = snaps[i]
  BY <1>3, <1>4, <1>6
<1>9. ASSUME doing = "after_cookies"
      PROVE  DiffSnapshots(last, snap) \in Difference /\ DifferenceSound(DiffSnapshots(last, snap))
  <2>1. Len(snaps) \in 1 .. Len(snaps)
    <3>1. Len(snaps) = 2 * step /\ step > 0
      BY <1>1, <1>9 DEF Counts
    <3> QED BY <1>4, <3>1
  <2>2. last \in Snapshot
    BY <1>4, <2>1
  <2>3. /\ DiffEntries(last.cookies, snap.cookies) \subseteq touched.cookies
        /\ DiffEntries(last.local, snap.local) \subseteq half.touched.local
        /\ Elements(snap.layer) \subseteq Elements(last.layer) \cup Elements(half.touched.items)
    BY <1>1, <1>6, <1>9 DEF Accounted
  <2> HIDE DEF last
  <2> QED BY <1>4, <1>6, <2>2, <2>3, DifferenceFacts
<1>10. /\ diffs' \in Seq(Difference) /\ \A i \in 1 .. Len(diffs') : DifferenceSound(diffs'[i])
       /\ Len(diffs') = IF doing = "after_cookies" THEN Len(diffs) + 1 ELSE Len(diffs)
  <2>1. CASE doing # "after_cookies"
    BY <1>1, <1>3, <1>4, <2>1
  <2>2. CASE doing = "after_cookies"
    <3> DEFINE d == DiffSnapshots(last, snap)
    <3>1. d \in Difference /\ DifferenceSound(d) /\ diffs' = Append(diffs, d)
      BY <1>3, <1>9, <2>2
    <3> HIDE DEF d
    <3>2. /\ diffs' \in Seq(Difference) /\ Len(diffs') = Len(diffs) + 1 /\ diffs'[Len(diffs) + 1] = d
          /\ \A i \in 1 .. Len(diffs) : diffs'[i] = diffs[i]
      BY <1>4, <3>1
    <3>3. \A i \in 1 .. Len(diffs') : i = Len(diffs) + 1 \/ i \in 1 .. Len(diffs)
      BY <1>4, <3>2
    <3> QED BY <1>1, <2>2, <3>1, <3>2, <3>3
  <2> QED BY <2>1, <2>2
<1>11. Counts(Len(snaps), Len(diffs))' /\ (doing' = "act" <=> doing = "before_cookies")
       /\ doing' \in {"act", "before_js", "reported"}
  <2>1. CASE doing = "before_cookies"
    <3>1. doing' = "act" /\ Len(snaps) = 1 + 2 * step /\ Len(diffs) = step /\ step < Steps
      BY <1>1, <1>3, <2>1 DEF Counts
    <3>2. Len(snaps') = 2 + 2 * step /\ Len(diffs') = step
      BY <1>4, <1>8, <1>10, <2>1, <3>1
    <3> QED BY <1>2, <2>1, <3>1, <3>2 DEF Counts
  <2>2. CASE doing # "before_cookies"
    <3>1. doing' \in {"before_js", "reported"} /\ (doing' = "before_js" => step < Steps)
      BY <1>3, <2>2 DEF NextStep
    <3>2. Len(snaps') = 1 + 2 * step /\ Len(diffs') = step
      <4>1. CASE doing = "load_cookies"
        <5>1. Len(snaps) = 0 /\ Len(diffs) = 0 /\ step = 0
          BY <1>1, <4>1 DEF Counts
        <5> QED BY <1>8, <1>10, <4>1, <5>1
      <4>2. CASE doing = "after_cookies"
        <5>1. Len(snaps) = 2 * step /\ Len(diffs) = step - 1
          BY <1>1, <4>2 DEF Counts
        <5> QED BY <1>4, <1>8, <1>10, <4>2, <5>1
      <4> QED BY <1>3, <2>2, <4>1, <4>2
    <3> QED BY <1>2, <2>2, <3>1, <3>2 DEF Counts
  <2> QED BY <2>1, <2>2
<1>12. RecordTyped'
  BY <1>1, <1>2, <1>7, <1>8, <1>10, <1>11 DEF RecordTyped
<1>13. RedactionSound'
  <2>1. \A i \in 1 .. Len(snaps') : i = Len(snaps') \/ i \in 1 .. Len(snaps)
    BY <1>4, <1>8
  <2>2. \A i \in 1 .. Len(snaps') : KeptBack(snaps'[i].cookies) /\ KeptBack(snaps'[i].local)
    BY <1>1, <1>6, <1>8, <2>1 DEF RedactionSound
  <2> QED BY <1>11, <2>2 DEF RedactionSound
<1>14. Accounted'
  <2>1. CASE doing' = "act"
    <3>1. StorageAccounted(half, touched)
      BY <1>1, <1>11, <2>1 DEF Accounted
    <3>2. /\ DiffEntries(snap.local, EntriesFromJs(local')) \subseteq touched'.local
          /\ LayerSince(snap.layer, touched'.items, layer')
      BY <1>2, <1>6, <1>7, <3>1 DEF StorageAccounted
    <3>3. DiffEntries(snap.cookies, EntriesFromCookies(cookies')) \subseteq touched'.cookies
      BY <1>2, <1>6 DEF DiffEntries
    <3>4. StorageAccounted(snaps[Len(snaps)], touched)'
      BY <1>8, <3>2 DEF StorageAccounted
    <3> QED BY <1>8, <2>1, <3>3, <3>4 DEF Accounted
  <2>2. CASE doing' # "act"
    BY <1>11, <2>2 DEF Accounted
  <2> QED BY <2>1, <2>2
<1>15. EvidenceSound'
  BY <1>1, <1>2 DEF EvidenceSound, NetworkEvidence
<1> QED BY <1>10, <1>11, <1>12, <1>13, <1>14, <1>15 DEF RecordInv

\* One step of the page or the session.
LEMMA RecordInvPreserved ==
  ASSUME ObservationBounds, RecordInv, [RecordNext]_recordVars
  PROVE  RecordInv'
<1>1. CASE UNCHANGED recordVars
  <2>1. /\ UNCHANGED <<page, doing, step, half, snaps, diffs, touched>> /\ pageSteps' = pageSteps
        /\ networkCount' = networkCount /\ events' = events
    BY <1>1 DEF recordVars
  <2>2. RecordTyped /\ EvidenceSound
    BY DEF RecordInv
  <2>3. EvidenceSound'
    BY <2>1, <2>2 DEF EvidenceSound, NetworkEvidence
  <2> QED BY <2>1, <2>2, <2>3, ElsewherePreserves DEF RecordTyped
<1> QED BY <1>1, StorePreserves, PushPreserves, RequestPreserves, MovesPreserve, CaptureJsPreserves,
           CaptureCookiesPreserves DEF RecordNext, Session

\* The invariant says what the properties say.
LEMMA RecordInvFaithful == ObservationBounds /\ RecordInv => RecordFaithful
<1> SUFFICES ASSUME ObservationBounds, RecordInv PROVE RecordFaithful
  OBVIOUS
<1>1. /\ snaps \in Seq(Snapshot) /\ diffs \in Seq(Difference) /\ step \in 0 .. Steps /\ Steps \in Nat
      /\ pageSteps \in 0 .. MaxPageSteps /\ Len(snaps) \in Nat /\ Len(diffs) \in Nat
  BY DEF RecordInv, RecordTyped, ObservationBounds
<1>2. Len(diffs) <= step /\ Len(snaps) <= 1 + 2 * Steps
  <2>1. Counts(Len(snaps), Len(diffs))
    BY DEF RecordInv
  <2> QED BY <1>1, <2>1 DEF Counts
<1>3. RecordTypeOK
  BY <1>1, <1>2 DEF RecordTypeOK, RecordInv, EvidenceSound
<1>4. DiffOnlyWhatChanged
  <2>1. \A i \in 1 .. Len(diffs) : DifferenceSound(diffs[i])
    BY DEF RecordInv
  <2>2. \A d \in Elements(diffs) : DifferenceSound(d)
    BY <1>1, <2>1 DEF Elements
  <2> QED BY <2>2 DEF DiffOnlyWhatChanged, DifferenceSound
<1>5. SensitiveValueNeverKept
  <2>1. \A i \in 1 .. Len(snaps) : KeptBack(snaps[i].cookies) /\ KeptBack(snaps[i].local)
    BY DEF RecordInv, RedactionSound
  <2>2. Absent \notin Values /\ Redacted \notin Values
    BY DEF ObservationBounds
  <2> QED BY <1>1, <2>1, <2>2 DEF SensitiveValueNeverKept, KeptBack, Elements
<1>6. NetworkEvidenceBounded
  BY DEF RecordInv, EvidenceSound, NetworkEvidenceBounded
<1> QED BY <1>3, <1>4, <1>5, <1>6 DEF RecordFaithful

\* However the page runs between the two reads of a snapshot and between the snapshots, a
\* difference names only what was touched between them, the value of a sensitive key is in
\* no snapshot, and the recorded requests stay within their number.
THEOREM RecordFaithfulHolds == ASSUME ObservationBounds PROVE RecordSpec => []RecordFaithful
<1>1. RecordInit => RecordInv
  BY RecordInvInit
<1>2. RecordInv /\ [RecordNext]_recordVars => RecordInv'
  BY RecordInvPreserved
<1>3. RecordInv => RecordFaithful
  BY RecordInvFaithful
<1> QED BY <1>1, <1>2, <1>3, PTL DEF RecordSpec

-----------------------------------------------------------------------------
(***************************************************************************)
(* The resolution of variables (Variables). The stack is a path of         *)
(* references (PathSound), so in a payload that validates no variable on   *)
(* it is asked for again, and what the cache holds is final. Each cached   *)
(* result is then justified by cached results of what it refers to         *)
(* (Justified), and since references lead nowhere in a circle there is one *)
(* way to satisfy this, the meaning. That a coalesce does not look at all  *)
(* its references is why an entry cannot simply be said to be the meaning  *)
(* computed from the others.                                               *)
(***************************************************************************)

\* The reference a frame is at.
RefOf(f) == Args(f.var)[f.next]

\* Status and value of a cached result.
Conclusion(c, v) == [status |-> c[v].status, value |-> c[v].value]

\* Cached with one of these statuses.
CachedAs(c, v, statuses) == v \in DOMAIN c /\ c[v].status \in statuses

\* The expression of v goes on to its k-th reference and no further.
StopsAt(c, v, k) ==
  /\ \A i \in 1 .. k - 1 : CachedAs(c, Args(v)[i], Passed(v))
  /\ Args(v)[k] \in DOMAIN c /\ c[Args(v)[k]].status \notin Passed(v)

\* What it comes to then: the value of a coalesce, or the error of the reference.
Stopped(v, entry) ==
  Concluded(v, IF entry.status \in Valued THEN "found" ELSE "error", entry.value)

\* The result in c of v follows from the results in c of what v refers to.
Justified(c, v) ==
  \/ ~def[v].enabled /\ Conclusion(c, v) = [status |-> "disabled", value |-> {}]
  \/ /\ def[v].enabled /\ def[v].source = "present"
     /\ Conclusion(c, v) = Concluded(v, "found", {v})
  \/ /\ def[v].enabled /\ def[v].source \notin {"present", "computed"}
     /\ Conclusion(c, v) = Concluded(v, "missing", {})
  \/ /\ def[v].enabled /\ def[v].source = "computed"
     /\ \A i \in DOMAIN Args(v) : CachedAs(c, Args(v)[i], Passed(v))
     /\ Conclusion(c, v) = Concluded(v, Ending(v, Lacks(c, v)), All(c, v))
  \/ /\ def[v].enabled /\ def[v].source = "computed"
     /\ \E k \in DOMAIN Args(v) : StopsAt(c, v, k) /\ Conclusion(c, v) = Stopped(v, c[Args(v)[k]])

StackTyped == stack \in Seq([var : Vars, next : Nat \ {0}, value : SUBSET Vars])

\* Every frame was opened for a variable that its lower frames lead to.
PathSound ==
  \A i, j \in DOMAIN stack : i < j =>
    stack[i].next \in DOMAIN Args(stack[i].var) /\ stack[j].var \in Reachable(RefOf(stack[i]))

Marked(entry, v) ==
  /\ entry.sensitive = LeadsToSensitive(v)
  /\ entry.status \in Valued \/ (entry.status = "error" /\ Converts(v))

\* A result holds data of what its variable leads to only, and is marked accordingly; an
\* error holds some only if a conversion is among what it leads to.
DataTraced ==
  /\ \A i \in DOMAIN stack : stack[i].value \subseteq Reachable(stack[i].var)
  /\ \A v \in DOMAIN cache \cap Vars :
       /\ cache[v].value \subseteq Reachable(v)
       /\ cache[v].value # {} => Marked(cache[v], v)
  /\ \A v \in DOMAIN cache \ Vars : cache[v].value = {} /\ cache[v].status = "error"

\* A frame is at work on an enabled variable that has no result yet, and knows the
\* results of the references it has passed.
FrameSound(c, f) ==
  /\ f.var \notin DOMAIN c /\ def[f.var].enabled /\ f.next <= Len(Args(f.var)) + 1
  /\ \A i \in 1 .. f.next - 1 : CachedAs(c, Args(f.var)[i], Passed(f.var))
  /\ f.value = UNION {c[Args(f.var)[i]].value : i \in 1 .. f.next - 1}

FramesSound(c, s) == \A i \in DOMAIN s : FrameSound(c, s[i])

CacheSound(c) == \A v \in DOMAIN c \cap Vars : Justified(c, v)

DefTyped == def \in [Vars -> Definitions] /\ order \in Orders

ResolverInv ==
  /\ DefTyped /\ StackTyped /\ PathSound /\ DataTraced
  /\ Valid => FramesSound(cache, stack) /\ CacheSound(cache)

-----------------------------------------------------------------------------

\* References are a sequence.
LEMMA ArgsTyped ==
  ASSUME VariablesAssumption, DefTyped, NEW v \in Vars
  PROVE  /\ Args(v) \in Seq(Range(Args(v)))
         /\ Len(Args(v)) \in Nat /\ DOMAIN Args(v) = 1 .. Len(Args(v))
         /\ \A i \in DOMAIN Args(v) : Args(v)[i] \in Range(Args(v))
<1>1. Args(v) \in Seq(Range(Args(v)))
  <2>1. CASE def[v].source = "computed"
    BY <2>1 DEF VariablesAssumption, DefTyped, Args
  <2>2. CASE def[v].source # "computed"
    BY <2>2 DEF Args
  <2> QED BY <2>1, <2>2
<1>2. \A i \in DOMAIN Args(v) : Args(v)[i] \in Range(Args(v))
  BY DEF Range
<1> QED BY <1>1, <1>2

\* What is reachable from v: v, what the references of the members name, and all that
\* is reachable from a member.
LEMMA ReachableFacts ==
  ASSUME NEW v \in Vars
  PROVE  /\ v \in Reachable(v) /\ Reachable(v) \subseteq Vars /\ Closed(Reachable(v))
         /\ \A w \in Reachable(v) : Reachable(w) \subseteq Reachable(v)
<1>1. v \in Reachable(v) /\ Reachable(v) \subseteq Vars
  BY DEF Reachable
<1>2. Closed(Reachable(v))
  BY DEF Reachable, Closed
<1>3. ASSUME NEW w \in Reachable(v) PROVE Reachable(w) \subseteq Reachable(v)
  <2>1. Reachable(v) \in SUBSET Vars
    BY <1>1
  <2> QED BY <1>2, <1>3, <2>1 DEF Reachable
<1> QED BY <1>1, <1>2, <1>3

\* In a payload that validates, no reference of a variable leads back to it.
LEMMA NoWayBack ==
  ASSUME Valid, NEW v \in Vars, NEW u \in Range(Args(v))
  PROVE  u \in Vars /\ v \notin Reachable(u) /\ u \in Reachable(v) /\ Reachable(u) \subseteq Reachable(v)
<1>1. u \in Vars
  BY DEF Valid
<1>2. v \in Reachable(v) /\ Closed(Reachable(v))
  BY ReachableFacts
<1>3. v \notin Reachable(u)
  BY <1>1, <1>2 DEF Valid, ComputedCycle
<1>4. u \in Reachable(v)
  BY <1>1, <1>2 DEF Closed
<1> QED BY <1>1, <1>3, <1>4, ReachableFacts

\* What depends on the definitions only stays as it is.
LEMMA DefinitionsStay ==
  ASSUME def' = def
  PROVE  /\ \A v : Args(v)' = Args(v)
         /\ \A v : Reachable(v)' = Reachable(v)
         /\ \A v : LeadsToSensitive(v)' = LeadsToSensitive(v)
         /\ \A v, o, x : Concluded(v, o, x)' = Concluded(v, o, x)
         /\ \A v, b : Passed(v)' = Passed(v) /\ Converts(v)' = Converts(v) /\ Ending(v, b)' = Ending(v, b)
         /\ Valid' = Valid
<1>1. \A v : Args(v)' = Args(v)
  BY DEF Args
<1>2. ASSUME NEW S PROVE Closed(S)' = Closed(S)
  BY <1>1 DEF Closed
<1>3. ASSUME NEW v PROVE Reachable(v)' = Reachable(v)
  BY <1>2 DEF Reachable
<1>4. ASSUME NEW v PROVE LeadsToSensitive(v)' = LeadsToSensitive(v)
  BY <1>3 DEF LeadsToSensitive
<1>5. ASSUME NEW v, NEW o, NEW x PROVE Concluded(v, o, x)' = Concluded(v, o, x)
  BY DEF Concluded
<1>6. ASSUME NEW v PROVE ComputedCycle(v)' = ComputedCycle(v)
  BY <1>1, <1>3 DEF ComputedCycle
<1>7. Valid' = Valid
  BY <1>1, <1>6 DEF Valid
<1>8. ASSUME NEW v, NEW b
      PROVE  Passed(v)' = Passed(v) /\ Converts(v)' = Converts(v) /\ Ending(v, b)' = Ending(v, b)
  <2>1. Passed(v)' = Passed(v) /\ Ending(v, b)' = Ending(v, b)
    BY DEF Passed, Ending
  <2>2. Converts(v)' = Converts(v)
    BY <1>3 DEF Converts
  <2> QED BY <2>1, <2>2
<1> QED BY <1>1, <1>3, <1>4, <1>5, <1>7, <1>8

\* A justification holds for ever: cached results do not change.
LEMMA JustifiedStays ==
  ASSUME VariablesAssumption, DefTyped, NEW c, NEW d, NEW v \in Vars, v \in DOMAIN c,
         DOMAIN c \subseteq DOMAIN d, \A x \in DOMAIN c : d[x] = c[x], Justified(c, v)
  PROVE  Justified(d, v)
<1>1. Conclusion(d, v) = Conclusion(c, v)
  BY DEF Conclusion
<1>2. \A x, s : CachedAs(c, x, s) => CachedAs(d, x, s)
  BY DEF CachedAs
<1>3. Len(Args(v)) \in Nat /\ DOMAIN Args(v) = 1 .. Len(Args(v))
  BY ArgsTyped
<1>4. CASE \/ ~def[v].enabled
           \/ def[v].enabled /\ def[v].source # "computed"
  BY <1>1, <1>4 DEF Justified
<1>5. CASE /\ def[v].enabled /\ def[v].source = "computed"
           /\ \A i \in DOMAIN Args(v) : CachedAs(c, Args(v)[i], Passed(v))
           /\ Conclusion(c, v) = Concluded(v, Ending(v, Lacks(c, v)), All(c, v))
  <2>1. \A i \in DOMAIN Args(v) : CachedAs(d, Args(v)[i], Passed(v)) /\ d[Args(v)[i]] = c[Args(v)[i]]
    BY <1>2, <1>5 DEF CachedAs
  <2>2. {c[Args(v)[i]].value : i \in DOMAIN Args(v)} = {d[Args(v)[i]].value : i \in DOMAIN Args(v)}
    BY <2>1
  <2>3. All(d, v) = All(c, v)
    BY <2>2 DEF All
  <2>4. Lacks(d, v) = Lacks(c, v)
    BY <2>1 DEF Lacks
  <2> QED BY <1>1, <1>5, <2>1, <2>3, <2>4 DEF Justified
<1>6. CASE /\ def[v].enabled /\ def[v].source = "computed"
           /\ \E k \in DOMAIN Args(v) : StopsAt(c, v, k) /\ Conclusion(c, v) = Stopped(v, c[Args(v)[k]])
  <2>1. PICK k \in DOMAIN Args(v) : StopsAt(c, v, k) /\ Conclusion(c, v) = Stopped(v, c[Args(v)[k]])
    BY <1>6
  <2>2. Args(v)[k] \in DOMAIN d /\ d[Args(v)[k]] = c[Args(v)[k]]
    BY <2>1 DEF StopsAt
  <2>3. StopsAt(d, v, k)
    BY <1>2, <2>1, <2>2 DEF StopsAt
  <2> QED BY <1>1, <1>6, <2>1, <2>2, <2>3 DEF Justified
<1> QED BY <1>4, <1>5, <1>6 DEF Justified

\* What a frame knows stays known when results are added for other variables.
LEMMA FrameStays ==
  ASSUME VariablesAssumption, DefTyped, NEW c, NEW d, NEW f, f.var \in Vars, f.next \in Nat \ {0},
         DOMAIN c \subseteq DOMAIN d, \A x \in DOMAIN c : d[x] = c[x], f.var \notin DOMAIN d,
         FrameSound(c, f)
  PROVE  FrameSound(d, f)
<1>1. \A x, s : CachedAs(c, x, s) => CachedAs(d, x, s)
  BY DEF CachedAs
<1>2. \A i \in 1 .. f.next - 1 :
        CachedAs(d, Args(f.var)[i], Passed(f.var)) /\ d[Args(f.var)[i]] = c[Args(f.var)[i]]
  BY <1>1 DEF FrameSound, CachedAs
<1>3. {c[Args(f.var)[i]].value : i \in 1 .. f.next - 1}
        = {d[Args(f.var)[i]].value : i \in 1 .. f.next - 1}
  BY <1>2
<1> QED BY <1>2, <1>3 DEF FrameSound

\* What a frame knows when it has passed a reference.
LEMMA FrameAdvances ==
  ASSUME VariablesAssumption, DefTyped, NEW c, NEW f, f.var \in Vars, f.next \in Nat \ {0}, NEW x,
         FrameSound(c, f), f.next \in DOMAIN Args(f.var), NEW r, r = Args(f.var)[f.next],
         CachedAs(c, r, Passed(f.var)), x = f.value \cup c[r].value
  PROVE  FrameSound(c, [var |-> f.var, next |-> f.next + 1, value |-> x])
<1> PICK v, n, y, a : v = f.var /\ n = f.next /\ y = f.value /\ a = Args(v)
  OBVIOUS
<1> DEFINE g == [var |-> v, next |-> n + 1, value |-> x]
<1>1. v \in Vars /\ n \in Nat \ {0} /\ n \in DOMAIN a /\ r = a[n]
  OBVIOUS
<1>2. Len(a) \in Nat /\ DOMAIN a = 1 .. Len(a)
  BY <1>1, ArgsTyped
<1>3. \A i \in 1 .. n : i \in 1 .. n - 1 \/ i = n
  BY <1>1
<1>4. 1 .. n - 1 \subseteq 1 .. n /\ n \in 1 .. n /\ (n + 1) - 1 = n
  BY <1>1
<1>5. v \notin DOMAIN c /\ def[v].enabled /\ n + 1 <= Len(a) + 1
  BY <1>1, <1>2 DEF FrameSound
<1>6. (\A i \in 1 .. n - 1 : CachedAs(c, a[i], Passed(v))) /\ y = UNION {c[a[i]].value : i \in 1 .. n - 1}
  BY DEF FrameSound
<1>7. \A i \in 1 .. n : CachedAs(c, a[i], Passed(v))
  BY <1>1, <1>3, <1>6
<1>8. {c[a[i]].value : i \in 1 .. n} = {c[a[i]].value : i \in 1 .. n - 1} \cup {c[r].value}
  BY <1>1, <1>3, <1>4
<1>9. x = UNION {c[a[i]].value : i \in 1 .. n}
  BY <1>6, <1>8
<1> QED BY <1>4, <1>5, <1>7, <1>9 DEF FrameSound

\* A justification, with the definitions of this state, is one in the next.
LEMMA JustifiedPrimed ==
  ASSUME def' = def, NEW v, Justified(cache', v)
  PROVE  Justified(cache, v)'
<1>1. PICK a : a = Args(v)
  OBVIOUS
<1>2. Args(v)' = a
  BY <1>1, DefinitionsStay
<1>3. \A o, x : Concluded(v, o, x)' = Concluded(v, o, x)
  BY DefinitionsStay
<1>4. CASE \/ /\ ~def[v].enabled
              /\ Conclusion(cache', v) = [status |-> "disabled", value |-> {}]
           \/ /\ def[v].enabled /\ def[v].source = "present"
              /\ Conclusion(cache', v) = Concluded(v, "found", {v})
           \/ /\ def[v].enabled /\ def[v].source \notin {"present", "computed"}
              /\ Conclusion(cache', v) = Concluded(v, "missing", {})
  BY <1>3, <1>4 DEF Justified, Conclusion
<1>5. CASE /\ def[v].enabled /\ def[v].source = "computed"
           /\ \A i \in DOMAIN a : CachedAs(cache', a[i], Passed(v))
           /\ Conclusion(cache', v) = Concluded(v, Ending(v, Lacks(cache', v)), All(cache', v))
  <2>1. PICK l, x : l = Lacks(cache', v) /\ x = All(cache', v)
    OBVIOUS
  <2>2. Lacks(cache, v)' = l /\ All(cache, v)' = x
    BY <1>1, <1>2, <2>1 DEF Lacks, All
  <2>3. Ending(v, l)' = Ending(v, l) /\ Passed(v)' = Passed(v)
    BY DefinitionsStay
  <2>4. Concluded(v, Ending(v, Lacks(cache, v)), All(cache, v))' = Concluded(v, Ending(v, l), x)
    BY <2>2, <2>3 DEF Concluded, Ending
  <2> QED BY <1>2, <1>5, <2>1, <2>3, <2>4 DEF Justified, Conclusion, CachedAs
<1>6. CASE /\ def[v].enabled /\ def[v].source = "computed"
           /\ \E k \in DOMAIN a : StopsAt(cache', v, k) /\ Conclusion(cache', v) = Stopped(v, cache'[a[k]])
  <2>1. PICK k \in DOMAIN a : StopsAt(cache', v, k) /\ Conclusion(cache', v) = Stopped(v, cache'[a[k]])
    BY <1>6
  <2>2. Passed(v)' = Passed(v)
    BY DefinitionsStay
  <2>3. StopsAt(cache, v, k)'
    BY <1>1, <1>2, <2>1, <2>2 DEF StopsAt, CachedAs
  <2>4. Stopped(v, cache[Args(v)[k]])' = Stopped(v, cache'[a[k]])
    BY <1>2 DEF Stopped, Concluded
  <2> QED BY <1>2, <1>6, <2>1, <2>3, <2>4 DEF Justified, Conclusion
<1> QED BY <1>1, <1>4, <1>5, <1>6 DEF Justified

\* The invariant of the next state, with the definitions of this one.
LEMMA InvPrimed ==
  ASSUME def' = def, order' = order, DefTyped, StackTyped',
         \A i, j \in DOMAIN stack' : i < j =>
           /\ stack'[i].next \in DOMAIN Args(stack'[i].var)
           /\ stack'[j].var \in Reachable(Args(stack'[i].var)[stack'[i].next]),
         \A i \in DOMAIN stack' : stack'[i].value \subseteq Reachable(stack'[i].var),
         \A v \in DOMAIN cache' \cap Vars :
           /\ cache'[v].value \subseteq Reachable(v)
           /\ cache'[v].value # {} => Marked(cache'[v], v),
         \A v \in DOMAIN cache' \ Vars : cache'[v].value = {} /\ cache'[v].status = "error",
         Valid => FramesSound(cache', stack') /\ CacheSound(cache')
  PROVE  ResolverInv'
<1>1. PICK c, s : c = cache' /\ s = stack'
  OBVIOUS
<1>2. /\ \A v : Args(v)' = Args(v)
      /\ \A v : Reachable(v)' = Reachable(v)
      /\ \A v : LeadsToSensitive(v)' = LeadsToSensitive(v)
      /\ \A v : Passed(v)' = Passed(v) /\ Converts(v)' = Converts(v)
      /\ Valid' = Valid
  BY DefinitionsStay
<1>3. DefTyped'
  BY DEF DefTyped
<1>4. PathSound'
  BY <1>2 DEF PathSound, RefOf
<1>5. DataTraced'
  BY <1>2 DEF DataTraced, Marked
<1>6. ASSUME Valid PROVE FramesSound(cache, stack)' /\ CacheSound(cache)'
  <2>1. FramesSound(cache', stack') /\ CacheSound(cache')
    BY <1>6
  <2>2. FramesSound(cache, stack)'
    BY <1>2, <2>1 DEF FramesSound, FrameSound, CachedAs
  <2>3. CacheSound(cache)'
    <3>1. ASSUME NEW v \in DOMAIN cache' \cap Vars PROVE Justified(cache, v)'
      <4>1. Justified(cache', v)
        BY <2>1 DEF CacheSound
      <4> QED BY <4>1, JustifiedPrimed
    <3> QED BY <3>1 DEF CacheSound
  <2> QED BY <2>2, <2>3
<1> QED BY <1>2, <1>3, <1>4, <1>5, <1>6 DEF ResolverInv

\* Frames are frames.
LEMMA FrameTyped ==
  ASSUME StackTyped, NEW i \in DOMAIN stack
  PROVE  /\ stack[i] \in [var : Vars, next : Nat \ {0}, value : SUBSET Vars]
         /\ stack[i].var \in Vars /\ stack[i].next \in Nat \ {0}
<1> DEFINE Frames == [var : Vars, next : Nat \ {0}, value : SUBSET Vars]
<1>1. stack \in Seq(Frames)
  BY DEF StackTyped
<1> HIDE DEF Frames
<1>2. i \in 1 .. Len(stack)
  BY <1>1
<1>3. stack[i] \in Frames
  BY <1>1, <1>2, ElementOfSeq
<1> QED BY <1>3 DEF Frames

\* The innermost frame.
LEMMA TopFacts ==
  ASSUME VariablesAssumption, DefTyped, StackTyped, stack # <<>>
  PROVE  /\ Len(stack) \in DOMAIN stack /\ DOMAIN stack = 1 .. Len(stack) /\ Len(stack) \in Nat \ {0}
         /\ Top = stack[Len(stack)]
         /\ Top \in [var : Vars, next : Nat \ {0}, value : SUBSET Vars]
         /\ More <=> Top.next \in DOMAIN Args(Top.var)
         /\ More => Argument \in Range(Args(Top.var)) /\ Argument = RefOf(Top)
<1>1. /\ Len(stack) \in DOMAIN stack /\ DOMAIN stack = 1 .. Len(stack) /\ Len(stack) \in Nat \ {0}
      /\ Top = stack[Len(stack)]
      /\ Top \in [var : Vars, next : Nat \ {0}, value : SUBSET Vars]
  <2>1. DOMAIN stack = 1 .. Len(stack) /\ Len(stack) \in Nat \ {0}
    BY DEF StackTyped
  <2>2. Len(stack) \in DOMAIN stack
    BY <2>1
  <2>3. Top = stack[Len(stack)]
    BY DEF Top, Last
  <2> QED BY <2>1, <2>2, <2>3, FrameTyped
<1>2. DOMAIN Args(Top.var) = 1 .. Len(Args(Top.var)) /\ Len(Args(Top.var)) \in Nat
  BY <1>1, ArgsTyped
<1>3. Top.next \in Nat \ {0}
  BY <1>1
<1>4. More <=> Top.next \in DOMAIN Args(Top.var)
  BY <1>2, <1>3 DEF More
<1>5. More => Argument \in Range(Args(Top.var)) /\ Argument = RefOf(Top)
  BY <1>1, <1>4, ArgsTyped DEF Argument, RefOf
<1> QED BY <1>1, <1>4, <1>5

\* What the innermost frame asks for is reachable from what lower frames ask for, and
\* in a payload that validates no frame is asked for again.
LEMMA AskedFor ==
  ASSUME VariablesAssumption, ResolverInv, stack # <<>>, More, Argument \in Vars
  PROVE  /\ \A i \in DOMAIN stack : /\ stack[i].next \in DOMAIN Args(stack[i].var)
                                   /\ Argument \in Reachable(RefOf(stack[i]))
         /\ Valid => \A i \in DOMAIN stack : stack[i].var # Argument
<1> USE DEF ResolverInv
<1>1. /\ Len(stack) \in DOMAIN stack /\ DOMAIN stack = 1 .. Len(stack) /\ Len(stack) \in Nat \ {0}
      /\ Top = stack[Len(stack)] /\ Top.next \in DOMAIN Args(Top.var)
      /\ Argument \in Range(Args(Top.var)) /\ Argument = RefOf(Top)
  BY TopFacts
<1>2. \A i \in DOMAIN stack : stack[i].var \in Vars
  BY FrameTyped
<1>3. ASSUME NEW i \in DOMAIN stack
      PROVE  stack[i].next \in DOMAIN Args(stack[i].var) /\ Argument \in Reachable(RefOf(stack[i]))
  <2>1. CASE i = Len(stack)
    BY <1>1, <2>1, ReachableFacts
  <2>2. CASE i # Len(stack)
    <3>1. i < Len(stack)
      BY <1>1, <2>2
    <3>2. stack[i].next \in DOMAIN Args(stack[i].var) /\ Top.var \in Reachable(RefOf(stack[i]))
      BY <1>1, <3>1 DEF PathSound
    <3>3. Closed(Reachable(RefOf(stack[i])))
      BY DEF Reachable, Closed
    <3> QED BY <1>1, <3>2, <3>3 DEF Closed
  <2> QED BY <2>1, <2>2
<1>4. ASSUME Valid, NEW i \in DOMAIN stack PROVE stack[i].var # Argument
  <2>1. RefOf(stack[i]) \in Range(Args(stack[i].var))
    BY <1>2, <1>3, ArgsTyped DEF RefOf
  <2>2. stack[i].var \notin Reachable(RefOf(stack[i]))
    BY <1>2, <1>4, <2>1, NoWayBack
  <2> QED BY <1>3, <2>2
<1> QED BY <1>3, <1>4

\* In a payload that validates the frames are of different variables.
LEMMA FramesDiffer ==
  ASSUME VariablesAssumption, ResolverInv, Valid, NEW i \in DOMAIN stack, NEW j \in DOMAIN stack, i < j
  PROVE  stack[i].var # stack[j].var
<1> USE DEF ResolverInv
<1>1. stack[i].var \in Vars
  BY FrameTyped
<1>2. stack[i].next \in DOMAIN Args(stack[i].var) /\ stack[j].var \in Reachable(RefOf(stack[i]))
  BY DEF PathSound
<1>3. RefOf(stack[i]) \in Range(Args(stack[i].var))
  BY <1>1, <1>2, ArgsTyped DEF RefOf
<1> QED BY <1>1, <1>2, <1>3, NoWayBack

\* A frame is opened.
LEMMA InvPush ==
  ASSUME VariablesAssumption, ResolverInv, NEW w \in Vars, def[w].enabled, w \notin DOMAIN cache,
         stack' = Append(stack, Frame(w)), UNCHANGED <<cache, def, order>>,
         stack # <<>> => More /\ w = Argument
  PROVE  ResolverInv'
<1> DEFINE n == Len(stack)
<1>1. /\ DefTyped /\ StackTyped /\ PathSound /\ DataTraced
      /\ Valid => FramesSound(cache, stack) /\ CacheSound(cache)
  BY DEF ResolverInv
<1>2. Frame(w) \in [var : Vars, next : Nat \ {0}, value : SUBSET Vars]
  BY DEF Frame
<1>3. /\ StackTyped' /\ n \in Nat /\ DOMAIN stack = 1 .. n /\ DOMAIN stack' = 1 .. n + 1
      /\ stack'[n + 1] = Frame(w) /\ \A i \in 1 .. n : stack'[i] = stack[i]
  BY <1>1, <1>2 DEF StackTyped
<1>4. Frame(w).var = w /\ Frame(w).next = 1 /\ Frame(w).value = {}
  BY DEF Frame
<1>5. \A i \in 1 .. n : /\ stack[i].next \in DOMAIN Args(stack[i].var)
                        /\ w \in Reachable(RefOf(stack[i]))
  <2>1. CASE stack = <<>>
    BY <2>1
  <2>2. CASE stack # <<>>
    BY <1>3, <2>2, AskedFor
  <2> QED BY <2>1, <2>2
<1> HIDE DEF n
<1>6. ASSUME NEW i \in DOMAIN stack', NEW j \in DOMAIN stack', i < j
      PROVE  /\ stack'[i].next \in DOMAIN Args(stack'[i].var)
             /\ stack'[j].var \in Reachable(Args(stack'[i].var)[stack'[i].next])
  <2>1. i \in 1 .. n /\ (j \in 1 .. n \/ j = n + 1)
    BY <1>3, <1>6
  <2>2. CASE j \in 1 .. n
    BY <1>1, <1>3, <1>6, <2>1, <2>2 DEF PathSound, RefOf
  <2>3. CASE j = n + 1
    BY <1>3, <1>4, <1>5, <2>1, <2>3 DEF RefOf
  <2> QED BY <2>1, <2>2, <2>3
<1>7. \A i \in DOMAIN stack' : i \in 1 .. n \/ i = n + 1
  BY <1>3
<1>8. \A i \in DOMAIN stack' : stack'[i].value \subseteq Reachable(stack'[i].var)
  BY <1>1, <1>3, <1>4, <1>7 DEF DataTraced
<1>9. ASSUME Valid PROVE FramesSound(cache', stack') /\ CacheSound(cache')
  <2>1. FrameSound(cache, Frame(w))
    <3>1. Len(Args(w)) \in Nat
      BY <1>1, ArgsTyped
    <3>2. 1 .. 1 - 1 = {} /\ UNION {cache[Args(w)[i]].value : i \in {}} = {}
      OBVIOUS
    <3> QED BY <1>4, <3>1, <3>2 DEF FrameSound
  <2>2. \A i \in 1 .. n : FrameSound(cache, stack[i])
    BY <1>1, <1>3, <1>9 DEF FramesSound
  <2>3. \A i \in DOMAIN stack' : FrameSound(cache, stack'[i])
    BY <1>3, <1>7, <2>1, <2>2
  <2> QED BY <1>1, <1>9, <2>3 DEF FramesSound
<1> QED BY <1>1, <1>3, <1>6, <1>8, <1>9, InvPrimed DEF DataTraced

\* The innermost frame goes on to its next reference.
LEMMA InvAdvance ==
  ASSUME VariablesAssumption, ResolverInv, More, Argument \in Vars, NEW x \in SUBSET Vars,
         x \subseteq Reachable(Top.var),
         stack' = [stack EXCEPT ![Len(stack)] =
                     [var |-> Top.var, next |-> Top.next + 1, value |-> x]],
         UNCHANGED <<cache, def, order>>,
         CachedAs(cache, Argument, Passed(Top.var)), x = Top.value \cup cache[Argument].value
  PROVE  ResolverInv'
<1> DEFINE n == Len(stack)
           f == [var |-> Top.var, next |-> Top.next + 1, value |-> x]
<1>1. /\ DefTyped /\ StackTyped /\ PathSound /\ DataTraced /\ stack # <<>>
      /\ Valid => FramesSound(cache, stack) /\ CacheSound(cache)
  BY DEF ResolverInv, More
<1>2. /\ n \in DOMAIN stack /\ DOMAIN stack = 1 .. n /\ n \in Nat \ {0}
      /\ Top = stack[n] /\ Top.var \in Vars /\ Top.next \in Nat \ {0}
      /\ Top.next \in DOMAIN Args(Top.var) /\ Argument = RefOf(Top)
  BY <1>1, TopFacts
<1>3. f \in [var : Vars, next : Nat \ {0}, value : SUBSET Vars]
  BY <1>2
<1>4. f.var = Top.var /\ f.next = Top.next + 1 /\ f.value = x
  OBVIOUS
<1>5. StackTyped' /\ DOMAIN stack' = 1 .. n /\ stack'[n] = f
      /\ \A i \in 1 .. n : i # n => stack'[i] = stack[i]
  BY <1>1, <1>2, <1>3 DEF StackTyped
<1> HIDE DEF n, f
<1>6. ASSUME NEW i \in DOMAIN stack', NEW j \in DOMAIN stack', i < j
      PROVE  /\ stack'[i].next \in DOMAIN Args(stack'[i].var)
             /\ stack'[j].var \in Reachable(Args(stack'[i].var)[stack'[i].next])
  <2>1. i \in 1 .. n /\ j \in 1 .. n /\ i # n /\ stack'[j].var = stack[j].var
    BY <1>2, <1>4, <1>5, <1>6
  <2> QED BY <1>1, <1>2, <1>5, <1>6, <2>1 DEF PathSound, RefOf
<1>7. \A i \in DOMAIN stack' : stack'[i].value \subseteq Reachable(stack'[i].var)
  BY <1>1, <1>2, <1>4, <1>5 DEF DataTraced
<1>8. ASSUME Valid PROVE FramesSound(cache', stack') /\ CacheSound(cache')
  <2>1. FrameSound(cache, Top)
    BY <1>1, <1>2, <1>8 DEF FramesSound
  <2>2. Argument = Args(Top.var)[Top.next]
    BY <1>2 DEF RefOf
  <2>3. FrameSound(cache, [var |-> Top.var, next |-> Top.next + 1, value |-> x])
    BY <1>1, <1>2, <2>1, <2>2, FrameAdvances
  <2>8. FrameSound(cache, f)
    BY <2>3 DEF f
  <2>9. \A i \in DOMAIN stack' : FrameSound(cache, stack'[i])
    BY <1>1, <1>2, <1>5, <1>8, <2>8 DEF FramesSound
  <2> QED BY <1>1, <1>8, <2>9 DEF FramesSound
<1> QED BY <1>1, <1>5, <1>6, <1>7, <1>8, InvPrimed DEF DataTraced

\* A variable is answered at once.
LEMMA InvAtOnce ==
  ASSUME VariablesAssumption, ResolverInv, NEW w, w \notin DOMAIN cache, ~Descends(w),
         Remember(w, ResolveAtOnce(w)), UNCHANGED <<stack, def, order>>,
         stack = <<>> => w \in Vars, stack # <<>> => More /\ w = Argument
  PROVE  ResolverInv'
<1>1. /\ DefTyped /\ StackTyped /\ PathSound /\ DataTraced
      /\ Valid => FramesSound(cache, stack) /\ CacheSound(cache)
  BY DEF ResolverInv
<1> DEFINE a == ResolveAtOnce(w)
<1>2. a.value = {} /\ (w \notin Vars => a.status = "error")
  BY DEF ResolveAtOnce, Result
<1>3. w \in Vars /\ ~def[w].enabled => a.status = "disabled"
  BY DEF ResolveAtOnce, Result
<1> HIDE DEF a
<1>4. /\ DOMAIN cache' = DOMAIN cache \cup {w} /\ cache'[w] = a
      /\ \A x \in DOMAIN cache : cache'[x] = cache[x]
  BY DEF Remember, a
<1>5. \A v \in DOMAIN cache' : v \in DOMAIN cache \/ v = w
  BY <1>4
<1>6. \A v \in DOMAIN cache' \cap Vars :
        /\ cache'[v].value \subseteq Reachable(v)
        /\ cache'[v].value # {} => Marked(cache'[v], v)
  BY <1>1, <1>2, <1>4, <1>5 DEF DataTraced
<1>7. \A v \in DOMAIN cache' \ Vars : cache'[v].value = {} /\ cache'[v].status = "error"
  BY <1>1, <1>2, <1>4, <1>5 DEF DataTraced
<1>8. ASSUME Valid PROVE FramesSound(cache', stack') /\ CacheSound(cache')
  <2>1. w \in Vars
    <3>1. CASE stack = <<>>
      BY <3>1
    <3>2. CASE stack # <<>>
      <4>1. w \in Range(Args(Top.var)) /\ Top.var \in Vars
        BY <1>1, <3>2, TopFacts
      <4> QED BY <1>8, <4>1 DEF Valid
    <3> QED BY <3>1, <3>2
  <2>2. ~Visiting(w)
    <3>1. CASE stack = <<>>
      BY <3>1 DEF Visiting
    <3>2. CASE stack # <<>>
      BY <1>8, <2>1, <3>2, AskedFor DEF Visiting
    <3> QED BY <3>1, <3>2
  <2>3. ~def[w].enabled
    BY <2>1, <2>2 DEF Descends
  <2>4. Justified(cache', w)
    BY <1>2, <1>3, <1>4, <2>1, <2>3 DEF Justified, Conclusion
  <2>5. ASSUME NEW v \in DOMAIN cache' \cap Vars PROVE Justified(cache', v)
    <3>1. CASE v = w
      BY <2>4, <3>1
    <3>2. CASE v # w
      <4>1. v \in DOMAIN cache /\ Justified(cache, v)
        BY <1>1, <1>5, <1>8, <3>2 DEF CacheSound
      <4> QED BY <1>1, <1>4, <4>1, JustifiedStays
    <3> QED BY <3>1, <3>2
  <2>6. ASSUME NEW i \in DOMAIN stack PROVE FrameSound(cache', stack[i])
    <3>1. FrameSound(cache, stack[i])
      BY <1>1, <1>8 DEF FramesSound
    <3>2. stack[i].var # w /\ stack[i].var \notin DOMAIN cache
      BY <2>3, <3>1 DEF FrameSound
    <3>3. stack[i].var \in Vars /\ stack[i].next \in Nat \ {0} /\ stack[i].var \notin DOMAIN cache'
      BY <1>1, <1>5, <3>2, FrameTyped
    <3> QED BY <1>1, <1>4, <3>1, <3>3, FrameStays
  <2> QED BY <2>5, <2>6 DEF FramesSound, CacheSound
<1>9. StackTyped'
  BY <1>1 DEF StackTyped
<1>10. \A i, j \in DOMAIN stack' : i < j =>
         /\ stack'[i].next \in DOMAIN Args(stack'[i].var)
         /\ stack'[j].var \in Reachable(Args(stack'[i].var)[stack'[i].next])
  BY <1>1 DEF PathSound, RefOf
<1>11. \A i \in DOMAIN stack' : stack'[i].value \subseteq Reachable(stack'[i].var)
  BY <1>1 DEF DataTraced
<1> QED BY <1>1, <1>6, <1>7, <1>8, <1>9, <1>10, <1>11, InvPrimed

\* What a frame that ends leaves in the cache.
Cached(v, o, x) ==
  /\ DOMAIN cache' = DOMAIN cache \cup {v}
  /\ Conclusion(cache', v) = Concluded(v, o, x)
  /\ cache'[v].sensitive = LeadsToSensitive(v)
  /\ cache'[v].value \subseteq x \cup {v}
  /\ cache'[v].value # {} =>
       cache'[v].status \in Valued \/ (cache'[v].status = "error" /\ o = "error" /\ x # {})
  /\ \A y \in DOMAIN cache : y # v => cache'[y] = cache[y]

LEMMA SettleFacts ==
  ASSUME NEW o, NEW x, NEW v, v = Top.var, Settle(o, x)
  PROVE  Cached(v, o, x)
<1> DEFINE e == Concluded(v, o, x)
<1>1. e = [status |-> e.status, value |-> e.value]
  BY DEF Concluded
<1>2. /\ e.value \subseteq x \cup {v}
      /\ e.value # {} => e.status \in Valued \/ (e.status = "error" /\ o = "error" /\ x # {})
  BY DEF Concluded, Valued
<1> HIDE DEF e
<1>3. Remember(v, Result(e.status, e.value, LeadsToSensitive(v)))
  BY DEF Settle, e
<1>4. /\ DOMAIN cache' = DOMAIN cache \cup {v}
      /\ cache'[v] = Result(e.status, e.value, LeadsToSensitive(v))
      /\ \A y \in DOMAIN cache : y # v => cache'[y] = cache[y]
  BY <1>3 DEF Remember
<1>5. cache'[v].status = e.status /\ cache'[v].value = e.value
      /\ cache'[v].sensitive = LeadsToSensitive(v)
  BY <1>4 DEF Result
<1> QED BY <1>1, <1>2, <1>4, <1>5 DEF Cached, Conclusion, e

\* The innermost frame ends, with a result that what it knows justifies.
LEMMA InvPop ==
  ASSUME VariablesAssumption, ResolverInv, stack # <<>>, NEW o, NEW x, Settle(o, x),
         UNCHANGED <<def, order>>, x \subseteq Reachable(Top.var),
         o = "error" /\ x # {} => Converts(Top.var),
         Valid => Justified(cache', Top.var)
  PROVE  ResolverInv'
<1>1. /\ DefTyped /\ StackTyped /\ PathSound /\ DataTraced
      /\ Valid => FramesSound(cache, stack) /\ CacheSound(cache)
  BY DEF ResolverInv
<1> PICK v, n : v = Top.var /\ n = Len(stack)
  OBVIOUS
<1>2. n \in DOMAIN stack /\ DOMAIN stack = 1 .. n /\ n \in Nat \ {0} /\ v = stack[n].var /\ v \in Vars
  BY <1>1, TopFacts
<1>3. /\ DOMAIN cache' = DOMAIN cache \cup {v}
      /\ cache'[v].sensitive = LeadsToSensitive(v)
      /\ cache'[v].value \subseteq x \cup {v}
      /\ cache'[v].value # {} => Marked(cache'[v], v)
      /\ \A y \in DOMAIN cache : y # v => cache'[y] = cache[y]
  <2>1. Cached(v, o, x)
    BY SettleFacts
  <2> QED BY <2>1 DEF Cached, Marked
<1>4. /\ StackTyped' /\ DOMAIN stack' = 1 .. n - 1
      /\ \A i \in 1 .. n - 1 : i \in DOMAIN stack /\ stack'[i] = stack[i]
  <2> DEFINE Frames == [var : Vars, next : Nat \ {0}, value : SUBSET Vars]
  <2>1. stack \in Seq(Frames) /\ stack' = SubSeq(stack, 1, n - 1)
    BY <1>1 DEF StackTyped, Settle, Front
  <2> HIDE DEF Frames
  <2>2. /\ stack' \in Seq(Frames) /\ DOMAIN stack' = 1 .. n - 1
        /\ \A i \in 1 .. n - 1 : i \in DOMAIN stack /\ stack'[i] = stack[i]
    BY <1>2, <2>1
  <2> QED BY <2>2 DEF StackTyped, Frames
<1>5. \A y \in DOMAIN cache' : y = v \/ (y \in DOMAIN cache /\ y # v)
  BY <1>3
<1>6. \A y \in DOMAIN cache' \cap Vars :
        /\ cache'[y].value \subseteq Reachable(y)
        /\ cache'[y].value # {} => Marked(cache'[y], y)
  <2>1. cache'[v].value \subseteq Reachable(v)
    BY <1>2, <1>3, ReachableFacts
  <2> QED BY <1>1, <1>3, <1>5, <2>1 DEF DataTraced
<1>7. \A y \in DOMAIN cache' \ Vars : cache'[y].value = {} /\ cache'[y].status = "error"
  BY <1>1, <1>2, <1>3, <1>5 DEF DataTraced
<1>8. \A i, j \in DOMAIN stack' : i < j =>
         /\ stack'[i].next \in DOMAIN Args(stack'[i].var)
         /\ stack'[j].var \in Reachable(Args(stack'[i].var)[stack'[i].next])
  BY <1>1, <1>4 DEF PathSound, RefOf
<1>9. \A i \in DOMAIN stack' : stack'[i].value \subseteq Reachable(stack'[i].var)
  BY <1>1, <1>4 DEF DataTraced
<1>10. ASSUME Valid PROVE FramesSound(cache', stack') /\ CacheSound(cache')
  <2>1. v \notin DOMAIN cache
    BY <1>1, <1>2, <1>10 DEF FramesSound, FrameSound
  <2>2. \A y \in DOMAIN cache : cache'[y] = cache[y]
    BY <1>3, <2>1
  <2>3. ASSUME NEW y \in DOMAIN cache' \cap Vars PROVE Justified(cache', y)
    <3>1. CASE y = v
      BY <1>10, <3>1
    <3>2. CASE y # v
      <4>1. y \in DOMAIN cache /\ Justified(cache, y)
        BY <1>1, <1>5, <1>10, <3>2 DEF CacheSound
      <4> QED BY <1>1, <1>3, <2>2, <4>1, JustifiedStays
    <3> QED BY <3>1, <3>2
  <2>4. ASSUME NEW i \in 1 .. n - 1 PROVE FrameSound(cache', stack[i])
    <3>1. i \in DOMAIN stack /\ i < n
      BY <1>2
    <3>2. FrameSound(cache, stack[i])
      BY <1>1, <1>10, <3>1 DEF FramesSound
    <3>3. stack[i].var # v
      BY <1>2, <1>10, <3>1, FramesDiffer
    <3>4. stack[i].var \in Vars /\ stack[i].next \in Nat \ {0}
      BY <1>1, <3>1, FrameTyped
    <3>5. stack[i].var \notin DOMAIN cache'
      BY <1>5, <3>2, <3>3 DEF FrameSound
    <3> QED BY <1>1, <1>3, <2>2, <3>2, <3>4, <3>5, FrameStays
  <2>5. \A i \in DOMAIN stack' : FrameSound(cache', stack'[i])
    BY <1>4, <2>4
  <2> QED BY <2>3, <2>5 DEF FramesSound, CacheSound
<1> QED BY <1>1, <1>4, <1>6, <1>7, <1>8, <1>9, <1>10, InvPrimed

\* A call of resolve.
LEMMA InvResolve ==
  ASSUME VariablesAssumption, ResolverInv, NEW w, Resolve(w), UNCHANGED <<def, order>>,
         stack = <<>> => w \in Vars, stack # <<>> => More /\ w = Argument
  PROVE  ResolverInv'
<1>1. w \notin DOMAIN cache
  BY DEF Resolve
<1>2. CASE Descends(w) /\ stack' = Append(stack, Frame(w)) /\ UNCHANGED cache
  <2>1. w \in Vars /\ def[w].enabled
    BY <1>2 DEF Descends
  <2> QED BY <1>1, <1>2, <2>1, InvPush
<1>3. CASE ~Descends(w) /\ Remember(w, ResolveAtOnce(w)) /\ UNCHANGED stack
  BY <1>1, <1>3, InvAtOnce
<1> QED BY <1>2, <1>3 DEF Resolve

\* What the frame that ends knows, in a payload that validates.
LEMMA TopKnows ==
  ASSUME VariablesAssumption, ResolverInv, Valid, stack # <<>>, NEW o, NEW x, Settle(o, x),
         NEW v, v = Top.var, NEW n, n = Top.next, NEW a, a = Args(v)
  PROVE  /\ def[v].enabled /\ Conclusion(cache', v) = Concluded(v, o, x)
         /\ Len(a) \in Nat /\ DOMAIN a = 1 .. Len(a) /\ n \in Nat \ {0} /\ n <= Len(a) + 1
         /\ \A y \in DOMAIN cache : y \in DOMAIN cache' /\ cache'[y] = cache[y]
         /\ \A i \in 1 .. n - 1 : CachedAs(cache', a[i], Passed(v))
         /\ Top.value = UNION {cache'[a[i]].value : i \in 1 .. n - 1}
<1>1. /\ DefTyped /\ StackTyped /\ FramesSound(cache, stack)
      /\ Len(stack) \in DOMAIN stack /\ Top = stack[Len(stack)] /\ v \in Vars /\ n \in Nat \ {0}
  BY TopFacts DEF ResolverInv
<1>2. FrameSound(cache, Top)
  BY <1>1 DEF FramesSound
<1>3. Len(a) \in Nat /\ DOMAIN a = 1 .. Len(a)
  BY <1>1, ArgsTyped
<1>4. v \notin DOMAIN cache /\ def[v].enabled /\ n <= Len(a) + 1
  BY <1>2 DEF FrameSound
<1>5. /\ DOMAIN cache' = DOMAIN cache \cup {v} /\ Conclusion(cache', v) = Concluded(v, o, x)
      /\ \A y \in DOMAIN cache : y # v => cache'[y] = cache[y]
  <2>1. Cached(v, o, x)
    BY SettleFacts
  <2> QED BY <2>1 DEF Cached
<1>6. \A y \in DOMAIN cache : y \in DOMAIN cache' /\ cache'[y] = cache[y]
  BY <1>4, <1>5
<1>7. \A y, s : CachedAs(cache, y, s) => CachedAs(cache', y, s)
  BY <1>6 DEF CachedAs
<1>8. /\ \A i \in 1 .. n - 1 : CachedAs(cache, a[i], Passed(v))
      /\ Top.value = UNION {cache[a[i]].value : i \in 1 .. n - 1}
  BY <1>2 DEF FrameSound
<1>9. {cache'[a[i]].value : i \in 1 .. n - 1} = {cache[a[i]].value : i \in 1 .. n - 1}
  <2>1. \A i \in 1 .. n - 1 : cache'[a[i]] = cache[a[i]]
    BY <1>6, <1>8 DEF CachedAs
  <2> QED BY <2>1
<1> QED BY <1>1, <1>3, <1>4, <1>5, <1>6, <1>7, <1>8, <1>9

\* What the innermost frame is at.
LEMMA AtArgument ==
  ASSUME VariablesAssumption, ResolverInv, More, NEW s, Has(s)
  PROVE  /\ stack # <<>> /\ Top.next \in DOMAIN Args(Top.var) /\ Argument = Args(Top.var)[Top.next]
         /\ Top.var \in Vars /\ Top.value \subseteq Reachable(Top.var) /\ Top.value \subseteq Vars
         /\ Argument \in DOMAIN cache /\ cache[Argument].status \in s
         /\ "error" \notin s => Argument \in Vars
         /\ cache[Argument].value \subseteq Reachable(Top.var) /\ cache[Argument].value \subseteq Vars
         /\ cache[Argument].value # {} /\ cache[Argument].status \notin Valued => Converts(Top.var)
<1>1. DefTyped /\ StackTyped /\ DataTraced /\ stack # <<>>
  BY DEF ResolverInv, More
<1>2. /\ Top.next \in DOMAIN Args(Top.var) /\ Argument \in Range(Args(Top.var))
      /\ Argument = Args(Top.var)[Top.next] /\ Top.var \in Vars
      /\ Len(stack) \in DOMAIN stack /\ Top = stack[Len(stack)]
  BY <1>1, TopFacts DEF RefOf
<1>3. Top.value \subseteq Reachable(Top.var) /\ Reachable(Top.var) \subseteq Vars
  BY <1>1, <1>2, ReachableFacts DEF DataTraced
<1>4. Argument \in DOMAIN cache /\ cache[Argument].status \in s
  BY DEF Has
<1>5. ASSUME Argument \notin Vars
      PROVE  cache[Argument].value = {} /\ cache[Argument].status = "error"
  <2> PICK x : x = Argument
    OBVIOUS
  <2>1. \A w \in DOMAIN cache \ Vars : cache[w].value = {} /\ cache[w].status = "error"
    BY <1>1 DEF DataTraced
  <2>2. x \in DOMAIN cache \ Vars
    BY <1>4, <1>5
  <2> QED BY <2>1, <2>2
<1>6. ASSUME Argument \in Vars
      PROVE  /\ cache[Argument].value \subseteq Reachable(Top.var)
             /\ cache[Argument].value # {} /\ cache[Argument].status \notin Valued => Converts(Top.var)
  <2>1. /\ cache[Argument].value \subseteq Reachable(Argument)
        /\ cache[Argument].value # {} => Marked(cache[Argument], Argument)
    BY <1>1, <1>4, <1>6 DEF DataTraced
  <2>2. Argument \in Reachable(Top.var)
    BY <1>2, <1>6, ReachableFacts DEF Closed
  <2>3. Reachable(Argument) \subseteq Reachable(Top.var)
    BY <1>2, <2>2, ReachableFacts
  <2>4. Converts(Argument) => Converts(Top.var)
    BY <2>3 DEF Converts
  <2> QED BY <2>1, <2>3, <2>4 DEF Marked
<1> QED BY <1>1, <1>2, <1>3, <1>4, <1>5, <1>6

\* An argument without a value, or none needed, settles the variable.
LEMMA InvReadSource ==
  ASSUME VariablesAssumption, ResolverInv, ReadSource PROVE ResolverInv'
<1> PICK o, v : o = (IF def[Top.var].source = "present" THEN "found" ELSE "missing") /\ v = Top.var
  OBVIOUS
<1>1. stack # <<>> /\ def[v].source # "computed" /\ Settle(o, {v}) /\ UNCHANGED <<def, order>>
  BY DEF ReadSource
<1>2. v \in Vars
  BY <1>1, TopFacts DEF ResolverInv
<1>3. {v} \subseteq Reachable(v)
  BY <1>2, ReachableFacts
<1>4. ASSUME Valid PROVE Justified(cache', v)
  <2>1. def[v].enabled /\ Conclusion(cache', v) = Concluded(v, o, {v})
    BY <1>1, <1>4, TopKnows
  <2>2. Concluded(v, "missing", {v}) = Concluded(v, "missing", {})
    BY DEF Concluded
  <2> QED BY <1>1, <2>1, <2>2 DEF Justified
<1>5. o # "error"
  OBVIOUS
<1> QED BY <1>1, <1>3, <1>4, <1>5, InvPop

\* PassArgument.
LEMMA InvPassArgument ==
  ASSUME VariablesAssumption, ResolverInv, PassArgument PROVE ResolverInv'
<1> PICK x : x = Top.value \cup cache[Argument].value
  OBVIOUS
<1>1. More /\ Has(Passed(Top.var)) /\ UNCHANGED <<def, order>> /\ UNCHANGED cache
      /\ stack' = [stack EXCEPT ![Len(stack)] = [var |-> Top.var, next |-> Top.next + 1, value |-> x]]
  BY DEF PassArgument, GoOn
<1>2. "error" \notin Passed(Top.var)
  BY DEF Passed, Valued
<1>3. /\ Argument \in DOMAIN cache /\ cache[Argument].status \in Passed(Top.var) /\ Argument \in Vars
      /\ x \subseteq Reachable(Top.var) /\ x \subseteq Vars
  BY <1>1, <1>2, AtArgument
<1>4. CachedAs(cache, Argument, Passed(Top.var))
  BY <1>3 DEF CachedAs
<1> QED BY <1>1, <1>3, <1>4, InvAdvance

\* The innermost frame stops at an argument.
LEMMA StopJustified ==
  ASSUME VariablesAssumption, ResolverInv, Valid, More, Has({cache[Argument].status}),
         cache[Argument].status \notin Passed(Top.var), NEW o,
         o = (IF cache[Argument].status \in Valued THEN "found" ELSE "error"),
         Settle(o, cache[Argument].value)
  PROVE  Justified(cache', Top.var)
<1> PICK v, n, a, x : v = Top.var /\ n = Top.next /\ a = Args(v) /\ x = cache[Argument].value
  OBVIOUS
<1>1. /\ stack # <<>> /\ n \in DOMAIN a /\ Argument = a[n] /\ v \in Vars /\ Argument \in DOMAIN cache
  BY AtArgument
<1>2. /\ def[v].enabled /\ Conclusion(cache', v) = Concluded(v, o, x)
      /\ Argument \in DOMAIN cache' /\ cache'[Argument] = cache[Argument]
      /\ \A i \in 1 .. n - 1 : CachedAs(cache', a[i], Passed(v))
  BY <1>1, TopKnows
<1>3. def[v].source = "computed"
  BY <1>1 DEF Args
<1>4. StopsAt(cache', v, n)
  BY <1>1, <1>2 DEF StopsAt
<1>5. Conclusion(cache', v) = Stopped(v, cache'[a[n]])
  BY <1>1, <1>2 DEF Stopped
<1> QED BY <1>1, <1>2, <1>3, <1>4, <1>5 DEF Justified

\* TakeValue.
LEMMA InvTakeValue ==
  ASSUME VariablesAssumption, ResolverInv, TakeValue PROVE ResolverInv'
<1> PICK x : x = cache[Argument].value
  OBVIOUS
<1>1. More /\ Has(Valued) /\ def[Top.var].op = "coalesce" /\ UNCHANGED <<def, order>> /\ Settle("found", x)
  BY DEF TakeValue
<1>2. stack # <<>> /\ cache[Argument].status \in Valued /\ x \subseteq Reachable(Top.var)
      /\ Argument \in DOMAIN cache
  BY <1>1, AtArgument
<1>3. ASSUME Valid PROVE Justified(cache', Top.var)
  <2>1. cache[Argument].status \notin Passed(Top.var)
    BY <1>1, <1>2 DEF Passed, Valued
  <2>2. Has({cache[Argument].status})
    BY <1>2 DEF Has
  <2> QED BY <1>1, <1>2, <1>3, <2>1, <2>2, StopJustified
<1> QED BY <1>1, <1>2, <1>3, InvPop

\* FailArgument.
LEMMA InvFailArgument ==
  ASSUME VariablesAssumption, ResolverInv, FailArgument PROVE ResolverInv'
<1> PICK x : x = cache[Argument].value
  OBVIOUS
<1>1. More /\ Has({"error", "disabled"}) /\ UNCHANGED <<def, order>> /\ Settle("error", x)
  BY DEF FailArgument
<1>2. /\ stack # <<>> /\ cache[Argument].status \in {"error", "disabled"} /\ x \subseteq Reachable(Top.var)
      /\ Argument \in DOMAIN cache
      /\ x # {} /\ cache[Argument].status \notin Valued => Converts(Top.var)
  BY <1>1, AtArgument
<1>3. cache[Argument].status \notin Valued /\ cache[Argument].status \notin Passed(Top.var)
  BY <1>2 DEF Passed, Valued
<1>4. ASSUME Valid PROVE Justified(cache', Top.var)
  <2>1. Has({cache[Argument].status})
    BY <1>2 DEF Has
  <2> QED BY <1>1, <1>3, <1>4, <2>1, StopJustified
<1> QED BY <1>1, <1>2, <1>3, <1>4, InvPop

\* EndExpression.
LEMMA InvEndExpression ==
  ASSUME VariablesAssumption, ResolverInv, EndExpression PROVE ResolverInv'
<1> PICK v, n, a, x, l, o : /\ v = Top.var /\ n = Top.next /\ a = Args(v) /\ x = Top.value
                            /\ l = Lacks(cache, v) /\ o = Ending(v, l)
  OBVIOUS
<1>1. /\ stack # <<>> /\ def[v].source = "computed" /\ ~More
      /\ UNCHANGED <<def, order>> /\ Settle(o, x)
  BY DEF EndExpression
<1>2. /\ Len(stack) \in DOMAIN stack /\ Top = stack[Len(stack)] /\ v \in Vars
      /\ n \in Nat \ {0} /\ n \notin DOMAIN a
  BY <1>1, TopFacts DEF ResolverInv
<1>3. x \subseteq Reachable(v)
  BY <1>2 DEF ResolverInv, DataTraced
<1>4. ASSUME Valid PROVE Justified(cache', v)
  <2>1. /\ def[v].enabled /\ Conclusion(cache', v) = Concluded(v, o, x)
        /\ Len(a) \in Nat /\ DOMAIN a = 1 .. Len(a) /\ n \in Nat \ {0} /\ n <= Len(a) + 1
        /\ \A y \in DOMAIN cache : y \in DOMAIN cache' /\ cache'[y] = cache[y]
        /\ \A i \in 1 .. n - 1 : CachedAs(cache', a[i], Passed(v))
        /\ x = UNION {cache'[a[i]].value : i \in 1 .. n - 1}
    BY <1>1, <1>4, TopKnows
  <2>2. 1 .. n - 1 = DOMAIN a
    BY <1>2, <2>1
  <2>3. x = All(cache', v)
    BY <2>1, <2>2 DEF All
  <2>4. \A i \in DOMAIN a : a[i] \in DOMAIN cache
    <3>1. FrameSound(cache, Top)
      BY <1>2, <1>4 DEF ResolverInv, FramesSound
    <3> QED BY <2>2, <3>1 DEF FrameSound, CachedAs
  <2>5. Lacks(cache', v) = l
    BY <2>1, <2>4 DEF Lacks
  <2> QED BY <1>1, <2>1, <2>2, <2>3, <2>5 DEF Justified
<1>5. o = "error" => Converts(v)
  <2>1. v \in Reachable(v)
    BY <1>2, ReachableFacts
  <2> QED BY <2>1 DEF Ending, Converts
<1> QED BY <1>1, <1>3, <1>4, <1>5, InvPop

\* No variable has a result at first.
LEMMA InvInit ==
  ASSUME VariablesAssumption, ResolverInit PROVE ResolverInv
<1>1. DefTyped /\ stack = <<>> /\ cache = <<>>
  BY DEF ResolverInit, DefTyped
<1>2. StackTyped /\ DOMAIN stack = {} /\ DOMAIN cache = {}
  BY <1>1 DEF StackTyped
<1>3. PathSound /\ DataTraced
  BY <1>2 DEF PathSound, DataTraced
<1>4. FramesSound(cache, stack) /\ CacheSound(cache)
  BY <1>2 DEF FramesSound, CacheSound
<1> QED BY <1>1, <1>2, <1>3, <1>4 DEF ResolverInv

LEMMA InvStep ==
  ASSUME VariablesAssumption, ResolverInv, [ResolverNext]_resolverVars PROVE ResolverInv'
<1>1. CASE ResolveDeclared
  <2>1. PICK i \in DOMAIN order : Resolve(order[i])
    BY <1>1 DEF ResolveDeclared
  <2>2. order[i] \in Vars
    BY <2>1 DEF ResolverInv, DefTyped, VariablesAssumption
  <2>3. stack = <<>> /\ UNCHANGED <<def, order>>
    BY <1>1 DEF ResolveDeclared
  <2> QED BY <2>1, <2>2, <2>3, InvResolve
<1>2. CASE ResolveArgument
  <2>1. More /\ Resolve(Argument) /\ UNCHANGED <<def, order>>
    BY <1>2 DEF ResolveArgument
  <2>2. stack # <<>>
    BY <2>1 DEF More
  <2> QED BY <2>1, <2>2, InvResolve
<1>3. CASE ReadSource
  BY <1>3, InvReadSource
<1>4. CASE TakeValue
  BY <1>4, InvTakeValue
<1>5. CASE PassArgument
  BY <1>5, InvPassArgument
<1>6. CASE FailArgument
  BY <1>6, InvFailArgument
<1>7. CASE EndExpression
  BY <1>7, InvEndExpression
<1>8. CASE UNCHANGED resolverVars
  <2>1. /\ DefTyped /\ StackTyped /\ PathSound /\ DataTraced
        /\ Valid => FramesSound(cache, stack) /\ CacheSound(cache)
    BY DEF ResolverInv
  <2>2. def' = def /\ order' = order /\ cache' = cache /\ stack' = stack
    BY <1>8 DEF resolverVars
  <2>3. StackTyped'
    BY <2>1, <2>2 DEF StackTyped
  <2>4. Valid => FramesSound(cache', stack') /\ CacheSound(cache')
    BY <2>1, <2>2
  <2>5. \A i, j \in DOMAIN stack' : i < j =>
         /\ stack'[i].next \in DOMAIN Args(stack'[i].var)
         /\ stack'[j].var \in Reachable(Args(stack'[i].var)[stack'[i].next])
    BY <2>1, <2>2 DEF PathSound, RefOf
  <2>6. \A i \in DOMAIN stack' : stack'[i].value \subseteq Reachable(stack'[i].var)
    BY <2>1, <2>2 DEF DataTraced
  <2>7. /\ \A v \in DOMAIN cache' \cap Vars :
             /\ cache'[v].value \subseteq Reachable(v)
             /\ cache'[v].value # {} => Marked(cache'[v], v)
        /\ \A v \in DOMAIN cache' \ Vars : cache'[v].value = {} /\ cache'[v].status = "error"
    BY <2>1, <2>2 DEF DataTraced
  <2> QED BY <2>1, <2>2, <2>3, <2>4, <2>5, <2>6, <2>7, InvPrimed
<1> QED BY <1>1, <1>2, <1>3, <1>4, <1>5, <1>6, <1>7, <1>8 DEF ResolverNext

\* A justified result is what the meanings of the references make of the variable.
LEMMA JustifiedIsMeaning ==
  ASSUME VariablesAssumption, DefTyped, NEW v \in Vars, NEW c, Justified(c, v), NEW m,
         \A i \in DOMAIN Args(v) : m[Args(v)[i]] = Conclusion(c, Args(v)[i])
  PROVE  MeaningFrom(v, m) = Conclusion(c, v)
<1> PICK a : a = Args(v)
  OBVIOUS
<1> DEFINE halting == {i \in DOMAIN a : m[a[i]].status \notin Passed(v)}
           first == CHOOSE i \in halting : \A j \in halting : i <= j
<1>1. \A i \in DOMAIN a : m[a[i]].status = c[a[i]].status /\ m[a[i]].value = c[a[i]].value
  <2>1. \A i \in DOMAIN a : m[a[i]] = Conclusion(c, a[i])
    OBVIOUS
  <2>2. \A w : Conclusion(c, w).status = c[w].status /\ Conclusion(c, w).value = c[w].value
    BY DEF Conclusion
  <2> QED BY <2>1, <2>2
<1>2. Len(a) \in Nat /\ DOMAIN a = 1 .. Len(a)
  BY ArgsTyped
<1>3. CASE ~def[v].enabled
  BY <1>3 DEF MeaningFrom, Justified
<1>4. CASE def[v].enabled /\ def[v].source = "present"
  BY <1>4 DEF MeaningFrom, Justified
<1>5. CASE def[v].enabled /\ def[v].source \notin {"present", "computed"}
  BY <1>5 DEF MeaningFrom, Justified
<1>6. CASE def[v].enabled /\ def[v].source = "computed"
  <2>1. MeaningFrom(v, m) =
          IF halting # {} THEN Concluded(v, IF m[a[first]].status \in Valued THEN "found" ELSE "error",
                                       m[a[first]].value)
          ELSE Concluded(v, Ending(v, Lacks(m, v)), All(m, v))
    BY <1>6 DEF MeaningFrom
  <2>2. CASE /\ \A i \in DOMAIN a : CachedAs(c, a[i], Passed(v))
             /\ Conclusion(c, v) = Concluded(v, Ending(v, Lacks(c, v)), All(c, v))
    <3>1. halting = {}
      BY <1>1, <2>2 DEF CachedAs
    <3>2. Lacks(m, v) = Lacks(c, v)
      BY <1>1 DEF Lacks
    <3> DEFINE inM == {m[a[i]].value : i \in DOMAIN a}
               inC == {c[a[i]].value : i \in DOMAIN a}
    <3>3. inM = inC
      BY <1>1
    <3>4. All(m, v) = UNION inM /\ All(c, v) = UNION inC
      BY DEF All
    <3> HIDE DEF inM, inC
    <3>5. All(m, v) = All(c, v)
      BY <3>3, <3>4
    <3> QED BY <2>1, <2>2, <3>1, <3>2, <3>5
  <2>3. CASE \E k \in DOMAIN a : StopsAt(c, v, k) /\ Conclusion(c, v) = Stopped(v, c[a[k]])
    <3>1. PICK k \in DOMAIN a : StopsAt(c, v, k) /\ Conclusion(c, v) = Stopped(v, c[a[k]])
      BY <2>3
    <3>2. k \in halting
      BY <1>1, <3>1 DEF StopsAt
    <3>3. \A j \in halting : j \notin 1 .. k - 1
      BY <1>1, <3>1 DEF StopsAt, CachedAs
    <3>4. \A j \in halting : j \in Nat \ {0}
      BY <1>2
    <3>5. \A j \in halting : k <= j
      BY <1>2, <3>2, <3>3, <3>4
    <3> HIDE DEF halting
    <3>6. \A i \in halting : (\A j \in halting : i <= j) => i = k
      BY <3>2, <3>4, <3>5
    <3>7. first = k
      BY <3>2, <3>5, <3>6
    <3> HIDE DEF first
    <3> QED BY <1>1, <2>1, <3>1, <3>2, <3>7 DEF Stopped
  <2> QED BY <1>6, <2>2, <2>3 DEF Justified
<1> QED BY <1>3, <1>4, <1>5, <1>6

\* The rounds in which Meaning is found.
Round(m, n) == [v \in Vars |-> IF n = 0 THEN [status |-> "missing", value |-> {}]
                               ELSE MeaningFrom(v, m[n - 1])]

\* Their recursion defines a function.
LEMMA RoundsDefined ==
  ASSUME NEW N \in Nat
  PROVE  \E m : m = [n \in 0 .. N |-> Round(m, n)]
<1> DEFINE Good(n) == \E g : \A i \in 0 .. n : g[i] = Round(g, i)
           T == {n \in Nat : Good(n)}
<1>1. Good(0)
  <2> DEFINE x == [v \in Vars |-> [status |-> "missing", value |-> {}]]
             g == [i \in 0 .. 0 |-> x]
  <2>1. \A i \in 0 .. 0 : i = 0 /\ g[i] = x
    OBVIOUS
  <2> HIDE DEF g
  <2>2. Round(g, 0) = x
    BY DEF Round
  <2> QED BY <2>1, <2>2
<1>2. ASSUME NEW n \in Nat, Good(n) PROVE Good(n + 1)
  <2>1. PICK g : \A i \in 0 .. n : g[i] = Round(g, i)
    BY <1>2
  <2> DEFINE x == Round(g, n + 1)
             h == [i \in 0 .. n + 1 |-> IF i <= n THEN g[i] ELSE x]
  <2>2. h[n + 1] = x /\ \A i \in 0 .. n : h[i] = g[i]
    BY <1>2
  <2> HIDE DEF h, x
  <2>3. ASSUME NEW i \in 0 .. n + 1 PROVE Round(h, i) = Round(g, i)
    <3>1. CASE i = 0
      BY <3>1 DEF Round
    <3>2. CASE i # 0
      <4>1. i - 1 \in 0 .. n
        BY <3>2
      <4>2. h[i - 1] = g[i - 1]
        BY <2>2, <4>1
      <4> QED BY <4>2 DEF Round
    <3> QED BY <3>1, <3>2
  <2>4. ASSUME NEW i \in 0 .. n + 1 PROVE h[i] = Round(h, i)
    <3>1. i \in 0 .. n \/ i = n + 1
      BY <1>2
    <3>2. CASE i \in 0 .. n
      BY <2>1, <2>2, <2>3, <3>2
    <3>3. CASE i = n + 1
      BY <2>2, <2>3, <3>3 DEF x
    <3> QED BY <3>1, <3>2, <3>3
  <2> QED BY <2>4
<1>3. N \in T
  <2>1. 0 \in T
    BY <1>1
  <2>2. \A n \in Nat : n \in T => n + 1 \in T
    <3> HIDE DEF Good
    <3> QED BY <1>2
  <2> HIDE DEF T
  <2>3. Nat \subseteq T
    BY <2>1, <2>2, NatSetInduction
  <2> QED BY <2>3
<1>4. PICK g : \A i \in 0 .. N : g[i] = Round(g, i)
  BY <1>3
<1> DEFINE m == [i \in 0 .. N |-> g[i]]
<1>5. \A i \in 0 .. N : m[i] = g[i]
  OBVIOUS
<1> HIDE DEF m
<1>6. ASSUME NEW i \in 0 .. N PROVE Round(m, i) = Round(g, i)
  <2>1. CASE i = 0
    BY <2>1 DEF Round
  <2>2. CASE i # 0
    <3>1. i - 1 \in 0 .. N
      BY <2>2
    <3>2. m[i - 1] = g[i - 1]
      BY <1>5, <3>1
    <3> QED BY <3>2 DEF Round
  <2> QED BY <2>1, <2>2
<1>7. m = [i \in 0 .. N |-> g[i]]
  BY DEF m
<1>8. m = [i \in 0 .. N |-> Round(m, i)]
  BY <1>4, <1>6, <1>7
<1> QED BY <1>8

\* When all variables have justified results, these are their meanings: a variable
\* that leads to n variables has its meaning after n rounds, since its references lead
\* to fewer.
LEMMA ResultsAreMeanings ==
  ASSUME VariablesAssumption, DefTyped, Valid, Vars \subseteq DOMAIN cache, CacheSound(cache),
         NEW v \in Vars
  PROVE  Meaning[v] = Conclusion(cache, v)
<1> PICK N : N = Cardinality(Vars)
  OBVIOUS
<1>1. N \in Nat /\ IsFiniteSet(Vars)
  BY FS_CardinalityType DEF VariablesAssumption
<1> DEFINE m == CHOOSE m : m = [n \in 0 .. N |-> Round(m, n)]
<1>2. Meaning = m[N]
  BY DEF Meaning, Round
<1>3. m = [n \in 0 .. N |-> Round(m, n)]
  BY <1>1, RoundsDefined
<1> HIDE DEF m
<1> DEFINE Found(n) == \A w \in Vars : Cardinality(Reachable(w)) <= n => m[n][w] = Conclusion(cache, w)
           T == {n \in Nat : n <= N => Found(n)}
<1>4. \A w \in Vars : /\ IsFiniteSet(Reachable(w)) /\ Cardinality(Reachable(w)) \in Nat
                      /\ Cardinality(Reachable(w)) # 0 /\ Cardinality(Reachable(w)) <= N
  <2> SUFFICES ASSUME NEW w \in Vars
               PROVE  /\ IsFiniteSet(Reachable(w)) /\ Cardinality(Reachable(w)) \in Nat
                      /\ Cardinality(Reachable(w)) # 0 /\ Cardinality(Reachable(w)) <= N
    OBVIOUS
  <2>1. w \in Reachable(w) /\ Reachable(w) \in SUBSET Vars
    BY ReachableFacts
  <2>2. IsFiniteSet(Reachable(w)) /\ Cardinality(Reachable(w)) <= N
    BY <1>1, <2>1, FS_Subset
  <2>3. Cardinality(Reachable(w)) \in Nat
    BY <2>2, FS_CardinalityType
  <2>4. Cardinality(Reachable(w)) # 0
    BY <2>1, <2>2, FS_EmptySet
  <2> QED BY <2>2, <2>3, <2>4
<1>5. Found(0)
  BY <1>4
<1>6. ASSUME NEW n \in Nat, n < N, Found(n) PROVE Found(n + 1)
  <2> SUFFICES ASSUME NEW w \in Vars, Cardinality(Reachable(w)) <= n + 1
               PROVE  m[n + 1][w] = Conclusion(cache, w)
    OBVIOUS
  <2>1. ASSUME NEW i \in DOMAIN Args(w) PROVE m[n][Args(w)[i]] = Conclusion(cache, Args(w)[i])
    <3> DEFINE u == Args(w)[i]
    <3>1. u \in Range(Args(w))
      BY ArgsTyped
    <3> HIDE DEF u
    <3>2. u \in Vars /\ w \notin Reachable(u) /\ w \in Reachable(w) /\ Reachable(u) \subseteq Reachable(w)
      BY <3>1, NoWayBack, ReachableFacts
    <3>3. /\ Cardinality(Reachable(u)) <= Cardinality(Reachable(w))
          /\ Cardinality(Reachable(u)) # Cardinality(Reachable(w))
      BY <1>4, <3>2, FS_Subset
    <3>4. Cardinality(Reachable(u)) <= n
      BY <1>4, <3>2, <3>3
    <3> QED BY <1>6, <3>2, <3>4 DEF u
  <2>2. MeaningFrom(w, m[n]) = Conclusion(cache, w)
    BY <2>1, JustifiedIsMeaning DEF CacheSound
  <2>3. m[n + 1] = Round(m, n + 1)
    BY <1>1, <1>3, <1>6
  <2>4. Round(m, n + 1)[w] = MeaningFrom(w, m[n])
    <3>1. n + 1 # 0 /\ (n + 1) - 1 = n
      BY <1>6
    <3> QED BY <3>1 DEF Round
  <2> QED BY <2>2, <2>3, <2>4
<1>7. N \in T
  <2>1. 0 \in T
    BY <1>5
  <2>2. \A n \in Nat : n \in T => n + 1 \in T
    <3> HIDE DEF Found
    <3> SUFFICES ASSUME NEW n \in Nat, n <= N => Found(n), n + 1 <= N PROVE Found(n + 1)
      OBVIOUS
    <3>1. n <= N /\ n < N
      BY <1>1
    <3> QED BY <1>6, <3>1
  <2> HIDE DEF T
  <2>3. Nat \subseteq T
    BY <2>1, <2>2, NatSetInduction
  <2> QED BY <1>1, <2>3
<1>8. Found(N)
  <2> HIDE DEF Found
  <2> QED BY <1>1, <1>7
<1>9. m[N][v] = Conclusion(cache, v)
  BY <1>4, <1>8
<1> QED BY <1>2, <1>9

LEMMA InvMeansResolutionSound ==
  ASSUME VariablesAssumption, ResolverInv PROVE ResolutionSound
<1>1. OrderIrrelevant
  <2> SUFFICES ASSUME Valid, Finished, NEW v \in Vars
               PROVE  cache[v].status = Meaning[v].status /\ cache[v].value = Meaning[v].value
    BY DEF OrderIrrelevant
  <2>1. Meaning[v] = Conclusion(cache, v)
    BY ResultsAreMeanings DEF ResolverInv, Finished
  <2> QED BY <2>1 DEF Conclusion
<1>2. SensitiveRedacted
  <2> SUFFICES ASSUME NEW v \in DOMAIN cache \cap Vars, NEW w \in Shown(cache[v]), def[w].sensitive
               PROVE  cache[v].status = "error" /\ cache[v].sensitive /\ Converts(v)
    BY DEF SensitiveRedacted
  <2>1. w \in cache[v].value /\ ~(cache[v].sensitive /\ cache[v].status \in Valued)
    BY DEF Shown
  <2>2. w \in Reachable(v) /\ Marked(cache[v], v)
    BY <2>1 DEF ResolverInv, DataTraced
  <2>3. cache[v].sensitive
    BY <2>2 DEF LeadsToSensitive, Marked
  <2> QED BY <2>1, <2>2, <2>3 DEF Marked
<1> QED BY <1>1, <1>2 DEF ResolutionSound

\* Whatever the variables, their definitions and the order of their declaration: in a
\* payload that validates every variable is resolved to what its definition means, and
\* in any payload sensitive data is shown nowhere but in the text of the error of a failed
\* conversion, on a result that is marked sensitive.
THEOREM ResolutionSoundHolds == ASSUME VariablesAssumption PROVE ResolverSpec => []ResolutionSound
<1>1. ResolverInit => ResolverInv
  BY InvInit
<1>2. ResolverInv /\ [ResolverNext]_resolverVars => ResolverInv'
  BY InvStep
<1>3. ResolverInv => ResolutionSound
  BY InvMeansResolutionSound
<1> QED BY <1>1, <1>2, <1>3, PTL DEF ResolverSpec

-----------------------------------------------------------------------------
(***************************************************************************)
(* The Tag Execution Graph (TagGraph). Every page is scanned and judged    *)
(* alone, and the graph resolves names among all pages. An edge between    *)
(* implementations is right because names, and not nodes, come from a page *)
(* that has both (DuplicatesSeen), and because the names of containers, of *)
(* vendors and of snippets are never confused.                             *)
(***************************************************************************)

VendorNames == {c.vendor : c \in VendorCode}
Snippets == {c.evidence : c \in VendorCode}

TracesTyped == \A t \in captured : t.steps \in Seq(DOMAIN Site \cup {Nil})

ScansSound ==
  /\ visits \in Seq(Observations)
  /\ scans = [i \in 1 .. Len(visits) |-> ScanHtml(visits[i].page, visits[i].elements)]

DuplicatesSeen ==
  \A names \in duplicates : \E i \in DOMAIN visits :
    /\ names \in DuplicateCandidates(scans[i])
    /\ \E t \in visits[i].traces : Cardinality(Requests(t)) >= 2

Hedged == \A ind \in indicators : ind.evidence \in {"Inferred", "Suspected"}

GraphInv == ScansSound /\ TracesTyped /\ DuplicatesSeen /\ Hedged

LEMMA GraphInitSound == ASSUME GraphInit PROVE GraphInv
<1>1. ScansSound
  <2>1. visits = <<>> /\ scans = <<>> /\ Len(visits) = 0 /\ visits \in Seq(Observations)
    BY DEF GraphInit
  <2>2. scans = [i \in 1 .. Len(visits) |-> ScanHtml(visits[i].page, visits[i].elements)]
    BY <2>1
  <2> QED BY <2>1, <2>2 DEF ScansSound
<1>2. TracesTyped /\ DuplicatesSeen /\ Hedged
  BY DEF GraphInit, TracesTyped, DuplicatesSeen, Hedged
<1> QED BY <1>1, <1>2 DEF GraphInv

\* What the two detectors conclude from one page and its session.
LEMMA DetectorsSound ==
  ASSUME NEW scan, NEW seen
  PROVE  /\ \A names \in AnalyzeDuplicates(scan, seen) :
              /\ names \in DuplicateCandidates(scan)
              /\ \E t \in seen : Cardinality(Requests(t)) >= 2
         /\ \A ind \in Indicators(seen) : ind.evidence \in {"Inferred", "Suspected"}
<1>1. ASSUME NEW names \in AnalyzeDuplicates(scan, seen)
      PROVE  /\ names \in DuplicateCandidates(scan)
             /\ \E t \in seen : Cardinality(Requests(t)) >= 2
  <2>1. RuntimeEvidence(seen) # {} /\ names \in DuplicateCandidates(scan)
    BY <1>1 DEF AnalyzeDuplicates
  <2> QED BY <2>1 DEF RuntimeEvidence
<1>2. ASSUME NEW ind \in Indicators(seen) PROVE ind.evidence \in {"Inferred", "Suspected"}
  <2>1. PICK t \in seen : ind \in DetectFirstPartyCollectionEndpoints(t) \cup DetectFanout(t)
    BY <1>2 DEF Indicators
  <2>2. CASE ind \in DetectFirstPartyCollectionEndpoints(t)
    BY <2>2 DEF DetectFirstPartyCollectionEndpoints, Indicator
  <2>3. CASE ind \in DetectFanout(t)
    BY <2>3 DEF DetectFanout, Indicator
  <2> QED BY <2>1, <2>2, <2>3
<1> QED BY <1>1, <1>2

LEMMA DiagnosePageSound ==
  ASSUME TagGraphAssumption, GraphInv, NEW v \in Observations, DiagnosePage(v)
  PROVE  GraphInv'
<1> DEFINE scan == ScanHtml(v.page, v.elements)
<1>1. /\ visits' = Append(visits, v) /\ scans' = Append(scans, scan)
      /\ captured' = captured \cup v.traces
      /\ \A names \in duplicates' : names \in duplicates \/ names \in AnalyzeDuplicates(scan, v.traces)
      /\ \A ind \in indicators' : ind \in indicators \/ ind \in Indicators(v.traces)
  BY DEF DiagnosePage
<1> HIDE DEF scan
<1>2. visits \in Seq(Observations) /\ DOMAIN visits = 1 .. Len(visits) /\ Len(visits) \in Nat
  BY DEF GraphInv, ScansSound
<1>3. /\ visits' \in Seq(Observations) /\ Len(visits') = Len(visits) + 1
      /\ DOMAIN visits' = 1 .. Len(visits) + 1 /\ visits'[Len(visits) + 1] = v
      /\ \A i \in 1 .. Len(visits) : visits'[i] = visits[i]
  BY <1>1, <1>2
<1>4. /\ scans \in Seq({ScanHtml(w.page, w.elements) : w \in Observations})
      /\ Len(scans) = Len(visits) /\ \A i \in 1 .. Len(visits) : scans[i] = ScanHtml(visits[i].page, visits[i].elements)
  <2>1. scans = [i \in 1 .. Len(visits) |-> ScanHtml(visits[i].page, visits[i].elements)]
    BY DEF GraphInv, ScansSound
  <2>2. \A i \in 1 .. Len(visits) : visits[i] \in Observations
    BY <1>2
  <2>3. scans \in [1 .. Len(visits) -> {ScanHtml(w.page, w.elements) : w \in Observations}]
    BY <2>1, <2>2
  <2> QED BY <1>2, <2>1, <2>3
<1>5. /\ Len(scans') = Len(visits) + 1 /\ scans'[Len(visits) + 1] = scan
      /\ \A i \in 1 .. Len(visits) : scans'[i] = scans[i]
      /\ scans' \in Seq({ScanHtml(w.page, w.elements) : w \in Observations})
  <2>1. scan \in {ScanHtml(w.page, w.elements) : w \in Observations}
    BY DEF scan
  <2> QED BY <1>1, <1>2, <1>4, <2>1
<1>6. ScansSound'
  <2>1. \A i \in 1 .. Len(visits) + 1 : scans'[i] = ScanHtml(visits'[i].page, visits'[i].elements)
    <3> TAKE i \in 1 .. Len(visits) + 1
    <3>1. CASE i \in 1 .. Len(visits)
      BY <3>1, <1>3, <1>4, <1>5
    <3>2. CASE i = Len(visits) + 1
      BY <3>2, <1>3, <1>5 DEF scan
    <3> QED BY <1>2, <3>1, <3>2
  <2>2. scans' = [i \in 1 .. Len(visits') |-> ScanHtml(visits'[i].page, visits'[i].elements)]
    BY <1>2, <1>3, <1>5, <2>1
  <2> QED BY <1>3, <2>2 DEF ScansSound
<1>7. TracesTyped'
  BY <1>1 DEF GraphInv, TracesTyped, TagGraphAssumption
<1>8. DuplicatesSeen'
  <2>1. ASSUME NEW names \in duplicates'
        PROVE  \E i \in DOMAIN visits' : /\ names \in DuplicateCandidates(scans'[i])
                                         /\ \E t \in visits'[i].traces : Cardinality(Requests(t)) >= 2
    <3>1. CASE names \in duplicates
      <4>1. PICK i \in DOMAIN visits : /\ names \in DuplicateCandidates(scans[i])
                                       /\ \E t \in visits[i].traces : Cardinality(Requests(t)) >= 2
        BY <3>1 DEF GraphInv, DuplicatesSeen
      <4>2. i \in DOMAIN visits' /\ scans'[i] = scans[i] /\ visits'[i] = visits[i]
        BY <1>2, <1>3, <1>5, <4>1
      <4> QED BY <4>1, <4>2
    <3>2. CASE names \in AnalyzeDuplicates(scan, v.traces)
      <4>1. names \in DuplicateCandidates(scan) /\ \E t \in v.traces : Cardinality(Requests(t)) >= 2
        BY <3>2, DetectorsSound
      <4>2. Len(visits) + 1 \in DOMAIN visits'
        BY <1>2, <1>3
      <4> QED BY <1>3, <1>5, <4>1, <4>2
    <3> QED BY <1>1, <2>1, <3>1, <3>2
  <2> QED BY <2>1 DEF DuplicatesSeen
<1>9. Hedged'
  BY <1>1, DetectorsSound DEF GraphInv, Hedged
<1> QED BY <1>6, <1>7, <1>8, <1>9 DEF GraphInv

\* What the graph is made of.
LEMMA EdgesAre ==
  ASSUME NEW e
  PROVE  e \in GraphEdges <=>
           \/ \E t \in captured : e \in TraceChain(t) \cup EndpointEdges(t)
           \/ \E ind \in indicators : e \in ServerSideEdges(ind, captured)
           \/ \E names \in duplicates : e \in DuplicateEdges(names, scans)
<1> DEFINE A == UNION {TraceChain(t) \cup EndpointEdges(t) : t \in captured}
           B == UNION {ServerSideEdges(ind, captured) : ind \in indicators}
           C == UNION {DuplicateEdges(names, scans) : names \in duplicates}
<1>1. e \in A <=> \E t \in captured : e \in TraceChain(t) \cup EndpointEdges(t)
  OBVIOUS
<1>2. e \in B <=> \E ind \in indicators : e \in ServerSideEdges(ind, captured)
  OBVIOUS
<1>3. e \in C <=> \E names \in duplicates : e \in DuplicateEdges(names, scans)
  OBVIOUS
<1>4. e \in GraphEdges <=> (e \in A \/ e \in B \/ e \in C)
  BY DEF GraphEdges
<1> HIDE DEF A, B, C
<1> QED BY <1>1, <1>2, <1>3, <1>4

LEMMA NodesAre ==
  ASSUME NEW n
  PROVE  n \in GraphNodes <=>
           \/ \E i \in DOMAIN scans : n \in ScanNodes(scans[i])
           \/ \E t \in captured : n \in TraceNodes(t)
           \/ \E e \in GraphEdges : e.why = "relay" /\ n = e.to
<1> DEFINE A == UNION {ScanNodes(scans[i]) : i \in DOMAIN scans}
           B == UNION {TraceNodes(t) : t \in captured}
           C == {e.to : e \in {e \in GraphEdges : e.why = "relay"}}
<1>1. n \in A <=> \E i \in DOMAIN scans : n \in ScanNodes(scans[i])
  OBVIOUS
<1>2. n \in B <=> \E t \in captured : n \in TraceNodes(t)
  OBVIOUS
<1>3. n \in C <=> \E e \in GraphEdges : e.why = "relay" /\ n = e.to
  OBVIOUS
<1>4. n \in GraphNodes <=> (n \in A \/ n \in B \/ n \in C)
  BY DEF GraphNodes
<1> HIDE DEF A, B, C
<1> QED BY <1>1, <1>2, <1>3, <1>4

\* Peers are joined with each other.
LEMMA PeersJoined ==
  ASSUME NEW nodes, NEW evidence, NEW why, NEW e \in Pairwise(nodes, evidence, why)
  PROVE  e.from \in nodes /\ e.to \in nodes /\ e.evidence = evidence /\ e.why = why
BY DEF Pairwise, Edge

\* A node of a scan stands for something that was on that page.
LEMMA ScanNodesNamed ==
  ASSUME ScansSound, NEW i \in DOMAIN visits, NEW n \in ScanNodes(scans[i])
  PROVE  \/ n.kind = "container" /\ n.name \in Containers
         \/ n.kind = "vendor" /\ n.name \in VendorNames
<1>1. visits[i] \in Observations /\ scans[i] = ScanHtml(visits[i].page, visits[i].elements)
  BY DEF ScansSound
<1>2. /\ scans[i].containers = {x.container : x \in {x \in visits[i].elements : x.loaded}} \ {Nil}
      /\ scans[i].vendors = {x.vendor : x \in visits[i].elements} \ {Nil}
  BY <1>1 DEF ScanHtml, DetectGtmContainers, DetectVendors
<1>3. scans[i].containers \subseteq Containers /\ scans[i].vendors \subseteq VendorCode
  BY <1>1, <1>2 DEF Containers, VendorCode
<1>4. CASE n \in {Node("container", c, Nil) : c \in scans[i].containers}
  BY <1>3, <1>4 DEF Node
<1>5. CASE n \in {Node("vendor", c.vendor, c.evidence) : c \in scans[i].vendors}
  BY <1>3, <1>5 DEF Node, VendorNames
<1> QED BY <1>4, <1>5 DEF ScanNodes

\* A name that a finding involves was on the page of the finding, or is a snippet.
LEMMA NamesSeen ==
  ASSUME ScansSound, NEW i \in DOMAIN visits, NEW names \in DuplicateCandidates(scans[i]), NEW name \in names
  PROVE  \/ name \in Containers /\ \E x \in visits[i].elements : x.container = name /\ x.loaded
         \/ name \in VendorNames /\ \E x \in visits[i].elements : x.vendor # Nil /\ x.vendor.vendor = name
         \/ name \in Snippets
<1> DEFINE scan == scans[i]
<1>1. visits[i] \in Observations /\ scan = ScanHtml(visits[i].page, visits[i].elements)
  BY DEF ScansSound
<1>2. /\ scan.containers = {x.container : x \in {x \in visits[i].elements : x.loaded}} \ {Nil}
      /\ scan.vendors = {x.vendor : x \in visits[i].elements} \ {Nil}
  BY <1>1 DEF ScanHtml, DetectGtmContainers, DetectVendors
<1>3. names \in DuplicateCandidates(scan)
  OBVIOUS
<1> HIDE DEF scan
<1>4. ASSUME name \in scan.containers
      PROVE  name \in Containers /\ \E x \in visits[i].elements : x.container = name /\ x.loaded
  BY <1>1, <1>2, <1>4 DEF Containers
<1>5. ASSUME NEW c \in scan.vendors
      PROVE  c \in VendorCode /\ \E x \in visits[i].elements : x.vendor # Nil /\ x.vendor = c
  BY <1>1, <1>2, <1>5 DEF VendorCode
<1>6. CASE names \in {c \in {scan.containers} : Cardinality(c) > 1}
  BY <1>4, <1>6
<1>7. CASE names \in {scan.containers \cup {c.vendor} :
                        c \in {c \in scan.vendors : scan.containers # {} /\ c.category = "analytics"}}
  <2>1. PICK c \in scan.vendors : names = scan.containers \cup {c.vendor}
    BY <1>7
  <2>2. CASE name = c.vendor
    BY <1>5, <2>2 DEF VendorNames
  <2> QED BY <1>4, <2>1, <2>2
<1>8. ASSUME NEW n, names = {c.evidence : c \in {c \in scan.vendors : c.vendor = n}}
      PROVE  name \in Snippets
  BY <1>5, <1>8 DEF Snippets
<1> QED BY <1>3, <1>6, <1>7, <1>8 DEF DuplicateCandidates

\* The first node with a label is a node with that label.
LEMMA NodesFound ==
  ASSUME ScansSound, NEW name, NEW n \in FindNode(scans, name)
  PROVE  n.name = name /\ \E k \in DOMAIN visits : n \in ScanNodes(scans[k])
<1> DEFINE with == {k \in DOMAIN scans : \E m \in ScanNodes(scans[k]) : m.name = name}
<1>1. DOMAIN scans = DOMAIN visits /\ DOMAIN scans \subseteq Nat
  BY DEF ScansSound
<1>2. with # {} /\ n = CHOOSE m \in ScanNodes(scans[Min(with)]) : m.name = name
  BY DEF FindNode
<1>3. with \subseteq Nat
  BY <1>1
<1>4. Min(with) \in with
  <2> HIDE DEF with
  <2>1. PICK k \in with : \A j \in with : ~(<<j, k>> \in OpToRel(<, Nat))
    BY <1>2, <1>3, WFMin, NatLessThanWellFounded
  <2>2. k \in Nat /\ \A j \in with : j \in Nat /\ ~(j < k)
    BY <1>3, <2>1 DEF OpToRel
  <2>3. \A j \in with : k <= j
    BY <2>2
  <2> QED BY <2>3 DEF Min
<1>5. \E m \in ScanNodes(scans[Min(with)]) : m.name = name
  BY <1>4
<1> HIDE DEF with
<1>6. n \in ScanNodes(scans[Min(with)]) /\ n.name = name
  BY <1>2, <1>5
<1>7. Min(with) \in DOMAIN visits
  BY <1>1, <1>4 DEF with
<1> QED BY <1>6, <1>7

\* An edge between implementations joins two that a page of the finding has.
LEMMA DuplicateEdgesSound ==
  ASSUME TagGraphAssumption, GraphInv, NEW names \in duplicates, NEW e \in DuplicateEdges(names, scans)
  PROVE  /\ e.from \in GraphNodes /\ e.to \in GraphNodes
         /\ e.from.kind \in {"container", "vendor"} /\ e.why = "duplicate"
         /\ \E i \in DOMAIN visits : SeenTwice(visits[i], e)
<1>1. ScansSound
  BY DEF GraphInv
<1>2. PICK i \in DOMAIN visits : /\ names \in DuplicateCandidates(scans[i])
                                 /\ \E t \in visits[i].traces : Cardinality(Requests(t)) >= 2
  BY DEF GraphInv, DuplicatesSeen
<1>3. /\ e.from \in UNION {FindNode(scans, name) : name \in names}
      /\ e.to \in UNION {FindNode(scans, name) : name \in names}
      /\ e.why = "duplicate"
  BY PeersJoined DEF DuplicateEdges
<1>4. ASSUME NEW n \in {e.from, e.to}
      PROVE  /\ n \in GraphNodes /\ n.kind \in {"container", "vendor"}
             /\ \E x \in visits[i].elements : Implements(x, n)
  <2>1. PICK name \in names : n \in FindNode(scans, name)
    BY <1>3
  <2>2. PICK k \in DOMAIN visits : n \in ScanNodes(scans[k]) /\ n.name = name
    BY <1>1, <2>1, NodesFound
  <2>3. \/ n.kind = "container" /\ n.name \in Containers
        \/ n.kind = "vendor" /\ n.name \in VendorNames
    BY <1>1, <2>2, ScanNodesNamed
  <2>4. \/ name \in Containers /\ \E x \in visits[i].elements : x.container = name /\ x.loaded
        \/ name \in VendorNames /\ \E x \in visits[i].elements : x.vendor # Nil /\ x.vendor.vendor = name
        \/ name \in Snippets
    BY <1>1, <1>2, NamesSeen
  <2>5. Containers \cap VendorNames = {} /\ Snippets \cap (Containers \cup VendorNames) = {}
    BY DEF TagGraphAssumption, VendorNames, Snippets
  <2>6. \E x \in visits[i].elements : Implements(x, n)
    BY <2>2, <2>3, <2>4, <2>5 DEF Implements
  <2>7. k \in DOMAIN scans
    BY <1>1 DEF ScansSound
  <2>8. n \in GraphNodes
    BY <2>2, <2>7, NodesAre
  <2> QED BY <2>3, <2>6, <2>8
<1>5. SeenTwice(visits[i], e)
  BY <1>2, <1>4 DEF SeenTwice
<1> QED BY <1>3, <1>4, <1>5

\* Where an edge comes from says what it joins and what it may claim.
EdgeSound(e) ==
  /\ e.from \in GraphNodes /\ e.to \in GraphNodes
  /\ e.from.kind = "endpoint" => e.evidence # "Observed"
  /\ e.why = "duplicate" => \E i \in DOMAIN visits : SeenTwice(visits[i], e)
  /\ e.why = "relay" => e.from.kind = "endpoint" /\ e.to.kind = "relay"

LEMMA TraceEdgesSound ==
  ASSUME TracesTyped, NEW t \in captured, NEW e \in TraceChain(t) \cup EndpointEdges(t)
  PROVE  EdgeSound(e)
<1>1. t.steps \in Seq(DOMAIN Site \cup {Nil})
  BY DEF TracesTyped
<1>2. TraceNodes(t) \subseteq GraphNodes
  BY NodesAre
<1>3. CASE e \in TraceChain(t)
  <2>1. PICK i \in 1 .. Len(t.steps) - 1 : e = Edge(StepNode(t, i), StepNode(t, i + 1), "Observed", "next")
    BY <1>3 DEF TraceChain
  <2>2. i \in DOMAIN t.steps /\ i + 1 \in DOMAIN t.steps
    BY <1>1
  <2>3. StepNode(t, i) \in GraphNodes /\ StepNode(t, i + 1) \in GraphNodes
    BY <1>2, <2>2 DEF TraceNodes
  <2>4. StepNode(t, i).kind = "step"
    BY DEF StepNode, Node
  <2> QED BY <2>1, <2>3, <2>4 DEF EdgeSound, Edge
<1>4. CASE e \in EndpointEdges(t)
  <2>1. PICK i \in Requests(t) : e = Edge(StepNode(t, i), Endpoint(t.steps[i]), "Observed", "sent")
    BY <1>4 DEF EndpointEdges
  <2>2. StepNode(t, i) \in GraphNodes /\ Endpoint(t.steps[i]) \in GraphNodes
    BY <1>2 DEF TraceNodes, Requests, Hosts
  <2>3. StepNode(t, i).kind = "step"
    BY DEF StepNode, Node
  <2> QED BY <2>1, <2>2, <2>3 DEF EdgeSound, Edge
<1> QED BY <1>3, <1>4

LEMMA ServerSideEdgesSound ==
  ASSUME Hedged, NEW ind \in indicators, NEW e \in ServerSideEdges(ind, captured)
  PROVE  EdgeSound(e)
<1> DEFINE seen == ind.hosts \cap UNION {Hosts(t) : t \in {t \in captured : t.page = ind.page}}
<1>1. ASSUME NEW h \in seen PROVE Endpoint(h) \in GraphNodes /\ Endpoint(h).kind = "endpoint"
  <2>1. PICK t \in captured : h \in Hosts(t)
    BY <1>1
  <2>2. Endpoint(h) \in GraphNodes
    BY <2>1, NodesAre DEF TraceNodes
  <2> QED BY <2>2 DEF Endpoint, Node
<1>2. ind.evidence # "Observed"
  BY DEF Hedged
<1>3. CASE ind.kind = "relay"
  <2>1. PICK h \in seen : e = Edge(Endpoint(h), Relay(ind), ind.evidence, "relay")
    BY <1>3 DEF ServerSideEdges
  <2>2. e.from = Endpoint(h) /\ e.to = Relay(ind) /\ e.evidence = ind.evidence /\ e.why = "relay"
    BY <2>1 DEF Edge
  <2>3. e \in GraphEdges
    BY EdgesAre
  <2>4. e.to \in GraphNodes
    BY <2>2, <2>3, NodesAre
  <2>5. e.to.kind = "relay"
    BY <2>2 DEF Relay, Node
  <2> QED BY <1>1, <1>2, <2>2, <2>4, <2>5 DEF EdgeSound
<1>4. CASE ind.kind # "relay"
  <2>1. e \in Pairwise({Endpoint(h) : h \in seen}, ind.evidence, "fanout")
    BY <1>4 DEF ServerSideEdges
  <2>2. /\ e.from \in {Endpoint(h) : h \in seen} /\ e.to \in {Endpoint(h) : h \in seen}
        /\ e.evidence = ind.evidence /\ e.why = "fanout"
    BY <2>1, PeersJoined
  <2> QED BY <1>1, <1>2, <2>2 DEF EdgeSound
<1> QED BY <1>3, <1>4

LEMMA EdgesSound == ASSUME TagGraphAssumption, GraphInv, NEW e \in GraphEdges PROVE EdgeSound(e)
<1>1. ASSUME NEW t \in captured, e \in TraceChain(t) \cup EndpointEdges(t) PROVE EdgeSound(e)
  BY <1>1, TraceEdgesSound DEF GraphInv
<1>2. ASSUME NEW ind \in indicators, e \in ServerSideEdges(ind, captured) PROVE EdgeSound(e)
  BY <1>2, ServerSideEdgesSound DEF GraphInv
<1>3. ASSUME NEW names \in duplicates, e \in DuplicateEdges(names, scans) PROVE EdgeSound(e)
  BY <1>3, DuplicateEdgesSound DEF EdgeSound
<1> QED BY <1>1, <1>2, <1>3, EdgesAre

\* An endpoint is a host a request of a step went to, a relay is concluded from one.
LEMMA NodesFollow ==
  ASSUME TagGraphAssumption, GraphInv, NEW n \in GraphNodes, n.kind \in {"endpoint", "relay"}
  PROVE  \E e \in GraphEdges : e.to = n /\ e.from.kind \in {"step", "endpoint"}
<1>1. ASSUME NEW i \in DOMAIN scans, n \in ScanNodes(scans[i]) PROVE FALSE
  BY <1>1 DEF ScanNodes, Node
<1>2. ASSUME NEW t \in captured, n \in TraceNodes(t)
      PROVE  \E e \in GraphEdges : e.to = n /\ e.from.kind \in {"step", "endpoint"}
  <2>1. ASSUME NEW i, n = StepNode(t, i) PROVE FALSE
    BY <2>1 DEF StepNode, Node
  <2>2. PICK i \in Requests(t) : n = Endpoint(t.steps[i])
    BY <1>2, <2>1 DEF TraceNodes, Hosts
  <2> DEFINE e == Edge(StepNode(t, i), Endpoint(t.steps[i]), "Observed", "sent")
  <2>3. e \in EndpointEdges(t)
    BY DEF EndpointEdges
  <2>5. e \in GraphEdges
    BY <2>3, EdgesAre
  <2>4. e.to = n /\ e.from.kind = "step"
    BY <2>2 DEF Edge, StepNode, Node
  <2> QED BY <2>5, <2>4
<1>3. ASSUME NEW e \in GraphEdges, e.why = "relay", n = e.to
      PROVE  e.from.kind \in {"step", "endpoint"}
  BY <1>3, EdgesSound DEF EdgeSound
<1>4. \/ \E i \in DOMAIN scans : n \in ScanNodes(scans[i])
      \/ \E t \in captured : n \in TraceNodes(t)
      \/ \E e \in GraphEdges : e.why = "relay" /\ n = e.to
  BY NodesAre
<1> QED BY <1>1, <1>2, <1>3, <1>4

\* Whatever pages and sessions show, and although names are looked up among all pages:
\* the graph calls observed only what was, and each of its edges joins two of its nodes.
THEOREM EvidenceNeverOverstatedHolds ==
  ASSUME TagGraphAssumption
  PROVE  GraphSpec => []EvidenceNeverOverstated
<1>1. GraphInit => GraphInv
  BY GraphInitSound
<1>2. GraphInv /\ [GraphNext]_graphVars => GraphInv'
  <2> SUFFICES ASSUME GraphInv, [GraphNext]_graphVars PROVE GraphInv'
    OBVIOUS
  <2>1. CASE GraphNext
    BY <2>1, DiagnosePageSound DEF GraphNext
  <2>2. CASE UNCHANGED graphVars
    BY <2>2 DEF graphVars, GraphInv, ScansSound, TracesTyped, DuplicatesSeen, Hedged
  <2> QED BY <2>1, <2>2
<1>3. GraphInv => EvidenceNeverOverstated
  BY EdgesSound, NodesFollow DEF EdgeSound, EvidenceNeverOverstated
<1> QED BY <1>1, <1>2, <1>3, PTL DEF GraphSpec
=============================================================================
