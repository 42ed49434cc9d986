------------------------- MODULE ControlPlaneProofs -------------------------
(***************************************************************************)
(* Proofs about ControlPlane, for every set of clients, containers,        *)
(* versions, payloads and environment names and every bound.               *)
(*                                                                         *)
(* Neither TypeOK nor AuditNumbered is inductive.  The number of a new     *)
(* revision or event is one past the largest on disk, so the largest must  *)
(* exist; and an event is numbered when the directory is listed but        *)
(* written two steps later, so nobody else may append in between, which    *)
(* is what the store lock is for (LockHeld).                               *)
(***************************************************************************)
EXTENDS ControlPlane, FiniteSetTheorems, WellFoundedInduction, TLAPS

\* list_revisions has a last element, and has one still when a removal takes some
\* of the files away.
RevisionsBounded ==
  \A c \in Containers : \A R \in SUBSET revisions[c] : R # {} =>
    \E r \in R : \A s \in R : s.number <= r.number

\* A client in the middle of an operation holds the lock.
LockHeld == \A p \in Clients : job[p] # Idle => holder = p

\* An operation writes at most one event.
OneEvent == \A p \in Clients : job[p] # Idle => \A x, y \in job[p].events : x = y

\* The number an operation has given its event is still the next one.
NumberCurrent ==
  \A p \in Clients, c \in Containers :
    job[p] # Idle /\ job[p].container = c /\ job[p].events # {} /\ job[p].written # {} =>
      job[p].written = {[seq |-> LastSeq(c) + 1, event |-> e] : e \in job[p].events}

\* An operation with an event works on a container that is there, and an import, or
\* the removal of what it wrote, on one that has no log.
LogNeedsContainer(j) ==
  /\ j.events # {} => ~j.create /\ j.container \in containers
  /\ j.docs # {} \/ j.removing =>
       j.events = {} /\ j.written = {} /\ audit[j.container] = {}

\* Only a container that is there has a log: no removal takes an event away.
LogsCreated ==
  /\ \A c \in Containers \ containers : audit[c] = {}
  /\ \A p \in Clients : job[p] # Idle => LogNeedsContainer(job[p])

\* Only a revision or a numbered event is being filled.
FillsOneFile(j) ==
  j.writing => NextWrite(j) = "revision" \/ (NextWrite(j) = "audit" /\ j.written # {})

OneFile == \A p \in Clients : job[p] # Idle => FillsOneFile(job[p])

AuditInv ==
  /\ TypeOK
  /\ RevisionsBounded
  /\ LockHeld
  /\ OneEvent
  /\ OneFile
  /\ NumberCurrent
  /\ LogsCreated
  /\ AuditNumbered

\* A job that has not begun to write, with at most one event.
NewJob ==
  {j \in Job : /\ j.written = {} /\ ~j.removing /\ ~j.writing
               /\ \A x, y \in j.events : x = y
               /\ j.events # {} => j.docs = {} /\ ~j.create /\ j.container \in containers
               /\ j.docs # {} => j.container \notin containers}

-----------------------------------------------------------------------------
(* The writes an operation starts with *)

\* container.json to write: create_container.
LEMMA ContainerJob ==
  ASSUME NEW c \in Containers
  PROVE  [NoWrites(c) EXCEPT !.create = TRUE] \in NewJob
BY DEF NoWrites, Job, NewJob

\* A revision and its event to write: create_revision.
LEMMA RevisionJob ==
  ASSUME NEW c \in Containers, c \in containers, NEW r \in Revision, NEW e \in Event
  PROVE  [NoWrites(c) EXCEPT !.revs = {r}, !.events = {e}] \in NewJob
BY DEF NoWrites, Job, NewJob

\* An environment and its event to write: creation and switches.
LEMMA EnvironmentJob ==
  ASSUME NEW c \in Containers, c \in containers, NEW n \in EnvNames,
         NEW env \in Environment, NEW e \in Event
  PROVE  [NoWrites(c) EXCEPT !.envs = {<<n, env>>}, !.events = {e}] \in NewJob
<1>1. {<<n, env>>} \in SUBSET (EnvNames \X Environment) OBVIOUS
<1>2. \A V \in SUBSET (EnvNames \X Environment) :
        [NoWrites(c) EXCEPT !.envs = V, !.events = {e}] \in NewJob
  BY DEF NoWrites, Job, NewJob
<1> QED BY <1>1, <1>2

\* Only an event to write: a refused switch.
LEMMA EventJob ==
  ASSUME NEW c \in Containers, c \in containers, NEW e \in Event
  PROVE  [NoWrites(c) EXCEPT !.events = {e}] \in NewJob
BY DEF NoWrites, Job, NewJob

\* A whole container to write: import_container and clone_container.
LEMMA ImportJob ==
  ASSUME NEW c \in Containers, c \notin containers, NEW R \in SUBSET Revision,
         NEW V \in SUBSET (EnvNames \X Environment), NEW d \in Document
  PROVE  [NoWrites(c) EXCEPT !.create = TRUE, !.revs = R, !.envs = V, !.docs = {d}] \in NewJob
BY DEF NoWrites, Job, NewJob

\* MkEvent builds events.
LEMMA MkEventTyped ==
  ASSUME NEW a \in Action, NEW r \in Result, NEW e \in OptEnvName,
         NEW v \in OptVersion, NEW prev \in OptVersion
  PROVE  MkEvent(a, r, e, v, prev) \in Event
BY DEF MkEvent, Event

\* The version a client reads as latest, and the number it adds one to.
LEMMA LatestTyped ==
  ASSUME TypeOK, RevisionsBounded, NEW c \in Containers
  PROVE  LatestNumber(c) \in Nat /\ LatestVersion(c) \in OptVersion
<1>1. CASE revisions[c] = {}
  BY <1>1 DEF LatestNumber, LatestVersion, OptVersion
<1>2. CASE revisions[c] # {}
  <2>1. Latest(revisions[c]) \in revisions[c] BY <1>2 DEF RevisionsBounded, Latest
  <2>2. Latest(revisions[c]) \in Revision BY <2>1 DEF TypeOK
  <2> QED BY <1>2, <2>2 DEF LatestNumber, LatestVersion, OptVersion, Revision
<1> QED BY <1>1, <1>2

\* LastSeq is the length of an audit log numbered without a gap.
LEMMA LastSeqIsLength ==
  ASSUME TypeOK, AuditNumbered, NEW c \in Containers
  PROVE  LastSeq(c) \in Nat /\ {a.seq : a \in audit[c]} = 1 .. LastSeq(c)
<1> DEFINE N == {a.seq : a \in audit[c]}
           top == CHOOSE a \in audit[c] : \A b \in audit[c] : b.seq <= a.seq
<1>1. \A a \in audit[c] : a.seq \in Nat BY DEF TypeOK, AuditEvent
<1>2. PICK n \in N \cup {0} : N = 1 .. n BY DEF AuditNumbered, Contiguous
<1>3. n \in Nat BY <1>1, <1>2
<1>4. CASE audit[c] = {}
  BY <1>4 DEF LastSeq
<1>5. CASE audit[c] # {}
  <2>1. n \in N
    <3>1. PICK a \in audit[c] : TRUE BY <1>5
    <3>2. a.seq \in 1 .. n BY <1>2, <3>1
    <3> QED BY <1>2, <1>3, <3>2
  <2>2. PICK a \in audit[c] : a.seq = n BY <2>1
  <2>3. \A b \in audit[c] : b.seq \in 1 .. n BY <1>2
  <2>4. \A b \in audit[c] : b.seq <= a.seq BY <1>3, <2>2, <2>3
  <2>5. top \in audit[c] /\ \A b \in audit[c] : b.seq <= top.seq BY <2>2, <2>4
  <2>6. top.seq \in 1 .. n /\ n <= top.seq BY <2>2, <2>3, <2>5
  <2>7. top.seq = n BY <1>3, <2>6
  <2> QED BY <1>2, <1>3, <1>5, <2>7 DEF LastSeq
<1> QED BY <1>4, <1>5

-----------------------------------------------------------------------------
(* Operations: checks under the lock, nothing written yet *)

\* An operation that takes the lock with a new job to do keeps the invariant: nobody
\* else is in the middle of one.
LEMMA StartPreserves ==
  ASSUME AuditInv, NEW p \in Clients, NEW j \in NewJob, Start(p, j),
         UNCHANGED <<store, exports, bounds, ghosts>>, used' \subseteq Versions
  PROVE  AuditInv'
<1>1. /\ job' = [job EXCEPT ![p] = j] /\ holder' = p /\ holder = Free
      /\ containers' = containers /\ revisions' = revisions /\ audit' = audit
  BY DEF Start, AcquireLock, store
<1>2. /\ job'[p] = j /\ j \in Job
      /\ \A q \in Clients : q # p => job'[q] = job[q]
  BY <1>1 DEF AuditInv, TypeOK, NewJob
<1>3. \A q \in Clients : job[q] = Idle
  BY <1>1, ConstantsAssumption DEF AuditInv, LockHeld
<1>4. TypeOK'
  <2>1. job' \in [Clients -> Job \cup {Idle}] BY <1>1, <1>2 DEF AuditInv, TypeOK
  <2> QED BY <1>1, <2>1 DEF AuditInv, TypeOK, store, bounds, ghosts
<1>5. RevisionsBounded' BY <1>1 DEF AuditInv, RevisionsBounded
<1>6. LockHeld' BY <1>1, <1>2, <1>3 DEF LockHeld
<1>7. OneEvent' BY <1>2, <1>3 DEF OneEvent, NewJob
<1>8. NumberCurrent' BY <1>2, <1>3 DEF NumberCurrent, NewJob
<1>9. AuditNumbered' BY <1>1 DEF AuditInv, AuditNumbered
<1>10. LogsCreated'
  <2>1. LogNeedsContainer(j)'
    BY <1>1, <1>2 DEF NewJob, Job, LogNeedsContainer, AuditInv, LogsCreated
  <2> QED BY <1>1, <1>2, <1>3, <2>1 DEF AuditInv, LogsCreated
<1>11. OneFile' BY <1>2, <1>3 DEF OneFile, FillsOneFile, NewJob
<1> QED BY <1>4, <1>5, <1>6, <1>7, <1>8, <1>9, <1>10, <1>11 DEF AuditInv

\* create_container starts with container.json to write, and no event.
LEMMA CreateContainerPreserves ==
  ASSUME AuditInv, NEW p \in Clients, NEW c \in Containers, CreateContainer(p, c)
  PROVE  AuditInv'
BY ContainerJob, StartPreserves DEF CreateContainer, AuditInv, TypeOK

\* create_revision starts with a revision inside the version bound.
LEMMA CreateRevisionPreserves ==
  ASSUME AuditInv, NEW p \in Clients, NEW c \in Containers, NEW v \in Versions,
         NEW payload \in Payloads, NEW expected \in OptVersion,
         CreateRevision(p, c, v, payload, expected)
  PROVE  AuditInv'
<1> DEFINE r == [version |-> v, number |-> LatestNumber(c) + 1,
                 parent |-> LatestVersion(c), payload |-> payload]
           e == MkEvent("revision.created", "succeeded", NoEnv, v, r.parent)
           j == [NoWrites(c) EXCEPT !.revs = {r}, !.events = {e}]
<1>1. LatestNumber(c) \in Nat /\ LatestVersion(c) \in OptVersion
  BY LatestTyped DEF AuditInv
<1>2. r \in Revision BY <1>1 DEF Revision
<1>3. e \in Event
  BY <1>1, MkEventTyped DEF Action, Result, OptEnvName, OptVersion
<1>4. j \in NewJob
  <2>1. c \in containers BY DEF CreateRevision
  <2> HIDE DEF r, e
  <2> QED BY <1>2, <1>3, <2>1, RevisionJob
<1>5. Start(p, j) /\ UNCHANGED <<store, exports, bounds, ghosts>> /\ used' \subseteq Versions
  BY DEF CreateRevision, AuditInv, TypeOK
<1> QED
  <2> HIDE DEF j
  <2> QED BY <1>4, <1>5, StartPreserves

\* create_environment starts with an environment inside its type.
LEMMA CreateEnvironmentPreserves ==
  ASSUME AuditInv, NEW p \in Clients, NEW c \in Containers, NEW e \in EnvNames,
         NEW protected \in BOOLEAN, CreateEnvironment(p, c, e, protected)
  PROVE  AuditInv'
<1> DEFINE env == [protected |-> protected, current |-> NoVersion, previous |-> NoVersion]
           x == MkEvent("environment.created", "succeeded", e, NoVersion, NoVersion)
           j == [NoWrites(c) EXCEPT !.envs = {<<e, env>>}, !.events = {x}]
<1>1. env \in Environment BY DEF Environment, OptVersion
<1>2. x \in Event
  BY MkEventTyped DEF Action, Result, OptEnvName, OptVersion
<1>3. j \in NewJob
  <2>1. c \in containers BY DEF CreateEnvironment
  <2> HIDE DEF env, x
  <2> QED BY <1>1, <1>2, <2>1, EnvironmentJob
<1>4. Start(p, j) /\ UNCHANGED <<store, exports, bounds, ghosts>> /\ used' \subseteq Versions
  BY DEF CreateEnvironment, AuditInv, TypeOK
<1> QED
  <2> HIDE DEF j
  <2> QED BY <1>3, <1>4, StartPreserves

\* Both halves of a switch: refused, with an event only, or done.
LEMMA RefuseStarts ==
  ASSUME TypeOK, NEW p \in Clients, NEW c \in Containers, c \in containers,
         NEW e \in EnvNames, NEW action \in Action, NEW reason \in Result, NEW target \in OptVersion,
         environments[c][e] # NoEnv, Refuse(p, c, e, action, reason, target)
  PROVE  \E j \in NewJob : Start(p, j)
<1> DEFINE x == MkEvent(action, reason, e, target, environments[c][e].current)
<1>1. environments[c][e].current \in OptVersion
  BY DEF TypeOK, Environment
<1>2. x \in Event BY <1>1, MkEventTyped DEF OptEnvName
<1>3. Start(p, [NoWrites(c) EXCEPT !.events = {x}]) BY DEF Refuse
<1> HIDE DEF x
<1> QED BY <1>2, <1>3, EventJob

\* A switch that goes ahead starts with the environment and one event to write.
LEMMA SwitchStarts ==
  ASSUME TypeOK, NEW p \in Clients, NEW c \in Containers, c \in containers,
         NEW e \in EnvNames, NEW action \in Action, NEW target \in OptVersion,
         environments[c][e] # NoEnv, SwitchTo(p, c, e, action, target)
  PROVE  \E j \in NewJob : Start(p, j)
<1> DEFINE old == environments[c][e]
           env == [old EXCEPT !.current = target, !.previous = old.current]
           x == MkEvent(action, "succeeded", e, target, old.current)
<1>1. old \in Environment BY DEF TypeOK
<1>2. env \in Environment BY <1>1 DEF Environment
<1>3. x \in Event
  BY <1>1, MkEventTyped DEF OptEnvName, Environment, Result
<1>4. Start(p, [NoWrites(c) EXCEPT !.envs = {<<e, env>>}, !.events = {x}]) BY DEF SwitchTo
<1> HIDE DEF x, env
<1> QED BY <1>2, <1>3, <1>4, EnvironmentJob

\* Refused or not, a switch starts a well-typed operation.
LEMMA GuardedSwitchStarts ==
  ASSUME TypeOK, NEW p \in Clients, NEW c \in Containers, c \in containers,
         NEW e \in EnvNames, NEW action \in Action, NEW target \in OptVersion, NEW expected \in OptVersion,
         NEW allow \in BOOLEAN, environments[c][e] # NoEnv,
         GuardedSwitch(p, c, e, action, target, expected, allow)
  PROVE  \E j \in NewJob : Start(p, j)
<1>1. \/ \E reason \in Result : Refuse(p, c, e, action, reason, target)
      \/ SwitchTo(p, c, e, action, target)
  BY DEF GuardedSwitch, Result
<1> QED BY <1>1, RefuseStarts, SwitchStarts

\* activate_environment is a guarded switch to a revision of the container.
LEMMA ActivatePreserves ==
  ASSUME AuditInv, NEW p \in Clients, NEW c \in Containers, NEW e \in EnvNames,
         NEW target \in Versions, NEW expected \in OptVersion, NEW allow \in BOOLEAN,
         ActivateEnvironment(p, c, e, target, expected, allow)
  PROVE  AuditInv'
<1>1. \E j \in NewJob : Start(p, j)
  BY GuardedSwitchStarts DEF ActivateEnvironment, AuditInv, Action, OptVersion
<1> QED BY <1>1, StartPreserves DEF ActivateEnvironment, AuditInv, TypeOK

\* rollback_environment is a guarded switch to an earlier revision.
LEMMA RollbackPreserves ==
  ASSUME AuditInv, NEW p \in Clients, NEW c \in Containers, NEW e \in EnvNames,
         NEW expected \in OptVersion, NEW allow \in BOOLEAN,
         RollbackEnvironment(p, c, e, expected, allow)
  PROVE  AuditInv'
<1> DEFINE target == environments[c][e].previous
<1>1. c \in containers /\ environments[c][e] # NoEnv /\ target \in OptVersion
  BY DEF RollbackEnvironment, AuditInv, TypeOK, Environment
<1>2. \/ Refuse(p, c, e, "environment.rolled_back", "no_previous_revision", NoVersion)
      \/ GuardedSwitch(p, c, e, "environment.rolled_back", target, expected, allow)
  BY DEF RollbackEnvironment
<1>3. \E j \in NewJob : Start(p, j)
  <2> HIDE DEF target
  <2> QED BY <1>1, <1>2, RefuseStarts, GuardedSwitchStarts
          DEF AuditInv, Action, Result, OptVersion
<1> QED BY <1>3, StartPreserves DEF RollbackEnvironment, AuditInv, TypeOK

\* A step that leaves revisions, audit, the lock and the jobs alone.
LEMMA IdleStepPreserves ==
  ASSUME AuditInv, TypeOK', containers' = containers, revisions' = revisions,
         audit' = audit, holder' = holder, job' = job
  PROVE  AuditInv'
<1>1. RevisionsBounded' BY DEF AuditInv, RevisionsBounded
<1>2. LockHeld' /\ OneEvent' BY DEF AuditInv, LockHeld, OneEvent
<1>3. \A c \in Containers : LastSeq(c)' = LastSeq(c) BY DEF LastSeq
<1>4. NumberCurrent' BY <1>3 DEF AuditInv, NumberCurrent
<1>5. AuditNumbered' BY DEF AuditInv, AuditNumbered
<1>6. LogsCreated' BY DEF AuditInv, LogsCreated, LogNeedsContainer
<1>7. OneFile' BY DEF AuditInv, OneFile
<1> QED BY <1>1, <1>2, <1>4, <1>5, <1>6, <1>7 DEF AuditInv

\* export_container only adds a document.
LEMMA ExportPreserves ==
  ASSUME AuditInv, NEW p \in Clients, NEW c \in Containers, ExportContainer(p, c)
  PROVE  AuditInv'
<1>1. [source |-> c, revs |-> revisions[c], envs |-> environments[c]] \in Document
  BY DEF AuditInv, TypeOK, Document
<1>2. exports' \subseteq Document
  BY <1>1 DEF ExportContainer, AuditInv, TypeOK
<1>3. UNCHANGED <<store, used, holder, job, bounds, ghosts>>
  BY DEF ExportContainer
<1>4. TypeOK' BY <1>2, <1>3 DEF AuditInv, TypeOK, store, bounds, ghosts
<1> QED BY <1>3, <1>4, IdleStepPreserves DEF store

\* What a document says of its environments is a set of environment files.
LEMMA EnvDocsTyped ==
  ASSUME NEW d \in Document
  PROVE  EnvDocs(d.envs) \in SUBSET (EnvNames \X Environment)
BY DEF Document, EnvDocs

\* import_container under the exported id starts with the document's own history.
LEMMA ImportSamePreserves ==
  ASSUME AuditInv, NEW p \in Clients, NEW d \in exports, ImportSame(p, d)
  PROVE  AuditInv'
<1>1. d \in Document /\ d.source \in Containers /\ d.revs \in SUBSET Revision
  BY DEF AuditInv, TypeOK, Document
<1>2. CASE /\ imports' = imports \cup {[container |-> d.source, doc |-> d]}
           /\ UNCHANGED <<store, used, exports, holder, job, bounds, acked, unaudited, half>>
  <2>1. imports' \subseteq [container : Containers, doc : Document]
    BY <1>1, <1>2 DEF AuditInv, TypeOK
  <2>2. TypeOK' BY <1>2, <2>1 DEF AuditInv, TypeOK, store, bounds
  <2> QED BY <1>2, <2>2, IdleStepPreserves DEF store
<1>3. CASE /\ d.source \notin containers
           /\ Start(p, [NoWrites(d.source) EXCEPT !.create = TRUE, !.revs = d.revs,
                          !.envs = EnvDocs(d.envs), !.docs = {d}])
           /\ UNCHANGED <<store, used, exports, bounds, ghosts>>
  <2>1. [NoWrites(d.source) EXCEPT !.create = TRUE, !.revs = d.revs,
           !.envs = EnvDocs(d.envs), !.docs = {d}] \in NewJob
    BY <1>1, <1>3, EnvDocsTyped, ImportJob
  <2> QED BY <1>3, <2>1, StartPreserves DEF AuditInv, TypeOK
<1> QED BY <1>2, <1>3 DEF ImportSame

\* A document that parses is remapped to revisions and environments of the new
\* container: every version it mentions has an image.
LEMMA RemapTyped ==
  ASSUME NEW d \in Document, Parses(d),
         NEW f \in [VersionsOf(d.revs) -> Versions \ used]
  PROVE  /\ RemapRevisions(d.revs, f) \in SUBSET Revision
         /\ RemapEnvs(d.envs, f) \in SUBSET (EnvNames \X Environment)
<1>1. \A v \in VersionsOf(d.revs) \cup {NoVersion} : RemapVersion(f, v) \in OptVersion
  BY DEF RemapVersion, OptVersion
<1>2. ASSUME NEW r \in d.revs
      PROVE  [r EXCEPT !.version = f[r.version], !.parent = RemapVersion(f, r.parent)] \in Revision
  <2>1. r \in Revision BY DEF Document
  <2>2. f[r.version] \in Versions BY DEF VersionsOf
  <2>3. RemapVersion(f, r.parent) \in OptVersion BY <1>1 DEF Parses
  <2> QED BY <2>1, <2>2, <2>3 DEF Revision
<1>3. ASSUME NEW n \in EnvNames, d.envs[n] # NoEnv
      PROVE  [d.envs[n] EXCEPT !.current = RemapVersion(f, d.envs[n].current),
                !.previous = RemapVersion(f, d.envs[n].previous)] \in Environment
  <2>1. d.envs[n] \in Environment BY <1>3 DEF Document
  <2>2. /\ RemapVersion(f, d.envs[n].current) \in OptVersion
        /\ RemapVersion(f, d.envs[n].previous) \in OptVersion
    BY <1>1, <1>3 DEF Parses
  <2> QED BY <2>1, <2>2 DEF Environment
<1>4. RemapRevisions(d.revs, f) \in SUBSET Revision
  BY <1>2 DEF RemapRevisions
<1>5. RemapEnvs(d.envs, f) \in SUBSET (EnvNames \X Environment)
  <2> SUFFICES ASSUME NEW x \in RemapEnvs(d.envs, f) PROVE x \in EnvNames \X Environment
    OBVIOUS
  <2>1. PICK n \in EnvNames :
          /\ d.envs[n] # NoEnv
          /\ x = <<n, [d.envs[n] EXCEPT !.current = RemapVersion(f, d.envs[n].current),
                         !.previous = RemapVersion(f, d.envs[n].previous)]>>
    BY DEF RemapEnvs
  <2> QED BY <1>3, <2>1
<1> QED BY <1>4, <1>5

\* import_container under another id starts with the remapped history.
LEMMA ImportAsPreserves ==
  ASSUME AuditInv, NEW p \in Clients, NEW c \in Containers, NEW d \in exports,
         NEW f \in [VersionsOf(d.revs) -> Versions \ used], ImportAs(p, d, c, f)
  PROVE  AuditInv'
<1>1. d \in Document BY DEF AuditInv, TypeOK
<1>2. /\ RemapRevisions(d.revs, f) \in SUBSET Revision
      /\ RemapEnvs(d.envs, f) \in SUBSET (EnvNames \X Environment)
  BY <1>1, RemapTyped DEF ImportAs
<1>3. [NoWrites(c) EXCEPT !.create = TRUE, !.revs = RemapRevisions(d.revs, f),
         !.envs = RemapEnvs(d.envs, f), !.docs = {d}] \in NewJob
  BY <1>1, <1>2, ImportJob DEF ImportAs
<1>4. used' \subseteq Versions
  BY DEF ImportAs, AuditInv, TypeOK
<1> QED BY <1>3, <1>4, StartPreserves DEF ImportAs

-----------------------------------------------------------------------------
(* Writes *)

\* A write other than the audit event changes neither the event nor its number.
LEMMA WritePreserves ==
  ASSUME AuditInv, TypeOK', RevisionsBounded', NEW p \in Clients, job[p] # Idle,
         NEW k \in Job, k.container = job[p].container, k.events = job[p].events,
         k.written = job[p].written, k.docs = job[p].docs, k.removing = job[p].removing,
         k.create => job[p].create, FillsOneFile(k), job' = [job EXCEPT ![p] = k],
         containers \subseteq containers', holder' = holder, audit' = audit
  PROVE  AuditInv'
<1>1. job'[p] = k /\ \A q \in Clients : q # p => job'[q] = job[q]
  BY DEF AuditInv, TypeOK
<1>2. LockHeld' BY <1>1 DEF AuditInv, LockHeld
<1>3. OneEvent' BY <1>1 DEF AuditInv, OneEvent
<1>4. \A c \in Containers : LastSeq(c)' = LastSeq(c) BY DEF LastSeq
<1>5. NumberCurrent' BY <1>1, <1>4 DEF AuditInv, NumberCurrent
<1>6. AuditNumbered' BY DEF AuditInv, AuditNumbered
<1>7. LogsCreated'
  <2>1. LogNeedsContainer(job[p]) BY DEF AuditInv, LogsCreated
  <2>2. LogNeedsContainer(k)' BY <2>1 DEF LogNeedsContainer, Job
  <2>3. \A q \in Clients : q # p => job[q] = Idle BY DEF AuditInv, LockHeld
  <2> QED BY <1>1, <2>2, <2>3 DEF AuditInv, LogsCreated
<1>8. OneFile' BY <1>1 DEF AuditInv, OneFile
<1> QED BY <1>2, <1>3, <1>5, <1>6, <1>7, <1>8 DEF AuditInv

\* save_container touches neither the audit log nor its number.
LEMMA SaveContainerPreserves ==
  ASSUME AuditInv, NEW p \in Clients, SaveContainer(p)
  PROVE  AuditInv'
<1> DEFINE k == [job[p] EXCEPT !.create = FALSE]
<1>1. job[p] \in Job /\ job[p] # Idle BY DEF SaveContainer, AuditInv, TypeOK
<1>2. /\ k \in Job /\ k.container = job[p].container
      /\ k.events = job[p].events /\ k.written = job[p].written /\ k.docs = job[p].docs
      /\ k.removing = job[p].removing /\ (k.create => job[p].create)
  BY <1>1 DEF Job
<1>3. job' = [job EXCEPT ![p] = k] BY DEF SaveContainer
<1>10. FillsOneFile(k) BY <1>1 DEF SaveContainer, NextWrite, AuditInv, OneFile, FillsOneFile, Job
<1>4. job[p].container \in Containers BY <1>1 DEF Job
<1> HIDE DEF k
<1>5. TypeOK'
  BY <1>2, <1>3, <1>4 DEF SaveContainer, AuditInv, TypeOK, bounds, ghosts
<1>6. RevisionsBounded' BY DEF SaveContainer, AuditInv, RevisionsBounded
<1> QED BY <1>1, <1>2, <1>3, <1>5, <1>6, <1>10, WritePreserves DEF SaveContainer

\* A file that is created is empty until it is filled.
LEMMA CreateFilePreserves ==
  ASSUME AuditInv, NEW p \in Clients, CreateFile(p)
  PROVE  AuditInv'
<1> DEFINE k == [job[p] EXCEPT !.writing = TRUE]
<1>1. job[p] \in Job /\ job[p] # Idle BY DEF CreateFile, AuditInv, TypeOK
<1>2. /\ k \in Job /\ k.container = job[p].container
      /\ k.events = job[p].events /\ k.written = job[p].written /\ k.docs = job[p].docs
      /\ k.removing = job[p].removing /\ (k.create => job[p].create)
  BY <1>1 DEF Job
<1>3. job' = [job EXCEPT ![p] = k] BY DEF CreateFile
<1>10. FillsOneFile(k) BY <1>1 DEF CreateFile, NextWrite, FillsOneFile, Job
<1> HIDE DEF k
<1>5. TypeOK'
  BY <1>2, <1>3 DEF CreateFile, AuditInv, TypeOK, store, bounds, ghosts
<1>6. RevisionsBounded' BY DEF CreateFile, AuditInv, RevisionsBounded, store
<1> QED BY <1>1, <1>2, <1>3, <1>5, <1>6, <1>10, WritePreserves DEF CreateFile, store

\* Writing a revision's content touches neither the audit log nor its number.
LEMMA FillRevisionPreserves ==
  ASSUME AuditInv, NEW p \in Clients, FillRevision(p)
  PROVE  AuditInv'
<1> DEFINE c == job[p].container
<1>1. job[p] \in Job /\ job[p] # Idle BY DEF FillRevision, AuditInv, TypeOK
<1>2. PICK r \in job[p].revs :
        /\ revisions' = [revisions EXCEPT ![c] = @ \cup {r}]
        /\ job' = [job EXCEPT ![p].revs = @ \ {r}, ![p].writing = FALSE]
  BY DEF FillRevision, NextRevisions
<1> DEFINE k == [job[p] EXCEPT !.revs = @ \ {r}, !.writing = FALSE]
<1>3. c \in Containers /\ r \in Revision BY <1>1 DEF Job
<1>4. /\ k \in Job /\ k.container = job[p].container
      /\ k.events = job[p].events /\ k.written = job[p].written /\ k.docs = job[p].docs
      /\ k.removing = job[p].removing /\ (k.create => job[p].create)
  BY <1>1 DEF Job
<1>5. job' = [job EXCEPT ![p] = k] BY <1>1, <1>2 DEF AuditInv, TypeOK
<1>10. FillsOneFile(k) BY <1>1 DEF FillsOneFile, Job
<1>6. revisions' \in [Containers -> SUBSET Revision]
  BY <1>2, <1>3 DEF AuditInv, TypeOK
<1>8. RevisionsBounded'
  <2> SUFFICES ASSUME NEW d \in Containers, NEW R \in SUBSET revisions'[d], R # {}
               PROVE  \E t \in R : \A s \in R : s.number <= t.number
    BY DEF RevisionsBounded
  <2>1. CASE d # c
    BY <1>2, <1>3, <2>1 DEF AuditInv, TypeOK, RevisionsBounded
  <2>2. CASE d = c
    <3> DEFINE Old == R \ {r}
    <3>1. Old \in SUBSET revisions[d] /\ R \subseteq Old \cup {r}
      BY <1>2, <2>2 DEF AuditInv, TypeOK
    <3>2. \A s \in R : s.number \in Nat
      BY <1>6 DEF Revision
    <3>3. CASE Old = {}
      <4>1. R = {r} BY <3>1, <3>3
      <4> QED BY <3>2, <4>1
    <3>4. CASE Old # {}
      <4>1. PICK t \in Old : \A s \in Old : s.number <= t.number
        BY <3>1, <3>4 DEF AuditInv, RevisionsBounded
      <4>2. t \in R /\ t.number \in Nat /\ r.number \in Nat
        BY <1>3, <3>2 DEF Revision
      <4>3. CASE r \in R /\ t.number < r.number
        <5>1. \A s \in R : s.number <= r.number BY <3>1, <3>2, <4>1, <4>2, <4>3
        <5> QED BY <4>3, <5>1
      <4>4. CASE ~(r \in R /\ t.number < r.number)
        <5>1. \A s \in R : s.number <= t.number BY <3>1, <3>2, <4>1, <4>2, <4>4
        <5> QED BY <4>2, <5>1
      <4> QED BY <4>3, <4>4
    <3> QED BY <3>3, <3>4
  <2> QED BY <2>1, <2>2
<1> HIDE DEF k
<1>9. TypeOK'
  BY <1>4, <1>5, <1>6 DEF FillRevision, AuditInv, TypeOK, bounds, ghosts
<1> QED BY <1>1, <1>4, <1>5, <1>8, <1>9, <1>10, WritePreserves DEF FillRevision

\* save_environment touches neither the audit log nor its number.
LEMMA SaveEnvironmentPreserves ==
  ASSUME AuditInv, NEW p \in Clients, SaveEnvironment(p)
  PROVE  AuditInv'
<1> DEFINE c == job[p].container
<1>1. job[p] \in Job /\ job[p] # Idle BY DEF SaveEnvironment, AuditInv, TypeOK
<1>2. PICK x \in job[p].envs :
        /\ environments' = [environments EXCEPT ![c][x[1]] = x[2]]
        /\ job' = [job EXCEPT ![p].envs = @ \ {x}]
        /\ torn' = torn \/ torn' = [torn EXCEPT ![c] = @ \cup {"environment"}]
  BY DEF SaveEnvironment
<1> DEFINE k == [job[p] EXCEPT !.envs = @ \ {x}]
<1>3. c \in Containers /\ x \in EnvNames \X Environment BY <1>1 DEF Job
<1>4. /\ k \in Job /\ k.container = job[p].container
      /\ k.events = job[p].events /\ k.written = job[p].written /\ k.docs = job[p].docs
      /\ k.removing = job[p].removing /\ (k.create => job[p].create)
  BY <1>1 DEF Job
<1>5. job' = [job EXCEPT ![p] = k] BY <1>1, <1>2 DEF AuditInv, TypeOK
<1>10. FillsOneFile(k)
  BY <1>1 DEF SaveEnvironment, NextWrite, AuditInv, OneFile, FillsOneFile, Job
<1>6. environments' \in [Containers -> [EnvNames -> Environment \cup {NoEnv}]]
  <2>1. x[1] \in EnvNames /\ x[2] \in Environment BY <1>3
  <2> QED BY <1>2, <1>3, <2>1 DEF AuditInv, TypeOK
<1>9. torn' \in [Containers -> SUBSET {"revision", "environment", "audit"}]
  BY <1>2, <1>3 DEF AuditInv, TypeOK
<1> HIDE DEF k
<1>7. TypeOK'
  BY <1>4, <1>5, <1>6, <1>9 DEF SaveEnvironment, AuditInv, TypeOK, bounds, ghosts
<1>8. RevisionsBounded' BY DEF SaveEnvironment, AuditInv, RevisionsBounded
<1> QED BY <1>1, <1>4, <1>5, <1>7, <1>8, <1>10, WritePreserves DEF SaveEnvironment

\* The event gets the number that comes next, and no one can take it.
LEMMA NumberEventPreserves ==
  ASSUME AuditInv, NEW p \in Clients, NumberEvent(p)
  PROVE  AuditInv'
<1> DEFINE d == job[p].container
           W == {[seq |-> LastSeq(d) + 1, event |-> e] : e \in job[p].events}
           k == [job[p] EXCEPT !.written = W]
<1>1. job[p] \in Job /\ job[p] # Idle BY DEF NumberEvent, AuditInv, TypeOK
<1>2. d \in Containers /\ job[p].events \in SUBSET Event BY <1>1 DEF Job
<1>3. LastSeq(d) \in Nat BY <1>2, LastSeqIsLength DEF AuditInv
<1>4. W \in SUBSET AuditEvent BY <1>2, <1>3 DEF AuditEvent
<1>5. job' = [job EXCEPT ![p] = k] BY DEF NumberEvent
<1>6. /\ k \in Job /\ k.container = d /\ k.events = job[p].events /\ k.written = W
      /\ k.docs = job[p].docs /\ k.removing = job[p].removing /\ k.create = job[p].create
      /\ k.revs = job[p].revs /\ k.envs = job[p].envs /\ k.writing = job[p].writing
  <2> HIDE DEF W
  <2> QED BY <1>1, <1>4 DEF Job
<1>7. UNCHANGED <<store, used, exports, holder, bounds, ghosts>> BY DEF NumberEvent
<1>8. /\ containers' = containers /\ revisions' = revisions /\ audit' = audit
      /\ holder' = holder
  BY <1>7 DEF store
<1> HIDE DEF k
<1>9. job'[p] = k /\ \A q \in Clients : q # p => job'[q] = job[q]
  BY <1>5 DEF AuditInv, TypeOK
<1>10. TypeOK'
  <2>1. job' \in [Clients -> Job \cup {Idle}] BY <1>5, <1>6 DEF AuditInv, TypeOK
  <2> QED BY <1>7, <2>1 DEF AuditInv, TypeOK, store, bounds, ghosts
<1>11. RevisionsBounded' /\ AuditNumbered'
  BY <1>8 DEF AuditInv, RevisionsBounded, AuditNumbered
<1>12. LockHeld' BY <1>1, <1>8, <1>9 DEF AuditInv, LockHeld
<1>13. OneEvent' BY <1>1, <1>6, <1>9 DEF AuditInv, OneEvent
<1>14. \A c \in Containers : LastSeq(c)' = LastSeq(c) BY <1>8 DEF LastSeq
<1>15. NumberCurrent'
  BY <1>6, <1>9, <1>14 DEF AuditInv, NumberCurrent
<1>16. LogsCreated'
  <2>1. LogNeedsContainer(job[p]) /\ job[p].events # {}
    BY <1>1 DEF AuditInv, LogsCreated, NumberEvent, NextWrite
  <2>2. LogNeedsContainer(job[p])' BY <1>6, <1>8, <1>9, <2>1 DEF LogNeedsContainer
  <2>3. \A q \in Clients : q # p => job[q] = Idle BY <1>1 DEF AuditInv, LockHeld
  <2> QED BY <1>8, <1>9, <2>2, <2>3 DEF AuditInv, LogsCreated
<1>17. OneFile'
  <2>1. FillsOneFile(k) BY <1>1, <1>6 DEF AuditInv, OneFile, FillsOneFile, NextWrite
  <2> QED BY <1>1, <1>9, <2>1 DEF AuditInv, OneFile
<1> QED BY <1>10, <1>11, <1>12, <1>13, <1>15, <1>16, <1>17 DEF AuditInv

\* The numbered event goes to the end of the log.
LEMMA FillAuditPreserves ==
  ASSUME AuditInv, NEW p \in Clients, FillAudit(p)
  PROVE  AuditInv'
<1> DEFINE d == job[p].container
           k == [job[p] EXCEPT !.events = {}, !.writing = FALSE]
<1>1. job[p] \in Job /\ job[p] # Idle BY DEF FillAudit, AuditInv, TypeOK
<1>2. d \in Containers /\ job[p].written \in SUBSET AuditEvent BY <1>1 DEF Job
<1>3. job' = [job EXCEPT ![p] = k] BY <1>1 DEF FillAudit, AuditInv, TypeOK
<1>4. /\ k \in Job /\ k.events = {} /\ k.docs = job[p].docs /\ k.removing = job[p].removing
      /\ ~k.writing
  BY <1>1 DEF Job
<1>5. /\ audit' = [audit EXCEPT ![d] = @ \cup job[p].written]
      /\ UNCHANGED <<containers, revisions, environments, torn, used, exports, holder, bounds, ghosts>>
  BY DEF FillAudit
<1>6. job[p].events # {} BY DEF FillAudit, NextWrite
<1> HIDE DEF k
<1>7. job'[p] = k /\ \A q \in Clients : q # p => job'[q] = job[q]
  BY <1>3 DEF AuditInv, TypeOK
<1>8. TypeOK'
  <2>1. job' \in [Clients -> Job \cup {Idle}] BY <1>3, <1>4 DEF AuditInv, TypeOK
  <2>2. audit' \in [Containers -> SUBSET AuditEvent] BY <1>2, <1>5 DEF AuditInv, TypeOK
  <2> QED BY <1>5, <2>1, <2>2 DEF AuditInv, TypeOK, bounds, ghosts
<1>9. RevisionsBounded' BY <1>5 DEF AuditInv, RevisionsBounded
<1>10. LockHeld' BY <1>1, <1>5, <1>7 DEF AuditInv, LockHeld
<1>11. \A q \in Clients : q # p => job'[q] = Idle
  BY <1>1, <1>7 DEF AuditInv, LockHeld
<1>12. OneEvent' /\ NumberCurrent'
  BY <1>4, <1>7, <1>11 DEF OneEvent, NumberCurrent
<1>13. AuditNumbered'
  <2> SUFFICES ASSUME NEW c \in Containers
               PROVE  /\ \A a, b \in audit'[c] : a.seq = b.seq => a = b
                      /\ Contiguous({a.seq : a \in audit'[c]})
    BY DEF AuditNumbered
  <2>1. CASE audit'[c] = audit[c]
    BY <2>1 DEF AuditInv, AuditNumbered
  <2>2. CASE c = d /\ job[p].written # {}
    <3> DEFINE L == LastSeq(d)
    <3>1. PICK e \in job[p].events : job[p].written = {[seq |-> L + 1, event |-> e]}
      <4>1. job[p].written = {[seq |-> L + 1, event |-> x] : x \in job[p].events}
        BY <1>1, <1>2, <1>6, <2>2 DEF AuditInv, NumberCurrent
      <4>2. \A x, y \in job[p].events : x = y BY <1>1 DEF AuditInv, OneEvent
      <4>3. PICK e \in job[p].events : TRUE BY <1>6
      <4> QED BY <4>1, <4>2, <4>3
    <3>2. L \in Nat /\ {a.seq : a \in audit[c]} = 1 .. L
      BY <1>2, <2>2, LastSeqIsLength DEF AuditInv
    <3> HIDE DEF L
    <3> DEFINE new == [seq |-> L + 1, event |-> e]
    <3>3. audit'[c] = audit[c] \cup {new}
      BY <1>2, <1>5, <2>2, <3>1 DEF AuditInv, TypeOK
    <3>4. \A a \in audit[c] : a.seq \in 1 .. L BY <3>2
    <3>5. \A a, b \in audit[c] : a.seq = b.seq => a = b BY DEF AuditInv, AuditNumbered
    <3>6. new.seq = L + 1 OBVIOUS
    <3> HIDE DEF new
    <3>7. \A a, b \in audit'[c] : a.seq = b.seq => a = b
      BY <3>2, <3>3, <3>4, <3>5, <3>6
    <3>8. {a.seq : a \in audit'[c]} = {a.seq : a \in audit[c]} \cup {L + 1}
      BY <3>3, <3>6
    <3>9. {a.seq : a \in audit'[c]} = 1 .. (L + 1)
      BY <3>2, <3>8
    <3>10. L + 1 \in {a.seq : a \in audit'[c]} BY <3>8
    <3> QED BY <3>7, <3>9, <3>10 DEF Contiguous
  <2> QED BY <1>2, <1>5, <2>1, <2>2 DEF AuditInv, TypeOK
<1>14. LogsCreated'
  <2>1. d \in containers /\ ~(job[p].docs # {} \/ job[p].removing)
    BY <1>1, <1>6 DEF AuditInv, LogsCreated, LogNeedsContainer
  <2>2. \A c \in Containers \ containers : audit'[c] = {}
    BY <1>2, <1>5, <2>1 DEF AuditInv, LogsCreated, TypeOK
  <2>3. LogNeedsContainer(job[p])' BY <1>4, <1>7, <2>1 DEF LogNeedsContainer
  <2> QED BY <1>5, <1>7, <1>11, <2>2, <2>3 DEF LogsCreated
<1>15. OneFile' BY <1>4, <1>7, <1>11 DEF OneFile, FillsOneFile
<1> QED BY <1>8, <1>9, <1>10, <1>12, <1>13, <1>14, <1>15 DEF AuditInv

-----------------------------------------------------------------------------
(* The end of an operation: returned, raised or dead *)

\* When the only operation under way ends, there is none.
LEMMA EndPreserves ==
  ASSUME AuditInv, TypeOK', NEW p \in Clients, job[p] # Idle,
         UNCHANGED <<containers, revisions, audit>>,
         job' = [job EXCEPT ![p] = Idle], holder' = Free
  PROVE  AuditInv'
<1>1. \A q \in Clients : job'[q] = Idle
  BY DEF AuditInv, TypeOK, LockHeld
<1>2. LockHeld' /\ OneEvent' /\ OneFile' /\ NumberCurrent'
  BY <1>1 DEF LockHeld, OneEvent, OneFile, NumberCurrent
<1>3. LogsCreated' BY <1>1 DEF AuditInv, LogsCreated
<1>4. RevisionsBounded' /\ AuditNumbered'
  BY DEF AuditInv, RevisionsBounded, AuditNumbered
<1> QED BY <1>2, <1>3, <1>4 DEF AuditInv

\* unaudited is only ever extended by a container of a job.
LEMMA NoteLossTyped ==
  ASSUME TypeOK, NEW p \in Clients, job[p] # Idle, NoteLoss(p)
  PROVE  unaudited' \subseteq Containers
<1>1. job[p].container \in Containers BY DEF TypeOK, Job
<1> QED BY <1>1 DEF NoteLoss, TypeOK

\* Ending a job keeps the jobs and the lock well typed.
LEMMA EndTyped ==
  ASSUME TypeOK, NEW p \in Clients, job' = [job EXCEPT ![p] = Idle], holder' = Free
  PROVE  job' \in [Clients -> Job \cup {Idle}] /\ holder' \in Clients \cup {Free}
BY DEF TypeOK

\* An operation that returns has no event left to write.
LEMMA ReturnPreserves ==
  ASSUME AuditInv, NEW p \in Clients, Return(p)
  PROVE  AuditInv'
<1>1. job[p] \in Job /\ job[p] # Idle BY DEF Return, AuditInv, TypeOK
<1>2. /\ job' = [job EXCEPT ![p] = Idle] /\ holder' = Free
      /\ UNCHANGED <<store, used, exports, bounds, unaudited, half>>
  BY DEF Return
<1>3. /\ job[p].container \in Containers /\ job[p].written \subseteq AuditEvent
      /\ job[p].docs \subseteq Document
  BY <1>1 DEF Job
<1>4. acked' \subseteq Containers \X AuditEvent
  BY <1>3 DEF Return, AuditInv, TypeOK
<1>5. imports' \subseteq [container : Containers, doc : Document]
  BY <1>3 DEF Return, AuditInv, TypeOK
<1>6. TypeOK'
  BY <1>2, <1>4, <1>5, EndTyped DEF AuditInv, TypeOK, store, bounds
<1> QED BY <1>1, <1>2, <1>6, EndPreserves DEF store

\* An operation that cannot list the audit directory ends without an event.
LEMMA AuditUnreadablePreserves ==
  ASSUME AuditInv, NEW p \in Clients, AuditUnreadable(p)
  PROVE  AuditInv'
<1>1. /\ job[p] # Idle /\ job' = [job EXCEPT ![p] = Idle] /\ holder' = Free
      /\ UNCHANGED <<store, used, exports, bounds, acked, imports, half>>
  BY DEF AuditUnreadable
<1>2. unaudited' \subseteq Containers
  BY <1>1, NoteLossTyped DEF AuditUnreadable, AuditInv
<1>3. TypeOK' BY <1>1, <1>2, EndTyped DEF AuditInv, TypeOK, store, bounds
<1> QED BY <1>1, <1>3, EndPreserves DEF store

\* A file nobody will fill is a revision or an audit event.
LEMMA LeavesFileTyped ==
  ASSUME TypeOK, NEW p \in Clients, job[p] # Idle, job[p].writing,
         FillsOneFile(job[p]), LeavesFile(p)
  PROVE  torn' \in [Containers -> SUBSET {"revision", "environment", "audit"}]
<1>1. NextWrite(job[p]) \in {"revision", "audit"} BY DEF FillsOneFile
<1> QED BY <1>1 DEF LeavesFile, TypeOK

\* A crash drops the operation and the lock, and leaves the log alone.
LEMMA CrashPreserves ==
  ASSUME AuditInv, NEW p \in Clients, Crash(p)
  PROVE  AuditInv'
<1>1. /\ job[p] # Idle /\ job' = [job EXCEPT ![p] = Idle] /\ holder' = Free
      /\ crashes' = crashes + 1
      /\ UNCHANGED <<containers, revisions, environments, audit, used, exports, failures,
                     acked, imports>>
  BY DEF Crash
<1>2. unaudited' \subseteq Containers
  BY <1>1, NoteLossTyped DEF Crash, AuditInv
<1>3. job[p].container \in Containers BY <1>1 DEF AuditInv, TypeOK, Job
<1>4. half' \subseteq Containers BY <1>3 DEF Crash, AuditInv, TypeOK
<1>5. torn' \in [Containers -> SUBSET {"revision", "environment", "audit"}]
  BY <1>1, LeavesFileTyped DEF Crash, AuditInv, OneFile, TypeOK
<1>6. TypeOK' BY <1>1, <1>2, <1>4, <1>5, EndTyped DEF AuditInv, TypeOK
<1> QED BY <1>1, <1>6, EndPreserves

\* An import that raises goes on to take away what it wrote, any other operation ends.
LEMMA RaiseTyped ==
  ASSUME TypeOK, NEW p \in Clients, job[p] # Idle, Raise(p)
  PROVE  job' \in [Clients -> Job \cup {Idle}] /\ holder' \in Clients \cup {Free}
<1> DEFINE k == [NoWrites(job[p].container) EXCEPT !.removing = TRUE]
<1>1. job[p].container \in Containers BY DEF TypeOK, Job
<1>2. k \in Job BY <1>1 DEF NoWrites, Job
<1>3. \/ job' = [job EXCEPT ![p] = k] /\ holder' = holder
      \/ job' = [job EXCEPT ![p] = Idle] /\ holder' = Free
  BY DEF Raise
<1> HIDE DEF k
<1> QED BY <1>2, <1>3 DEF TypeOK

\* Raising touches neither the log nor its number.
LEMMA RaisePreserves ==
  ASSUME AuditInv, TypeOK', NEW p \in Clients, job[p] # Idle, Raise(p),
         UNCHANGED <<containers, revisions, audit>>
  PROVE  AuditInv'
<1> DEFINE k == [NoWrites(job[p].container) EXCEPT !.removing = TRUE]
<1>1. CASE job[p].docs = {}
  BY <1>1, EndPreserves DEF Raise
<1>2. CASE job[p].docs # {}
  <2>1. job' = [job EXCEPT ![p] = k] /\ holder' = holder BY <1>2 DEF Raise
  <2>2. /\ k.container = job[p].container /\ ~k.create /\ k.events = {} /\ k.written = {}
        /\ ~k.writing
    BY DEF NoWrites
  <2> HIDE DEF k
  <2>3. \A q \in Clients : q # p => job[q] = Idle BY DEF AuditInv, LockHeld
  <2>4. job'[p] = k /\ \A q \in Clients : q # p => job'[q] = Idle
    BY <2>1, <2>3 DEF AuditInv, TypeOK
  <2>5. LockHeld' BY <2>1, <2>4 DEF AuditInv, LockHeld
  <2>6. OneEvent' /\ OneFile' /\ NumberCurrent'
    BY <2>2, <2>4 DEF OneEvent, OneFile, FillsOneFile, NumberCurrent
  <2>7. audit[job[p].container] = {}
    BY <1>2 DEF AuditInv, LogsCreated, LogNeedsContainer
  <2>8. LogsCreated'
    BY <2>2, <2>4, <2>7 DEF AuditInv, LogsCreated, LogNeedsContainer
  <2>9. RevisionsBounded' /\ AuditNumbered'
    BY DEF AuditInv, RevisionsBounded, AuditNumbered
  <2> QED BY <2>5, <2>6, <2>8, <2>9 DEF AuditInv
<1> QED BY <1>1, <1>2

\* A write that fails may leave its file, and the log stays as it is.
LEMMA WriteFailsPreserves ==
  ASSUME AuditInv, NEW p \in Clients, WriteFails(p)
  PROVE  AuditInv'
<1>1. /\ job[p] # Idle /\ Raise(p)
      /\ UNCHANGED <<containers, revisions, environments, audit, used, exports, crashes,
                     acked, imports, half>>
  BY DEF WriteFails
<1>2. unaudited' \subseteq Containers
  BY <1>1, NoteLossTyped DEF WriteFails, AuditInv
<1>3. failures' \in Nat BY DEF WriteFails, AuditInv, TypeOK
<1>4. torn' \in [Containers -> SUBSET {"revision", "environment", "audit"}]
  BY <1>1, LeavesFileTyped DEF WriteFails, AuditInv, OneFile, TypeOK
<1>5. job' \in [Clients -> Job \cup {Idle}] /\ holder' \in Clients \cup {Free}
  BY <1>1, RaiseTyped DEF AuditInv
<1>6. TypeOK' BY <1>1, <1>2, <1>3, <1>4, <1>5 DEF AuditInv, TypeOK
<1> QED BY <1>1, <1>6, RaisePreserves

\* A file that is in the way makes an import raise before it writes.
LEMMA MeetsLeftoverPreserves ==
  ASSUME AuditInv, NEW p \in Clients, MeetsLeftover(p)
  PROVE  AuditInv'
<1>1. job[p] # Idle /\ Raise(p) /\ UNCHANGED <<store, used, exports, bounds, ghosts>>
  BY DEF MeetsLeftover
<1>2. job' \in [Clients -> Job \cup {Idle}] /\ holder' \in Clients \cup {Free}
  BY <1>1, RaiseTyped DEF AuditInv
<1>3. TypeOK' BY <1>1, <1>2 DEF AuditInv, TypeOK, store, bounds, ghosts
<1> QED BY <1>1, <1>3, RaisePreserves DEF store

\* rmtree finds no log where it works.
LEMMA RemoveFilePreserves ==
  ASSUME AuditInv, NEW p \in Clients, RemoveFile(p)
  PROVE  AuditInv'
<1> DEFINE c == job[p].container
<1>1. /\ job[p] # Idle /\ job[p].removing
      /\ UNCHANGED <<used, exports, holder, job, bounds, ghosts>>
  BY DEF RemoveFile, NextWrite
<1>2. c \in Containers /\ audit[c] = {}
  BY <1>1 DEF AuditInv, TypeOK, Job, LogsCreated, LogNeedsContainer
<1> DEFINE Removal ==
             /\ containers' \subseteq containers /\ audit' = audit
             /\ revisions' \in [Containers -> SUBSET Revision]
             /\ \A d \in Containers : revisions'[d] \subseteq revisions[d]
             /\ torn' \in [Containers -> SUBSET {"revision", "environment", "audit"}]
             /\ environments' \in [Containers -> [EnvNames -> Environment \cup {NoEnv}]]
<1>3. Removal
  <2> USE <1>2 DEF AuditInv, TypeOK
  <2>1. CASE containers' = containers \ {c} /\ UNCHANGED <<revisions, environments, audit, torn>>
    BY <2>1
  <2>2. ASSUME NEW r \in revisions[c], revisions' = [revisions EXCEPT ![c] = @ \ {r}],
               UNCHANGED <<containers, environments, audit, torn>>
        PROVE  Removal
    BY <2>2
  <2>3. ASSUME NEW e \in EnvNames, environments' = [environments EXCEPT ![c][e] = NoEnv],
               UNCHANGED <<containers, revisions, audit, torn>>
        PROVE  Removal
    BY <2>3
  <2>4. ASSUME NEW kind \in torn[c], torn' = [torn EXCEPT ![c] = @ \ {kind}],
               UNCHANGED <<containers, revisions, environments, audit>>
        PROVE  Removal
    BY <2>4
  <2> QED BY <2>1, <2>2, <2>3, <2>4 DEF RemoveFile
<1>4. TypeOK' BY <1>1, <1>3 DEF AuditInv, TypeOK, bounds, ghosts
<1>5. RevisionsBounded' BY <1>3 DEF AuditInv, RevisionsBounded
<1>6. LockHeld' /\ OneEvent' BY <1>1 DEF AuditInv, LockHeld, OneEvent
<1>7. \A d \in Containers : LastSeq(d)' = LastSeq(d) BY <1>3 DEF LastSeq
<1>8. NumberCurrent' BY <1>1, <1>7 DEF AuditInv, NumberCurrent
<1>9. AuditNumbered' BY <1>3 DEF AuditInv, AuditNumbered
<1>10. LogsCreated'
  <2>1. \A q \in Clients : job[q] # Idle => q = p BY <1>1 DEF AuditInv, LockHeld
  <2>2. LogNeedsContainer(job[p]) BY <1>1 DEF AuditInv, LogsCreated
  <2>3. LogNeedsContainer(job[p])' BY <1>1, <1>3, <2>2 DEF LogNeedsContainer
  <2>4. \A d \in Containers \ containers' : audit'[d] = {}
    <3>1. \A d \in Containers : d # c /\ d \notin containers' => d \notin containers
      BY DEF RemoveFile
    <3> QED BY <1>2, <1>3, <3>1 DEF AuditInv, LogsCreated
  <2> QED BY <1>1, <2>1, <2>3, <2>4 DEF LogsCreated
<1>11. OneFile' BY <1>1 DEF AuditInv, OneFile
<1> QED BY <1>4, <1>5, <1>6, <1>8, <1>9, <1>10, <1>11 DEF AuditInv

\* The removal ends, done or not.
LEMMA RemovalEndPreserves ==
  ASSUME AuditInv, NEW p \in Clients, Removed(p) \/ RemovalFails(p)
  PROVE  AuditInv'
<1>1. /\ job[p] # Idle /\ job' = [job EXCEPT ![p] = Idle] /\ holder' = Free
      /\ UNCHANGED <<store, used, exports, crashes, acked, imports, unaudited>>
  BY DEF Removed, RemovalFails, bounds
<1>2. job[p].container \in Containers BY <1>1 DEF AuditInv, TypeOK, Job
<1>3. half' \subseteq Containers /\ failures' \in Nat
  BY <1>2 DEF Removed, RemovalFails, bounds, AuditInv, TypeOK
<1>4. TypeOK' BY <1>1, <1>3, EndTyped DEF AuditInv, TypeOK, store
<1> QED BY <1>1, <1>4, EndPreserves DEF store

-----------------------------------------------------------------------------
(* Theorems *)

\* An empty store satisfies the inductive invariant.
LEMMA InitEstablishesAuditInv == Init => AuditInv
<1> SUFFICES ASSUME Init PROVE AuditInv OBVIOUS
<1>1. used \subseteq Versions
  BY ForeignDocsAssumption DEF Init, VersionsOf, Document, Revision
<1>2. NoEnvironments \in [EnvNames -> Environment \cup {NoEnv}] BY DEF NoEnvironments
<1>3. TypeOK
  BY <1>1, <1>2, ForeignDocsAssumption DEF Init, TypeOK
<1>4. RevisionsBounded /\ LockHeld /\ OneEvent /\ OneFile /\ NumberCurrent /\ LogsCreated
  BY DEF Init, RevisionsBounded, LockHeld, OneEvent, OneFile, NumberCurrent, LogsCreated
<1>5. Contiguous({}) BY DEF Contiguous
<1>6. \A c \in Containers : {a.seq : a \in audit[c]} = {} /\ audit[c] = {}
  BY DEF Init
<1>7. AuditNumbered BY <1>5, <1>6 DEF AuditNumbered
<1> QED BY <1>3, <1>4, <1>7 DEF AuditInv

\* Every action of Next, and a stutter, preserves the inductive invariant.
LEMMA NextPreservesAuditInv == AuditInv /\ [Next]_vars => AuditInv'
<1> SUFFICES ASSUME AuditInv, [Next]_vars PROVE AuditInv' OBVIOUS
<1>1. CASE UNCHANGED vars
  <2>1. TypeOK' BY <1>1 DEF AuditInv, TypeOK, vars, store, bounds, ghosts
  <2> QED BY <1>1, <2>1, IdleStepPreserves DEF vars, store
<1>2. ASSUME NEW p \in Clients, Operation(p) PROVE AuditInv'
  BY <1>2, CreateContainerPreserves, CreateRevisionPreserves, CreateEnvironmentPreserves,
     ActivatePreserves, RollbackPreserves, ExportPreserves, ImportAsPreserves DEF Operation
<1>3. ASSUME NEW p \in Clients, Import(p) PROVE AuditInv'
  BY <1>3, ImportSamePreserves DEF Import
<1>4. ASSUME NEW p \in Clients, Write(p) PROVE AuditInv'
  BY <1>4, SaveContainerPreserves, NumberEventPreserves, CreateFilePreserves,
     FillRevisionPreserves, SaveEnvironmentPreserves, FillAuditPreserves,
     ReturnPreserves, AuditUnreadablePreserves, MeetsLeftoverPreserves, RemoveFilePreserves,
     RemovalEndPreserves DEF Write
<1>5. ASSUME NEW p \in Clients, Fault(p) PROVE AuditInv'
  BY <1>5, WriteFailsPreserves, RemovalEndPreserves, CrashPreserves DEF Fault
<1> QED BY <1>1, <1>2, <1>3, <1>4, <1>5 DEF Next

\* The inductive invariant holds throughout.
THEOREM AuditInvHolds == Spec => []AuditInv
BY InitEstablishesAuditInv, NextPreservesAuditInv, PTL DEF Spec

\* Every document the service writes, and every job it has under way, is well formed,
\* whatever the clients, crashes and failed writes.
THEOREM TypeCorrect == Spec => []TypeOK
<1>1. AuditInv => TypeOK BY DEF AuditInv
<1> QED BY <1>1, AuditInvHolds, PTL

\* The store lock of FileStore.lock excludes: at most one client is in the middle of an
\* operation, also after crashes, which drop the lock, and errors, which release it.
THEOREM OperationsExclusive ==
  Spec => [](\A p, q \in Clients : job[p] # Idle /\ job[q] # Idle => p = q)
<1>1. AuditInv => \A p, q \in Clients : job[p] # Idle /\ job[q] # Idle => p = q
  BY DEF AuditInv, LockHeld
<1> QED BY <1>1, AuditInvHolds, PTL

\* The audit log of every container is numbered from 1 without a gap or a repeat:
\* append_audit_event's listing is never overtaken before its event is on disk.
THEOREM AuditNumberedHolds == Spec => []AuditNumbered
<1>1. AuditInv => AuditNumbered BY DEF AuditInv
<1> QED BY <1>1, AuditInvHolds, PTL

-----------------------------------------------------------------------------
(* What the store keeps of a container's history while operations are cut    *)
(* short.  An operation decides on what it read and then writes one file     *)
(* after another, so what is on disk is right only together with what the    *)
(* operation under way has left to write.  The invariants are therefore      *)
(* about jobs: the revisions on disk and those still to write form one line  *)
(* of history, the environments still to write point into it, an event still *)
(* to write describes the file written before it.                            *)


\* What the container of j has, or will have once j is done.
WholeHistory(j) == revisions[j.container] \cup j.revs

\* An operation creates a container that is not there, or works on one that is.
Located(j) ==
  ~j.removing =>
    IF j.create THEN j.container \notin containers ELSE j.container \in containers

\* An import writes the history of its document, into a container nobody was told of.
ImportsWhole(j) ==
  /\ ~j.removing /\ j.container \notin half =>
       \A d \in j.docs : SameHistory(WholeHistory(j), d.revs)
  /\ j.docs # {} \/ j.removing => \A x \in acked : x[1] # j.container

\* The event of a new revision names one on disk or still to write, and an event
\* that is not to be written any more has been.
EventsHold(j) ==
  /\ \A ev \in j.events \cup {a.event : a \in j.written} :
       ev.action = "revision.created" => \E r \in WholeHistory(j) : r.version = ev.version
  /\ j.events = {} => j.written \subseteq audit[j.container]

JobKept(j) == Located(j) /\ ImportsWhole(j) /\ EventsHold(j)

JobsKept == \A p \in Clients : job[p] # Idle => JobKept(job[p])

\* Nobody was told of a container without container.json, and it has no revision
\* unless its removal was cut short.
EmptyUntilCreated ==
  \A c \in Containers \ containers :
    /\ c \in Undamaged => revisions[c] = {}
    /\ \A x \in acked : x[1] # c

StoreInv ==
  /\ AuditInv
  /\ JobsKept
  /\ EmptyUntilCreated
  /\ AckedDurable

-----------------------------------------------------------------------------
(* One operation at a time *)

\* The store lock: while p is in the middle of an operation nobody else is.
LEMMA Alone ==
  ASSUME AuditInv, NEW p \in Clients, job[p] # Idle
  PROVE  /\ job[p] \in Job /\ job[p].container \in Containers
         /\ \A q \in Clients \ {p} : job[q] = Idle
<1>1. job[p] \in Job
  BY DEF AuditInv, TypeOK
<1> QED BY <1>1 DEF AuditInv, LockHeld, Job

\* p has less left to write.
LEMMA Rewritten ==
  ASSUME AuditInv, NEW p \in Clients, job[p] # Idle,
         NEW k \in Job, job' = [job EXCEPT ![p] = k]
  PROVE  job'[p] = k /\ job'[p] # Idle /\ \A q \in Clients \ {p} : job'[q] = Idle
<1>1. job'[p] = k /\ \A q \in Clients \ {p} : job'[q] = job[q]
  BY DEF AuditInv, TypeOK
<1> QED BY <1>1, Alone, NothingAssumption

\* The operation of p is over, one way or another.
LEMMA Ended ==
  ASSUME AuditInv, NEW p \in Clients, job[p] # Idle, job' = [job EXCEPT ![p] = Idle]
  PROVE  \A q \in Clients : job'[q] = Idle
<1>1. job'[p] = Idle /\ \A q \in Clients \ {p} : job'[q] = job[q]
  BY DEF AuditInv, TypeOK
<1> QED BY <1>1, Alone

-----------------------------------------------------------------------------
(* StoreInv: operations *)

\* An operation that starts has decided, and written nothing.
LEMMA StartKeeps ==
  ASSUME StoreInv, AuditInv', NEW p \in Clients, NEW j \in NewJob, Start(p, j),
         JobKept(j), UNCHANGED <<store, bounds, ghosts>>
  PROVE  StoreInv'
<1>1. /\ job'[p] = j /\ \A q \in Clients : job[q] = Idle
      /\ \A q \in Clients \ {p} : job'[q] = Idle
  <2>1. job' = [job EXCEPT ![p] = j] /\ holder = Free
    BY DEF Start, AcquireLock
  <2>2. \A q \in Clients : job[q] = Idle
    BY <2>1, ConstantsAssumption DEF StoreInv, AuditInv, LockHeld
  <2> QED BY <2>1, <2>2 DEF StoreInv, AuditInv, TypeOK
<1>2. /\ containers' = containers /\ revisions' = revisions /\ audit' = audit
      /\ acked' = acked /\ half' = half
  BY DEF store, ghosts
<1>3. JobsKept'
  <2>1. JobKept(j)'
    BY <1>2 DEF JobKept, Located, ImportsWhole, EventsHold, WholeHistory
  <2> QED BY <1>1, <2>1 DEF JobsKept
<1>4. EmptyUntilCreated'
  BY <1>1, <1>2 DEF StoreInv, EmptyUntilCreated, Undamaged
<1>6. AckedDurable'
  BY <1>2 DEF StoreInv, AckedDurable, Stored
<1> QED BY <1>3, <1>4, <1>6 DEF StoreInv

\* A job with nothing but an event that creates no revision and perhaps an
\* environment, on a container that is there.
LEMMA SwitchJobKept ==
  ASSUME NEW c \in containers, NEW V, NEW ev, ev.action # "revision.created",
         NEW j, j = [NoWrites(c) EXCEPT !.envs = V, !.events = {ev}]
  PROVE  JobKept(j)
<1>1. /\ j.container = c /\ ~j.create /\ ~j.removing /\ j.docs = {} /\ j.written = {}
      /\ j.events = {ev}
  BY DEF NoWrites
<1> QED BY <1>1 DEF JobKept, Located, ImportsWhole, EventsHold

\* The same without an environment.
LEMMA EventJobKept ==
  ASSUME NEW c \in containers, NEW ev, ev.action # "revision.created",
         NEW j, j = [NoWrites(c) EXCEPT !.events = {ev}]
  PROVE  JobKept(j)
<1>1. /\ j.container = c /\ ~j.create /\ ~j.removing /\ j.docs = {} /\ j.written = {}
      /\ j.events = {ev}
  BY DEF NoWrites
<1> QED BY <1>1 DEF JobKept, Located, ImportsWhole, EventsHold

\* create_container starts on a container that is not there, with nothing else to write.
LEMMA CreateContainerKeeps ==
  ASSUME StoreInv, AuditInv', NEW p \in Clients, NEW c \in Containers, CreateContainer(p, c)
  PROVE  StoreInv'
<1> DEFINE j == [NoWrites(c) EXCEPT !.create = TRUE]
<1>1. j \in NewJob
  BY ContainerJob
<1>2. /\ j.container = c /\ j.create /\ ~j.removing /\ j.docs = {} /\ j.written = {}
      /\ j.events = {}
  BY DEF NoWrites
<1>3. Start(p, j) /\ c \notin containers /\ UNCHANGED <<store, bounds, ghosts>>
  BY DEF CreateContainer
<1> HIDE DEF j
<1>4. JobKept(j)
  BY <1>2, <1>3 DEF JobKept, Located, ImportsWhole, EventsHold
<1> QED BY <1>1, <1>2, <1>3, <1>4, StartKeeps

\* create_revision: the event names the revision that is written before it.
LEMMA CreateRevisionKeeps ==
  ASSUME StoreInv, AuditInv', NEW p \in Clients, NEW c \in Containers, NEW v \in Versions,
         NEW payload \in Payloads, NEW expected \in OptVersion,
         CreateRevision(p, c, v, payload, expected)
  PROVE  StoreInv'
<1> DEFINE r == [version |-> v, number |-> LatestNumber(c) + 1,
                 parent |-> LatestVersion(c), payload |-> payload]
           e == MkEvent("revision.created", "succeeded", NoEnv, v, r.parent)
           j == [NoWrites(c) EXCEPT !.revs = {r}, !.events = {e}]
<1>1. LatestNumber(c) \in Nat /\ LatestVersion(c) \in OptVersion
  BY LatestTyped DEF StoreInv, AuditInv
<1>2. r \in Revision /\ r.version = v
  BY <1>1 DEF Revision
<1>3. e \in Event /\ e.version = v
  <2>1. e \in Event
    BY <1>1, MkEventTyped DEF Action, Result, OptEnvName, OptVersion
  <2> QED BY <2>1 DEF MkEvent
<1>4. Start(p, j) /\ c \in containers /\ UNCHANGED <<store, bounds, ghosts>>
  BY DEF CreateRevision
<1> HIDE DEF r, e
<1>5. j \in NewJob
  BY <1>2, <1>3, <1>4, RevisionJob
<1>6. /\ j.container = c /\ ~j.create /\ ~j.removing /\ j.docs = {} /\ j.written = {}
      /\ j.events = {e} /\ j.revs = {r}
  BY DEF NoWrites
<1> HIDE DEF j
<1>7. JobKept(j)
  <2>1. \E x \in WholeHistory(j) : x.version = e.version
    BY <1>2, <1>3, <1>6 DEF WholeHistory
  <2> QED BY <1>4, <1>6, <2>1 DEF JobKept, Located, ImportsWhole, EventsHold
<1> QED BY <1>4, <1>5, <1>6, <1>7, StartKeeps

\* create_environment writes one environment and its event, and no revision.
LEMMA CreateEnvironmentKeeps ==
  ASSUME StoreInv, AuditInv', NEW p \in Clients, NEW c \in Containers, NEW e \in EnvNames,
         NEW protected \in BOOLEAN, CreateEnvironment(p, c, e, protected)
  PROVE  StoreInv'
<1> DEFINE env == [protected |-> protected, current |-> NoVersion, previous |-> NoVersion]
           x == MkEvent("environment.created", "succeeded", e, NoVersion, NoVersion)
           j == [NoWrites(c) EXCEPT !.envs = {<<e, env>>}, !.events = {x}]
<1>1. env \in Environment
  BY DEF Environment, OptVersion
<1>2. x \in Event /\ x.action # "revision.created"
  <2>1. x \in Event
    BY MkEventTyped DEF Action, Result, OptEnvName, OptVersion
  <2> QED BY <2>1 DEF MkEvent
<1>3. Start(p, j) /\ c \in containers /\ UNCHANGED <<store, bounds, ghosts>>
  BY DEF CreateEnvironment
<1> HIDE DEF env, x
<1>4. j \in NewJob
  BY <1>1, <1>2, <1>3, EnvironmentJob
<1>5. JobKept(j)
  BY <1>2, <1>3, SwitchJobKept
<1> HIDE DEF j
<1> QED BY <1>3, <1>4, <1>5, StartKeeps

\* The job of a refused switch.
LEMMA RefuseKeeps ==
  ASSUME StoreInv, AuditInv', NEW p \in Clients, NEW c \in containers, NEW e \in EnvNames,
         NEW action \in Action \ {"revision.created"}, NEW reason \in Result,
         NEW target \in OptVersion, environments[c][e] # NoEnv,
         Refuse(p, c, e, action, reason, target), UNCHANGED <<store, bounds, ghosts>>
  PROVE  StoreInv'
<1> DEFINE x == MkEvent(action, reason, e, target, environments[c][e].current)
           j == [NoWrites(c) EXCEPT !.events = {x}]
<1>1. c \in Containers /\ environments[c][e].current \in OptVersion
  BY DEF StoreInv, AuditInv, TypeOK, Environment
<1>2. x \in Event /\ x.action # "revision.created"
  <2>1. x \in Event
    BY <1>1, MkEventTyped DEF OptEnvName
  <2> QED BY <2>1 DEF MkEvent
<1>3. Start(p, j)
  BY DEF Refuse
<1> HIDE DEF x
<1>4. j \in NewJob
  BY <1>1, <1>2, EventJob
<1>5. JobKept(j)
  BY <1>2, EventJobKept
<1> HIDE DEF j
<1> QED BY <1>3, <1>4, <1>5, StartKeeps

\* The job of a switch that goes ahead.
LEMMA SwitchToKeeps ==
  ASSUME StoreInv, AuditInv', NEW p \in Clients, NEW c \in containers, NEW e \in EnvNames,
         NEW action \in Action \ {"revision.created"}, NEW target \in OptVersion,
         environments[c][e] # NoEnv,
         SwitchTo(p, c, e, action, target), UNCHANGED <<store, bounds, ghosts>>
  PROVE  StoreInv'
<1> DEFINE old == environments[c][e]
           env == [old EXCEPT !.current = target, !.previous = old.current]
           x == MkEvent(action, "succeeded", e, target, old.current)
           j == [NoWrites(c) EXCEPT !.envs = {<<e, env>>}, !.events = {x}]
<1>1. c \in Containers /\ old \in Environment
  BY DEF StoreInv, AuditInv, TypeOK
<1>2. env \in Environment
  BY <1>1 DEF Environment
<1>3. x \in Event /\ x.action # "revision.created"
  <2>1. x \in Event
    BY <1>1, MkEventTyped DEF OptEnvName, Environment, Result
  <2> QED BY <2>1 DEF MkEvent
<1>4. Start(p, j)
  BY DEF SwitchTo
<1> HIDE DEF x, env
<1>5. j \in NewJob
  BY <1>1, <1>2, <1>3, EnvironmentJob
<1>6. JobKept(j)
  BY <1>3, SwitchJobKept
<1> HIDE DEF j
<1> QED BY <1>4, <1>5, <1>6, StartKeeps

\* Refused or not, a switch writes no revision.
LEMMA GuardedSwitchKeeps ==
  ASSUME StoreInv, AuditInv', NEW p \in Clients, NEW c \in containers, NEW e \in EnvNames,
         NEW action \in Action \ {"revision.created"}, NEW target \in OptVersion,
         NEW expected, NEW allow, environments[c][e] # NoEnv,
         GuardedSwitch(p, c, e, action, target, expected, allow),
         UNCHANGED <<store, bounds, ghosts>>
  PROVE  StoreInv'
<1>1. \/ \E reason \in Result : Refuse(p, c, e, action, reason, target)
      \/ SwitchTo(p, c, e, action, target)
  BY DEF GuardedSwitch, Result
<1> QED BY <1>1, RefuseKeeps, SwitchToKeeps

\* activate_environment is a guarded switch.
LEMMA ActivateKeeps ==
  ASSUME StoreInv, AuditInv', NEW p \in Clients, NEW c \in Containers, NEW e \in EnvNames,
         NEW target \in Versions, NEW expected \in OptVersion, NEW allow \in BOOLEAN,
         ActivateEnvironment(p, c, e, target, expected, allow)
  PROVE  StoreInv'
<1>1. "environment.activated" \in Action \ {"revision.created"} /\ target \in OptVersion
  BY DEF Action, OptVersion
<1> QED BY <1>1, GuardedSwitchKeeps DEF ActivateEnvironment

\* rollback_environment is refused at once or a guarded switch.
LEMMA RollbackKeeps ==
  ASSUME StoreInv, AuditInv', NEW p \in Clients, NEW c \in Containers, NEW e \in EnvNames,
         NEW expected \in OptVersion, NEW allow \in BOOLEAN,
         RollbackEnvironment(p, c, e, expected, allow)
  PROVE  StoreInv'
<1> DEFINE target == environments[c][e].previous
<1>1. /\ "environment.rolled_back" \in Action \ {"revision.created"}
      /\ "no_previous_revision" \in Result /\ NoVersion \in OptVersion
  BY DEF Action, OptVersion, Result
<1>2. environments[c][e] # NoEnv /\ target \in OptVersion /\ c \in containers
  BY DEF RollbackEnvironment, StoreInv, AuditInv, TypeOK, Environment
<1>3. \/ Refuse(p, c, e, "environment.rolled_back", "no_previous_revision", NoVersion)
      \/ GuardedSwitch(p, c, e, "environment.rolled_back", target, expected, allow)
  BY DEF RollbackEnvironment
<1>4. UNCHANGED <<store, bounds, ghosts>>
  BY DEF RollbackEnvironment
<1> HIDE DEF target
<1> QED BY <1>1, <1>2, <1>3, <1>4, RefuseKeeps, GuardedSwitchKeeps

\* A step that leaves the store, the jobs and what callers were told alone.
LEMMA IdleStepKeeps ==
  ASSUME StoreInv, AuditInv', UNCHANGED <<store, job, acked, half>>
  PROVE  StoreInv'
<1>1. /\ containers' = containers /\ revisions' = revisions /\ audit' = audit
      /\ acked' = acked /\ half' = half /\ job' = job
  BY DEF store
<1>2. JobsKept'
  <2> SUFFICES ASSUME NEW q \in Clients, job[q] # Idle PROVE JobKept(job[q])'
    BY <1>1 DEF JobsKept
  <2>1. JobKept(job[q])
    BY DEF StoreInv, JobsKept
  <2>2. Located(job[q])'
    BY <1>1, <2>1 DEF JobKept, Located
  <2>3. WholeHistory(job[q])' = WholeHistory(job[q])
    BY <1>1 DEF WholeHistory
  <2>4. ImportsWhole(job[q])' /\ EventsHold(job[q])'
    BY <1>1, <2>1, <2>3 DEF JobKept, ImportsWhole, EventsHold
  <2> QED BY <2>2, <2>4 DEF JobKept
<1>3. EmptyUntilCreated'
  BY <1>1 DEF StoreInv, EmptyUntilCreated, Undamaged
<1>4. AckedDurable'
  BY <1>1 DEF StoreInv, AckedDurable, Stored
<1> QED BY <1>2, <1>3, <1>4 DEF StoreInv

\* An import starts in an empty container, and has all of its document to write.
LEMMA ImportJobKept ==
  ASSUME StoreInv, holder = Free, NEW c \in Containers \ containers, NEW R, NEW V, NEW d,
         SameHistory(R, d.revs),
         NEW j, j = [NoWrites(c) EXCEPT !.create = TRUE, !.revs = R, !.envs = V, !.docs = {d}]
  PROVE  JobKept(j)
<1>1. /\ j.container = c /\ j.create /\ ~j.removing /\ j.docs = {d} /\ j.written = {}
      /\ j.events = {} /\ j.revs = R
  BY DEF NoWrites
<1>2. /\ c \notin half => revisions[c] = {}
      /\ \A x \in acked : x[1] # c
  <2>1. \A q \in Clients : job[q] = Idle
    BY ConstantsAssumption DEF StoreInv, AuditInv, LockHeld
  <2> QED BY <2>1 DEF StoreInv, EmptyUntilCreated, Undamaged
<1>3. c \notin half => WholeHistory(j) = R
  BY <1>1, <1>2 DEF WholeHistory
<1> QED BY <1>1, <1>2, <1>3 DEF JobKept, Located, ImportsWhole, EventsHold

\* import_container under the document's id: a no-op, or the whole history to write.
LEMMA ImportSameKeeps ==
  ASSUME StoreInv, AuditInv', NEW p \in Clients, NEW d \in exports, ImportSame(p, d)
  PROVE  StoreInv'
<1>1. d \in Document /\ d.source \in Containers /\ d.revs \in SUBSET Revision
  BY DEF StoreInv, AuditInv, TypeOK, Document
<1>2. CASE UNCHANGED <<store, used, exports, holder, job, bounds, acked, unaudited, half>>
  BY <1>2, IdleStepKeeps
<1>3. CASE /\ d.source \notin containers
           /\ Start(p, [NoWrites(d.source) EXCEPT !.create = TRUE, !.revs = d.revs,
                          !.envs = EnvDocs(d.envs), !.docs = {d}])
           /\ UNCHANGED <<store, used, exports, bounds, ghosts>>
  <2> DEFINE j == [NoWrites(d.source) EXCEPT !.create = TRUE, !.revs = d.revs,
                     !.envs = EnvDocs(d.envs), !.docs = {d}]
  <2>1. j \in NewJob
    BY <1>1, <1>3, EnvDocsTyped, ImportJob
  <2>2. JobKept(j)
    <3>1. SameHistory(d.revs, d.revs)
      BY DEF SameHistory
    <3> QED BY <1>1, <1>3, <3>1, ImportJobKept DEF Start, AcquireLock
  <2>3. Start(p, j) /\ UNCHANGED <<store, bounds, ghosts>>
    BY <1>3
  <2> HIDE DEF j
  <2> QED BY <2>1, <2>2, <2>3, StartKeeps
<1> QED BY <1>2, <1>3 DEF ImportSame

\* A remap changes neither the numbers nor the payloads.
LEMMA RemapSameHistory ==
  ASSUME NEW R \in SUBSET Revision, NEW f
  PROVE  SameHistory(RemapRevisions(R, f), R)
<1> DEFINE g(r) == [r EXCEPT !.version = f[r.version], !.parent = RemapVersion(f, r.parent)]
           h(r) == [number |-> r.number, payload |-> r.payload]
<1>1. RemapRevisions(R, f) = {g(r) : r \in R}
  BY DEF RemapRevisions
<1>2. ASSUME NEW r \in R PROVE h(g(r)) = h(r)
  <2>1. g(r).number = r.number /\ g(r).payload = r.payload
    BY DEF Revision
  <2> HIDE DEF g
  <2> QED BY <2>1
<1> HIDE DEF g, h
<1>3. {h(r) : r \in {g(x) : x \in R}} = {h(r) : r \in R}
  BY <1>2
<1> QED BY <1>1, <1>3 DEF SameHistory, h

\* import_container under another id: the remapped history, all of it, to write.
LEMMA ImportAsKeeps ==
  ASSUME StoreInv, AuditInv', NEW p \in Clients, NEW c \in Containers, NEW d \in exports,
         NEW f \in [VersionsOf(d.revs) -> Versions \ used], ImportAs(p, d, c, f)
  PROVE  StoreInv'
<1> DEFINE R == RemapRevisions(d.revs, f)
           V == RemapEnvs(d.envs, f)
           j == [NoWrites(c) EXCEPT !.create = TRUE, !.revs = R, !.envs = V, !.docs = {d}]
<1>1. d \in Document /\ d.revs \in SUBSET Revision
  BY DEF StoreInv, AuditInv, TypeOK, Document
<1>2. R \in SUBSET Revision /\ V \in SUBSET (EnvNames \X Environment)
  BY <1>1, RemapTyped DEF ImportAs
<1>3. SameHistory(R, d.revs)
  BY <1>1, RemapSameHistory
<1>4. c \notin containers /\ Start(p, j) /\ UNCHANGED <<store, bounds, ghosts>>
  BY DEF ImportAs
<1> HIDE DEF R, V
<1>5. j \in NewJob
  BY <1>1, <1>2, <1>4, ImportJob
<1>6. JobKept(j)
  BY <1>3, <1>4, ImportJobKept DEF Start, AcquireLock
<1> HIDE DEF j
<1> QED BY <1>4, <1>5, <1>6, StartKeeps

-----------------------------------------------------------------------------
(* StoreInv: writes *)

\* The facts about the operation of p that every write starts from.
LEMMA JobOf ==
  ASSUME StoreInv, NEW p \in Clients, job[p] # Idle
  PROVE  /\ job[p] \in Job /\ job[p].container \in Containers /\ JobKept(job[p])
         /\ LogNeedsContainer(job[p])
         /\ \A q \in Clients \ {p} : job[q] = Idle
BY Alone DEF StoreInv, AuditInv, JobsKept, LogsCreated

\* No step but the end of a removal makes a container whole again.
LEMMA DamageStays ==
  ASSUME AuditInv, NEW p \in Clients, job[p] # Idle, ~job[p].removing, half \subseteq half'
  PROVE  Undamaged' \subseteq Undamaged
BY Alone DEF Undamaged

\* container.json is written: from here on the container is there.
LEMMA SaveContainerKeeps ==
  ASSUME StoreInv, AuditInv', NEW p \in Clients, SaveContainer(p)
  PROVE  StoreInv'
<1> DEFINE c == job[p].container
           k == [job[p] EXCEPT !.create = FALSE]
<1>1. job[p] # Idle /\ job[p].create /\ ~job[p].removing
  BY DEF SaveContainer, NextWrite
<1>2. /\ job[p] \in Job /\ c \in Containers /\ JobKept(job[p])
  BY <1>1, JobOf
<1>3. /\ k \in Job /\ k.container = c /\ ~k.create /\ ~k.removing
      /\ k.revs = job[p].revs /\ k.events = job[p].events /\ k.written = job[p].written
      /\ k.docs = job[p].docs
  BY <1>1, <1>2 DEF Job
<1>4. job' = [job EXCEPT ![p] = k]
  BY DEF SaveContainer
<1> HIDE DEF k
<1>5. job'[p] = k /\ job'[p] # Idle /\ \A q \in Clients \ {p} : job'[q] = Idle
  BY <1>1, <1>3, <1>4, Rewritten DEF StoreInv
<1>6. /\ containers' = containers \cup {c} /\ revisions' = revisions /\ audit' = audit
      /\ acked' = acked /\ half' = half
  BY DEF SaveContainer, ghosts
<1>8. JobsKept'
  <2>1. Located(job[p])'
    BY <1>3, <1>5, <1>6 DEF Located
  <2>2. WholeHistory(job[p])' = WholeHistory(job[p])
    BY <1>3, <1>5, <1>6 DEF WholeHistory
  <2>3. ImportsWhole(job[p])' /\ EventsHold(job[p])'
    BY <1>1, <1>2, <1>3, <1>5, <1>6, <2>2 DEF JobKept, ImportsWhole, EventsHold
  <2> QED BY <1>5, <2>1, <2>3 DEF JobsKept, JobKept
<1>9. EmptyUntilCreated'
  BY <1>1, <1>6, DamageStays DEF StoreInv, EmptyUntilCreated
<1>10. AckedDurable'
  BY <1>6 DEF StoreInv, AckedDurable, Stored
<1> QED BY <1>8, <1>9, <1>10 DEF StoreInv

\* A write into a container that is there, or before it is: what the operation has on
\* disk and left to write stays the same history and the same events.
LEMMA WriteKeeps ==
  ASSUME StoreInv, AuditInv', NEW p \in Clients, job[p] # Idle, ~job[p].removing,
         NEW k \in Job, job' = [job EXCEPT ![p] = k],
         k.container = job[p].container, k.create = job[p].create, k.docs = job[p].docs,
         ~k.removing, ~job[p].create, UNCHANGED <<containers, acked, half>>,
         revisions'[k.container] \cup k.revs = WholeHistory(job[p]),
         \A c \in Containers : /\ revisions[c] \subseteq revisions'[c]
                               /\ audit[c] \subseteq audit'[c]
                               /\ c # k.container => revisions'[c] = revisions[c],
         \A ev \in k.events \cup {a.event : a \in k.written} :
           ev \in job[p].events \cup {a.event : a \in job[p].written},
         k.events = {} => k.written \subseteq audit'[k.container]
  PROVE  StoreInv'
<1>1. job[p].container \in Containers /\ JobKept(job[p])
  BY JobOf
<1>2. job'[p] = k /\ job'[p] # Idle /\ \A q \in Clients \ {p} : job'[q] = Idle
  BY Rewritten DEF StoreInv
<1>3. WholeHistory(job[p])' = WholeHistory(job[p])
  BY <1>2 DEF WholeHistory
<1>4. Located(job[p])'
  BY <1>1, <1>2 DEF JobKept, Located
<1>5. ImportsWhole(job[p])'
  BY <1>1, <1>2, <1>3 DEF JobKept, ImportsWhole
<1>6. EventsHold(job[p])'
  BY <1>1, <1>2, <1>3 DEF JobKept, EventsHold
<1>7. JobsKept'
  BY <1>2, <1>4, <1>5, <1>6 DEF JobsKept, JobKept
<1>8. job[p].container \in containers
  BY <1>1 DEF JobKept, Located
<1>9. EmptyUntilCreated'
  BY <1>8, DamageStays DEF StoreInv, EmptyUntilCreated
<1>10. AckedDurable'
  <2>1. \A x \in acked : x[1] \in Containers
    BY DEF StoreInv, AuditInv, TypeOK
  <2> QED BY <2>1 DEF StoreInv, AckedDurable, Stored
<1> QED BY <1>7, <1>9, <1>10 DEF StoreInv

\* append_audit_event numbers the event; nothing is on disk yet.
LEMMA NumberEventKeeps ==
  ASSUME StoreInv, AuditInv', NEW p \in Clients, NumberEvent(p)
  PROVE  StoreInv'
<1> DEFINE c == job[p].container
           W == {[seq |-> LastSeq(c) + 1, event |-> e] : e \in job[p].events}
           k == [job[p] EXCEPT !.written = W]
<1>1. /\ job[p] # Idle /\ job[p].events # {} /\ ~job[p].create /\ ~job[p].removing
  BY DEF NumberEvent, NextWrite
<1>2. job[p] \in Job /\ c \in Containers
  BY <1>1, JobOf
<1>3. W \in SUBSET AuditEvent /\ \A a \in W : a.event \in job[p].events
  <2>1. LastSeq(c) \in Nat
    BY <1>2, LastSeqIsLength DEF StoreInv, AuditInv
  <2> QED BY <1>2, <2>1 DEF Job, AuditEvent
<1>4. job' = [job EXCEPT ![p] = k] /\ UNCHANGED <<containers, revisions, audit, acked, half>>
  BY DEF NumberEvent, store, ghosts
<1> HIDE DEF W
<1>5. /\ k \in Job /\ k.container = c /\ k.create = job[p].create /\ ~k.removing
      /\ k.revs = job[p].revs /\ k.events = job[p].events /\ k.written = W
      /\ k.docs = job[p].docs
  BY <1>1, <1>2, <1>3 DEF Job
<1> HIDE DEF k
<1> QED BY <1>1, <1>3, <1>4, <1>5, WriteKeeps DEF WholeHistory

\* A created file is nothing yet.
LEMMA CreateFileKeeps ==
  ASSUME StoreInv, AuditInv', NEW p \in Clients, CreateFile(p)
  PROVE  StoreInv'
<1> DEFINE k == [job[p] EXCEPT !.writing = TRUE]
<1>1. job[p] # Idle /\ ~job[p].create /\ ~job[p].removing
  BY DEF CreateFile, NextWrite
<1>2. job[p] \in Job /\ JobKept(job[p])
  BY <1>1, JobOf
<1>3. job' = [job EXCEPT ![p] = k] /\ UNCHANGED <<containers, revisions, audit, acked, half>>
  BY DEF CreateFile, store, ghosts
<1>4. /\ k \in Job /\ k.container = job[p].container /\ k.create = job[p].create
      /\ ~k.removing /\ k.revs = job[p].revs /\ k.events = job[p].events
      /\ k.written = job[p].written /\ k.docs = job[p].docs
  BY <1>1, <1>2 DEF Job
<1> HIDE DEF k
<1> QED BY <1>1, <1>2, <1>3, <1>4, WriteKeeps DEF WholeHistory, JobKept, EventsHold

\* A revision moves from what is left to write to what is on disk.
LEMMA FillRevisionKeeps ==
  ASSUME StoreInv, AuditInv', NEW p \in Clients, FillRevision(p)
  PROVE  StoreInv'
<1> DEFINE c == job[p].container
<1>1. job[p] # Idle /\ ~job[p].create /\ ~job[p].removing
  BY DEF FillRevision, NextWrite
<1>2. job[p] \in Job /\ c \in Containers /\ JobKept(job[p])
  BY <1>1, JobOf
<1>3. PICK r \in job[p].revs :
        /\ revisions' = [revisions EXCEPT ![c] = @ \cup {r}]
        /\ job' = [job EXCEPT ![p].revs = @ \ {r}, ![p].writing = FALSE]
  BY DEF FillRevision, NextRevisions
<1> DEFINE k == [job[p] EXCEPT !.revs = @ \ {r}, !.writing = FALSE]
<1>4. /\ k \in Job /\ k.container = c /\ k.create = job[p].create /\ ~k.removing
      /\ k.revs = job[p].revs \ {r} /\ k.events = job[p].events
      /\ k.written = job[p].written /\ k.docs = job[p].docs
  BY <1>1, <1>2 DEF Job
<1>5. job' = [job EXCEPT ![p] = k] /\ UNCHANGED <<containers, audit, acked, half>>
  BY <1>2, <1>3 DEF FillRevision, ghosts, StoreInv, AuditInv, TypeOK
<1> HIDE DEF k
<1>6. /\ revisions'[c] = revisions[c] \cup {r}
      /\ \A d \in Containers \ {c} : revisions'[d] = revisions[d]
  BY <1>2, <1>3 DEF StoreInv, AuditInv, TypeOK
<1>7. revisions'[c] \cup k.revs = WholeHistory(job[p])
  BY <1>3, <1>4, <1>6 DEF WholeHistory
<1> QED BY <1>1, <1>2, <1>4, <1>5, <1>6, <1>7, WriteKeeps DEF JobKept, EventsHold

\* An environment file is replaced; revisions and log stay.
LEMMA SaveEnvironmentKeeps ==
  ASSUME StoreInv, AuditInv', NEW p \in Clients, SaveEnvironment(p)
  PROVE  StoreInv'
<1>1. job[p] # Idle /\ ~job[p].create /\ ~job[p].removing
  BY DEF SaveEnvironment, NextWrite
<1>2. job[p] \in Job /\ JobKept(job[p])
  BY <1>1, JobOf
<1>3. PICK x \in job[p].envs : job' = [job EXCEPT ![p].envs = @ \ {x}]
  BY DEF SaveEnvironment
<1> DEFINE k == [job[p] EXCEPT !.envs = @ \ {x}]
<1>4. /\ k \in Job /\ k.container = job[p].container /\ k.create = job[p].create
      /\ ~k.removing /\ k.revs = job[p].revs /\ k.events = job[p].events
      /\ k.written = job[p].written /\ k.docs = job[p].docs
  BY <1>1, <1>2 DEF Job
<1>5. job' = [job EXCEPT ![p] = k] /\ UNCHANGED <<containers, revisions, audit, acked, half>>
  BY <1>2, <1>3 DEF SaveEnvironment, ghosts, StoreInv, AuditInv, TypeOK
<1> HIDE DEF k
<1> QED BY <1>1, <1>2, <1>4, <1>5, WriteKeeps DEF WholeHistory, JobKept, EventsHold

\* The event is on disk before the caller is told.
LEMMA FillAuditKeeps ==
  ASSUME StoreInv, AuditInv', NEW p \in Clients, FillAudit(p)
  PROVE  StoreInv'
<1> DEFINE c == job[p].container
           k == [job[p] EXCEPT !.events = {}, !.writing = FALSE]
<1>1. job[p] # Idle /\ ~job[p].create /\ ~job[p].removing
  BY DEF FillAudit, NextWrite
<1>2. job[p] \in Job /\ c \in Containers
  BY <1>1, JobOf
<1>3. /\ k \in Job /\ k.container = c /\ k.create = job[p].create /\ ~k.removing
      /\ k.revs = job[p].revs /\ k.events = {} /\ k.written = job[p].written
      /\ k.docs = job[p].docs
  BY <1>1, <1>2 DEF Job
<1>4. job' = [job EXCEPT ![p] = k] /\ UNCHANGED <<containers, revisions, acked, half>>
  BY <1>2 DEF FillAudit, ghosts, StoreInv, AuditInv, TypeOK
<1> HIDE DEF k
<1>5. /\ audit'[c] = audit[c] \cup job[p].written
      /\ \A d \in Containers \ {c} : audit'[d] = audit[d]
  BY <1>2 DEF FillAudit, StoreInv, AuditInv, TypeOK
<1> QED BY <1>1, <1>3, <1>4, <1>5, WriteKeeps DEF WholeHistory

-----------------------------------------------------------------------------
(* StoreInv: the end of an operation *)

\* When an operation ends with the store as it is, nobody is left to account for.
LEMMA EndKeeps ==
  ASSUME StoreInv, AuditInv', NEW p \in Clients, job[p] # Idle,
         job' = [job EXCEPT ![p] = Idle], Undamaged' \subseteq Undamaged,
         UNCHANGED <<containers, revisions, audit, acked>>
  PROVE  StoreInv'
<1>1. JobsKept'
  BY Ended DEF StoreInv, JobsKept
<1>2. EmptyUntilCreated'
  BY DEF StoreInv, EmptyUntilCreated
<1>3. AckedDurable'
  BY DEF StoreInv, AckedDurable, Stored
<1> QED BY <1>1, <1>2, <1>3 DEF StoreInv

\* What Return acknowledges has been written.
LEMMA ReturnKeeps ==
  ASSUME StoreInv, AuditInv', NEW p \in Clients, Return(p)
  PROVE  StoreInv'
<1> DEFINE c == job[p].container
           told == {<<c, a>> : a \in {b \in job[p].written : b.event.result = "succeeded"}}
<1>1. /\ job[p] # Idle /\ ~job[p].create /\ ~job[p].removing
      /\ job[p].revs = {} /\ job[p].events = {}
  BY DEF Return, NextWrite
<1>2. job[p] \in Job /\ c \in Containers /\ JobKept(job[p])
  BY <1>1, JobOf
<1>3. /\ containers' = containers /\ revisions' = revisions /\ audit' = audit
      /\ half' = half /\ acked' = acked \cup told
  BY DEF Return, store
<1>4. \A q \in Clients : job'[q] = Idle
  BY <1>1, Ended DEF Return, StoreInv
<1>5. JobsKept'
  BY <1>4 DEF JobsKept
<1>6. c \in containers
  BY <1>1, <1>2 DEF JobKept, Located
<1>7. EmptyUntilCreated'
  BY <1>1, <1>3, <1>6, DamageStays DEF StoreInv, EmptyUntilCreated
<1>8. AckedDurable'
  <2> SUFFICES ASSUME NEW x \in acked'
               PROVE  /\ x[2] \in audit[x[1]]
                      /\ x[2].event.action = "revision.created" => Stored(x[1], x[2].event.version)
    BY <1>3 DEF AckedDurable, Stored
  <2>1. CASE x \in acked
    BY <2>1 DEF StoreInv, AckedDurable
  <2>2. CASE x \in told
    <3>1. PICK a \in job[p].written : x = <<c, a>>
      BY <2>2
    <3>2. a \in audit[c]
      BY <1>1, <1>2, <3>1 DEF JobKept, EventsHold
    <3>3. a.event.action = "revision.created" => Stored(c, a.event.version)
      BY <1>1, <1>2, <3>1 DEF JobKept, EventsHold, WholeHistory, Stored
    <3> QED BY <3>1, <3>2, <3>3
  <2> HIDE DEF told
  <2> QED BY <1>3, <2>1, <2>2
<1> QED BY <1>5, <1>7, <1>8 DEF StoreInv

\* CorruptStoreError in append_audit_event: the operation ends as it is.
LEMMA AuditUnreadableKeeps ==
  ASSUME StoreInv, AuditInv', NEW p \in Clients, AuditUnreadable(p)
  PROVE  StoreInv'
<1>1. /\ job[p] # Idle /\ ~job[p].removing /\ job' = [job EXCEPT ![p] = Idle]
      /\ UNCHANGED <<containers, revisions, audit, acked, half>>
  BY DEF AuditUnreadable, NextWrite, store
<1>2. Undamaged' \subseteq Undamaged
  BY <1>1, DamageStays DEF StoreInv
<1> QED BY <1>1, <1>2, EndKeeps

\* A container whose removal stops half way is half removed for good.
LEMMA RemovalStops ==
  ASSUME AuditInv, NEW p \in Clients, job[p] # Idle, job[p].removing,
         half' = half \cup {job[p].container}
  PROVE  Undamaged' \subseteq Undamaged
BY Alone DEF Undamaged

\* The death of a process leaves what is on disk.
LEMMA CrashKeeps ==
  ASSUME StoreInv, AuditInv', NEW p \in Clients, Crash(p)
  PROVE  StoreInv'
<1>1. /\ job[p] # Idle /\ job' = [job EXCEPT ![p] = Idle]
      /\ UNCHANGED <<containers, revisions, audit, acked>>
      /\ half' = IF job[p].removing THEN half \cup {job[p].container} ELSE half
  BY DEF Crash
<1>2. Undamaged' \subseteq Undamaged
  <2>1. CASE job[p].removing
    BY <1>1, <2>1, RemovalStops DEF StoreInv
  <2>2. CASE ~job[p].removing
    BY <1>1, <2>2, DamageStays DEF StoreInv
  <2> QED BY <2>1, <2>2
<1> QED BY <1>1, <1>2, EndKeeps

\* An operation that raises ends, an import after it has taken away what it wrote.
LEMMA RaiseKeeps ==
  ASSUME StoreInv, AuditInv', NEW p \in Clients, job[p] # Idle, ~job[p].removing, Raise(p),
         UNCHANGED <<containers, revisions, audit, acked, half>>
  PROVE  StoreInv'
<1> DEFINE k == [NoWrites(job[p].container) EXCEPT !.removing = TRUE]
<1>0. Undamaged' \subseteq Undamaged
  BY DamageStays DEF StoreInv
<1>1. CASE job[p].docs = {}
  BY <1>0, <1>1, EndKeeps DEF Raise
<1>2. CASE job[p].docs # {}
  <2>1. job' = [job EXCEPT ![p] = k]
    BY <1>2 DEF Raise
  <2>2. k.container = job[p].container /\ k.removing /\ k.events = {} /\ k.written = {}
    BY DEF NoWrites
  <2> HIDE DEF k
  <2>3. job'[p] = k /\ \A q \in Clients \ {p} : job'[q] = Idle
    BY <2>1, Alone DEF StoreInv, AuditInv, TypeOK
  <2>4. \A x \in acked : x[1] # job[p].container
    BY <1>2, JobOf DEF JobKept, ImportsWhole
  <2>5. JobKept(job[p])'
    BY <2>2, <2>3, <2>4 DEF JobKept, Located, ImportsWhole, EventsHold
  <2>6. JobsKept'
    BY <2>3, <2>5 DEF JobsKept
  <2>7. EmptyUntilCreated'
    BY <1>0 DEF StoreInv, EmptyUntilCreated
  <2>8. AckedDurable'
    BY DEF StoreInv, AckedDurable, Stored
  <2> QED BY <2>6, <2>7, <2>8 DEF StoreInv
<1> QED BY <1>1, <1>2

\* rmtree works on a container nobody was told of.
LEMMA RemoveFileKeeps ==
  ASSUME StoreInv, AuditInv', NEW p \in Clients, RemoveFile(p)
  PROVE  StoreInv'
<1> DEFINE c == job[p].container
<1>1. /\ job[p] # Idle /\ job[p].removing /\ UNCHANGED <<job, acked, half>>
  BY DEF RemoveFile, NextWrite, ghosts
<1>2. /\ c \in Containers /\ JobKept(job[p]) /\ LogNeedsContainer(job[p])
      /\ \A q \in Clients \ {p} : job[q] = Idle
  BY <1>1, JobOf
<1>3. \A d \in Containers \ {c} :
        /\ d \in containers' <=> d \in containers
        /\ revisions'[d] = revisions[d] /\ audit'[d] = audit[d]
  <2>1. /\ containers' = containers \/ containers' = containers \ {c}
        /\ revisions' = revisions \/ \E r : revisions' = [revisions EXCEPT ![c] = @ \ {r}]
        /\ audit' = audit \/ \E a : audit' = [audit EXCEPT ![c] = @ \ {a}]
    BY DEF RemoveFile
  <2> QED BY <1>2, <2>1 DEF StoreInv, AuditInv, TypeOK
<1>4. \A x \in acked : x[1] # c /\ x[1] \in Containers
  BY <1>1, <1>2 DEF JobKept, ImportsWhole, StoreInv, AuditInv, TypeOK
<1>5. JobsKept'
  <2>1. JobKept(job[p])'
    BY <1>1, <1>2 DEF JobKept, Located, ImportsWhole, EventsHold, LogNeedsContainer
  <2> QED BY <1>1, <1>2, <2>1 DEF JobsKept
<1>6. EmptyUntilCreated'
  <2>1. c \notin Undamaged'
    BY <1>1 DEF Undamaged
  <2>2. Undamaged' = Undamaged
    BY <1>1 DEF Undamaged
  <2> QED BY <1>1, <1>3, <1>4, <2>1, <2>2 DEF StoreInv, EmptyUntilCreated
<1>7. AckedDurable'
  BY <1>1, <1>3, <1>4 DEF StoreInv, AckedDurable, Stored
<1> QED BY <1>5, <1>6, <1>7 DEF StoreInv

\* The removal is done: the container is not there, and empty.
LEMMA RemovedKeeps ==
  ASSUME StoreInv, AuditInv', NEW p \in Clients, Removed(p)
  PROVE  StoreInv'
<1>1. /\ job[p] # Idle /\ job' = [job EXCEPT ![p] = Idle]
      /\ UNCHANGED <<containers, revisions, audit, acked>>
      /\ revisions[job[p].container] = {} /\ half' = half \ {job[p].container}
  BY DEF Removed, store
<1>2. JobsKept'
  BY <1>1, Ended DEF StoreInv, JobsKept
<1>3. \A d \in Undamaged' : d \in Undamaged \/ d = job[p].container
  BY <1>1, Alone DEF Undamaged, StoreInv
<1>4. EmptyUntilCreated'
  BY <1>1, <1>3 DEF StoreInv, EmptyUntilCreated
<1>5. AckedDurable'
  BY <1>1 DEF StoreInv, AckedDurable, Stored
<1> QED BY <1>2, <1>4, <1>5 DEF StoreInv

\* The removal is cut short by an error.
LEMMA RemovalFailsKeeps ==
  ASSUME StoreInv, AuditInv', NEW p \in Clients, RemovalFails(p)
  PROVE  StoreInv'
<1>1. /\ job[p] # Idle /\ job[p].removing /\ job' = [job EXCEPT ![p] = Idle]
      /\ UNCHANGED <<containers, revisions, audit, acked>>
      /\ half' = half \cup {job[p].container}
  BY DEF RemovalFails, NextWrite, store
<1>2. Undamaged' \subseteq Undamaged
  BY <1>1, RemovalStops DEF StoreInv
<1> QED BY <1>1, <1>2, EndKeeps

\* A failed write, and a file in the way, make the operation raise.
LEMMA WriteFailsKeeps ==
  ASSUME StoreInv, AuditInv', NEW p \in Clients, WriteFails(p) \/ MeetsLeftover(p)
  PROVE  StoreInv'
<1>1. CASE WriteFails(p)
  BY <1>1, RaiseKeeps DEF WriteFails
<1>2. CASE MeetsLeftover(p)
  BY <1>2, RaiseKeeps DEF MeetsLeftover, NextWrite, store, ghosts
<1> QED BY <1>1, <1>2

-----------------------------------------------------------------------------
\* An empty store satisfies StoreInv.
LEMMA InitStoreInv == Init => StoreInv
<1> SUFFICES ASSUME Init PROVE StoreInv
  OBVIOUS
<1>1. AuditInv
  BY InitEstablishesAuditInv
<1>2. JobsKept /\ EmptyUntilCreated /\ AckedDurable
  BY DEF Init, JobsKept, EmptyUntilCreated, AckedDurable
<1> QED BY <1>1, <1>2 DEF StoreInv

\* Every step of the control plane keeps StoreInv.
LEMMA NextStoreInv == StoreInv /\ [Next]_vars => StoreInv'
<1> SUFFICES ASSUME StoreInv, [Next]_vars PROVE StoreInv'
  OBVIOUS
<1>0. AuditInv'
  BY NextPreservesAuditInv DEF StoreInv
<1>1. CASE UNCHANGED vars
  BY <1>0, <1>1, IdleStepKeeps DEF vars, ghosts
<1>2. ASSUME NEW p \in Clients, Operation(p) PROVE StoreInv'
  <2>1. ASSUME NEW c \in Containers, ExportContainer(p, c) PROVE StoreInv'
    BY <1>0, <2>1, IdleStepKeeps DEF ExportContainer, ghosts
  <2> QED BY <1>0, <1>2, <2>1, CreateContainerKeeps, CreateRevisionKeeps,
             CreateEnvironmentKeeps, ActivateKeeps, RollbackKeeps, ImportAsKeeps DEF Operation
<1>3. ASSUME NEW p \in Clients, Import(p) PROVE StoreInv'
  BY <1>0, <1>3, ImportSameKeeps DEF Import
<1>4. ASSUME NEW p \in Clients, Write(p) PROVE StoreInv'
  BY <1>0, <1>4, SaveContainerKeeps, NumberEventKeeps, CreateFileKeeps, FillRevisionKeeps,
     SaveEnvironmentKeeps, FillAuditKeeps, ReturnKeeps, AuditUnreadableKeeps, WriteFailsKeeps,
     RemoveFileKeeps, RemovedKeeps DEF Write
<1>5. ASSUME NEW p \in Clients, Fault(p) PROVE StoreInv'
  BY <1>0, <1>5, WriteFailsKeeps, RemovalFailsKeeps, CrashKeeps DEF Fault
<1> QED BY <1>1, <1>2, <1>3, <1>4, <1>5 DEF Next

\* StoreInv is an invariant of the control plane.
LEMMA StoreInvHolds == Spec => []StoreInv
BY InitStoreInv, NextStoreInv, PTL DEF Spec

\* What create_revision, create_environment and the switches returned is on disk for
\* good: no crash, failed write or removal of a half-imported container by another
\* operation takes it away.
THEOREM AckedDurableHolds == Spec => []AckedDurable
<1>1. StoreInv => AckedDurable
  BY DEF StoreInv
<1> QED BY <1>1, StoreInvHolds, PTL

\* An import_container that returns leaves the document's whole history in the
\* container, under its own versions or remapped ones, unless files of an earlier
\* import had been left under that id.
THEOREM ImportReturnsWholeHistoryHolds == Spec => ImportReturnsWholeHistory
<1> DEFINE Whole == \A x \in imports' \ imports :
                      x.container \notin half => SameHistory(revisions[x.container], x.doc.revs)
<1>1. StoreInv /\ [Next]_vars => [Whole]_vars
  <2> SUFFICES ASSUME StoreInv, Next, NEW x \in imports' \ imports, x.container \notin half
               PROVE  SameHistory(revisions[x.container], x.doc.revs)
    OBVIOUS
  <2>1. PICK p \in Clients : Operation(p) \/ Import(p) \/ Write(p) \/ Fault(p)
    BY DEF Next
  <2>2. imports' = imports
        \/ (\E d \in exports : SameFingerprints(revisions[d.source], d.revs)
                                 /\ imports' = imports \cup {[container |-> d.source, doc |-> d]})
        \/ Return(p)
    <3>1. CASE Operation(p)
      <4> SUFFICES UNCHANGED ghosts
        BY DEF ghosts
      <4>1. \A c : CreateContainer(p, c) \/ ExportContainer(p, c) => UNCHANGED ghosts
        BY DEF CreateContainer, ExportContainer
      <4>2. \A c, v, payload, expected :
              CreateRevision(p, c, v, payload, expected) => UNCHANGED ghosts
        BY DEF CreateRevision
      <4>3. \A c, e, protected : CreateEnvironment(p, c, e, protected) => UNCHANGED ghosts
        BY DEF CreateEnvironment
      <4>4. \A c, e, target, expected, allow :
              ActivateEnvironment(p, c, e, target, expected, allow) => UNCHANGED ghosts
        BY DEF ActivateEnvironment
      <4>5. \A c, e, expected, allow :
              RollbackEnvironment(p, c, e, expected, allow) => UNCHANGED ghosts
        BY DEF RollbackEnvironment
      <4>6. \A d, c, f : ImportAs(p, d, c, f) => UNCHANGED ghosts
        BY DEF ImportAs
      <4> QED BY <3>1, <4>1, <4>2, <4>3, <4>4, <4>5, <4>6 DEF Operation
    <3>2. CASE Import(p)
      BY <3>2 DEF Import, ImportSame, ghosts
    <3>3. CASE Write(p)
      BY <3>3 DEF Write, SaveContainer, NumberEvent, CreateFile, FillRevision, SaveEnvironment,
           FillAudit, AuditUnreadable, MeetsLeftover, RemoveFile, Removed, ghosts
    <3>4. CASE Fault(p)
      BY <3>4 DEF Fault, WriteFails, RemovalFails, Crash
    <3> QED BY <2>1, <3>1, <3>2, <3>3, <3>4
  <2>3. ASSUME NEW d \in exports, SameFingerprints(revisions[d.source], d.revs),
               imports' = imports \cup {[container |-> d.source, doc |-> d]}
        PROVE  SameHistory(revisions[x.container], x.doc.revs)
    <3>1. x = [container |-> d.source, doc |-> d]
      BY <2>3
    <3> QED BY <2>3, <3>1 DEF SameFingerprints, SameHistory
  <2>4. CASE Return(p)
    <3>1. PICK d \in job[p].docs : x = [container |-> job[p].container, doc |-> d]
      BY <2>4 DEF Return
    <3>2. job[p] # Idle /\ ~job[p].removing /\ job[p].revs = {}
      BY <2>4 DEF Return, NextWrite
    <3>3. SameHistory(WholeHistory(job[p]), d.revs)
      BY <3>1, <3>2, JobOf DEF JobKept, ImportsWhole
    <3>4. WholeHistory(job[p]) = revisions[job[p].container]
      BY <3>2 DEF WholeHistory
    <3> QED BY <3>1, <3>3, <3>4
  <2> QED BY <2>2, <2>3, <2>4
<1> QED BY <1>1, StoreInvHolds, PTL DEF Spec, ImportReturnsWholeHistory

-----------------------------------------------------------------------------
(* Files nobody will fill *)

TornFiles == {x \in Containers \X {"revision", "audit"} : x[2] \in torn[x[1]]}

TornInv == AuditInv /\ IsFiniteSet(TornFiles) /\ TornTakesTwo

\* One more file, and all of them together with what it cost.
LEMMA OneMoreTorn ==
  ASSUME TornInv, IsFiniteSet(TornFiles), NEW p \in Clients, job[p] # Idle, LeavesFile(p)
  PROVE  /\ IsFiniteSet(TornFiles')
         /\ Cardinality(TornFiles') <= Cardinality(TornFiles) + 1
<1> DEFINE x == <<job[p].container, NextWrite(job[p])>>
<1>1. TornFiles' \subseteq TornFiles \cup {x}
  BY DEF LeavesFile, TornFiles, TornInv, AuditInv, TypeOK
<1> HIDE DEF x
<1>2. /\ IsFiniteSet(TornFiles \cup {x}) /\ Cardinality(TornFiles) \in Nat
      /\ Cardinality(TornFiles \cup {x}) <= Cardinality(TornFiles) + 1
  <2>1. Cardinality(TornFiles) \in Nat
    BY FS_CardinalityType
  <2>2. /\ IsFiniteSet(TornFiles \cup {x})
        /\ \/ Cardinality(TornFiles \cup {x}) = Cardinality(TornFiles)
           \/ Cardinality(TornFiles \cup {x}) = Cardinality(TornFiles) + 1
    BY FS_AddElement
  <2> QED BY <2>1, <2>2
<1>3. /\ IsFiniteSet(TornFiles') /\ Cardinality(TornFiles') \in Nat
      /\ Cardinality(TornFiles \cup {x}) \in Nat
      /\ Cardinality(TornFiles') <= Cardinality(TornFiles \cup {x})
  BY <1>1, <1>2, FS_Subset, FS_CardinalityType
<1> QED BY <1>2, <1>3

\* No more files, and no fewer deaths and failures.
LEMMA NoMoreTorn ==
  ASSUME TornInv, AuditInv', TornFiles' \subseteq TornFiles,
         crashes <= crashes', failures <= failures'
  PROVE  TornInv'
<1>1. /\ IsFiniteSet(TornFiles') /\ Cardinality(TornFiles') \in Nat
      /\ Cardinality(TornFiles) \in Nat /\ Cardinality(TornFiles') <= Cardinality(TornFiles)
  BY FS_Subset, FS_CardinalityType DEF TornInv
<1>2. 2 * Cardinality(TornFiles) <= 2 * crashes + failures
  BY DEF TornInv, TornTakesTwo, TornFiles
<1>3. /\ crashes \in Nat /\ failures \in Nat /\ crashes' \in Nat /\ failures' \in Nat
  BY DEF TornInv, AuditInv, TypeOK
<1>4. 2 * Cardinality(TornFiles') <= 2 * crashes' + failures'
  BY <1>1, <1>2, <1>3
<1> QED BY <1>1, <1>4 DEF TornInv, TornTakesTwo, TornFiles

\* A file left behind by a death, or by a write and the unlink after it.
LEMMA TornKeeps ==
  ASSUME TornInv, AuditInv', NEW p \in Clients, job[p] # Idle, LeavesFile(p),
         2 * crashes' + failures' = 2 * crashes + failures + 2
  PROVE  TornInv'
<1>1. /\ IsFiniteSet(TornFiles')
      /\ Cardinality(TornFiles') <= Cardinality(TornFiles) + 1
  BY OneMoreTorn DEF TornInv
<1>2. 2 * Cardinality(TornFiles) <= 2 * crashes + failures
  BY DEF TornInv, TornTakesTwo, TornFiles
<1>3. /\ Cardinality(TornFiles') \in Nat /\ Cardinality(TornFiles) \in Nat
      /\ crashes \in Nat /\ failures \in Nat /\ crashes' \in Nat /\ failures' \in Nat
  BY <1>1, FS_CardinalityType DEF TornInv, AuditInv, TypeOK
<1>4. 2 * Cardinality(TornFiles') <= 2 * crashes' + failures'
  <2>1. \A m, n, c, f, cc, ff \in Nat :
          n <= m + 1 /\ 2 * m <= 2 * c + f /\ 2 * cc + ff = 2 * c + f + 2 => 2 * n <= 2 * cc + ff
    OBVIOUS
  <2> HIDE DEF TornFiles
  <2> QED BY <1>1, <1>2, <1>3, <2>1
<1> QED BY <1>1, <1>4 DEF TornInv, TornTakesTwo, TornFiles

\* Operations and imports leave torn files and the counters alone.
LEMMA OperationLeavesTorn ==
  ASSUME NEW p \in Clients, Operation(p) \/ Import(p)
  PROVE  torn' = torn /\ crashes' = crashes /\ failures' = failures
<1>1. \A c : CreateContainer(p, c) \/ ExportContainer(p, c) => UNCHANGED <<store, bounds>>
  BY DEF CreateContainer, ExportContainer
<1>2. \A c, v, payload, expected :
        CreateRevision(p, c, v, payload, expected) => UNCHANGED <<store, bounds>>
  BY DEF CreateRevision
<1>3. \A c, e, protected : CreateEnvironment(p, c, e, protected) => UNCHANGED <<store, bounds>>
  BY DEF CreateEnvironment
<1>4. \A c, e, target, expected, allow :
        ActivateEnvironment(p, c, e, target, expected, allow) => UNCHANGED <<store, bounds>>
  BY DEF ActivateEnvironment
<1>5. \A c, e, expected, allow :
        RollbackEnvironment(p, c, e, expected, allow) => UNCHANGED <<store, bounds>>
  BY DEF RollbackEnvironment
<1>6. \A d, c, f : ImportAs(p, d, c, f) => UNCHANGED <<store, bounds>>
  BY DEF ImportAs
<1>7. \A d : ImportSame(p, d) => UNCHANGED <<store, bounds>>
  BY DEF ImportSame
<1>8. UNCHANGED <<store, bounds>>
  BY <1>1, <1>2, <1>3, <1>4, <1>5, <1>6, <1>7 DEF Operation, Import
<1> QED BY <1>8 DEF store, bounds

\* Every step keeps the count of torn files.
LEMMA NextTornInv == TornInv /\ [Next]_vars => TornInv'
<1> SUFFICES ASSUME TornInv, [Next]_vars PROVE TornInv'
  OBVIOUS
<1>0. AuditInv' /\ crashes \in Nat /\ failures \in Nat
  BY NextPreservesAuditInv DEF TornInv, AuditInv, TypeOK
<1>1. ASSUME torn' = torn, crashes' = crashes, failures' = failures PROVE TornInv'
  BY <1>0, <1>1, NoMoreTorn DEF TornFiles
<1>2. CASE UNCHANGED vars
  BY <1>1, <1>2 DEF vars, store, bounds
<1>3. ASSUME NEW p \in Clients, Operation(p) \/ Import(p) PROVE TornInv'
  BY <1>1, <1>3, OperationLeavesTorn
<1>4. ASSUME NEW p \in Clients, Write(p) PROVE TornInv'
  <2>1. CASE RemoveFile(p)
    <3>1. crashes' = crashes /\ failures' = failures
      BY <2>1 DEF RemoveFile, bounds
    <3>2. torn' = torn \/ \E kind : torn' = [torn EXCEPT ![job[p].container] = @ \ {kind}]
      BY <2>1 DEF RemoveFile
    <3>3. TornFiles' \subseteq TornFiles
      BY <3>2 DEF TornFiles, TornInv, AuditInv, TypeOK
    <3> QED BY <1>0, <3>1, <3>3, NoMoreTorn
  <2>2. CASE SaveEnvironment(p)
    <3>1. crashes' = crashes /\ failures' = failures
      BY <2>2 DEF SaveEnvironment, bounds
    <3>2. torn' = torn \/ torn' = [torn EXCEPT ![job[p].container] = @ \cup {"environment"}]
      BY <2>2 DEF SaveEnvironment
    <3>3. TornFiles' \subseteq TornFiles
      BY <3>2 DEF TornFiles, TornInv, AuditInv, TypeOK
    <3> QED BY <1>0, <3>1, <3>3, NoMoreTorn
  <2>3. ~RemoveFile(p) /\ ~SaveEnvironment(p) =>
          torn' = torn /\ crashes' = crashes /\ failures' = failures
    BY <1>4 DEF Write, SaveContainer, NumberEvent, CreateFile, FillRevision, FillAudit, Return,
         AuditUnreadable, MeetsLeftover, Removed, store, bounds
  <2> QED BY <1>1, <2>1, <2>2, <2>3
<1>5. ASSUME NEW p \in Clients, Fault(p) PROVE TornInv'
  <2>1. CASE WriteFails(p)
    <3>1. job[p] # Idle /\ crashes' = crashes
      BY <2>1 DEF WriteFails
    <3>2. CASE failures' = failures + 1 /\ torn' = torn
      <4>1. TornFiles' \subseteq TornFiles /\ crashes <= crashes' /\ failures <= failures'
        BY <1>0, <3>1, <3>2 DEF TornFiles
      <4> QED BY <1>0, <4>1, NoMoreTorn
    <3>3. CASE failures' = failures + 2 /\ LeavesFile(p)
      <4>1. 2 * crashes' + failures' = 2 * crashes + failures + 2
        BY <1>0, <3>1, <3>3
      <4> QED BY <1>0, <3>1, <3>3, <4>1, TornKeeps
    <3> QED BY <2>1, <3>2, <3>3 DEF WriteFails
  <2>2. CASE RemovalFails(p)
    <3>1. TornFiles' \subseteq TornFiles /\ crashes <= crashes' /\ failures <= failures'
      BY <1>0, <2>2 DEF RemovalFails, TornFiles, store
    <3> QED BY <1>0, <3>1, NoMoreTorn
  <2>3. CASE Crash(p)
    <3>1. job[p] # Idle /\ crashes' = crashes + 1 /\ failures' = failures
      BY <2>3 DEF Crash
    <3>2. CASE LeavesFile(p)
      <4>1. 2 * crashes' + failures' = 2 * crashes + failures + 2
        BY <1>0, <3>1
      <4> QED BY <1>0, <3>1, <3>2, <4>1, TornKeeps
    <3>3. CASE torn' = torn
      <4>1. TornFiles' \subseteq TornFiles /\ crashes <= crashes' /\ failures <= failures'
        BY <1>0, <3>1, <3>3 DEF TornFiles
      <4> QED BY <1>0, <4>1, NoMoreTorn
    <3> QED BY <2>3, <3>2, <3>3 DEF Crash
  <2> QED BY <1>5, <2>1, <2>2, <2>3 DEF Fault
<1> QED BY <1>2, <1>3, <1>4, <1>5 DEF Next

\* _write_document_exclusive: every file that nobody will fill has cost the death of a
\* process, or a failed write and a failed unlink, for any number of clients; meeting
\* such a file, and an error that is cleaned up, leave none.
THEOREM TornTakesTwoHolds == Spec => []TornTakesTwo
<1>1. Init => TornInv
  <2> SUFFICES ASSUME Init PROVE TornInv OBVIOUS
  <2>1. AuditInv /\ crashes = 0 /\ failures = 0
    BY InitEstablishesAuditInv DEF Init
  <2>2. TornFiles = {}
    BY DEF Init, TornFiles
  <2>3. IsFiniteSet(TornFiles) /\ Cardinality(TornFiles) = 0
    BY <2>2, FS_EmptySet
  <2> QED BY <2>1, <2>3 DEF TornInv, TornTakesTwo, TornFiles
<1>2. TornInv => TornTakesTwo
  BY DEF TornInv
<1> QED BY <1>1, <1>2, NextTornInv, PTL DEF Spec

-----------------------------------------------------------------------------
(* Lines of history *)

Numbers(R) == {r.number : r \in R}

\* The parts of Linear that hold of every subset of a line of history.
Ordered(R) ==
  /\ \A r, s \in R : r.number = s.number \/ r.version = s.version => r = s
  /\ \A r \in R : r.number = 1 => r.parent = NoVersion
  /\ \A r, s \in R : s.number = r.number + 1 => s.parent = r.version

\* Linear splits into what subsets inherit and the numbers having no gap.
LEMMA LinearIs ==
  ASSUME NEW R
  PROVE  Linear(R) <=> Ordered(R) /\ Contiguous(Numbers(R))
BY DEF Linear, Ordered, Numbers

\* A container without revisions has a line of history, the empty one.
LEMMA NothingLinear == Linear({})
<1>1. Numbers({}) = {} /\ Ordered({})
  BY DEF Numbers, Ordered
<1>2. Contiguous({})
  BY DEF Contiguous
<1> QED BY <1>1, <1>2, LinearIs

\* The numbers of a line of history end where its length says.
LEMMA LinearLength ==
  ASSUME NEW R \in SUBSET Revision, Linear(R)
  PROVE  \E n \in Nat : Numbers(R) = 1 .. n
<1>1. \A r \in R : r.number \in Nat
  BY DEF Revision
<1>2. PICK n \in Numbers(R) \cup {0} : Numbers(R) = 1 .. n
  BY LinearIs DEF Contiguous
<1>3. n \in Nat
  BY <1>1, <1>2 DEF Numbers
<1> QED BY <1>2, <1>3

\* 1 .. n and the next number.
LEMMA OneMore ==
  ASSUME NEW n \in Nat
  PROVE  (1 .. n) \cup {n + 1} = 1 .. (n + 1)
OBVIOUS

\* A set of revisions whose numbers are 1 .. n is without a gap.
LEMMA ContiguousUpTo ==
  ASSUME NEW N, NEW n \in Nat, N = 1 .. n
  PROVE  Contiguous(N)
<1>1. CASE n = 0
  BY <1>1 DEF Contiguous
<1>2. CASE n # 0
  <2>1. n \in N
    BY <1>2
  <2> QED BY <2>1 DEF Contiguous
<1> QED BY <1>1, <1>2

\* The latest revision of a line of history is its last.
LEMMA LatestIsLast ==
  ASSUME NEW R \in SUBSET Revision, Linear(R), R # {}
  PROVE  /\ Latest(R) \in R /\ Latest(R).number \in Nat \ {0}
         /\ Numbers(R) = 1 .. Latest(R).number
<1>1. PICK n \in Nat : Numbers(R) = 1 .. n
  BY LinearLength
<1>2. \A r \in R : r.number \in 1 .. n
  BY <1>1 DEF Numbers
<1>3. n \in Numbers(R)
  <2>1. PICK r \in R : TRUE
    OBVIOUS
  <2>2. r.number \in 1 .. n
    BY <1>2, <2>1
  <2> QED BY <1>1, <2>2
<1>4. PICK t \in R : t.number = n
  BY <1>3 DEF Numbers
<1>5. \A s \in R : s.number <= t.number
  BY <1>2, <1>4
<1>6. Latest(R) \in R /\ \A s \in R : s.number <= Latest(R).number
  BY <1>5 DEF Latest
<1>7. Latest(R).number \in 1 .. n /\ n <= Latest(R).number
  BY <1>2, <1>4, <1>6
<1>8. Latest(R).number = n
  BY <1>7
<1> QED BY <1>1, <1>6, <1>7, <1>8

\* create_revision: the next number and the latest version as parent.
LEMMA LinearAppend ==
  ASSUME NEW R \in SUBSET Revision, Linear(R), NEW r \in Revision,
         r.version \notin VersionsOf(R),
         IF R = {} THEN r.number = 1 /\ r.parent = NoVersion
         ELSE r.number = Latest(R).number + 1 /\ r.parent = Latest(R).version
  PROVE  Linear(R \cup {r}) /\ \A s \in R : s.number < r.number
<1>1. PICK n \in Nat : /\ Numbers(R) = 1 .. n /\ r.number = n + 1
                       /\ n = 0 => r.parent = NoVersion
                       /\ \A s \in R : s.number = n => s.version = r.parent
  <2>1. CASE R = {}
    <3>1. Numbers(R) = {}
      BY <2>1 DEF Numbers
    <3>2. Numbers(R) = 1 .. 0
      BY <3>1
    <3>3. /\ 0 \in Nat /\ r.number = 0 + 1 /\ r.parent = NoVersion
          /\ \A s \in R : s.number = 0 => s.version = r.parent
      BY <2>1
    <3> QED BY <3>2, <3>3
  <2>2. CASE R # {}
    <3>1. /\ Latest(R) \in R /\ Latest(R).number \in Nat \ {0}
          /\ Numbers(R) = 1 .. Latest(R).number
      BY <2>2, LatestIsLast
    <3>2. \A s \in R : s.number = Latest(R).number => s.version = r.parent
      BY <2>2, <3>1 DEF Linear
    <3>3. r.number = Latest(R).number + 1
      BY <2>2
    <3> DEFINE m == Latest(R).number
    <3>4. /\ m \in Nat /\ m # 0 /\ Numbers(R) = 1 .. m /\ r.number = m + 1
          /\ \A s \in R : s.number = m => s.version = r.parent
      BY <3>1, <3>2, <3>3
    <3> HIDE DEF m
    <3> QED BY <3>4
  <2> QED BY <2>1, <2>2
<1>2. \A s \in R : s.number \in 1 .. n
  BY <1>1 DEF Numbers
<1>3. \A s \in R : s.number < r.number /\ s.number # r.number + 1 /\ s.number \in Nat
  BY <1>1, <1>2
<1>4. \A s \in R : s.version # r.version
  BY DEF VersionsOf
<1>5. Numbers(R \cup {r}) = 1 .. (n + 1)
  <2>1. Numbers(R \cup {r}) = Numbers(R) \cup {n + 1}
    BY <1>1 DEF Numbers
  <2> QED BY <1>1, <2>1, OneMore
<1>6. Contiguous(Numbers(R \cup {r}))
  BY <1>5, ContiguousUpTo
<1>7. Ordered(R \cup {r})
  <2>1. Ordered(R)
    BY LinearIs
  <2>2. \A s, t \in R \cup {r} : s.number = t.number \/ s.version = t.version => s = t
    BY <1>3, <1>4, <2>1 DEF Ordered
  <2>3. \A s \in R \cup {r} : s.number = 1 => s.parent = NoVersion
    BY <1>1, <2>1 DEF Ordered
  <2>4. ASSUME NEW s \in R \cup {r}, NEW t \in R \cup {r}, t.number = s.number + 1
        PROVE  t.parent = s.version
    <3>1. CASE s \in R /\ t \in R
      BY <2>1, <2>4, <3>1 DEF Ordered
    <3>2. CASE s = r
      BY <1>1, <1>3, <2>4, <3>2
    <3>3. CASE s \in R /\ t = r
      <4>1. s.number = n
        BY <1>1, <1>3, <2>4, <3>3
      <4> QED BY <1>1, <3>3, <4>1
    <3> QED BY <3>1, <3>2, <3>3
  <2> QED BY <2>2, <2>3, <2>4 DEF Ordered
<1> QED BY <1>3, <1>6, <1>7, LinearIs

\* Of a line of history whose start R is written, the first revision of the rest S
\* comes next.
LEMMA LinearNext ==
  ASSUME NEW R \in SUBSET Revision, NEW S \in SUBSET Revision, Linear(R), Linear(R \cup S),
         \A r \in R, s \in S : r.number < s.number,
         NEW f \in S, \A s \in S : f.number <= s.number
  PROVE  /\ Linear(R \cup {f})
         /\ \A r \in R \cup {f}, s \in S \ {f} : r.number < s.number
<1>1. PICK m \in Nat : Numbers(R) = 1 .. m
  BY LinearLength
<1>2. PICK n \in Nat : Numbers(R \cup S) = 1 .. n
  <2>1. R \cup S \in SUBSET Revision
    OBVIOUS
  <2> QED BY <2>1, LinearLength
<1>3. f.number \in 1 .. n
  BY <1>2 DEF Numbers
<1>4. f.number > m
  <2>1. CASE m = 0
    BY <1>3, <2>1
  <2>2. CASE m # 0
    <3>1. m \in Numbers(R)
      BY <1>1, <2>2
    <3>2. PICK r \in R : r.number = m
      BY <3>1 DEF Numbers
    <3> QED BY <1>3, <3>2
  <2> QED BY <2>1, <2>2
<1>5. f.number = m + 1
  <2>1. m + 1 \in Numbers(R \cup S)
    BY <1>2, <1>3, <1>4
  <2>2. PICK s \in R \cup S : s.number = m + 1
    BY <2>1 DEF Numbers
  <2>3. s \notin R
    <3>1. m + 1 \notin Numbers(R)
      BY <1>1
    <3> QED BY <2>2, <3>1 DEF Numbers
  <2>4. f.number <= m + 1
    BY <2>2, <2>3
  <2> QED BY <1>3, <1>4, <2>4
<1>6. Numbers(R \cup {f}) = 1 .. (m + 1)
  <2>1. Numbers(R \cup {f}) = Numbers(R) \cup {m + 1}
    BY <1>5 DEF Numbers
  <2> QED BY <1>1, <2>1, OneMore
<1>7. Contiguous(Numbers(R \cup {f}))
  BY <1>6, ContiguousUpTo
<1>8. Ordered(R \cup S)
  BY LinearIs
<1>9. Ordered(R \cup {f})
  BY <1>8 DEF Ordered
<1>10. \A s \in S \ {f} : f.number < s.number
  <2> SUFFICES ASSUME NEW s \in S \ {f} PROVE f.number < s.number
    OBVIOUS
  <2>1. f.number # s.number
    BY <1>8 DEF Ordered
  <2>2. f.number \in Nat /\ s.number \in Nat
    BY DEF Revision
  <2> QED BY <2>1, <2>2
<1> QED BY <1>7, <1>9, <1>10, LinearIs

\* _remap_revisions keeps a line of history one.
LEMMA LinearRemap ==
  ASSUME NEW R \in SUBSET Revision, Linear(R), NEW f,
         \A v, w \in VersionsOf(R) : f[v] = f[w] => v = w,
         \A r \in R : r.parent \in VersionsOf(R) \cup {NoVersion}
  PROVE  Linear(RemapRevisions(R, f))
<1> DEFINE g(r) == [r EXCEPT !.version = f[r.version], !.parent = RemapVersion(f, r.parent)]
           Q == RemapRevisions(R, f)
<1>1. Q = {g(r) : r \in R}
  BY DEF RemapRevisions
<1>2. ASSUME NEW r \in R
      PROVE  /\ g(r).number = r.number /\ g(r).version = f[r.version]
             /\ g(r).parent = RemapVersion(f, r.parent)
             /\ r.version \in VersionsOf(R) /\ r.version # NoVersion
  BY ConstantsAssumption DEF Revision, VersionsOf
<1> HIDE DEF g, Q
<1>3. Numbers(Q) = Numbers(R)
  BY <1>1, <1>2 DEF Numbers
<1>4. Ordered(R) /\ Contiguous(Numbers(R))
  BY LinearIs
<1>5. \A q, t \in Q : q.number = t.number \/ q.version = t.version => q = t
  <2> SUFFICES ASSUME NEW r \in R, NEW s \in R,
                      g(r).number = g(s).number \/ g(r).version = g(s).version
               PROVE  r = s
    BY <1>1
  <2>1. r.number = s.number \/ r.version = s.version
    BY <1>2
  <2> QED BY <1>4, <2>1 DEF Ordered
<1>6. \A q \in Q : q.number = 1 => q.parent = NoVersion
  BY <1>1, <1>2, <1>4 DEF Ordered, RemapVersion
<1>7. \A q, t \in Q : t.number = q.number + 1 => t.parent = q.version
  <2> SUFFICES ASSUME NEW r \in R, NEW s \in R, g(s).number = g(r).number + 1
               PROVE  g(s).parent = g(r).version
    BY <1>1
  <2>1. s.parent = r.version
    BY <1>2, <1>4 DEF Ordered
  <2> QED BY <1>2, <2>1 DEF RemapVersion
<1>8. Ordered(Q)
  BY <1>5, <1>6, <1>7 DEF Ordered
<1> QED BY <1>3, <1>4, <1>8, LinearIs DEF Q

\* What points into a history points into a longer one.
LEMMA PointersGrow ==
  ASSUME NEW R, NEW S, R \subseteq S, NEW env, PointersGood(R, env)
  PROVE  PointersGood(S, env)
BY DEF PointersGood, Deployable

\* _remap_environments keeps pointers into the remapped history.
LEMMA PointersRemap ==
  ASSUME NEW R \in SUBSET Revision, NEW env \in Environment, PointersGood(R, env), NEW f,
         \A v, w \in VersionsOf(R) : f[v] = f[w] => v = w,
         \A v \in VersionsOf(R) : f[v] \in Versions
  PROVE  PointersGood(RemapRevisions(R, f),
           [env EXCEPT !.current = RemapVersion(f, env.current),
                       !.previous = RemapVersion(f, env.previous)])
<1> DEFINE new == [env EXCEPT !.current = RemapVersion(f, env.current),
                              !.previous = RemapVersion(f, env.previous)]
           Q == RemapRevisions(R, f)
<1>1. new.current = RemapVersion(f, env.current) /\ new.previous = RemapVersion(f, env.previous)
  BY DEF Environment
<1>2. ASSUME NEW v, v # NoVersion, Deployable(R, v)
      PROVE  Deployable(Q, RemapVersion(f, v)) /\ v \in VersionsOf(R) /\ RemapVersion(f, v) = f[v]
  <2>1. PICK r \in R : r.version = v /\ r.payload \in ValidPayloads
    BY <1>2 DEF Deployable
  <2> DEFINE q == [r EXCEPT !.version = f[r.version], !.parent = RemapVersion(f, r.parent)]
  <2>2. q \in Q /\ q.version = f[v] /\ q.payload = r.payload
    BY <2>1 DEF RemapRevisions, Revision
  <2> HIDE DEF q, Q
  <2> QED BY <1>2, <2>1, <2>2 DEF Deployable, RemapVersion, VersionsOf
<1>3. new.current # NoVersion => env.current # NoVersion /\ Deployable(Q, new.current)
  BY <1>1, <1>2 DEF PointersGood, RemapVersion
<1>4. new.previous # NoVersion =>
        Deployable(Q, new.previous) /\ new.current \notin {NoVersion, new.previous}
  <2> SUFFICES ASSUME env.previous # NoVersion
               PROVE  Deployable(Q, new.previous) /\ new.current \notin {NoVersion, new.previous}
    BY <1>1 DEF RemapVersion
  <2>1. /\ Deployable(R, env.previous) /\ Deployable(R, env.current)
        /\ env.current # NoVersion /\ env.current # env.previous
    BY DEF PointersGood
  <2> QED BY <1>1, <1>2, <2>1, ConstantsAssumption
<1> HIDE DEF new, Q
<1>5. PointersGood(Q, new)
  BY <1>3, <1>4 DEF PointersGood
<1> QED BY <1>5 DEF new, Q

\* A set of numbers has a smallest one.
LEMMA Smallest ==
  ASSUME NEW S \in SUBSET Nat, S # {}
  PROVE  \E m \in S : \A n \in S : m <= n
<1>1. IsWellFoundedOn(OpToRel(<, Nat), Nat)
  BY NatLessThanWellFounded
<1>2. PICK m \in S : \A n \in S : ~(<<n, m>> \in OpToRel(<, Nat))
  BY <1>1, WFMin, Zenon
<1>3. \A n \in S : <<n, m>> \in OpToRel(<, Nat) <=> n < m
  BY DEF OpToRel
<1>4. \A n \in S : ~(n < m)
  BY <1>2, <1>3
<1> QED BY <1>4

-----------------------------------------------------------------------------
(* What a version names *)

\* Every revision on disk, still to write or in a document, of any container, and
\* every environment.
AllRevisions ==
  {r \in Revision :
     \/ \E c \in Containers : r \in revisions[c]
     \/ \E p \in Clients : job[p] # Idle /\ r \in job[p].revs
     \/ \E d \in exports : r \in d.revs}

AllEnvironments ==
  {env \in Environment :
     \/ \E c \in Containers, e \in EnvNames : env = environments[c][e]
     \/ \E p \in Clients : job[p] # Idle /\ \E x \in job[p].envs : env = x[2]
     \/ \E d \in exports, e \in EnvNames : env = d.envs[e]}

\* Of revisions R made from the versions U, a version names one, and all but the first
\* are numbered one past the revision their parent names.
Threaded(R, U) ==
  /\ \A r, s \in R : r.version = s.version => r = s
  /\ \A r, s \in R : s.parent = r.version => s.number = r.number + 1
  /\ \A r \in R : /\ r.number # 0
                  /\ r.number = 1 <=> r.parent = NoVersion
                  /\ r.version \in U /\ r.parent \in U \cup {NoVersion}

\* What an environment names is valid where it is found.
Aims(R, U, env) ==
  /\ env.previous # NoVersion => env.current \notin {NoVersion, env.previous}
  /\ env.current \in U \cup {NoVersion} /\ env.previous \in U \cup {NoVersion}
  /\ \A r \in R : r.version \in {env.current, env.previous} => r.payload \in ValidPayloads

\* A document has a last revision.
ExportsBounded ==
  \A d \in exports : d.revs # {} => \E r \in d.revs : \A s \in d.revs : s.number <= r.number

ThreadInv ==
  /\ AuditInv
  /\ Threaded(AllRevisions, used)
  /\ \A env \in AllEnvironments : Aims(AllRevisions, used, env)
  /\ ExportsBounded

\* A revision under a new version that follows one that is there, or none.
LEMMA ThreadedAppend ==
  ASSUME NEW R \in SUBSET Revision, NEW U \in SUBSET Versions, Threaded(R, U),
         NEW r \in Revision, r.version \notin U,
         \/ r.number = 1 /\ r.parent = NoVersion
         \/ \E s \in R : r.number = s.number + 1 /\ r.parent = s.version
  PROVE  Threaded(R \cup {r}, U \cup {r.version})
<1>1. \A s \in R : /\ s.version \in U /\ s.parent \in U \cup {NoVersion} /\ s.number # 0
                   /\ s.number = 1 <=> s.parent = NoVersion
  BY DEF Threaded
<1>2. r.version \in Versions /\ r.version # NoVersion /\ r.number \in Nat
  BY ConstantsAssumption DEF Revision
<1>3. \A s \in R : s.version # NoVersion /\ s.version # r.version /\ s.parent # r.version
  BY <1>1, <1>2, ConstantsAssumption
<1>4. \A s \in R : r.parent = s.version => r.number = s.number + 1
  <2> SUFFICES ASSUME NEW s \in R, r.parent = s.version PROVE r.number = s.number + 1
    OBVIOUS
  <2>1. PICK t \in R : r.number = t.number + 1 /\ r.parent = t.version
    BY <1>3
  <2>2. t = s
    BY <2>1 DEF Threaded
  <2> QED BY <2>1, <2>2
<1>5. r.parent # r.version
  BY <1>2, <1>3
<1>6. \A s, t \in R \cup {r} : s.version = t.version => s = t
  BY <1>3 DEF Threaded
<1>7. \A s, t \in R \cup {r} : t.parent = s.version => t.number = s.number + 1
  BY <1>3, <1>4, <1>5 DEF Threaded
<1>8. /\ r.number # 0 /\ (r.number = 1 <=> r.parent = NoVersion)
      /\ r.parent \in U \cup {NoVersion}
  <2>1. CASE r.number = 1 /\ r.parent = NoVersion
    BY <2>1
  <2>2. ASSUME NEW s \in R, r.number = s.number + 1, r.parent = s.version
        PROVE  /\ r.number # 0 /\ (r.number = 1 <=> r.parent = NoVersion)
               /\ r.parent \in U \cup {NoVersion}
    <3>1. s.number \in Nat /\ s.number # 0
      BY <1>1 DEF Revision
    <3> QED BY <1>1, <1>3, <2>2, <3>1
  <2> QED BY <2>1, <2>2
<1>9. \A s \in R \cup {r} :
        /\ s.number # 0
        /\ s.number = 1 <=> s.parent = NoVersion
        /\ s.version \in U \cup {r.version} /\ s.parent \in U \cup {r.version} \cup {NoVersion}
  BY <1>1, <1>8
<1> QED BY <1>6, <1>7, <1>9 DEF Threaded

\* Revisions under new versions are none an environment names.
LEMMA AimsGrow ==
  ASSUME NEW R, NEW S, NEW U, NEW W, U \subseteq W, NEW env, Aims(R, U, env),
         \A s \in S : s.version \notin U \cup {NoVersion}
  PROVE  Aims(R \cup S, W, env)
<1>1. /\ env.previous # NoVersion => env.current \notin {NoVersion, env.previous}
      /\ env.current \in U \cup {NoVersion} /\ env.previous \in U \cup {NoVersion}
      /\ \A r \in R : r.version \in {env.current, env.previous} => r.payload \in ValidPayloads
  BY DEF Aims
<1>2. \A s \in S : s.version \notin {env.current, env.previous}
  BY <1>1
<1>3. \A r \in R \cup S :
        r.version \in {env.current, env.previous} => r.payload \in ValidPayloads
  BY <1>1, <1>2
<1> QED BY <1>1, <1>3 DEF Aims

\* q is r under a version that is not in U.
Copies(q, r, f, U) ==
  /\ q.number = r.number /\ q.payload = r.payload
  /\ q.version = f[r.version] /\ q.parent = RemapVersion(f, r.parent)
  /\ q = [r EXCEPT !.version = f[r.version], !.parent = RemapVersion(f, r.parent)]
  /\ q.version \in Versions \ U /\ q.version # NoVersion

\* _remap_revisions: each revision of D under a new version, and nothing else changed.
LEMMA Remapped ==
  ASSUME NEW D \in SUBSET Revision, NEW U,
         NEW f \in [VersionsOf(D) -> Versions \ U], NEW q \in RemapRevisions(D, f)
  PROVE  \E r \in D : Copies(q, r, f, U) /\ r.version \in VersionsOf(D)
<1>1. PICK r \in D : q = [r EXCEPT !.version = f[r.version],
                                   !.parent = RemapVersion(f, r.parent)]
  BY DEF RemapRevisions
<1>2. r \in Revision
  OBVIOUS
<1>3. /\ q.number = r.number /\ q.payload = r.payload
      /\ q.version = f[r.version] /\ q.parent = RemapVersion(f, r.parent)
  BY <1>1, <1>2 DEF Revision
<1>4. r.version \in VersionsOf(D)
  BY DEF VersionsOf
<1>5. f[r.version] \in Versions \ U
  BY <1>4
<1>6. f[r.version] # NoVersion
  BY <1>5, ConstantsAssumption
<1> QED BY <1>1, <1>3, <1>4, <1>5, <1>6 DEF Copies

\* A remapped document is threaded, and nothing that was there is in it.
LEMMA ThreadedRemap ==
  ASSUME NEW R \in SUBSET Revision, NEW U \in SUBSET Versions, Threaded(R, U),
         NEW D \in SUBSET R, NEW f \in [VersionsOf(D) -> Versions \ U],
         \A v, w \in VersionsOf(D) : f[v] = f[w] => v = w,
         \A r \in D : r.parent \in VersionsOf(D) \cup {NoVersion}
  PROVE  Threaded(R \cup RemapRevisions(D, f), U \cup {f[v] : v \in VersionsOf(D)})
<1> DEFINE Q == RemapRevisions(D, f)
           N == {f[v] : v \in VersionsOf(D)}
<1>0. D \in SUBSET Revision /\ U \subseteq Versions
  OBVIOUS
<1>01. \A q \in Q : \E r \in D : Copies(q, r, f, U) /\ r.version \in VersionsOf(D)
  BY <1>0, Remapped
<1>1. \A q \in Q : \E r \in D :
        /\ q.number = r.number
        /\ q.version = f[r.version] /\ q.parent = RemapVersion(f, r.parent)
        /\ q = [r EXCEPT !.version = f[r.version], !.parent = RemapVersion(f, r.parent)]
        /\ r.version \in VersionsOf(D)
        /\ q.version \in Versions \ U /\ q.version # NoVersion
  <2> HIDE DEF Q
  <2> QED BY <1>01 DEF Copies
<1>2. /\ \A v \in VersionsOf(D) : f[v] \in N /\ f[v] \notin U /\ f[v] # NoVersion
      /\ N \cap U = {}
  BY ConstantsAssumption
<1>3. \A r \in R : /\ r.version \in U /\ r.parent \in U \cup {NoVersion} /\ r.number # 0
                   /\ (r.number = 1 <=> r.parent = NoVersion) /\ r.version # NoVersion
  BY ConstantsAssumption DEF Threaded
<1> HIDE DEF Q, N
<1>4. \A q \in Q : q.version \in N
  BY <1>1, <1>2
<1>5. \A q \in Q : q.parent \in N \cup {NoVersion}
  <2> SUFFICES ASSUME NEW q \in Q PROVE q.parent \in N \cup {NoVersion}
    OBVIOUS
  <2>1. PICK r \in D : q.parent = RemapVersion(f, r.parent)
    BY <1>1
  <2>2. r.parent \in VersionsOf(D) \cup {NoVersion}
    OBVIOUS
  <2> QED BY <1>2, <2>1, <2>2 DEF RemapVersion
<1>6. \A q, t \in Q : q.version = t.version => q = t
  <2> SUFFICES ASSUME NEW q \in Q, NEW t \in Q, q.version = t.version PROVE q = t
    OBVIOUS
  <2>1. PICK r \in D :
          /\ q.version = f[r.version] /\ r.version \in VersionsOf(D)
          /\ q = [r EXCEPT !.version = f[r.version], !.parent = RemapVersion(f, r.parent)]
    BY <1>1
  <2>2. PICK s \in D :
          /\ t.version = f[s.version] /\ s.version \in VersionsOf(D)
          /\ t = [s EXCEPT !.version = f[s.version], !.parent = RemapVersion(f, s.parent)]
    BY <1>1
  <2>3. r.version = s.version
    BY <2>1, <2>2
  <2>4. r = s
    BY <2>3 DEF Threaded
  <2> QED BY <2>1, <2>2, <2>4
<1>7. \A q, t \in Q : t.parent = q.version => t.number = q.number + 1
  <2> SUFFICES ASSUME NEW q \in Q, NEW t \in Q, t.parent = q.version
               PROVE  t.number = q.number + 1
    OBVIOUS
  <2>1. PICK r \in D : /\ q.number = r.number /\ q.version = f[r.version]
                       /\ r.version \in VersionsOf(D) /\ q.version # NoVersion
    BY <1>1
  <2>2. PICK s \in D : t.number = s.number /\ t.parent = RemapVersion(f, s.parent)
    BY <1>1
  <2>3. s.parent # NoVersion /\ s.parent \in VersionsOf(D) /\ t.parent = f[s.parent]
    BY <2>1, <2>2 DEF RemapVersion
  <2>4. s.parent = r.version
    BY <2>1, <2>3
  <2> QED BY <2>1, <2>2, <2>4 DEF Threaded
<1>8. \A s, t \in R \cup Q : s.version = t.version => s = t
  BY <1>2, <1>3, <1>4, <1>6 DEF Threaded
<1>9. \A s, t \in R \cup Q : t.parent = s.version => t.number = s.number + 1
  <2>1. \A s \in R, t \in Q : t.parent # s.version /\ s.parent # t.version
    BY <1>1, <1>2, <1>3, <1>4, <1>5
  <2> QED BY <1>7, <2>1 DEF Threaded
<1>10. \A s \in R \cup Q :
         /\ s.number # 0
         /\ s.number = 1 <=> s.parent = NoVersion
         /\ s.version \in U \cup N /\ s.parent \in U \cup N \cup {NoVersion}
  <2>1. ASSUME NEW q \in Q PROVE q.number # 0 /\ (q.number = 1 <=> q.parent = NoVersion)
    <3>1. PICK r \in D : q.number = r.number /\ q.parent = RemapVersion(f, r.parent)
      BY <1>1
    <3>2. r.parent \in VersionsOf(D) \cup {NoVersion}
      OBVIOUS
    <3>3. q.parent = NoVersion <=> r.parent = NoVersion
      BY <1>2, <3>1, <3>2 DEF RemapVersion
    <3> QED BY <1>3, <3>1, <3>3
  <2> QED BY <1>3, <1>4, <1>5, <2>1
<1>11. Threaded(R \cup Q, U \cup N)
  BY <1>8, <1>9, <1>10 DEF Threaded
<1> QED BY <1>11 DEF Q, N

\* _remap_environments: a remapped environment names what it named.
LEMMA AimsRemap ==
  ASSUME NEW R \in SUBSET Revision, NEW U \in SUBSET Versions, Threaded(R, U),
         NEW D \in SUBSET R, NEW f \in [VersionsOf(D) -> Versions \ U],
         \A v, w \in VersionsOf(D) : f[v] = f[w] => v = w,
         NEW env \in Environment, Aims(R, U, env),
         env.current \in VersionsOf(D) \cup {NoVersion},
         env.previous \in VersionsOf(D) \cup {NoVersion},
         NEW new, new.current = RemapVersion(f, env.current),
         new.previous = RemapVersion(f, env.previous)
  PROVE  Aims(R \cup RemapRevisions(D, f), U \cup {f[v] : v \in VersionsOf(D)}, new)
<1> DEFINE Q == RemapRevisions(D, f)
           N == {f[v] : v \in VersionsOf(D)}
<1>0. D \in SUBSET Revision /\ U \subseteq Versions
  OBVIOUS
<1>01. \A q \in Q : \E r \in D : Copies(q, r, f, U) /\ r.version \in VersionsOf(D)
  BY <1>0, Remapped
<1>1. \A q \in Q : \E r \in D : /\ q.payload = r.payload /\ q.version = f[r.version]
                                /\ r.version \in VersionsOf(D)
  <2> HIDE DEF Q
  <2> QED BY <1>01 DEF Copies
<1>2. \A v \in VersionsOf(D) : f[v] \in N /\ f[v] \notin U /\ f[v] # NoVersion
  BY ConstantsAssumption
<1>3. \A r \in R : r.version \in U /\ r.version # NoVersion
  BY ConstantsAssumption DEF Threaded
<1>4. NoVersion \notin VersionsOf(D)
  BY <1>3 DEF VersionsOf
<1> HIDE DEF Q, N
<1>5. new.current \in N \cup {NoVersion} /\ new.previous \in N \cup {NoVersion}
  BY <1>2 DEF RemapVersion
<1>6. \A r \in R : r.version \notin {new.current, new.previous}
  <2>1. \A v \in N : v \notin U
    BY <1>2 DEF N
  <2> QED BY <1>3, <1>5, <2>1
<1>7. ASSUME NEW q \in Q, q.version \in {new.current, new.previous}
      PROVE  q.payload \in ValidPayloads
  <2>1. PICK r \in D : q.payload = r.payload /\ q.version = f[r.version]
                       /\ r.version \in VersionsOf(D)
    BY <1>1
  <2>2. \A v \in {env.current, env.previous} :
          RemapVersion(f, v) = f[r.version] => v = r.version
    <3> SUFFICES ASSUME NEW v \in {env.current, env.previous}, RemapVersion(f, v) = f[r.version]
                 PROVE  v = r.version
      OBVIOUS
    <3>1. f[r.version] # NoVersion
      BY <1>2, <2>1
    <3>2. v # NoVersion /\ v \in VersionsOf(D) /\ f[v] = f[r.version]
      BY <3>1 DEF RemapVersion
    <3> QED BY <2>1, <3>2
  <2>3. r.version \in {env.current, env.previous}
    BY <1>7, <2>1, <2>2
  <2>4. r.payload \in ValidPayloads
    BY <2>3 DEF Aims
  <2> QED BY <2>1, <2>4
<1>8. new.previous # NoVersion => new.current \notin {NoVersion, new.previous}
  <2> SUFFICES ASSUME new.previous # NoVersion
               PROVE  new.current \notin {NoVersion, new.previous}
    OBVIOUS
  <2>1. env.previous # NoVersion
    BY DEF RemapVersion
  <2>2. env.current # NoVersion /\ env.current # env.previous
    BY <2>1 DEF Aims
  <2>3. new.current = f[env.current] /\ new.previous = f[env.previous]
    BY <2>1, <2>2 DEF RemapVersion
  <2>4. env.current \in VersionsOf(D) /\ env.previous \in VersionsOf(D)
    BY <2>1, <2>2
  <2> QED BY <1>2, <2>2, <2>3, <2>4
<1>9. \A r \in R \cup Q :
        r.version \in {new.current, new.previous} => r.payload \in ValidPayloads
  BY <1>6, <1>7
<1>10. Aims(R \cup Q, U \cup N, new)
  BY <1>5, <1>8, <1>9 DEF Aims
<1> QED BY <1>10 DEF Q, N

\* What _parse_export_revisions accepts is a line of history, although it does not look
\* at the order: following the parents back from the last revision no number is missed.
LEMMA AcceptedLinear ==
  ASSUME NEW R \in SUBSET Revision, NEW U \in SUBSET Versions, Threaded(R, U),
         NEW D \in SUBSET R,
         D # {} => \E r \in D : \A s \in D : s.number <= r.number,
         \A r, s \in D : r.version = s.version \/ r.number = s.number => r = s,
         \A r \in D : r.parent \in VersionsOf(D) \cup {NoVersion}
  PROVE  Linear(D)
<1>1. \A r \in D : /\ r.number \in Nat /\ r.number # 0
                   /\ r.number = 1 <=> r.parent = NoVersion
  BY DEF Threaded, Revision
<1>2. ASSUME NEW r \in D, r.number # 1
      PROVE  \E s \in D : r.parent = s.version /\ r.number = s.number + 1
  <2>1. r.parent \in VersionsOf(D)
    BY <1>1, <1>2
  <2>2. PICK s \in D : r.parent = s.version
    BY <2>1 DEF VersionsOf
  <2> QED BY <2>2 DEF Threaded
<1>3. \A r, s \in D : s.number = r.number + 1 => s.parent = r.version
  <2> SUFFICES ASSUME NEW r \in D, NEW s \in D, s.number = r.number + 1
               PROVE  s.parent = r.version
    OBVIOUS
  <2>1. s.number # 1
    BY <1>1
  <2>2. PICK t \in D : s.parent = t.version /\ s.number = t.number + 1
    BY <1>2, <2>1
  <2>3. t.number = r.number
    BY <1>1, <2>2
  <2> QED BY <2>2, <2>3
<1>4. Contiguous(Numbers(D))
  <2>1. CASE D = {}
    BY <2>1 DEF Contiguous, Numbers
  <2>2. CASE D # {}
    <3>1. PICK t \in D : \A s \in D : s.number <= t.number
      BY <2>2
    <3> DEFINE m == t.number
    <3>2. m \in Nat /\ m \in Numbers(D) /\ Numbers(D) \subseteq 1 .. m
      BY <1>1, <3>1 DEF Numbers
    <3>3. ASSUME NEW k \in 1 .. m, k \notin Numbers(D) PROVE FALSE
      <4> DEFINE S == {n \in Numbers(D) : n > k}
      <4>1. S \in SUBSET Nat /\ S # {}
        BY <3>2, <3>3
      <4>2. PICK n \in S : \A x \in S : n <= x
        BY <4>1, Smallest
      <4>3. PICK r \in D : r.number = n
        BY <4>2 DEF Numbers
      <4>4. n # 1 /\ n \in Nat /\ n > k
        BY <4>1, <4>2, <3>3
      <4>5. PICK s \in D : r.number = s.number + 1
        BY <1>2, <4>3, <4>4
      <4>6. s.number \in Nat /\ s.number \in Numbers(D) /\ n = s.number + 1
        BY <1>1, <4>3, <4>5 DEF Numbers
      <4>7. s.number # k
        BY <3>3, <4>6
      <4>8. s.number > k
        BY <4>4, <4>6, <4>7
      <4>9. s.number \in S
        BY <4>6, <4>8
      <4>10. n <= s.number
        BY <4>2, <4>9
      <4> QED BY <4>6, <4>10
    <3> HIDE DEF m
    <3>4. Numbers(D) = 1 .. m
      BY <3>2, <3>3
    <3> QED BY <3>2, <3>4, ContiguousUpTo
  <2> QED BY <2>1, <2>2
<1>5. Ordered(D)
  BY <1>1, <1>3 DEF Ordered
<1> QED BY <1>4, <1>5, LinearIs

\* Nothing new is on disk, to be written or in a document.
LEMMA NothingNew ==
  ASSUME ThreadInv, AuditInv', UNCHANGED <<used, exports>>,
         AllRevisions' \subseteq AllRevisions, AllEnvironments' \subseteq AllEnvironments
  PROVE  ThreadInv'
<1>1. Threaded(AllRevisions, used)'
  BY DEF ThreadInv, Threaded
<1>2. (\A env \in AllEnvironments : Aims(AllRevisions, used, env))'
  BY DEF ThreadInv, Aims
<1>3. ExportsBounded'
  BY DEF ThreadInv, ExportsBounded
<1> QED BY <1>1, <1>2, <1>3 DEF ThreadInv

\* An operation starts with what it has to write.
LEMMA StartThreads ==
  ASSUME ThreadInv, AuditInv', NEW p \in Clients, NEW j \in Job, Start(p, j),
         UNCHANGED <<store, exports>>,
         NEW R, AllRevisions \cup j.revs \subseteq R, Threaded(R, used'),
         \A env \in AllEnvironments : Aims(R, used', env),
         \A x \in j.envs : Aims(R, used', x[2])
  PROVE  ThreadInv'
<1>1. /\ \A q \in Clients : job[q] = Idle
      /\ job'[p] = j /\ \A q \in Clients \ {p} : job'[q] = Idle
  <2>1. job' = [job EXCEPT ![p] = j] /\ holder = Free
    BY DEF Start, AcquireLock
  <2>2. \A q \in Clients : job[q] = Idle
    BY <2>1, ConstantsAssumption DEF ThreadInv, AuditInv, LockHeld
  <2> QED BY <2>1, <2>2 DEF ThreadInv, AuditInv, TypeOK
<1>2. revisions' = revisions /\ environments' = environments /\ exports' = exports
  BY DEF store
<1>3. AllRevisions' \subseteq R
  BY <1>1, <1>2 DEF AllRevisions
<1>4. \A env \in AllEnvironments' : env \in AllEnvironments \/ \E x \in j.envs : env = x[2]
  BY <1>1, <1>2 DEF AllEnvironments
<1>5. Threaded(AllRevisions', used')
  BY <1>3 DEF Threaded
<1>6. \A env \in AllEnvironments' : Aims(AllRevisions', used', env)
  <2> SUFFICES ASSUME NEW env \in AllEnvironments' PROVE Aims(AllRevisions', used', env)
    OBVIOUS
  <2>1. Aims(R, used', env)
    BY <1>4
  <2> QED BY <1>3, <2>1 DEF Aims
<1>7. ExportsBounded'
  BY <1>2 DEF ThreadInv, ExportsBounded
<1> QED BY <1>5, <1>6, <1>7 DEF ThreadInv

\* An operation that starts with nothing new to write but pointers that were right.
LEMMA StartNothingNew ==
  ASSUME ThreadInv, AuditInv', NEW p \in Clients, NEW j \in Job, Start(p, j),
         UNCHANGED <<store, used, exports>>, j.revs \subseteq AllRevisions,
         \A x \in j.envs : Aims(AllRevisions, used, x[2])
  PROVE  ThreadInv'
BY StartThreads DEF ThreadInv

\* create_container has nothing else to write.
LEMMA CreateContainerThreads ==
  ASSUME ThreadInv, AuditInv', NEW p \in Clients, NEW c \in Containers, CreateContainer(p, c)
  PROVE  ThreadInv'
<1> DEFINE j == [NoWrites(c) EXCEPT !.create = TRUE]
<1>1. j \in Job
  BY ContainerJob DEF NewJob
<1>2. j.revs = {} /\ j.envs = {}
  BY DEF NoWrites
<1>3. Start(p, j) /\ UNCHANGED <<store, used, exports>>
  BY DEF CreateContainer
<1> HIDE DEF j
<1> QED BY <1>1, <1>2, <1>3, StartNothingNew

\* create_revision: a fresh version, one past the latest of what it finds.
LEMMA CreateRevisionThreads ==
  ASSUME ThreadInv, AuditInv', NEW p \in Clients, NEW c \in Containers, NEW v \in Versions,
         NEW payload \in Payloads, NEW expected \in OptVersion,
         CreateRevision(p, c, v, payload, expected)
  PROVE  ThreadInv'
<1> DEFINE r == [version |-> v, number |-> LatestNumber(c) + 1,
                 parent |-> LatestVersion(c), payload |-> payload]
           e == MkEvent("revision.created", "succeeded", NoEnv, v, r.parent)
           j == [NoWrites(c) EXCEPT !.revs = {r}, !.events = {e}]
<1>1. LatestNumber(c) \in Nat /\ LatestVersion(c) \in OptVersion
  BY LatestTyped DEF ThreadInv, AuditInv
<1>2. r \in Revision /\ r.version = v
  BY <1>1 DEF Revision
<1>3. e \in Event
  BY <1>1, MkEventTyped DEF Action, Result, OptEnvName, OptVersion
<1>4. /\ Start(p, j) /\ v \notin used /\ used' = used \cup {v} /\ c \in containers
      /\ UNCHANGED <<store, exports>>
  BY DEF CreateRevision
<1>5. \/ r.number = 1 /\ r.parent = NoVersion
      \/ \E s \in AllRevisions : r.number = s.number + 1 /\ r.parent = s.version
  <2>1. CASE revisions[c] = {}
    BY <2>1 DEF LatestNumber, LatestVersion
  <2>2. CASE revisions[c] # {}
    <3>1. \E s \in revisions[c] : \A t \in revisions[c] : t.number <= s.number
      <4>1. revisions[c] \in SUBSET revisions[c]
        OBVIOUS
      <4> QED BY <2>2, <4>1 DEF ThreadInv, AuditInv, RevisionsBounded
    <3>2. Latest(revisions[c]) \in revisions[c]
      BY <3>1 DEF Latest
    <3>3. Latest(revisions[c]) \in AllRevisions
      BY <3>2 DEF AllRevisions, ThreadInv, AuditInv, TypeOK
    <3> QED BY <2>2, <3>3 DEF LatestNumber, LatestVersion
  <2> QED BY <2>1, <2>2
<1> HIDE DEF r, e
<1>6. j \in Job /\ j.revs = {r} /\ j.envs = {}
  <2>1. j \in Job
    BY <1>2, <1>3, <1>4, RevisionJob DEF NewJob
  <2>2. j.revs = {r} /\ j.envs = {}
    BY DEF NoWrites
  <2> QED BY <2>1, <2>2
<1> HIDE DEF j
<1>7. AllRevisions \in SUBSET Revision /\ used \in SUBSET Versions
  BY DEF AllRevisions, ThreadInv, AuditInv, TypeOK
<1>8. Threaded(AllRevisions \cup {r}, used')
  BY <1>2, <1>4, <1>5, <1>7, ThreadedAppend DEF ThreadInv
<1>9. \A env \in AllEnvironments : Aims(AllRevisions \cup {r}, used', env)
  <2>1. used \subseteq used' /\ \A s \in {r} : s.version \notin used \cup {NoVersion}
    BY <1>2, <1>4, ConstantsAssumption
  <2> QED BY <2>1, AimsGrow DEF ThreadInv
<1> QED BY <1>4, <1>6, <1>8, <1>9, StartThreads

\* A new environment names nothing.
LEMMA CreateEnvironmentThreads ==
  ASSUME ThreadInv, AuditInv', NEW p \in Clients, NEW c \in Containers, NEW e \in EnvNames,
         NEW protected \in BOOLEAN, CreateEnvironment(p, c, e, protected)
  PROVE  ThreadInv'
<1> DEFINE env == [protected |-> protected, current |-> NoVersion, previous |-> NoVersion]
           x == MkEvent("environment.created", "succeeded", e, NoVersion, NoVersion)
           j == [NoWrites(c) EXCEPT !.envs = {<<e, env>>}, !.events = {x}]
<1>1. env \in Environment
  BY DEF Environment, OptVersion
<1>2. x \in Event
  BY MkEventTyped DEF Action, Result, OptEnvName, OptVersion
<1>3. Start(p, j) /\ UNCHANGED <<store, used, exports>> /\ c \in containers
  BY DEF CreateEnvironment
<1>4. Aims(AllRevisions, used, env)
  <2>1. \A r \in AllRevisions : r.version # NoVersion
    BY ConstantsAssumption DEF AllRevisions, Revision
  <2> QED BY <2>1 DEF Aims
<1> HIDE DEF env, x
<1>5. j \in Job
  BY <1>1, <1>2, <1>3, EnvironmentJob DEF NewJob
<1>6. j.revs = {} /\ j.envs = {<<e, env>>}
  BY DEF NoWrites
<1> HIDE DEF j
<1> QED BY <1>3, <1>4, <1>5, <1>6, StartNothingNew

\* A refused switch writes an event only.
LEMMA RefuseThreads ==
  ASSUME ThreadInv, AuditInv', NEW p \in Clients, NEW c \in containers, NEW e \in EnvNames,
         NEW action \in Action, NEW reason \in Result, NEW target \in OptVersion,
         environments[c][e] # NoEnv,
         Refuse(p, c, e, action, reason, target), UNCHANGED <<store, used, exports>>
  PROVE  ThreadInv'
<1> DEFINE x == MkEvent(action, reason, e, target, environments[c][e].current)
           j == [NoWrites(c) EXCEPT !.events = {x}]
<1>1. c \in Containers /\ environments[c][e].current \in OptVersion
  BY DEF ThreadInv, AuditInv, TypeOK, Environment
<1>2. x \in Event
  BY <1>1, MkEventTyped DEF OptEnvName
<1>3. Start(p, j)
  BY DEF Refuse
<1> HIDE DEF x
<1>4. j \in Job
  BY <1>1, <1>2, EventJob DEF NewJob
<1>5. j.revs = {} /\ j.envs = {}
  BY DEF NoWrites
<1> HIDE DEF j
<1> QED BY <1>3, <1>4, <1>5, StartNothingNew

\* A switch goes to a version whose payload has been validated, and away from the one
\* it leaves.
LEMMA SwitchToThreads ==
  ASSUME ThreadInv, AuditInv', NEW p \in Clients, NEW c \in containers, NEW e \in EnvNames,
         NEW action \in Action, NEW target \in Versions,
         environments[c][e] # NoEnv, Valid(c, target), target # environments[c][e].current,
         SwitchTo(p, c, e, action, target), UNCHANGED <<store, used, exports>>
  PROVE  ThreadInv'
<1> DEFINE old == environments[c][e]
           env == [old EXCEPT !.current = target, !.previous = old.current]
           x == MkEvent(action, "succeeded", e, target, old.current)
           j == [NoWrites(c) EXCEPT !.envs = {<<e, env>>}, !.events = {x}]
<1>1. c \in Containers /\ old \in Environment
  BY DEF ThreadInv, AuditInv, TypeOK
<1>2. env \in Environment /\ env.current = target /\ env.previous = old.current
  BY <1>1 DEF Environment, OptVersion
<1>3. x \in Event
  BY <1>1, MkEventTyped DEF OptEnvName, Environment, Result, OptVersion
<1>4. Start(p, j)
  BY DEF SwitchTo
<1>5. Aims(AllRevisions, used, old)
  BY <1>1 DEF ThreadInv, AllEnvironments
<1>6. PICK r \in revisions[c] : r.version = target /\ r.payload \in ValidPayloads
  BY DEF Valid
<1>7. r \in AllRevisions
  BY <1>1, <1>6 DEF AllRevisions, ThreadInv, AuditInv, TypeOK
<1>8. /\ target \in used
      /\ \A s \in AllRevisions : s.version = target => s.payload \in ValidPayloads
  BY <1>6, <1>7 DEF ThreadInv, Threaded
<1>9. target # NoVersion /\ target # old.current
  BY ConstantsAssumption
<1> HIDE DEF x, env, old
<1>10. Aims(AllRevisions, used, env)
  BY <1>2, <1>5, <1>8, <1>9 DEF Aims
<1>11. j \in Job
  BY <1>1, <1>2, <1>3, EnvironmentJob DEF NewJob
<1>12. j.revs = {} /\ j.envs = {<<e, env>>}
  BY DEF NoWrites
<1> HIDE DEF j
<1> QED BY <1>4, <1>10, <1>11, <1>12, StartNothingNew

\* activate_environment leaves for a valid version that is not the current one.
LEMMA ActivateThreads ==
  ASSUME ThreadInv, AuditInv', NEW p \in Clients, NEW c \in Containers, NEW e \in EnvNames,
         NEW target \in Versions, NEW expected \in OptVersion, NEW allow \in BOOLEAN,
         ActivateEnvironment(p, c, e, target, expected, allow)
  PROVE  ThreadInv'
<1> DEFINE action == "environment.activated"
<1>1. action \in Action /\ target \in OptVersion
  BY DEF Action, OptVersion
<1>2. /\ c \in containers /\ environments[c][e] # NoEnv /\ UNCHANGED <<store, used, exports>>
      /\ GuardedSwitch(p, c, e, action, target, expected, allow)
  BY DEF ActivateEnvironment
<1>3. \/ \E reason \in Result : Refuse(p, c, e, action, reason, target)
      \/ /\ SwitchTo(p, c, e, action, target) /\ Valid(c, target)
         /\ target # environments[c][e].current
  BY <1>2 DEF GuardedSwitch, Result
<1> HIDE DEF action
<1> QED BY <1>1, <1>2, <1>3, RefuseThreads, SwitchToThreads

\* previous_config_version differs from config_version.
LEMMA RollbackThreads ==
  ASSUME ThreadInv, AuditInv', NEW p \in Clients, NEW c \in Containers, NEW e \in EnvNames,
         NEW expected \in OptVersion, NEW allow \in BOOLEAN,
         RollbackEnvironment(p, c, e, expected, allow)
  PROVE  ThreadInv'
<1> DEFINE action == "environment.rolled_back"
           target == environments[c][e].previous
<1>1. action \in Action /\ NoVersion \in OptVersion /\ "no_previous_revision" \in Result
  BY DEF Action, OptVersion, Result
<1>2. /\ c \in containers /\ environments[c][e] # NoEnv /\ UNCHANGED <<store, used, exports>>
      /\ target \in OptVersion /\ environments[c][e] \in Environment
  BY DEF RollbackEnvironment, ThreadInv, AuditInv, TypeOK, Environment
<1>3. \/ Refuse(p, c, e, action, "no_previous_revision", NoVersion)
      \/ target # NoVersion /\ GuardedSwitch(p, c, e, action, target, expected, allow)
  BY DEF RollbackEnvironment
<1>4. GuardedSwitch(p, c, e, action, target, expected, allow) =>
        \/ \E reason \in Result : Refuse(p, c, e, action, reason, target)
        \/ SwitchTo(p, c, e, action, target) /\ Valid(c, target)
  BY DEF GuardedSwitch, Result
<1>5. Aims(AllRevisions, used, environments[c][e])
  BY <1>2 DEF ThreadInv, AllEnvironments
<1>6. target # NoVersion => target \in Versions /\ target # environments[c][e].current
  BY <1>2, <1>5 DEF Aims, OptVersion
<1> HIDE DEF action, target
<1> QED BY <1>1, <1>2, <1>3, <1>4, <1>6, RefuseThreads, SwitchToThreads

\* A step that leaves the store, the jobs and the documents alone.
LEMMA IdleStepThreads ==
  ASSUME ThreadInv, AuditInv', UNCHANGED <<store, used, job, exports>>
  PROVE  ThreadInv'
<1>1. AllRevisions' = AllRevisions /\ AllEnvironments' = AllEnvironments
  BY DEF AllRevisions, AllEnvironments, store
<1> QED BY <1>1, NothingNew

\* A document that is written as it is brings nothing new.
LEMMA ImportSameThreads ==
  ASSUME ThreadInv, AuditInv', NEW p \in Clients, NEW d \in exports, ImportSame(p, d)
  PROVE  ThreadInv'
<1>1. /\ d \in Document /\ d.source \in Containers /\ d.revs \in SUBSET Revision
      /\ d.envs \in [EnvNames -> Environment \cup {NoEnv}]
  BY DEF ThreadInv, AuditInv, TypeOK, Document
<1>2. CASE UNCHANGED <<store, used, exports, holder, job, bounds, acked, unaudited, half>>
  BY <1>2, IdleStepThreads
<1>3. CASE /\ d.source \notin containers
           /\ Start(p, [NoWrites(d.source) EXCEPT !.create = TRUE, !.revs = d.revs,
                          !.envs = EnvDocs(d.envs), !.docs = {d}])
           /\ UNCHANGED <<store, used, exports, bounds, ghosts>>
  <2> DEFINE V == EnvDocs(d.envs)
             j == [NoWrites(d.source) EXCEPT !.create = TRUE, !.revs = d.revs,
                     !.envs = V, !.docs = {d}]
  <2>1. V \in SUBSET (EnvNames \X Environment)
    BY <1>1, EnvDocsTyped
  <2>2. \A x \in V : x[2] \in AllEnvironments
    BY <1>1, NothingAssumption DEF EnvDocs, AllEnvironments
  <2>3. d.revs \subseteq AllRevisions
    BY <1>1 DEF AllRevisions
  <2>4. Start(p, j) /\ UNCHANGED <<store, used, exports>>
    BY <1>3
  <2> HIDE DEF V
  <2>5. j \in Job
    BY <1>1, <1>3, <2>1, ImportJob DEF NewJob
  <2>6. j.revs = d.revs /\ j.envs = V
    BY DEF NoWrites
  <2> HIDE DEF j
  <2>7. \A x \in j.envs : Aims(AllRevisions, used, x[2])
    BY <2>2, <2>6 DEF ThreadInv
  <2> QED BY <2>3, <2>4, <2>5, <2>6, <2>7, StartNothingNew
<1> QED BY <1>2, <1>3 DEF ImportSame

\* A remapped document brings revisions nobody names yet.
LEMMA ImportAsThreads ==
  ASSUME ThreadInv, AuditInv', NEW p \in Clients, NEW c \in Containers, NEW d \in exports,
         NEW f \in [VersionsOf(d.revs) -> Versions \ used], ImportAs(p, d, c, f)
  PROVE  ThreadInv'
<1> DEFINE R == RemapRevisions(d.revs, f)
           V == RemapEnvs(d.envs, f)
           j == [NoWrites(c) EXCEPT !.create = TRUE, !.revs = R, !.envs = V, !.docs = {d}]
           N == {f[v] : v \in VersionsOf(d.revs)}
<1>1. /\ d \in Document /\ d.revs \in SUBSET Revision
      /\ d.envs \in [EnvNames -> Environment \cup {NoEnv}]
  BY DEF ThreadInv, AuditInv, TypeOK, Document
<1>2. R \in SUBSET Revision /\ V \in SUBSET (EnvNames \X Environment)
  BY <1>1, RemapTyped DEF ImportAs
<1>3. /\ Parses(d) /\ c \notin containers /\ Start(p, j) /\ UNCHANGED <<store, exports>>
      /\ \A v, w \in VersionsOf(d.revs) : f[v] = f[w] => v = w
      /\ used' = used \cup N
  BY DEF ImportAs
<1>4. /\ AllRevisions \in SUBSET Revision /\ used \in SUBSET Versions
      /\ d.revs \in SUBSET AllRevisions
  BY <1>1 DEF AllRevisions, ThreadInv, AuditInv, TypeOK
<1>5. \A r \in d.revs : r.parent \in VersionsOf(d.revs) \cup {NoVersion}
  BY <1>3 DEF Parses
<1>6. Threaded(AllRevisions, used)
  BY DEF ThreadInv
<1>7. Threaded(AllRevisions \cup R, used')
  BY <1>3, <1>4, <1>5, <1>6, ThreadedRemap
<1>8. \A env \in AllEnvironments : Aims(AllRevisions \cup R, used', env)
  <2>1. \A q \in R : q.version \notin used \cup {NoVersion}
    <3>1. \A q \in R : \E r \in d.revs : Copies(q, r, f, used) /\ r.version \in VersionsOf(d.revs)
      BY <1>1, Remapped
    <3> HIDE DEF R
    <3> QED BY <3>1 DEF Copies
  <2>2. used \subseteq used'
    BY <1>3
  <2> HIDE DEF R
  <2> QED BY <2>1, <2>2, AimsGrow DEF ThreadInv
<1>9. \A x \in V : Aims(AllRevisions \cup R, used', x[2])
  <2> DEFINE h(n) == [d.envs[n] EXCEPT !.current = RemapVersion(f, d.envs[n].current),
                                       !.previous = RemapVersion(f, d.envs[n].previous)]
  <2>0. V = {<<n, h(n)>> : n \in {m \in EnvNames : d.envs[m] # NoEnv}}
    BY DEF RemapEnvs
  <2> SUFFICES ASSUME NEW n \in EnvNames, d.envs[n] # NoEnv
               PROVE  Aims(AllRevisions \cup R, used', h(n))
    <3> HIDE DEF V, h, R
    <3>1. \A x \in V : \E n \in EnvNames : d.envs[n] # NoEnv /\ x[2] = h(n)
      BY <2>0
    <3> QED BY <3>1
  <2>1. d.envs[n] \in Environment /\ d.envs[n] \in AllEnvironments
    BY <1>1 DEF AllEnvironments
  <2>2. /\ d.envs[n].current \in VersionsOf(d.revs) \cup {NoVersion}
        /\ d.envs[n].previous \in VersionsOf(d.revs) \cup {NoVersion}
    BY <1>3 DEF Parses
  <2>3. /\ h(n).current = RemapVersion(f, d.envs[n].current)
        /\ h(n).previous = RemapVersion(f, d.envs[n].previous)
    BY <2>1 DEF Environment
  <2>4. Aims(AllRevisions, used, d.envs[n])
    BY <2>1 DEF ThreadInv
  <2> DEFINE new == h(n)
  <2>5. /\ new.current = RemapVersion(f, d.envs[n].current)
        /\ new.previous = RemapVersion(f, d.envs[n].previous)
    BY <2>3
  <2> HIDE DEF h, new
  <2>6. Aims(AllRevisions \cup R, used \cup N, new)
    BY <1>3, <1>4, <1>6, <2>1, <2>2, <2>5, <2>4, AimsRemap
  <2> QED BY <1>3, <2>6 DEF new
<1> HIDE DEF R, V
<1>10. j \in Job
  BY <1>1, <1>2, <1>3, ImportJob DEF NewJob
<1>11. j.revs = R /\ j.envs = V
  BY DEF NoWrites
<1> HIDE DEF j
<1> QED BY <1>3, <1>7, <1>8, <1>9, <1>10, <1>11, StartThreads

\* What export_container writes is what is on disk.
LEMMA ExportThreads ==
  ASSUME ThreadInv, AuditInv', NEW p \in Clients, NEW c \in Containers, ExportContainer(p, c)
  PROVE  ThreadInv'
<1> DEFINE d == [source |-> c, revs |-> revisions[c], envs |-> environments[c]]
<1>1. /\ revisions' = revisions /\ environments' = environments /\ used' = used /\ job' = job
      /\ exports' = exports \cup {d}
  BY DEF ExportContainer, store
<1>2. d.revs = revisions[c] /\ d.envs = environments[c]
  OBVIOUS
<1> HIDE DEF d
<1>3. AllRevisions' \subseteq AllRevisions /\ AllEnvironments' \subseteq AllEnvironments
  BY <1>1, <1>2 DEF AllRevisions, AllEnvironments
<1>4. Threaded(AllRevisions, used)'
  BY <1>1, <1>3 DEF ThreadInv, Threaded
<1>5. (\A env \in AllEnvironments : Aims(AllRevisions, used, env))'
  BY <1>1, <1>3 DEF ThreadInv, Aims
<1>6. ExportsBounded'
  <2>1. revisions[c] \in SUBSET revisions[c]
    OBVIOUS
  <2>2. d.revs # {} => \E r \in d.revs : \A s \in d.revs : s.number <= r.number
    BY <1>2, <2>1 DEF ThreadInv, AuditInv, RevisionsBounded
  <2> QED BY <1>1, <2>2 DEF ThreadInv, ExportsBounded
<1> QED BY <1>4, <1>5, <1>6 DEF ThreadInv

\* A step of an operation under way writes what it had left to write, takes files away
\* or ends.
LEMMA StepThreads ==
  ASSUME ThreadInv, AuditInv', NEW p \in Clients, job[p] # Idle, UNCHANGED <<used, exports>>,
         \A q \in Clients \ {p} : job'[q] = job[q],
         job'[p] # Idle => job'[p].revs \subseteq job[p].revs /\ job'[p].envs \subseteq job[p].envs,
         \A c \in Containers : revisions'[c] \subseteq revisions[c] \cup job[p].revs,
         \A c \in Containers, e \in EnvNames :
           \/ environments'[c][e] \in {environments[c][e], NoEnv}
           \/ \E x \in job[p].envs : environments'[c][e] = x[2]
  PROVE  ThreadInv'
<1>1. AllRevisions' \subseteq AllRevisions
  BY DEF AllRevisions
<1>2. AllEnvironments' \subseteq AllEnvironments
  BY NothingAssumption DEF AllEnvironments
<1> QED BY <1>1, <1>2, NothingNew

\* Steps that leave revisions and environments alone.
LEMMA OtherStepThreads ==
  ASSUME ThreadInv, AuditInv', NEW p \in Clients, job[p] # Idle,
         UNCHANGED <<revisions, environments, used, exports>>,
         \A q \in Clients \ {p} : job'[q] = job[q],
         job'[p] # Idle => job'[p].revs \subseteq job[p].revs /\ job'[p].envs \subseteq job[p].envs
  PROVE  ThreadInv'
BY StepThreads

\* Every write, and the end of an operation.
LEMMA WriteThreads ==
  ASSUME ThreadInv, AuditInv', NEW p \in Clients, Write(p) \/ Fault(p)
  PROVE  ThreadInv'
<1>1. job[p] # Idle /\ job[p] \in Job /\ job[p].container \in Containers
  <2>1. job[p] # Idle
    BY DEF Write, Fault, SaveContainer, NumberEvent, CreateFile, FillRevision, SaveEnvironment,
         FillAudit, Return, AuditUnreadable, MeetsLeftover, RemoveFile, Removed, WriteFails,
         RemovalFails, Crash
  <2> QED BY <2>1, Alone DEF ThreadInv
<1>2. CASE FillRevision(p)
  <2>1. PICK r \in job[p].revs :
          /\ revisions' = [revisions EXCEPT ![job[p].container] = @ \cup {r}]
          /\ job' = [job EXCEPT ![p].revs = @ \ {r}, ![p].writing = FALSE]
    BY <1>2 DEF FillRevision, NextRevisions
  <2>2. UNCHANGED <<environments, used, exports>>
    BY <1>2 DEF FillRevision
  <2>3. /\ \A q \in Clients \ {p} : job'[q] = job[q]
        /\ job'[p].revs = job[p].revs \ {r} /\ job'[p].envs = job[p].envs
    BY <1>1, <2>1 DEF ThreadInv, AuditInv, TypeOK, Job
  <2>4. \A c \in Containers : revisions'[c] \subseteq revisions[c] \cup job[p].revs
    BY <2>1 DEF ThreadInv, AuditInv, TypeOK
  <2> QED BY <1>1, <2>2, <2>3, <2>4, StepThreads
<1>3. CASE SaveEnvironment(p)
  <2>1. PICK x \in job[p].envs :
          /\ environments' = [environments EXCEPT ![job[p].container][x[1]] = x[2]]
          /\ job' = [job EXCEPT ![p].envs = @ \ {x}]
    BY <1>3 DEF SaveEnvironment
  <2>2. UNCHANGED <<revisions, used, exports>>
    BY <1>3 DEF SaveEnvironment
  <2>3. /\ \A q \in Clients \ {p} : job'[q] = job[q]
        /\ job'[p].revs = job[p].revs /\ job'[p].envs = job[p].envs \ {x}
    BY <1>1, <2>1 DEF ThreadInv, AuditInv, TypeOK, Job
  <2>4. \A c \in Containers, e \in EnvNames :
          environments'[c][e] = environments[c][e] \/ environments'[c][e] = x[2]
    BY <2>1 DEF ThreadInv, AuditInv, TypeOK
  <2> QED BY <1>1, <2>1, <2>2, <2>3, <2>4, StepThreads
<1>4. CASE RemoveFile(p)
  <2>1. /\ UNCHANGED <<used, exports, job>>
        /\ \/ revisions' = revisions
           \/ \E r : revisions' = [revisions EXCEPT ![job[p].container] = @ \ {r}]
        /\ \/ environments' = environments
           \/ \E e \in EnvNames : environments' = [environments EXCEPT ![job[p].container][e] = NoEnv]
    BY <1>4 DEF RemoveFile
  <2>2. \A c \in Containers : revisions'[c] \subseteq revisions[c]
    BY <2>1 DEF ThreadInv, AuditInv, TypeOK
  <2>3. ASSUME NEW c \in Containers, NEW e \in EnvNames
        PROVE  environments'[c][e] = environments[c][e] \/ environments'[c][e] = NoEnv
    <3>1. CASE environments' = environments
      BY <3>1
    <3>2. ASSUME NEW x \in EnvNames,
                 environments' = [environments EXCEPT ![job[p].container][x] = NoEnv]
          PROVE  environments'[c][e] = environments[c][e] \/ environments'[c][e] = NoEnv
      BY <3>2 DEF ThreadInv, AuditInv, TypeOK
    <3> QED BY <2>1, <3>1, <3>2
  <2> QED BY <1>1, <2>1, <2>2, <2>3, StepThreads
<1>5. CASE ~(FillRevision(p) \/ SaveEnvironment(p) \/ RemoveFile(p))
  <2> DEFINE k == [NoWrites(job[p].container) EXCEPT !.removing = TRUE]
  <2>1. UNCHANGED <<revisions, environments, used, exports>>
    BY <1>5 DEF Write, Fault, SaveContainer, NumberEvent, CreateFile, FillAudit, Return,
         AuditUnreadable, MeetsLeftover, Removed, WriteFails, RemovalFails, Crash, store
  <2>2. \/ job' = [job EXCEPT ![p].create = FALSE]
        \/ \E W : job' = [job EXCEPT ![p].written = W]
        \/ job' = [job EXCEPT ![p].writing = TRUE]
        \/ job' = [job EXCEPT ![p].events = {}, ![p].writing = FALSE]
        \/ job' = [job EXCEPT ![p] = Idle]
        \/ job' = [job EXCEPT ![p] = k]
    <3>1. Raise(p) => job' = [job EXCEPT ![p] = Idle] \/ job' = [job EXCEPT ![p] = k]
      BY DEF Raise
    <3> HIDE DEF k
    <3> QED BY <1>5, <3>1 DEF Write, Fault, SaveContainer, NumberEvent, CreateFile, FillAudit,
              Return, AuditUnreadable, MeetsLeftover, Removed, WriteFails, RemovalFails, Crash
  <2>3. k.revs = {} /\ k.envs = {}
    BY DEF NoWrites
  <2> HIDE DEF k
  <2>4. PICK i : /\ job' = [job EXCEPT ![p] = i]
                 /\ i # Idle => i.revs \subseteq job[p].revs /\ i.envs \subseteq job[p].envs
    <3>1. CASE job' = [job EXCEPT ![p].create = FALSE]
      <4>1. /\ [job[p] EXCEPT !.create = FALSE].revs = job[p].revs
            /\ [job[p] EXCEPT !.create = FALSE].envs = job[p].envs
        BY <1>1 DEF Job
      <4> QED BY <3>1, <4>1
    <3>2. ASSUME NEW W, job' = [job EXCEPT ![p].written = W]
          PROVE  \E i : /\ job' = [job EXCEPT ![p] = i]
                        /\ i # Idle => i.revs \subseteq job[p].revs /\ i.envs \subseteq job[p].envs
      <4>1. /\ [job[p] EXCEPT !.written = W].revs = job[p].revs
            /\ [job[p] EXCEPT !.written = W].envs = job[p].envs
        BY <1>1 DEF Job
      <4> QED BY <3>2, <4>1
    <3>3. CASE job' = [job EXCEPT ![p].writing = TRUE]
      <4>1. /\ [job[p] EXCEPT !.writing = TRUE].revs = job[p].revs
            /\ [job[p] EXCEPT !.writing = TRUE].envs = job[p].envs
        BY <1>1 DEF Job
      <4> QED BY <3>3, <4>1
    <3>4. CASE job' = [job EXCEPT ![p].events = {}, ![p].writing = FALSE]
      <4>1. /\ [job[p] EXCEPT !.events = {}, !.writing = FALSE].revs = job[p].revs
            /\ [job[p] EXCEPT !.events = {}, !.writing = FALSE].envs = job[p].envs
        BY <1>1 DEF Job
      <4>2. job' = [job EXCEPT ![p] = [job[p] EXCEPT !.events = {}, !.writing = FALSE]]
        BY <3>4 DEF ThreadInv, AuditInv, TypeOK
      <4> QED BY <4>1, <4>2
    <3>5. CASE job' = [job EXCEPT ![p] = Idle]
      BY <3>5
    <3>6. CASE job' = [job EXCEPT ![p] = k]
      BY <2>3, <3>6
    <3> QED BY <2>2, <3>1, <3>2, <3>3, <3>4, <3>5, <3>6
  <2>5. job'[p] = i /\ \A q \in Clients \ {p} : job'[q] = job[q]
    BY <2>4 DEF ThreadInv, AuditInv, TypeOK
  <2> QED BY <1>1, <2>1, <2>4, <2>5, OtherStepThreads
<1> QED BY <1>2, <1>3, <1>4, <1>5

\* Of a line of history, every revision but the first comes after its parent.
LEMMA LinearParents ==
  ASSUME NEW R \in SUBSET Revision, Linear(R), NEW r \in R
  PROVE  /\ r.number \in Nat /\ r.number # 0 /\ (r.number = 1 => r.parent = NoVersion)
         /\ r.number # 1 => \E s \in R : r.number = s.number + 1 /\ r.parent = s.version
<1>1. PICK n \in Nat : Numbers(R) = 1 .. n
  BY LinearLength
<1>2. r.number \in 1 .. n
  BY <1>1 DEF Numbers
<1>3. Ordered(R)
  BY LinearIs
<1>4. ASSUME r.number # 1
      PROVE  \E s \in R : r.number = s.number + 1 /\ r.parent = s.version
  <2>1. r.number - 1 \in Numbers(R) /\ r.number \in Nat
    BY <1>1, <1>2, <1>4
  <2>2. PICK s \in R : s.number = r.number - 1
    BY <2>1 DEF Numbers
  <2>3. r.number = s.number + 1
    BY <2>1, <2>2
  <2> QED BY <1>3, <2>3 DEF Ordered
<1> QED BY <1>2, <1>3, <1>4 DEF Ordered

\* Sound documents are threaded.
LEMMA InitThreadInv == Init /\ ForeignDocsSound => ThreadInv
<1> SUFFICES ASSUME Init, ForeignDocsSound PROVE ThreadInv
  OBVIOUS
<1>1. AuditInv
  BY InitEstablishesAuditInv
<1>2. \A r \in AllRevisions : \E d \in ForeignDocs : r \in d.revs
  BY DEF Init, AllRevisions
<1>3. \A env \in AllEnvironments : \E d \in ForeignDocs, e \in EnvNames : env = d.envs[e]
  BY NothingAssumption DEF Init, AllEnvironments, NoEnvironments
<1>4. \A d \in ForeignDocs :
        /\ d.revs \in SUBSET Revision /\ Linear(d.revs) /\ VersionsOf(d.revs) \subseteq used
        /\ d.envs \in [EnvNames -> Environment \cup {NoEnv}]
        /\ \A e \in EnvNames : d.envs[e] # NoEnv => PointersGood(d.revs, d.envs[e])
  BY ForeignDocsAssumption DEF Init, ForeignDocsSound, DocumentSound, Document
<1>5. \A r, s \in AllRevisions : r.version = s.version => r = s
  BY <1>2 DEF ForeignDocsSound
<1>6. ASSUME NEW r \in AllRevisions
      PROVE  /\ r.number # 0 /\ (r.number = 1 <=> r.parent = NoVersion)
             /\ r.version \in used /\ r.parent \in used \cup {NoVersion}
             /\ \A s \in AllRevisions : r.parent = s.version => r.number = s.number + 1
  <2>1. PICK d \in ForeignDocs : r \in d.revs
    BY <1>2
  <2>2. /\ r.number \in Nat /\ r.number # 0 /\ (r.number = 1 => r.parent = NoVersion)
        /\ r.number # 1 => \E s \in d.revs : r.number = s.number + 1 /\ r.parent = s.version
    BY <1>4, <2>1, LinearParents
  <2>3. \A s \in d.revs : /\ s.version \in used /\ s.version # NoVersion
                          /\ s \in AllRevisions
    BY <1>4, ConstantsAssumption DEF Init, VersionsOf, Revision, AllRevisions
  <2>4. \A s \in AllRevisions : s.version # NoVersion
    BY ConstantsAssumption DEF AllRevisions, Revision
  <2>5. CASE r.number = 1
    BY <2>1, <2>2, <2>3, <2>4, <2>5
  <2>6. CASE r.number # 1
    <3>1. PICK s \in d.revs : r.number = s.number + 1 /\ r.parent = s.version
      BY <2>2, <2>6
    <3>2. \A t \in AllRevisions : r.parent = t.version => t = s
      BY <1>5, <2>3, <3>1
    <3> QED BY <2>1, <2>2, <2>3, <2>6, <3>1, <3>2
  <2> QED BY <2>5, <2>6
<1>7. Threaded(AllRevisions, used)
  BY <1>5, <1>6 DEF Threaded
<1>8. ASSUME NEW env \in AllEnvironments PROVE Aims(AllRevisions, used, env)
  <2>1. PICK d \in ForeignDocs, e \in EnvNames : env = d.envs[e]
    BY <1>3
  <2>2. env # NoEnv
    BY NothingAssumption DEF AllEnvironments
  <2>3. PointersGood(d.revs, env)
    BY <1>4, <2>1, <2>2
  <2>4. ASSUME NEW v, Deployable(d.revs, v)
        PROVE  /\ v \in used
               /\ \A s \in AllRevisions : s.version = v => s.payload \in ValidPayloads
    <3>1. PICK r \in d.revs : r.version = v /\ r.payload \in ValidPayloads
      BY <2>4 DEF Deployable
    <3>2. v \in used /\ r \in AllRevisions
      BY <1>4, <3>1 DEF VersionsOf, AllRevisions, Init
    <3> QED BY <1>5, <3>1, <3>2
  <2>5. \A s \in AllRevisions : s.version # NoVersion
    BY ConstantsAssumption DEF AllRevisions, Revision
  <2>6. env.current # NoVersion => Deployable(d.revs, env.current)
    BY <2>3 DEF PointersGood
  <2>7. env.previous # NoVersion =>
          Deployable(d.revs, env.previous) /\ env.current \notin {NoVersion, env.previous}
    BY <2>3 DEF PointersGood
  <2> QED BY <2>4, <2>5, <2>6, <2>7 DEF Aims
<1>9. ExportsBounded
  <2> SUFFICES ASSUME NEW d \in ForeignDocs, d.revs # {}
               PROVE  \E r \in d.revs : \A s \in d.revs : s.number <= r.number
    BY DEF ExportsBounded, Init
  <2>1. Latest(d.revs) \in d.revs /\ Latest(d.revs).number \in Nat
        /\ Numbers(d.revs) = 1 .. Latest(d.revs).number
    BY <1>4, LatestIsLast
  <2>2. \A s \in d.revs : s.number \in 1 .. Latest(d.revs).number
    BY <2>1 DEF Numbers
  <2> QED BY <2>1, <2>2
<1> QED BY <1>1, <1>7, <1>8, <1>9 DEF ThreadInv

\* Every step of the control plane keeps ThreadInv.
LEMMA NextThreadInv == ThreadInv /\ [Next]_vars => ThreadInv'
<1> SUFFICES ASSUME ThreadInv, [Next]_vars PROVE ThreadInv'
  OBVIOUS
<1>0. AuditInv'
  BY NextPreservesAuditInv DEF ThreadInv
<1>1. CASE UNCHANGED vars
  BY <1>0, <1>1, IdleStepThreads DEF vars
<1>2. ASSUME NEW p \in Clients, Operation(p) PROVE ThreadInv'
  BY <1>0, <1>2, CreateContainerThreads, CreateRevisionThreads, CreateEnvironmentThreads,
     ActivateThreads, RollbackThreads, ExportThreads, ImportAsThreads DEF Operation
<1>3. ASSUME NEW p \in Clients, Import(p) PROVE ThreadInv'
  BY <1>0, <1>3, ImportSameThreads DEF Import
<1>4. ASSUME NEW p \in Clients, Write(p) \/ Fault(p) PROVE ThreadInv'
  BY <1>0, <1>4, WriteThreads
<1> QED BY <1>1, <1>2, <1>3, <1>4 DEF Next

\* What import_container accepts has no gap and no pointer that leads nowhere.
LEMMA AcceptedSound ==
  ASSUME ThreadInv, NEW d \in exports, Parses(d)
  PROVE  DocumentSound(d)
<1>1. /\ d.revs \in SUBSET Revision /\ d.envs \in [EnvNames -> Environment \cup {NoEnv}]
      /\ AllRevisions \in SUBSET Revision /\ used \in SUBSET Versions
      /\ d.revs \in SUBSET AllRevisions
  BY DEF ThreadInv, AuditInv, TypeOK, Document, AllRevisions
<1>2. Linear(d.revs)
  <2>1. d.revs # {} => \E r \in d.revs : \A s \in d.revs : s.number <= r.number
    BY DEF ThreadInv, ExportsBounded
  <2>2. /\ \A r, s \in d.revs : r.version = s.version \/ r.number = s.number => r = s
        /\ \A r \in d.revs : r.parent \in VersionsOf(d.revs) \cup {NoVersion}
    BY DEF Parses
  <2>3. Threaded(AllRevisions, used)
    BY DEF ThreadInv
  <2> QED BY <1>1, <2>1, <2>2, <2>3, AcceptedLinear
<1>3. ASSUME NEW e \in EnvNames, d.envs[e] # NoEnv PROVE PointersGood(d.revs, d.envs[e])
  <2>1. d.envs[e] \in AllEnvironments
    BY <1>1, <1>3 DEF AllEnvironments
  <2>2. Aims(AllRevisions, used, d.envs[e])
    BY <2>1 DEF ThreadInv
  <2>3. /\ d.envs[e].current \in VersionsOf(d.revs) \cup {NoVersion}
        /\ d.envs[e].previous \in VersionsOf(d.revs) \cup {NoVersion}
    BY <1>3 DEF Parses
  <2>4. \A v \in {d.envs[e].current, d.envs[e].previous} :
          v # NoVersion => Deployable(d.revs, v)
    BY <1>1, <2>2, <2>3 DEF Aims, Deployable, VersionsOf
  <2> QED BY <2>2, <2>4 DEF PointersGood, Aims
<1> QED BY <1>2, <1>3 DEF DocumentSound

\* ThreadInv is an invariant, given sound documents to start with.
LEMMA ThreadInvHolds == ASSUME ForeignDocsSound PROVE Spec => []ThreadInv
<1>1. Init => ThreadInv
  BY InitThreadInv
<1> QED BY <1>1, NextThreadInv, PTL DEF Spec

\* When the documents that came from other stores are sound, whatever import_container
\* accepts later is: what a removal cut short leaves behind can be exported, but a
\* document with a gap or a pointer that leads nowhere is refused, although the import
\* checks only that versions and numbers are unique and that names are known.
THEOREM AcceptedMeansSoundHolds ==
  ASSUME ForeignDocsSound
  PROVE  Spec => []AcceptedMeansSound
<1>1. ThreadInv => AcceptedMeansSound
  BY AcceptedSound DEF AcceptedMeansSound
<1> QED BY <1>1, ThreadInvHolds, PTL

-----------------------------------------------------------------------------
(* One line of history *)

\* The revisions on disk and those still to write are one line of history, written
\* from its start, and the environments to write point into it.
PlansHistory(j) ==
  /\ Linear(WholeHistory(j))
  /\ \A r \in revisions[j.container], s \in j.revs : r.number < s.number
  /\ \A x \in j.envs : PointersGood(WholeHistory(j), x[2])

JobsLinear ==
  \A p \in Clients :
    job[p] # Idle /\ ~job[p].removing /\ job[p].container \notin half => PlansHistory(job[p])

LineInv ==
  /\ StoreInv
  /\ ThreadInv
  /\ JobsLinear
  /\ RevisionHistoryLinear
  /\ EnvironmentsDeployable

-----------------------------------------------------------------------------
(* LineInv: operations *)

\* While nobody is in an operation every container is whole whose removal was not cut
\* short.
LEMMA WholeWhenFree ==
  ASSUME AuditInv, holder = Free
  PROVE  Undamaged = Containers \ half
<1>1. \A q \in Clients : job[q] = Idle
  BY ConstantsAssumption DEF AuditInv, LockHeld
<1> QED BY <1>1 DEF Undamaged

\* An operation that starts plans writes that extend the history.
LEMMA StartLinear ==
  ASSUME LineInv, StoreInv', ThreadInv', NEW p \in Clients, NEW j \in NewJob, Start(p, j),
         UNCHANGED <<store, half>>, j.container \notin half => PlansHistory(j)
  PROVE  LineInv'
<1>1. /\ holder = Free /\ \A q \in Clients : job[q] = Idle
      /\ job'[p] = j /\ ~j.removing /\ \A q \in Clients \ {p} : job'[q] = Idle
  <2>1. job' = [job EXCEPT ![p] = j] /\ holder = Free
    BY DEF Start, AcquireLock
  <2>2. \A q \in Clients : job[q] = Idle
    BY <2>1, ConstantsAssumption DEF LineInv, StoreInv, AuditInv, LockHeld
  <2> QED BY <2>1, <2>2 DEF LineInv, StoreInv, AuditInv, TypeOK, NewJob
<1>2. revisions' = revisions /\ environments' = environments /\ half' = half
  BY DEF store
<1>3. JobsLinear'
  <2>1. j.container \notin half => PlansHistory(j)'
    BY <1>2 DEF PlansHistory, WholeHistory
  <2> QED BY <1>1, <1>2, <2>1 DEF JobsLinear
<1>4. Undamaged' = Undamaged
  BY <1>1, <1>2 DEF Undamaged
<1>5. RevisionHistoryLinear' /\ EnvironmentsDeployable'
  BY <1>2, <1>4 DEF LineInv, RevisionHistoryLinear, EnvironmentsDeployable
<1> QED BY <1>3, <1>5 DEF LineInv

\* An operation that creates no revision.
LEMMA StartWithoutRevisions ==
  ASSUME LineInv, StoreInv', ThreadInv', NEW p \in Clients, NEW j \in NewJob, Start(p, j),
         UNCHANGED <<store, half>>, j.revs = {},
         j.container \notin half => \A x \in j.envs : PointersGood(revisions[j.container], x[2])
  PROVE  LineInv'
<1>1. WholeHistory(j) = revisions[j.container] /\ j.container \in Containers
  BY DEF WholeHistory, NewJob, Job
<1>2. j.container \notin half => j.container \in Undamaged
  BY <1>1, WholeWhenFree DEF Start, AcquireLock, LineInv, StoreInv
<1>3. j.container \notin half => PlansHistory(j)
  BY <1>1, <1>2 DEF LineInv, RevisionHistoryLinear, PlansHistory
<1> QED BY <1>3, StartLinear

\* create_container writes no revision and no environment.
LEMMA CreateContainerLinear ==
  ASSUME LineInv, StoreInv', ThreadInv', NEW p \in Clients, NEW c \in Containers,
         CreateContainer(p, c)
  PROVE  LineInv'
<1> DEFINE j == [NoWrites(c) EXCEPT !.create = TRUE]
<1>1. j \in NewJob
  BY ContainerJob
<1>2. j.revs = {} /\ j.envs = {}
  BY DEF NoWrites
<1>3. Start(p, j) /\ UNCHANGED <<store, half>>
  BY DEF CreateContainer, ghosts
<1> HIDE DEF j
<1> QED BY <1>1, <1>2, <1>3, StartWithoutRevisions

\* create_revision appends to the line of history, under a version nobody has.
LEMMA CreateRevisionLinear ==
  ASSUME LineInv, StoreInv', ThreadInv', NEW p \in Clients, NEW c \in Containers,
         NEW v \in Versions, NEW payload \in Payloads, NEW expected \in OptVersion,
         CreateRevision(p, c, v, payload, expected)
  PROVE  LineInv'
<1> DEFINE r == [version |-> v, number |-> LatestNumber(c) + 1,
                 parent |-> LatestVersion(c), payload |-> payload]
           e == MkEvent("revision.created", "succeeded", NoEnv, v, r.parent)
           j == [NoWrites(c) EXCEPT !.revs = {r}, !.events = {e}]
<1>1. LatestNumber(c) \in Nat /\ LatestVersion(c) \in OptVersion
  BY LatestTyped DEF LineInv, StoreInv, AuditInv
<1>2. r \in Revision
  BY <1>1 DEF Revision
<1>3. e \in Event
  BY <1>1, MkEventTyped DEF Action, Result, OptEnvName, OptVersion
<1>4. Start(p, j) /\ v \notin used /\ c \in containers /\ UNCHANGED <<store, half>>
  BY DEF CreateRevision, ghosts
<1>5. j \in NewJob
  <2> HIDE DEF r, e
  <2> QED BY <1>2, <1>3, <1>4, RevisionJob
<1>6. j.container = c /\ j.revs = {r} /\ j.envs = {}
  BY DEF NoWrites
<1>7. revisions[c] \in SUBSET Revision /\ v \notin VersionsOf(revisions[c])
  <2>1. revisions[c] \in SUBSET Revision
    BY DEF LineInv, StoreInv, AuditInv, TypeOK
  <2>2. revisions[c] \subseteq AllRevisions
    BY <2>1 DEF AllRevisions
  <2>3. \A s \in revisions[c] : s.version \in used
    BY <2>2 DEF LineInv, ThreadInv, Threaded
  <2> QED BY <1>4, <2>1, <2>3 DEF VersionsOf
<1>8. IF revisions[c] = {} THEN r.number = 1 /\ r.parent = NoVersion
      ELSE r.number = Latest(revisions[c]).number + 1 /\ r.parent = Latest(revisions[c]).version
  BY DEF LatestNumber, LatestVersion
<1>9. r.version = v
  OBVIOUS
<1>10. c \notin half => Linear(revisions[c])
  <2>1. Undamaged = Containers \ half
    BY <1>4, WholeWhenFree DEF Start, AcquireLock, LineInv, StoreInv
  <2> QED BY <2>1 DEF LineInv, RevisionHistoryLinear
<1> HIDE DEF r, e, j
<1>11. c \notin half => /\ Linear(revisions[c] \cup {r})
                        /\ \A s \in revisions[c] : s.number < r.number
  BY <1>2, <1>7, <1>8, <1>9, <1>10, LinearAppend
<1>12. j.container \notin half => PlansHistory(j)
  BY <1>6, <1>11 DEF WholeHistory, PlansHistory
<1> QED BY <1>4, <1>5, <1>12, StartLinear

\* A new environment points nowhere.
LEMMA CreateEnvironmentLinear ==
  ASSUME LineInv, StoreInv', ThreadInv', NEW p \in Clients, NEW c \in Containers,
         NEW e \in EnvNames, NEW protected \in BOOLEAN, CreateEnvironment(p, c, e, protected)
  PROVE  LineInv'
<1> DEFINE env == [protected |-> protected, current |-> NoVersion, previous |-> NoVersion]
           x == MkEvent("environment.created", "succeeded", e, NoVersion, NoVersion)
           j == [NoWrites(c) EXCEPT !.envs = {<<e, env>>}, !.events = {x}]
<1>1. env \in Environment /\ PointersGood(revisions[c], env)
  BY DEF Environment, OptVersion, PointersGood
<1>2. x \in Event
  BY MkEventTyped DEF Action, Result, OptEnvName, OptVersion
<1>3. Start(p, j) /\ c \in containers /\ UNCHANGED <<store, half>>
  BY DEF CreateEnvironment, ghosts
<1> HIDE DEF env, x
<1>4. j \in NewJob
  BY <1>1, <1>2, <1>3, EnvironmentJob
<1>5. j.container = c /\ j.revs = {} /\ j.envs = {<<e, env>>}
  BY DEF NoWrites
<1> HIDE DEF j
<1> QED BY <1>1, <1>3, <1>4, <1>5, StartWithoutRevisions

\* A refused switch writes an event only.
LEMMA RefuseLinear ==
  ASSUME LineInv, StoreInv', ThreadInv', NEW p \in Clients, NEW c \in containers,
         NEW e \in EnvNames, NEW action \in Action, NEW reason \in Result,
         NEW target \in OptVersion, environments[c][e] # NoEnv,
         Refuse(p, c, e, action, reason, target), UNCHANGED <<store, half>>
  PROVE  LineInv'
<1> DEFINE x == MkEvent(action, reason, e, target, environments[c][e].current)
           j == [NoWrites(c) EXCEPT !.events = {x}]
<1>1. c \in Containers /\ environments[c][e].current \in OptVersion
  BY DEF LineInv, StoreInv, AuditInv, TypeOK, Environment
<1>2. x \in Event
  BY <1>1, MkEventTyped DEF OptEnvName
<1>3. Start(p, j)
  BY DEF Refuse
<1> HIDE DEF x
<1>4. j \in NewJob
  BY <1>1, <1>2, EventJob
<1>5. j.container = c /\ j.revs = {} /\ j.envs = {}
  BY DEF NoWrites
<1> HIDE DEF j
<1> QED BY <1>3, <1>4, <1>5, StartWithoutRevisions

\* The version switched to is valid and not the one left, which is stored and valid.
LEMMA SwitchToLinear ==
  ASSUME LineInv, StoreInv', ThreadInv', NEW p \in Clients, NEW c \in containers,
         NEW e \in EnvNames, NEW action \in Action, NEW target \in Versions,
         environments[c][e] # NoEnv, Valid(c, target), target # environments[c][e].current,
         SwitchTo(p, c, e, action, target), UNCHANGED <<store, half>>
  PROVE  LineInv'
<1> DEFINE old == environments[c][e]
           env == [old EXCEPT !.current = target, !.previous = old.current]
           x == MkEvent(action, "succeeded", e, target, old.current)
           j == [NoWrites(c) EXCEPT !.envs = {<<e, env>>}, !.events = {x}]
<1>1. c \in Containers /\ old \in Environment
  BY DEF LineInv, StoreInv, AuditInv, TypeOK
<1>2. env \in Environment /\ env.current = target /\ env.previous = old.current
  BY <1>1 DEF Environment, OptVersion
<1>3. x \in Event
  BY <1>1, MkEventTyped DEF OptEnvName, Environment, Result, OptVersion
<1>4. Start(p, j)
  BY DEF SwitchTo
<1>5. c \notin half => PointersGood(revisions[c], old)
  <2>1. Undamaged = Containers \ half
    BY <1>4, WholeWhenFree DEF Start, AcquireLock, LineInv, StoreInv
  <2> QED BY <1>1, <2>1 DEF LineInv, EnvironmentsDeployable
<1>6. target # NoVersion /\ target # old.current /\ Deployable(revisions[c], target)
  BY ConstantsAssumption DEF Valid, Deployable
<1> HIDE DEF x, env, old
<1>7. c \notin half => PointersGood(revisions[c], env)
  BY <1>2, <1>5, <1>6 DEF PointersGood
<1>8. j \in NewJob
  BY <1>1, <1>2, <1>3, EnvironmentJob
<1>9. j.container = c /\ j.revs = {} /\ j.envs = {<<e, env>>}
  BY DEF NoWrites
<1> HIDE DEF j
<1> QED BY <1>4, <1>7, <1>8, <1>9, StartWithoutRevisions

\* activate_environment leaves for a valid version that is not the current one.
LEMMA ActivateLinear ==
  ASSUME LineInv, StoreInv', ThreadInv', NEW p \in Clients, NEW c \in Containers,
         NEW e \in EnvNames, NEW target \in Versions, NEW expected \in OptVersion,
         NEW allow \in BOOLEAN, ActivateEnvironment(p, c, e, target, expected, allow)
  PROVE  LineInv'
<1> DEFINE action == "environment.activated"
<1>1. action \in Action /\ target \in OptVersion
  BY DEF Action, OptVersion
<1>2. /\ c \in containers /\ environments[c][e] # NoEnv /\ UNCHANGED <<store, half>>
      /\ GuardedSwitch(p, c, e, action, target, expected, allow)
  BY DEF ActivateEnvironment, ghosts
<1>3. \/ \E reason \in Result : Refuse(p, c, e, action, reason, target)
      \/ /\ SwitchTo(p, c, e, action, target) /\ Valid(c, target)
         /\ target # environments[c][e].current
  BY <1>2 DEF GuardedSwitch, Result
<1> HIDE DEF action
<1> QED BY <1>1, <1>2, <1>3, RefuseLinear, SwitchToLinear

\* previous_config_version differs from config_version.
LEMMA RollbackLinear ==
  ASSUME LineInv, StoreInv', ThreadInv', NEW p \in Clients, NEW c \in Containers,
         NEW e \in EnvNames, NEW expected \in OptVersion, NEW allow \in BOOLEAN,
         RollbackEnvironment(p, c, e, expected, allow)
  PROVE  LineInv'
<1> DEFINE action == "environment.rolled_back"
           target == environments[c][e].previous
<1>1. action \in Action /\ NoVersion \in OptVersion /\ "no_previous_revision" \in Result
  BY DEF Action, OptVersion, Result
<1>2. /\ c \in containers /\ environments[c][e] # NoEnv /\ UNCHANGED <<store, half>>
      /\ target \in OptVersion /\ environments[c][e] \in Environment
  BY DEF RollbackEnvironment, ghosts, LineInv, StoreInv, AuditInv, TypeOK, Environment
<1>3. \/ Refuse(p, c, e, action, "no_previous_revision", NoVersion)
      \/ target # NoVersion /\ GuardedSwitch(p, c, e, action, target, expected, allow)
  BY DEF RollbackEnvironment
<1>4. GuardedSwitch(p, c, e, action, target, expected, allow) =>
        \/ \E reason \in Result : Refuse(p, c, e, action, reason, target)
        \/ SwitchTo(p, c, e, action, target) /\ Valid(c, target)
  BY DEF GuardedSwitch, Result
<1>5. Aims(AllRevisions, used, environments[c][e])
  BY <1>2 DEF LineInv, ThreadInv, AllEnvironments
<1>6. target # NoVersion => target \in Versions /\ target # environments[c][e].current
  BY <1>2, <1>5 DEF Aims, OptVersion
<1> HIDE DEF action, target
<1> QED BY <1>1, <1>2, <1>3, <1>4, <1>6, RefuseLinear, SwitchToLinear

\* An import starts in a container that is empty, unless a removal was cut short there.
LEMMA ImportLinear ==
  ASSUME LineInv, StoreInv', ThreadInv', NEW p \in Clients, NEW c \in Containers \ containers,
         NEW j \in NewJob, Start(p, j), j.container = c, UNCHANGED <<store, half>>,
         Linear(j.revs), \A x \in j.envs : PointersGood(j.revs, x[2])
  PROVE  LineInv'
<1>1. Undamaged = Containers \ half
  BY WholeWhenFree DEF Start, AcquireLock, LineInv, StoreInv
<1>2. c \notin half => revisions[c] = {} /\ WholeHistory(j) = j.revs
  BY <1>1 DEF LineInv, StoreInv, EmptyUntilCreated, WholeHistory
<1>3. j.container \notin half => PlansHistory(j)
  BY <1>2 DEF PlansHistory
<1> QED BY <1>3, StartLinear

\* A step that leaves the store, the jobs and the documents alone.
LEMMA IdleStepLinear ==
  ASSUME LineInv, StoreInv', ThreadInv', UNCHANGED <<store, job, half>>
  PROVE  LineInv'
<1>1. /\ revisions' = revisions /\ environments' = environments /\ job' = job /\ half' = half
      /\ Undamaged' = Undamaged
  BY DEF store, Undamaged
<1>2. JobsLinear'
  BY <1>1 DEF LineInv, JobsLinear, PlansHistory, WholeHistory
<1>3. RevisionHistoryLinear' /\ EnvironmentsDeployable'
  BY <1>1 DEF LineInv, RevisionHistoryLinear, EnvironmentsDeployable
<1> QED BY <1>2, <1>3 DEF LineInv

\* A document that is a line of history is written as it is.
LEMMA ImportSameLinear ==
  ASSUME LineInv, StoreInv', ThreadInv', NEW p \in Clients, NEW d \in exports, ImportSame(p, d)
  PROVE  LineInv'
<1>1. d \in Document /\ d.source \in Containers /\ d.revs \in SUBSET Revision
  BY DEF LineInv, StoreInv, AuditInv, TypeOK, Document
<1>2. CASE UNCHANGED <<store, used, exports, holder, job, bounds, acked, unaudited, half>>
  BY <1>2, IdleStepLinear
<1>3. CASE /\ d.source \notin containers
           /\ Start(p, [NoWrites(d.source) EXCEPT !.create = TRUE, !.revs = d.revs,
                          !.envs = EnvDocs(d.envs), !.docs = {d}])
           /\ UNCHANGED <<store, used, exports, bounds, ghosts>>
  <2> DEFINE V == EnvDocs(d.envs)
             j == [NoWrites(d.source) EXCEPT !.create = TRUE, !.revs = d.revs,
                     !.envs = V, !.docs = {d}]
  <2>1. V \in SUBSET (EnvNames \X Environment)
    BY <1>1, EnvDocsTyped
  <2>2. DocumentSound(d)
    BY AcceptedSound DEF ImportSame, LineInv
  <2>3. \A x \in V : PointersGood(d.revs, x[2])
    BY <2>2 DEF EnvDocs, DocumentSound
  <2>4. Start(p, j) /\ UNCHANGED <<store, half>>
    BY <1>3 DEF ghosts
  <2> HIDE DEF V
  <2>5. j \in NewJob
    BY <1>1, <1>3, <2>1, ImportJob
  <2>6. j.container = d.source /\ j.revs = d.revs /\ j.envs = V
    BY DEF NoWrites
  <2> HIDE DEF j
  <2>7. Linear(j.revs)
    BY <2>2, <2>6 DEF DocumentSound
  <2> QED BY <1>1, <1>3, <2>3, <2>4, <2>5, <2>6, <2>7, ImportLinear
<1> QED BY <1>2, <1>3 DEF ImportSame

\* A remapped document is a line of history with environments that point into it.
LEMMA ImportAsLinear ==
  ASSUME LineInv, StoreInv', ThreadInv', NEW p \in Clients, NEW c \in Containers,
         NEW d \in exports, NEW f \in [VersionsOf(d.revs) -> Versions \ used],
         ImportAs(p, d, c, f)
  PROVE  LineInv'
<1> DEFINE R == RemapRevisions(d.revs, f)
           V == RemapEnvs(d.envs, f)
           j == [NoWrites(c) EXCEPT !.create = TRUE, !.revs = R, !.envs = V, !.docs = {d}]
<1>1. /\ d \in Document /\ d.revs \in SUBSET Revision
      /\ d.envs \in [EnvNames -> Environment \cup {NoEnv}]
  BY DEF LineInv, StoreInv, AuditInv, TypeOK, Document
<1>2. R \in SUBSET Revision /\ V \in SUBSET (EnvNames \X Environment)
  BY <1>1, RemapTyped DEF ImportAs
<1>3. /\ Parses(d) /\ c \notin containers /\ Start(p, j) /\ UNCHANGED <<store, half>>
      /\ \A v, w \in VersionsOf(d.revs) : f[v] = f[w] => v = w
  BY DEF ImportAs, ghosts
<1>4. DocumentSound(d)
  BY <1>3, AcceptedSound DEF LineInv
<1>5. Linear(R)
  BY <1>1, <1>3, <1>4, LinearRemap DEF DocumentSound, Parses
<1>6. \A x \in V : PointersGood(R, x[2])
  <2> DEFINE h(n) == [d.envs[n] EXCEPT !.current = RemapVersion(f, d.envs[n].current),
                                       !.previous = RemapVersion(f, d.envs[n].previous)]
  <2>0. V = {<<n, h(n)>> : n \in {m \in EnvNames : d.envs[m] # NoEnv}}
    BY DEF RemapEnvs
  <2> SUFFICES ASSUME NEW n \in EnvNames, d.envs[n] # NoEnv PROVE PointersGood(R, h(n))
    <3> HIDE DEF V, h, R
    <3> QED BY <2>0
  <2>1. d.envs[n] \in Environment /\ PointersGood(d.revs, d.envs[n])
    BY <1>1, <1>4 DEF DocumentSound
  <2>2. \A v \in VersionsOf(d.revs) : f[v] \in Versions
    OBVIOUS
  <2> QED BY <1>1, <1>3, <2>1, <2>2, PointersRemap
<1> HIDE DEF R, V
<1>7. j \in NewJob
  BY <1>1, <1>2, <1>3, ImportJob
<1>8. j.container = c /\ j.revs = R /\ j.envs = V
  BY DEF NoWrites
<1> HIDE DEF j
<1> QED BY <1>3, <1>5, <1>6, <1>7, <1>8, ImportLinear

\* An export reads.
LEMMA ExportLinear ==
  ASSUME LineInv, StoreInv', ThreadInv', NEW p \in Clients, NEW c \in Containers,
         ExportContainer(p, c)
  PROVE  LineInv'
BY IdleStepLinear DEF ExportContainer, ghosts

-----------------------------------------------------------------------------
(* LineInv: writes *)

\* A write that changes neither revisions nor environments.
LEMMA OtherWriteLinear ==
  ASSUME LineInv, StoreInv', ThreadInv', NEW p \in Clients, job[p] # Idle, ~job[p].removing,
         NEW k \in Job, job' = [job EXCEPT ![p] = k], ~k.removing,
         k.container = job[p].container, k.revs = job[p].revs, k.envs = job[p].envs,
         UNCHANGED <<revisions, environments, half>>
  PROVE  LineInv'
<1>1. job'[p] = k /\ job'[p] # Idle /\ \A q \in Clients \ {p} : job'[q] = Idle
  BY Rewritten DEF LineInv, StoreInv
<1>2. JobsLinear'
  <2>1. job[p].container \notin half => PlansHistory(job[p])
    BY DEF LineInv, JobsLinear
  <2>2. job[p].container \notin half => PlansHistory(job[p])'
    BY <1>1, <2>1 DEF PlansHistory, WholeHistory
  <2> QED BY <1>1, <2>2 DEF JobsLinear
<1>3. Undamaged' \subseteq Undamaged
  BY DamageStays DEF LineInv, StoreInv
<1>4. RevisionHistoryLinear' /\ EnvironmentsDeployable'
  BY <1>3 DEF LineInv, RevisionHistoryLinear, EnvironmentsDeployable
<1> QED BY <1>2, <1>4 DEF LineInv

\* Writing container.json changes no history.
LEMMA SaveContainerLinear ==
  ASSUME LineInv, StoreInv', ThreadInv', NEW p \in Clients, SaveContainer(p)
  PROVE  LineInv'
<1> DEFINE k == [job[p] EXCEPT !.create = FALSE]
<1>1. job[p] # Idle /\ ~job[p].removing /\ UNCHANGED <<revisions, environments, half>>
  BY DEF SaveContainer, NextWrite, ghosts
<1>2. job[p] \in Job
  BY <1>1, JobOf DEF LineInv
<1>3. /\ k \in Job /\ k.container = job[p].container /\ k.revs = job[p].revs
      /\ k.envs = job[p].envs /\ ~k.removing
  BY <1>1, <1>2 DEF Job
<1>4. job' = [job EXCEPT ![p] = k]
  BY DEF SaveContainer
<1> HIDE DEF k
<1> QED BY <1>1, <1>3, <1>4, OtherWriteLinear

\* Numbering an event changes no history.
LEMMA NumberEventLinear ==
  ASSUME LineInv, StoreInv', ThreadInv', NEW p \in Clients, NumberEvent(p)
  PROVE  LineInv'
<1> DEFINE W == {[seq |-> LastSeq(job[p].container) + 1, event |-> e] : e \in job[p].events}
           k == [job[p] EXCEPT !.written = W]
<1>1. job[p] # Idle /\ ~job[p].removing /\ UNCHANGED <<revisions, environments, half>>
  BY DEF NumberEvent, NextWrite, store, ghosts
<1>2. job[p] \in Job /\ job[p].container \in Containers
  BY <1>1, JobOf DEF LineInv
<1>3. W \in SUBSET AuditEvent
  <2>1. LastSeq(job[p].container) \in Nat
    BY <1>2, LastSeqIsLength DEF LineInv, StoreInv, AuditInv
  <2> QED BY <1>2, <2>1 DEF Job, AuditEvent
<1>4. job' = [job EXCEPT ![p] = k]
  BY DEF NumberEvent
<1> HIDE DEF W
<1>5. /\ k \in Job /\ k.container = job[p].container /\ k.revs = job[p].revs
      /\ k.envs = job[p].envs /\ ~k.removing
  BY <1>1, <1>2, <1>3 DEF Job
<1> HIDE DEF k
<1> QED BY <1>1, <1>4, <1>5, OtherWriteLinear

\* Creating a file that is not filled yet changes no history.
LEMMA CreateFileLinear ==
  ASSUME LineInv, StoreInv', ThreadInv', NEW p \in Clients, CreateFile(p)
  PROVE  LineInv'
<1> DEFINE k == [job[p] EXCEPT !.writing = TRUE]
<1>1. job[p] # Idle /\ ~job[p].removing /\ UNCHANGED <<revisions, environments, half>>
  BY DEF CreateFile, NextWrite, store, ghosts
<1>2. job[p] \in Job
  BY <1>1, JobOf DEF LineInv
<1>3. /\ k \in Job /\ k.container = job[p].container /\ k.revs = job[p].revs
      /\ k.envs = job[p].envs /\ ~k.removing
  BY <1>1, <1>2 DEF Job
<1>4. job' = [job EXCEPT ![p] = k]
  BY DEF CreateFile
<1> HIDE DEF k
<1> QED BY <1>1, <1>3, <1>4, OtherWriteLinear

\* Writing an event changes no history.
LEMMA FillAuditLinear ==
  ASSUME LineInv, StoreInv', ThreadInv', NEW p \in Clients, FillAudit(p)
  PROVE  LineInv'
<1> DEFINE k == [job[p] EXCEPT !.events = {}, !.writing = FALSE]
<1>1. job[p] # Idle /\ ~job[p].removing /\ UNCHANGED <<revisions, environments, half>>
  BY DEF FillAudit, NextWrite, ghosts
<1>2. job[p] \in Job
  BY <1>1, JobOf DEF LineInv
<1>3. /\ k \in Job /\ k.container = job[p].container /\ k.revs = job[p].revs
      /\ k.envs = job[p].envs /\ ~k.removing
  BY <1>1, <1>2 DEF Job
<1>4. job' = [job EXCEPT ![p] = k]
  BY <1>2 DEF FillAudit, LineInv, StoreInv, AuditInv, TypeOK
<1> HIDE DEF k
<1> QED BY <1>1, <1>3, <1>4, OtherWriteLinear

\* The revisions of a container are written from the first on.
LEMMA FillRevisionLinear ==
  ASSUME LineInv, StoreInv', ThreadInv', NEW p \in Clients, FillRevision(p)
  PROVE  LineInv'
<1> DEFINE c == job[p].container
<1>1. job[p] # Idle /\ ~job[p].removing
  BY DEF FillRevision, NextWrite
<1>2. job[p] \in Job /\ c \in Containers /\ revisions[c] \in SUBSET Revision
  BY <1>1, JobOf DEF LineInv, StoreInv, AuditInv, TypeOK
<1>3. PICK r \in job[p].revs :
        /\ \A s \in job[p].revs : r.number <= s.number
        /\ revisions' = [revisions EXCEPT ![c] = @ \cup {r}]
        /\ job' = [job EXCEPT ![p].revs = @ \ {r}, ![p].writing = FALSE]
  BY DEF FillRevision, NextRevisions
<1> DEFINE k == [job[p] EXCEPT !.revs = @ \ {r}, !.writing = FALSE]
<1>4. /\ k \in Job /\ k.container = c /\ k.revs = job[p].revs \ {r} /\ k.envs = job[p].envs
      /\ job[p].revs \in SUBSET Revision
  BY <1>2 DEF Job
<1>5. job' = [job EXCEPT ![p] = k]
  BY <1>2, <1>3 DEF LineInv, StoreInv, AuditInv, TypeOK
<1> HIDE DEF k
<1>6. job'[p] = k /\ job'[p] # Idle /\ \A q \in Clients \ {p} : job'[q] = Idle
  BY <1>1, <1>4, <1>5, Rewritten DEF LineInv, StoreInv
<1>7. /\ revisions'[c] = revisions[c] \cup {r}
      /\ \A d \in Containers \ {c} : revisions'[d] = revisions[d]
  BY <1>2, <1>3 DEF LineInv, StoreInv, AuditInv, TypeOK
<1>8. environments' = environments /\ half' = half /\ Undamaged' \subseteq Undamaged
  BY <1>1, DamageStays DEF FillRevision, ghosts, LineInv, StoreInv
<1>9. c \notin half => PlansHistory(job[p]) /\ Linear(revisions[c])
  <2>1. c \notin half => c \in Undamaged
    BY <1>1, <1>2, Alone DEF Undamaged, LineInv, StoreInv
  <2> QED BY <1>1, <2>1 DEF LineInv, JobsLinear, RevisionHistoryLinear
<1>10. ASSUME c \notin half
       PROVE  /\ Linear(revisions[c] \cup {r})
              /\ \A s \in revisions[c] \cup {r}, t \in job[p].revs \ {r} : s.number < t.number
  <2>1. /\ Linear(revisions[c] \cup job[p].revs)
        /\ \A s \in revisions[c], t \in job[p].revs : s.number < t.number
    BY <1>9, <1>10 DEF PlansHistory, WholeHistory
  <2>2. \A s \in job[p].revs : r.number <= s.number
    BY <1>3
  <2> DEFINE R == revisions[c]
             S == job[p].revs
  <2>3. R \in SUBSET Revision /\ S \in SUBSET Revision /\ Linear(R)
    BY <1>2, <1>4, <1>9, <1>10
  <2> HIDE DEF R, S
  <2>4. /\ Linear(R \cup S) /\ \A s \in R, t \in S : s.number < t.number
        /\ \A s \in S : r.number <= s.number
    BY <2>1, <2>2 DEF R, S
  <2>5. r \in S
    BY <1>3 DEF S
  <2>6. /\ Linear(R \cup {r})
        /\ \A s \in R \cup {r}, t \in S \ {r} : s.number < t.number
    BY <2>3, <2>4, <2>5, LinearNext
  <2> QED BY <2>6 DEF R, S
<1>11. WholeHistory(job[p])' = WholeHistory(job[p])
  BY <1>3, <1>4, <1>6, <1>7 DEF WholeHistory
<1>12. JobsLinear'
  <2>1. ASSUME c \notin half PROVE PlansHistory(job[p])'
    <3>1. (\A s \in revisions[job[p].container], t \in job[p].revs : s.number < t.number)'
      BY <1>4, <1>6, <1>7, <1>10, <2>1
    <3>2. (\A x \in job[p].envs : PointersGood(WholeHistory(job[p]), x[2]))'
      BY <1>4, <1>6, <1>9, <1>11, <2>1 DEF PlansHistory
    <3> QED BY <1>9, <1>11, <2>1, <3>1, <3>2 DEF PlansHistory
  <2> QED BY <1>4, <1>6, <1>8, <2>1 DEF JobsLinear
<1>13. RevisionHistoryLinear'
  BY <1>7, <1>8, <1>10 DEF LineInv, RevisionHistoryLinear, Undamaged
<1>14. EnvironmentsDeployable'
  <2>1. \A d \in Containers : revisions[d] \subseteq revisions'[d]
    BY <1>7
  <2>2. Undamaged' \subseteq Containers
    BY DEF Undamaged
  <2> QED BY <1>8, <2>1, <2>2, PointersGrow DEF LineInv, EnvironmentsDeployable
<1> QED BY <1>12, <1>13, <1>14 DEF LineInv

\* An environment is written when the revisions it points to are.
LEMMA SaveEnvironmentLinear ==
  ASSUME LineInv, StoreInv', ThreadInv', NEW p \in Clients, SaveEnvironment(p)
  PROVE  LineInv'
<1> DEFINE c == job[p].container
<1>1. job[p] # Idle /\ ~job[p].removing /\ job[p].revs = {}
  BY DEF SaveEnvironment, NextWrite
<1>2. job[p] \in Job /\ c \in Containers
  BY <1>1, JobOf DEF LineInv
<1>3. PICK x \in job[p].envs :
        /\ environments' = [environments EXCEPT ![c][x[1]] = x[2]]
        /\ job' = [job EXCEPT ![p].envs = @ \ {x}]
  BY DEF SaveEnvironment
<1> DEFINE k == [job[p] EXCEPT !.envs = @ \ {x}]
<1>4. /\ k \in Job /\ k.container = c /\ k.revs = job[p].revs /\ k.envs = job[p].envs \ {x}
      /\ x[1] \in EnvNames
  BY <1>2 DEF Job
<1>5. job' = [job EXCEPT ![p] = k]
  BY <1>2, <1>3 DEF LineInv, StoreInv, AuditInv, TypeOK
<1> HIDE DEF k
<1>6. job'[p] = k /\ job'[p] # Idle /\ \A q \in Clients \ {p} : job'[q] = Idle
  BY <1>1, <1>4, <1>5, Rewritten DEF LineInv, StoreInv
<1>7. revisions' = revisions /\ half' = half /\ Undamaged' \subseteq Undamaged
  BY <1>1, DamageStays DEF SaveEnvironment, ghosts, LineInv, StoreInv
<1>8. c \notin half => PlansHistory(job[p])
  BY <1>1 DEF LineInv, JobsLinear
<1>9. JobsLinear'
  <2>1. c \notin half => PlansHistory(job[p])'
    BY <1>4, <1>6, <1>7, <1>8 DEF PlansHistory, WholeHistory
  <2> QED BY <1>4, <1>6, <1>7, <2>1 DEF JobsLinear
<1>10. RevisionHistoryLinear'
  BY <1>7 DEF LineInv, RevisionHistoryLinear
<1>11. EnvironmentsDeployable'
  <2>1. c \notin half => PointersGood(revisions[c], x[2])
    BY <1>1, <1>8 DEF PlansHistory, WholeHistory
  <2>2. \A d \in Containers, e \in EnvNames :
          environments'[d][e] = IF d = c /\ e = x[1] THEN x[2] ELSE environments[d][e]
    BY <1>2, <1>3, <1>4 DEF LineInv, StoreInv, AuditInv, TypeOK
  <2>3. Undamaged' \subseteq Containers \ half
    BY <1>7 DEF Undamaged
  <2> QED BY <1>7, <2>1, <2>2, <2>3 DEF LineInv, EnvironmentsDeployable
<1> QED BY <1>9, <1>10, <1>11 DEF LineInv

-----------------------------------------------------------------------------
(* LineInv: the end of an operation *)

\* An operation that is cut short leaves a prefix of the line it was writing.
LEMMA EndLinear ==
  ASSUME LineInv, StoreInv', ThreadInv', NEW p \in Clients, job[p] # Idle,
         job' = [job EXCEPT ![p] = Idle], Undamaged' \subseteq Undamaged,
         UNCHANGED <<revisions, environments>>
  PROVE  LineInv'
<1>1. JobsLinear'
  BY Ended DEF LineInv, StoreInv, JobsLinear
<1>2. RevisionHistoryLinear' /\ EnvironmentsDeployable'
  BY DEF LineInv, RevisionHistoryLinear, EnvironmentsDeployable
<1> QED BY <1>1, <1>2 DEF LineInv

\* The operation returns, its log is unreadable, its removal or its process stops.
LEMMA StopLinear ==
  ASSUME LineInv, StoreInv', ThreadInv', NEW p \in Clients,
         Return(p) \/ AuditUnreadable(p) \/ RemovalFails(p) \/ Crash(p)
  PROVE  LineInv'
<1>1. /\ job[p] # Idle /\ job' = [job EXCEPT ![p] = Idle]
      /\ UNCHANGED <<revisions, environments>>
  BY DEF Return, AuditUnreadable, RemovalFails, Crash, store
<1>2. \/ ~job[p].removing /\ half' = half
      \/ job[p].removing /\ half' = half \cup {job[p].container}
  BY DEF Return, AuditUnreadable, RemovalFails, Crash, NextWrite
<1>3. Undamaged' \subseteq Undamaged
  BY <1>1, <1>2, DamageStays, RemovalStops DEF LineInv, StoreInv
<1> QED BY <1>1, <1>3, EndLinear

\* A failed operation ends, or takes away what it wrote.
LEMMA RaiseLinear ==
  ASSUME LineInv, StoreInv', ThreadInv', NEW p \in Clients, WriteFails(p) \/ MeetsLeftover(p)
  PROVE  LineInv'
<1> DEFINE k == [NoWrites(job[p].container) EXCEPT !.removing = TRUE]
<1>1. /\ job[p] # Idle /\ ~job[p].removing /\ Raise(p)
      /\ UNCHANGED <<revisions, environments, half>>
  BY DEF WriteFails, MeetsLeftover, NextWrite, store, ghosts
<1>2. Undamaged' \subseteq Undamaged
  BY <1>1, DamageStays DEF LineInv, StoreInv
<1>3. CASE job[p].docs = {}
  BY <1>1, <1>2, <1>3, EndLinear DEF Raise
<1>4. CASE job[p].docs # {}
  <2>1. job' = [job EXCEPT ![p] = k]
    BY <1>1, <1>4 DEF Raise
  <2>2. k.removing
    BY DEF NoWrites
  <2> HIDE DEF k
  <2>3. job'[p] = k /\ \A q \in Clients \ {p} : job'[q] = Idle
    BY <1>1, <2>1, Alone DEF LineInv, StoreInv, AuditInv, TypeOK
  <2>4. JobsLinear'
    BY <2>2, <2>3 DEF JobsLinear
  <2>5. RevisionHistoryLinear' /\ EnvironmentsDeployable'
    BY <1>1, <1>2 DEF LineInv, RevisionHistoryLinear, EnvironmentsDeployable
  <2> QED BY <2>4, <2>5 DEF LineInv
<1> QED BY <1>3, <1>4

\* A container that is being removed is not a line of history any more.
LEMMA RemoveFileLinear ==
  ASSUME LineInv, StoreInv', ThreadInv', NEW p \in Clients, RemoveFile(p)
  PROVE  LineInv'
<1> DEFINE c == job[p].container
<1>1. job[p] # Idle /\ job[p].removing /\ job' = job /\ half' = half
  BY DEF RemoveFile, NextWrite, ghosts
<1>2. c \in Containers /\ \A q \in Clients \ {p} : job[q] = Idle
  BY <1>1, Alone DEF LineInv, StoreInv
<1>3. \A d \in Containers \ {c} :
        revisions'[d] = revisions[d] /\ environments'[d] = environments[d]
  <2>1. /\ revisions' = revisions \/ \E r : revisions' = [revisions EXCEPT ![c] = @ \ {r}]
        /\ environments' = environments
           \/ \E e : environments' = [environments EXCEPT ![c][e] = NoEnv]
    BY DEF RemoveFile
  <2> QED BY <2>1 DEF LineInv, StoreInv, AuditInv, TypeOK
<1>4. JobsLinear'
  BY <1>1, <1>2 DEF JobsLinear
<1>5. Undamaged' = Undamaged /\ Undamaged \subseteq Containers \ {c}
  BY <1>1 DEF Undamaged
<1>6. RevisionHistoryLinear' /\ EnvironmentsDeployable'
  BY <1>3, <1>5 DEF LineInv, RevisionHistoryLinear, EnvironmentsDeployable
<1> QED BY <1>4, <1>6 DEF LineInv

\* Nothing is left of it: the empty line of history.
LEMMA RemovedLinear ==
  ASSUME LineInv, StoreInv', ThreadInv', NEW p \in Clients, Removed(p)
  PROVE  LineInv'
<1> DEFINE c == job[p].container
<1>1. /\ job[p] # Idle /\ job' = [job EXCEPT ![p] = Idle] /\ half' = half \ {c}
      /\ UNCHANGED <<revisions, environments>>
      /\ revisions[c] = {} /\ environments[c] = NoEnvironments
  BY DEF Removed, store
<1>2. JobsLinear'
  BY <1>1, Ended DEF LineInv, StoreInv, JobsLinear
<1>3. \A d \in Undamaged' : d \in Undamaged \/ d = c
  BY <1>1, Alone DEF Undamaged, LineInv, StoreInv
<1>4. RevisionHistoryLinear'
  BY <1>1, <1>3, NothingLinear DEF LineInv, RevisionHistoryLinear
<1>5. EnvironmentsDeployable'
  BY <1>1, <1>3 DEF LineInv, EnvironmentsDeployable, NoEnvironments
<1> QED BY <1>2, <1>4, <1>5 DEF LineInv

-----------------------------------------------------------------------------
\* An empty store and sound documents satisfy LineInv.
LEMMA InitLineInv == Init /\ ForeignDocsSound => LineInv
<1> SUFFICES ASSUME Init, ForeignDocsSound PROVE LineInv
  OBVIOUS
<1>1. StoreInv /\ ThreadInv
  BY InitStoreInv, InitThreadInv
<1>2. JobsLinear /\ EnvironmentsDeployable
  BY DEF Init, JobsLinear, EnvironmentsDeployable, NoEnvironments, Undamaged
<1>3. RevisionHistoryLinear
  BY NothingLinear DEF Init, RevisionHistoryLinear, Undamaged
<1> QED BY <1>1, <1>2, <1>3 DEF LineInv

\* Every step of the control plane keeps LineInv.
LEMMA NextLineInv == LineInv /\ [Next]_vars => LineInv'
<1> SUFFICES ASSUME LineInv, [Next]_vars PROVE LineInv'
  OBVIOUS
<1>0. StoreInv' /\ ThreadInv'
  BY NextStoreInv, NextThreadInv DEF LineInv
<1>1. CASE UNCHANGED vars
  BY <1>0, <1>1, IdleStepLinear DEF vars, ghosts
<1>2. ASSUME NEW p \in Clients, Operation(p) PROVE LineInv'
  BY <1>0, <1>2, CreateContainerLinear, CreateRevisionLinear, CreateEnvironmentLinear,
     ActivateLinear, RollbackLinear, ExportLinear, ImportAsLinear DEF Operation
<1>3. ASSUME NEW p \in Clients, Import(p) PROVE LineInv'
  BY <1>0, <1>3, ImportSameLinear DEF Import
<1>4. ASSUME NEW p \in Clients, Write(p) PROVE LineInv'
  BY <1>0, <1>4, SaveContainerLinear, NumberEventLinear, CreateFileLinear, FillRevisionLinear,
     SaveEnvironmentLinear, FillAuditLinear, StopLinear, RaiseLinear, RemoveFileLinear,
     RemovedLinear DEF Write
<1>5. ASSUME NEW p \in Clients, Fault(p) PROVE LineInv'
  BY <1>0, <1>5, RaiseLinear, StopLinear DEF Fault
<1> QED BY <1>1, <1>2, <1>3, <1>4, <1>5 DEF Next

\* LineInv is an invariant, given sound documents to start with.
LEMMA LineInvHolds == ASSUME ForeignDocsSound PROVE Spec => []LineInv
<1>1. Init => LineInv
  BY InitLineInv
<1> QED BY <1>1, NextLineInv, PTL DEF Spec

\* When the documents that came from other stores are lines of history, so is every
\* container whose removal was not cut short, at every moment: between the files of an
\* import, after the death of a process in the middle of one, after a failed write.
THEOREM RevisionHistoryLinearHolds ==
  ASSUME ForeignDocsSound
  PROVE  Spec => []RevisionHistoryLinear
<1>1. LineInv => RevisionHistoryLinear
  BY DEF LineInv
<1> QED BY <1>1, LineInvHolds, PTL

\* Under the same condition activate_environment and rollback_environment always find
\* the version they leave and the one they go to, stored and valid.
THEOREM EnvironmentsDeployableHolds ==
  ASSUME ForeignDocsSound
  PROVE  Spec => []EnvironmentsDeployable
<1>1. LineInv => EnvironmentsDeployable
  BY DEF LineInv
<1> QED BY <1>1, LineInvHolds, PTL

-----------------------------------------------------------------------------
(* The audit log explains the state *)

\* An event of a switch that went ahead.
SwitchEvent(ev) ==
  /\ ev.result = "succeeded"
  /\ ev.action \in {"environment.activated", "environment.rolled_back"}

\* a is the last event of S.
IsLast(S, a) == a \in S /\ \A b \in S : b.seq <= a.seq

\* Each switch of S started from the version the one before it ended at.
Chained(S) ==
  \A a, b \in S : b.seq > a.seq /\ (\A x \in S : x.seq > a.seq => b.seq <= x.seq) =>
                    b.event.previous = a.event.version

\* The switches of e in the log A.
SwitchesIn(A, e) == {a \in A : a.event.env = e /\ SwitchEvent(a.event)}

\* The environment file is where ev left it.
IsAt(env, ev) == env # NoEnv /\ env.current = ev.version /\ env.previous = ev.previous

\* The last of the switches S left the environment where it is.
Explained(S, env) == S # {} => \E a \in S : IsLast(S, a) /\ IsAt(env, a.event)

\* ev starts from where the last of S ended.
Continues(S, ev) == S # {} => \E a \in S : IsLast(S, a) /\ a.event.version = ev.previous

\* The environment file and the event of a switch are about the same change: before
\* the file is written the event starts from the state on disk, afterwards it
\* describes it.  Any other operation writes environments that were never switched.
\* A and E are the log and the environments of the container.
SwitchPlanned(j, A, E) ==
  /\ \A ev \in j.events : SwitchEvent(ev) =>
       /\ j.revs = {}
       /\ j.envs # {} =>
            /\ E[ev.env].current = ev.previous
            /\ \E x \in j.envs : /\ j.envs = {x} /\ x[1] = ev.env
                                 /\ x[2].current = ev.version /\ x[2].previous = ev.previous
       /\ j.envs = {} => IsAt(E[ev.env], ev) /\ Continues(SwitchesIn(A, ev.env), ev)
  /\ (\A ev \in j.events : ~SwitchEvent(ev)) => \A x \in j.envs : SwitchesIn(A, x[1]) = {}

SwitchesPlanned ==
  \A p \in Clients :
    job[p] # Idle /\ job[p].container \notin unaudited =>
      SwitchPlanned(job[p], audit[job[p].container], environments[job[p].container])

\* The operation j has switched e and not yet written the event.
Unlogged(j, c, e) ==
  j.container = c /\ j.envs = {} /\ \E ev \in j.events : SwitchEvent(ev) /\ ev.env = e

LogExplains ==
  \A c \in Containers \ unaudited, e \in EnvNames :
    /\ Chained(SwitchesIn(audit[c], e))
    /\ \/ Explained(SwitchesIn(audit[c], e), environments[c][e])
       \/ \E p \in Clients : job[p] # Idle /\ Unlogged(job[p], c, e)

SwitchInv == StoreInv /\ SwitchesPlanned /\ LogExplains

\* The events of a log are told apart by their numbers.
LEMMA LogOrdered ==
  ASSUME AuditInv, NEW c \in Containers, NEW e
  PROVE  /\ \A a \in SwitchesIn(audit[c], e) : a \in audit[c] /\ a.seq \in Nat
         /\ \A a, b \in SwitchesIn(audit[c], e) : a.seq = b.seq => a = b
<1>1. \A a \in audit[c] : a.seq \in Nat
  BY DEF AuditInv, TypeOK, AuditEvent
<1>2. \A a, b \in audit[c] : a.seq = b.seq => a = b
  BY DEF AuditInv, AuditNumbered
<1>3. SwitchesIn(audit[c], e) \subseteq audit[c]
  BY DEF SwitchesIn
<1> QED BY <1>1, <1>2, <1>3

\* An empty log holds no switch.
LEMMA NoSwitchesIn == ASSUME NEW e PROVE SwitchesIn({}, e) = {}
BY DEF SwitchesIn

\* An event that starts from where the last one ended makes the chain longer.
LEMMA ChainAppend ==
  ASSUME NEW S, Chained(S), NEW a, a.seq \in Nat,
         \A s \in S : s.seq \in Nat /\ s.seq < a.seq,
         \A s, t \in S : s.seq = t.seq => s = t,
         S # {} => \E z \in S : IsLast(S, z) /\ z.event.version = a.event.previous
  PROVE  Chained(S \cup {a}) /\ IsLast(S \cup {a}, a)
<1>1. IsLast(S \cup {a}, a)
  BY DEF IsLast
<1>2. ASSUME NEW s \in S \cup {a}, NEW t \in S \cup {a}, t.seq > s.seq,
             \A x \in S \cup {a} : x.seq > s.seq => t.seq <= x.seq
      PROVE  t.event.previous = s.event.version
  <2>1. s \in S
    BY <1>2
  <2>2. CASE t \in S
    BY <1>2, <2>1, <2>2 DEF Chained
  <2>3. CASE t = a
    <3>1. PICK z \in S : IsLast(S, z) /\ z.event.version = a.event.previous
      BY <2>1
    <3>2. ~ (z.seq > s.seq)
      BY <1>2, <2>3, <3>1
    <3>3. z.seq = s.seq
      BY <2>1, <3>1, <3>2 DEF IsLast
    <3>4. z = s
      BY <2>1, <3>1, <3>3
    <3> QED BY <2>3, <3>1, <3>4
  <2> QED BY <2>2, <2>3
<1> QED BY <1>1, <1>2 DEF Chained

\* SwitchInv gives AuditExplainsState: nobody is at work on the container.
LEMMA SwitchInvExplains == SwitchInv => AuditExplainsState
<1> SUFFICES ASSUME SwitchInv, NEW c \in containers \ unaudited,
                    \A p \in Clients : job[p] # Idle => job[p].container # c,
                    NEW e \in EnvNames, NEW a \in Switches(c, e)
             PROVE  LET later == {b \in Switches(c, e) : b.seq > a.seq} IN
                    /\ later = {} => IsAt(environments[c][e], a.event)
                    /\ \A b \in later : (\A x \in later : b.seq <= x.seq) =>
                                          b.event.previous = a.event.version
  BY DEF AuditExplainsState, IsAt
<1> DEFINE S == SwitchesIn(audit[c], e)
           later == {b \in S : b.seq > a.seq}
<1>0. S = Switches(c, e)
  BY DEF Switches, SwitchesIn, SwitchEvent
<1>1. c \in Containers \ unaudited
  BY DEF SwitchInv, StoreInv, AuditInv, TypeOK
<1>2. Chained(S) /\ Explained(S, environments[c][e])
  BY <1>1 DEF SwitchInv, LogExplains, Unlogged
<1>3. /\ \A x \in S : x.seq \in Nat
      /\ \A x, y \in S : x.seq = y.seq => x = y
  BY <1>1, LogOrdered DEF SwitchInv, StoreInv
<1> HIDE DEF S
<1>4. a \in S
  BY <1>0
<1>5. PICK z \in S : IsLast(S, z) /\ IsAt(environments[c][e], z.event)
  BY <1>2, <1>4 DEF Explained
<1>6. later = {} => IsAt(environments[c][e], a.event)
  <2> SUFFICES ASSUME later = {} PROVE a = z
    BY <1>5
  <2>1. ~ (z.seq > a.seq)
    BY <1>5
  <2>2. z.seq = a.seq
    BY <1>3, <1>4, <1>5, <2>1 DEF IsLast
  <2> QED BY <1>3, <1>4, <1>5, <2>2
<1>7. \A b \in later : (\A x \in later : b.seq <= x.seq) => b.event.previous = a.event.version
  BY <1>2, <1>4 DEF Chained
<1> QED BY <1>0, <1>6, <1>7

-----------------------------------------------------------------------------
(* SwitchInv: operations *)

\* Between operations every log explains its container.
LEMMA QuietExplained ==
  ASSUME SwitchInv, holder = Free, NEW c \in Containers \ unaudited, NEW e \in EnvNames
  PROVE  Explained(SwitchesIn(audit[c], e), environments[c][e])
<1>1. \A q \in Clients : job[q] = Idle
  BY ConstantsAssumption DEF SwitchInv, StoreInv, AuditInv, LockHeld
<1> QED BY <1>1 DEF SwitchInv, LogExplains

\* An operation that starts on an explained container has decided its switch from it.
LEMMA StartExplained ==
  ASSUME SwitchInv, StoreInv', NEW p \in Clients, NEW j \in NewJob, Start(p, j),
         UNCHANGED <<store, ghosts>>,
         j.container \notin unaudited =>
           SwitchPlanned(j, audit[j.container], environments[j.container])
  PROVE  SwitchInv'
<1>1. job'[p] = j /\ (\A q \in Clients \ {p} : job'[q] = Idle) /\ holder = Free
  <2>1. job' = [job EXCEPT ![p] = j] /\ holder = Free
    BY DEF Start, AcquireLock
  <2>2. \A q \in Clients : job[q] = Idle
    BY <2>1, ConstantsAssumption DEF SwitchInv, StoreInv, AuditInv, LockHeld
  <2> QED BY <2>1, <2>2 DEF SwitchInv, StoreInv, AuditInv, TypeOK
<1>2. audit' = audit /\ environments' = environments /\ unaudited' = unaudited
  BY DEF store, ghosts
<1>3. SwitchesPlanned'
  BY <1>1, <1>2 DEF SwitchesPlanned
<1>4. LogExplains'
  <2>1. \A c \in Containers \ unaudited, e \in EnvNames :
          /\ Chained(SwitchesIn(audit[c], e))
          /\ Explained(SwitchesIn(audit[c], e), environments[c][e])
    BY <1>1, QuietExplained DEF SwitchInv, LogExplains
  <2> QED BY <1>2, <2>1 DEF LogExplains
<1> QED BY <1>3, <1>4 DEF SwitchInv

\* An operation that plans no switch.
LEMMA NoSwitchPlanned ==
  ASSUME NEW j, \A ev \in j.events : ~SwitchEvent(ev),
         NEW A, NEW E, \A x \in j.envs : SwitchesIn(A, x[1]) = {}
  PROVE  SwitchPlanned(j, A, E)
BY DEF SwitchPlanned

\* create_container plans no switch.
LEMMA CreateContainerExplained ==
  ASSUME SwitchInv, StoreInv', NEW p \in Clients, NEW c \in Containers, CreateContainer(p, c)
  PROVE  SwitchInv'
<1> DEFINE j == [NoWrites(c) EXCEPT !.create = TRUE]
<1>1. j \in NewJob
  BY ContainerJob
<1>2. j.events = {} /\ j.envs = {}
  BY DEF NoWrites
<1>3. Start(p, j) /\ UNCHANGED <<store, ghosts>>
  BY DEF CreateContainer
<1> HIDE DEF j
<1> QED BY <1>1, <1>2, <1>3, NoSwitchPlanned, StartExplained

\* create_revision plans no switch.
LEMMA CreateRevisionExplained ==
  ASSUME SwitchInv, StoreInv', NEW p \in Clients, NEW c \in Containers, NEW v \in Versions,
         NEW payload \in Payloads, NEW expected \in OptVersion,
         CreateRevision(p, c, v, payload, expected)
  PROVE  SwitchInv'
<1> DEFINE r == [version |-> v, number |-> LatestNumber(c) + 1,
                 parent |-> LatestVersion(c), payload |-> payload]
           e == MkEvent("revision.created", "succeeded", NoEnv, v, r.parent)
           j == [NoWrites(c) EXCEPT !.revs = {r}, !.events = {e}]
<1>1. LatestNumber(c) \in Nat /\ LatestVersion(c) \in OptVersion
  BY LatestTyped DEF SwitchInv, StoreInv, AuditInv
<1>2. r \in Revision
  BY <1>1 DEF Revision
<1>3. e \in Event
  BY <1>1, MkEventTyped DEF Action, Result, OptEnvName, OptVersion
<1>4. ~SwitchEvent(e)
  BY DEF MkEvent, SwitchEvent
<1>5. Start(p, j) /\ UNCHANGED <<store, ghosts>>
  BY DEF CreateRevision
<1> HIDE DEF r, e
<1>6. j \in NewJob
  BY <1>2, <1>3, RevisionJob DEF CreateRevision
<1>7. j.events = {e} /\ j.envs = {}
  BY DEF NoWrites
<1> HIDE DEF j
<1> QED BY <1>4, <1>5, <1>6, <1>7, NoSwitchPlanned, StartExplained

\* An environment that is created was never switched.
LEMMA CreateEnvironmentExplained ==
  ASSUME SwitchInv, StoreInv', NEW p \in Clients, NEW c \in Containers, NEW e \in EnvNames,
         NEW protected \in BOOLEAN, CreateEnvironment(p, c, e, protected)
  PROVE  SwitchInv'
<1> DEFINE env == [protected |-> protected, current |-> NoVersion, previous |-> NoVersion]
           x == MkEvent("environment.created", "succeeded", e, NoVersion, NoVersion)
           j == [NoWrites(c) EXCEPT !.envs = {<<e, env>>}, !.events = {x}]
<1>1. env \in Environment
  BY DEF Environment, OptVersion
<1>2. x \in Event /\ ~SwitchEvent(x)
  <2>1. x \in Event
    BY MkEventTyped DEF Action, Result, OptEnvName, OptVersion
  <2> QED BY <2>1 DEF MkEvent, SwitchEvent
<1>3. Start(p, j) /\ UNCHANGED <<store, ghosts>> /\ environments[c][e] = NoEnv
  BY DEF CreateEnvironment
<1>4. holder = Free
  BY DEF CreateEnvironment, Start, AcquireLock
<1> HIDE DEF env, x
<1>5. j \in NewJob
  BY <1>1, <1>2, EnvironmentJob DEF CreateEnvironment
<1>6. j.container = c /\ j.events = {x} /\ j.envs = {<<e, env>>}
  BY DEF NoWrites
<1> HIDE DEF j
<1>7. c \notin unaudited => SwitchesIn(audit[c], e) = {}
  BY <1>3, <1>4, QuietExplained DEF Explained, IsAt
<1>8. c \notin unaudited => SwitchPlanned(j, audit[c], environments[c])
  BY <1>2, <1>6, <1>7, NoSwitchPlanned
<1> QED BY <1>3, <1>5, <1>6, <1>8, StartExplained

\* The event of a refused switch is not that of a switch.
LEMMA RefuseExplained ==
  ASSUME SwitchInv, StoreInv', NEW p \in Clients, NEW c \in containers, NEW e \in EnvNames,
         NEW action \in Action, NEW reason \in Result \ {"succeeded"},
         NEW target \in OptVersion, environments[c][e] # NoEnv,
         Refuse(p, c, e, action, reason, target), UNCHANGED <<store, ghosts>>
  PROVE  SwitchInv'
<1> DEFINE x == MkEvent(action, reason, e, target, environments[c][e].current)
           j == [NoWrites(c) EXCEPT !.events = {x}]
<1>1. c \in Containers /\ environments[c][e].current \in OptVersion
  BY DEF SwitchInv, StoreInv, AuditInv, TypeOK, Environment
<1>2. x \in Event /\ ~SwitchEvent(x)
  <2>1. x \in Event
    BY <1>1, MkEventTyped DEF OptEnvName
  <2> QED BY <2>1 DEF MkEvent, SwitchEvent
<1>3. Start(p, j)
  BY DEF Refuse
<1> HIDE DEF x
<1>4. j \in NewJob
  BY <1>1, <1>2, EventJob
<1>5. j.events = {x} /\ j.envs = {}
  BY DEF NoWrites
<1> HIDE DEF j
<1> QED BY <1>2, <1>3, <1>4, <1>5, NoSwitchPlanned, StartExplained

\* The event of a switch starts from the version that is current.
LEMMA SwitchToExplained ==
  ASSUME SwitchInv, StoreInv', NEW p \in Clients, NEW c \in containers, NEW e \in EnvNames,
         NEW action \in Action, NEW target \in OptVersion, environments[c][e] # NoEnv,
         SwitchTo(p, c, e, action, target), UNCHANGED <<store, ghosts>>,
         action \in {"environment.activated", "environment.rolled_back"}
  PROVE  SwitchInv'
<1> DEFINE old == environments[c][e]
           env == [old EXCEPT !.current = target, !.previous = old.current]
           x == MkEvent(action, "succeeded", e, target, old.current)
           j == [NoWrites(c) EXCEPT !.envs = {<<e, env>>}, !.events = {x}]
<1>1. c \in Containers /\ old \in Environment
  BY DEF SwitchInv, StoreInv, AuditInv, TypeOK
<1>2. env \in Environment /\ env.current = target /\ env.previous = old.current
  BY <1>1 DEF Environment, OptVersion
<1>3. x \in Event
  BY <1>1, MkEventTyped DEF OptEnvName, Environment, Result, OptVersion
<1>4. /\ x.env = e /\ x.version = target /\ x.previous = environments[c][e].current
      /\ SwitchEvent(x)
  BY DEF MkEvent, SwitchEvent
<1>5. Start(p, j)
  BY DEF SwitchTo
<1>6. env.previous = environments[c][e].current
  BY <1>2
<1> HIDE DEF x, env
<1>7. j \in NewJob
  BY <1>1, <1>2, <1>3, EnvironmentJob
<1>8. j.container = c /\ j.revs = {} /\ j.envs = {<<e, env>>} /\ j.events = {x}
  BY DEF NoWrites
<1> HIDE DEF j
<1>9. SwitchPlanned(j, audit[c], environments[c])
  <2> DEFINE y == <<e, env>>
  <2>1. y \in j.envs /\ j.envs = {y} /\ y[1] = e /\ y[2] = env
    BY <1>8
  <2> HIDE DEF y
  <2>2. y[1] = x.env /\ y[2].current = x.version /\ y[2].previous = x.previous
    BY <1>2, <1>4, <1>6, <2>1
  <2> QED BY <1>4, <1>8, <2>1, <2>2 DEF SwitchPlanned
<1> QED BY <1>5, <1>7, <1>8, <1>9, StartExplained

\* Refused or not, a guarded switch is planned from the state on disk.
LEMMA GuardedSwitchExplained ==
  ASSUME SwitchInv, StoreInv', NEW p \in Clients, NEW c \in containers, NEW e \in EnvNames,
         NEW action \in Action, action \in {"environment.activated", "environment.rolled_back"},
         NEW target \in OptVersion, NEW expected, NEW allow, environments[c][e] # NoEnv,
         GuardedSwitch(p, c, e, action, target, expected, allow), UNCHANGED <<store, ghosts>>
  PROVE  SwitchInv'
<1>1. \/ \E reason \in Result \ {"succeeded"} : Refuse(p, c, e, action, reason, target)
      \/ SwitchTo(p, c, e, action, target)
  BY DEF GuardedSwitch, Result
<1> QED BY <1>1, RefuseExplained, SwitchToExplained

\* activate_environment is a guarded switch.
LEMMA ActivateExplained ==
  ASSUME SwitchInv, StoreInv', NEW p \in Clients, NEW c \in Containers, NEW e \in EnvNames,
         NEW target \in Versions, NEW expected \in OptVersion, NEW allow \in BOOLEAN,
         ActivateEnvironment(p, c, e, target, expected, allow)
  PROVE  SwitchInv'
<1>1. "environment.activated" \in Action /\ target \in OptVersion
  BY DEF Action, OptVersion
<1> QED BY <1>1, GuardedSwitchExplained DEF ActivateEnvironment

\* rollback_environment is refused at once or a guarded switch.
LEMMA RollbackExplained ==
  ASSUME SwitchInv, StoreInv', NEW p \in Clients, NEW c \in Containers, NEW e \in EnvNames,
         NEW expected \in OptVersion, NEW allow \in BOOLEAN,
         RollbackEnvironment(p, c, e, expected, allow)
  PROVE  SwitchInv'
<1> DEFINE target == environments[c][e].previous
<1>1. /\ "environment.rolled_back" \in Action /\ NoVersion \in OptVersion
      /\ "no_previous_revision" \in Result \ {"succeeded"}
  BY DEF Action, OptVersion, Result
<1>2. /\ c \in containers /\ environments[c][e] # NoEnv /\ UNCHANGED <<store, ghosts>>
      /\ target \in OptVersion
  BY DEF RollbackEnvironment, SwitchInv, StoreInv, AuditInv, TypeOK, Environment
<1>3. \/ Refuse(p, c, e, "environment.rolled_back", "no_previous_revision", NoVersion)
      \/ GuardedSwitch(p, c, e, "environment.rolled_back", target, expected, allow)
  BY DEF RollbackEnvironment
<1> HIDE DEF target
<1> QED BY <1>1, <1>2, <1>3, RefuseExplained, GuardedSwitchExplained

\* A step that leaves the store, the jobs and what was lost alone.
LEMMA IdleStepExplained ==
  ASSUME SwitchInv, StoreInv', UNCHANGED <<store, job, unaudited>>
  PROVE  SwitchInv'
<1>1. audit' = audit /\ environments' = environments /\ job' = job /\ unaudited' = unaudited
  BY DEF store
<1>2. SwitchesPlanned'
  BY <1>1 DEF SwitchInv, SwitchesPlanned
<1>3. LogExplains'
  BY <1>1 DEF SwitchInv, LogExplains
<1> QED BY <1>2, <1>3 DEF SwitchInv

\* An import writes environments of a container without a log.
LEMMA ImportExplained ==
  ASSUME SwitchInv, StoreInv', NEW p \in Clients, NEW c \in Containers \ containers,
         NEW j \in NewJob, Start(p, j), j.container = c, j.events = {}, UNCHANGED <<store, ghosts>>
  PROVE  SwitchInv'
<1>1. audit[c] = {}
  BY DEF SwitchInv, StoreInv, AuditInv, LogsCreated
<1>2. \A x \in j.envs : SwitchesIn(audit[j.container], x[1]) = {}
  BY <1>1, NoSwitchesIn
<1> QED BY <1>2, NoSwitchPlanned, StartExplained

\* import_container under the document's id.
LEMMA ImportSameExplained ==
  ASSUME SwitchInv, StoreInv', NEW p \in Clients, NEW d \in exports, ImportSame(p, d)
  PROVE  SwitchInv'
<1>1. d \in Document /\ d.source \in Containers /\ d.revs \in SUBSET Revision
  BY DEF SwitchInv, StoreInv, AuditInv, TypeOK, Document
<1>2. CASE UNCHANGED <<store, used, exports, holder, job, bounds, acked, unaudited, half>>
  BY <1>2, IdleStepExplained
<1>3. CASE /\ d.source \notin containers
           /\ Start(p, [NoWrites(d.source) EXCEPT !.create = TRUE, !.revs = d.revs,
                          !.envs = EnvDocs(d.envs), !.docs = {d}])
           /\ UNCHANGED <<store, used, exports, bounds, ghosts>>
  <2> DEFINE j == [NoWrites(d.source) EXCEPT !.create = TRUE, !.revs = d.revs,
                     !.envs = EnvDocs(d.envs), !.docs = {d}]
  <2>1. j \in NewJob
    BY <1>1, <1>3, EnvDocsTyped, ImportJob
  <2>2. j.container = d.source /\ j.events = {}
    BY DEF NoWrites
  <2>3. Start(p, j) /\ UNCHANGED <<store, ghosts>>
    BY <1>3
  <2> HIDE DEF j
  <2> QED BY <1>1, <1>3, <2>1, <2>2, <2>3, ImportExplained
<1> QED BY <1>2, <1>3 DEF ImportSame

\* import_container under another id.
LEMMA ImportAsExplained ==
  ASSUME SwitchInv, StoreInv', NEW p \in Clients, NEW c \in Containers, NEW d \in exports,
         NEW f \in [VersionsOf(d.revs) -> Versions \ used], ImportAs(p, d, c, f)
  PROVE  SwitchInv'
<1> DEFINE R == RemapRevisions(d.revs, f)
           V == RemapEnvs(d.envs, f)
           j == [NoWrites(c) EXCEPT !.create = TRUE, !.revs = R, !.envs = V, !.docs = {d}]
<1>1. d \in Document
  BY DEF SwitchInv, StoreInv, AuditInv, TypeOK
<1>2. R \in SUBSET Revision /\ V \in SUBSET (EnvNames \X Environment)
  BY <1>1, RemapTyped DEF ImportAs
<1>3. c \notin containers /\ Start(p, j) /\ UNCHANGED <<store, ghosts>>
  BY DEF ImportAs
<1> HIDE DEF R, V
<1>4. j \in NewJob
  BY <1>1, <1>2, <1>3, ImportJob
<1>5. j.container = c /\ j.events = {}
  BY DEF NoWrites
<1> HIDE DEF j
<1> QED BY <1>3, <1>4, <1>5, ImportExplained

-----------------------------------------------------------------------------
(* SwitchInv: writes *)

\* The facts about the operation of p that a write starts from.
LEMMA PlanOf ==
  ASSUME SwitchInv, NEW p \in Clients, job[p] # Idle, job[p].container \notin unaudited
  PROVE  SwitchPlanned(job[p], audit[job[p].container], environments[job[p].container])
BY DEF SwitchInv, SwitchesPlanned

\* Where p is the only one at work, only p can have an event to log.
LEMMA OnlyUnlogged ==
  ASSUME SwitchInv, NEW p \in Clients, job[p] # Idle,
         NEW c \in Containers \ unaudited, NEW e \in EnvNames
  PROVE  /\ Chained(SwitchesIn(audit[c], e))
         /\ Explained(SwitchesIn(audit[c], e), environments[c][e]) \/ Unlogged(job[p], c, e)
BY JobOf DEF SwitchInv, LogExplains

\* A write that changes neither the log nor the environments.
LEMMA OtherWriteExplained ==
  ASSUME SwitchInv, StoreInv', NEW p \in Clients, job[p] # Idle,
         NEW k \in Job, job' = [job EXCEPT ![p] = k],
         k.container = job[p].container, k.envs = job[p].envs, k.events = job[p].events,
         k.revs \subseteq job[p].revs, UNCHANGED <<audit, environments, unaudited>>
  PROVE  SwitchInv'
<1>1. job'[p] = k /\ job'[p] # Idle /\ \A q \in Clients \ {p} : job'[q] = Idle
  BY Rewritten DEF SwitchInv, StoreInv
<1>2. ASSUME NEW A, NEW E, SwitchPlanned(job[p], A, E) PROVE SwitchPlanned(k, A, E)
  BY <1>2 DEF SwitchPlanned
<1>3. SwitchesPlanned'
  BY <1>1, <1>2, PlanOf DEF SwitchesPlanned
<1>4. \A c, e : Unlogged(job[p], c, e) => Unlogged(k, c, e)
  BY DEF Unlogged
<1>5. LogExplains'
  BY <1>1, <1>4, OnlyUnlogged DEF LogExplains
<1> QED BY <1>3, <1>5 DEF SwitchInv

\* Writing container.json leaves log and environments alone.
LEMMA SaveContainerExplained ==
  ASSUME SwitchInv, StoreInv', NEW p \in Clients, SaveContainer(p)
  PROVE  SwitchInv'
<1> DEFINE k == [job[p] EXCEPT !.create = FALSE]
<1>1. job[p] # Idle /\ UNCHANGED <<audit, environments, unaudited>>
  BY DEF SaveContainer, ghosts
<1>2. job[p] \in Job
  BY <1>1, JobOf DEF SwitchInv
<1>3. /\ k \in Job /\ k.container = job[p].container /\ k.revs = job[p].revs
      /\ k.envs = job[p].envs /\ k.events = job[p].events
  BY <1>2 DEF Job
<1>4. job' = [job EXCEPT ![p] = k]
  BY DEF SaveContainer
<1> HIDE DEF k
<1> QED BY <1>1, <1>3, <1>4, OtherWriteExplained

\* Numbering an event leaves log and environments alone.
LEMMA NumberEventExplained ==
  ASSUME SwitchInv, StoreInv', NEW p \in Clients, NumberEvent(p)
  PROVE  SwitchInv'
<1> DEFINE W == {[seq |-> LastSeq(job[p].container) + 1, event |-> e] : e \in job[p].events}
           k == [job[p] EXCEPT !.written = W]
<1>1. job[p] # Idle /\ UNCHANGED <<audit, environments, unaudited>>
  BY DEF NumberEvent, store, ghosts
<1>2. job[p] \in Job /\ job[p].container \in Containers
  BY <1>1, JobOf DEF SwitchInv
<1>3. W \in SUBSET AuditEvent
  <2>1. LastSeq(job[p].container) \in Nat
    BY <1>2, LastSeqIsLength DEF SwitchInv, StoreInv, AuditInv
  <2> QED BY <1>2, <2>1 DEF Job, AuditEvent
<1>4. job' = [job EXCEPT ![p] = k]
  BY DEF NumberEvent
<1> HIDE DEF W
<1>5. /\ k \in Job /\ k.container = job[p].container /\ k.revs = job[p].revs
      /\ k.envs = job[p].envs /\ k.events = job[p].events
  BY <1>2, <1>3 DEF Job
<1> HIDE DEF k
<1> QED BY <1>1, <1>4, <1>5, OtherWriteExplained

\* Creating a file that is not filled yet leaves log and environments alone.
LEMMA CreateFileExplained ==
  ASSUME SwitchInv, StoreInv', NEW p \in Clients, CreateFile(p)
  PROVE  SwitchInv'
<1> DEFINE k == [job[p] EXCEPT !.writing = TRUE]
<1>1. job[p] # Idle /\ UNCHANGED <<audit, environments, unaudited>>
  BY DEF CreateFile, store, ghosts
<1>2. job[p] \in Job
  BY <1>1, JobOf DEF SwitchInv
<1>3. /\ k \in Job /\ k.container = job[p].container /\ k.revs = job[p].revs
      /\ k.envs = job[p].envs /\ k.events = job[p].events
  BY <1>2 DEF Job
<1>4. job' = [job EXCEPT ![p] = k]
  BY DEF CreateFile
<1> HIDE DEF k
<1> QED BY <1>1, <1>3, <1>4, OtherWriteExplained

\* Writing a revision leaves log and environments alone.
LEMMA FillRevisionExplained ==
  ASSUME SwitchInv, StoreInv', NEW p \in Clients, FillRevision(p)
  PROVE  SwitchInv'
<1>1. job[p] # Idle /\ UNCHANGED <<audit, environments, unaudited>>
  BY DEF FillRevision, ghosts
<1>2. job[p] \in Job
  BY <1>1, JobOf DEF SwitchInv
<1>3. PICK r \in job[p].revs : job' = [job EXCEPT ![p].revs = @ \ {r}, ![p].writing = FALSE]
  BY DEF FillRevision, NextRevisions
<1> DEFINE k == [job[p] EXCEPT !.revs = @ \ {r}, !.writing = FALSE]
<1>4. /\ k \in Job /\ k.container = job[p].container /\ k.revs \subseteq job[p].revs
      /\ k.envs = job[p].envs /\ k.events = job[p].events
  BY <1>2 DEF Job
<1>5. job' = [job EXCEPT ![p] = k]
  BY <1>2, <1>3 DEF SwitchInv, StoreInv, AuditInv, TypeOK
<1> HIDE DEF k
<1> QED BY <1>1, <1>4, <1>5, OtherWriteExplained

\* The environment file of a switch is written: its event is what explains it.
LEMMA SaveEnvironmentExplained ==
  ASSUME SwitchInv, StoreInv', NEW p \in Clients, SaveEnvironment(p)
  PROVE  SwitchInv'
<1> DEFINE c == job[p].container
<1>1. job[p] # Idle /\ job[p].envs # {}
  BY DEF SaveEnvironment, NextWrite
<1>2. job[p] \in Job /\ c \in Containers
  BY <1>1, JobOf DEF SwitchInv
<1>3. PICK x \in job[p].envs :
        /\ environments' = [environments EXCEPT ![c][x[1]] = x[2]]
        /\ job' = [job EXCEPT ![p].envs = @ \ {x}]
  BY DEF SaveEnvironment
<1> DEFINE k == [job[p] EXCEPT !.envs = @ \ {x}]
<1>4. /\ k \in Job /\ k.container = c /\ k.revs = job[p].revs /\ k.envs = job[p].envs \ {x}
      /\ k.events = job[p].events
      /\ x[1] \in EnvNames /\ x[2] \in Environment
  BY <1>2 DEF Job
<1>5. job' = [job EXCEPT ![p] = k]
  BY <1>2, <1>3 DEF SwitchInv, StoreInv, AuditInv, TypeOK
<1> HIDE DEF k
<1>6. job'[p] = k /\ job'[p] # Idle /\ \A q \in Clients \ {p} : job'[q] = Idle
  BY <1>1, <1>4, <1>5, Rewritten DEF SwitchInv, StoreInv
<1>7. audit' = audit /\ unaudited' = unaudited
  BY DEF SaveEnvironment, ghosts
<1>8. \A d \in Containers, e \in EnvNames :
        environments'[d][e] = IF d = c /\ e = x[1] THEN x[2] ELSE environments[d][e]
  BY <1>2, <1>3, <1>4 DEF SwitchInv, StoreInv, AuditInv, TypeOK
<1> DEFINE plan == SwitchPlanned(job[p], audit[c], environments[c])
           S == SwitchesIn(audit[c], x[1])
<1>9. \A d \in Containers \ unaudited, e \in EnvNames :
        /\ Chained(SwitchesIn(audit[d], e))
        /\ Explained(SwitchesIn(audit[d], e), environments[d][e])
  BY <1>1, OnlyUnlogged DEF Unlogged
<1>10. ASSUME c \notin unaudited, NEW ev \in job[p].events, SwitchEvent(ev)
       PROVE  /\ SwitchPlanned(k, audit[c], environments'[c]) /\ k.envs = {}
              /\ ev.env = x[1] /\ Unlogged(k, c, x[1])
  <2>1. plan
    BY <1>1, <1>10, PlanOf
  <2>2. \A y \in job[p].events : y = ev
    BY <1>1 DEF SwitchInv, StoreInv, AuditInv, OneEvent
  <2>3. /\ job[p].revs = {} /\ job[p].envs = {x} /\ ev.env = x[1]
        /\ x[2].current = ev.version /\ x[2].previous = ev.previous
        /\ environments[c][x[1]].current = ev.previous
    <3>1. /\ job[p].revs = {} /\ environments[c][ev.env].current = ev.previous
          /\ \E y \in job[p].envs : /\ job[p].envs = {y} /\ y[1] = ev.env
                                    /\ y[2].current = ev.version /\ y[2].previous = ev.previous
      BY <1>1, <1>10, <2>1 DEF SwitchPlanned
    <3> QED BY <3>1
  <2>4. k.envs = {} /\ k.revs = {} /\ k.events = {ev}
    BY <1>4, <1>10, <2>2, <2>3
  <2>5. IsAt(environments'[c][x[1]], ev)
    BY <1>2, <1>4, <1>8, <2>3, NothingAssumption DEF IsAt
  <2>6. Continues(S, ev)
    <3>1. Explained(S, environments[c][x[1]])
      BY <1>2, <1>4, <1>9, <1>10
    <3> QED BY <2>3, <3>1 DEF Explained, Continues, IsAt
  <2>7. SwitchPlanned(k, audit[c], environments'[c])
    BY <1>10, <2>3, <2>4, <2>5, <2>6 DEF SwitchPlanned
  <2>8. Unlogged(k, c, x[1])
    BY <1>4, <1>10, <2>3, <2>4 DEF Unlogged
  <2> QED BY <2>3, <2>4, <2>7, <2>8
<1>11. ASSUME c \notin unaudited, \A ev \in job[p].events : ~SwitchEvent(ev)
       PROVE  SwitchPlanned(k, audit[c], environments'[c]) /\ S = {}
  <2>1. plan
    BY <1>1, <1>11, PlanOf
  <2>2. \A y \in job[p].envs : SwitchesIn(audit[c], y[1]) = {}
    BY <1>11, <2>1 DEF SwitchPlanned
  <2>3. SwitchPlanned(k, audit[c], environments'[c])
    BY <1>4, <1>11, <2>2, NoSwitchPlanned
  <2> QED BY <2>2, <2>3
<1> HIDE DEF plan
<1>12. SwitchesPlanned'
  <2>1. c \notin unaudited => SwitchPlanned(k, audit[c], environments'[c])
    BY <1>10, <1>11
  <2> QED BY <1>4, <1>6, <1>7, <2>1 DEF SwitchesPlanned
<1>13. LogExplains'
  <2> SUFFICES ASSUME NEW d \in Containers \ unaudited, NEW e \in EnvNames
               PROVE  \/ Explained(SwitchesIn(audit[d], e), environments'[d][e])
                      \/ Unlogged(k, d, e)
    BY <1>6, <1>7, <1>9 DEF LogExplains
  <2>1. CASE d = c /\ e = x[1]
    <3>1. CASE \E ev \in job[p].events : SwitchEvent(ev)
      BY <1>10, <2>1, <3>1
    <3>2. CASE \A ev \in job[p].events : ~SwitchEvent(ev)
      BY <1>11, <2>1, <3>2 DEF Explained
    <3> QED BY <3>1, <3>2
  <2>2. CASE ~(d = c /\ e = x[1])
    BY <1>8, <1>9, <2>2
  <2> QED BY <2>1, <2>2
<1> QED BY <1>12, <1>13 DEF SwitchInv

\* The event is written: the log is one longer, and ends at the state on disk.
LEMMA FillAuditExplained ==
  ASSUME SwitchInv, StoreInv', NEW p \in Clients, FillAudit(p)
  PROVE  SwitchInv'
<1> DEFINE c == job[p].container
           k == [job[p] EXCEPT !.events = {}, !.writing = FALSE]
<1>1. /\ job[p] # Idle /\ job[p].envs = {} /\ job[p].events # {} /\ job[p].written # {}
  <2>1. /\ job[p] # Idle /\ job[p].writing /\ NextWrite(job[p]) = "audit"
    BY DEF FillAudit
  <2>2. job[p].written # {}
    BY <2>1 DEF SwitchInv, StoreInv, AuditInv, OneFile, FillsOneFile
  <2> QED BY <2>1, <2>2 DEF NextWrite
<1>2. job[p] \in Job /\ c \in Containers
  BY <1>1, JobOf DEF SwitchInv
<1>3. k \in Job /\ k.container = c /\ k.envs = {} /\ k.events = {}
  BY <1>1, <1>2 DEF Job
<1>4. job' = [job EXCEPT ![p] = k]
  BY <1>2 DEF FillAudit, SwitchInv, StoreInv, AuditInv, TypeOK
<1> HIDE DEF k
<1>5. job'[p] = k /\ job'[p] # Idle /\ \A q \in Clients \ {p} : job'[q] = Idle
  BY <1>1, <1>3, <1>4, Rewritten DEF SwitchInv, StoreInv
<1>6. environments' = environments /\ unaudited' = unaudited
  BY DEF FillAudit, ghosts
<1>7. PICK ev \in job[p].events : \A y \in job[p].events : y = ev
  BY <1>1 DEF SwitchInv, StoreInv, AuditInv, OneEvent
<1> DEFINE a == [seq |-> LastSeq(c) + 1, event |-> ev]
<1>8. job[p].written = {a}
  <2>1. job[p].written = {[seq |-> LastSeq(c) + 1, event |-> e] : e \in job[p].events}
    BY <1>1, <1>2 DEF SwitchInv, StoreInv, AuditInv, NumberCurrent
  <2> QED BY <1>7, <2>1
<1>9. /\ LastSeq(c) \in Nat
      /\ \A b \in audit[c] : b.seq \in Nat /\ b.seq <= LastSeq(c)
  <2>1. LastSeq(c) \in Nat /\ {b.seq : b \in audit[c]} = 1 .. LastSeq(c)
    BY <1>2, LastSeqIsLength DEF SwitchInv, StoreInv, AuditInv
  <2>2. \A b \in audit[c] : b.seq \in 1 .. LastSeq(c)
    BY <2>1
  <2> QED BY <2>1, <2>2
<1>10. /\ a.event = ev /\ a.seq \in Nat
       /\ \A b \in audit[c] : b.seq \in Nat /\ b.seq < a.seq
  BY <1>9
<1> HIDE DEF a
<1>11. /\ audit'[c] = audit[c] \cup {a}
       /\ \A d \in Containers \ {c} : audit'[d] = audit[d]
  BY <1>2, <1>8 DEF FillAudit, SwitchInv, StoreInv, AuditInv, TypeOK
<1>12. SwitchesPlanned'
  <2>1. \A A, E : SwitchPlanned(k, A, E)
    BY <1>3, NoSwitchPlanned
  <2> QED BY <1>5, <2>1 DEF SwitchesPlanned
<1>13. LogExplains'
  <2> SUFFICES ASSUME NEW d \in Containers \ unaudited, NEW e \in EnvNames
               PROVE  /\ Chained(SwitchesIn(audit'[d], e))
                      /\ Explained(SwitchesIn(audit'[d], e), environments[d][e])
    BY <1>6 DEF LogExplains
  <2>1. /\ Chained(SwitchesIn(audit[d], e))
        /\ Explained(SwitchesIn(audit[d], e), environments[d][e]) \/ Unlogged(job[p], d, e)
    BY <1>1, OnlyUnlogged
  <2>2. CASE ~(d = c /\ SwitchEvent(ev) /\ ev.env = e)
    <3>1. SwitchesIn(audit'[d], e) = SwitchesIn(audit[d], e)
      <4>1. CASE d # c
        BY <1>11, <4>1
      <4>2. CASE d = c
        BY <1>10, <1>11, <2>2, <4>2 DEF SwitchesIn
      <4> QED BY <4>1, <4>2
    <3>2. ~Unlogged(job[p], d, e)
      BY <1>7, <2>2 DEF Unlogged
    <3> QED BY <2>1, <3>1, <3>2
  <2>3. CASE d = c /\ SwitchEvent(ev) /\ ev.env = e
    <3> DEFINE S == SwitchesIn(audit[c], e)
    <3>1. SwitchesIn(audit'[d], e) = S \cup {a}
      BY <1>10, <1>11, <2>3 DEF SwitchesIn
    <3>2. IsAt(environments[c][e], ev) /\ Continues(S, ev)
      <4>1. SwitchPlanned(job[p], audit[c], environments[c])
        BY <1>1, <2>3, PlanOf
      <4> QED BY <1>1, <1>7, <2>3, <4>1 DEF SwitchPlanned
    <3>3. /\ \A s \in S : s \in audit[c]
          /\ \A s, t \in S : s.seq = t.seq => s = t
      BY <1>2, LogOrdered DEF SwitchInv, StoreInv
    <3>4. Chained(S)
      BY <2>1, <2>3
    <3> HIDE DEF S
    <3>5. S # {} => \E z \in S : IsLast(S, z) /\ z.event.version = a.event.previous
      BY <1>10, <3>2 DEF Continues
    <3>6. Chained(S \cup {a}) /\ IsLast(S \cup {a}, a)
      BY <1>10, <3>3, <3>4, <3>5, ChainAppend
    <3>7. Explained(S \cup {a}, environments[c][e])
      BY <1>10, <3>2, <3>6 DEF Explained
    <3> QED BY <2>3, <3>1, <3>6, <3>7
  <2> QED BY <2>2, <2>3
<1> QED BY <1>12, <1>13 DEF SwitchInv

-----------------------------------------------------------------------------
(* SwitchInv: the end of an operation *)

\* An operation ends with the store as it is, and the loss of its event is noted.
LEMMA EndExplained ==
  ASSUME SwitchInv, StoreInv', NEW p \in Clients, job[p] # Idle,
         job' = [job EXCEPT ![p] = Idle], UNCHANGED <<audit, environments>>,
         unaudited \subseteq unaudited',
         \A c, e : Unlogged(job[p], c, e) => c \in unaudited'
  PROVE  SwitchInv'
<1>1. SwitchesPlanned'
  BY Ended DEF SwitchInv, StoreInv, SwitchesPlanned
<1>2. LogExplains'
  <2> SUFFICES ASSUME NEW c \in Containers \ unaudited', NEW e \in EnvNames
               PROVE  /\ Chained(SwitchesIn(audit[c], e))
                      /\ Explained(SwitchesIn(audit[c], e), environments[c][e])
    BY DEF LogExplains
  <2> QED BY OnlyUnlogged
<1> QED BY <1>1, <1>2 DEF SwitchInv

\* What NoteLoss notes is enough.
LEMMA LossNoted ==
  ASSUME SwitchInv, NEW p \in Clients, job[p] # Idle, NoteLoss(p)
  PROVE  /\ unaudited \subseteq unaudited'
         /\ \A c, e : Unlogged(job[p], c, e) => c \in unaudited'
<1>1. unaudited \subseteq unaudited'
  BY DEF NoteLoss
<1>2. ASSUME NEW c, NEW e, Unlogged(job[p], c, e), c \notin unaudited PROVE c \in unaudited'
  <2>1. PICK ev \in job[p].events : SwitchEvent(ev)
    BY <1>2 DEF Unlogged
  <2>2. job[p].container = c /\ job[p].envs = {}
    BY <1>2 DEF Unlogged
  <2>3. job[p].revs = {}
    BY <1>2, <2>1, <2>2, PlanOf DEF SwitchPlanned
  <2>4. LosesEvent(job[p])
    BY <2>1, <2>2, <2>3 DEF LosesEvent, SwitchEvent
  <2> QED BY <2>2, <2>4 DEF NoteLoss
<1> QED BY <1>1, <1>2

\* An operation that returns has no event left to log.
LEMMA ReturnExplained ==
  ASSUME SwitchInv, StoreInv', NEW p \in Clients, Return(p)
  PROVE  SwitchInv'
<1>1. /\ job[p] # Idle /\ job' = [job EXCEPT ![p] = Idle] /\ UNCHANGED <<audit, environments>>
      /\ unaudited' = unaudited
  BY DEF Return, store
<1>2. job[p].events = {}
  BY DEF Return, NextWrite
<1>3. \A c, e : ~Unlogged(job[p], c, e)
  BY <1>2 DEF Unlogged
<1> QED BY <1>1, <1>3, EndExplained

\* An operation that raises loses its event, which is noted; an import has none.
LEMMA RaiseExplained ==
  ASSUME SwitchInv, StoreInv', NEW p \in Clients, job[p] # Idle, Raise(p),
         UNCHANGED <<audit, environments>>, unaudited \subseteq unaudited',
         job[p].docs = {} => \A c, e : Unlogged(job[p], c, e) => c \in unaudited'
  PROVE  SwitchInv'
<1> DEFINE k == [NoWrites(job[p].container) EXCEPT !.removing = TRUE]
<1>1. CASE job[p].docs = {}
  BY <1>1, EndExplained DEF Raise
<1>2. CASE job[p].docs # {}
  <2>1. job' = [job EXCEPT ![p] = k]
    BY <1>2 DEF Raise
  <2>2. k.events = {} /\ k.envs = {}
    BY DEF NoWrites
  <2> HIDE DEF k
  <2>3. job'[p] = k /\ \A q \in Clients \ {p} : job'[q] = Idle
    BY <2>1, JobOf DEF SwitchInv, StoreInv, AuditInv, TypeOK
  <2>4. \A A, E : SwitchPlanned(k, A, E)
    BY <2>2, NoSwitchPlanned
  <2>5. SwitchesPlanned'
    BY <2>3, <2>4 DEF SwitchesPlanned
  <2>6. \A c, e : ~Unlogged(job[p], c, e)
    BY <1>2, JobOf DEF SwitchInv, LogNeedsContainer, Unlogged
  <2>7. LogExplains'
    BY <2>6, OnlyUnlogged DEF LogExplains
  <2> QED BY <2>5, <2>7 DEF SwitchInv
<1> QED BY <1>1, <1>2

\* A write that fails.
LEMMA WriteFailsExplained ==
  ASSUME SwitchInv, StoreInv', NEW p \in Clients, WriteFails(p)
  PROVE  SwitchInv'
<1>1. job[p] # Idle /\ Raise(p) /\ NoteLoss(p) /\ UNCHANGED <<audit, environments>>
  BY DEF WriteFails
<1> QED BY <1>1, LossNoted, RaiseExplained

\* A file that is in the way.
LEMMA MeetsLeftoverExplained ==
  ASSUME SwitchInv, StoreInv', NEW p \in Clients, MeetsLeftover(p)
  PROVE  SwitchInv'
<1>1. /\ job[p] # Idle /\ Raise(p) /\ job[p].docs # {}
      /\ UNCHANGED <<audit, environments, unaudited>>
  BY DEF MeetsLeftover, store, ghosts
<1> QED BY <1>1, RaiseExplained

\* rmtree takes environments away where there is no log.
LEMMA RemoveFileExplained ==
  ASSUME SwitchInv, StoreInv', NEW p \in Clients, RemoveFile(p)
  PROVE  SwitchInv'
<1> DEFINE c == job[p].container
<1>1. job[p] # Idle /\ job[p].removing /\ job' = job /\ unaudited' = unaudited
  BY DEF RemoveFile, NextWrite, ghosts
<1>2. c \in Containers /\ audit[c] = {} /\ job[p].events = {}
  BY <1>1, JobOf DEF SwitchInv, LogNeedsContainer
<1>3. audit' = audit
  BY <1>2 DEF RemoveFile
<1>4. \A d \in Containers \ {c} : environments'[d] = environments[d]
  <2>1. environments' = environments
        \/ \E e \in EnvNames : environments' = [environments EXCEPT ![c][e] = NoEnv]
    BY DEF RemoveFile
  <2> QED BY <2>1 DEF SwitchInv, StoreInv, AuditInv, TypeOK
<1> HIDE DEF c
<1>5. \A E : SwitchPlanned(job[p], {}, E)
  BY <1>2, NoSwitchesIn, NoSwitchPlanned
<1>6. \A q \in Clients : job[q] # Idle => q = p
  BY <1>1, JobOf DEF SwitchInv
<1>7. SwitchesPlanned'
  BY <1>1, <1>2, <1>3, <1>5, <1>6 DEF SwitchesPlanned, c
<1>8. LogExplains'
  <2> SUFFICES ASSUME NEW d \in Containers \ unaudited, NEW e \in EnvNames
               PROVE  /\ Chained(SwitchesIn(audit[d], e))
                      /\ Explained(SwitchesIn(audit[d], e), environments'[d][e])
    BY <1>1, <1>3 DEF LogExplains
  <2>1. CASE d = c
    BY <1>2, <2>1, NoSwitchesIn DEF Chained, Explained
  <2>2. CASE d # c
    <3>1. ~Unlogged(job[p], d, e)
      BY <1>2 DEF Unlogged
    <3> QED BY <1>1, <1>4, <2>2, <3>1, OnlyUnlogged
  <2> QED BY <2>1, <2>2
<1> QED BY <1>7, <1>8 DEF SwitchInv

\* A removal ends, done or not: it had no event to log.
LEMMA RemovalEndExplained ==
  ASSUME SwitchInv, StoreInv', NEW p \in Clients, Removed(p) \/ RemovalFails(p)
  PROVE  SwitchInv'
<1>1. /\ job[p] # Idle /\ job[p].removing /\ job' = [job EXCEPT ![p] = Idle]
      /\ UNCHANGED <<audit, environments, unaudited>>
  BY DEF Removed, RemovalFails, NextWrite, store
<1>2. job[p].events = {}
  BY <1>1, JobOf DEF SwitchInv, LogNeedsContainer
<1>3. \A c, e : ~Unlogged(job[p], c, e)
  BY <1>2 DEF Unlogged
<1> QED BY <1>1, <1>3, EndExplained

-----------------------------------------------------------------------------
\* An empty store satisfies SwitchInv.
LEMMA InitSwitchInv == Init => SwitchInv
<1> SUFFICES ASSUME Init PROVE SwitchInv
  OBVIOUS
<1>1. StoreInv
  BY InitStoreInv
<1>2. SwitchesPlanned
  BY DEF Init, SwitchesPlanned
<1>3. LogExplains
  BY NoSwitchesIn DEF Init, LogExplains, Chained, Explained
<1> QED BY <1>1, <1>2, <1>3 DEF SwitchInv

\* Every step of the control plane keeps SwitchInv.
LEMMA NextSwitchInv == SwitchInv /\ [Next]_vars => SwitchInv'
<1> SUFFICES ASSUME SwitchInv, [Next]_vars PROVE SwitchInv'
  OBVIOUS
<1>0. StoreInv'
  BY NextStoreInv DEF SwitchInv
<1>1. CASE UNCHANGED vars
  BY <1>0, <1>1, IdleStepExplained DEF vars, ghosts
<1>2. ASSUME NEW p \in Clients, Operation(p) PROVE SwitchInv'
  <2>1. ASSUME NEW c \in Containers, ExportContainer(p, c) PROVE SwitchInv'
    BY <1>0, <2>1, IdleStepExplained DEF ExportContainer, ghosts
  <2> QED BY <1>0, <1>2, <2>1, CreateContainerExplained, CreateRevisionExplained,
             CreateEnvironmentExplained, ActivateExplained, RollbackExplained,
             ImportAsExplained DEF Operation
<1>3. ASSUME NEW p \in Clients, Import(p) PROVE SwitchInv'
  BY <1>0, <1>3, ImportSameExplained DEF Import
<1>4. ASSUME NEW p \in Clients, Write(p) PROVE SwitchInv'
  <2>1. CASE AuditUnreadable(p)
    <3>1. /\ job[p] # Idle /\ job' = [job EXCEPT ![p] = Idle] /\ NoteLoss(p)
          /\ UNCHANGED <<audit, environments>>
      BY <2>1 DEF AuditUnreadable, store
    <3> QED BY <1>0, <3>1, LossNoted, EndExplained
  <2> QED BY <1>0, <1>4, <2>1, SaveContainerExplained, NumberEventExplained,
             CreateFileExplained, FillRevisionExplained, SaveEnvironmentExplained,
             FillAuditExplained, ReturnExplained, MeetsLeftoverExplained,
             RemoveFileExplained, RemovalEndExplained DEF Write
<1>5. ASSUME NEW p \in Clients, Fault(p) PROVE SwitchInv'
  <2>1. CASE Crash(p)
    <3>1. /\ job[p] # Idle /\ job' = [job EXCEPT ![p] = Idle] /\ NoteLoss(p)
          /\ UNCHANGED <<audit, environments>>
      BY <2>1 DEF Crash, store
    <3> QED BY <1>0, <3>1, LossNoted, EndExplained
  <2> QED BY <1>0, <1>5, <2>1, WriteFailsExplained, RemovalEndExplained DEF Fault
<1> QED BY <1>1, <1>2, <1>3, <1>4, <1>5 DEF Next

\* For any number of clients, containers and environments: between operations, the
\* audit log of a container that lost no event names the version each environment is
\* at and the one it came from, and its switches form one chain.
THEOREM AuditExplainsStateHolds == Spec => []AuditExplainsState
<1>1. Spec => []SwitchInv
  BY InitSwitchInv, NextSwitchInv, PTL DEF Spec
<1> QED BY <1>1, SwitchInvExplains, PTL

=============================================================================
