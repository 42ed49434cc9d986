---------------------------- MODULE ControlPlane ----------------------------
(***************************************************************************)
(* The control plane: ControlPlaneService (control/service.py) over the    *)
(* file store (control/store.py), for the containers of one organization.  *)
(*                                                                         *)
(* Every operation runs under one store-wide lock.  Under the lock it      *)
(* first reads and checks, which nothing can disturb, and then performs a  *)
(* fixed list of durable writes: container.json, revision files in the     *)
(* order of their numbers, environment files, one audit file.  A process   *)
(* can die, or a write can raise, between any two of them, so the checks   *)
(* are one action that takes the lock and records the writes still to do   *)
(* (job), and each write is an action of its own.                          *)
(*                                                                         *)
(* Two kinds of write are told apart.  container.json and environment      *)
(* files are replaced atomically (_atomic_write).  Revision and audit      *)
(* files are created with O_EXCL and filled afterwards                     *)
(* (_write_document_exclusive), so a crash can leave a torn file; every    *)
(* later listing of that directory raises CorruptStoreError.               *)
(*                                                                         *)
(* An import that raises removes the container it was creating with        *)
(* shutil.rmtree, file by file and in any order, and that can stop half    *)
(* way too.  What is left is then found by whoever uses the id next.       *)
(*                                                                         *)
(* Containers are their case-folded ids (container_storage_key), and an    *)
(* environment is identified by its case-folded name.  An operation that   *)
(* raises before it writes anything leaves the store as it was and is not  *)
(* an action, and neither are the reads (get, list, diff, preview).        *)
(***************************************************************************)
EXTENDS Naturals, FiniteSets

CONSTANTS
  Clients,        \* processes and threads that call the service
  Containers,     \* case-folded container ids
  Versions,       \* config_version UUIDs
  Payloads,       \* configuration payloads
  ValidPayloads,  \* the payloads validate_config_payload reports valid
  EnvNames,       \* case-folded environment names
  NoVersion,      \* None, where a config_version is optional
  NoEnv,          \* no environment file of that name
  Free,           \* nobody holds the store lock
  Idle,           \* a client with no operation under way
  ForeignDocs,    \* export documents made by another store
  MaxAudit,       \* bound: audit events per container
  MaxCrashes,     \* bound: process deaths
  MaxFailures,    \* bound: calls of the file system that raise
  MaxFaults,      \* bound: both together
  MaxExports      \* bound: export documents in circulation

ASSUME ConstantsAssumption ==
  /\ ValidPayloads \subseteq Payloads
  /\ NoVersion \notin Versions
  /\ Free \notin Clients
  /\ MaxAudit \in Nat /\ MaxExports \in Nat
  /\ MaxCrashes \in Nat /\ MaxFailures \in Nat /\ MaxFaults \in Nat

VARIABLES
  containers,    \* containers whose container.json exists
  revisions,     \* [Containers -> set of complete revision documents]
  environments,  \* [Containers -> [EnvNames -> environment document or NoEnv]]
  audit,         \* [Containers -> set of complete audit documents]
  torn,          \* [Containers -> directories holding a file that does not belong: a
                 \* revision or an audit event nobody will fill, or a second
                 \* environment of one name]
  used,          \* config_versions drawn so far
  exports,       \* export documents written so far
  holder,        \* the client that holds the store lock, or Free
  job,           \* [Clients -> the writes its operation still has to do]
  crashes, failures,
  \* What callers have been told and what was lost: read by properties only.
  acked,         \* <<container, audit event>> of operations that returned
  imports,       \* [container, doc] of import_container calls that returned
  unaudited,     \* containers with a change whose audit event was never written
  half           \* containers whose removal has begun and was cut short

store == <<containers, revisions, environments, audit, torn>>
bounds == <<crashes, failures>>
ghosts == <<acked, imports, unaudited, half>>
vars == <<store, used, exports, holder, job, bounds, ghosts>>

-----------------------------------------------------------------------------
(* Documents *)

OptVersion == Versions \cup {NoVersion}

Revision == [version : Versions, number : Nat, parent : OptVersion, payload : Payloads]

Environment == [protected : BOOLEAN, current : OptVersion, previous : OptVersion]

Action == {"revision.created", "environment.created",
           "environment.activated", "environment.rolled_back"}

Result == {"succeeded", "protected_environment", "stale_environment",
           "invalid_revision", "no_previous_revision"}

OptEnvName == EnvNames \cup {NoEnv}

\* An audit event before append_audit_event numbers it, and after.
Event == [action : Action, result : Result, env : OptEnvName,
          version : OptVersion, previous : OptVersion]

AuditEvent == [seq : Nat, event : Event]

Document == [source : Containers, revs : SUBSET Revision,
             envs : [EnvNames -> Environment \cup {NoEnv}]]

\* What another store has exported is a document.
ASSUME ForeignDocsAssumption == ForeignDocs \subseteq Document

\* The writes an operation has left; writing: it has created a file it has not
\* filled; written: its audit event, once numbered; removing: it has failed and
\* takes the container away again.
Job == [container : Containers, create : BOOLEAN, revs : SUBSET Revision,
        envs : SUBSET (EnvNames \X Environment), events : SUBSET Event,
        writing : BOOLEAN, written : SUBSET AuditEvent, docs : SUBSET Document,
        removing : BOOLEAN]

\* No operation and no file are not an operation and a file.
ASSUME NothingAssumption == Idle \notin Job /\ NoEnv \notin Environment

NoWrites(c) ==
  [container |-> c, create |-> FALSE, revs |-> {}, envs |-> {}, events |-> {},
   writing |-> FALSE, written |-> {}, docs |-> {}, removing |-> FALSE]

MkEvent(a, res, e, v, prev) ==
  [action |-> a, result |-> res, env |-> e, version |-> v, previous |-> prev]

-----------------------------------------------------------------------------
(* Reads *)

NoEnvironments == [e \in EnvNames |-> NoEnv]

\* list_revisions sorts by revision_number; the latest is the last of the list.
Latest(R) == CHOOSE r \in R : \A s \in R : s.number <= r.number

LatestNumber(c) == IF revisions[c] = {} THEN 0 ELSE Latest(revisions[c]).number

LatestVersion(c) == IF revisions[c] = {} THEN NoVersion ELSE Latest(revisions[c]).version

\* A torn file makes every listing of its directory raise CorruptStoreError.
RevisionsReadable(c) == "revision" \notin torn[c]

AuditReadable(c) == "audit" \notin torn[c]

\* get_revision: one complete revision file of that version.
Stored(c, v) == \E r \in revisions[c] : r.version = v

\* _validated_revision_locked: the payload of version v passes validation.
Valid(c, v) == \E r \in revisions[c] : r.version = v /\ r.payload \in ValidPayloads

LastSeq(c) ==
  IF audit[c] = {} THEN 0
  ELSE (CHOOSE a \in audit[c] : \A b \in audit[c] : b.seq <= a.seq).seq

RoomToAudit(c) == Cardinality(audit[c]) < MaxAudit

-----------------------------------------------------------------------------
(* The store lock and the start of an operation *)

\* Mutant of AcquireLock: the lock is shared (LOCK_SH) instead of exclusive.
AcquireLockShared(p) == holder' = p

\* FileStore.lock: flock(LOCK_EX | LOCK_NB), polled until it succeeds or the
\* ten seconds are over (which raises and changes nothing).
AcquireLock(p) ==
  /\ holder = Free
  /\ holder' = p

\* p holds the lock, has read and checked, and has the writes of j to do.
Start(p, j) ==
  /\ job[p] = Idle
  /\ AcquireLock(p)
  /\ job' = [job EXCEPT ![p] = j]

CreateContainer(p, c) ==
  /\ c \notin containers
  /\ Start(p, [NoWrites(c) EXCEPT !.create = TRUE])
  /\ UNCHANGED <<store, used, exports, bounds, ghosts>>

\* create_revision, and create_draft_from_recommendations, which calls it with
\* the payload it built before taking the lock.  expected = NoVersion: the
\* caller passes no expected_parent.
CreateRevision(p, c, v, payload, expected) ==
  LET r == [version |-> v, number |-> LatestNumber(c) + 1,
            parent |-> LatestVersion(c), payload |-> payload]
  IN
  /\ c \in containers
  /\ RevisionsReadable(c)
  /\ expected # NoVersion => expected = LatestVersion(c)
  /\ v \notin used
  /\ RoomToAudit(c)
  /\ Start(p, [NoWrites(c) EXCEPT
       !.revs = {r},
       !.events = {MkEvent("revision.created", "succeeded", NoEnv, v, r.parent)}])
  /\ used' = used \cup {v}
  /\ UNCHANGED <<store, exports, bounds, ghosts>>

\* Mutant of CreateEnvironment: the document lacks previous_config_version.
CreateEnvironmentShort(p, c, e, protected) ==
  /\ c \in containers
  /\ environments[c][e] = NoEnv
  /\ RoomToAudit(c)
  /\ Start(p, [NoWrites(c) EXCEPT
       !.envs = {<<e, [protected |-> protected, current |-> NoVersion]>>},
       !.events = {MkEvent("environment.created", "succeeded", e, NoVersion, NoVersion)}])
  /\ UNCHANGED <<store, used, exports, bounds, ghosts>>

CreateEnvironment(p, c, e, protected) ==
  /\ c \in containers
  /\ environments[c][e] = NoEnv
  /\ RoomToAudit(c)
  /\ Start(p, [NoWrites(c) EXCEPT
       !.envs = {<<e, [protected |-> protected, current |-> NoVersion,
                       previous |-> NoVersion]>>},
       !.events = {MkEvent("environment.created", "succeeded", e, NoVersion, NoVersion)}])
  /\ UNCHANGED <<store, used, exports, bounds, ghosts>>

\* The writes of a refused switch: _record_activation_failure, then raise.
Refuse(p, c, e, action, reason, target) ==
  Start(p, [NoWrites(c) EXCEPT
    !.events = {MkEvent(action, reason, e, target, environments[c][e].current)}])

\* Mutant of SwitchTo: previous_config_version keeps its old value.
SwitchToKeepingPrevious(p, c, e, action, target) ==
  LET env == environments[c][e] IN
  Start(p, [NoWrites(c) EXCEPT
    !.envs = {<<e, [env EXCEPT !.current = target]>>},
    !.events = {MkEvent(action, "succeeded", e, target, env.current)}])

\* The writes of a switch of e to target: the environment file, then its event.
SwitchTo(p, c, e, action, target) ==
  LET env == environments[c][e] IN
  Start(p, [NoWrites(c) EXCEPT
    !.envs = {<<e, [env EXCEPT !.current = target, !.previous = env.current]>>},
    !.events = {MkEvent(action, "succeeded", e, target, env.current)}])

\* Mutant of GuardedSwitch: a switch to the version already current is not skipped.
GuardedSwitchAgain(p, c, e, action, target, expected, allow) ==
  /\ environments[c][e].protected => allow
  /\ expected # NoVersion => expected = environments[c][e].current
  /\ Valid(c, target)
  /\ SwitchTo(p, c, e, action, target)

\* The checks both switches make, in the code's order, from the protected flag on.
GuardedSwitch(p, c, e, action, target, expected, allow) ==
  LET env   == environments[c][e]
      stale == expected # NoVersion /\ expected # env.current
  IN
  \/ /\ env.protected /\ ~allow
     /\ Refuse(p, c, e, action, "protected_environment", target)
  \/ /\ env.protected => allow
     /\ stale
     /\ Refuse(p, c, e, action, "stale_environment", target)
  \/ /\ env.protected => allow
     /\ ~stale
     /\ Stored(c, target) /\ ~Valid(c, target)
     /\ Refuse(p, c, e, action, "invalid_revision", target)
  \/ /\ env.protected => allow
     /\ ~stale
     /\ Valid(c, target)
     /\ env.current # NoVersion => Stored(c, env.current)
     /\ action = "environment.activated" => target # env.current
     /\ SwitchTo(p, c, e, action, target)

\* activate_environment.  A call without config_version targets the latest
\* revision, one of the targets enumerated.  Activating the current version
\* writes nothing and is not a step.
ActivateEnvironment(p, c, e, target, expected, allow) ==
  /\ c \in containers
  /\ environments[c][e] # NoEnv
  /\ RoomToAudit(c)
  /\ GuardedSwitch(p, c, e, "environment.activated", target, expected, allow)
  /\ UNCHANGED <<store, used, exports, bounds, ghosts>>

\* rollback_environment: back to previous_config_version, which becomes the
\* version left behind, so that a second rollback undoes the first.
RollbackEnvironment(p, c, e, expected, allow) ==
  /\ c \in containers
  /\ environments[c][e] # NoEnv
  /\ RoomToAudit(c)
  /\ LET target == environments[c][e].previous IN
     IF target = NoVersion
     THEN Refuse(p, c, e, "environment.rolled_back", "no_previous_revision", NoVersion)
     ELSE GuardedSwitch(p, c, e, "environment.rolled_back", target, expected, allow)
  /\ UNCHANGED <<store, used, exports, bounds, ghosts>>

\* export_container reads everything under one hold of the lock.  A document with
\* two environments of one name is left out: no import accepts it.
ExportContainer(p, c) ==
  /\ holder = Free /\ job[p] = Idle
  /\ c \in containers
  /\ RevisionsReadable(c)
  /\ "environment" \notin torn[c]
  /\ Cardinality(exports) < MaxExports
  /\ exports' = exports \cup
       {[source |-> c, revs |-> revisions[c], envs |-> environments[c]]}
  /\ UNCHANGED <<store, used, holder, job, bounds, ghosts>>

\* Mutant of SameFingerprints: the two lists are zipped, so a prefix passes.
SameUpToShorter(R, S) == \A r \in R, t \in S : r.number = t.number => r = t

\* _revision_fingerprints: number and checksum.  The checksum covers the
\* container id, version, number, parent and payload of the revision.
SameFingerprints(R, S) == R = S

VersionsOf(R) == {r.version : r \in R}

\* Mutant of Parses: parents are not looked up.
ParsesAnyParent(d) ==
  LET known == VersionsOf(d.revs) \cup {NoVersion} IN
  /\ \A r, s \in d.revs : r.version = s.version \/ r.number = s.number => r = s
  /\ \A e \in EnvNames :
       d.envs[e] # NoEnv => d.envs[e].current \in known /\ d.envs[e].previous \in known

\* _parse_export_revisions and _parse_export_environments: versions and numbers are
\* unique, and parents and environment pointers name revisions of the document.
Parses(d) ==
  LET known == VersionsOf(d.revs) \cup {NoVersion} IN
  /\ \A r, s \in d.revs : r.version = s.version \/ r.number = s.number => r = s
  /\ \A r \in d.revs : r.parent \in known
  /\ \A e \in EnvNames :
       d.envs[e] # NoEnv => d.envs[e].current \in known /\ d.envs[e].previous \in known

EnvDocs(envs) == {<<e, envs[e]>> : e \in {n \in EnvNames : envs[n] # NoEnv}}

\* import_container of a document under the id it was exported from.  An existing
\* container with the same fingerprints is acknowledged as a no-op.
ImportSame(p, d) ==
  LET c == d.source IN
  \/ /\ Parses(d)
     /\ c \in containers
     /\ holder = Free /\ job[p] = Idle
     /\ RevisionsReadable(c)
     /\ SameFingerprints(revisions[c], d.revs)
     /\ imports' = imports \cup {[container |-> c, doc |-> d]}
     /\ UNCHANGED <<store, used, exports, holder, job, bounds, acked, unaudited, half>>
  \/ /\ Parses(d)
     /\ c \notin containers
     /\ Start(p, [NoWrites(c) EXCEPT !.create = TRUE, !.revs = d.revs,
                    !.envs = EnvDocs(d.envs), !.docs = {d}])
     /\ UNCHANGED <<store, used, exports, bounds, ghosts>>

\* _remap_revisions and _remap_environments: every version of the document is
\* replaced by a fresh one (f), in revisions, parents and environment pointers.
RemapVersion(f, v) == IF v = NoVersion THEN NoVersion ELSE f[v]

RemapRevisions(R, f) ==
  {[r EXCEPT !.version = f[r.version], !.parent = RemapVersion(f, r.parent)] : r \in R}

RemapEnvs(envs, f) ==
  {<<n, [envs[n] EXCEPT !.current = RemapVersion(f, envs[n].current),
                        !.previous = RemapVersion(f, envs[n].previous)]>> :
     n \in {m \in EnvNames : envs[m] # NoEnv}}

\* import_container with as_container_id, and the second half of clone_container:
\* only a new id is accepted.
ImportAs(p, d, c, f) ==
  /\ Parses(d)
  /\ c \notin containers
  /\ \A v, w \in VersionsOf(d.revs) : f[v] = f[w] => v = w
  /\ Start(p, [NoWrites(c) EXCEPT !.create = TRUE, !.revs = RemapRevisions(d.revs, f),
                 !.envs = RemapEnvs(d.envs, f), !.docs = {d}])
  /\ used' = used \cup {f[v] : v \in VersionsOf(d.revs)}
  /\ UNCHANGED <<store, exports, bounds, ghosts>>

-----------------------------------------------------------------------------
(* The writes of an operation, in order, and its return *)

NextWrite(j) ==
  IF j.removing THEN "removal"
  ELSE IF j.create THEN "container"
  ELSE IF j.revs # {} THEN "revision"
  ELSE IF j.envs # {} THEN "environment"
  ELSE IF j.events # {} THEN "audit"
  ELSE "return"

\* The revision that is written next: the one with the lowest number.
NextRevisions(j) == {r \in j.revs : \A s \in j.revs : r.number <= s.number}

SaveContainer(p) ==
  LET c == job[p].container IN
  /\ job[p] # Idle
  /\ NextWrite(job[p]) = "container"
  /\ containers' = containers \cup {c}
  /\ job' = [job EXCEPT ![p].create = FALSE]
  /\ UNCHANGED <<revisions, environments, audit, torn, used, exports, holder, bounds, ghosts>>

\* append_audit_event lists the directory and numbers the event one past the
\* largest sequence it finds.
NumberEvent(p) ==
  LET c == job[p].container IN
  /\ job[p] # Idle
  /\ NextWrite(job[p]) = "audit"
  /\ job[p].written = {}
  /\ AuditReadable(c)
  /\ job' = [job EXCEPT ![p].written =
                {[seq |-> LastSeq(c) + 1, event |-> e] : e \in job[p].events}]
  /\ UNCHANGED <<store, used, exports, holder, bounds, ghosts>>

\* A file of that name is there already, left over from a removal.
Occupied(p) ==
  LET c == job[p].container IN
  NextWrite(job[p]) = "revision" /\ \E r \in NextRevisions(job[p]) : Stored(c, r.version)

\* _write_document_exclusive, first half: os.open(O_CREAT | O_EXCL).
CreateFile(p) ==
  LET kind == NextWrite(job[p]) IN
  /\ job[p] # Idle
  /\ kind \in {"revision", "audit"}
  /\ ~job[p].writing
  /\ kind = "audit" => job[p].written # {}
  /\ ~Occupied(p)
  /\ job' = [job EXCEPT ![p].writing = TRUE]
  /\ UNCHANGED <<store, used, exports, holder, bounds, ghosts>>

\* Mutant of FillRevision: revisions are written in any order.
FillAnyRevision(p) ==
  LET c == job[p].container IN
  /\ job[p] # Idle
  /\ NextWrite(job[p]) = "revision"
  /\ job[p].writing
  /\ \E r \in job[p].revs :
       /\ revisions' = [revisions EXCEPT ![c] = @ \cup {r}]
       /\ job' = [job EXCEPT ![p].revs = @ \ {r}, ![p].writing = FALSE]
  /\ UNCHANGED <<containers, environments, audit, torn, used, exports, holder, bounds, ghosts>>

\* save_revision, second half.
FillRevision(p) ==
  LET c == job[p].container IN
  /\ job[p] # Idle
  /\ NextWrite(job[p]) = "revision"
  /\ job[p].writing
  /\ \E r \in NextRevisions(job[p]) :
       /\ revisions' = [revisions EXCEPT ![c] = @ \cup {r}]
       /\ job' = [job EXCEPT ![p].revs = @ \ {r}, ![p].writing = FALSE]
  /\ UNCHANGED <<containers, environments, audit, torn, used, exports, holder, bounds, ghosts>>

\* Environment files are named by their ids: one that an import writes replaces a
\* leftover with its id, and stands beside a leftover with its name only.
SaveEnvironment(p) ==
  LET c == job[p].container IN
  /\ job[p] # Idle
  /\ NextWrite(job[p]) = "environment"
  /\ \E x \in job[p].envs :
       /\ environments' = [environments EXCEPT ![c][x[1]] = x[2]]
       /\ job' = [job EXCEPT ![p].envs = @ \ {x}]
       /\ \/ UNCHANGED torn
          \/ /\ job[p].docs # {} /\ environments[c][x[1]] # NoEnv
             /\ torn' = [torn EXCEPT ![c] = @ \cup {"environment"}]
  /\ UNCHANGED <<containers, revisions, audit, used, exports, holder, bounds, ghosts>>

\* _write_document_exclusive, second half, for the numbered event.
FillAudit(p) ==
  LET c == job[p].container IN
  /\ job[p] # Idle
  /\ NextWrite(job[p]) = "audit"
  /\ job[p].writing
  /\ audit' = [audit EXCEPT ![c] = @ \cup job[p].written]
  /\ job' = [job EXCEPT ![p].events = {}, ![p].writing = FALSE]
  /\ UNCHANGED <<containers, revisions, environments, torn, used, exports, holder, bounds, ghosts>>

\* The end of an operation: the lock is released, and the caller gets a result
\* (a refused switch raises after its event is written: nothing is acknowledged).
Return(p) ==
  LET j == job[p] IN
  /\ j # Idle
  /\ NextWrite(j) = "return"
  /\ job' = [job EXCEPT ![p] = Idle]
  /\ holder' = Free
  /\ acked' = acked \cup {<<j.container, a>> : a \in {b \in j.written : b.event.result = "succeeded"}}
  /\ imports' = imports \cup {[container |-> j.container, doc |-> d] : d \in j.docs}
  /\ UNCHANGED <<store, used, exports, bounds, unaudited, half>>

-----------------------------------------------------------------------------
(* What can go wrong between two writes *)

\* The operation of p ends with its event unwritten although the change the
\* event records is on disk (or may be).
LosesEvent(j) == j.events # {} /\ j.revs = {} /\ j.envs = {}
                   /\ \E e \in j.events : e.result = "succeeded"

NoteLoss(p) ==
  unaudited' = IF LosesEvent(job[p]) THEN unaudited \cup {job[p].container} ELSE unaudited

\* Mutant of AuditUnreadable: the append waits for the directory to be readable.
AuditUnreadableWaits(p) ==
  /\ job[p] # Idle
  /\ AuditReadable(job[p].container)
  /\ ~AuditReadable(job[p].container)
  /\ UNCHANGED vars

\* append_audit_event lists the audit directory, which holds a torn file: the
\* operation raises CorruptStoreError after its change was saved.
AuditUnreadable(p) ==
  /\ job[p] # Idle
  /\ NextWrite(job[p]) = "audit"
  /\ job[p].written = {}
  /\ ~AuditReadable(job[p].container)
  /\ job' = [job EXCEPT ![p] = Idle]
  /\ holder' = Free
  /\ NoteLoss(p)
  /\ UNCHANGED <<store, used, exports, bounds, acked, imports, half>>

\* The operation of p raises: an import starts to take away what it has written.
Raise(p) ==
  IF job[p].docs # {}
  THEN /\ job' = [job EXCEPT ![p] = [NoWrites(job[p].container) EXCEPT !.removing = TRUE]]
       /\ UNCHANGED holder
  ELSE /\ job' = [job EXCEPT ![p] = Idle]
       /\ holder' = Free

\* The bounds leave room for n more calls that raise.
MayFail(n) == failures + n <= MaxFailures /\ crashes + failures + n <= MaxFaults

\* The container is damaged: the file p has created is never filled.
LeavesFile(p) == torn' = [torn EXCEPT ![job[p].container] = @ \cup {NextWrite(job[p])}]

\* Mutants of WriteFails: the created file is left behind; every operation, not
\* only an import, takes away the container it was working on.
WriteFailsLeavingFile(p) ==
  /\ job[p] # Idle /\ ~job[p].removing
  /\ MayFail(1)
  /\ failures' = failures + 1
  /\ IF job[p].writing THEN LeavesFile(p) ELSE UNCHANGED torn
  /\ Raise(p)
  /\ NoteLoss(p)
  /\ UNCHANGED <<containers, revisions, environments, audit, used, exports, crashes, acked,
                 imports, half>>

WriteFailsRemoving(p) ==
  /\ job[p] # Idle /\ ~job[p].removing
  /\ MayFail(1)
  /\ failures' = failures + 1
  /\ job' = [job EXCEPT ![p] = [NoWrites(job[p].container) EXCEPT !.removing = TRUE]]
  /\ NoteLoss(p)
  /\ UNCHANGED <<store, used, exports, crashes, holder, acked, imports, half>>

\* A write raises (disk full, permissions), or the directory fsync after it does.
\* _write_document_exclusive then unlinks the file it had created and not filled; when
\* that fails as well (the file system has gone read-only) it is suppressed.
WriteFails(p) ==
  /\ job[p] # Idle /\ ~job[p].removing
  /\ \/ /\ MayFail(1)
        /\ failures' = failures + 1
        /\ UNCHANGED torn
     \/ /\ job[p].writing
        /\ MayFail(2)
        /\ failures' = failures + 2
        /\ LeavesFile(p)
  /\ Raise(p)
  /\ NoteLoss(p)
  /\ UNCHANGED <<containers, revisions, environments, audit, used, exports, crashes, acked,
                 imports, half>>

\* The file an import wants to create exists: ConflictError.  A torn leftover may have
\* that name too.
MeetsLeftover(p) ==
  /\ job[p] # Idle
  /\ NextWrite(job[p]) = "revision" /\ ~job[p].writing
  /\ job[p].docs # {}
  /\ Occupied(p) \/ "revision" \in torn[job[p].container]
  /\ Raise(p)
  /\ UNCHANGED <<store, used, exports, bounds, ghosts>>

\* remove_container_tree: rmtree unlinks one file after the other, in the order in
\* which the directories list them.
RemoveFile(p) ==
  LET c == job[p].container IN
  /\ job[p] # Idle
  /\ NextWrite(job[p]) = "removal"
  /\ \/ /\ c \in containers
        /\ containers' = containers \ {c}
        /\ UNCHANGED <<revisions, environments, audit, torn>>
     \/ \E r \in revisions[c] :
          /\ revisions' = [revisions EXCEPT ![c] = @ \ {r}]
          /\ UNCHANGED <<containers, environments, audit, torn>>
     \/ \E e \in EnvNames :
          /\ environments[c][e] # NoEnv
          /\ environments' = [environments EXCEPT ![c][e] = NoEnv]
          /\ UNCHANGED <<containers, revisions, audit, torn>>
     \/ \E a \in audit[c] :
          /\ audit' = [audit EXCEPT ![c] = @ \ {a}]
          /\ UNCHANGED <<containers, revisions, environments, torn>>
     \/ \E kind \in torn[c] :
          /\ torn' = [torn EXCEPT ![c] = @ \ {kind}]
          /\ UNCHANGED <<containers, revisions, environments, audit>>
  /\ UNCHANGED <<used, exports, holder, job, bounds, ghosts>>

\* Nothing is left of the container, and the import raises what it caught.
Removed(p) ==
  LET c == job[p].container IN
  /\ job[p] # Idle
  /\ NextWrite(job[p]) = "removal"
  /\ c \notin containers
  /\ revisions[c] = {} /\ environments[c] = NoEnvironments /\ audit[c] = {} /\ torn[c] = {}
  /\ job' = [job EXCEPT ![p] = Idle]
  /\ holder' = Free
  /\ half' = half \ {c}
  /\ UNCHANGED <<store, used, exports, bounds, acked, imports, unaudited>>

\* rmtree raises at the first file it cannot remove.
RemovalFails(p) ==
  /\ job[p] # Idle
  /\ NextWrite(job[p]) = "removal"
  /\ MayFail(1)
  /\ failures' = failures + 1
  /\ job' = [job EXCEPT ![p] = Idle]
  /\ holder' = Free
  /\ half' = half \cup {job[p].container}
  /\ UNCHANGED <<store, used, exports, crashes, acked, imports, unaudited>>

\* The process dies: the kernel drops its flock, and what is on disk stays,
\* a created but unfilled file included.
Crash(p) ==
  /\ job[p] # Idle
  /\ crashes < MaxCrashes /\ crashes + failures < MaxFaults
  /\ crashes' = crashes + 1
  /\ IF job[p].writing THEN LeavesFile(p) ELSE UNCHANGED torn
  /\ half' = IF job[p].removing THEN half \cup {job[p].container} ELSE half
  /\ job' = [job EXCEPT ![p] = Idle]
  /\ holder' = Free
  /\ NoteLoss(p)
  /\ UNCHANGED <<containers, revisions, environments, audit, used, exports, failures, acked, imports>>

-----------------------------------------------------------------------------

Init ==
  /\ containers = {}
  /\ revisions = [c \in Containers |-> {}]
  /\ environments = [c \in Containers |-> NoEnvironments]
  /\ audit = [c \in Containers |-> {}]
  /\ torn = [c \in Containers |-> {}]
  /\ used = UNION {VersionsOf(d.revs) : d \in ForeignDocs}
  /\ exports = ForeignDocs
  /\ holder = Free
  /\ job = [p \in Clients |-> Idle]
  /\ crashes = 0 /\ failures = 0
  /\ acked = {} /\ imports = {} /\ unaudited = {} /\ half = {}

Operation(p) ==
  \E c \in Containers :
    \/ CreateContainer(p, c)
    \/ \E v \in Versions, payload \in Payloads, expected \in OptVersion :
         CreateRevision(p, c, v, payload, expected)
    \/ \E e \in EnvNames, protected \in BOOLEAN : CreateEnvironment(p, c, e, protected)
    \/ \E e \in EnvNames, target \in Versions, expected \in OptVersion, allow \in BOOLEAN :
         ActivateEnvironment(p, c, e, target, expected, allow)
    \/ \E e \in EnvNames, expected \in OptVersion, allow \in BOOLEAN :
         RollbackEnvironment(p, c, e, expected, allow)
    \/ ExportContainer(p, c)
    \/ \E d \in exports :
         \E f \in [VersionsOf(d.revs) -> Versions \ used] : ImportAs(p, d, c, f)

Import(p) == \E d \in exports : ImportSame(p, d)

Write(p) ==
  \/ SaveContainer(p)
  \/ NumberEvent(p)
  \/ CreateFile(p)
  \/ FillRevision(p)
  \/ SaveEnvironment(p)
  \/ FillAudit(p)
  \/ Return(p)
  \/ AuditUnreadable(p)
  \/ MeetsLeftover(p)
  \/ RemoveFile(p)
  \/ Removed(p)

Fault(p) == WriteFails(p) \/ RemovalFails(p) \/ Crash(p)

Next == \E p \in Clients : Operation(p) \/ Import(p) \/ Write(p) \/ Fault(p)

Spec == Init /\ [][Next]_vars

\* Nothing under the lock waits for anything: a holder that does not die goes on
\* to its next write until it returns or raises.
FairSpec == Spec /\ \A p \in Clients : WF_vars(Write(p))

-----------------------------------------------------------------------------
(* Properties *)

\* What is on disk is a set of documents of the schemas in control/models.py, and
\* what a client has left to write is too, through every operation, crash and error.
TypeOK ==
  /\ containers \subseteq Containers
  /\ revisions \in [Containers -> SUBSET Revision]
  /\ environments \in [Containers -> [EnvNames -> Environment \cup {NoEnv}]]
  /\ audit \in [Containers -> SUBSET AuditEvent]
  /\ torn \in [Containers -> SUBSET {"revision", "environment", "audit"}]
  /\ used \subseteq Versions
  /\ exports \subseteq Document
  /\ holder \in Clients \cup {Free}
  /\ job \in [Clients -> Job \cup {Idle}]
  /\ crashes \in Nat /\ failures \in Nat
  /\ acked \subseteq Containers \X AuditEvent
  /\ imports \subseteq [container : Containers, doc : Document]
  /\ unaudited \subseteq Containers /\ half \subseteq Containers

\* N is 1 .. n for some n.
Contiguous(N) == \E n \in N \cup {0} : N = 1 .. n

\* R is one line of history: versions are distinct, numbers run from 1 without a
\* gap, and the parent of each revision is the one numbered just before it.
Linear(R) ==
  /\ \A r, s \in R : r.number = s.number \/ r.version = s.version => r = s
  /\ Contiguous({r.number : r \in R})
  /\ \A r \in R : r.number = 1 => r.parent = NoVersion
  /\ \A r, s \in R : s.number = r.number + 1 => s.parent = r.version

\* Containers that are not being removed and whose removal was never cut short: half
\* of a container, once left behind, is found and used by whoever takes its id.
Undamaged ==
  {c \in Containers \ half :
     \A p \in Clients : job[p] # Idle /\ job[p].removing => job[p].container # c}

\* Unless its removal was cut short, the history of a container is linear at every
\* moment, during operations of several clients and after a crash in the middle of
\* one: create_revision never forks or skips, and a half-done import is a prefix of
\* the imported history.
RevisionHistoryLinear == \A c \in Undamaged : Linear(revisions[c])

\* v is a stored revision of R that passes validation.
Deployable(R, v) == \E r \in R : r.version = v /\ r.payload \in ValidPayloads

\* The pointers of one environment over the revisions R: current and previous name
\* stored, valid revisions, they differ, and there is no previous without a current.
PointersGood(R, env) ==
  /\ env.current # NoVersion => Deployable(R, env.current)
  /\ env.previous # NoVersion =>
       Deployable(R, env.previous) /\ env.current \notin {NoVersion, env.previous}

\* What export_container writes: one line of history, and environments that point
\* into it.
DocumentSound(d) ==
  /\ Linear(d.revs)
  /\ \A e \in EnvNames : d.envs[e] # NoEnv => PointersGood(d.revs, d.envs[e])

\* The documents of other stores were exported by this code, and a version names one
\* revision, which no import checks.
ForeignDocsSound ==
  /\ \A d \in ForeignDocs : DocumentSound(d)
  /\ \A d, f \in ForeignDocs : \A r \in d.revs, s \in f.revs :
       r.version = s.version => r = s

\* Whatever mix of activations, rollbacks, imports, crashes and failed writes came
\* before, and unless the removal of the container was cut short, every environment
\* points at stored, valid revisions of its own container, so activate_environment and
\* rollback_environment always find the version they leave and the one they return to.
EnvironmentsDeployable ==
  \A c \in Undamaged, e \in EnvNames :
    environments[c][e] # NoEnv => PointersGood(revisions[c], environments[c][e])

\* What import_container accepts is sound although it does not look at the order of
\* the revisions or at what the pointers name: damage does not spread through export,
\* clone and import, although a container whose removal was cut short can be exported.
AcceptedMeansSound == \A d \in exports : Parses(d) => DocumentSound(d)

\* The audit log of a container is numbered 1, 2, ... without a gap or a repeat:
\* append_audit_event's max + 1 is never computed from a directory another
\* operation is about to append to.
AuditNumbered ==
  \A c \in Containers :
    /\ \A a, b \in audit[c] : a.seq = b.seq => a = b
    /\ Contiguous({a.seq : a \in audit[c]})

Switches(c, e) ==
  {a \in audit[c] : /\ a.event.env = e
                    /\ a.event.result = "succeeded"
                    /\ a.event.action \in {"environment.activated", "environment.rolled_back"}}

\* Between operations, in a container that lost no event to a crash or a failed
\* write, the audit log explains the state: the last successful switch of an
\* environment names the version it is at and the one it came from, and each switch
\* started from the version the one before it ended at.
AuditExplainsState ==
  \A c \in containers \ unaudited :
    (\A p \in Clients : job[p] # Idle => job[p].container # c) =>
      \A e \in EnvNames : \A a \in Switches(c, e) :
        LET later == {b \in Switches(c, e) : b.seq > a.seq} IN
        /\ later = {} => /\ environments[c][e] # NoEnv
                         /\ environments[c][e].current = a.event.version
                         /\ environments[c][e].previous = a.event.previous
        /\ \A b \in later : (\A x \in later : b.seq <= x.seq) =>
                              b.event.previous = a.event.version

\* What a caller was told stays true: a revision that create_revision returned is
\* stored with its event, and an event returned by a switch is never lost, whatever
\* crashes, failed writes and failed imports follow.
AckedDurable ==
  \A x \in acked :
    /\ x[2] \in audit[x[1]]
    /\ x[2].event.action = "revision.created" => Stored(x[1], x[2].event.version)

\* A file that nobody will fill makes its directory unreadable for good. It takes a
\* death, or two calls that fail in one write, to leave one behind: one write that
\* raises cleans up after itself, and so does every operation that meets such a file.
TornTakesTwo ==
  2 * Cardinality({x \in Containers \X {"revision", "audit"} : x[2] \in torn[x[1]]})
    <= 2 * crashes + failures

\* R holds the same revisions as S up to the renaming of versions by a remap.
SameHistory(R, S) ==
  {[number |-> r.number, payload |-> r.payload] : r \in R}
    = {[number |-> r.number, payload |-> r.payload] : r \in S}

\* When import_container returns, whether it created the container or found it
\* there, the container holds exactly the history of the document, unless a removal
\* that was cut short had left files under its id.
ImportReturnsWholeHistory ==
  [][\A x \in imports' \ imports :
       x.container \notin half => SameHistory(revisions[x.container], x.doc.revs)]_vars

\* Every operation ends and gives the lock back, even one that meets a torn file.
LockReleased == \A p \in Clients : (holder = p) ~> (holder # p)

-----------------------------------------------------------------------------
(* What the documentation says and the code does not do *)

\* docs/architecture/target-architecture.md: every document is written to a
\* temporary file and renamed, so that what is on disk is complete at any moment.
DocumentsComplete ==
  holder = Free => \A c \in Containers : torn[c] = {}

\* docs/architecture/target-architecture.md: an import is acknowledged as a no-op
\* only when the content matches, environments included.
ImportNoOpMeansSameContent ==
  [][\A x \in imports' \ imports :
       x.container = x.doc.source =>
         EnvDocs(environments[x.container]) = EnvDocs(x.doc.envs)]_vars
=============================================================================
