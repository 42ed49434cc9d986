----------------------------- MODULE MCProgress -----------------------------
(***************************************************************************)
(* What must eventually happen, for TLC: operations of the control plane   *)
(* give the store lock back, the mobile queue drains, background tasks of  *)
(* iOS end, and an audit of a consent platform ends in a report.  The      *)
(* parts stand side by side, each under the fairness its module states;    *)
(* part says which of them a behaviour is about.                           *)
(***************************************************************************)
EXTENDS ControlPlane, Sequences

CONSTANTS f1, f2, analytics, None, Unlisted

VARIABLES
  part,
  config, cache, fetch, consent, thread, queue, flush, tracked, consents, fetches,
  unanswered, kills, denied, late, unpurged, excused,
  observers, centre, starting, starts, stops, active, task, flushing, released,
  traces, activity, requests, asked, authorized, reload, pc, stamps, tries, clicked,
  initial, afterAction, afterReload, detections, findings

NoDocs == {}

Mobile == INSTANCE MobileSdk WITH
  Threads <- {"t"}, Flushers <- {f1, f2}, Names <- {"buy"}, Purposes <- {analytics},
  Documents <- {[kind |-> "container", intact |-> TRUE, own |-> TRUE, needs |-> [n \in {"buy"} |-> {analytics}]]},
  ExclusiveFlush <- TRUE, ChecksContainer <- TRUE, AtomicCache <- TRUE, SwallowsSaves <- TRUE,
  AllowWithoutConfig <- TRUE,
  MaxQueue <- 2, Batch <- 1, MaxRetries <- 2, MaxEvents <- 2, MaxConsents <- 1, MaxFetches <- 0,
  MaxFailures <- 2, MaxKills <- 1

Lifecycle == INSTANCE IosLifecycle WITH
  Starters <- {"s1", "s2"}, MaxTasks <- 2, MaxStarts <- 3, MaxStops <- 2, KeepsObserver <- TRUE

Says(analytics_, advertising) == {[analytics |-> analytics_, advertising |-> advertising]}

ConsentOf(vendor, google) ==
  [s \in {"cookiebot", "onetrust", "tcf", "gpp", "google"} |->
     CASE s = "cookiebot" -> vendor [] s = "google" -> google [] OTHER -> {}]

CmpRun == INSTANCE CmpAudit WITH
  Adapters <- {"cookiebot"}, SignalKinds <- {{}, {"script"}},
  ConsentSets <- {ConsentOf({}, {}), ConsentOf(Says("denied", "denied"), Says("granted", "unknown"))},
  Selectors <- 2, MaxNetwork <- 1, MaxActivity <- 2,
  RequestKinds <- {[category |-> "analytics", google |-> TRUE]}

-----------------------------------------------------------------------------
controlVars == <<containers, revisions, environments, audit, torn, used, exports, holder, job,
                 crashes, acked, imports, unaudited, half>>  \* and failures
clientVars == <<config, cache, fetch, thread, queue, flush, tracked, consents, fetches,
                unanswered, kills, denied, late, unpurged, excused>>  \* and failures, consent
lifecycleVars == <<observers, centre, starting, starts, stops, active, task, flushing, released>>
auditVars == <<traces, activity, requests, asked, authorized, reload, pc, stamps, tries, clicked,
               initial, afterAction, afterReload, detections, findings>>  \* and consent
allVars == <<part, controlVars, failures, clientVars, consent, lifecycleVars, auditVars>>

NoControl == /\ containers = 0 /\ revisions = 0 /\ environments = 0 /\ audit = 0 /\ torn = 0
             /\ used = 0 /\ exports = 0 /\ holder = 0 /\ job = 0 /\ crashes = 0 /\ acked = 0
             /\ imports = 0 /\ unaudited = 0 /\ half = 0
NoClient == /\ config = 0 /\ cache = 0 /\ fetch = 0 /\ thread = 0 /\ queue = 0 /\ flush = 0
            /\ tracked = 0 /\ consents = 0 /\ fetches = 0 /\ unanswered = 0 /\ kills = 0
            /\ denied = 0 /\ late = 0 /\ unpurged = 0 /\ excused = 0
NoLifecycle == /\ observers = 0 /\ centre = 0 /\ starting = 0 /\ starts = 0 /\ stops = 0
               /\ active = 0 /\ task = 0 /\ flushing = 0 /\ released = 0
NoAudit == /\ traces = 0 /\ activity = 0 /\ requests = 0 /\ asked = 0 /\ authorized = 0
           /\ reload = 0 /\ pc = 0 /\ stamps = 0 /\ tries = 0 /\ clicked = 0 /\ initial = 0
           /\ afterAction = 0 /\ afterReload = 0 /\ detections = 0 /\ findings = 0

ProgressInit ==
  \/ part = "control" /\ Init /\ NoClient /\ consent = 0 /\ NoLifecycle /\ NoAudit
  \/ part = "mobile" /\ Mobile!Init /\ NoControl /\ NoLifecycle /\ NoAudit
  \/ part = "lifecycle" /\ Lifecycle!Init /\ NoControl /\ failures = 0 /\ NoClient /\ consent = 0 /\ NoAudit
  \/ part = "audit" /\ CmpRun!AuditInit /\ NoControl /\ failures = 0 /\ NoClient /\ NoLifecycle

\* Steps of one part leave the others alone.
Control(A) == part = "control" /\ A /\ UNCHANGED <<part, clientVars, consent, lifecycleVars, auditVars>>
Client(A) == part = "mobile" /\ A /\ UNCHANGED <<part, controlVars, lifecycleVars, auditVars>>
Observer(A) ==
  part = "lifecycle" /\ A /\ UNCHANGED <<part, controlVars, failures, clientVars, consent, auditVars>>
Runner(A) == part = "audit" /\ A /\ UNCHANGED <<part, controlVars, failures, clientVars, lifecycleVars>>

ProgressNext ==
  \/ Control(Next) \/ Client(Mobile!Next)
  \/ Observer(Lifecycle!Next) \/ Runner(CmpRun!AuditNext)

\* The fairness of FairSpec of ControlPlane and MobileSdk, and of Spec of
\* IosLifecycle and AuditSpec of CmpAudit.
ProgressSpec ==
  /\ ProgressInit /\ [][ProgressNext]_allVars
  /\ \A p \in Clients : WF_allVars(Control(Write(p)))
  /\ \A f \in {f1, f2} : WF_allVars(Client(Mobile!Deliver(f)))
  /\ \A k \in 1 .. 2 : WF_allVars(Observer(Lifecycle!BeginFlush(k))) /\ WF_allVars(Observer(Lifecycle!EndFlush(k)))
  /\ \A s \in {"s1", "s2"} : WF_allVars(Observer(Lifecycle!Started(s)))
  /\ WF_allVars(Runner(CmpRun!Runner))

-----------------------------------------------------------------------------
(* What the run checks *)

\* Every operation of the control plane ends and gives the lock back, even one
\* that meets a torn file.
LockGivenBack == \A p \in Clients : (part = "control" /\ holder = p) ~> (holder # p)

\* With auto-flush running every event leaves the queue, whatever failures and
\* partial answers come first.
QueueDrains ==
  \A i \in 1 .. 2 :
    (part = "mobile" /\ i \in Mobile!IdsOf(queue)) ~> (part = "mobile" => i \notin Mobile!IdsOf(queue))

\* A background task that was begun is ended, a flush can follow it, and every
\* audit ends in a refusal or a report.
TasksAndAuditsEnd ==
  /\ \A k \in 1 .. 2 : (part = "lifecycle" /\ task[k] = "begun") ~> (part = "lifecycle" => task[k] = "ended")
  /\ []<>(part = "lifecycle" => active = 0)
  /\ <>(part = "audit" => pc \in {"refused", "done"})
=============================================================================
