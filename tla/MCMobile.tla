------------------------------ MODULE MCMobile ------------------------------
(***************************************************************************)
(* The mobile SDKs for TLC: the client as iOS builds it, the client as     *)
(* Android builds it, and the lifecycle observer of iOS, side by side.     *)
(* part says which of them a behaviour is about.  The client of iOS is     *)
(* MobileSdk with the constants of the configuration; it stays in its      *)
(* initial state while a behaviour is about another part.                  *)
(***************************************************************************)
EXTENDS MobileSdk, TLC

CONSTANTS t1, t2, f1, f2, s1, s2, view, buy, analytics, marketing

VARIABLES
  part,
  \* the client on Android
  aConfig, aCache, aFetch, aConsent, aThread, aQueue, aFlush, aTracked, aConsents, aFetches,
  aFailures, aKills, aDenied, aExcused, aUnanswered, aLate,
  aUnpurged,
  \* the observer
  observers, centre, starting, starts, stops, active, task, flushing, released

NeedsOf == (view :> {}) @@ (buy :> {analytics, marketing})

Doc(kind, intact, own, needs) == [kind |-> kind, intact |-> intact, own |-> own, needs |-> needs]

\* A good configuration, a damaged one, and another container's that does not list view.
AnyDocuments ==
  {Doc("container", TRUE, TRUE, NeedsOf), Doc("container", FALSE, TRUE, NeedsOf),
   Doc("container", TRUE, FALSE, [NeedsOf EXCEPT ![view] = Unlisted])}

Android == INSTANCE MobileSdk WITH
  Threads <- {t1, t2}, ExclusiveFlush <- FALSE, ChecksContainer <- FALSE, AtomicCache <- FALSE,
  SwallowsSaves <- FALSE, AllowWithoutConfig <- FALSE, MaxQueue <- 1, Batch <- 1, MaxConsents <- 1, MaxFetches <- 2,
  MaxFailures <- 1,
  config <- aConfig, cache <- aCache, fetch <- aFetch, consent <- aConsent, thread <- aThread,
  queue <- aQueue, flush <- aFlush, tracked <- aTracked, consents <- aConsents,
  fetches <- aFetches, failures <- aFailures, kills <- aKills,
  denied <- aDenied, excused <- aExcused, unanswered <- aUnanswered,
  late <- aLate, unpurged <- aUnpurged

Lifecycle == INSTANCE IosLifecycle WITH
  Starters <- {s1, s2}, MaxTasks <- 3, MaxStarts <- 3, MaxStops <- 2, KeepsObserver <- FALSE

ASSUME Parameters ==
  MobileAssumption /\ Android!MobileAssumption /\ Lifecycle!LifecycleAssumption

Symmetry == Permutations({t1, t2}) \cup Permutations({f1, f2}) \cup Permutations({s1, s2})

androidVars == <<aConfig, aCache, aFetch, aConsent, aThread, aQueue, aFlush, aTracked, aConsents,
                 aFetches, aFailures, aKills, aDenied, aExcused, aUnanswered,
                 aLate, aUnpurged>>
lifecycleVars == <<observers, centre, starting, starts, stops, active, task, flushing, released>>
allVars == <<part, vars, androidVars, lifecycleVars>>

NoAndroid == /\ aConfig = 0 /\ aCache = 0 /\ aFetch = 0 /\ aConsent = 0 /\ aThread = 0
             /\ aQueue = 0 /\ aFlush = 0 /\ aTracked = 0 /\ aConsents = 0 /\ aFetches = 0
             /\ aFailures = 0 /\ aKills = 0 /\ aDenied = 0
             /\ aExcused = 0 /\ aUnanswered = 0
             /\ aLate = 0 /\ aUnpurged = 0
NoLifecycle == /\ observers = 0 /\ centre = 0 /\ starting = 0 /\ starts = 0 /\ stops = 0
               /\ active = 0 /\ task = 0 /\ flushing = 0 /\ released = 0

PartsInit ==
  /\ Init
  /\ \/ part = "ios" /\ NoAndroid /\ NoLifecycle
     \/ part = "android" /\ Android!Init /\ NoLifecycle
     \/ part = "lifecycle" /\ Lifecycle!Init /\ NoAndroid

PartsNext ==
  \/ part = "ios" /\ Next /\ UNCHANGED <<part, androidVars, lifecycleVars>>
  \/ part = "android" /\ Android!Next /\ UNCHANGED <<part, vars, lifecycleVars>>
  \/ part = "lifecycle" /\ Lifecycle!Next /\ UNCHANGED <<part, vars, androidVars>>

PartsSpec == PartsInit /\ [][PartsNext]_allVars

-----------------------------------------------------------------------------
(* What the run checks: QueueKept and ConfigAndConsentHonoured of MobileSdk, *)
(* and the properties of the other parts, as their modules state them.     *)

\* On Android too an event that was queued leaves the queue only for a reason and a
\* configuration in use was verified; registrations of the observer of iOS are never
\* lost track of, and one background task is open at most.
AndroidAndObserverSound ==
  /\ part = "android" => Android!QueueKept /\ Android!ConfigAndConsentHonoured
  /\ part = "lifecycle" => Lifecycle!LifecycleSound
=============================================================================
